-------------------------- MODULE BundleInstallations --------------------------
(***************************************************************************)
(* The agents installed from a paid copy, beside BundleBilling: a box      *)
(* installs packages of its copies, acknowledges, archives, updates and    *)
(* uninstalls them, and the last uninstall receipt (or the owner) stops    *)
(* the billing of the copy.                                                *)
(*                                                                         *)
(* Only acceptUninstallReceipt runs in a transaction.  A request of        *)
(* several statements, or one that calls the provider, is a worker that    *)
(* takes one step per statement and can stop after any of them; the box    *)
(* then retries with a fresh idempotency key.  Versions are left out: an   *)
(* update is newer than what is installed.                                 *)
(***************************************************************************)
EXTENDS BundleBilling

CONSTANT Workers    \* requests of the box in flight

VARIABLES
    work,       \* what each worker has read and has still to do
    receipts,   \* company_os_uninstall_receipts, by installation
    acks,       \* company_os_billing_acknowledgements
    answered,   \* observation: installations whose last receipt was answered
    halfway     \* observation: subscriptions of which a cancellation was
                \* written by half, or when it had been taken back

requestVars == <<receipts, acks, answered, halfway>>
vars == <<installs, billingVars, work, requestVars>>

NoWork == [step |-> "idle", sub |-> 0, inst |-> NoInst, package |-> NoInst]

Work == [step : {"idle", "chosen", "reserved", "updating", "received",
                 "cancelling", "scheduling", "mirroring", "marking"},
         sub : 0 .. MaxSubs, inst : InstIds \union {NoInst},
         package : Packages \union {NoInst}]

Init ==
    /\ BillingInit
    /\ work = [w \in Workers |-> NoWork]
    /\ receipts = {}
    /\ acks = {}
    /\ answered = {}
    /\ halfway = {}

Done(w) == work' = [work EXCEPT ![w] = NoWork]

Goes(w, step) == work' = [work EXCEPT ![w].step = step]

Idling(w) == work[w].step = "idle"

LiveOn(s) == {i \in InstIds : LiveInstall(i, s)}

-------------------------------------------------------------------------------
\* POST store/installations: createStoreInstallation

\* Mutated form of Installable: the package may be there already.
InstallableTwice(s, p, i) ==
    subs[s].state = "active" /\ installs[i].state = "none"

\* Everything it checks before it writes.
Installable(s, p, i) ==
    /\ subs[s].state = "active"
    /\ \A u \in SubIds \ {s} :
          i # subs[s].reserved /\ subs[u].reserved = i => ~InLiveIndex(subs[u])
    /\ \A j \in LiveOn(s) : installs[j].package # p
    /\ installs[i].state = "none"

\* The id is the box's, the reservation, or a fresh one.
InstallRead(w, s, p, i) ==
    /\ Idling(w)
    /\ Installable(s, p, i)
    /\ work' = [work EXCEPT ![w] = [step |-> "chosen", sub |-> s, inst |-> i,
                                    package |-> p]]
    /\ UNCHANGED <<installs, billingVars, requestVars>>

\* COALESCE(requested_installation_id, id)
ReservedFor(w) ==
    [subs EXCEPT ![work[w].sub].reserved = IF @ = NoInst THEN work[w].inst ELSE @]

InstallReserve(w) ==
    /\ work[w].step = "chosen"
    /\ IndexesAccept(ReservedFor(w))
    /\ subs' = ReservedFor(w)
    /\ Goes(w, "reserved")
    /\ UNCHANGED <<installs, checkoutPc, seen, providerVars, webhookVars, requestVars>>

\* The primary key refuses an id that was taken in the meantime.
InstallInsert(w) ==
    LET i == work[w].inst IN
    /\ work[w].step = "reserved"
    /\ installs[i].state = "none"
    /\ installs' = [installs EXCEPT ![i] =
                      [NoInstRow EXCEPT !.state = "entitled", !.sub = work[w].sub,
                                        !.package = work[w].package,
                                        !.subState = "active"]]
    /\ Done(w)
    /\ UNCHANGED <<billingVars, requestVars>>

-------------------------------------------------------------------------------
\* Requests that are one guarded statement

\* The statement moves installation i to a state.
Moves(i, from, to) ==
    /\ installs[i].state \in from
    /\ installs' = [installs EXCEPT ![i].state = to]
    /\ UNCHANGED <<billingVars, work, requestVars>>

\* packageDownload; any other state it serves is left as it is.
PackageDownload(i) == Moves(i, {"entitled"}, "downloading")

\* Mutated form of AcknowledgeInstall: the state is not looked at.
AcknowledgeInstallAnyState(i) == Moves(i, InstStates \ {"none"}, "active")

AcknowledgeInstall(i) == Moves(i, {"entitled", "downloading", "active"}, "active")

ArchiveInstallation(i) == Moves(i, {"active", "disabled"}, "disabled")

RequestUninstall(i) ==
    /\ installs[i].state \in {"active", "disabled", "uninstall_pending"}
    /\ installs' = [installs EXCEPT ![i].state = "uninstall_pending",
                                    ![i].subState = "cancellation_pending_uninstall"]
    /\ UNCHANGED <<billingVars, work, requestVars>>

\* confirmPackageUpdate looks at the state first ...
UpdateRead(w, i) ==
    /\ Idling(w)
    /\ installs[i].state = "active"
    /\ subs[installs[i].sub].state = "active"
    /\ work' = [work EXCEPT ![w] = [NoWork EXCEPT !.step = "updating", !.inst = i]]
    /\ UNCHANGED <<installs, billingVars, requestVars>>

\* ... and its UPDATE asks for the version only.
UpdateApply(w) ==
    /\ work[w].step = "updating"
    /\ installs' = [installs EXCEPT ![work[w].inst].state = "active"]
    /\ Done(w)
    /\ UNCHANGED <<billingVars, requestVars>>

-------------------------------------------------------------------------------
\* POST uninstall-receipts

ReceiptScope(i) == installs[i].state = "uninstall_pending"

\* acceptUninstallReceipt, its transaction.
ReceiptAccept(w, i) ==
    /\ Idling(w)
    /\ ReceiptScope(i)
    /\ installs' = [installs EXCEPT ![i].state = "removed"]
    /\ receipts' = receipts \union {i}
    /\ answered' = answered \ {i}
    /\ work' = [work EXCEPT ![w] = [NoWork EXCEPT !.step = "received", !.inst = i]]
    /\ UNCHANGED <<billingVars, acks, halfway>>

\* The same receipt again: the first answer was lost, or never given.
ReceiptReplay(w, i) ==
    /\ Idling(w)
    /\ i \in receipts
    /\ work' = [work EXCEPT ![w] = [NoWork EXCEPT !.step = "received", !.inst = i]]
    /\ UNCHANGED <<installs, billingVars, requestVars>>

\* Mutated form of Remaining: removed packages are counted.
RemainingRows(i) == {j \in InstIds \ {i} : Rides(j, installs[i].sub)}

\* otherInstallationsOnSubscription
Remaining(i) == LiveOn(installs[i].sub) \ {i}

\* Other packages remain: the copy stays.
AnswerRemaining(w) ==
    LET i == work[w].inst IN
    /\ work[w].step = "received"
    /\ Remaining(i) # {}
    /\ answered' = answered \union {i}
    /\ Done(w)
    /\ UNCHANGED <<installs, billingVars, receipts, acks, halfway>>

\* Mutated form of LastRemoved: the provider is not called.
LastRemovedLocally(w) ==
    LET s == installs[work[w].inst].sub IN
    /\ work[w].step = "received"
    /\ Remaining(work[w].inst) = {}
    /\ subs[s].linked
    /\ work' = [work EXCEPT ![w].step = "scheduling", ![w].sub = s]
    /\ UNCHANGED <<installs, billingVars, requestVars>>

\* The last one: the subscription of the copy is to be cancelled.
LastRemoved(w) ==
    LET s == installs[work[w].inst].sub IN
    /\ work[w].step = "received"
    /\ Remaining(work[w].inst) = {}
    /\ subs[s].linked
    /\ work' = [work EXCEPT ![w].step = "cancelling", ![w].sub = s]
    /\ UNCHANGED <<installs, billingVars, requestVars>>

-------------------------------------------------------------------------------
\* POST store/subscriptions/cancel, and the end of POST uninstall-receipts

\* Mutated form of Cancellable: the installations are not counted.
CancellableAnyway(s) == subs[s].linked /\ subs[s].state \in {"active", "past_due"}

Cancellable(s) ==
    /\ subs[s].linked
    /\ subs[s].state \in {"active", "past_due"}
    /\ LiveOn(s) = {}

CancelRead(w, s) ==
    /\ Idling(w)
    /\ Cancellable(s)
    /\ work' = [work EXCEPT ![w] = [NoWork EXCEPT !.step = "cancelling", !.sub = s]]
    /\ UNCHANGED <<installs, billingVars, requestVars>>

\* cancelAtPeriodEnd: the flag is set on a subscription that lacks it.
ProviderCancels(w) ==
    LET s == work[w].sub IN
    /\ work[w].step = "cancelling"
    /\ IF sold[s].state = "ended" \/ sold[s].cancel
       THEN UNCHANGED <<sold, sent>>
       ELSE /\ Len(sent) < MaxEvents
            /\ sold' = [sold EXCEPT ![s].cancel = TRUE]
            /\ sent' = Append(sent, Message(KindOf(s, "subscription_cancel_scheduled"), s, FALSE))
    /\ Goes(w, "scheduling")
    /\ UNCHANGED <<tableVars, checkoutPc, seen, checkouts, webhookVars, requestVars>>

\* scheduleBundleCancellation, on the pool: the row ...
ScheduleRow(w) ==
    LET s == work[w].sub IN
    /\ work[w].step = "scheduling"
    /\ subs' = [subs EXCEPT ![s] = Scheduled(@)]
    /\ halfway' = IF subs[s].state \in {"active", "past_due"}
                  THEN halfway \union {s} ELSE halfway
    /\ Goes(w, "mirroring")
    /\ UNCHANGED <<installs, checkoutPc, seen, providerVars, webhookVars, receipts,
                   acks, answered>>

\* What a statement that dates installations leaves of halfway.
HalfwayAfter(s) ==
    IF subs[s].state \in Stopping THEN halfway \ {s} ELSE halfway \union {s}

\* ... and, in a statement of its own, the installations.  A cancellation of
\* the owner's is then answered.
ScheduleMirror(w) ==
    LET s == work[w].sub IN
    /\ work[w].step = "mirroring"
    /\ installs' = ScheduledOn(s)
    /\ halfway' = HalfwayAfter(s)
    /\ IF work[w].inst = NoInst THEN Done(w) ELSE Goes(w, "marking")
    /\ UNCHANGED <<billingVars, receipts, acks, answered>>

\* markCancellationPending, of the installation the receipt is about, and the
\* answer.
MarkPending(w) ==
    LET i == work[w].inst IN
    /\ work[w].step = "marking"
    /\ IF installs[i].state = "removed"
             /\ installs[i].subState = "cancellation_pending_uninstall"
       THEN /\ installs' = [installs EXCEPT ![i].subState = "cancel_at_period_end",
                                            ![i].cancelAt = TRUE]
            /\ halfway' = IF subs[work[w].sub].state \in Stopping THEN halfway
                          ELSE halfway \union {work[w].sub}
       ELSE UNCHANGED <<installs, halfway>>
    /\ answered' = answered \union {i}
    /\ Done(w)
    /\ UNCHANGED <<billingVars, receipts, acks>>

\* A statement or the provider fails, or the function is stopped.
Fail(w) ==
    /\ ~Idling(w)
    /\ Done(w)
    /\ UNCHANGED <<installs, billingVars, requestVars>>

-------------------------------------------------------------------------------
\* GET billing

\* billing_stopped_at ?? billing_cancel_effective_at
StopDated(i) == i \in receipts /\ (installs[i].stopped \/ installs[i].cancelAt)

\* The acknowledgement is signed once for each state it can name.
Billing(i) ==
    /\ StopDated(i)
    /\ acks' = acks \union {<<i, installs[i].subState>>}
    /\ UNCHANGED <<installs, billingVars, work, receipts, answered, halfway>>

-------------------------------------------------------------------------------
BillingStep == BillingNext /\ UNCHANGED <<work, requestVars>>

InstallStep(w) ==
    \/ \E s \in SubIds, p \in Packages, i \in InstIds : InstallRead(w, s, p, i)
    \/ InstallReserve(w)
    \/ InstallInsert(w)

UpdateStep(w) == (\E i \in InstIds : UpdateRead(w, i)) \/ UpdateApply(w)

UninstallStep(w) ==
    \/ \E i \in InstIds : ReceiptAccept(w, i) \/ ReceiptReplay(w, i)
    \/ AnswerRemaining(w)
    \/ LastRemoved(w)
    \/ \E s \in SubIds : CancelRead(w, s)
    \/ ProviderCancels(w)
    \/ ScheduleRow(w)
    \/ ScheduleMirror(w)
    \/ MarkPending(w)

BoxStep(i) ==
    \/ PackageDownload(i)
    \/ AcknowledgeInstall(i)
    \/ ArchiveInstallation(i)
    \/ RequestUninstall(i)
    \/ Billing(i)

Next ==
    \/ BillingStep
    \/ \E w \in Workers : \/ InstallStep(w)
                           \/ UpdateStep(w)
                           \/ UninstallStep(w)
                           \/ Fail(w)
    \/ \E i \in InstIds : BoxStep(i)

Spec == Init /\ [][Next]_vars

-------------------------------------------------------------------------------
(***************************************************************************)
(* Properties                                                              *)
(***************************************************************************)

\* Variables stay in their types: no request leaves an installation, a
\* worker or an acknowledgement in a state the code does not name.
TypeOK ==
    /\ BillingTypeOK
    /\ work \in [Workers -> Work]
    /\ receipts \subseteq InstIds
    /\ acks \subseteq InstIds \X MirrorStates
    /\ answered \subseteq InstIds
    /\ halfway \subseteq SubIds

\* An owner who removed every agent of a copy, and got an answer for every
\* receipt, does not go on paying: the provider was told to stop, however the
\* last receipts raced with each other, with installations and with failures.
\* Only the owner can take that back.  (uninstallReceipts)
LastGoneStopsBilling ==
    \A s \in SubIds :
        LET rows == {i \in InstIds : Rides(i, s)} IN
        /\ rows # {}
        /\ \A i \in rows : installs[i].state = "removed" /\ i \in answered
        => sold[s].cancel \/ sold[s].kept \/ sold[s].state = "ended"

\* FAIVR never signs that billing stops before the provider was told: an
\* acknowledgement can be had only for a subscription that is cancelled at
\* the provider, or was until the owner took it back.  (billing)
AckTruthful ==
    \A i \in InstIds :
        StopDated(i) =>
            LET s == installs[i].sub
            IN  sold[s].cancel \/ sold[s].kept \/ sold[s].state = "ended"

StopNames == Stopping \union {"cancellation_pending_uninstall"}

\* What FAIVR signs names a state in which billing stops: the state and the
\* date of an acknowledgement are two columns, written by eight statements,
\* and no order of them leaves a date beside a running state.  Two things can:
\* a refresh that dates a cancellation taken back, and a cancellation of which
\* the row is written and the installations are not, or not in time; until
\* the request is done again.  (billing, scheduleBundleCancellation)
AckNamesStop ==
    [][\A i \in InstIds, state \in MirrorStates :
          <<i, state>> \in acks' \ acks =>
              state \in StopNames \/ installs[i].sub \in outdated \union halfway]_vars

\* One request at a time, a copy never carries a package twice.
\* (createStoreInstallation's package_already_installed)
PackageOnceACopy ==
    \A s \in SubIds : \A i, j \in LiveOn(s) :
        i # j => installs[i].package # installs[j].package

\* One request at a time, the store asks the provider to cancel a copy only
\* when nothing is installed from it.  (uninstallReceipts, storeSubscriptionCancel)
CancelsEmptyCopies ==
    [][\A s \in SubIds :
          work' # work /\ ~sold[s].cancel /\ sold'[s].cancel => LiveOn(s) = {}]_vars

\* An accepted receipt is final: the installation it removed never comes back.
\* (acceptUninstallReceipt against acknowledgeInstall, confirmPackageUpdate,
\* archiveInstallation and packageDownload)
RemovedIsFinal ==
    [][\A i \in InstIds : installs[i].state = "removed" =>
            installs'[i].state = "removed"]_installs

\* As the code's comment has it: whenever an event changes the state of a
\* subscription, its installations follow.
MirrorDerived ==
    [][\A s \in SubIds, i \in InstIds :
          processed' # processed /\ Rides(i, s) /\ subs'[s].state # subs[s].state =>
              installs'[i].subState = subs'[s].state]_vars
===============================================================================
