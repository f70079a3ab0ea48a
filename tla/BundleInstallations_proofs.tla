---------------------- MODULE BundleInstallations_proofs ----------------------
(***************************************************************************)
(* The billing of a copy stops when the last of its agents is gone, and    *)
(* what FAIVR signs about it is true, for every number of installations,   *)
(* packages, copies and requests in flight.                                *)
(***************************************************************************)
EXTENDS BundleInstallations, BundleBilling_proofs

\* The provider was told that billing is to stop, or that is over.
Given(sub) == sub.cancel \/ sub.kept \/ sub.state = "ended"
Told(s) == Given(sold[s])

Dated(i) == installs[i].cancelAt \/ installs[i].stopped

Leaving(i) == i \in receipts \/ installs[i].state \in {"uninstall_pending", "removed"}

\* Subscriptions beside which a date of an installation may stand alone.
Doubtful == outdated \union halfway

\* What the columns of an installation say of its subscription.  Once it is on
\* its way out, its mirror of the state names a stop wherever the subscription
\* stops or the installation is dated, if no cancellation is half written.
Mirrors(row, leaving) ==
    /\ row.cancelAt \/ row.stopped =>
          subs[row.sub].state \in Stopping \/ row.sub \in Doubtful
    /\ row.stopped => subs[row.sub].state = "cancelled"
    /\ leaving /\ subs[row.sub].state \in Stopping =>
          row.subState \in StopNames \/ row.sub \in halfway
    /\ leaving /\ (row.cancelAt \/ row.stopped) =>
          row.subState \in StopNames \/ row.sub \in Doubtful

\* An installation rides a paid copy.
RiderTrue(i) ==
    LET row == installs[i] IN
    /\ i \in receipts => row.state # "none"
    /\ row.state # "none" =>
          /\ row.sub \in SubIds
          /\ subs[row.sub].linked
          /\ Mirrors(row, Leaving(i))

\* The statements that come after the call to the provider.
Late == {"scheduling", "mirroring", "marking"}

\* What a worker carries from one statement to the next.
WorkTrue(w) ==
    LET job == work[w] IN
    /\ job.step \in {"chosen", "reserved"} =>
          /\ job.sub \in SubIds /\ subs[job.sub].linked
          /\ job.inst \in InstIds /\ job.package \in Packages
    /\ job.step \in {"updating", "received"} =>
          job.inst \in InstIds /\ installs[job.inst].state # "none"
    /\ job.step \in {"cancelling"} \union Late =>
          /\ job.sub \in SubIds /\ subs[job.sub].linked
          /\ job.inst # NoInst => Rides(job.inst, job.sub)
    /\ job.step = "marking" => job.inst # NoInst

RequestsTyped ==
    /\ work \in [Workers -> Work]
    /\ receipts \subseteq InstIds
    /\ acks \subseteq InstIds \X MirrorStates
    /\ answered \subseteq InstIds
    /\ halfway \subseteq SubIds

\* The rows, the requests and the installations.
InstInv ==
    /\ RequestsTyped
    /\ \A i \in InstIds : RiderTrue(i)
    /\ \A w \in Workers : WorkTrue(w)

\* Whoever says that a subscription stops has it from the provider.
NoticeInv ==
    /\ \A s \in SubIds :
          /\ sold[s].cancel \/ sold[s].kept => sold[s].state # "none"
          /\ checkouts[s] = "paid" => sold[s].state # "none"
          /\ subs[s].linked /\ subs[s].state \in Stopping => Told(s)
    /\ \A e \in Events :
          sent[e].kind \in {"subscription_cancel_scheduled", "subscription_ended"}
            => Told(sent[e].sub)
    /\ \A c \in Reconcilers :
          seen[c] # Nothing /\ seen[c].outcome = "cancelling" => Told(seen[c].sub)
    /\ \A w \in Workers : work[w].step \in Late => Told(work[w].sub)
    /\ \A s \in halfway : Told(s)

\* The messages that stop a row.
StopKinds == {"subscription_cancel_scheduled", "subscription_ended"}

\* One request of the box at a time.
OneWorker == \A v, w \in Workers : v = w

\* What one worker knows stays true until it is done.
AloneTrue(w) ==
    LET job == work[w] IN
    /\ job.step \in {"chosen", "reserved"} =>
          \A j \in LiveOn(job.sub) : installs[j].package # job.package
    /\ job.step = "updating" => installs[job.inst].state # "removed"
    /\ job.step = "received" => installs[job.inst].state = "removed"
    /\ job.step = "cancelling" => LiveOn(job.sub) = {}

AloneInv ==
    /\ \A i \in receipts : installs[i].state = "removed"
    /\ \A w \in Workers : AloneTrue(w)
    /\ PackageOnceACopy

-------------------------------------------------------------------------------
\* What a step of billing does to paid copies and their installations

\* Only a message rewrites a linked row, or an installation.
LEMMA LinkedKept ==
    ASSUME IInv, CheckoutNext \/ ProviderNext \/ ReconcileNext
    PROVE  /\ installs' = installs
           /\ \A s \in SubIds :
                /\ subs[s].linked => subs'[s] = subs[s]
                /\ subs'[s].linked /\ subs'[s].state \in Stopping /\ ~subs[s].linked =>
                      \E c \in Reconcilers :
                         /\ seen[c] # Nothing /\ seen[c].sub = s
                         /\ seen[c].outcome = "cancelling"
<1>0. /\ subs \in [SubIds -> SubRow] /\ \A s \in SubIds : RowTrue(s)
  BY DEF IInv, BillingTypeOK, TablesTypeOK
<1> DEFINE Goal == /\ installs' = installs
                   /\ \A s \in SubIds :
                        /\ subs[s].linked => subs'[s] = subs[s]
                        /\ subs'[s].linked /\ subs'[s].state \in Stopping /\ ~subs[s].linked =>
                              \E c \in Reconcilers :
                                 /\ seen[c] # Nothing /\ seen[c].sub = s
                                 /\ seen[c].outcome = "cancelling"
<1>1. CASE UNCHANGED <<subs, installs>>
  BY <1>1
<1>2. ASSUME NEW r \in Requests, CheckoutInsert(r) PROVE Goal
  <2>1. NextSub \in SubIds /\ subs[NextSub].state = "none"
    BY <1>2, NextSlot DEF CheckoutInsert, SubIds
  <2>2. ~subs[NextSub].linked
    BY <2>1 DEF IInv, RowTrue, NoSub
  <2>3. PICK new \in SubRow : subs' = [subs EXCEPT ![NextSub] = new] /\ ~new.linked
    <3> DEFINE new == [NoSub EXCEPT !.state = "checkout_pending",
                                    !.copy = checkoutPc[r].copy,
                                    !.reserved = checkoutPc[r].reserved]
    <3>1. checkoutPc[r] \in CheckoutPc
      BY DEF IInv, BillingTypeOK
    <3>2. new \in SubRow /\ ~new.linked
      BY <3>1 DEF NoSub, SubRow, SubStates, CheckoutPc
    <3>3. subs' = [subs EXCEPT ![NextSub] = new]
      BY <1>2 DEF CheckoutInsert, Inserted
    <3> HIDE DEF new
    <3> QED
      BY <3>2, <3>3
  <2>4. installs' = installs
    BY <1>2 DEF CheckoutInsert
  <2> QED
    BY <1>0, <2>1, <2>2, <2>3, <2>4
<1>3. ASSUME NEW r \in Requests, CheckoutRecord(r) \/ CheckoutAbort(r) PROVE Goal
  <2>1. PICK s \in SubIds : s = checkoutPc[r].sub
    BY <1>3, HandlerRow DEF CheckoutRecord, CheckoutAbort
  <2>2. ~subs[s].linked
    BY <1>3, <2>1, HandlerRow DEF CheckoutRecord, CheckoutAbort
  <2>3. /\ installs' = installs
        /\ \/ subs' = subs
           \/ subs' = [subs EXCEPT ![s].checkout = TRUE]
           \/ subs' = [subs EXCEPT ![s].state = "cancelled", ![s].stopped = TRUE]
    BY <1>3, <2>1 DEF CheckoutRecord, CheckoutAbort
  <2>4. subs'[s].linked = subs[s].linked
    BY <1>0, <2>3 DEF SubRow
  <2>5. \A u \in SubIds \ {s} : subs'[u] = subs[u]
    BY <1>0, <2>3
  <2> QED
    BY <2>2, <2>3, <2>4, <2>5
<1>4. ASSUME NEW c \in Reconcilers, ReconcileApply(c) PROVE Goal
  <2>1. PICK s \in SubIds : s = seen[c].sub
    BY <1>4 DEF ReconcileApply, IInv, SeenTrue
  <2>2. installs' = installs /\ seen[c] # Nothing
    BY <1>4 DEF ReconcileApply
  <2>3. CASE ~Reconcilable(subs[s])
    BY <1>4, <2>1, <2>2, <2>3 DEF ReconcileApply
  <2>4. CASE Reconcilable(subs[s])
    <3>1. ~subs[s].linked
      BY <1>0, <2>4 DEF RowTrue, Reconcilable
    <3>2. subs' = [subs EXCEPT ![s] = Reconciled(subs[s], seen[c].outcome)]
      BY <1>4, <2>1, <2>4 DEF ReconcileApply
    <3>3. seen[c] \in View
      BY DEF IInv, BillingTypeOK
    <3>4. LET new == Reconciled(subs[s], seen[c].outcome)
          IN  new.linked /\ new.state \in Stopping => seen[c].outcome = "cancelling"
      BY <1>0, <3>1, <3>3 DEF Reconciled, SubRow, View, Stopping
    <3> QED
      BY <1>0, <2>1, <2>2, <3>1, <3>2, <3>4
  <2> QED
    BY <2>3, <2>4
<1>5. CASE CheckoutNext
  BY <1>1, <1>2, <1>3, <1>5
  DEF CheckoutNext, CheckoutSelect, CheckoutStop, tableVars
<1>6. CASE ProviderNext
  BY <1>1, <1>6
  DEF ProviderNext, OwnerPays, CheckoutExpires, PaymentFails, PaymentSucceeds,
      OwnerCancels, OwnerUncancels, SubscriptionEnds, ProviderRefreshes, Changes,
      tableVars
<1>7. CASE ReconcileNext
  BY <1>1, <1>4, <1>7 DEF ReconcileNext, ReconcileRead, ReconcileStop, tableVars
<1> QED
  BY <1>5, <1>6, <1>7

\* The transitions a message makes, by itself or by what it refreshes.
LEMMA MarkingStep ==
    ASSUME IInv, NEW e \in Events, WebhookMarks(e) \/ RefreshMarks(e)
    PROVE  \E tr \in Transitions :
              /\ MarksRow(sent[e].sub, tr)
              /\ subs[sent[e].sub].state \in LeavesFrom(tr)
              /\ tr \in {"cancelled", "cancel_at_period_end"} =>
                    sent[e].kind \in StopKinds
<1>1. sent[e] \in Event
  BY MessageTyped DEF IInv
<1>2. CASE WebhookMarks(e)
  <2> DEFINE tr == TransitionOf(e)
  <2>1. tr \in Transitions
    BY <1>1, <1>2 DEF Event, TransitionOf, Transitions, WebhookMarks, Marks
  <2>2. tr \in {"cancelled", "cancel_at_period_end"} => sent[e].kind \in StopKinds
    BY <1>1, <1>2 DEF Event, TransitionOf, StopKinds, WebhookMarks, Marks
  <2> HIDE DEF tr
  <2>3. MarksRow(sent[e].sub, tr) /\ subs[sent[e].sub].state \in LeavesFrom(tr)
    BY <1>2 DEF WebhookMarks, Marks, Markable, tr
  <2> QED
    BY <2>1, <2>2, <2>3
<1>3. CASE RefreshMarks(e)
  <2> DEFINE tr == RefreshTransition(e)
  <2>1. tr \in {"past_due", "active"}
    BY <1>3 DEF RefreshMarks, RefreshTransition
  <2>2. MarksRow(sent[e].sub, tr) /\ subs[sent[e].sub].state \in LeavesFrom(tr)
    BY <1>3 DEF RefreshMarks, Markable
  <2> QED
    BY <2>1, <2>2 DEF Transitions
<1> QED
  BY <1>2, <1>3

\* What a step of billing does to one row and its installations.
RowMoves(s) ==
    \/ /\ \/ subs'[s].state = subs[s].state
          \/ {subs[s].state, subs'[s].state} \subseteq {"active", "past_due"}
       /\ \A i \in InstIds : Rides(i, s) => installs'[i] = installs[i]
    \/ /\ subs'[s].state = subs[s].state
       /\ subs[s].state \in Stopping \/ s \in outdated'
       /\ \A i \in InstIds : Rides(i, s) =>
              installs'[i] = [installs[i] EXCEPT !.cancelAt = TRUE]
    \/ \E t \in Transitions :
          /\ subs[s].state \in LeavesFrom(t) /\ subs'[s].state = StateAfter(t)
          /\ \A i \in InstIds : Rides(i, s) => installs'[i] = MarkedInst(installs[i], t)

\* A paid copy stays paid; its state moves with its installations.
LEMMA RowMoved ==
    ASSUME IInv, BillingNext, NEW s \in SubIds, subs[s].linked
    PROVE  subs'[s].linked /\ RowMoves(s)
<1>0. /\ subs \in [SubIds -> SubRow] /\ installs \in [InstIds -> InstRow]
      /\ RowTrue(s)
  BY DEF IInv, BillingTypeOK, TablesTypeOK
<1>1. CASE CheckoutNext \/ ProviderNext \/ ReconcileNext
  <2>1. subs'[s] = subs[s] /\ installs' = installs
    BY <1>1, LinkedKept
  <2> QED
    BY <2>1 DEF RowMoves
<1>2. ASSUME NEW e \in Events, WebhookActivates(e) PROVE subs'[s].linked /\ RowMoves(s)
  <2>1. PICK u \in SubIds : u = sent[e].sub
    BY MessageTyped DEF IInv
  <2>2. /\ subs' = [subs EXCEPT ![u] = Activated(subs[u])] /\ installs' = installs
        /\ Activatable(subs[u])
    BY <1>2, <2>1 DEF WebhookActivates, Activates, Activation
  <2>3. CASE u # s
    BY <1>0, <2>2, <2>3 DEF RowMoves
  <2>4. CASE u = s
    <3>1. subs[s].state \in {"active", "past_due"}
      BY <1>0, <2>2, <2>4 DEF Activatable, RowTrue
    <3>2. subs'[s].state = "active" /\ subs'[s].linked
      BY <1>0, <2>2, <2>4 DEF Activated, SubRow
    <3> QED
      BY <2>2, <3>1, <3>2 DEF RowMoves
  <2> QED
    BY <2>3, <2>4
<1>3. ASSUME NEW u \in SubIds, NEW tr \in Transitions, MarksRow(u, tr),
             subs[u].state \in LeavesFrom(tr)
      PROVE  subs'[s].linked /\ RowMoves(s)
  <2>1. /\ subs' = [subs EXCEPT ![u] = Marked(subs[u], tr)]
        /\ installs' = MarkedOn(u, tr)
    BY <1>3 DEF MarksRow
  <2>2. CASE u # s
    <3>1. subs'[s] = subs[s]
      BY <1>0, <2>1, <2>2
    <3>2. \A i \in InstIds : Rides(i, s) => installs'[i] = installs[i]
      BY <2>1, <2>2 DEF MarkedOn, Rides
    <3> QED
      BY <3>1, <3>2 DEF RowMoves
  <2>3. CASE u = s
    <3>1. subs'[s].state = StateAfter(tr) /\ subs'[s].linked
      BY <1>0, <2>1, <2>3 DEF Marked, SubRow
    <3>2. \A i \in InstIds : Rides(i, s) => installs'[i] = MarkedInst(installs[i], tr)
      BY <2>1, <2>3 DEF MarkedOn
    <3> QED
      BY <1>3, <2>3, <3>1, <3>2 DEF RowMoves
  <2> QED
    BY <2>2, <2>3
<1>4. ASSUME NEW e \in Events, WebhookMarks(e) \/ RefreshMarks(e)
      PROVE  subs'[s].linked /\ RowMoves(s)
  <2>1. PICK u \in SubIds : u = sent[e].sub
    BY MessageTyped DEF IInv
  <2>2. PICK tr \in Transitions :
          MarksRow(u, tr) /\ subs[u].state \in LeavesFrom(tr)
    BY <1>4, <2>1, MarkingStep
  <2> QED
    BY <1>3, <2>2
<1>5. ASSUME NEW e \in Events, RefreshDates(e) PROVE subs'[s].linked /\ RowMoves(s)
  <2>1. PICK u \in SubIds : u = sent[e].sub
    BY MessageTyped DEF IInv
  <2>2. /\ subs[u].state \in Stopping \/ u \in outdated'
        /\ subs' = [subs EXCEPT ![u].cancelAt = TRUE]
        /\ installs' = [i \in InstIds |->
                          [installs[i] EXCEPT !.cancelAt = @ \/ Rides(i, u)]]
    BY <1>5, <2>1 DEF RefreshDates
  <2>3. subs'[s].state = subs[s].state /\ subs'[s].linked
    BY <1>0, <2>2 DEF SubRow
  <2>4. CASE u # s
    <3>1. ASSUME NEW i \in InstIds, Rides(i, s) PROVE installs'[i] = installs[i]
      <4>1. ~Rides(i, u)
        BY <2>4, <3>1 DEF Rides
      <4>2. installs[i] \in InstRow
        BY <1>0
      <4>3. (installs[i].cancelAt \/ Rides(i, u)) = installs[i].cancelAt
        BY <4>1, <4>2 DEF InstRow
      <4>4. installs'[i] = [installs[i] EXCEPT !.cancelAt = installs[i].cancelAt]
        BY <2>2, <4>3
      <4> QED
        BY <4>2, <4>4 DEF InstRow
    <3> QED
      BY <2>3, <3>1 DEF RowMoves
  <2>5. CASE u = s
    <3>1. ASSUME NEW i \in InstIds, Rides(i, s)
          PROVE  installs'[i] = [installs[i] EXCEPT !.cancelAt = TRUE]
      <4>1. (installs[i].cancelAt \/ Rides(i, u)) = TRUE
        BY <2>5, <3>1 DEF Rides
      <4> QED
        BY <2>2, <4>1
    <3> QED
      BY <2>2, <2>3, <2>5, <3>1 DEF RowMoves
  <2> QED
    BY <2>4, <2>5
<1>6. ASSUME UNCHANGED tableVars PROVE subs'[s].linked /\ RowMoves(s)
  BY <1>6 DEF tableVars, RowMoves
<1>7. CASE WebhookNext
  BY <1>2, <1>4, <1>5, <1>6, <1>7
  DEF WebhookNext, WebhookRefused, WebhookIgnored, RefreshRead, RefreshEnds,
      RefreshStops
<1> QED
  BY <1>1, <1>7 DEF BillingNext

\* The columns billing never writes.
SamePlace(i) ==
    /\ installs'[i].state = installs[i].state
    /\ installs'[i].sub = installs[i].sub
    /\ installs'[i].package = installs[i].package

\* Billing neither installs nor removes.
LEMMA PlacesKept ==
    ASSUME IInv, BillingNext, NEW i \in InstIds
    PROVE  SamePlace(i)
<1>1. installs[i] \in InstRow
  BY DEF IInv, BillingTypeOK, TablesTypeOK
<1>2. CASE installs' = installs
  BY <1>2 DEF SamePlace
<1>3. ASSUME NEW e \in Events, WebhookMarks(e) \/ RefreshMarks(e) PROVE SamePlace(i)
  <2>1. PICK tr : installs'[i] \in {installs[i], MarkedInst(installs[i], tr)}
    BY <1>3 DEF WebhookMarks, RefreshMarks, MarksRow, MarkedOn
  <2> QED
    BY <1>1, <2>1 DEF MarkedInst, SamePlace, InstRow
<1>4. ASSUME NEW e \in Events, RefreshDates(e) PROVE SamePlace(i)
  <2>1. PICK v : installs'[i] = [installs[i] EXCEPT !.cancelAt = v]
    BY <1>4 DEF RefreshDates
  <2> QED
    BY <1>1, <2>1 DEF SamePlace, InstRow
<1>5. CASE WebhookNext
  BY <1>2, <1>3, <1>4, <1>5
  DEF WebhookNext, WebhookActivates, WebhookRefused, WebhookIgnored, RefreshRead,
      RefreshEnds, RefreshStops, tableVars
<1> QED
  BY <1>2, <1>5, LinkedKept DEF BillingNext

\* Billing takes back no refresh.
LEMMA OutdatedGrows ==
    ASSUME BillingNext
    PROVE  outdated \subseteq outdated'
<1>1. CASE CheckoutNext
  BY <1>1
  DEF CheckoutNext, CheckoutSelect, CheckoutInsert, CheckoutRecord, CheckoutAbort,
      CheckoutStop, webhookVars
<1>2. CASE ProviderNext
  BY <1>2
  DEF ProviderNext, OwnerPays, CheckoutExpires, PaymentFails, PaymentSucceeds,
      OwnerCancels, OwnerUncancels, SubscriptionEnds, ProviderRefreshes, Changes,
      webhookVars
<1>3. CASE WebhookNext
  BY <1>3
  DEF WebhookNext, WebhookActivates, WebhookRefused, WebhookMarks, WebhookIgnored,
      RefreshRead, RefreshDates, RefreshMarks, RefreshEnds, RefreshStops
<1>4. CASE ReconcileNext
  BY <1>4
  DEF ReconcileNext, ReconcileRead, ReconcileApply, ReconcileStop, webhookVars
<1> QED
  BY <1>1, <1>2, <1>3, <1>4 DEF BillingNext

\* An installation keeps riding a paid copy, and its dates follow the copy.
LEMMA RiderMoved ==
    ASSUME IInv, BillingNext, NEW i \in InstIds, RiderTrue(i),
           receipts' = receipts, halfway' = halfway
    PROVE  RiderTrue(i)'
<1>1. installs[i] \in InstRow /\ installs'[i] \in InstRow
  BY StepInv DEF IInv, BillingTypeOK, TablesTypeOK
<1>2. SamePlace(i) /\ Doubtful \subseteq Doubtful'
  BY PlacesKept, OutdatedGrows DEF Doubtful
<1>3. CASE installs[i].state = "none"
  BY <1>2, <1>3 DEF RiderTrue, SamePlace
<1>4. CASE installs[i].state # "none"
  <2>1. PICK s \in SubIds : s = installs[i].sub
    BY <1>4 DEF RiderTrue
  <2>2. /\ subs[s].linked /\ Rides(i, s)
        /\ Mirrors(installs[i], Leaving(i))
    BY <1>4, <2>1 DEF RiderTrue, Rides
  <2>3. subs'[s].linked /\ RowMoves(s)
    BY <2>2, RowMoved
  <2>4. /\ Leaving(i)' <=> Leaving(i)
        /\ installs'[i].sub = s /\ installs'[i].state # "none"
    BY <1>2, <1>4, <2>1 DEF SamePlace, Leaving
  <2>5. Mirrors(installs[i], Leaving(i))'
    <3>1. CASE installs'[i] = installs[i]
                 /\ (\/ subs'[s].state = subs[s].state
                     \/ {subs[s].state, subs'[s].state} \subseteq {"active", "past_due"})
      BY <1>2, <2>1, <2>2, <2>4, <3>1 DEF Mirrors, Stopping
    <3>2. CASE /\ subs'[s].state = subs[s].state
               /\ subs[s].state \in Stopping \/ s \in outdated'
               /\ installs'[i] = [installs[i] EXCEPT !.cancelAt = TRUE]
      <4>1. /\ installs'[i].subState = installs[i].subState
            /\ installs'[i].stopped = installs[i].stopped
        BY <1>1, <3>2 DEF InstRow
      <4> QED
        BY <1>2, <2>1, <2>2, <2>4, <3>2, <4>1 DEF Mirrors, Doubtful
    <3>3. ASSUME NEW t \in Transitions, subs[s].state \in LeavesFrom(t),
                 subs'[s].state = StateAfter(t),
                 installs'[i] = MarkedInst(installs[i], t)
          PROVE  Mirrors(installs[i], Leaving(i))'
      <4>1. /\ installs'[i].subState = StateAfter(t)
            /\ installs'[i].stopped => installs[i].stopped \/ t = "cancelled"
            /\ t = "uncancelled" => ~installs'[i].cancelAt
            /\ t \in {"active", "past_due", "cancelled"} =>
                  installs'[i].cancelAt = installs[i].cancelAt
        BY <1>1, <3>3 DEF MarkedInst, InstRow, Transitions
      <4>2. CASE t \in {"cancelled", "cancel_at_period_end"}
        <5>1. /\ subs'[s].state \in Stopping /\ installs'[i].subState \in StopNames
              /\ subs[s].state # "cancelled"
              /\ t = "cancelled" => subs'[s].state = "cancelled"
          BY <3>3, <4>1, <4>2 DEF Stopping, StopNames, StateAfter, LeavesFrom
        <5>2. installs'[i].stopped => subs'[s].state = "cancelled"
          BY <2>1, <2>2, <4>1, <5>1 DEF Mirrors
        <5> QED
          BY <2>4, <5>1, <5>2 DEF Mirrors
      <4>3. CASE t \in {"active", "past_due", "uncancelled"}
        <5>1. /\ subs'[s].state \notin Stopping /\ subs[s].state # "cancelled"
              /\ t # "uncancelled" => subs[s].state \notin Stopping
          BY <3>3, <4>3 DEF Stopping, StateAfter, LeavesFrom
        <5>2. ~installs[i].stopped /\ ~installs'[i].stopped
          BY <1>1, <2>1, <2>2, <4>1, <4>3, <5>1 DEF Mirrors, InstRow
        <5>3. installs'[i].cancelAt => s \in Doubtful'
          BY <1>2, <2>1, <2>2, <4>1, <4>3, <5>1 DEF Mirrors
        <5> QED
          BY <2>4, <5>1, <5>2, <5>3 DEF Mirrors
      <4> QED
        BY <4>2, <4>3 DEF Transitions
    <3> QED
      BY <2>2, <2>3, <3>1, <3>2, <3>3 DEF RowMoves
  <2> QED
    BY <1>2, <2>3, <2>4, <2>5 DEF RiderTrue, SamePlace
<1> QED
  BY <1>3, <1>4

\* Billing keeps what the requests of the box rely on.
LEMMA BillingKeepsInst ==
    ASSUME IInv, InstInv, BillingStep
    PROVE  InstInv'
<1>1. BillingNext /\ UNCHANGED <<work, receipts, acks, answered, halfway>>
  BY DEF BillingStep, requestVars
<1>2. RequestsTyped'
  BY <1>1 DEF InstInv, RequestsTyped
<1>3. \A i \in InstIds : RiderTrue(i)'
  BY <1>1, RiderMoved DEF InstInv
<1>4. ASSUME NEW w \in Workers PROVE WorkTrue(w)'
  <2>1. WorkTrue(w) /\ work'[w] = work[w]
    BY <1>1 DEF InstInv
  <2>2. \A s \in SubIds : subs[s].linked => subs'[s].linked
    BY <1>1, RowMoved
  <2>3. \A i \in InstIds : SamePlace(i)
    BY <1>1, PlacesKept
  <2>4. work[w].inst \in InstIds \union {NoInst}
    BY DEF InstInv, RequestsTyped, Work
  <2> QED
    BY <2>1, <2>2, <2>3, <2>4 DEF WorkTrue, SamePlace, Rides
<1> QED
  BY <1>2, <1>3, <1>4 DEF InstInv

-------------------------------------------------------------------------------
\* What the provider was told

\* What a subscription becomes never takes back that its owner, or the store,
\* asked for its end.
LEMMA ChangeTold ==
    ASSUME IInv, NoticeInv, NEW s \in SubIds, NEW new \in Sold, NEW kind,
           NEW echo \in BOOLEAN, NEW m, m = Message(kind, s, echo),
           sold' = [sold EXCEPT ![s] = new], sent' = Append(sent, m),
           kind \in {"subscription_active", "subscription_past_due",
                     "subscription_uncancelled", "subscription_refresh"} \union StopKinds,
           Told(s) \/ kind \in StopKinds =>
               Given(new),
           new.cancel \/ new.kept => new.state # "none"
    PROVE  /\ \A u \in SubIds : /\ Told(u) => Told(u)'
                                /\ sold'[u].cancel \/ sold'[u].kept =>
                                       sold'[u].state # "none"
           /\ \A e \in Events' : sent'[e].kind \in StopKinds => Given(sold'[sent'[e].sub])
<1>1. sold \in [SubIds -> Sold] /\ sent \in Seq(Event)
  BY DEF IInv, BillingTypeOK
<1>2. \A u \in SubIds : /\ Told(u) => Told(u)'
                        /\ sold'[u].cancel \/ sold'[u].kept => sold'[u].state # "none"
  BY <1>1 DEF Told, NoticeInv
<1>3. m \in Event /\ m.kind = kind /\ m.sub = s
  BY DEF Message, Event, ViewOf, StopKinds
<1>4. ASSUME NEW e \in Events', sent'[e].kind \in StopKinds PROVE Given(sold'[sent'[e].sub])
  <2>1. CASE e \in Events
    <3>1. sent'[e] = sent[e] /\ sent[e].sub \in SubIds
      BY <1>1, <1>3, <2>1, MessageTyped DEF Events, IInv
    <3>2. Told(sent[e].sub)
      BY <1>4, <2>1, <3>1 DEF NoticeInv, StopKinds
    <3>3. PICK u \in SubIds : u = sent[e].sub
      BY <3>1
    <3>4. Given(sold'[u])
      BY <1>2, <3>2, <3>3 DEF Told
    <3> QED
      BY <3>1, <3>3, <3>4
  <2>2. CASE e \notin Events
    <3>1. sent'[e] = m
      BY <1>1, <1>3, <2>2 DEF Events
    <3>2. sold'[s] = new
      BY <1>1
    <3> QED
      BY <1>3, <1>4, <3>1, <3>2
  <2> QED
    BY <2>1, <2>2
<1> QED
  BY <1>2, <1>4

\* A step of the provider tells of an end only what is so.
LEMMA ProviderTold ==
    ASSUME IInv, NoticeInv, ProviderNext
    PROVE  /\ \A u \in SubIds : /\ Told(u) => Told(u)'
                                /\ sold'[u].cancel \/ sold'[u].kept =>
                                       sold'[u].state # "none"
           /\ \A e \in Events' : sent'[e].kind \in StopKinds => Given(sold'[sent'[e].sub])
<1> DEFINE Goal == /\ \A u \in SubIds : /\ Told(u) => Told(u)'
                                        /\ sold'[u].cancel \/ sold'[u].kept =>
                                               sold'[u].state # "none"
                   /\ \A e \in Events' :
                         sent'[e].kind \in StopKinds => Given(sold'[sent'[e].sub])
<1>1. PICK s \in SubIds :
        \/ OwnerPays(s) \/ CheckoutExpires(s) \/ PaymentFails(s)
        \/ \E echo \in BOOLEAN : PaymentSucceeds(s, echo)
        \/ OwnerCancels(s) \/ OwnerUncancels(s) \/ SubscriptionEnds(s)
        \/ ProviderRefreshes(s)
  BY DEF ProviderNext
<1>2. /\ sold[s] \in Sold
      /\ sold[s].state # "none" => checkouts[s] = "paid"
      /\ sold[s].cancel \/ sold[s].kept => sold[s].state # "none"
  BY DEF IInv, BillingTypeOK, ProviderTrue, NoticeInv
<1>3. ASSUME NEW new \in Sold, NEW kind, NEW echo \in BOOLEAN,
             Changes(s, new, kind, echo),
             kind \in {"subscription_active", "subscription_past_due",
                       "subscription_uncancelled", "subscription_refresh"}
                        \union StopKinds,
             Told(s) \/ kind \in StopKinds =>
                 Given(new),
             new.cancel \/ new.kept => new.state # "none"
      PROVE  Goal
  <2>1. PICK m : m = Message(kind, s, echo)
    OBVIOUS
  <2>2. sold' = [sold EXCEPT ![s] = new] /\ sent' = Append(sent, m)
    BY <1>3, <2>1 DEF Changes
  <2> QED
    BY <1>3, <2>1, <2>2, ChangeTold
<1>4. \A kind : KindOf(s, kind) \in
          {kind, "subscription_active", "subscription_past_due"}
  BY DEF KindOf, StripeKind
<1>5. CASE OwnerPays(s)
  <2>1. ~Told(s)
    BY <1>2, <1>5 DEF OwnerPays, Told, Given
  <2>2. LET new == [NotSold EXCEPT !.state = "active"]
        IN  new \in Sold /\ ~new.cancel /\ ~new.kept
    BY DEF NotSold, Sold
  <2> QED
    BY <1>3, <1>5, <2>1, <2>2 DEF OwnerPays, StopKinds, Given
<1>6. CASE CheckoutExpires(s)
  <2>1. sold' = sold /\ sent' = sent
    BY <1>6 DEF CheckoutExpires
  <2> QED
    BY <2>1 DEF NoticeInv, Told, Events, StopKinds
<1>7. CASE PaymentFails(s)
  <2>1. LET new == [sold[s] EXCEPT !.state = "past_due"]
        IN  /\ new \in Sold /\ new.cancel = sold[s].cancel /\ new.kept = sold[s].kept
            /\ new.state # "none" /\ sold[s].state # "ended"
    BY <1>2, <1>7 DEF PaymentFails, Sold
  <2> QED
    BY <1>3, <1>7, <2>1 DEF PaymentFails, StopKinds, Told, Given
<1>8. ASSUME NEW echo \in BOOLEAN, PaymentSucceeds(s, echo) PROVE Goal
  <2>1. LET new == [sold[s] EXCEPT !.state = "active"]
        IN  /\ new \in Sold /\ new.cancel = sold[s].cancel /\ new.kept = sold[s].kept
            /\ new.state # "none" /\ sold[s].state # "ended"
    BY <1>2, <1>8 DEF PaymentSucceeds, Sold
  <2> QED
    BY <1>3, <1>8, <2>1 DEF PaymentSucceeds, StopKinds, Told, Given
<1>9. CASE OwnerCancels(s)
  <2>1. LET new == [sold[s] EXCEPT !.cancel = TRUE]
        IN  new \in Sold /\ new.cancel /\ new.state # "none"
    BY <1>2, <1>9 DEF OwnerCancels, Sold
  <2>2. KindOf(s, "subscription_cancel_scheduled") \in
          {"subscription_active", "subscription_past_due",
           "subscription_uncancelled", "subscription_refresh"} \union StopKinds
    BY <1>4 DEF StopKinds
  <2> QED
    BY <1>3, <1>9, <2>1, <2>2 DEF OwnerCancels, Given
<1>10. CASE OwnerUncancels(s)
  <2>1. LET new == [sold[s] EXCEPT !.cancel = FALSE, !.kept = TRUE]
        IN  new \in Sold /\ new.kept /\ new.state # "none"
    BY <1>2, <1>10 DEF OwnerUncancels, Sold
  <2>2. KindOf(s, "subscription_uncancelled") \in
          {"subscription_active", "subscription_past_due",
           "subscription_uncancelled", "subscription_refresh"} \union StopKinds
    BY <1>4
  <2> QED
    BY <1>3, <1>10, <2>1, <2>2 DEF OwnerUncancels, Given
<1>11. CASE SubscriptionEnds(s)
  <2>1. LET new == [sold[s] EXCEPT !.state = "ended"]
        IN  new \in Sold /\ new.state = "ended"
    BY <1>2 DEF Sold
  <2> QED
    BY <1>3, <1>11, <2>1 DEF SubscriptionEnds, StopKinds, Given
<1>12. CASE ProviderRefreshes(s)
  <2>1. KindOf(s, "subscription_refresh") \in
          {"subscription_active", "subscription_past_due",
           "subscription_uncancelled", "subscription_refresh"} \ StopKinds
    BY <1>4 DEF StopKinds
  <2> QED
    BY <1>2, <1>3, <1>12, <2>1 DEF ProviderRefreshes, Told, Given
<1> QED
  BY <1>1, <1>5, <1>6, <1>7, <1>8, <1>9, <1>10, <1>11, <1>12

\* A message that stops a row is one the provider sent about its end.
LEMMA MessageTold ==
    ASSUME IInv, NoticeInv, WebhookNext, NEW s \in SubIds,
           subs'[s].linked, subs'[s].state \in Stopping
    PROVE  Told(s)
<1>0. subs \in [SubIds -> SubRow]
  BY DEF IInv, BillingTypeOK, TablesTypeOK
<1>1. CASE subs'[s].linked = subs[s].linked /\ subs'[s].state = subs[s].state
  BY <1>1 DEF NoticeInv
<1>2. ASSUME NEW e \in Events, WebhookActivates(e) PROVE Told(s)
  <2>1. PICK u \in SubIds : u = sent[e].sub
    BY MessageTyped DEF IInv
  <2>2. subs' = [subs EXCEPT ![u] = Activated(subs[u])]
    BY <1>2, <2>1 DEF WebhookActivates, Activation
  <2>3. u # s
    <3> SUFFICES ASSUME u = s PROVE FALSE
      OBVIOUS
    <3> QED
      BY <1>0, <2>2 DEF Activated, SubRow, Stopping
  <2> QED
    BY <1>0, <1>1, <2>2, <2>3
<1>3. ASSUME NEW e \in Events, WebhookMarks(e) \/ RefreshMarks(e) PROVE Told(s)
  <2>1. PICK u \in SubIds : u = sent[e].sub
    BY MessageTyped DEF IInv
  <2>2. PICK tr \in Transitions :
          /\ subs' = [subs EXCEPT ![u] = Marked(subs[u], tr)]
          /\ tr \in {"cancelled", "cancel_at_period_end"} => sent[e].kind \in StopKinds
    BY <1>3, <2>1, MarkingStep DEF MarksRow
  <2>3. CASE u # s
    BY <1>0, <1>1, <2>2, <2>3
  <2>4. CASE u = s
    <3>1. subs'[s].state = StateAfter(tr)
      BY <1>0, <2>2, <2>4 DEF Marked, SubRow
    <3>2. tr \in {"cancelled", "cancel_at_period_end"}
      BY <3>1 DEF StateAfter, Stopping, Transitions
    <3> QED
      BY <2>1, <2>2, <2>4, <3>2 DEF NoticeInv, StopKinds
  <2> QED
    BY <2>3, <2>4
<1>4. ASSUME NEW e \in Events, RefreshDates(e) PROVE Told(s)
  <2>1. subs' = [subs EXCEPT ![sent[e].sub].cancelAt = TRUE] /\ sent[e].sub \in SubIds
    BY <1>4, MessageTyped DEF RefreshDates, IInv
  <2> QED
    BY <1>0, <1>1, <2>1 DEF SubRow
<1>5. CASE subs' = subs
  BY <1>1, <1>5
<1> QED
  BY <1>2, <1>3, <1>4, <1>5
  DEF WebhookNext, WebhookRefused, WebhookIgnored, RefreshRead, RefreshEnds,
      RefreshStops, tableVars

\* Only the provider's own steps and its checkouts write what it sold and sent.
LEMMA SoldKept ==
    ASSUME CheckoutNext \/ WebhookNext \/ ReconcileNext
    PROVE  sold' = sold /\ sent' = sent
  BY DEF CheckoutNext, CheckoutSelect, CheckoutInsert, CheckoutRecord,
         CheckoutAbort, CheckoutStop, WebhookNext, WebhookActivates,
         WebhookRefused, WebhookMarks, WebhookIgnored, Recorded, RefreshRead,
         RefreshDates, RefreshMarks, RefreshEnds, RefreshStops, ReconcileNext, ReconcileRead, ReconcileApply, ReconcileStop,
         providerVars

\* A reconciler that reads a cancellation reads it at the provider.
LEMMA SeenTold ==
    ASSUME IInv, NoticeInv, BillingNext, NEW c \in Reconcilers,
           seen'[c] # Nothing, seen'[c].outcome = "cancelling"
    PROVE  seen'[c].sub \in SubIds /\ Told(seen'[c].sub)
<1>0. seen \in [Reconcilers -> View]
  BY DEF IInv, BillingTypeOK
<1>1. CASE seen'[c] = seen[c]
  BY <1>1 DEF NoticeInv, IInv, SeenTrue
<1>2. ASSUME NEW d \in Reconcilers, NEW s \in SubIds, ReconcileRead(d, s)
      PROVE  seen'[c].sub \in SubIds /\ Told(seen'[c].sub)
  <2>1. seen' = [seen EXCEPT ![d] = [sub |-> s, outcome |-> OutcomeOf(s)]]
    BY <1>2 DEF ReconcileRead
  <2>2. CASE d = c
    <3>1. seen'[c] = [sub |-> s, outcome |-> OutcomeOf(s)]
      BY <1>0, <2>1, <2>2
    <3>2. OutcomeOf(s) = "cancelling" /\ seen'[c].sub = s
      BY <3>1
    <3>3. sold[s].cancel
      BY <3>2 DEF OutcomeOf, StripeOutcome, PolarOutcome
    <3> QED
      BY <3>2, <3>3 DEF Told, Given
  <2> QED
    BY <1>0, <1>1, <2>1, <2>2
<1>3. ASSUME NEW d \in Reconcilers, ReconcileApply(d) \/ ReconcileStop(d)
      PROVE  seen'[c].sub \in SubIds /\ Told(seen'[c].sub)
  BY <1>0, <1>1, <1>3 DEF ReconcileApply, ReconcileStop
<1>4. CASE ReconcileNext
  BY <1>2, <1>3, <1>4 DEF ReconcileNext
<1>5. CASE ProviderNext
  BY <1>1, <1>5
  DEF ProviderNext, OwnerPays, CheckoutExpires, PaymentFails, PaymentSucceeds,
      OwnerCancels, OwnerUncancels, SubscriptionEnds, ProviderRefreshes, Changes
<1>6. CASE CheckoutNext
  BY <1>1, <1>6
  DEF CheckoutNext, CheckoutSelect, CheckoutInsert, CheckoutRecord, CheckoutAbort,
      CheckoutStop
<1>7. CASE WebhookNext
  BY <1>1, <1>7
  DEF WebhookNext, WebhookActivates, WebhookRefused, WebhookMarks, WebhookIgnored,
      Recorded, RefreshRead, RefreshDates, RefreshMarks, RefreshEnds, RefreshStops
<1> QED
  BY <1>4, <1>5, <1>6, <1>7 DEF BillingNext

\* A paid checkout has its subscription.
LEMMA PaidSold ==
    ASSUME IInv, NoticeInv, BillingNext, NEW s \in SubIds, checkouts'[s] = "paid"
    PROVE  sold'[s].state # "none"
<1>0. /\ sold \in [SubIds -> Sold]
      /\ checkouts \in [SubIds -> {"none", "open", "paid", "expired"}]
  BY DEF IInv, BillingTypeOK
<1>1. CASE sold'[s] = sold[s] /\ checkouts'[s] = checkouts[s]
  BY <1>1 DEF NoticeInv
<1>2. ASSUME NEW u \in SubIds, NEW new, NEW kind, NEW echo, new.state # "none",
             Changes(u, new, kind, echo),
             checkouts' = checkouts \/ checkouts' = [checkouts EXCEPT ![u] = "paid"]
      PROVE  sold'[s].state # "none"
  BY <1>0, <1>1, <1>2 DEF Changes
<1>3. CASE ProviderNext
  <2>1. PICK u \in SubIds :
          \/ OwnerPays(u) \/ CheckoutExpires(u) \/ PaymentFails(u)
          \/ \E echo \in BOOLEAN : PaymentSucceeds(u, echo)
          \/ OwnerCancels(u) \/ OwnerUncancels(u) \/ SubscriptionEnds(u)
          \/ ProviderRefreshes(u)
    BY <1>3 DEF ProviderNext
  <2>2. sold[u] \in Sold
    BY <1>0
  <2>3. CASE CheckoutExpires(u)
    BY <1>0, <1>1, <2>3 DEF CheckoutExpires
  <2>4. CASE OwnerPays(u)
    <3>1. [NotSold EXCEPT !.state = "active"].state # "none"
      BY DEF NotSold
    <3> QED
      BY <1>2, <2>4, <3>1 DEF OwnerPays
  <2>5. CASE PaymentFails(u) \/ \E echo \in BOOLEAN : PaymentSucceeds(u, echo)
    <3>1. \A st : [sold[u] EXCEPT !.state = st].state = st
      BY <2>2 DEF Sold
    <3> QED
      BY <1>2, <2>5, <3>1 DEF PaymentFails, PaymentSucceeds
  <2>6. CASE OwnerCancels(u) \/ OwnerUncancels(u)
    <3>1. /\ [sold[u] EXCEPT !.cancel = TRUE].state = sold[u].state
          /\ [sold[u] EXCEPT !.cancel = FALSE, !.kept = TRUE].state = sold[u].state
      BY <2>2 DEF Sold
    <3> QED
      BY <1>2, <2>6, <3>1 DEF OwnerCancels, OwnerUncancels
  <2>7. CASE SubscriptionEnds(u) \/ ProviderRefreshes(u)
    <3>1. [sold[u] EXCEPT !.state = "ended"].state = "ended"
      BY <2>2 DEF Sold
    <3> QED
      BY <1>2, <2>7, <3>1 DEF SubscriptionEnds, ProviderRefreshes
  <2> QED
    BY <2>1, <2>3, <2>4, <2>5, <2>6, <2>7
<1>4. CASE CheckoutNext \/ WebhookNext \/ ReconcileNext
  <2>1. sold' = sold
    BY <1>4, SoldKept
  <2>2. CASE checkouts' = checkouts
    BY <1>1, <2>1, <2>2
  <2>3. ASSUME NEW r \in Requests, CheckoutRecord(r) PROVE sold'[s].state # "none"
    BY <1>0, <1>1, <2>1, <2>3 DEF CheckoutRecord
  <2> QED
    BY <1>4, <2>2, <2>3
    DEF CheckoutNext, CheckoutSelect, CheckoutInsert, CheckoutAbort, CheckoutStop,
        WebhookNext, WebhookActivates, WebhookRefused, WebhookMarks,
        WebhookIgnored, Recorded, RefreshRead, RefreshDates, RefreshMarks,
        RefreshEnds, RefreshStops, ReconcileNext, ReconcileRead, ReconcileApply,
        ReconcileStop, providerVars
<1> QED
  BY <1>3, <1>4 DEF BillingNext

\* Billing says that a subscription stops only after the provider did, and
\* nobody takes back that it was told.
LEMMA BillingKeepsNotice ==
    ASSUME IInv, InstInv, NoticeInv, BillingStep
    PROVE  NoticeInv' /\ \A s \in SubIds : Told(s) => Told(s)'
<1>1. BillingNext /\ work' = work /\ halfway' = halfway
  BY DEF BillingStep, requestVars
<1>2. /\ \A u \in SubIds : /\ Told(u) => Given(sold'[u])
                           /\ sold'[u].cancel \/ sold'[u].kept =>
                                  sold'[u].state # "none"
      /\ \A e \in Events' : sent'[e].kind \in StopKinds => Given(sold'[sent'[e].sub])
  <2>1. CASE ProviderNext
    BY <2>1, ProviderTold DEF Told
  <2>2. CASE CheckoutNext \/ WebhookNext \/ ReconcileNext
    <3>1. sold' = sold /\ sent' = sent
      BY <2>2, SoldKept
    <3> QED
      BY <3>1 DEF NoticeInv, Told, Events, StopKinds
  <2> QED
    BY <1>1, <2>1, <2>2 DEF BillingNext
<1>3. ASSUME NEW s \in SubIds, subs'[s].linked, subs'[s].state \in Stopping
      PROVE  Given(sold'[s])
  <2>1. CASE WebhookNext
    BY <1>2, <1>3, <2>1, MessageTold
  <2>2. CASE CheckoutNext \/ ProviderNext \/ ReconcileNext
    <3>1. CASE subs[s].linked
      BY <1>2, <1>3, <2>2, <3>1, LinkedKept DEF NoticeInv
    <3>2. CASE ~subs[s].linked
      <4>1. PICK c \in Reconcilers : /\ seen[c] # Nothing /\ seen[c].sub = s
                                     /\ seen[c].outcome = "cancelling"
        BY <1>3, <2>2, <3>2, LinkedKept
      <4>2. Told(s)
        BY <4>1 DEF NoticeInv
      <4> QED
        BY <1>2, <4>2
    <3> QED
      BY <3>1, <3>2
  <2> QED
    BY <1>1, <2>1, <2>2 DEF BillingNext
<1>4. ASSUME NEW c \in Reconcilers, seen'[c] # Nothing,
             seen'[c].outcome = "cancelling"
      PROVE  Given(sold'[seen'[c].sub])
  <2>1. PICK s \in SubIds : s = seen'[c].sub /\ Told(s)
    BY <1>1, <1>4, SeenTold
  <2> QED
    BY <1>2, <2>1
<1>5. ASSUME NEW w \in Workers, work'[w].step \in Late
      PROVE  Given(sold'[work'[w].sub])
  <2>1. PICK s \in SubIds : s = work[w].sub
    BY <1>1, <1>5 DEF InstInv, WorkTrue
  <2>2. Told(s)
    BY <1>1, <1>5, <2>1 DEF NoticeInv
  <2> QED
    BY <1>1, <1>2, <2>1, <2>2
<1>6. \A s \in SubIds : checkouts'[s] = "paid" => sold'[s].state # "none"
  BY <1>1, PaidSold
<1>7. \A s \in halfway' : Given(sold'[s])
  BY <1>1, <1>2 DEF NoticeInv, InstInv, RequestsTyped
<1> QED
  BY <1>2, <1>3, <1>4, <1>5, <1>6, <1>7 DEF NoticeInv, Told, StopKinds

-------------------------------------------------------------------------------
\* Steps of the box

\* Of a copy whose agents were all removed and answered, the provider was told.
LastKept(i) ==
    installs'[i].state = "removed" /\ i \in answered' =>
        \/ Given(sold'[installs'[i].sub])
        \/ \E j \in InstIds : /\ installs'[j].sub = installs'[i].sub
                              /\ installs'[j].state \notin {"none", "removed"}
        \/ /\ installs[i].state = "removed" /\ i \in answered
           /\ installs[i].sub = installs'[i].sub

\* Nothing is taken back, from the provider or from an installation.
Lasting ==
    /\ \A s \in SubIds : Told(s) => Told(s)'
    /\ \A i \in InstIds : installs[i].state # "none" =>
          installs'[i].state # "none" /\ installs'[i].sub = installs[i].sub

\* The other workers go on from where they were.
WorkMoves ==
    /\ work' \in [Workers -> Work]
    /\ \A v \in Workers :
          \/ work'[v] = work[v]
          \/ /\ WorkTrue(v)'
             /\ work'[v].step \in Late => Given(sold'[work'[v].sub])

\* A worker goes on to its next statement.
LEMMA WorkerMoves ==
    ASSUME InstInv, NEW w \in Workers, NEW job \in Work,
           work' = [work EXCEPT ![w] = job],
           job.step \in Late => Given(sold'[job.sub]),
           work'[w] = job => WorkTrue(w)'
    PROVE  WorkMoves /\ work'[w] = job
  BY DEF InstInv, RequestsTyped, WorkMoves

\* Nothing is left to do.
LEMMA WorkerDone ==
    ASSUME InstInv, NEW w \in Workers, Done(w)
    PROVE  WorkMoves
<1>1. NoWork \in Work /\ NoWork.step = "idle"
  BY StoreAssumption DEF NoWork, Work
<1> HIDE DEF NoWork
<1>2. work' = [work EXCEPT ![w] = NoWork]
  BY DEF Done
<1>3. work'[w] = NoWork => WorkTrue(w)'
  BY <1>1 DEF WorkTrue, Late
<1> QED
  BY <1>1, <1>2, <1>3, WorkerMoves DEF Late

\* What no statement touches stays true.
LEMMA OthersKept ==
    ASSUME InstInv, NEW v \in Workers, work'[v] = work[v],
           \A s \in SubIds : subs[s].linked => subs'[s].linked,
           \A i \in InstIds : installs[i].state # "none" =>
               installs'[i].state # "none" /\ installs'[i].sub = installs[i].sub
    PROVE  WorkTrue(v)'
<1>1. WorkTrue(v) /\ work[v] \in Work
  BY DEF InstInv, RequestsTyped
<1> QED
  BY <1>1 DEF WorkTrue, Work, Rides

\* Installations that a statement writes.
RidersMove ==
    \A i \in InstIds :
        \/ /\ installs'[i] = installs[i] /\ (i \in receipts' <=> i \in receipts)
           /\ installs[i].sub \in halfway => installs[i].sub \in halfway'
        \/ /\ RiderTrue(i)'
           /\ installs[i].state # "none" =>
                 installs'[i].state # "none" /\ installs'[i].sub = installs[i].sub

\* A statement on the installations alone.
LEMMA InstallsMove ==
    ASSUME IInv, InstInv, NoticeInv, UNCHANGED billingVars,
           installs' \in [InstIds -> InstRow], RidersMove, WorkMoves,
           receipts' \subseteq InstIds, acks' = acks, answered' \subseteq InstIds,
           halfway' \subseteq SubIds, \A s \in halfway' : s \in halfway \/ Told(s)
    PROVE  IInv' /\ InstInv' /\ NoticeInv' /\ Lasting
<1>1. UNCHANGED <<subs, checkoutPc, seen, checkouts, sold, sent, processed, refreshing,
                  refused, outdated>>
  BY DEF billingVars, providerVars, webhookVars
<1>2. IInv'
  <2>1. BillingTypeOK'
    BY <1>1 DEF IInv, BillingTypeOK, TablesTypeOK, Events
  <2>2. RowsContiguous' /\ ProviderTrue' /\ SeenTrue'
    BY <1>1 DEF IInv, RowsContiguous, ProviderTrue, SeenTrue, Events
  <2>3. /\ \A s \in SubIds : RowTrue(s)'
        /\ \A r \in Requests : HandlerTrue(r)'
    BY <1>1 DEF IInv, RowTrue, HandlerTrue
  <2>4. OpenTrue'
    BY <1>1, OpenStays
  <2> QED
    BY <2>1, <2>2, <2>3, <2>4 DEF IInv
<1>3. Lasting
  BY <1>1 DEF Lasting, Told, RidersMove
<1>4. ASSUME NEW i \in InstIds PROVE RiderTrue(i)'
  <2>1. CASE /\ installs'[i] = installs[i] /\ (i \in receipts' <=> i \in receipts)
             /\ installs[i].sub \in halfway => installs[i].sub \in halfway'
    <3>1. RiderTrue(i) /\ subs' = subs /\ outdated' = outdated
      BY <1>1 DEF InstInv
    <3> QED
      BY <2>1, <3>1 DEF RiderTrue, Mirrors, Leaving, Doubtful
  <2> QED
    BY <2>1 DEF RidersMove
<1>5. ASSUME NEW v \in Workers PROVE WorkTrue(v)'
  BY <1>1, <1>3, OthersKept DEF WorkMoves, Lasting
<1>6. InstInv'
  BY <1>4, <1>5 DEF InstInv, RequestsTyped, WorkMoves
<1>7. NoticeInv'
  <2>1. ASSUME NEW v \in Workers, work'[v].step \in Late
        PROVE  Given(sold'[work'[v].sub])
    BY <1>1, <2>1 DEF WorkMoves, NoticeInv, Told
  <2> QED
    BY <1>1, <2>1 DEF NoticeInv, Told, Events
<1> QED
  BY <1>2, <1>3, <1>6, <1>7

\* A worker reads, or gives up: no table is written.
LEMMA ReadStep ==
    ASSUME IInv, InstInv, NoticeInv, WorkMoves, answered' \subseteq InstIds,
           UNCHANGED <<installs, billingVars, receipts, acks, halfway>>
    PROVE  IInv' /\ InstInv' /\ NoticeInv' /\ Lasting
<1>1. /\ installs' \in [InstIds -> InstRow] /\ receipts' \subseteq InstIds
      /\ halfway' \subseteq SubIds
  BY DEF IInv, BillingTypeOK, TablesTypeOK, InstInv, RequestsTyped
<1>2. RidersMove
  BY DEF RidersMove
<1> QED
  BY <1>1, <1>2, InstallsMove

\* What a step of the box keeps.
BoxKept ==
    /\ IInv' /\ InstInv' /\ NoticeInv' /\ Lasting
    /\ \A i \in InstIds : LastKept(i)

\* The reads, an answer, and giving up.
LEMMA ReadKeeps ==
    ASSUME IInv, InstInv, NoticeInv, NEW w \in Workers,
           \/ \E s \in SubIds, p \in Packages, i \in InstIds : InstallRead(w, s, p, i)
           \/ \E i \in InstIds : UpdateRead(w, i) \/ ReceiptReplay(w, i)
           \/ LastRemoved(w)
           \/ \E s \in SubIds : CancelRead(w, s)
           \/ Fail(w)
    PROVE  BoxKept
<1>1. /\ UNCHANGED <<installs, billingVars, receipts, acks, halfway>>
      /\ answered' = answered
      /\ answered' \subseteq InstIds /\ subs' = subs /\ work[w] \in Work
  BY DEF InstallRead, UpdateRead, ReceiptReplay, LastRemoved, CancelRead, Fail,
         requestVars, billingVars, InstInv, RequestsTyped
<1>2. \A s \in SubIds : /\ s \in 0 .. MaxSubs
                        /\ subs[s].state = "active" => subs[s].linked
  BY StoreAssumption DEF IInv, RowTrue, Entitling, SubIds
<1>3. ASSUME NEW s \in SubIds, NEW p \in Packages, NEW i \in InstIds,
             InstallRead(w, s, p, i)
      PROVE  WorkMoves
  <2>1. PICK job : job = [step |-> "chosen", sub |-> s, inst |-> i, package |-> p]
    OBVIOUS
  <2>2. job \in Work
    BY <1>2, <2>1 DEF Work
  <2>3. work' = [work EXCEPT ![w] = job] /\ subs[s].linked
    BY <1>2, <1>3, <2>1 DEF InstallRead, Installable
  <2>4. work'[w] = job => WorkTrue(w)'
    BY <1>1, <2>1, <2>3 DEF WorkTrue, Late
  <2>5. job.step \notin Late
    BY <2>1 DEF Late
  <2> QED
    BY <2>2, <2>3, <2>4, <2>5, WorkerMoves
<1>4. ASSUME NEW i \in InstIds, UpdateRead(w, i) \/ ReceiptReplay(w, i)
      PROVE  WorkMoves
  <2>1. PICK step \in {"updating", "received"} :
          work' = [work EXCEPT ![w] = [NoWork EXCEPT !.step = step, !.inst = i]]
    BY <1>4 DEF UpdateRead, ReceiptReplay
  <2>2. PICK job : job = [NoWork EXCEPT !.step = step, !.inst = i]
    OBVIOUS
  <2>3. job \in Work /\ job.step = step /\ job.inst = i
    <3>1. job = [step |-> step, sub |-> 0, inst |-> i, package |-> NoInst]
      BY <2>2 DEF NoWork
    <3> QED
      BY <3>1, StoreAssumption DEF Work
  <2>4. installs[i].state # "none"
    BY <1>4 DEF UpdateRead, ReceiptReplay, InstInv, RiderTrue
  <2>5. work'[w] = job => WorkTrue(w)'
    BY <1>1, <2>3, <2>4 DEF WorkTrue, Late
  <2> QED
    BY <2>1, <2>2, <2>3, <2>5, WorkerMoves DEF Late
<1>5. ASSUME LastRemoved(w) PROVE WorkMoves
  <2>1. PICK i \in InstIds : i = work[w].inst /\ installs[i].state # "none"
    BY <1>5 DEF LastRemoved, InstInv, WorkTrue
  <2>2. PICK s \in SubIds : s = installs[i].sub
    BY <2>1 DEF InstInv, RiderTrue
  <2>3. subs[s].linked /\ Rides(i, s)
    BY <2>1, <2>2 DEF InstInv, RiderTrue, Rides
  <2>4. PICK job : job = [work[w] EXCEPT !.step = "cancelling", !.sub = s]
    OBVIOUS
  <2>5. /\ job \in Work /\ job.step = "cancelling" /\ job.sub = s /\ job.inst = i
    BY <1>1, <1>2, <2>1, <2>4 DEF Work
  <2>6. work' = [work EXCEPT ![w] = job]
    <3>1. work' = [work EXCEPT ![w].step = "cancelling", ![w].sub = s]
      BY <1>5, <2>1, <2>2 DEF LastRemoved
    <3>2. work \in [Workers -> Work]
      BY DEF InstInv, RequestsTyped
    <3> QED
      BY <1>1, <2>4, <3>1, <3>2 DEF Work
  <2>7. work'[w] = job => WorkTrue(w)'
    BY <1>1, <2>3, <2>5 DEF WorkTrue, Late, Rides
  <2> QED
    BY <2>5, <2>6, <2>7, WorkerMoves DEF Late
<1>6. ASSUME NEW s \in SubIds, CancelRead(w, s) PROVE WorkMoves
  <2>1. PICK job : job = [NoWork EXCEPT !.step = "cancelling", !.sub = s]
    OBVIOUS
  <2>2. job \in Work /\ job.step = "cancelling" /\ job.sub = s /\ job.inst = NoInst
    BY <1>2, <2>1 DEF NoWork, Work
  <2>3. work' = [work EXCEPT ![w] = job] /\ subs[s].linked
    BY <1>6, <2>1 DEF CancelRead, Cancellable
  <2>4. work'[w] = job => WorkTrue(w)'
    BY <1>1, <2>2, <2>3 DEF WorkTrue, Late
  <2> QED
    BY <2>2, <2>3, <2>4, WorkerMoves DEF Late
<1>7. ASSUME Fail(w) PROVE WorkMoves
  BY <1>7, WorkerDone DEF Fail
<1>8. WorkMoves
  BY <1>3, <1>4, <1>5, <1>6, <1>7
<1>9. IInv' /\ InstInv' /\ NoticeInv' /\ Lasting
  BY <1>1, <1>8, ReadStep
<1> QED
  BY <1>1, <1>9 DEF BoxKept, LastKept

\* A receipt is answered at once only where something else stays installed.
LEMMA AnswerKeeps ==
    ASSUME IInv, InstInv, NoticeInv, NEW w \in Workers, AnswerRemaining(w)
    PROVE  BoxKept
<1>1. PICK i \in InstIds : i = work[w].inst
  BY DEF AnswerRemaining, InstInv, WorkTrue
<1>2. /\ answered' = answered \union {i} /\ Remaining(i) # {}
      /\ UNCHANGED <<installs, billingVars, receipts, acks, halfway>> /\ Done(w)
  BY <1>1 DEF AnswerRemaining
<1>3. answered' \subseteq InstIds
  BY <1>2 DEF InstInv, RequestsTyped
<1>4. IInv' /\ InstInv' /\ NoticeInv' /\ Lasting
  BY <1>2, <1>3, WorkerDone, ReadStep
<1>5. ASSUME NEW j \in InstIds PROVE LastKept(j)
  <2>1. PICK k \in InstIds : LiveInstall(k, installs[i].sub)
    BY <1>2 DEF Remaining, LiveOn
  <2> QED
    BY <1>2, <2>1 DEF LastKept, LiveInstall
<1> QED
  BY <1>4, <1>5 DEF BoxKept

\* A statement writes one installation.
LEMMA OneRow ==
    ASSUME IInv, InstInv, NoticeInv, UNCHANGED billingVars,
           NEW i \in InstIds, NEW row \in InstRow,
           installs' = [installs EXCEPT ![i] = row],
           row.state # "none", row.sub \in SubIds, subs[row.sub].linked,
           installs[i].state # "none" => row.sub = installs[i].sub,
           receipts' = receipts \/ receipts' = receipts \union {i},
           halfway' = halfway \/ (halfway' = halfway \union {row.sub} /\ Told(row.sub)),
           NEW leaving \in BOOLEAN, Mirrors(row, leaving)',
           leaving = (i \in receipts' \/ row.state \in {"uninstall_pending", "removed"}),
           WorkMoves, acks' = acks, answered' \subseteq InstIds
    PROVE  IInv' /\ InstInv' /\ NoticeInv' /\ Lasting
<1>1. /\ installs \in [InstIds -> InstRow] /\ receipts \subseteq InstIds
      /\ subs' = subs /\ halfway \subseteq SubIds
  BY DEF IInv, BillingTypeOK, TablesTypeOK, InstInv, RequestsTyped, billingVars
<1>2. /\ installs' \in [InstIds -> InstRow] /\ installs'[i] = row
      /\ receipts' \subseteq InstIds /\ halfway' \subseteq SubIds
      /\ \A s \in halfway' : s \in halfway \/ Told(s)
  BY <1>1
<1>3. RiderTrue(i)'
  BY <1>1, <1>2 DEF RiderTrue, Leaving
<1>4. RidersMove
  BY <1>1, <1>2, <1>3 DEF RidersMove
<1> QED
  BY <1>2, <1>4, InstallsMove

\* What is known of an installation that is there.
LEMMA RiderKnown ==
    ASSUME IInv, InstInv, NEW i \in InstIds, installs[i].state # "none"
    PROVE  /\ installs[i] \in InstRow
           /\ installs[i].sub \in SubIds /\ subs[installs[i].sub].linked
           /\ Mirrors(installs[i], Leaving(i))
  BY DEF IInv, BillingTypeOK, TablesTypeOK, InstInv, RiderTrue

\* A row that keeps its dates, and its mirror or a stop for it, still mirrors.
LEMMA MirrorKept ==
    ASSUME IInv, InstInv, NEW i \in InstIds, installs[i].state # "none",
           NEW row \in InstRow, NEW leaving \in BOOLEAN,
           row.sub = installs[i].sub, row.cancelAt = installs[i].cancelAt,
           row.stopped = installs[i].stopped,
           \/ row.subState \in StopNames
           \/ row.subState = installs[i].subState /\ (leaving => Leaving(i)),
           UNCHANGED <<subs, outdated, halfway>>
    PROVE  /\ row.sub \in SubIds /\ subs[row.sub].linked
           /\ Mirrors(row, leaving)'
<1>1. /\ installs[i].sub \in SubIds /\ subs[installs[i].sub].linked
      /\ Mirrors(installs[i], Leaving(i))
  BY RiderKnown
<1> QED
  BY <1>1 DEF Mirrors, Doubtful

\* The requests of one statement move an installation that is there.
LEMMA BoxMoveKeeps ==
    ASSUME IInv, InstInv, NoticeInv, NEW i \in InstIds,
           PackageDownload(i) \/ AcknowledgeInstall(i) \/ ArchiveInstallation(i)
             \/ RequestUninstall(i)
    PROVE  BoxKept
<1>1. /\ UNCHANGED <<billingVars, work, receipts, acks, answered, halfway>>
      /\ UNCHANGED <<subs, outdated>>
      /\ installs[i].state \notin {"none", "removed"}
  BY DEF PackageDownload, AcknowledgeInstall, ArchiveInstallation, Moves,
         RequestUninstall, requestVars, billingVars, webhookVars
<1>2. WorkMoves /\ answered' \subseteq InstIds
  BY <1>1 DEF InstInv, RequestsTyped, WorkMoves
<1>3. installs \in [InstIds -> InstRow] /\ installs[i] \in InstRow
  BY DEF IInv, BillingTypeOK, TablesTypeOK
<1>4. PICK row \in InstRow :
        /\ installs' = [installs EXCEPT ![i] = row]
        /\ row.state \in InstStates \ {"none", "removed"}
        /\ row.sub = installs[i].sub
        /\ row.cancelAt = installs[i].cancelAt /\ row.stopped = installs[i].stopped
        /\ \/ row.subState = "cancellation_pending_uninstall"
           \/ row.subState = installs[i].subState /\ row.state # "uninstall_pending"
  <2>1. CASE \E to \in {"downloading", "active", "disabled"} :
               installs' = [installs EXCEPT ![i].state = to]
    <3>1. PICK to \in {"downloading", "active", "disabled"} :
            installs' = [installs EXCEPT ![i].state = to]
      BY <2>1
    <3> DEFINE row == [installs[i] EXCEPT !.state = to]
    <3>2. row \in InstRow /\ row.state = to /\ row.sub = installs[i].sub
          /\ row.cancelAt = installs[i].cancelAt /\ row.stopped = installs[i].stopped
          /\ row.subState = installs[i].subState
      BY <1>3 DEF InstRow, InstStates
    <3>3. installs' = [installs EXCEPT ![i] = row]
      BY <3>1
    <3> HIDE DEF row
    <3> QED
      BY <3>2, <3>3 DEF InstStates
  <2>2. CASE RequestUninstall(i)
    <3> DEFINE half == [installs[i] EXCEPT !.state = "uninstall_pending"]
               row == [half EXCEPT !.subState = "cancellation_pending_uninstall"]
    <3>1. installs' = [installs EXCEPT ![i] = row]
      <4>1. installs' = [installs EXCEPT ![i].state = "uninstall_pending",
                              ![i].subState = "cancellation_pending_uninstall"]
        BY <2>2 DEF RequestUninstall
      <4> QED
        BY <1>3, <4>1 DEF InstRow
    <3>2. half \in InstRow /\ half.state = "uninstall_pending"
          /\ half.sub = installs[i].sub
          /\ half.cancelAt = installs[i].cancelAt /\ half.stopped = installs[i].stopped
      BY <1>3 DEF InstRow, InstStates
    <3> HIDE DEF half
    <3>3. row \in InstRow /\ row.state = half.state /\ row.sub = half.sub
          /\ row.cancelAt = half.cancelAt /\ row.stopped = half.stopped
          /\ row.subState = "cancellation_pending_uninstall"
      BY <3>2 DEF InstRow, MirrorStates
    <3> HIDE DEF row
    <3> QED
      BY <3>1, <3>2, <3>3 DEF InstStates
  <2> QED
    BY <2>1, <2>2 DEF PackageDownload, AcknowledgeInstall, ArchiveInstallation, Moves
<1>5. PICK leaving \in BOOLEAN :
        leaving = (i \in receipts \/ row.state \in {"uninstall_pending", "removed"})
  OBVIOUS
<1>6. /\ row.sub \in SubIds /\ subs[row.sub].linked
      /\ Mirrors(row, leaving)'
  <2>1. \/ row.subState \in StopNames
        \/ row.subState = installs[i].subState /\ (leaving => Leaving(i))
    BY <1>4, <1>5 DEF Leaving, StopNames
  <2> QED
    BY <1>1, <1>4, <2>1, MirrorKept
<1>7. IInv' /\ InstInv' /\ NoticeInv' /\ Lasting
  BY <1>1, <1>2, <1>4, <1>5, <1>6, OneRow
<1>8. ASSUME NEW j \in InstIds PROVE LastKept(j)
  BY <1>1, <1>3, <1>4 DEF LastKept
<1> QED
  BY <1>7, <1>8 DEF BoxKept

\* The row an installation is inserted with.
LEMMA InsertKeeps ==
    ASSUME IInv, InstInv, NoticeInv, NEW w \in Workers, InstallInsert(w)
    PROVE  BoxKept
<1>1. PICK i \in InstIds, s \in SubIds, p \in Packages :
        i = work[w].inst /\ s = work[w].sub /\ p = work[w].package
  BY DEF InstallInsert, InstInv, WorkTrue
<1>2. subs[s].linked
  BY <1>1 DEF InstallInsert, InstInv, WorkTrue
<1>3. PICK row : row = [NoInstRow EXCEPT !.state = "entitled", !.sub = s,
                                         !.package = p, !.subState = "active"]
  OBVIOUS
<1>4. row = [state |-> "entitled", sub |-> s, package |-> p, subState |-> "active",
             cancelAt |-> FALSE, stopped |-> FALSE]
  BY <1>3 DEF NoInstRow
<1>5. row \in InstRow
  BY <1>4, StoreAssumption DEF InstRow, InstStates, MirrorStates, SubStates, SubIds
<1>6. /\ installs[i].state = "none" /\ installs' = [installs EXCEPT ![i] = row]
      /\ UNCHANGED <<billingVars, receipts, acks, answered, halfway>> /\ Done(w)
  BY <1>1, <1>3 DEF InstallInsert, requestVars
<1>7. WorkMoves /\ answered' \subseteq InstIds
  BY <1>6, WorkerDone DEF InstInv, RequestsTyped
<1>8. i \notin receipts'
  BY <1>6 DEF InstInv, RiderTrue
<1>9. IInv' /\ InstInv' /\ NoticeInv' /\ Lasting
  <2>1. PICK leaving \in BOOLEAN : leaving = FALSE
    OBVIOUS
  <2>2. /\ Mirrors(row, leaving)'
        /\ leaving = (i \in receipts' \/ row.state \in {"uninstall_pending", "removed"})
    BY <1>4, <1>8, <2>1 DEF Mirrors
  <2> QED
    BY <1>2, <1>4, <1>5, <1>6, <1>7, <2>2, OneRow
<1>10. ASSUME NEW j \in InstIds PROVE LastKept(j)
  BY <1>4, <1>6 DEF LastKept, IInv, BillingTypeOK, TablesTypeOK
<1> QED
  BY <1>9, <1>10 DEF BoxKept

\* The statement of an update, whatever became of the installation.
LEMMA UpdateKeeps ==
    ASSUME IInv, InstInv, NoticeInv, NEW w \in Workers, UpdateApply(w)
    PROVE  BoxKept
<1>1. PICK i \in InstIds : i = work[w].inst /\ installs[i].state # "none"
  BY DEF UpdateApply, InstInv, WorkTrue
<1>2. PICK row : row = [installs[i] EXCEPT !.state = "active"]
  OBVIOUS
<1>3. installs \in [InstIds -> InstRow] /\ installs[i] \in InstRow
  BY DEF IInv, BillingTypeOK, TablesTypeOK
<1>4. /\ row \in InstRow /\ row.state = "active" /\ row.sub = installs[i].sub
      /\ row.cancelAt = installs[i].cancelAt /\ row.stopped = installs[i].stopped
      /\ row.subState = installs[i].subState
  BY <1>2, <1>3 DEF InstRow, InstStates
<1>5. /\ installs' = [installs EXCEPT ![i] = row]
      /\ UNCHANGED <<billingVars, receipts, acks, answered, halfway>> /\ Done(w)
      /\ UNCHANGED <<subs, outdated>>
  BY <1>1, <1>2 DEF UpdateApply, requestVars, billingVars, webhookVars
<1>6. WorkMoves /\ answered' \subseteq InstIds
  BY <1>5, WorkerDone DEF InstInv, RequestsTyped
<1>7. PICK leaving \in BOOLEAN :
        leaving = (i \in receipts \/ row.state \in {"uninstall_pending", "removed"})
  OBVIOUS
<1>8. /\ row.sub \in SubIds /\ subs[row.sub].linked
      /\ Mirrors(row, leaving)'
  <2>1. leaving => Leaving(i)
    BY <1>4, <1>7 DEF Leaving
  <2> QED
    BY <1>1, <1>4, <1>5, <2>1, MirrorKept
<1>9. IInv' /\ InstInv' /\ NoticeInv' /\ Lasting
  BY <1>4, <1>5, <1>6, <1>7, <1>8, OneRow
<1>10. ASSUME NEW j \in InstIds PROVE LastKept(j)
  BY <1>3, <1>4, <1>5 DEF LastKept
<1> QED
  BY <1>9, <1>10 DEF BoxKept

\* A receipt removes an installation that asked for it; it is not answered yet.
LEMMA ReceiptKeeps ==
    ASSUME IInv, InstInv, NoticeInv, NEW w \in Workers, NEW i \in InstIds,
           ReceiptAccept(w, i)
    PROVE  BoxKept
<1>1. PICK row : row = [installs[i] EXCEPT !.state = "removed"]
  OBVIOUS
<1>2. installs \in [InstIds -> InstRow] /\ installs[i] \in InstRow
  BY DEF IInv, BillingTypeOK, TablesTypeOK
<1>3. /\ row \in InstRow /\ row.state = "removed" /\ row.sub = installs[i].sub
      /\ row.cancelAt = installs[i].cancelAt /\ row.stopped = installs[i].stopped
      /\ row.subState = installs[i].subState
  BY <1>1, <1>2 DEF InstRow, InstStates
<1>4. PICK job : job = [NoWork EXCEPT !.step = "received", !.inst = i]
  OBVIOUS
<1>5. /\ installs[i].state = "uninstall_pending"
      /\ installs' = [installs EXCEPT ![i] = row]
      /\ receipts' = receipts \union {i} /\ answered' = answered \ {i}
      /\ work' = [work EXCEPT ![w] = job]
      /\ UNCHANGED <<billingVars, acks, halfway>>
      /\ UNCHANGED <<subs, outdated>>
  BY <1>1, <1>4 DEF ReceiptAccept, ReceiptScope, billingVars, webhookVars
<1>6. job \in Work /\ job.step = "received" /\ job.inst = i
  <2>1. job = [step |-> "received", sub |-> 0, inst |-> i, package |-> NoInst]
    BY <1>4 DEF NoWork
  <2> QED
    BY <2>1, StoreAssumption DEF Work
<1>7. work'[w] = job => WorkTrue(w)'
  BY <1>2, <1>3, <1>5, <1>6 DEF WorkTrue, Late
<1>8. WorkMoves /\ answered' \subseteq InstIds
  BY <1>5, <1>6, <1>7, WorkerMoves DEF InstInv, RequestsTyped, Late
<1>9. PICK leaving \in BOOLEAN : leaving = TRUE
  OBVIOUS
<1>10. IInv' /\ InstInv' /\ NoticeInv' /\ Lasting
  <2>1. /\ row.sub \in SubIds /\ subs[row.sub].linked
        /\ Mirrors(row, leaving)'
    BY <1>3, <1>5, <1>9, MirrorKept DEF Leaving
  <2>2. leaving = (i \in receipts' \/ row.state \in {"uninstall_pending", "removed"})
    BY <1>3, <1>9
  <2> QED
    BY <1>3, <1>5, <1>8, <2>1, <2>2, OneRow
<1>11. ASSUME NEW j \in InstIds PROVE LastKept(j)
  BY <1>2, <1>3, <1>5 DEF LastKept
<1> QED
  BY <1>10, <1>11 DEF BoxKept

\* An acknowledgement is only recorded.
LEMMA BillingKeeps ==
    ASSUME IInv, InstInv, NoticeInv, NEW i \in InstIds, Billing(i)
    PROVE  BoxKept
<1>1. /\ UNCHANGED <<installs, billingVars, work, receipts, answered, halfway>>
      /\ acks' = acks \union {<<i, installs[i].subState>>}
  BY DEF Billing
<1>2. UNCHANGED <<subs, installs, checkoutPc, seen, checkouts, sold, sent,
                  processed, refused, outdated, work, receipts, answered, halfway>>
  BY <1>1 DEF billingVars, providerVars, webhookVars
<1>3. IInv'
  BY <1>1, StepInv
<1>4. InstInv'
  <2>1. installs[i].subState \in MirrorStates
    BY DEF IInv, BillingTypeOK, TablesTypeOK, InstRow
  <2>2. RequestsTyped'
    BY <1>1, <2>1 DEF InstInv, RequestsTyped
  <2>3. /\ \A j \in InstIds : RiderTrue(j)'
        /\ \A w \in Workers : WorkTrue(w)'
    BY <1>2 DEF InstInv, RiderTrue, WorkTrue, Mirrors, Doubtful, Leaving, Rides
  <2> QED
    BY <2>2, <2>3 DEF InstInv
<1>5. NoticeInv' /\ Lasting
  BY <1>2 DEF NoticeInv, Told, Events, Lasting
<1> QED
  BY <1>2, <1>3, <1>4, <1>5 DEF BoxKept, LastKept

\* A statement writes a paid row, and installations.
LEMMA PaidRowWritten ==
    ASSUME IInv, NEW s \in SubIds, NEW new \in SubRow, subs[s].linked,
           subs' = [subs EXCEPT ![s] = new],
           new.state \in Entitling \union {subs[s].state},
           new.checkout = subs[s].checkout, new.linked,
           new.entitled = subs[s].entitled, new.abandoned = subs[s].abandoned,
           new.state \in Entitling => subs[s].state \in Entitling,
           \/ new.state = subs[s].state /\ new.cancelAt = subs[s].cancelAt
           \/ new.state = "cancel_at_period_end",
           new.stopped = subs[s].stopped,
           UNCHANGED <<checkoutPc, seen, providerVars, webhookVars>>,
           installs' \in [InstIds -> InstRow]
    PROVE  IInv'
<1>1. RowTrue(s) /\ subs \in [SubIds -> SubRow] /\ subs[s] \in SubRow
  BY DEF IInv, BillingTypeOK, TablesTypeOK
<1>2. /\ subs[s].checkout /\ checkouts[s] = "paid" /\ ~subs[s].abandoned
      /\ subs[s].state \notin {"none", "checkout_pending"}
  BY <1>1 DEF RowTrue, NoSub
<1>3. UNCHANGED <<checkoutPc, seen, checkouts, sold, sent, processed, refreshing,
                  refused, outdated>>
  BY DEF providerVars, webhookVars
<1>4. RowTrue(s)'
  <2>1. subs'[s] = new /\ checkouts'[s] = "paid"
    BY <1>1, <1>2, <1>3
  <2>2. new.state \notin {"none", "checkout_pending"}
    BY <1>2 DEF Entitling
  <2>3. ~new.abandoned /\ new.checkout
    BY <1>2
  <2>4. new.state \in Entitling => new.entitled
    BY <1>1 DEF RowTrue
  <2>5. new.stopped <=> new.state = "cancelled"
    BY <1>1 DEF RowTrue, Entitling
  <2>6. new.cancelAt => new.state \in Stopping \/ s \in outdated'
    BY <1>1, <1>3 DEF RowTrue, Stopping
  <2> QED
    BY <2>1, <2>2, <2>3, <2>4, <2>5, <2>6 DEF RowTrue
<1>5. /\ subs' \in [SubIds -> SubRow]
      /\ RowsContiguous' /\ (\A u \in SubIds : RowTrue(u)')
      /\ ProviderTrue' /\ (\A r \in Requests : HandlerTrue(r)')
  <2>1. subs[s].state # "none" /\ new.state # "none" /\ new.checkout
    BY <1>2 DEF Entitling
  <2> QED
    BY <1>2, <1>3, <1>4, <2>1, RowRewritten
<1>6. SeenTrue'
  BY <1>3 DEF IInv, SeenTrue
<1>7. BillingTypeOK'
  BY <1>3, <1>5 DEF IInv, BillingTypeOK, TablesTypeOK, Events
<1>8. OpenTrue'
  <2>1. subs'[s] = new /\ \A u \in SubIds \ {s} : subs'[u] = subs[u]
    BY <1>1
  <2>2. subs[s].state \in Stopping => new.state \in Stopping
    BY DEF Stopping
  <2> QED
    BY <1>3, <2>1, <2>2, OpenStays
<1> QED
  BY <1>5, <1>6, <1>7, <1>8 DEF IInv

\* What a statement on the rows of paid copies keeps: a row that stops goes on
\* stopping, and one that begins to is known to be half written.
LEMMA PaidRowKeeps ==
    ASSUME IInv, InstInv, NoticeInv, IInv', WorkMoves,
           UNCHANGED <<installs, sold, sent, checkouts, seen, outdated, receipts, acks,
                       answered>>,
           halfway \subseteq halfway', halfway' \subseteq SubIds,
           \A u \in halfway' : u \in halfway \/ Told(u),
           \A u \in SubIds : subs[u].linked =>
               /\ subs'[u].linked
               /\ subs[u].state \in Stopping => subs'[u].state = subs[u].state
               /\ subs'[u].state \in Stopping =>
                     subs[u].state \in Stopping \/ u \in halfway',
           \A u \in SubIds : subs'[u].linked => subs[u].linked
    PROVE  BoxKept
<1>1. Lasting
  BY DEF Lasting, Told
<1>2. InstInv'
  <2>1. RequestsTyped'
    BY DEF InstInv, RequestsTyped, WorkMoves
  <2>2. ASSUME NEW i \in InstIds PROVE RiderTrue(i)'
    <3>1. RiderTrue(i) /\ (Leaving(i)' <=> Leaving(i)) /\ Doubtful \subseteq Doubtful'
      BY DEF InstInv, Leaving, Doubtful
    <3>2. CASE installs[i].state = "none"
      BY <3>1, <3>2 DEF RiderTrue
    <3>3. CASE installs[i].state # "none"
      <4>1. PICK s \in SubIds : s = installs[i].sub
        BY <3>1, <3>3 DEF RiderTrue
      <4>2. subs[s].linked /\ Mirrors(installs[i], Leaving(i))
        BY <3>1, <3>3, <4>1 DEF RiderTrue
      <4>3. Mirrors(installs[i], Leaving(i))'
        BY <3>1, <4>1, <4>2 DEF Mirrors, Doubtful, Stopping
      <4> QED
        BY <3>1, <4>1, <4>2, <4>3 DEF RiderTrue
    <3> QED
      BY <3>2, <3>3
  <2>3. ASSUME NEW v \in Workers PROVE WorkTrue(v)'
    BY <1>1, OthersKept DEF WorkMoves, Lasting
  <2> QED
    BY <2>1, <2>2, <2>3 DEF InstInv
<1>3. NoticeInv'
  <2>1. ASSUME NEW v \in Workers, work'[v].step \in Late
        PROVE  Given(sold'[work'[v].sub])
    BY <2>1 DEF WorkMoves, NoticeInv, Told
  <2>2. \A u \in SubIds : subs'[u].linked /\ subs'[u].state \in Stopping => Given(sold'[u])
    BY DEF NoticeInv, Told
  <2> QED
    BY <2>1, <2>2 DEF NoticeInv, Told, Events
<1> QED
  BY <1>1, <1>2, <1>3 DEF BoxKept, LastKept

\* The reservation changes nothing that anybody else relies on.
LEMMA ReserveKeeps ==
    ASSUME IInv, InstInv, NoticeInv, NEW w \in Workers, InstallReserve(w)
    PROVE  BoxKept
<1>1. PICK s \in SubIds, i \in InstIds, p \in Packages :
        s = work[w].sub /\ i = work[w].inst /\ p = work[w].package
  BY DEF InstallReserve, InstInv, WorkTrue
<1>2. /\ subs[s].linked /\ subs \in [SubIds -> SubRow] /\ subs[s] \in SubRow
      /\ installs' = installs /\ installs \in [InstIds -> InstRow]
      /\ UNCHANGED <<checkouts, seen, sold, sent, outdated, receipts, acks, answered,
                     halfway>>
  BY <1>1 DEF InstallReserve, InstInv, WorkTrue, IInv, BillingTypeOK,
              TablesTypeOK, providerVars, webhookVars, requestVars
<1>3. PICK new \in SubRow : /\ subs' = [subs EXCEPT ![s] = new]
                            /\ new.state = subs[s].state
                            /\ new.linked = subs[s].linked
                            /\ new.checkout = subs[s].checkout
                            /\ new.entitled = subs[s].entitled
                            /\ new.abandoned = subs[s].abandoned
                            /\ new.cancelAt = subs[s].cancelAt
                            /\ new.stopped = subs[s].stopped
  <2>1. PICK v : v = IF subs[s].reserved = NoInst THEN i ELSE subs[s].reserved
    OBVIOUS
  <2>2. v \in InstIds \union {NoInst}
    BY <1>2, <2>1 DEF SubRow
  <2> DEFINE new == [subs[s] EXCEPT !.reserved = v]
  <2>3. subs' = [subs EXCEPT ![s] = new]
    BY <1>1, <2>1 DEF InstallReserve, ReservedFor
  <2>4. /\ new \in SubRow /\ new.state = subs[s].state
        /\ new.linked = subs[s].linked /\ new.checkout = subs[s].checkout
        /\ new.entitled = subs[s].entitled /\ new.abandoned = subs[s].abandoned
        /\ new.cancelAt = subs[s].cancelAt /\ new.stopped = subs[s].stopped
    BY <1>2, <2>2 DEF SubRow
  <2> HIDE DEF new
  <2> QED
    BY <2>3, <2>4
<1>4. IInv'
  <2>1. new.state \in Entitling => subs[s].state \in Entitling
    BY <1>3
  <2>2. UNCHANGED <<checkoutPc, seen, providerVars, webhookVars>>
    BY DEF InstallReserve
  <2> QED
    BY <1>2, <1>3, <2>1, <2>2, PaidRowWritten
<1>5. \A u \in SubIds : /\ subs'[u].state = subs[u].state
                        /\ subs'[u].linked = subs[u].linked
  BY <1>2, <1>3
<1>6. WorkMoves
  <2>1. PICK job : job = [work[w] EXCEPT !.step = "reserved"]
    OBVIOUS
  <2>2. work[w] \in Work
    BY DEF InstInv, RequestsTyped
  <2>3. /\ job \in Work /\ job.step = "reserved" /\ job.sub = s /\ job.inst = i
        /\ job.package = p
    BY <1>1, <2>1, <2>2 DEF Work
  <2>4. work' = [work EXCEPT ![w] = job]
    BY <2>1 DEF InstallReserve, Goes
  <2>5. work'[w] = job => WorkTrue(w)'
    BY <1>2, <1>5, <2>3 DEF WorkTrue, Late
  <2> QED
    BY <2>3, <2>4, <2>5, WorkerMoves DEF Late
<1>7. halfway \subseteq SubIds
  BY DEF InstInv, RequestsTyped
<1> QED
  BY <1>2, <1>4, <1>5, <1>6, <1>7, PaidRowKeeps

\* Before anything is dated, the provider is told.
LEMMA CancelKeeps ==
    ASSUME IInv, InstInv, NoticeInv, NEW w \in Workers, ProviderCancels(w)
    PROVE  BoxKept
<1>1. PICK s \in SubIds : s = work[w].sub /\ subs[s].linked
  BY DEF ProviderCancels, InstInv, WorkTrue, Late
<1>2. /\ UNCHANGED <<subs, installs, checkoutPc, seen, checkouts, processed, refused,
                     refreshing, outdated, receipts, acks, answered, halfway>>
      /\ Goes(w, "scheduling")
      /\ work[w].step = "cancelling" /\ work[w] \in Work
      /\ work \in [Workers -> Work] /\ sold[s] \in Sold
  BY <1>1 DEF ProviderCancels, tableVars, webhookVars, requestVars, InstInv,
              RequestsTyped, IInv, BillingTypeOK
<1>3. checkouts[s] = "paid"
  BY <1>1 DEF IInv, RowTrue
<1>4. /\ IInv' /\ Given(sold'[s])
      /\ \A u \in SubIds : /\ Told(u) => Given(sold'[u])
                           /\ sold'[u].cancel \/ sold'[u].kept =>
                                  sold'[u].state # "none"
      /\ \A e \in Events' : sent'[e].kind \in StopKinds => Given(sold'[sent'[e].sub])
  <2>1. CASE sold[s].state = "ended" \/ sold[s].cancel
    <3>1. sold' = sold /\ sent' = sent
      BY <1>1, <2>1 DEF ProviderCancels
    <3>2. IInv'
      BY <1>2, <3>1, StepInv DEF billingVars, providerVars, webhookVars
    <3> QED
      BY <2>1, <3>1, <3>2 DEF NoticeInv, Told, Given, Events, StopKinds
  <2>2. CASE ~(sold[s].state = "ended" \/ sold[s].cancel)
    <3>0. PICK kind : /\ kind = KindOf(s, "subscription_cancel_scheduled")
                      /\ kind \in {"subscription_active", "subscription_past_due",
                                   "subscription_cancel_scheduled"}
      BY DEF KindOf, StripeKind
    <3> DEFINE new == [sold[s] EXCEPT !.cancel = TRUE]
    <3>1. /\ Len(sent) < MaxEvents /\ sold' = [sold EXCEPT ![s] = new]
          /\ sent' = Append(sent, Message(kind, s, FALSE))
      BY <1>1, <2>2, <3>0 DEF ProviderCancels
    <3>2. /\ new \in Sold /\ new.cancel /\ new.state = sold[s].state
          /\ new.kept = sold[s].kept
      BY <1>2 DEF Sold
    <3>3. Changes(s, new, kind, FALSE)
      BY <1>2, <3>1 DEF Changes, tableVars, webhookVars
    <3> HIDE DEF new
    <3>4. IInv'
      BY <1>2, <1>3, <3>0, <3>2, <3>3, ChangePreserves
    <3>5. sold[s].state # "none"
      BY <1>3 DEF NoticeInv
    <3>6. /\ \A u \in SubIds : /\ Told(u) => Told(u)'
                               /\ sold'[u].cancel \/ sold'[u].kept =>
                                      sold'[u].state # "none"
          /\ \A e \in Events' : sent'[e].kind \in StopKinds => Given(sold'[sent'[e].sub])
      <4>1. PICK m : m = Message(kind, s, FALSE)
        OBVIOUS
      <4>2. Given(new) /\ new.state # "none"
        BY <3>2, <3>5 DEF Given
      <4>3. kind \in
              {"subscription_active", "subscription_past_due",
               "subscription_uncancelled", "subscription_refresh"} \union StopKinds
        BY <3>0 DEF StopKinds
      <4> QED
        BY <3>1, <3>2, <4>1, <4>2, <4>3, ChangeTold
    <3>7. Given(sold'[s])
      BY <3>1, <3>2 DEF Given, IInv, BillingTypeOK
    <3> QED
      BY <3>4, <3>6, <3>7 DEF Told
  <2> QED
    BY <2>1, <2>2
<1>5. PICK job : job = [work[w] EXCEPT !.step = "scheduling"]
  OBVIOUS
<1>6. /\ job \in Work /\ job.step = "scheduling" /\ job.sub = s
      /\ job.inst = work[w].inst
  BY <1>1, <1>2, <1>5 DEF Work
<1>7. /\ work' \in [Workers -> Work] /\ work'[w] = job
      /\ \A v \in Workers \ {w} : work'[v] = work[v]
  BY <1>2, <1>5, <1>6 DEF Goes
<1>8. Lasting
  BY <1>2, <1>4 DEF Lasting, Told
<1>9. InstInv'
  <2>1. RequestsTyped'
    BY <1>2, <1>7 DEF InstInv, RequestsTyped
  <2>2. ASSUME NEW i \in InstIds PROVE RiderTrue(i)'
    BY <1>2 DEF InstInv, RiderTrue, Mirrors, Doubtful, Leaving
  <2>3. ASSUME NEW v \in Workers PROVE WorkTrue(v)'
    <3>1. CASE v = w
      <4>1. work[w].inst # NoInst => Rides(work[w].inst, s)
        BY <1>1, <1>2 DEF InstInv, WorkTrue, Late
      <4> QED
        BY <1>1, <1>2, <1>6, <1>7, <3>1, <4>1 DEF WorkTrue, Rides, Late
    <3>2. CASE v # w
      BY <1>2, <1>7, <1>8, <3>2, OthersKept DEF Lasting
    <3> QED
      BY <3>1, <3>2
  <2> QED
    BY <2>1, <2>2, <2>3 DEF InstInv
<1>10. NoticeInv'
  <2>1. ASSUME NEW v \in Workers, work'[v].step \in Late
        PROVE  Given(sold'[work'[v].sub])
    <3>1. CASE v = w
      BY <1>4, <1>6, <1>7, <3>1
    <3>2. CASE v # w
      <4>1. work[v].sub \in SubIds /\ Told(work[v].sub)
        BY <1>7, <2>1, <3>2 DEF InstInv, WorkTrue, NoticeInv
      <4> QED
        BY <1>4, <1>7, <3>2, <4>1
    <3> QED
      BY <3>1, <3>2
  <2>2. \A u \in SubIds : /\ checkouts'[u] = "paid" => sold'[u].state # "none"
                          /\ subs'[u].linked /\ subs'[u].state \in Stopping => Given(sold'[u])
    <3>1. \A u \in SubIds : sold[u].state # "none" => sold'[u].state # "none"
      <4>1. sold'[s].state = sold[s].state /\ \A u \in SubIds \ {s} : sold'[u] = sold[u]
        <5>1. sold' \in {sold, [sold EXCEPT ![s].cancel = TRUE]}
          BY <1>1 DEF ProviderCancels
        <5>2. sold \in [SubIds -> Sold]
          BY DEF IInv, BillingTypeOK
        <5> QED
          BY <1>2, <5>1, <5>2 DEF Sold
      <4> QED
        BY <4>1
    <3> QED
      BY <1>2, <1>4, <3>1 DEF NoticeInv
  <2>3. ASSUME NEW c \in Reconcilers, seen'[c] # Nothing,
               seen'[c].outcome = "cancelling"
        PROVE  Given(sold'[seen'[c].sub])
    BY <1>2, <1>4, <2>3 DEF NoticeInv, IInv, SeenTrue
  <2>4. \A u \in halfway' : Given(sold'[u])
    BY <1>2, <1>4 DEF NoticeInv, InstInv, RequestsTyped
  <2> QED
    BY <1>4, <2>1, <2>2, <2>3, <2>4 DEF NoticeInv, Told, StopKinds
<1> QED
  BY <1>2, <1>4, <1>8, <1>9, <1>10 DEF BoxKept, LastKept

\* The copy is dated once the provider was told.
LEMMA ScheduleRowKeeps ==
    ASSUME IInv, InstInv, NoticeInv, NEW w \in Workers, ScheduleRow(w)
    PROVE  BoxKept
<1>1. PICK s \in SubIds : s = work[w].sub /\ subs[s].linked
  BY DEF ScheduleRow, InstInv, WorkTrue, Late
<1>2. /\ subs' = [subs EXCEPT ![s] = Scheduled(subs[s])]
      /\ halfway' = IF subs[s].state \in {"active", "past_due"}
                    THEN halfway \union {s} ELSE halfway
      /\ Goes(w, "mirroring") /\ work[w].step = "scheduling"
      /\ UNCHANGED <<installs, checkoutPc, seen, providerVars, webhookVars>>
      /\ UNCHANGED <<seen, checkouts, sold, sent, outdated, receipts, acks, answered>>
  BY <1>1 DEF ScheduleRow, providerVars, webhookVars
<1>3. /\ subs \in [SubIds -> SubRow] /\ subs[s] \in SubRow /\ RowTrue(s)
      /\ installs \in [InstIds -> InstRow] /\ halfway \subseteq SubIds
      /\ work \in [Workers -> Work] /\ work[w] \in Work
  BY DEF IInv, BillingTypeOK, TablesTypeOK, InstInv, RequestsTyped
<1>4. subs[s].state \in Entitling \union {"cancelled"}
  BY <1>1, <1>3 DEF RowTrue, NoSub, Entitling, SubRow, SubStates
<1>5. PICK new \in SubRow :
        /\ subs' = [subs EXCEPT ![s] = new]
        /\ new.linked = subs[s].linked /\ new.checkout = subs[s].checkout
        /\ new.entitled = subs[s].entitled /\ new.abandoned = subs[s].abandoned
        /\ new.stopped = subs[s].stopped
        /\ \/ new = subs[s] /\ subs[s].state \in Stopping
           \/ new.state = "cancel_at_period_end" /\ subs[s].state \in Entitling
  <2>1. CASE subs[s].state \in {"active", "past_due"}
    <3>1. PICK half : half = [subs[s] EXCEPT !.state = "cancel_at_period_end"]
      OBVIOUS
    <3>2. /\ half \in SubRow /\ half.state = "cancel_at_period_end"
          /\ half.linked = subs[s].linked /\ half.checkout = subs[s].checkout
          /\ half.entitled = subs[s].entitled /\ half.abandoned = subs[s].abandoned
          /\ half.stopped = subs[s].stopped
      BY <1>3, <3>1 DEF SubRow, SubStates
    <3> DEFINE new == [half EXCEPT !.cancelAt = TRUE]
    <3>3. /\ new \in SubRow /\ new.state = half.state
          /\ new.linked = half.linked /\ new.checkout = half.checkout
          /\ new.entitled = half.entitled /\ new.abandoned = half.abandoned
          /\ new.stopped = half.stopped
      BY <3>2 DEF SubRow
    <3>4. Scheduled(subs[s]) = new
      BY <2>1, <3>1 DEF Scheduled
    <3> HIDE DEF new
    <3>5. subs[s].state \in Entitling
      BY <2>1 DEF Entitling
    <3> QED
      BY <1>2, <3>2, <3>3, <3>4, <3>5
  <2>2. CASE subs[s].state \notin {"active", "past_due"}
    <3>1. Scheduled(subs[s]) = subs[s] /\ subs[s].state \in Stopping
      BY <1>4, <2>2 DEF Scheduled, Stopping, Entitling
    <3> QED
      BY <1>2, <1>3, <3>1
  <2> QED
    BY <2>1, <2>2
<1>6. IInv'
  <2>1. /\ new.state \in Entitling \union {subs[s].state}
        /\ new.state \in Entitling => subs[s].state \in Entitling
        /\ \/ new.state = subs[s].state /\ new.cancelAt = subs[s].cancelAt
           \/ new.state = "cancel_at_period_end"
    BY <1>5 DEF Entitling
  <2> QED
    BY <1>1, <1>2, <1>3, <1>5, <2>1, PaidRowWritten
<1>7. Told(s)
  BY <1>1, <1>2 DEF NoticeInv, Late
<1>8. /\ subs'[s].linked /\ subs'[s].state \in Stopping
      /\ subs[s].state \in Stopping => subs'[s].state = subs[s].state
      /\ subs[s].state \notin Stopping => s \in halfway'
      /\ \A u \in SubIds \ {s} : subs'[u] = subs[u]
  <2>1. subs[s].state \notin Stopping => subs[s].state \in {"active", "past_due"}
    BY <1>4 DEF Entitling, Stopping
  <2>2. subs[s].state \in Stopping => Scheduled(subs[s]) = subs[s]
    BY DEF Stopping, Scheduled
  <2>3. subs'[s] = new /\ subs'[s] = Scheduled(subs[s])
    BY <1>2, <1>3, <1>5
  <2> QED
    BY <1>1, <1>2, <1>3, <1>5, <2>1, <2>2, <2>3 DEF Stopping
<1>9. WorkMoves
  <2>1. PICK job : job = [work[w] EXCEPT !.step = "mirroring"]
    OBVIOUS
  <2>2. /\ job \in Work /\ job.step = "mirroring" /\ job.sub = s
        /\ job.inst = work[w].inst
    BY <1>1, <1>3, <2>1 DEF Work
  <2>3. work' = [work EXCEPT ![w] = job]
    BY <1>2, <2>1 DEF Goes
  <2>4. work[w].inst # NoInst => Rides(work[w].inst, s)
    BY <1>1, <1>2 DEF InstInv, WorkTrue, Late
  <2>5. work'[w] = job => WorkTrue(w)'
    BY <1>2, <1>8, <2>2, <2>4 DEF WorkTrue, Late, Rides
  <2>6. Given(sold'[job.sub])
    BY <1>2, <1>7, <2>2 DEF Told
  <2> QED
    BY <2>2, <2>3, <2>5, <2>6, WorkerMoves
<1>10. /\ halfway \subseteq halfway' /\ halfway' \subseteq SubIds
       /\ \A u \in halfway' : u \in halfway \/ Told(u)
  BY <1>2, <1>3, <1>7
<1>11. \A u \in SubIds : /\ subs[u].linked <=> subs'[u].linked
                         /\ subs[u].state \in Stopping => subs'[u].state = subs[u].state
                         /\ subs'[u].state \in Stopping =>
                               subs[u].state \in Stopping \/ u \in halfway'
  BY <1>1, <1>8
<1> QED
  BY <1>2, <1>6, <1>9, <1>10, <1>11, PaidRowKeeps

\* Its installations are dated after it, in a statement of their own.
LEMMA ScheduleMirrorKeeps ==
    ASSUME IInv, InstInv, NoticeInv, NEW w \in Workers, ScheduleMirror(w)
    PROVE  BoxKept
<1>1. PICK s \in SubIds : s = work[w].sub /\ subs[s].linked
  BY DEF ScheduleMirror, InstInv, WorkTrue, Late
<1>2. /\ installs' = ScheduledOn(s) /\ halfway' = HalfwayAfter(s)
      /\ IF work[w].inst = NoInst THEN Done(w) ELSE Goes(w, "marking")
      /\ work[w].step = "mirroring"
      /\ UNCHANGED <<billingVars, receipts, acks, answered>>
      /\ UNCHANGED <<subs, sold, outdated>>
  BY <1>1 DEF ScheduleMirror, billingVars, providerVars, webhookVars
<1>3. /\ installs \in [InstIds -> InstRow] /\ halfway \subseteq SubIds
      /\ work \in [Workers -> Work] /\ work[w] \in Work
      /\ receipts \subseteq InstIds /\ answered \subseteq InstIds
  BY DEF IInv, BillingTypeOK, TablesTypeOK, InstInv, RequestsTyped
<1>4. Told(s)
  BY <1>1, <1>2 DEF NoticeInv, Late
<1>5. ASSUME NEW i \in InstIds
      PROVE  /\ installs'[i] \in InstRow
             /\ installs'[i].state = installs[i].state
             /\ installs'[i].sub = installs[i].sub
             /\ installs'[i].stopped = installs[i].stopped
             /\ Rides(i, s) => /\ installs'[i].cancelAt
                               /\ installs'[i].subState = "cancel_at_period_end"
             /\ ~Rides(i, s) => installs'[i] = installs[i]
  <2>1. CASE Rides(i, s)
    <3>1. PICK half : half = [installs[i] EXCEPT !.subState = "cancel_at_period_end"]
      OBVIOUS
    <3>2. /\ half \in InstRow /\ half.state = installs[i].state
          /\ half.sub = installs[i].sub /\ half.stopped = installs[i].stopped
          /\ half.subState = "cancel_at_period_end"
      BY <1>3, <3>1 DEF InstRow, MirrorStates, SubStates
    <3>3. installs'[i] = [half EXCEPT !.cancelAt = TRUE]
      BY <1>2, <2>1, <3>1 DEF ScheduledOn
    <3> QED
      BY <2>1, <3>2, <3>3 DEF InstRow
  <2>2. CASE ~Rides(i, s)
    BY <1>2, <1>3, <2>2 DEF ScheduledOn
  <2> QED
    BY <2>1, <2>2
<1>6. installs' \in [InstIds -> InstRow]
  <2>1. installs' = [i \in InstIds |-> installs'[i]]
    BY <1>2 DEF ScheduledOn
  <2> QED
    BY <1>5, <2>1
<1>7. /\ halfway' \subseteq SubIds /\ \A u \in halfway' : u \in halfway \/ Told(u)
      /\ \A u \in halfway : u # s => u \in halfway'
      /\ subs[s].state \in Stopping \/ s \in halfway'
  BY <1>2, <1>3, <1>4 DEF HalfwayAfter
<1>8. RidersMove
  <2> SUFFICES ASSUME NEW i \in InstIds
               PROVE  \/ /\ installs'[i] = installs[i]
                         /\ (i \in receipts' <=> i \in receipts)
                         /\ installs[i].sub \in halfway => installs[i].sub \in halfway'
                      \/ /\ RiderTrue(i)'
                         /\ installs[i].state # "none" =>
                               installs'[i].state # "none" /\ installs'[i].sub = installs[i].sub
    BY DEF RidersMove
  <2>1. RiderTrue(i)
    BY DEF InstInv
  <2>2. CASE Rides(i, s)
    <3>1. /\ installs'[i].sub = s /\ installs'[i].state = installs[i].state
          /\ installs'[i].subState \in StopNames
          /\ installs'[i].stopped => subs[s].state = "cancelled"
      BY <1>5, <2>1, <2>2 DEF Rides, StopNames, Stopping, RiderTrue, Mirrors
    <3>2. Mirrors(installs[i], Leaving(i))'
      BY <1>2, <1>7, <3>1 DEF Mirrors, Doubtful
    <3> QED
      BY <1>1, <1>2, <2>2, <3>1, <3>2 DEF RiderTrue, Rides
  <2>3. CASE ~Rides(i, s) /\ installs[i].state # "none"
    BY <1>2, <1>5, <1>7, <2>3 DEF Rides
  <2>4. CASE ~Rides(i, s) /\ installs[i].state = "none"
    BY <1>2, <1>5, <2>1, <2>4 DEF RiderTrue
  <2> QED
    BY <2>2, <2>3, <2>4
<1>9. WorkMoves
  <2>1. CASE work[w].inst = NoInst
    BY <1>2, <2>1, WorkerDone
  <2>2. CASE work[w].inst # NoInst
    <3>1. PICK job : job = [work[w] EXCEPT !.step = "marking"]
      OBVIOUS
    <3>2. /\ job \in Work /\ job.step = "marking" /\ job.sub = s
          /\ job.inst = work[w].inst
      BY <1>1, <1>3, <3>1 DEF Work
    <3>3. work' = [work EXCEPT ![w] = job]
      BY <1>2, <2>2, <3>1 DEF Goes
    <3>4. job.inst \in InstIds /\ Rides(job.inst, s)
      BY <1>1, <1>2, <1>3, <2>2, <3>2 DEF InstInv, WorkTrue, Late, Work
    <3>5. work'[w] = job => WorkTrue(w)'
      BY <1>1, <1>2, <1>5, <2>2, <3>2, <3>4 DEF WorkTrue, Late, Rides
    <3>6. Given(sold'[job.sub])
      BY <1>2, <1>4, <3>2 DEF Told
    <3> QED
      BY <3>2, <3>3, <3>5, <3>6, WorkerMoves
  <2> QED
    BY <2>1, <2>2
<1>10. IInv' /\ InstInv' /\ NoticeInv' /\ Lasting
  BY <1>2, <1>3, <1>6, <1>7, <1>8, <1>9, InstallsMove
<1>11. ASSUME NEW i \in InstIds PROVE LastKept(i)
  BY <1>2, <1>5, <1>11 DEF LastKept
<1> QED
  BY <1>10, <1>11 DEF BoxKept

\* The receipt is answered last.
LEMMA MarkPendingKeeps ==
    ASSUME IInv, InstInv, NoticeInv, NEW w \in Workers, MarkPending(w)
    PROVE  BoxKept
<1>1. PICK s \in SubIds, i \in InstIds :
        /\ s = work[w].sub /\ i = work[w].inst
        /\ subs[s].linked /\ Rides(i, s)
  BY DEF MarkPending, InstInv, WorkTrue, Late, RequestsTyped, Work
<1>2. /\ work[w].step = "marking" /\ Done(w)
      /\ answered' = answered \union {i}
      /\ UNCHANGED <<billingVars, receipts, acks>>
      /\ UNCHANGED <<subs, sold, outdated>>
  BY <1>1 DEF MarkPending, billingVars, providerVars, webhookVars
<1>3. /\ installs \in [InstIds -> InstRow] /\ installs[i] \in InstRow
      /\ answered' \subseteq InstIds /\ Told(s) /\ WorkMoves
      /\ installs[i].state # "none" /\ installs[i].sub = s
  BY <1>1, <1>2, WorkerDone
  DEF IInv, BillingTypeOK, TablesTypeOK, InstInv, RequestsTyped, NoticeInv, Late,
      Rides
<1>4. CASE UNCHANGED <<installs, halfway>>
  <2>1. IInv' /\ InstInv' /\ NoticeInv' /\ Lasting
    BY <1>2, <1>3, <1>4, ReadStep
  <2>2. ASSUME NEW j \in InstIds PROVE LastKept(j)
    BY <1>2, <1>3, <1>4, <2>2 DEF LastKept, Told
  <2> QED
    BY <2>1, <2>2 DEF BoxKept
<1>5. CASE ~UNCHANGED <<installs, halfway>>
  <2>1. /\ installs[i].state = "removed"
        /\ installs' = [installs EXCEPT ![i].subState = "cancel_at_period_end",
                                        ![i].cancelAt = TRUE]
        /\ halfway' = IF subs[s].state \in Stopping THEN halfway
                      ELSE halfway \union {s}
    BY <1>1, <1>5 DEF MarkPending
  <2>2. PICK half : half = [installs[i] EXCEPT !.subState = "cancel_at_period_end"]
    OBVIOUS
  <2>3. /\ half \in InstRow /\ half.state = "removed" /\ half.sub = s
        /\ half.stopped = installs[i].stopped
        /\ half.subState = "cancel_at_period_end"
    BY <1>3, <2>1, <2>2 DEF InstRow, MirrorStates, SubStates
  <2>4. PICK row : row = [half EXCEPT !.cancelAt = TRUE]
    OBVIOUS
  <2>5. /\ row \in InstRow /\ row.state = "removed" /\ row.sub = s
        /\ row.stopped = installs[i].stopped
        /\ row.subState = "cancel_at_period_end"
    BY <2>3, <2>4 DEF InstRow
  <2>6. installs' = [installs EXCEPT ![i] = row]
    BY <1>3, <2>1, <2>2, <2>4 DEF InstRow
  <2>7. PICK leaving \in BOOLEAN : leaving = TRUE
    OBVIOUS
  <2>8. Mirrors(row, leaving)'
    <3>1. row.stopped => subs'[s].state = "cancelled"
      BY <1>2, <1>3, <2>5, RiderKnown DEF Mirrors
    <3>2. row.subState \in StopNames
      BY <2>5 DEF StopNames, Stopping
    <3>3. subs'[s].state \in Stopping \/ s \in halfway'
      BY <1>2, <2>1
    <3> QED
      BY <2>5, <3>1, <3>2, <3>3 DEF Mirrors, Doubtful
  <2>9. IInv' /\ InstInv' /\ NoticeInv' /\ Lasting
    <3>1. leaving = (i \in receipts' \/ row.state \in {"uninstall_pending", "removed"})
      BY <2>5, <2>7
    <3>2. halfway' = halfway \/ (halfway' = halfway \union {row.sub} /\ Told(row.sub))
      BY <1>3, <2>1, <2>5
    <3> QED
      BY <1>1, <1>2, <1>3, <2>5, <2>6, <2>8, <3>1, <3>2, OneRow
  <2>10. ASSUME NEW j \in InstIds PROVE LastKept(j)
    BY <1>2, <1>3, <2>1, <2>5, <2>6, <2>10 DEF LastKept, Told
  <2> QED
    BY <2>9, <2>10 DEF BoxKept
<1> QED
  BY <1>4, <1>5

\* Billing keeps what the box relies on, and takes nothing back.
LEMMA BillingStepKeeps ==
    ASSUME IInv, InstInv, NoticeInv, BillingStep
    PROVE  BoxKept
<1>1. BillingNext /\ answered' = answered
  BY DEF BillingStep, requestVars
<1>2. IInv'
  BY <1>1, StepInv
<1>3. \A i \in InstIds : SamePlace(i)
  BY <1>1, PlacesKept
<1>4. InstInv' /\ NoticeInv' /\ \A s \in SubIds : Told(s) => Told(s)'
  BY BillingKeepsInst, BillingKeepsNotice
<1>5. Lasting /\ \A i \in InstIds : LastKept(i)
  BY <1>1, <1>3, <1>4 DEF Lasting, LastKept, SamePlace
<1> QED
  BY <1>2, <1>4, <1>5 DEF BoxKept

LEMMA InstallsInit == Init => IInv /\ InstInv /\ NoticeInv /\ LastGoneStopsBilling
<1> SUFFICES ASSUME Init
             PROVE  IInv /\ InstInv /\ NoticeInv /\ LastGoneStopsBilling
  OBVIOUS
<1>1. IInv
  BY InitInv DEF Init
<1>2. /\ \A s \in SubIds : subs[s] = NoSub /\ sold[s] = NotSold /\ checkouts[s] = "none"
      /\ \A i \in InstIds : installs[i].state = "none"
      /\ sent = <<>> /\ \A c \in Reconcilers : seen[c] = Nothing
      /\ work = [w \in Workers |-> NoWork]
      /\ receipts = {} /\ acks = {} /\ answered = {} /\ halfway = {}
  BY DEF Init, BillingInit, TablesInit, NoInstRow
<1>3. InstInv
  <2>1. NoWork \in Work /\ NoWork.step = "idle"
    BY StoreAssumption DEF NoWork, Work
  <2> HIDE DEF NoWork
  <2>2. RequestsTyped
    BY <1>2, <2>1 DEF RequestsTyped
  <2>3. \A i \in InstIds : RiderTrue(i)
    BY <1>2 DEF RiderTrue
  <2>4. \A w \in Workers : WorkTrue(w)
    BY <1>2, <2>1 DEF WorkTrue, Late
  <2> QED
    BY <1>2, <2>2, <2>3, <2>4 DEF InstInv
<1>4. NoticeInv
  BY <1>2 DEF NoticeInv, NotSold, NoSub, Events, NoWork, Late
<1>5. LastGoneStopsBilling
  BY <1>2 DEF LastGoneStopsBilling, Rides
<1> QED
  BY <1>1, <1>3, <1>4, <1>5

\* Of the steps of the system, each keeps everything.
LEMMA InstallsStep ==
    ASSUME IInv, InstInv, NoticeInv, Next
    PROVE  BoxKept
<1>1. ASSUME NEW w \in Workers,
             InstallStep(w) \/ UpdateStep(w) \/ UninstallStep(w) \/ Fail(w)
      PROVE  BoxKept
  BY <1>1, ReadKeeps, AnswerKeeps, InsertKeeps, UpdateKeeps, ReceiptKeeps,
     ReserveKeeps, CancelKeeps, ScheduleRowKeeps, ScheduleMirrorKeeps,
     MarkPendingKeeps
  DEF InstallStep, UpdateStep, UninstallStep
<1>2. ASSUME NEW i \in InstIds, BoxStep(i) PROVE BoxKept
  BY <1>2, BoxMoveKeeps, BillingKeeps DEF BoxStep
<1> QED
  BY <1>1, <1>2, BillingStepKeeps DEF Next

\* Who was told is told for good, and a new last receipt is answered only then.
LEMMA LastStep ==
    ASSUME InstInv, LastGoneStopsBilling, BoxKept
    PROVE  LastGoneStopsBilling'
<1> SUFFICES ASSUME NEW s \in SubIds, NEW i \in InstIds, Rides(i, s)',
                    \A j \in InstIds : Rides(j, s)' =>
                        installs'[j].state = "removed" /\ j \in answered'
             PROVE  Given(sold'[s])
  BY DEF LastGoneStopsBilling, Given
<1>1. ASSUME NEW j \in InstIds, Rides(j, s)', ~Given(sold'[s])
      PROVE  installs[j].state = "removed" /\ j \in answered /\ installs[j].sub = s
  BY <1>1 DEF BoxKept, LastKept, Rides
<1>2. \A j \in InstIds : Rides(j, s) => Rides(j, s)'
  BY DEF BoxKept, Lasting, Rides
<1>3. ASSUME ~Given(sold'[s]) PROVE Given(sold[s])
  <2>1. Rides(i, s)
    BY <1>1, <1>3 DEF Rides
  <2>2. \A j \in InstIds : Rides(j, s) =>
            installs[j].state = "removed" /\ j \in answered
    BY <1>1, <1>2, <1>3
  <2> QED
    BY <2>1, <2>2 DEF LastGoneStopsBilling, Given
<1> QED
  BY <1>3 DEF BoxKept, Lasting, Told

\* The rows, the requests and the provider agree, whatever is in flight.
THEOREM InstallsInvariance ==
    Spec => [](IInv /\ InstInv /\ NoticeInv /\ LastGoneStopsBilling)
<1> DEFINE Inv == IInv /\ InstInv /\ NoticeInv /\ LastGoneStopsBilling
<1>1. Inv /\ [Next]_vars => Inv'
  <2>1. CASE Next
    BY <2>1, InstallsStep, LastStep DEF BoxKept
  <2>2. ASSUME Inv, UNCHANGED vars PROVE Inv'
    <3>1. /\ UNCHANGED <<installs, billingVars, work, receipts, acks, answered, halfway>>
          /\ UNCHANGED <<subs, checkoutPc, seen, checkouts, sold, sent, processed,
                         refused, outdated>>
      BY <2>2 DEF vars, requestVars, billingVars, providerVars, webhookVars
    <3>2. IInv'
      BY <2>2, <3>1, StepInv
    <3>3. InstInv'
      BY <2>2, <3>1
      DEF InstInv, RequestsTyped, RiderTrue, WorkTrue, Mirrors, Doubtful, Leaving,
          Rides
    <3>4. NoticeInv' /\ LastGoneStopsBilling'
      BY <2>2, <3>1 DEF NoticeInv, Told, Events, LastGoneStopsBilling, Rides
    <3> QED
      BY <3>2, <3>3, <3>4
  <2> QED
    BY <2>1, <2>2
<1> QED
  BY <1>1, InstallsInit, PTL DEF Spec

\* No request leaves an installation, a worker, an acknowledgement, a row or
\* the provider in a state the code does not name.
THEOREM InstallsTypeCorrect == Spec => []TypeOK
<1>1. IInv /\ InstInv => TypeOK
  BY DEF IInv, InstInv, RequestsTyped, TypeOK
<1> QED
  BY <1>1, InstallsInvariance, PTL

\* Beside installations too, a copy is entitled only by a payment, and its
\* dates agree with its state, but for a refresh that dates a cancellation the
\* owner had taken back.
THEOREM CopiesPaidAndDated == Spec => [](EntitledOnlyIfPaid /\ DatesAgree)
<1>1. IInv => EntitledOnlyIfPaid /\ DatesAgree
  BY InvariantDates DEF IInv, RowTrue, EntitledOnlyIfPaid
<1> QED
  BY <1>1, InstallsInvariance, PTL

\* An owner who removed every agent of a copy, with an answer for every
\* receipt, does not go on paying (uninstallReceipts), for any number of
\* requests in flight.
THEOREM BillingStopsAtLast == Spec => []LastGoneStopsBilling
  BY InstallsInvariance, PTL

\* FAIVR signs that billing stops only once the provider was told (billing).
THEOREM SignedOnceTold == Spec => []AckTruthful
<1>1. IInv /\ InstInv /\ NoticeInv => AckTruthful
  <2> SUFFICES ASSUME IInv, InstInv, NoticeInv, NEW i \in InstIds, StopDated(i)
               PROVE  Given(sold[installs[i].sub])
    BY DEF AckTruthful, Given
  <2>1. installs[i].state # "none" /\ Dated(i)
    BY DEF StopDated, InstInv, RiderTrue, Dated
  <2>2. PICK s \in SubIds : /\ s = installs[i].sub /\ subs[s].linked
                            /\ subs[s].state \in Stopping \/ s \in Doubtful
    BY <2>1, RiderKnown DEF Dated, Mirrors
  <2>3. CASE subs[s].state \in Stopping \/ s \in halfway
    BY <2>2, <2>3 DEF NoticeInv, Told
  <2>4. CASE s \in outdated
    BY <2>2, <2>4 DEF IInv, OpenTrue, OutdatedTrue, Given
  <2> QED
    BY <2>2, <2>3, <2>4 DEF Doubtful
<1> QED
  BY <1>1, InstallsInvariance, PTL

\* Only the GET of the billing signs.
LEMMA SignedAtBilling ==
    ASSUME Next
    PROVE  acks' = acks \/ \E i \in InstIds : Billing(i)
<1>1. CASE BillingStep
  BY <1>1 DEF BillingStep, requestVars
<1>2. ASSUME NEW w \in Workers, InstallStep(w) \/ UpdateStep(w) \/ Fail(w)
      PROVE  acks' = acks
  BY <1>2 DEF InstallStep, InstallRead, InstallReserve, InstallInsert, UpdateStep,
              UpdateRead, UpdateApply, Fail, requestVars
<1>3. ASSUME NEW w \in Workers, UninstallStep(w)
      PROVE  acks' = acks
  BY <1>3 DEF UninstallStep, ReceiptAccept, ReceiptReplay, AnswerRemaining,
              LastRemoved, CancelRead, ProviderCancels, ScheduleRow,
              ScheduleMirror, MarkPending, requestVars
<1>4. ASSUME NEW i \in InstIds, BoxStep(i)
      PROVE  acks' = acks \/ Billing(i)
  BY <1>4 DEF BoxStep, PackageDownload, AcknowledgeInstall, ArchiveInstallation,
              RequestUninstall, Moves, requestVars
<1> QED
  BY <1>1, <1>2, <1>3, <1>4 DEF Next

\* What FAIVR signs names a state in which billing stops (billing), unless a
\* refresh dated a cancellation that was taken back, or a cancellation is
\* written by half (scheduleBundleCancellation).
THEOREM SignedStops == Spec => AckNamesStop
<1> DEFINE Names == \A i \in InstIds, state \in MirrorStates :
              <<i, state>> \in acks' \ acks =>
                  state \in StopNames \/ installs[i].sub \in outdated \union halfway
<1>1. IInv /\ InstInv /\ Next => Names
  <2> SUFFICES ASSUME IInv, InstInv, Next, NEW j \in InstIds, NEW state \in MirrorStates,
                      <<j, state>> \in acks', <<j, state>> \notin acks
               PROVE  state \in StopNames \/ installs[j].sub \in Doubtful
    BY DEF Doubtful
  <2>1. PICK i \in InstIds : Billing(i)
    BY SignedAtBilling
  <2>2. i = j /\ state = installs[j].subState
    BY <2>1 DEF Billing
  <2>3. installs[j].state # "none" /\ Leaving(j) /\ Dated(j)
    BY <2>1, <2>2 DEF Billing, StopDated, Dated, Leaving, InstInv, RiderTrue
  <2> QED
    BY <2>2, <2>3, RiderKnown DEF Mirrors, Dated
<1>2. IInv /\ InstInv /\ [Next]_vars => [Names]_vars
  BY <1>1
<1> QED
  BY <1>2, InstallsInvariance, PTL DEF Spec, AckNamesStop

-------------------------------------------------------------------------------
\* One request of the box at a time

\* Nothing is installed and nothing removed.
Steady ==
    \A i \in InstIds :
        /\ installs'[i].sub = installs[i].sub
        /\ installs'[i].package = installs[i].package
        /\ installs'[i].state = "none" <=> installs[i].state = "none"
        /\ installs'[i].state = "removed" <=> installs[i].state = "removed"

LEMMA SteadyKeeps ==
    ASSUME InstInv, AloneInv, Steady, receipts' = receipts,
           \A v \in Workers : work'[v] = work[v] \/ AloneTrue(v)'
    PROVE  AloneInv'
<1>1. \A s \in 0 .. MaxSubs : LiveOn(s)' = LiveOn(s)
  BY DEF Steady, LiveOn, LiveInstall
<1>2. \A i \in receipts' : installs'[i].state = "removed"
  BY DEF AloneInv, Steady, InstInv, RequestsTyped
<1>3. ASSUME NEW v \in Workers, work'[v] = work[v] PROVE AloneTrue(v)'
  <2>1. AloneTrue(v) /\ WorkTrue(v) /\ work[v].sub \in 0 .. MaxSubs
    BY DEF AloneInv, InstInv, RequestsTyped, Work
  <2>2. PICK s \in 0 .. MaxSubs : s = work[v].sub
    BY <2>1
  <2>3. LiveOn(s)' = LiveOn(s) /\ LiveOn(s) \subseteq InstIds
    BY <1>1 DEF LiveOn
  <2>4. /\ work[v].step \in {"chosen", "reserved"} =>
              \A j \in LiveOn(s)' : installs'[j].package # work[v].package
        /\ work[v].step = "cancelling" => LiveOn(s)' = {}
    BY <2>1, <2>2, <2>3 DEF AloneTrue, Steady
  <2>5. /\ work[v].step = "updating" => installs'[work[v].inst].state # "removed"
        /\ work[v].step = "received" => installs'[work[v].inst].state = "removed"
    BY <2>1 DEF AloneTrue, WorkTrue, Steady
  <2> QED
    BY <1>3, <2>2, <2>4, <2>5 DEF AloneTrue
<1>4. PackageOnceACopy'
  <2> SUFFICES ASSUME NEW s \in SubIds, NEW i \in LiveOn(s)', NEW j \in LiveOn(s)',
                      i # j
               PROVE  installs'[i].package # installs'[j].package
    BY DEF PackageOnceACopy
  <2>1. i \in LiveOn(s) /\ j \in LiveOn(s) /\ i \in InstIds /\ j \in InstIds
    BY DEF Steady, LiveOn, LiveInstall
  <2> QED
    BY <2>1 DEF AloneInv, PackageOnceACopy, Steady
<1> QED
  BY <1>2, <1>3, <1>4 DEF AloneInv

\* What one worker does, it does alone.
AloneKept ==
    /\ AloneInv'
    /\ \A i \in InstIds :
          installs[i].state = "removed" => installs'[i].state = "removed"
    /\ \A s \in SubIds :
          work' # work /\ ~sold[s].cancel /\ sold'[s].cancel => LiveOn(s) = {}

\* Billing and the requests of one statement.
LEMMA AloneElsewhere ==
    ASSUME IInv, InstInv, AloneInv,
           \/ BillingStep
           \/ \E i \in InstIds : BoxStep(i)
    PROVE  AloneKept
<1>1. work' = work /\ receipts' = receipts
  BY DEF BillingStep, BoxStep, PackageDownload, AcknowledgeInstall,
         ArchiveInstallation, Moves, RequestUninstall, Billing, requestVars
<1>2. installs \in [InstIds -> InstRow]
  BY DEF IInv, BillingTypeOK, TablesTypeOK
<1>3. Steady
  <2>1. CASE BillingStep
    BY <2>1, PlacesKept DEF BillingStep, SamePlace, Steady
  <2>2. ASSUME NEW i \in InstIds, BoxStep(i) PROVE Steady
    <3>1. CASE Billing(i)
      BY <3>1 DEF Billing, Steady
    <3>2. ASSUME NEW to \in {"downloading", "active", "disabled"},
                 installs[i].state \notin {"none", "removed"},
                 installs' = [installs EXCEPT ![i].state = to]
          PROVE  Steady
      BY <1>2, <3>2 DEF Steady, InstRow
    <3>3. CASE RequestUninstall(i)
      <4>1. /\ installs[i].state \notin {"none", "removed"}
            /\ installs' = [installs EXCEPT ![i].state = "uninstall_pending",
                                ![i].subState = "cancellation_pending_uninstall"]
        BY <3>3 DEF RequestUninstall
      <4> QED
        BY <1>2, <4>1 DEF Steady, InstRow
    <3> QED
      BY <2>2, <3>1, <3>2, <3>3
      DEF BoxStep, PackageDownload, AcknowledgeInstall, ArchiveInstallation, Moves
  <2> QED
    BY <2>1, <2>2
<1>4. AloneInv'
  BY <1>1, <1>3, SteadyKeeps
<1> QED
  BY <1>1, <1>3, <1>4 DEF AloneKept, Steady

\* The steps of the worker that write no installation.
LEMMA AloneReads ==
    ASSUME IInv, InstInv, AloneInv, NEW w \in Workers,
           \/ \E s \in SubIds, p \in Packages, i \in InstIds : InstallRead(w, s, p, i)
           \/ InstallReserve(w)
           \/ \E i \in InstIds : UpdateRead(w, i) \/ ReceiptReplay(w, i)
           \/ AnswerRemaining(w) \/ LastRemoved(w)
           \/ \E s \in SubIds : CancelRead(w, s)
           \/ Fail(w)
    PROVE  AloneKept
<1>1. installs' = installs /\ receipts' = receipts /\ sold' = sold
  BY DEF InstallRead, InstallReserve, UpdateRead, ReceiptReplay, AnswerRemaining,
         LastRemoved, CancelRead, Fail, requestVars, billingVars, providerVars
<1>2. work \in [Workers -> Work] /\ work[w] \in Work /\ NoWork.step = "idle"
  BY DEF InstInv, RequestsTyped, NoWork
<1>3. \A v \in Workers \ {w} : work'[v] = work[v]
  BY <1>2 DEF InstallRead, InstallReserve, UpdateRead, ReceiptReplay,
              AnswerRemaining, LastRemoved, CancelRead, Fail, Done, Goes
<1>4. AloneTrue(w)'
  <2>1. ASSUME NEW s \in SubIds, NEW p \in Packages, NEW i \in InstIds,
               InstallRead(w, s, p, i)
        PROVE  AloneTrue(w)'
    <3>1. /\ work'[w] = [step |-> "chosen", sub |-> s, inst |-> i, package |-> p]
          /\ \A j \in LiveOn(s) : installs[j].package # p
      BY <1>2, <2>1 DEF InstallRead, Installable
    <3> QED
      BY <1>1, <3>1 DEF AloneTrue, LiveOn, LiveInstall
  <2>2. CASE InstallReserve(w)
    <3>1. /\ work[w].step = "chosen" /\ work'[w].step = "reserved"
          /\ work'[w].sub = work[w].sub /\ work'[w].package = work[w].package
      BY <1>2, <2>2 DEF InstallReserve, Goes, Work
    <3> QED
      BY <1>1, <3>1 DEF AloneInv, AloneTrue, LiveOn, LiveInstall
  <2>3. ASSUME NEW i \in InstIds, UpdateRead(w, i) PROVE AloneTrue(w)'
    <3>1. /\ work'[w] = [NoWork EXCEPT !.step = "updating", !.inst = i]
          /\ installs[i].state = "active"
      BY <1>2, <2>3 DEF UpdateRead
    <3>2. work'[w].step = "updating" /\ work'[w].inst = i
      BY <3>1 DEF NoWork
    <3> QED
      BY <1>1, <3>1, <3>2 DEF AloneTrue
  <2>4. ASSUME NEW i \in InstIds, ReceiptReplay(w, i) PROVE AloneTrue(w)'
    <3>1. /\ work'[w] = [NoWork EXCEPT !.step = "received", !.inst = i]
          /\ installs[i].state = "removed"
      BY <1>2, <2>4 DEF ReceiptReplay, AloneInv
    <3>2. work'[w].step = "received" /\ work'[w].inst = i
      BY <3>1 DEF NoWork
    <3> QED
      BY <1>1, <3>1, <3>2 DEF AloneTrue
  <2>5. CASE LastRemoved(w)
    <3>1. PICK i \in InstIds : i = work[w].inst /\ installs[i].state = "removed"
      BY <2>5 DEF LastRemoved, InstInv, WorkTrue, AloneInv, AloneTrue
    <3>2. PICK s \in 0 .. MaxSubs : s = installs[i].sub
      BY DEF IInv, BillingTypeOK, TablesTypeOK, InstRow
    <3>3. LiveOn(s) = {}
      <4>1. LiveOn(s) \ {i} = {}
        BY <2>5, <3>1, <3>2 DEF LastRemoved, Remaining
      <4>2. i \notin LiveOn(s)
        BY <3>1 DEF LiveOn, LiveInstall
      <4> QED
        BY <4>1, <4>2
    <3>4. work'[w].step = "cancelling" /\ work'[w].sub = s
      BY <1>2, <2>5, <3>1, <3>2 DEF LastRemoved, Work
    <3> QED
      BY <1>1, <3>3, <3>4 DEF AloneTrue, LiveOn, LiveInstall
  <2>6. ASSUME NEW s \in SubIds, CancelRead(w, s) PROVE AloneTrue(w)'
    <3>1. /\ work'[w] = [NoWork EXCEPT !.step = "cancelling", !.sub = s]
          /\ LiveOn(s) = {}
      BY <1>2, <2>6 DEF CancelRead, Cancellable
    <3>2. work'[w].step = "cancelling" /\ work'[w].sub = s
      BY <3>1 DEF NoWork
    <3> QED
      BY <1>1, <3>1, <3>2 DEF AloneTrue, LiveOn, LiveInstall
  <2>7. CASE AnswerRemaining(w) \/ Fail(w)
    BY <1>2, <2>7 DEF AnswerRemaining, Fail, Done, AloneTrue
  <2> QED
    BY <2>1, <2>2, <2>3, <2>4, <2>5, <2>6, <2>7
<1>5. Steady
  BY <1>1 DEF Steady
<1>6. AloneInv'
  BY <1>1, <1>3, <1>4, <1>5, SteadyKeeps
<1> QED
  BY <1>1, <1>6 DEF AloneKept

\* The steps of the worker that write installations, or the provider.
LEMMA AloneWrites ==
    ASSUME OneWorker, IInv, InstInv, AloneInv, NEW w \in Workers,
           \/ InstallInsert(w)
           \/ UpdateApply(w)
           \/ \E i \in InstIds : ReceiptAccept(w, i)
           \/ ProviderCancels(w)
           \/ ScheduleRow(w) \/ ScheduleMirror(w) \/ MarkPending(w)
    PROVE  AloneKept
<1>1. /\ work \in [Workers -> Work] /\ work[w] \in Work /\ NoWork.step = "idle"
      /\ installs \in [InstIds -> InstRow] /\ \A v \in Workers : v = w
      /\ receipts \subseteq InstIds
  BY DEF InstInv, RequestsTyped, NoWork, IInv, BillingTypeOK, TablesTypeOK, OneWorker
<1>2. Done(w) => AloneTrue(w)'
  BY <1>1 DEF Done, AloneTrue
<1>3. CASE UpdateApply(w)
  <2>1. PICK i \in InstIds : i = work[w].inst
    BY <1>3 DEF UpdateApply, InstInv, WorkTrue
  <2>2. installs[i].state \notin {"none", "removed"}
    BY <1>3, <2>1 DEF UpdateApply, InstInv, WorkTrue, AloneInv, AloneTrue
  <2>3. /\ installs' = [installs EXCEPT ![i].state = "active"]
        /\ receipts' = receipts /\ sold' = sold /\ Done(w)
    BY <1>3, <2>1 DEF UpdateApply, requestVars, billingVars, providerVars
  <2>4. Steady
    BY <1>1, <2>2, <2>3 DEF Steady, InstRow
  <2>5. AloneInv'
    BY <1>1, <1>2, <2>3, <2>4, SteadyKeeps
  <2> QED
    BY <2>3, <2>4, <2>5 DEF AloneKept, Steady
<1>4. CASE ScheduleRow(w) \/ ScheduleMirror(w) \/ MarkPending(w)
  <2>1. PICK k \in InstIds \union {NoInst} : k = work[w].inst
    BY <1>1 DEF Work
  <2>2. receipts' = receipts /\ sold' = sold
    BY <1>4
    DEF ScheduleRow, ScheduleMirror, MarkPending, providerVars, billingVars
  <2>3. AloneTrue(w)'
    BY <1>1, <1>2, <1>4
    DEF ScheduleRow, ScheduleMirror, MarkPending, Goes, AloneTrue, Work
  <2>4. Steady
    <3> SUFFICES ASSUME NEW i \in InstIds
                 PROVE  /\ installs'[i].sub = installs[i].sub
                        /\ installs'[i].package = installs[i].package
                        /\ installs'[i].state = installs[i].state
      BY DEF Steady
    <3>1. \/ installs'[i] = installs[i]
          \/ installs'[i] =
                [installs[i] EXCEPT !.subState = "cancel_at_period_end", !.cancelAt = TRUE]
      <4>1. CASE ScheduleRow(w)
        BY <4>1 DEF ScheduleRow
      <4>2. CASE ScheduleMirror(w)
        BY <2>1, <4>2 DEF ScheduleMirror, ScheduledOn
      <4>3. CASE MarkPending(w)
        BY <1>1, <2>1, <4>3 DEF MarkPending, InstRow
      <4> QED
        BY <1>4, <4>1, <4>2, <4>3
    <3> QED
      BY <1>1, <3>1 DEF InstRow
  <2>5. AloneInv'
    BY <1>1, <2>2, <2>3, <2>4, SteadyKeeps
  <2> QED
    BY <2>2, <2>4, <2>5 DEF AloneKept, Steady
<1>5. CASE ProviderCancels(w)
  <2>1. PICK s \in SubIds : s = work[w].sub
    BY <1>5 DEF ProviderCancels, InstInv, WorkTrue
  <2>2. LiveOn(s) = {}
    BY <1>5, <2>1 DEF ProviderCancels, AloneInv, AloneTrue
  <2>3. /\ installs' = installs /\ receipts' = receipts
        /\ sold' \in {sold, [sold EXCEPT ![s].cancel = TRUE]}
        /\ Goes(w, "scheduling")
    BY <1>5, <2>1 DEF ProviderCancels, tableVars, requestVars
  <2>4. AloneTrue(w)'
    BY <1>1, <2>3 DEF Goes, AloneTrue, Work
  <2>5. Steady
    BY <2>3 DEF Steady
  <2>6. AloneInv'
    BY <1>1, <2>3, <2>4, <2>5, SteadyKeeps
  <2>7. ASSUME NEW u \in SubIds, ~sold[u].cancel, sold'[u].cancel PROVE LiveOn(u) = {}
    <3>1. u = s
      BY <2>3, <2>7 DEF IInv, BillingTypeOK
    <3> QED
      BY <2>2, <3>1
  <2> QED
    BY <2>3, <2>6, <2>7 DEF AloneKept
<1>6. CASE InstallInsert(w)
  <2>1. PICK i \in InstIds, s \in SubIds, p \in Packages :
          i = work[w].inst /\ s = work[w].sub /\ p = work[w].package
    BY <1>6 DEF InstallInsert, InstInv, WorkTrue
  <2>2. PICK row : row = [NoInstRow EXCEPT !.state = "entitled", !.sub = s,
                                           !.package = p, !.subState = "active"]
    OBVIOUS
  <2>3. row.state = "entitled" /\ row.sub = s /\ row.package = p
    BY <2>2 DEF NoInstRow
  <2>4. /\ installs[i].state = "none" /\ installs' = [installs EXCEPT ![i] = row]
        /\ receipts' = receipts /\ sold' = sold /\ Done(w)
        /\ \A j \in LiveOn(s) : installs[j].package # p
    BY <1>6, <2>1, <2>2
    DEF InstallInsert, requestVars, billingVars, providerVars, AloneInv, AloneTrue
  <2>5. installs'[i] = row /\ \A j \in InstIds \ {i} : installs'[j] = installs[j]
    BY <1>1, <2>4
  <2>6. \A j \in receipts' : installs'[j].state = "removed"
    BY <1>1, <2>4, <2>5 DEF AloneInv
  <2>7. PackageOnceACopy'
    <3> SUFFICES ASSUME NEW u \in SubIds, NEW j \in LiveOn(u)', NEW k \in LiveOn(u)',
                        j # k
                 PROVE  installs'[j].package # installs'[k].package
      BY DEF PackageOnceACopy
    <3>1. j \in InstIds /\ k \in InstIds
      BY DEF LiveOn
    <3>2. \A x \in {j, k} : IF x = i THEN u = s ELSE x \in LiveOn(u)
      BY <2>3, <2>5, <3>1 DEF LiveOn, LiveInstall
    <3>3. CASE j # i /\ k # i
      BY <2>5, <3>1, <3>2, <3>3 DEF AloneInv, PackageOnceACopy
    <3>4. CASE j = i \/ k = i
      BY <2>3, <2>4, <2>5, <3>1, <3>2, <3>4
    <3> QED
      BY <3>3, <3>4
  <2>8. AloneInv'
    BY <1>1, <1>2, <2>4, <2>6, <2>7 DEF AloneInv
  <2> QED
    BY <2>4, <2>5, <2>8 DEF AloneKept
<1>7. ASSUME NEW i \in InstIds, ReceiptAccept(w, i) PROVE AloneKept
  <2>1. PICK row : row = [installs[i] EXCEPT !.state = "removed"]
    OBVIOUS
  <2>2. /\ installs[i].state = "uninstall_pending" /\ row.state = "removed"
        /\ installs' = [installs EXCEPT ![i] = row]
        /\ receipts' = receipts \union {i} /\ sold' = sold
        /\ work' = [work EXCEPT ![w] = [NoWork EXCEPT !.step = "received", !.inst = i]]
    BY <1>1, <1>7, <2>1
    DEF ReceiptAccept, ReceiptScope, billingVars, providerVars, InstRow
  <2>3. installs'[i] = row /\ \A j \in InstIds \ {i} : installs'[j] = installs[j]
    BY <1>1, <2>2
  <2>4. \A j \in receipts' : installs'[j].state = "removed"
    BY <1>1, <2>2, <2>3 DEF AloneInv
  <2>5. AloneTrue(w)'
    <3>1. work'[w].step = "received" /\ work'[w].inst = i
      BY <1>1, <2>2 DEF NoWork
    <3> QED
      BY <2>2, <2>3, <3>1 DEF AloneTrue
  <2>6. PackageOnceACopy'
    <3> SUFFICES ASSUME NEW u \in SubIds, NEW j \in LiveOn(u)', NEW k \in LiveOn(u)',
                        j # k
                 PROVE  installs'[j].package # installs'[k].package
      BY DEF PackageOnceACopy
    <3>1. /\ j \in InstIds \ {i} /\ k \in InstIds \ {i}
      BY <2>2, <2>3 DEF LiveOn, LiveInstall
    <3>2. j \in LiveOn(u) /\ k \in LiveOn(u)
      BY <2>3, <3>1 DEF LiveOn, LiveInstall
    <3> QED
      BY <2>3, <3>1, <3>2 DEF AloneInv, PackageOnceACopy
  <2>7. AloneInv'
    BY <1>1, <2>4, <2>5, <2>6 DEF AloneInv
  <2> QED
    BY <2>2, <2>3, <2>7 DEF AloneKept
<1> QED
  BY <1>3, <1>4, <1>5, <1>6, <1>7

LEMMA AloneStep ==
    ASSUME OneWorker, IInv, InstInv, AloneInv, Next
    PROVE  AloneKept
<1>1. ASSUME NEW w \in Workers,
             InstallStep(w) \/ UpdateStep(w) \/ UninstallStep(w) \/ Fail(w)
      PROVE  AloneKept
  BY <1>1, AloneReads, AloneWrites DEF InstallStep, UpdateStep, UninstallStep
<1> QED
  BY <1>1, AloneElsewhere DEF Next

\* What one worker knows stays true.
THEOREM AloneInvariance ==
    ASSUME OneWorker
    PROVE  Spec => [](IInv /\ InstInv /\ AloneInv)
<1>1. OneWorker
  OBVIOUS
<1>2. Init => IInv /\ InstInv /\ AloneInv
  <2> SUFFICES ASSUME Init PROVE AloneInv
    BY InstallsInit
  <2>1. /\ \A i \in InstIds : installs[i].state = "none"
        /\ work = [w \in Workers |-> NoWork] /\ receipts = {}
    BY DEF Init, BillingInit, TablesInit, NoInstRow
  <2> QED
    BY <2>1 DEF AloneInv, AloneTrue, NoWork, PackageOnceACopy, LiveOn, LiveInstall
<1>3. IInv /\ InstInv /\ NoticeInv /\ AloneInv /\ [Next]_vars => AloneInv'
  <2> SUFFICES ASSUME IInv, InstInv, NoticeInv, AloneInv, [Next]_vars
               PROVE  AloneInv'
    OBVIOUS
  <2>1. CASE Next
    BY <1>1, <2>1, AloneStep DEF AloneKept
  <2>2. CASE UNCHANGED vars
    <3>1. UNCHANGED <<installs, work, receipts>>
      BY <2>2 DEF vars, requestVars
    <3> QED
      BY <3>1 DEF AloneInv, AloneTrue, PackageOnceACopy, LiveOn, LiveInstall
  <2> QED
    BY <2>1, <2>2
<1> QED
  BY <1>2, <1>3, InstallsInvariance, PTL DEF Spec

\* One request at a time, a copy never carries a package twice
\* (createStoreInstallation's package_already_installed).
THEOREM OncePerCopy == ASSUME OneWorker PROVE Spec => []PackageOnceACopy
<1>1. AloneInv => PackageOnceACopy
  BY DEF AloneInv
<1> QED
  BY <1>1, AloneInvariance, PTL

\* One request at a time, the store asks the provider to cancel a copy only
\* when nothing is installed from it (uninstallReceipts, storeSubscriptionCancel).
THEOREM OnlyEmptyCopies == ASSUME OneWorker PROVE Spec => CancelsEmptyCopies
<1>1. OneWorker
  OBVIOUS
<1>2. IInv /\ InstInv /\ AloneInv /\ [Next]_vars =>
        [\A s \in SubIds :
            work' # work /\ ~sold[s].cancel /\ sold'[s].cancel => LiveOn(s) = {}]_vars
  BY <1>1, AloneStep DEF AloneKept
<1> QED
  BY <1>2, AloneInvariance, PTL DEF Spec, CancelsEmptyCopies

\* One request at a time, an accepted receipt is final: what it removed never
\* comes back (acceptUninstallReceipt against the other requests of the box).
THEOREM ReceiptsAreFinal == ASSUME OneWorker PROVE Spec => RemovedIsFinal
<1>1. OneWorker
  OBVIOUS
<1>2. IInv /\ InstInv /\ AloneInv /\ [Next]_vars =>
        [\A i \in InstIds : installs[i].state = "removed" =>
            installs'[i].state = "removed"]_installs
  BY <1>1, AloneStep DEF AloneKept, vars
<1> QED
  BY <1>2, AloneInvariance, PTL DEF Spec, RemovedIsFinal
===============================================================================
