----------------------------- MODULE BundleBilling -----------------------------
(***************************************************************************)
(* Money in the private store: checkouts of paid copies, the provider that *)
(* sells them, the webhooks it sends and the reconciliation of checkouts   *)
(* whose webhook is late or lost.                                          *)
(*                                                                         *)
(* A webhook is one database transaction.  It is one action where its      *)
(* first statement holds the row it is about until the commit, and two     *)
(* where the transaction reads the row first: READ COMMITTED lets others   *)
(* commit in between.  A checkout handler and a reconciliation are         *)
(* sequences of statements and calls to the provider: one action per step  *)
(* after which somebody else may act.                                      *)
(* A checkout is abandoned when it is old; how old is left to chance.      *)
(* Polar sells some rows and Stripe the others: they speak of a            *)
(* subscription in different messages, and each has a webhook route.       *)
(***************************************************************************)
EXTENDS StoreTables, Sequences

CONSTANTS
    Requests,     \* checkout handlers that may run at the same time
    Reconcilers,  \* the cron job and the catalog route
    MaxEvents,    \* bound: events the provider sends
    InOrder,      \* Polar's deliveries of a subscription keep their order
    StripeSold    \* the rows sold by Stripe

ASSUME BillingAssumption ==
    MaxEvents \in Nat /\ InOrder \in BOOLEAN /\ StripeSold \subseteq SubIds

VARIABLES
    checkoutPc,   \* what each checkout handler has read and done
    seen,         \* what each reconciler has read of the provider
    \* the provider
    checkouts,    \* its checkout of each row
    sold,         \* its subscription of each row
    sent,         \* the webhook messages it sent; the index is the webhook-id
    \* the webhook route
    processed,    \* company_os_webhook_events
    refreshing,   \* the state each open refresh transaction has read
    refused,      \* observation: messages answered with an error
    outdated      \* observation: rows dated when they were no longer cancelled

providerVars == <<checkouts, sold, sent>>
webhookVars == <<processed, refreshing, refused, outdated>>
billingVars == <<subs, checkoutPc, seen, providerVars, webhookVars>>

-------------------------------------------------------------------------------
Idle == [step |-> "idle", copy |-> 0, reserved |-> NoInst, sub |-> 0]

CheckoutPc == [step : {"idle", "selected", "inserted"}, copy : 0 .. MaxCopies,
               reserved : InstIds \union {NoInst}, sub : 0 .. MaxSubs]

Nothing == [sub |-> 0, outcome |-> "nothing"]

\* What a reconciler makes of readCheckout.
View == [sub : 0 .. MaxSubs,
         outcome : {"nothing", "active", "cancelling", "abandoned"}]

NotSold == [state |-> "none", cancel |-> FALSE, kept |-> FALSE]

\* cancel: it ends with the period.  kept: observation, the owner took a
\* cancellation back.
Sold == [state : {"none", "active", "past_due", "ended"}, cancel : BOOLEAN,
         kept : BOOLEAN]

Event == [kind : {"subscription_active", "subscription_past_due",
                  "subscription_cancel_scheduled", "subscription_uncancelled",
                  "subscription_ended", "subscription_refresh"},
          sub : SubIds,
          echo : BOOLEAN,   \* it names the checkout
          state : {"active", "past_due", "cancel_at_period_end"}]  \* of a refresh

EventIds == 1 .. MaxEvents

BillingInit ==
    /\ TablesInit
    /\ checkoutPc = [r \in Requests |-> Idle]
    /\ seen = [c \in Reconcilers |-> Nothing]
    /\ checkouts = [s \in SubIds |-> "none"]
    /\ sold = [s \in SubIds |-> NotSold]
    /\ sent = <<>>
    /\ processed = {}
    /\ refreshing = [e \in EventIds |-> "none"]
    /\ refused = {}
    /\ outdated = {}

-------------------------------------------------------------------------------
\* POST store/checkout-sessions

NextSub == Cardinality({s \in SubIds : subs[s].state # "none"}) + 1

Newest(rows) == CHOOSE s \in rows : \A u \in rows : u <= s

MaxCopy ==
    LET used == {subs[s].copy : s \in SubIds}
    IN  CHOOSE n \in used \union {0} : \A m \in used : m <= n

\* The copy an installation id selects: the one it is bound to, or the next.
CopyFor(i) ==
    LET bound == {s \in SubIds : /\ subs[s].state # "none"
                                 /\ subs[s].reserved = i \/ Rides(i, s)}
    IN  IF bound # {} THEN subs[Newest(bound)].copy ELSE MaxCopy + 1

\* liveSubscriptionForCopy finds nothing.
CopyFree(n) ==
    \A s \in SubIds : subs[s].copy = n => subs[s].state \in {"none", "cancelled"}

\* The reads of the handler.  The box names a copy, or an installation.
CheckoutSelect(r, n, i) ==
    /\ checkoutPc[r].step = "idle"
    /\ n = IF i = NoInst THEN n ELSE CopyFor(i)
    /\ n \in Copies                    \* bound
    /\ CopyFree(n)
    /\ checkoutPc' = [checkoutPc EXCEPT ![r] =
                         [Idle EXCEPT !.step = "selected", !.copy = n,
                                      !.reserved = i]]
    /\ UNCHANGED <<tableVars, seen, providerVars, webhookVars>>

Inserted(r) ==
    [subs EXCEPT ![NextSub] =
        [NoSub EXCEPT !.state = "checkout_pending", !.copy = checkoutPc[r].copy,
                      !.reserved = checkoutPc[r].reserved]]

CheckoutInsert(r) ==
    /\ checkoutPc[r].step = "selected"
    /\ NextSub \in SubIds              \* bound
    /\ IndexesAccept(Inserted(r))
    /\ subs' = Inserted(r)
    /\ checkoutPc' = [checkoutPc EXCEPT ![r].step = "inserted", ![r].sub = NextSub]
    /\ UNCHANGED <<installs, seen, providerVars, webhookVars>>

\* The provider creates its checkout and the handler records it; nobody
\* else learns of the checkout in between.
CheckoutRecord(r) ==
    LET s == checkoutPc[r].sub IN
    /\ checkoutPc[r].step = "inserted"
    /\ checkouts' = [checkouts EXCEPT ![s] = "open"]
    /\ subs' = [subs EXCEPT ![s].checkout = TRUE]
    /\ checkoutPc' = [checkoutPc EXCEPT ![r] = Idle]
    /\ UNCHANGED <<installs, seen, sold, sent, webhookVars>>

\* The provider answers with an error: abandonBundleCheckout.
CheckoutAbort(r) ==
    LET s == checkoutPc[r].sub IN
    /\ checkoutPc[r].step = "inserted"
    /\ subs' = IF subs[s].state = "checkout_pending" /\ ~subs[s].linked
               THEN [subs EXCEPT ![s].state = "cancelled", ![s].stopped = TRUE]
               ELSE subs
    /\ checkoutPc' = [checkoutPc EXCEPT ![r] = Idle]
    /\ UNCHANGED <<installs, seen, providerVars, webhookVars>>

\* The handler ends where it is: an index refused its row, or it crashed.
CheckoutStop(r) ==
    /\ checkoutPc[r].step # "idle"
    /\ checkoutPc' = [checkoutPc EXCEPT ![r] = Idle]
    /\ UNCHANGED <<tableVars, seen, providerVars, webhookVars>>

-------------------------------------------------------------------------------
\* The provider

ViewOf(s) ==
    CASE sold[s].state = "past_due" -> "past_due"
      [] sold[s].cancel -> "cancel_at_period_end"
      [] OTHER -> "active"

\* What customer.subscription.updated says: the status, not what changed.
StripeKind(s) ==
    IF sold[s].state = "past_due" THEN "subscription_past_due"
    ELSE "subscription_active"

KindOf(s, kind) == IF s \in StripeSold THEN StripeKind(s) ELSE kind

Message(kind, s, echo) ==
    [kind |-> kind, sub |-> s, echo |-> echo, state |-> ViewOf(s)]

\* The subscription changes and a message tells of it.
Changes(s, new, kind, echo) ==
    /\ Len(sent) < MaxEvents           \* bound
    /\ sold' = [sold EXCEPT ![s] = new]
    /\ sent' = Append(sent, Message(kind, s, echo))
    /\ UNCHANGED <<tableVars, checkoutPc, seen, webhookVars>>

OwnerPays(s) ==
    /\ checkouts[s] = "open"
    /\ checkouts' = [checkouts EXCEPT ![s] = "paid"]
    /\ Changes(s, [NotSold EXCEPT !.state = "active"], "subscription_active", TRUE)

CheckoutExpires(s) ==
    /\ checkouts[s] = "open"
    /\ checkouts' = [checkouts EXCEPT ![s] = "expired"]
    /\ UNCHANGED <<tableVars, checkoutPc, seen, sold, sent, webhookVars>>

PaymentFails(s) ==
    /\ sold[s].state = "active"
    /\ UNCHANGED checkouts
    /\ Changes(s, [sold[s] EXCEPT !.state = "past_due"], "subscription_past_due",
               FALSE)

\* A payment goes through: a renewal, or a recovery.  The message may or may
\* not name the checkout (Polar's subscription.active does; of Stripe's only
\* checkout.session.completed does).
PaymentSucceeds(s, echo) ==
    /\ sold[s].state \in {"active", "past_due"}
    /\ echo => s \notin StripeSold
    /\ UNCHANGED checkouts
    /\ Changes(s, [sold[s] EXCEPT !.state = "active"], "subscription_active", echo)

OwnerCancels(s) ==
    /\ sold[s].state \in {"active", "past_due"} /\ ~sold[s].cancel
    /\ UNCHANGED checkouts
    /\ Changes(s, [sold[s] EXCEPT !.cancel = TRUE],
               KindOf(s, "subscription_cancel_scheduled"), FALSE)

OwnerUncancels(s) ==
    /\ sold[s].state \in {"active", "past_due"} /\ sold[s].cancel
    /\ UNCHANGED checkouts
    /\ Changes(s, [sold[s] EXCEPT !.cancel = FALSE, !.kept = TRUE],
               KindOf(s, "subscription_uncancelled"), FALSE)

\* The period of a cancelled subscription is over, or the provider gives up
\* on an unpaid one, or the merchant revokes it.
SubscriptionEnds(s) ==
    /\ sold[s].state \in {"active", "past_due"}
    /\ UNCHANGED checkouts
    /\ Changes(s, [sold[s] EXCEPT !.state = "ended"], "subscription_ended", FALSE)

\* subscription.updated, Polar's created and cycled: a snapshot, at any time.
ProviderRefreshes(s) ==
    /\ sold[s].state \in {"active", "past_due"}
    /\ UNCHANGED checkouts
    /\ Changes(s, sold[s], KindOf(s, "subscription_refresh"), FALSE)

-------------------------------------------------------------------------------
\* The webhook route: one transaction over the dedup row and the event

Events == 1 .. Len(sent)

AlreadyRecorded(e) == e \in processed

\* Any message may arrive at any time, any number of times, or never.
Delivered(e) ==
    /\ ~AlreadyRecorded(e)
    /\ InOrder /\ sent[e].sub \notin StripeSold =>
          \A d \in 1 .. e - 1 : sent[d].sub = sent[e].sub => d \in processed

Recorded(e) ==
    /\ processed' = processed \union {e}
    /\ refreshing' = [refreshing EXCEPT ![e] = "none"]
    /\ UNCHANGED <<checkoutPc, seen, providerVars, refused>>

\* applyBillingEvent finds a row to activate.
Activates(e) ==
    /\ sent[e].kind = "subscription_active" /\ sent[e].echo
    /\ Activatable(subs[sent[e].sub])

Activation(e) == [subs EXCEPT ![sent[e].sub] = Activated(@)]

\* The transition markBundleSubscriptionState is called with, if any.
TransitionOf(e) ==
    CASE sent[e].kind = "subscription_active" -> "active"
      [] sent[e].kind = "subscription_past_due" -> "past_due"
      [] sent[e].kind = "subscription_cancel_scheduled" -> "cancel_at_period_end"
      [] sent[e].kind = "subscription_uncancelled" -> "uncancelled"
      [] sent[e].kind = "subscription_ended" -> "cancelled"

Marks(e) ==
    /\ ~Activates(e)
    /\ sent[e].kind # "subscription_refresh"
    /\ Markable(subs[sent[e].sub], TransitionOf(e))

\* refreshBundleSubscription finds a row.
Refreshes(e) == sent[e].kind = "subscription_refresh" /\ subs[sent[e].sub].linked

WebhookActivates(e) ==
    /\ Delivered(e) /\ Activates(e)
    /\ IndexesAccept(Activation(e))
    /\ subs' = Activation(e)
    /\ UNCHANGED <<installs, outdated>>
    /\ Recorded(e)

Applies(e) == Activates(e) \/ Marks(e) \/ Refreshes(e)

\* Mutated form of MustApply: an end that applies to nothing is recorded.
MustApplyPayments(e) == sent[e].sub \in StripeSold /\ sent[e].echo

\* Stripe's route insists that a payment and an end apply to something.
MustApply(e) ==
    /\ sent[e].sub \in StripeSold
    /\ sent[e].echo \/ sent[e].kind = "subscription_ended"

\* The live_copy index refuses the row, or Stripe's route finds none:
\* rollback, and an error for answer.
WebhookRefused(e) ==
    /\ Delivered(e)
    /\ \/ Activates(e) /\ ~IndexesAccept(Activation(e))
       \/ ~Applies(e) /\ MustApply(e)
    /\ refused' = refused \union {e}
    /\ UNCHANGED <<tableVars, checkoutPc, seen, providerVars, processed,
                   refreshing, outdated>>

\* Transition tr on subscription s, guarded as it commits.
MarksRow(s, tr) ==
    /\ subs' = [subs EXCEPT ![s] = Marked(@, tr)]
    /\ installs' = MarkedOn(s, tr)

WebhookMarks(e) ==
    /\ Delivered(e) /\ Marks(e)
    /\ MarksRow(sent[e].sub, TransitionOf(e))
    /\ UNCHANGED outdated
    /\ Recorded(e)

\* The SELECT of refreshBundleSubscription.  The dedup row keeps the same
\* message from another transaction until this one is over.
RefreshRead(e) ==
    /\ Delivered(e) /\ Refreshes(e)
    /\ refreshing[e] = "none"
    /\ refreshing' = [refreshing EXCEPT ![e] = subs[sent[e].sub].state]
    /\ UNCHANGED <<tableVars, checkoutPc, seen, providerVars, processed, refused,
                   outdated>>

Stopping == {"cancel_at_period_end", "cancelled"}

\* It found a scheduled cancellation and writes the date, by the row's id.
RefreshDates(e) ==
    LET s == sent[e].sub IN
    /\ refreshing[e] = "cancel_at_period_end"
    /\ subs' = [subs EXCEPT ![s].cancelAt = TRUE]
    /\ installs' = [i \in InstIds |->
                       [installs[i] EXCEPT !.cancelAt = @ \/ Rides(i, s)]]
    /\ outdated' = IF subs[s].state \in Stopping THEN outdated
                   ELSE outdated \union {s}
    /\ Recorded(e)

\* What it makes of the row it found, if anything.
RefreshTransition(e) ==
    CASE refreshing[e] = "active" /\ sent[e].state = "past_due" -> "past_due"
      [] refreshing[e] = "past_due" /\ sent[e].state = "active" -> "active"
      [] OTHER -> "none"

RefreshMarks(e) ==
    LET s == sent[e].sub
        tr == RefreshTransition(e)
    IN  /\ tr # "none"
        /\ Markable(subs[s], tr)
        /\ MarksRow(s, tr)
        /\ UNCHANGED outdated
        /\ Recorded(e)

\* Nothing to do, or not any more.
RefreshEnds(e) ==
    LET tr == RefreshTransition(e) IN
    /\ refreshing[e] \notin {"none", "cancel_at_period_end"}
    /\ tr # "none" => ~Markable(subs[sent[e].sub], tr)
    /\ UNCHANGED <<tableVars, outdated>>
    /\ Recorded(e)

\* A statement fails, or the function is stopped: rollback.
RefreshStops(e) ==
    /\ refreshing[e] # "none"
    /\ refreshing' = [refreshing EXCEPT ![e] = "none"]
    /\ UNCHANGED <<tableVars, checkoutPc, seen, providerVars, processed, refused,
                   outdated>>

\* unknown_subscription, or nothing to do: recorded all the same.
WebhookIgnored(e) ==
    /\ Delivered(e) /\ ~Applies(e) /\ ~MustApply(e)
    /\ UNCHANGED <<tableVars, outdated>>
    /\ Recorded(e)

-------------------------------------------------------------------------------
\* reconcilePendingCheckouts

\* Mutated form of Reconcilable: the row is not required to be pending still.
ReconcilableAnyState(row) == row.checkout

\* The WHERE clause of pendingBundleCheckouts and of both updates.
Reconcilable(row) == row.state = "checkout_pending" /\ row.checkout

\* Mutated form of OutcomeOf: a checkout that is not over counts as paid.
OutcomeOfUnlessOver(s) ==
    IF checkouts[s] = "expired" THEN "abandoned"
    ELSE IF sold[s].cancel THEN "cancelling" ELSE "active"

\* Mutated form of OutcomeOf: an old unpaid checkout is left open.
OutcomeOfWaiting(s) ==
    IF checkouts[s] = "expired" THEN "abandoned"
    ELSE IF checkouts[s] = "open" \/ sold[s].state # "active" THEN "nothing"
    ELSE IF sold[s].cancel THEN "cancelling" ELSE "active"

\* What Polar's readCheckout makes of the checkout and its subscription.  A
\* payment in progress reads as nothing, and so does a paid checkout whose
\* subscription is not active.
PolarOutcome(s) ==
    IF checkouts[s] # "paid" THEN "abandoned"
    ELSE IF sold[s].state # "active" THEN "nothing"
    ELSE IF sold[s].cancel THEN "cancelling" ELSE "active"

\* Stripe's asks for the session alone, which has no age and does not tell
\* what became of the subscription it sold.
StripeOutcome(s) ==
    CASE checkouts[s] = "paid" -> "active"
      [] checkouts[s] = "expired" -> "abandoned"
      [] OTHER -> "nothing"

OutcomeOf(s) == IF s \in StripeSold THEN StripeOutcome(s) ELSE PolarOutcome(s)

ReconcileRead(c, s) ==
    /\ seen[c] = Nothing
    /\ Reconcilable(subs[s])
    /\ OutcomeOf(s) # "nothing"
    /\ seen' = [seen EXCEPT ![c] = [sub |-> s, outcome |-> OutcomeOf(s)]]
    /\ UNCHANGED <<tableVars, checkoutPc, providerVars, webhookVars>>

Reconciled(row, outcome) ==
    IF outcome = "abandoned"
    THEN [row EXCEPT !.state = "cancelled", !.abandoned = TRUE, !.stopped = TRUE]
    ELSE [row EXCEPT !.state = IF outcome = "cancelling"
                               THEN "cancel_at_period_end" ELSE "active",
                     !.linked = TRUE, !.cancelAt = (outcome = "cancelling"),
                     !.entitled = TRUE, !.abandoned = FALSE, !.stopped = FALSE]

\* reconcileBundleCheckout; a row that is no longer pending is left alone.
ReconcileApply(c) ==
    LET s == seen[c].sub IN
    /\ seen[c] # Nothing
    /\ subs' = IF Reconcilable(subs[s])
               THEN [subs EXCEPT ![s] = Reconciled(@, seen[c].outcome)]
               ELSE subs
    /\ seen' = [seen EXCEPT ![c] = Nothing]
    /\ UNCHANGED <<installs, checkoutPc, providerVars, webhookVars>>

\* The transaction fails, or the function is stopped.
ReconcileStop(c) ==
    /\ seen[c] # Nothing
    /\ seen' = [seen EXCEPT ![c] = Nothing]
    /\ UNCHANGED <<tableVars, checkoutPc, providerVars, webhookVars>>

-------------------------------------------------------------------------------
CheckoutNext ==
    \E r \in Requests :
        \/ \E n \in Copies, i \in InstIds \union {NoInst} : CheckoutSelect(r, n, i)
        \/ CheckoutInsert(r)
        \/ CheckoutRecord(r)
        \/ CheckoutAbort(r)
        \/ CheckoutStop(r)

ProviderNext ==
    \E s \in SubIds :
        \/ OwnerPays(s)
        \/ CheckoutExpires(s)
        \/ PaymentFails(s)
        \/ \E echo \in BOOLEAN : PaymentSucceeds(s, echo)
        \/ OwnerCancels(s)
        \/ OwnerUncancels(s)
        \/ SubscriptionEnds(s)
        \/ ProviderRefreshes(s)

WebhookNext ==
    \E e \in Events :
        \/ WebhookActivates(e)
        \/ WebhookRefused(e)
        \/ WebhookMarks(e)
        \/ WebhookIgnored(e)
        \/ RefreshRead(e)
        \/ RefreshDates(e)
        \/ RefreshMarks(e)
        \/ RefreshEnds(e)
        \/ RefreshStops(e)

ReconcileNext ==
    \E c \in Reconcilers :
        \/ \E s \in SubIds : ReconcileRead(c, s)
        \/ ReconcileApply(c)
        \/ ReconcileStop(c)

BillingNext == CheckoutNext \/ ProviderNext \/ WebhookNext \/ ReconcileNext

BillingSpec == BillingInit /\ [][BillingNext]_<<installs, billingVars>>

\* The cron job runs every 15 minutes and its batch is ordered by updated_at,
\* which markBundleCheckoutChecked bumps: no pending row is passed over for
\* ever, and not every run fails at the same place.  Nothing is assumed of
\* the provider's webhooks.
BillingFairSpec ==
    /\ BillingSpec
    /\ \A c \in Reconcilers :
          /\ \A s \in SubIds : SF_<<installs, billingVars>>(ReconcileRead(c, s))
          /\ SF_<<installs, billingVars>>(ReconcileApply(c))

-------------------------------------------------------------------------------
(***************************************************************************)
(* Properties                                                              *)
(***************************************************************************)

\* Variables stay in their types: no handler, webhook or reconciliation
\* leaves a row, a handler or the provider in a state the code does not name.
BillingTypeOK ==
    /\ TablesTypeOK
    /\ checkoutPc \in [Requests -> CheckoutPc]
    /\ seen \in [Reconcilers -> View]
    /\ checkouts \in [SubIds -> {"none", "open", "paid", "expired"}]
    /\ sold \in [SubIds -> Sold]
    /\ sent \in Seq(Event) /\ Len(sent) <= MaxEvents
    /\ processed \subseteq Events
    /\ refreshing \in [EventIds -> SubStates]
    /\ refused \subseteq Events
    /\ outdated \subseteq SubIds

Entitling == {"active", "past_due", "cancel_at_period_end"}

\* A copy is entitled only by a payment: whatever the order of webhooks,
\* reconciliations and handlers, a row in an entitling state names a
\* subscription the provider sold for that very checkout.
\* (activateBundleSubscription, reconcileBundleCheckout, readCheckout)
EntitledOnlyIfPaid ==
    \A s \in SubIds : subs[s].state \in Entitling =>
        checkouts[s] = "paid" /\ subs[s].linked /\ subs[s].entitled

\* The dates the box polls agree with the state beside them: a stop date
\* exactly on a cancelled row, none on an entitling one, and an end date only
\* where a cancellation is scheduled or over, or where a refresh wrote it by
\* the row's id after others had committed what the owner took back.  That
\* takes messages that overlap.  Six statements write these columns, each on
\* its own.  (subscriptionViewOf, refreshBundleSubscription)
DatesAgree ==
    \A s \in SubIds :
        LET row == subs[s] IN
        /\ row.stopped <=> row.state = "cancelled"
        /\ row.cancelAt => row.state \in Stopping \/ s \in outdated
        /\ s \in outdated => sold[s].kept /\ ~InOrder
        /\ row.abandoned => row.state = "cancelled" /\ ~row.linked

\* What is over stays over: a cancelled row that was not merely abandoned
\* never entitles anybody again, even when an older payment message arrives
\* after the end.  (the WHERE clauses of activateBundleSubscription and
\* markBundleSubscriptionState)
NoResurrection ==
    [][\A s \in SubIds : subs[s].state = "cancelled" /\ ~subs[s].abandoned =>
            subs'[s].state = "cancelled"]_subs

Settled(s) ==
    /\ \A e \in Events : sent[e].sub = s => e \in processed
    /\ checkouts[s] = "paid"

\* Once all messages about a subscription have been processed, the store and
\* the provider agree on whether it is over and (Polar; Stripe's messages do
\* not say) on whether it is going to end, whatever the reconciler applied in
\* between from what it had read earlier.  Polar must have kept the order of
\* its messages; Stripe need not, for what cannot be applied is refused and
\* sent again.  (applyBillingEvent, reconcileBundleCheckout, both routes)
ProviderAgreement ==
    \A s \in SubIds : (InOrder \/ s \in StripeSold) /\ Settled(s) =>
        /\ subs[s].state = "cancelled" <=> sold[s].state = "ended"
        /\ s \notin StripeSold =>
              (subs[s].state = "cancel_at_period_end" <=>
                   sold[s].state # "ended" /\ sold[s].cancel)
        /\ subs[s].state # "checkout_pending"

\* Nobody waits for ever for a webhook that was lost: a checkout the store
\* recorded is either decided, or Polar holds a subscription that is unpaid
\* or over, or Stripe's session is still open.  (reconcilePendingCheckouts)
PendingResolves ==
    \A s \in SubIds :
        Reconcilable(subs[s]) ~> \/ ~Reconcilable(subs[s])
                                 \/ sold[s].state \in {"past_due", "ended"}
                                 \/ s \in StripeSold /\ checkouts[s] = "open"

\* As the code's test and runbook have it: a paid message recovers the very
\* checkout that was locally abandoned.  The live_copy index refuses the row
\* once the owner has started another checkout of the copy.
LatePaymentRecovers == \A e \in refused : ~subs[sent[e].sub].abandoned

\* As the runbook has it: a late payment message does not revive what the
\* provider has ended.  The end of a subscription the store cannot name yet
\* is recorded as processed and forgotten.
EndedNotRevived ==
    \A s \in SubIds :
        Settled(s) /\ sold[s].state = "ended" => subs[s].state # "active"
===============================================================================
