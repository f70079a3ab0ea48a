------------------------- MODULE BundleBilling_proofs -------------------------
(***************************************************************************)
(* Nobody is entitled without a payment and nothing that is over comes     *)
(* back, for every number of rows, copies, handlers, reconcilers and       *)
(* messages, whatever is late, lost or out of order.                       *)
(***************************************************************************)
EXTENDS BundleBilling, FiniteSetTheorems, SequenceTheorems, TLAPS

\* Rows are numbered in the order they are inserted, without a gap: the slot
\* an insertion writes was never written.
RowsContiguous ==
    \E n \in 0 .. MaxSubs :
        \A s \in SubIds : subs[s].state # "none" <=> s <= n

\* What the columns of a row say of one another and of the provider's objects.
RowTrue(s) ==
    LET row == subs[s] IN
    /\ row.state = "none" => row = NoSub
    /\ row.checkout <=> checkouts[s] # "none"
    /\ row.linked => checkouts[s] = "paid"
    /\ row.state \in Entitling => row.linked /\ row.entitled
    /\ row.state = "checkout_pending" => ~row.linked /\ ~row.cancelAt
    /\ row.stopped <=> row.state = "cancelled"
    /\ row.cancelAt => row.state \in Stopping \/ s \in outdated
    /\ row.abandoned => row.state = "cancelled" /\ ~row.linked /\ ~row.cancelAt

\* The provider sells a subscription, and speaks of one, only for a payment.
ProviderTrue ==
    /\ \A s \in SubIds : sold[s].state # "none" => checkouts[s] = "paid"
    /\ \A e \in Events : checkouts[sent[e].sub] = "paid"

\* Of what the owner took back only Polar tells, and only once it happened.
MessagesTrue ==
    /\ \A s \in SubIds : sold[s].kept => checkouts[s] = "paid"
    /\ \A e \in Events :
          /\ sent[e].kind \in {"subscription_refresh", "subscription_uncancelled"} =>
                sent[e].sub \notin StripeSold
          /\ sent[e].kind = "subscription_uncancelled" => sold[sent[e].sub].kept

\* An open refresh names a row that is sold.  It is the next message of its
\* subscription if Polar keeps their order, so the cancellation it read can be
\* taken back before it commits only if Polar does not.
RefreshTrue(e) ==
    LET s == sent[e].sub IN
    refreshing[e] # "none" =>
       /\ e \in Events /\ e \notin processed
       /\ sent[e].kind = "subscription_refresh"
       /\ subs[s].linked
       /\ refreshing[e] = "cancel_at_period_end" =>
             subs[s].state \in Stopping \/ (sold[s].kept /\ ~InOrder)
       /\ InOrder =>
             \A d \in Events : d < e /\ sent[d].sub = s => d \in processed

OutdatedTrue == \A s \in outdated : sold[s].kept /\ ~InOrder

OpenTrue == MessagesTrue /\ (\A e \in EventIds : RefreshTrue(e)) /\ OutdatedTrue

\* What a reconciler read may be old, but a payment it saw was made.
SeenTrue ==
    \A c \in Reconcilers : seen[c] # Nothing =>
        /\ seen[c].sub \in SubIds
        /\ seen[c].outcome # "nothing"
        /\ seen[c].outcome # "abandoned" => checkouts[seen[c].sub] = "paid"

\* A row whose checkout is being created belongs to one handler, and nobody
\* else can touch it: no message and no reconciliation can name it.
HandlerTrue(r) ==
    LET pc == checkoutPc[r] IN
    /\ pc.step = "selected" => pc.copy \in Copies
    /\ pc.step = "inserted" =>
          /\ pc.sub \in SubIds
          /\ subs[pc.sub].state = "checkout_pending"
          /\ ~subs[pc.sub].checkout
          /\ \A q \in Requests :
                q # r /\ checkoutPc[q].step = "inserted" =>
                    checkoutPc[q].sub # pc.sub

\* The inductive invariant.
IInv ==
    /\ BillingTypeOK
    /\ RowsContiguous
    /\ \A s \in SubIds : RowTrue(s)
    /\ ProviderTrue
    /\ OpenTrue
    /\ SeenTrue
    /\ \A r \in Requests : HandlerTrue(r)

-------------------------------------------------------------------------------
\* Small facts

\* The next slot was never written, and the ones before it were.
LEMMA NextSlot ==
    ASSUME IInv
    PROVE  /\ NextSub \in 1 .. MaxSubs + 1
           /\ \A s \in SubIds : subs[s].state # "none" <=> s < NextSub
<1>1. PICK n \in 0 .. MaxSubs :
        \A s \in SubIds : subs[s].state # "none" <=> s <= n
  BY DEF IInv, RowsContiguous
<1>2. MaxSubs \in Nat /\ n \in Nat
  BY StoreAssumption
<1>3. {s \in SubIds : subs[s].state # "none"} = 1 .. n
  BY <1>1, <1>2 DEF SubIds
<1>4. Cardinality(1 .. n) = n
  BY <1>2, FS_Interval
<1>5. NextSub = n + 1
  BY <1>3, <1>4 DEF NextSub
<1> QED
  BY <1>1, <1>2, <1>5 DEF SubIds

\* A message is well formed and names a row.
LEMMA MessageTyped ==
    ASSUME BillingTypeOK, NEW e \in Events
    PROVE  /\ sent[e] \in Event /\ sent[e].sub \in SubIds
           /\ subs[sent[e].sub] \in SubRow
<1>1. sent[e] \in Event
  BY DEF BillingTypeOK, Events
<1>2. sent[e].sub \in SubIds
  BY <1>1 DEF Event
<1> QED
  BY <1>1, <1>2 DEF BillingTypeOK, TablesTypeOK

\* A row that belongs to a handler is in the state its insertion left.
LEMMA HandlerRow ==
    ASSUME IInv, NEW r \in Requests, checkoutPc[r].step = "inserted"
    PROVE  LET s == checkoutPc[r].sub IN
           /\ s \in SubIds /\ subs[s] \in SubRow
           /\ subs[s].state = "checkout_pending"
           /\ ~subs[s].checkout /\ ~subs[s].linked /\ ~subs[s].abandoned
           /\ ~subs[s].cancelAt /\ ~subs[s].stopped
           /\ checkouts[s] = "none" /\ sold[s].state = "none"
<1> DEFINE s == checkoutPc[r].sub
<1>1. /\ s \in SubIds /\ subs[s].state = "checkout_pending"
      /\ ~subs[s].checkout
  BY DEF IInv, HandlerTrue
<1>2. RowTrue(s) /\ subs[s] \in SubRow
  BY <1>1 DEF IInv, BillingTypeOK, TablesTypeOK
<1>3. /\ checkouts[s] = "none" /\ ~subs[s].linked /\ ~subs[s].abandoned
      /\ ~subs[s].cancelAt /\ ~subs[s].stopped
  BY <1>1, <1>2 DEF RowTrue, SubRow
<1>4. sold[s].state = "none"
  BY <1>1, <1>3 DEF IInv, ProviderTrue
<1> QED
  BY <1>1, <1>2, <1>3, <1>4

\* A refresh that is open could be delivered now.
LEMMA OpenDelivered ==
    ASSUME IInv, NEW e \in EventIds, refreshing[e] # "none"
    PROVE  /\ e \in Events /\ Delivered(e)
           /\ sent[e].kind = "subscription_refresh"
           /\ sent[e].sub \in SubIds /\ subs[sent[e].sub].linked
<1>1. RefreshTrue(e)
  BY DEF IInv, OpenTrue
<1>2. e \in Events /\ sent[e].sub \in SubIds
  BY <1>1, MessageTyped DEF RefreshTrue, IInv
<1>3. \A d \in 1 .. e - 1 : d \in Events /\ d < e
  BY <1>2 DEF IInv, BillingTypeOK, Events
<1>4. Delivered(e)
  BY <1>1, <1>3 DEF RefreshTrue, Delivered, AlreadyRecorded
<1> QED
  BY <1>1, <1>2, <1>4 DEF RefreshTrue

\* A step that commits no message keeps what is open: rows that are sold stay
\* so, cancellations are not taken back, and messages are only added.
LEMMA OpenKept ==
    ASSUME IInv, UNCHANGED <<processed, refreshing, outdated>>,
           \A e \in Events : e \in Events' /\ sent'[e] = sent[e],
           MessagesTrue',
           \A u \in SubIds : sold[u].kept => sold'[u].kept,
           \A u \in SubIds : subs[u].linked =>
               /\ subs'[u].linked
               /\ subs[u].state \in Stopping => subs'[u].state \in Stopping
    PROVE  OpenTrue'
<1>1. ASSUME NEW e \in EventIds, refreshing[e] # "none" PROVE RefreshTrue(e)'
  <2>1. RefreshTrue(e) /\ e \in Events /\ sent[e].sub \in SubIds /\ sent'[e] = sent[e]
    BY <1>1, OpenDelivered DEF IInv, OpenTrue
  <2>2. \A d \in Events' : d < e => d \in Events
    BY <2>1 DEF IInv, BillingTypeOK, Events
  <2> QED
    BY <1>1, <2>1, <2>2 DEF RefreshTrue
<1>2. \A e \in EventIds : RefreshTrue(e)'
  BY <1>1 DEF RefreshTrue
<1>3. OutdatedTrue'
  BY DEF IInv, OpenTrue, OutdatedTrue, BillingTypeOK
<1> QED
  BY <1>2, <1>3 DEF OpenTrue

\* The same of a step that leaves the provider's subscriptions alone.
LEMMA OpenStays ==
    ASSUME IInv, UNCHANGED <<processed, refreshing, outdated, sent, sold>>,
           \A u \in SubIds : checkouts[u] = "paid" => checkouts'[u] = "paid",
           \A u \in SubIds : subs[u].linked =>
               /\ subs'[u].linked
               /\ subs[u].state \in Stopping => subs'[u].state \in Stopping
    PROVE  OpenTrue'
<1>1. MessagesTrue'
  BY DEF IInv, OpenTrue, MessagesTrue, Events
<1> QED
  BY <1>1, OpenKept DEF Events

-------------------------------------------------------------------------------
\* Steps that rewrite a recorded row

\* The row keeps its checkout and its place; the others, the handlers and the
\* provider are untouched.
LEMMA RowRewritten ==
    ASSUME IInv, NEW s \in SubIds, NEW new \in SubRow,
           subs[s].state # "none", new.state # "none",
           subs[s].checkout, new.checkout,
           subs' = [subs EXCEPT ![s] = new],
           UNCHANGED <<checkouts, sold, sent, checkoutPc>>,
           outdated \subseteq outdated', RowTrue(s)'
    PROVE  /\ subs' \in [SubIds -> SubRow]
           /\ RowsContiguous' /\ (\A u \in SubIds : RowTrue(u)')
           /\ ProviderTrue' /\ (\A r \in Requests : HandlerTrue(r)')
<1>1. subs \in [SubIds -> SubRow]
  BY DEF IInv, BillingTypeOK, TablesTypeOK
<1>2. /\ subs' \in [SubIds -> SubRow] /\ subs'[s] = new
      /\ \A u \in SubIds : u # s => subs'[u] = subs[u]
  BY <1>1
<1>3. RowsContiguous'
  <2>1. \A u \in SubIds : subs'[u].state # "none" <=> subs[u].state # "none"
    BY <1>2
  <2> QED
    BY <2>1 DEF IInv, RowsContiguous
<1>4. ASSUME NEW u \in SubIds PROVE RowTrue(u)'
  <2>1. CASE u = s
    BY <2>1
  <2>2. CASE u # s
    <3>1. RowTrue(u)
      BY DEF IInv
    <3> QED
      BY <1>2, <2>2, <3>1 DEF RowTrue
  <2> QED
    BY <2>1, <2>2
<1>5. ProviderTrue'
  BY DEF IInv, ProviderTrue, Events
<1>6. ASSUME NEW r \in Requests PROVE HandlerTrue(r)'
  <2>1. HandlerTrue(r)
    BY DEF IInv
  <2>2. checkoutPc[r].step = "inserted" => checkoutPc[r].sub # s
    BY <2>1 DEF HandlerTrue
  <2> QED
    BY <1>2, <2>1, <2>2 DEF HandlerTrue
<1> QED
  BY <1>2, <1>3, <1>4, <1>5, <1>6

\* A message that is committed closes the transaction it had open and leaves
\* the others true: what it takes back, the owner took back, and it was not
\* ahead of an open refresh.
LEMMA CommitKeepsOpen ==
    ASSUME IInv, NEW e \in Events, NEW s \in SubIds, Recorded(e),
           \A u \in SubIds : u # s => subs'[u] = subs[u],
           subs'[s].linked,
           \/ subs[s].linked /\ subs[s].state \in Stopping =>
                 subs'[s].state \in Stopping
           \/ /\ sold[s].kept
              /\ InOrder => \A d \in EventIds \ {e} :
                                refreshing[d] # "none" => sent[d].sub # s,
           \A u \in outdated' : u \in outdated \/ (sold[u].kept /\ ~InOrder)
    PROVE  OpenTrue'
<1>1. /\ UNCHANGED <<sent, sold, checkouts>> /\ processed' = processed \union {e}
      /\ refreshing' = [refreshing EXCEPT ![e] = "none"]
      /\ refreshing \in [EventIds -> SubStates]
  BY DEF Recorded, providerVars, IInv, BillingTypeOK
<1>2. e \in EventIds
  BY BillingAssumption DEF IInv, BillingTypeOK, Events, EventIds
<1>3. MessagesTrue'
  BY <1>1 DEF IInv, OpenTrue, MessagesTrue, Events
<1>4. ASSUME NEW d \in EventIds, refreshing'[d] # "none" PROVE RefreshTrue(d)'
  <2>1. d # e /\ refreshing'[d] = refreshing[d] /\ refreshing[d] # "none"
    BY <1>1, <1>2, <1>4
  <2>2. RefreshTrue(d) /\ d \in Events /\ sent[d].sub \in SubIds
    BY <2>1, OpenDelivered DEF IInv, OpenTrue
  <2>3. d \in Events' /\ d \notin processed'
    BY <1>1, <2>1, <2>2 DEF RefreshTrue, Events
  <2>4. subs'[sent[d].sub].linked
    BY <2>1, <2>2 DEF RefreshTrue
  <2>5. refreshing[d] = "cancel_at_period_end" =>
           \/ subs'[sent[d].sub].state \in Stopping
           \/ sold[sent[d].sub].kept /\ ~InOrder
    BY <2>1, <2>2 DEF RefreshTrue
  <2> QED
    BY <1>1, <2>1, <2>2, <2>3, <2>4, <2>5 DEF RefreshTrue, Events
<1>5. \A d \in EventIds : RefreshTrue(d)'
  BY <1>4 DEF RefreshTrue
<1>6. OutdatedTrue'
  BY <1>1 DEF IInv, OpenTrue, OutdatedTrue
<1> QED
  BY <1>3, <1>5, <1>6 DEF OpenTrue

\* The step of a webhook that rewrites a row.
LEMMA WebhookRewrites ==
    ASSUME IInv, NEW e \in Events, NEW s \in SubIds, NEW new \in SubRow,
           subs[s].state # "none", new.state # "none",
           subs[s].checkout, new.checkout, new.linked,
           subs' = [subs EXCEPT ![s] = new],
           \/ subs[s].linked /\ subs[s].state \in Stopping => new.state \in Stopping
           \/ /\ sold[s].kept
              /\ InOrder => \A d \in EventIds \ {e} :
                                refreshing[d] # "none" => sent[d].sub # s,
           outdated \subseteq outdated',
           \A u \in outdated' :
               u \in outdated \/ (u \in SubIds /\ sold[u].kept /\ ~InOrder),
           RowTrue(s)',
           installs' \in [InstIds -> InstRow],
           Recorded(e)
    PROVE  IInv'
<1>2. UNCHANGED <<checkouts, sold, sent, checkoutPc, seen, refused>>
  BY DEF Recorded, providerVars
<1>3. /\ subs' \in [SubIds -> SubRow]
      /\ RowsContiguous' /\ (\A u \in SubIds : RowTrue(u)')
      /\ ProviderTrue' /\ (\A r \in Requests : HandlerTrue(r)')
  BY <1>2, RowRewritten
<1>4. SeenTrue'
  BY <1>2 DEF IInv, SeenTrue
<1>5. BillingTypeOK'
  <2>1. refreshing' \in [EventIds -> SubStates]
    BY DEF Recorded, IInv, BillingTypeOK, SubStates
  <2>2. outdated' \subseteq SubIds
    BY DEF IInv, BillingTypeOK
  <2> QED
    BY <1>2, <1>3, <2>1, <2>2 DEF IInv, BillingTypeOK, TablesTypeOK, Recorded, Events
<1>6. OpenTrue'
  <2>1. /\ subs'[s] = new
        /\ \A u \in SubIds : u # s => subs'[u] = subs[u]
    BY DEF IInv, BillingTypeOK, TablesTypeOK
  <2> QED
    BY <2>1, CommitKeepsOpen
<1> QED
  BY <1>3, <1>4, <1>5, <1>6 DEF IInv

\* A payment message activates only a row whose checkout was paid.
LEMMA ActivatePreserves ==
    ASSUME IInv, NEW e \in Events, WebhookActivates(e)
    PROVE  IInv'
<1>0. PICK s \in SubIds : s = sent[e].sub
  BY MessageTyped DEF IInv
<1> DEFINE new == Activated(subs[s])
<1>1. s \in SubIds /\ subs[s] \in SubRow /\ RowTrue(s)
  BY <1>0, MessageTyped DEF IInv
<1>2. /\ subs[s].checkout
      /\ subs[s].state \in {"checkout_pending", "active", "past_due"}
           \/ subs[s].abandoned
      /\ subs' = [subs EXCEPT ![s] = new]
      /\ UNCHANGED <<installs, outdated>> /\ Recorded(e)
  BY <1>0 DEF WebhookActivates, Activates, Activatable, Activation
<1>3. checkouts[s] = "paid" /\ UNCHANGED checkouts
  BY <1>0 DEF IInv, ProviderTrue, WebhookActivates, Recorded, providerVars
<1>4. new \in SubRow /\ new.checkout /\ new.state # "none" /\ new.linked
  BY <1>1, <1>2 DEF Activated, SubRow, SubStates
<1>5. RowTrue(s)'
  <2>1. subs'[s] = new
    BY <1>1, <1>2 DEF IInv, BillingTypeOK, TablesTypeOK
  <2>2. /\ new.state = "active" /\ new.linked /\ new.entitled
        /\ ~new.abandoned /\ ~new.stopped
        /\ new.cancelAt => s \in outdated
    BY <1>1, <1>2 DEF Activated, RowTrue, SubRow, Stopping
  <2> HIDE DEF new
  <2> QED
    BY <1>2, <1>3, <1>4, <2>1, <2>2 DEF RowTrue
<1>6. subs[s].state # "none"
  BY <1>1, <1>2 DEF RowTrue, NoSub
<1>7. installs' \in [InstIds -> InstRow]
  BY <1>2 DEF IInv, BillingTypeOK, TablesTypeOK
<1>8. ~(subs[s].linked /\ subs[s].state \in Stopping)
  BY <1>1, <1>2 DEF RowTrue, Stopping
<1> HIDE DEF new
<1> QED
  BY <1>2, <1>4, <1>5, <1>6, <1>7, <1>8, WebhookRewrites

\* A transition moves only a linked row, and never out of the end.  Out of a
\* scheduled cancellation it takes the message that the owner took it back.
LEMMA TransitionPreserves ==
    ASSUME IInv, NEW e \in Events, NEW s \in SubIds, sent[e].sub = s,
           NEW tr \in Transitions, Markable(subs[s], tr), MarksRow(s, tr),
           UNCHANGED outdated, Recorded(e),
           tr = "uncancelled" =>
               Delivered(e) /\ sent[e].kind = "subscription_uncancelled"
    PROVE  IInv'
<1> DEFINE new == Marked(subs[s], tr)
<1>1. s \in SubIds /\ subs[s] \in SubRow /\ RowTrue(s) /\ sent[e] \in Event
  BY MessageTyped DEF IInv
<1>2. /\ subs[s].linked /\ subs[s].state \in LeavesFrom(tr)
      /\ subs' = [subs EXCEPT ![s] = new]
      /\ installs' = MarkedOn(s, tr)
  BY DEF Markable, MarksRow
<1>3. tr \in Transitions
  OBVIOUS
<1>4. UNCHANGED checkouts
  BY DEF Recorded, providerVars
<1>5. /\ StateAfter(tr) \in SubStates \ {"none"}
      /\ subs[s].state \notin {"none", "cancelled"}
      /\ subs[s].state = "checkout_pending" => tr = "cancelled"
      /\ subs[s].state = "cancel_at_period_end" =>
            tr \in {"cancelled", "cancel_at_period_end", "uncancelled"}
  BY <1>2, <1>3 DEF LeavesFrom, Transitions, StateAfter, SubStates
<1>6. /\ new \in SubRow /\ new.state # "none"
      /\ new.checkout = subs[s].checkout /\ new.linked /\ new.state = StateAfter(tr)
      /\ new.entitled = subs[s].entitled /\ new.abandoned = subs[s].abandoned
      /\ new.stopped <=> subs[s].stopped \/ tr = "cancelled"
      /\ tr = "cancel_at_period_end" => new.cancelAt
      /\ tr = "uncancelled" => ~new.cancelAt
      /\ tr \notin {"cancel_at_period_end", "uncancelled"} =>
            new.cancelAt = subs[s].cancelAt
  BY <1>1, <1>2, <1>3, <1>5 DEF Marked, SubRow, Transitions
<1>7. subs[s].checkout
  BY <1>1, <1>2 DEF RowTrue
<1>8. subs'[s] = new
  BY <1>1, <1>2 DEF IInv, BillingTypeOK, TablesTypeOK
<1> HIDE DEF new
<1>9. RowTrue(s)'
  <2>1. subs[s].state # "checkout_pending"
    BY <1>1, <1>2 DEF RowTrue
  <2>2. subs[s].state \in Entitling
    BY <1>1, <1>5, <2>1 DEF Entitling, SubRow, SubStates
  <2>3. /\ new.linked /\ new.entitled /\ ~new.abandoned
        /\ checkouts'[s] = "paid" /\ new.checkout
    BY <1>1, <1>2, <1>4, <1>6, <1>7, <2>2 DEF RowTrue, Entitling
  <2>4. new.stopped <=> new.state = "cancelled"
    BY <1>1, <1>3, <1>5, <1>6 DEF RowTrue, StateAfter, Transitions
  <2>5. new.cancelAt => new.state \in Stopping \/ s \in outdated'
    BY <1>1, <1>2, <1>3, <1>5, <1>6
    DEF RowTrue, StateAfter, Transitions, Stopping, LeavesFrom
  <2>6. new.state # "checkout_pending"
    BY <1>3, <1>6 DEF StateAfter, Transitions
  <2> QED
    BY <1>6, <1>8, <2>3, <2>4, <2>5, <2>6 DEF RowTrue
<1>10. installs' \in [InstIds -> InstRow]
  <2> SUFFICES ASSUME NEW i \in InstIds PROVE MarkedInst(installs[i], tr) \in InstRow
    BY <1>2 DEF MarkedOn, IInv, BillingTypeOK, TablesTypeOK
  <2>1. installs[i] \in InstRow
    BY DEF IInv, BillingTypeOK, TablesTypeOK
  <2> QED
    BY <1>3, <1>5, <2>1 DEF MarkedInst, InstRow, MirrorStates, Transitions
<1>11. \/ subs[s].state \in Stopping => new.state \in Stopping
       \/ /\ sold[s].kept
          /\ InOrder => \A d \in EventIds \ {e} :
                            refreshing[d] # "none" => sent[d].sub # s
  <2>1. CASE tr # "uncancelled"
    BY <1>2, <1>3, <1>6, <2>1 DEF LeavesFrom, Transitions, StateAfter, Stopping
  <2>2. CASE tr = "uncancelled"
    <3>1. /\ sold[s].kept /\ s \notin StripeSold
          /\ Delivered(e) /\ sent[e].kind = "subscription_uncancelled"
      BY <2>2 DEF IInv, OpenTrue, MessagesTrue
    <3>2. ASSUME InOrder, NEW d \in EventIds \ {e}, refreshing[d] # "none",
                 sent[d].sub = s
          PROVE  FALSE
      <4>1. RefreshTrue(d) /\ d \in Events
        BY <3>2, OpenDelivered DEF IInv, OpenTrue
      <4>2. e < d => e \in processed
        BY <3>2, <4>1 DEF RefreshTrue
      <4>3. d < e => d \in processed
        BY <3>1, <3>2, <4>1 DEF Delivered, Events, IInv, BillingTypeOK
      <4>4. e \notin processed /\ d \notin processed
        BY <3>1, <3>2, <4>1 DEF Delivered, AlreadyRecorded, RefreshTrue
      <4> QED
        BY <3>2, <4>1, <4>2, <4>3, <4>4 DEF Events, IInv, BillingTypeOK
    <3> QED
      BY <3>1, <3>2
  <2> QED
    BY <2>1, <2>2
<1> QED
  BY <1>2, <1>5, <1>6, <1>7, <1>9, <1>10, <1>11, WebhookRewrites

LEMMA MarkPreserves ==
    ASSUME IInv, NEW e \in Events, WebhookMarks(e)
    PROVE  IInv'
<1>1. sent[e] \in Event /\ sent[e].sub \in SubIds
  BY MessageTyped DEF IInv
<1>2. /\ Delivered(e) /\ Recorded(e) /\ UNCHANGED outdated
      /\ sent[e].kind # "subscription_refresh"
      /\ Markable(subs[sent[e].sub], TransitionOf(e))
      /\ MarksRow(sent[e].sub, TransitionOf(e))
  BY DEF WebhookMarks, Marks
<1>3. /\ TransitionOf(e) \in Transitions
      /\ TransitionOf(e) = "uncancelled" =>
            sent[e].kind = "subscription_uncancelled"
  BY <1>1, <1>2 DEF Event, TransitionOf, Transitions
<1> QED
  BY <1>1, <1>2, <1>3, TransitionPreserves

\* A refresh that found no cancellation may move the row as a message does.
LEMMA RefreshMarksPreserves ==
    ASSUME IInv, NEW e \in Events, RefreshMarks(e)
    PROVE  IInv'
<1>1. sent[e].sub \in SubIds
  BY MessageTyped DEF IInv
<1>2. RefreshTransition(e) \in {"past_due", "active"}
  BY DEF RefreshMarks, RefreshTransition
<1> QED
  BY <1>1, <1>2, TransitionPreserves DEF RefreshMarks, Transitions

\* A refresh dates the row it read as cancelled, whatever it is by then.
LEMMA DatesPreserves ==
    ASSUME IInv, NEW e \in Events, RefreshDates(e)
    PROVE  IInv'
<1>0. PICK s \in SubIds : s = sent[e].sub
  BY MessageTyped DEF IInv
<1> DEFINE new == [subs[s] EXCEPT !.cancelAt = TRUE]
<1>1. s \in SubIds /\ subs[s] \in SubRow /\ RowTrue(s)
  BY <1>0, MessageTyped DEF IInv
<1>2. /\ refreshing[e] = "cancel_at_period_end"
      /\ subs' = [subs EXCEPT ![s] = new]
      /\ installs' = [i \in InstIds |->
                        [installs[i] EXCEPT !.cancelAt = @ \/ Rides(i, s)]]
      /\ outdated' = IF subs[s].state \in Stopping THEN outdated
                     ELSE outdated \union {s}
      /\ Recorded(e)
  BY <1>0 DEF RefreshDates
<1>3. UNCHANGED checkouts
  BY <1>2 DEF Recorded, providerVars
<1>4. /\ e \in EventIds /\ subs[s].linked /\ RefreshTrue(e)
  <2>1. e \in EventIds
    BY BillingAssumption DEF IInv, BillingTypeOK, Events, EventIds
  <2> QED
    BY <1>0, <1>2, <2>1, OpenDelivered DEF IInv, OpenTrue
<1>5. subs[s].state \in Stopping \/ (sold[s].kept /\ ~InOrder)
  BY <1>0, <1>2, <1>4 DEF RefreshTrue
<1>6. /\ new \in SubRow /\ new.state = subs[s].state /\ new.linked
      /\ new.checkout = subs[s].checkout /\ new.entitled = subs[s].entitled
      /\ new.abandoned = subs[s].abandoned /\ new.stopped = subs[s].stopped
  BY <1>1, <1>4 DEF SubRow
<1>7. subs[s].checkout /\ subs[s].state # "none"
  BY <1>1, <1>4 DEF RowTrue, NoSub
<1>8. subs'[s] = new
  BY <1>1, <1>2 DEF IInv, BillingTypeOK, TablesTypeOK
<1> HIDE DEF new
<1>9. RowTrue(s)'
  BY <1>1, <1>2, <1>3, <1>4, <1>6, <1>7, <1>8 DEF RowTrue, Entitling
<1>10. installs' \in [InstIds -> InstRow]
  <2> SUFFICES ASSUME NEW i \in InstIds
               PROVE  [installs[i] EXCEPT !.cancelAt = @ \/ Rides(i, s)] \in InstRow
    BY <1>2
  <2>1. installs[i] \in InstRow
    BY DEF IInv, BillingTypeOK, TablesTypeOK
  <2>2. installs[i].cancelAt \/ Rides(i, s) \in BOOLEAN
    BY DEF Rides
  <2> QED
    BY <2>1, <2>2 DEF InstRow
<1>11. /\ outdated \subseteq outdated'
       /\ \A u \in outdated' :
             u \in outdated \/ (u \in SubIds /\ sold[u].kept /\ ~InOrder)
  BY <1>2, <1>5
<1> QED
  BY <1>2, <1>6, <1>7, <1>9, <1>10, <1>11, WebhookRewrites

\* A webhook that writes neither table: it is refused, ends or gives up, or
\* has only read.
LEMMA ReadingPreserves ==
    ASSUME IInv, NEW e \in Events,
           \/ WebhookRefused(e) \/ WebhookIgnored(e) \/ RefreshRead(e)
           \/ RefreshEnds(e) \/ RefreshStops(e)
    PROVE  IInv'
<1>1. /\ UNCHANGED <<subs, installs, checkoutPc, seen, checkouts, sold, sent,
                     outdated>>
      /\ processed' \subseteq processed \union {e} /\ processed \subseteq processed'
      /\ refused' \subseteq Events
  BY DEF WebhookRefused, WebhookIgnored, RefreshRead, RefreshEnds, RefreshStops,
         Recorded, tableVars, providerVars, IInv, BillingTypeOK
<1>2. e \in EventIds /\ sent[e].sub \in SubIds /\ subs[sent[e].sub] \in SubRow
  BY BillingAssumption, MessageTyped
  DEF IInv, BillingTypeOK, Events, EventIds
<1>3. /\ refreshing \in [EventIds -> SubStates]
      /\ processed \subseteq Events
  BY DEF IInv, BillingTypeOK
<1>4. refreshing' \in [EventIds -> SubStates]
  <2>1. /\ "none" \in SubStates /\ subs[sent[e].sub].state \in SubStates
        /\ \/ refreshing' = refreshing
           \/ refreshing' = [refreshing EXCEPT ![e] = "none"]
           \/ refreshing' = [refreshing EXCEPT ![e] = subs[sent[e].sub].state]
    BY <1>2 DEF WebhookRefused, WebhookIgnored, RefreshRead, RefreshEnds,
                RefreshStops, Recorded, SubRow, SubStates
  <2> QED
    BY <1>3, <2>1
<1>5. BillingTypeOK'
  BY <1>1, <1>3, <1>4 DEF IInv, BillingTypeOK, TablesTypeOK, Events
<1>6. RowsContiguous' /\ ProviderTrue' /\ SeenTrue'
  BY <1>1 DEF IInv, RowsContiguous, ProviderTrue, SeenTrue, Events
<1>7. /\ \A s \in SubIds : RowTrue(s)'
      /\ \A r \in Requests : HandlerTrue(r)'
  BY <1>1 DEF IInv, RowTrue, HandlerTrue
<1>8. ASSUME NEW d \in EventIds, refreshing'[d] # "none" PROVE RefreshTrue(d)'
  <2>1. CASE ~(d = e /\ RefreshRead(e))
    <3>1. refreshing'[d] = refreshing[d]
      BY <1>3, <1>8, <2>1
      DEF WebhookRefused, WebhookIgnored, RefreshRead, RefreshEnds,
          RefreshStops, Recorded
    <3>2. d = e => d \notin processed'
      <4> SUFFICES ASSUME d = e PROVE d \notin processed'
        OBVIOUS
      <4>1. ~WebhookIgnored(e) /\ ~RefreshEnds(e) /\ ~RefreshStops(e)
        BY <1>2, <1>3, <1>8 DEF WebhookIgnored, RefreshEnds, RefreshStops, Recorded
      <4>2. WebhookRefused(e) \/ RefreshRead(e)
        BY <4>1
      <4> QED
        BY <4>2 DEF WebhookRefused, RefreshRead, Delivered, AlreadyRecorded
    <3>3. RefreshTrue(d)
      BY DEF IInv, OpenTrue
    <3> QED
      BY <1>1, <1>8, <3>1, <3>2, <3>3 DEF RefreshTrue, Events
  <2>2. CASE d = e /\ RefreshRead(e)
    <3>1. /\ refreshing'[e] = subs[sent[e].sub].state /\ UNCHANGED processed
          /\ Delivered(e) /\ sent[e].kind = "subscription_refresh"
          /\ subs[sent[e].sub].linked
      BY <1>2, <1>3, <2>2 DEF RefreshRead, Refreshes
    <3>2. sent[e].sub \notin StripeSold
      BY <3>1 DEF IInv, OpenTrue, MessagesTrue
    <3>3. InOrder => \A c \in Events : c < e /\ sent[c].sub = sent[e].sub =>
                                           c \in processed
      BY <3>1, <3>2 DEF Delivered, Events, IInv, BillingTypeOK
    <3>4. e \in Events' /\ e \notin processed'
      BY <1>1, <3>1 DEF Delivered, AlreadyRecorded, Events
    <3> QED
      BY <1>1, <2>2, <3>1, <3>3, <3>4 DEF RefreshTrue, Stopping, Events
  <2> QED
    BY <2>1, <2>2
<1>9. OpenTrue'
  <2>1. \A d \in EventIds : RefreshTrue(d)'
    BY <1>8 DEF RefreshTrue
  <2>2. MessagesTrue' /\ OutdatedTrue'
    BY <1>1 DEF IInv, OpenTrue, MessagesTrue, OutdatedTrue, Events
  <2> QED
    BY <2>1, <2>2 DEF OpenTrue
<1> QED
  BY <1>5, <1>6, <1>7, <1>9 DEF IInv

\* Every delivery keeps the invariant; those that apply to nothing too.
LEMMA WebhookPreserves ==
    ASSUME IInv, WebhookNext
    PROVE  IInv'
  BY ActivatePreserves, MarkPreserves, RefreshMarksPreserves, DatesPreserves,
     ReadingPreserves
  DEF WebhookNext

-------------------------------------------------------------------------------
\* The reconciler

\* What it reads is true when it reads it.
LEMMA ReadPreserves ==
    ASSUME IInv, NEW c \in Reconcilers, NEW s \in SubIds, ReconcileRead(c, s)
    PROVE  IInv'
<1> DEFINE new == [sub |-> s, outcome |-> OutcomeOf(s)]
<1>1. /\ seen' = [seen EXCEPT ![c] = new] /\ OutcomeOf(s) # "nothing"
      /\ UNCHANGED <<subs, installs, checkoutPc, checkouts, sold, sent,
                     processed, refused, refreshing, outdated>>
  BY DEF ReconcileRead, tableVars, providerVars, webhookVars
<1>2. /\ OutcomeOf(s) \in {"active", "cancelling", "abandoned"}
      /\ OutcomeOf(s) # "abandoned" => checkouts[s] = "paid"
  BY <1>1 DEF OutcomeOf, StripeOutcome, PolarOutcome
<1>3. new \in View /\ new.sub = s /\ new.outcome = OutcomeOf(s)
  BY <1>2, StoreAssumption DEF View, SubIds
<1> HIDE DEF new
<1>4. seen \in [Reconcilers -> View]
  BY DEF IInv, BillingTypeOK
<1>5. BillingTypeOK'
  BY <1>1, <1>3, <1>4 DEF IInv, BillingTypeOK, TablesTypeOK, Events
<1>6. SeenTrue'
  BY <1>1, <1>2, <1>3, <1>4 DEF IInv, SeenTrue
<1>7. RowsContiguous' /\ ProviderTrue'
  BY <1>1 DEF IInv, RowsContiguous, ProviderTrue, Events
<1>8. /\ \A u \in SubIds : RowTrue(u)'
      /\ \A r \in Requests : HandlerTrue(r)'
  BY <1>1 DEF IInv, RowTrue, HandlerTrue
<1>9. OpenTrue'
  BY <1>1, OpenStays
<1> QED
  BY <1>5, <1>6, <1>7, <1>8, <1>9 DEF IInv

\* What it applies may be old: the row is written only while it is pending,
\* and a payment it saw was made.
LEMMA ApplyPreserves ==
    ASSUME IInv, NEW c \in Reconcilers,
           ReconcileApply(c) \/ ReconcileStop(c)
    PROVE  IInv'
<1> DEFINE s == seen[c].sub
<1>1. PICK u \in SubIds : u = s
  BY DEF IInv, SeenTrue, ReconcileApply, ReconcileStop
<1>2. /\ seen[c].outcome # "nothing"
      /\ seen[c].outcome # "abandoned" => checkouts[u] = "paid"
      /\ seen[c] \in View
  BY <1>1 DEF IInv, SeenTrue, BillingTypeOK, ReconcileApply, ReconcileStop
<1>3. /\ seen' = [seen EXCEPT ![c] = Nothing]
      /\ UNCHANGED <<installs, checkoutPc, checkouts, sold, sent, processed,
                     refused, refreshing, outdated>>
  BY DEF ReconcileApply, ReconcileStop, tableVars, providerVars, webhookVars
<1>4. seen' \in [Reconcilers -> View]
  <2>1. Nothing \in View
    BY StoreAssumption DEF Nothing, View
  <2> QED
    BY <1>3, <2>1 DEF IInv, BillingTypeOK
<1>5. SeenTrue'
  BY <1>3 DEF IInv, BillingTypeOK, SeenTrue
<1>6. CASE UNCHANGED subs
  <2>1. BillingTypeOK'
    BY <1>3, <1>4, <1>6 DEF IInv, BillingTypeOK, TablesTypeOK, Events
  <2>2. RowsContiguous' /\ ProviderTrue'
    BY <1>3, <1>6 DEF IInv, RowsContiguous, ProviderTrue, Events
  <2>3. /\ \A x \in SubIds : RowTrue(x)'
        /\ \A r \in Requests : HandlerTrue(r)'
    BY <1>3, <1>6 DEF IInv, RowTrue, HandlerTrue
  <2>4. OpenTrue'
    BY <1>3, <1>6, OpenStays
  <2> QED
    BY <1>5, <2>1, <2>2, <2>3, <2>4 DEF IInv
<1>7. CASE ~UNCHANGED subs
  <2> DEFINE new == Reconciled(subs[u], seen[c].outcome)
  <2>1. /\ subs' = [subs EXCEPT ![u] = new]
        /\ subs[u].state = "checkout_pending" /\ subs[u].checkout
    BY <1>1, <1>7 DEF ReconcileApply, ReconcileStop, Reconcilable, tableVars
  <2>2. subs[u] \in SubRow /\ RowTrue(u)
    BY DEF IInv, BillingTypeOK, TablesTypeOK
  <2>3. /\ new \in SubRow /\ new.state # "none" /\ new.checkout
        /\ new.state # "checkout_pending"
    BY <1>2, <2>1, <2>2 DEF Reconciled, SubRow, SubStates
  <2>4. ASSUME seen[c].outcome = "abandoned" PROVE RowTrue(u)'
    <3>1. /\ new.state = "cancelled" /\ new.abandoned /\ new.stopped
          /\ ~new.linked /\ ~new.cancelAt
      BY <2>1, <2>2, <2>4 DEF Reconciled, RowTrue, SubRow
    <3>2. subs'[u] = new /\ checkouts'[u] # "none"
      BY <1>3, <2>1, <2>2 DEF IInv, BillingTypeOK, TablesTypeOK, RowTrue
    <3> HIDE DEF new
    <3> QED
      BY <2>3, <3>1, <3>2 DEF RowTrue, Entitling
  <2>5. ASSUME seen[c].outcome # "abandoned" PROVE RowTrue(u)'
    <3>1. /\ new.state \in {"active", "cancel_at_period_end"}
          /\ ~new.abandoned /\ ~new.stopped /\ new.linked /\ new.entitled
          /\ new.cancelAt => new.state = "cancel_at_period_end"
      BY <2>1, <2>2, <2>5 DEF Reconciled, SubRow
    <3>2. subs'[u] = new /\ checkouts'[u] = "paid"
      BY <1>2, <1>3, <2>1, <2>5 DEF IInv, BillingTypeOK, TablesTypeOK
    <3> HIDE DEF new
    <3> QED
      BY <2>3, <3>1, <3>2 DEF RowTrue, Stopping
  <2>6. /\ subs' \in [SubIds -> SubRow]
        /\ RowsContiguous' /\ (\A x \in SubIds : RowTrue(x)')
        /\ ProviderTrue' /\ (\A r \in Requests : HandlerTrue(r)')
    <3> HIDE DEF new
    <3>1. RowTrue(u)'
      BY <2>4, <2>5
    <3> QED
      BY <1>3, <2>1, <2>3, <3>1, RowRewritten
  <2>7. BillingTypeOK'
    BY <1>3, <1>4, <2>6 DEF IInv, BillingTypeOK, TablesTypeOK, Events
  <2>8. OpenTrue'
    <3>1. ~subs[u].linked
      BY <2>1, <2>2 DEF RowTrue
    <3>2. \A x \in SubIds : x # u => subs'[x] = subs[x]
      BY <2>1 DEF IInv, BillingTypeOK, TablesTypeOK
    <3> QED
      BY <1>3, <3>1, <3>2, OpenStays
  <2> QED
    BY <1>5, <2>6, <2>7, <2>8 DEF IInv
<1> QED
  BY <1>6, <1>7

LEMMA ReconcilePreserves ==
    ASSUME IInv, ReconcileNext
    PROVE  IInv'
  BY ReadPreserves, ApplyPreserves DEF ReconcileNext

-------------------------------------------------------------------------------
\* The provider

\* A checkout moves on, a subscription changes, or a message is sent.
LEMMA ProviderMoves ==
    ASSUME IInv, NEW s \in SubIds, NEW status \in {"paid", "expired"},
           checkouts' = [checkouts EXCEPT ![s] = status] \/ UNCHANGED checkouts,
           checkouts[s] = "open" \/ UNCHANGED checkouts,
           sold' \in [SubIds -> Sold], sent' \in Seq(Event),
           Len(sent') <= MaxEvents, Len(sent) <= Len(sent'),
           \A u \in SubIds : sold'[u].state # "none" =>
               sold[u].state # "none" \/ checkouts'[u] = "paid",
           \A e \in 1 .. Len(sent') :
               \/ e \in Events /\ sent'[e] = sent[e]
               \/ checkouts'[sent'[e].sub] = "paid",
           \A e \in Events : sent'[e] = sent[e],
           MessagesTrue', \A u \in SubIds : sold[u].kept => sold'[u].kept,
           UNCHANGED <<subs, installs, checkoutPc, seen,
                       processed, refused, refreshing, outdated>>
    PROVE  IInv'
<1>1. checkouts \in [SubIds -> {"none", "open", "paid", "expired"}]
  BY DEF IInv, BillingTypeOK
<1>2. /\ checkouts' \in [SubIds -> {"none", "open", "paid", "expired"}]
      /\ \A u \in SubIds : /\ checkouts[u] = "paid" => checkouts'[u] = "paid"
                           /\ checkouts[u] = "none" <=> checkouts'[u] = "none"
  BY <1>1
<1>3. sent \in Seq(Event) /\ Len(sent) \in Nat /\ Len(sent') \in Nat
  BY DEF IInv, BillingTypeOK
<1>4. BillingTypeOK'
  <2>1. Events \subseteq Events'
    BY <1>3 DEF Events
  <2> QED
    BY <1>2, <2>1 DEF IInv, BillingTypeOK, TablesTypeOK
<1>5. ASSUME NEW u \in SubIds PROVE RowTrue(u)'
  <2>1. RowTrue(u)
    BY DEF IInv
  <2> QED
    BY <1>2, <2>1 DEF RowTrue
<1>6. ProviderTrue'
  <2>1. \A u \in SubIds : sold'[u].state # "none" => checkouts'[u] = "paid"
    BY <1>2 DEF IInv, ProviderTrue
  <2>2. ASSUME NEW e \in 1 .. Len(sent')
        PROVE  checkouts'[sent'[e].sub] = "paid"
    <3>1. CASE e \in Events /\ sent'[e] = sent[e]
      <4>1. sent[e].sub \in SubIds /\ checkouts[sent[e].sub] = "paid"
        BY <3>1, MessageTyped DEF IInv, ProviderTrue
      <4> QED
        BY <1>2, <3>1, <4>1
    <3> QED
      BY <3>1
  <2> QED
    BY <2>1, <2>2 DEF ProviderTrue, Events
<1>7. SeenTrue'
  BY <1>2 DEF IInv, SeenTrue
<1>8. RowsContiguous' /\ \A r \in Requests : HandlerTrue(r)'
  BY DEF IInv, RowsContiguous, HandlerTrue
<1>9. OpenTrue'
  <2>1. \A e \in Events : e \in Events'
    BY <1>3 DEF Events
  <2> QED
    BY <2>1, OpenKept
<1> QED
  BY <1>4, <1>5, <1>6, <1>7, <1>8, <1>9 DEF IInv

\* The provider tells of a subscription of a paid checkout.
LEMMA ChangePreserves ==
    ASSUME IInv, NEW s \in SubIds, NEW new \in Sold, NEW kind, NEW echo \in BOOLEAN,
           kind \in {"subscription_active", "subscription_past_due",
                     "subscription_cancel_scheduled", "subscription_uncancelled",
                     "subscription_ended", "subscription_refresh"},
           \/ checkouts[s] = "open" /\ checkouts' = [checkouts EXCEPT ![s] = "paid"]
           \/ checkouts[s] = "paid" /\ UNCHANGED checkouts,
           kind \in {"subscription_refresh", "subscription_uncancelled"} =>
               s \notin StripeSold,
           kind = "subscription_uncancelled" => new.kept,
           checkouts[s] = "paid" /\ sold[s].kept => new.kept,
           Changes(s, new, kind, echo)
    PROVE  IInv'
<1> DEFINE m == Message(kind, s, echo)
<1>1. /\ Len(sent) < MaxEvents /\ sold' = [sold EXCEPT ![s] = new]
      /\ sent' = Append(sent, m)
      /\ UNCHANGED <<subs, installs, checkoutPc, seen,
                     processed, refused, refreshing, outdated>>
  BY DEF Changes, tableVars, webhookVars
<1>2. m \in Event /\ m.sub = s /\ m.kind = kind
  BY DEF Message, Event, ViewOf
<1> HIDE DEF m
<1>3. /\ sent \in Seq(Event) /\ Len(sent) \in Nat
      /\ sold \in [SubIds -> Sold] /\ MaxEvents \in Nat
      /\ checkouts \in [SubIds -> {"none", "open", "paid", "expired"}]
  BY BillingAssumption DEF IInv, BillingTypeOK
<1>4. /\ sent' \in Seq(Event) /\ Len(sent') = Len(sent) + 1
      /\ \A e \in 1 .. Len(sent') :
            \/ e \in 1 .. Len(sent) /\ sent'[e] = sent[e]
            \/ sent'[e] = m
  BY <1>1, <1>2, <1>3
<1>5. checkouts'[s] = "paid"
  BY <1>3
<1>6. /\ sold' \in [SubIds -> Sold]
      /\ \A u \in SubIds : u # s => sold'[u] = sold[u]
  BY <1>1, <1>3
<1>7. \A e \in 1 .. Len(sent') :
         \/ e \in Events /\ sent'[e] = sent[e]
         \/ checkouts'[sent'[e].sub] = "paid"
  BY <1>2, <1>4, <1>5 DEF Events
<1>8. \A u \in SubIds : sold'[u].state # "none" =>
         sold[u].state # "none" \/ checkouts'[u] = "paid"
  BY <1>5, <1>6
<1>9. Len(sent') <= MaxEvents /\ Len(sent) <= Len(sent')
  BY <1>1, <1>3, <1>4
<1>10. \A u \in SubIds : sold[u].kept => checkouts[u] = "paid" /\ sold'[u].kept
  <2>1. \A u \in SubIds : sold[u].kept => checkouts[u] = "paid"
    BY DEF IInv, OpenTrue, MessagesTrue
  <2> QED
    BY <1>1, <1>3, <1>6, <2>1
<1>11. \A e \in Events : sent'[e] = sent[e]
  BY <1>1, <1>3 DEF Events
<1>12. MessagesTrue'
  <2>1. \A u \in SubIds : sold'[u].kept => checkouts'[u] = "paid"
    BY <1>3, <1>5, <1>6, <1>10
  <2>2. ASSUME NEW e \in Events'
        PROVE  /\ sent'[e].kind \in {"subscription_refresh",
                                    "subscription_uncancelled"} =>
                     sent'[e].sub \notin StripeSold
               /\ sent'[e].kind = "subscription_uncancelled" =>
                     sold'[sent'[e].sub].kept
    <3>1. CASE e \in Events
      <4>1. sent[e].sub \in SubIds /\ sent'[e] = sent[e]
        BY <1>11, <3>1, MessageTyped DEF IInv
      <4> QED
        BY <1>10, <3>1, <4>1 DEF IInv, OpenTrue, MessagesTrue
    <3>2. CASE e \notin Events
      <4>1. sent'[e] = m /\ sold'[s] = new
        BY <1>1, <1>3, <1>4, <2>2, <3>2 DEF Events
      <4> QED
        BY <1>2, <4>1
    <3> QED
      BY <3>1, <3>2
  <2> QED
    BY <2>1, <2>2 DEF MessagesTrue
<1> QED
  BY <1>1, <1>4, <1>6, <1>7, <1>8, <1>9, <1>10, <1>11, <1>12, ProviderMoves

LEMMA ProviderPreserves ==
    ASSUME IInv, ProviderNext
    PROVE  IInv'
<1>1. PICK s \in SubIds :
        \/ OwnerPays(s) \/ CheckoutExpires(s) \/ PaymentFails(s)
        \/ \E echo \in BOOLEAN : PaymentSucceeds(s, echo)
        \/ OwnerCancels(s) \/ OwnerUncancels(s) \/ SubscriptionEnds(s)
        \/ ProviderRefreshes(s)
  BY DEF ProviderNext
<1>2. /\ sold[s] \in Sold
      /\ sold[s].state # "none" => checkouts[s] = "paid"
      /\ sold \in [SubIds -> Sold] /\ sent \in Seq(Event)
      /\ Len(sent) <= MaxEvents
  BY DEF IInv, BillingTypeOK, ProviderTrue
<1>3. \A kind :
        /\ KindOf(s, kind) \in {kind, "subscription_active", "subscription_past_due"}
        /\ s \in StripeSold =>
              KindOf(s, kind) \in {"subscription_active", "subscription_past_due"}
  BY DEF KindOf, StripeKind
<1>4. CASE OwnerPays(s)
  <2>1. [NotSold EXCEPT !.state = "active"] \in Sold
    BY DEF NotSold, Sold
  <2> QED
    BY <1>4, <2>1, ChangePreserves DEF OwnerPays
<1>5. CASE CheckoutExpires(s)
  <2>1. /\ checkouts[s] = "open"
        /\ checkouts' = [checkouts EXCEPT ![s] = "expired"]
        /\ UNCHANGED <<sold, sent, subs, installs, checkoutPc, seen, processed,
                       refused, refreshing, outdated>>
    BY <1>5 DEF CheckoutExpires, tableVars, webhookVars
  <2>2. \A e \in 1 .. Len(sent') : e \in Events /\ sent'[e] = sent[e]
    BY <2>1 DEF Events
  <2>3. Len(sent) <= Len(sent')
    BY <1>2, <2>1
  <2>4. MessagesTrue'
    <3>1. \A u \in SubIds : checkouts[u] = "paid" => checkouts'[u] = "paid"
      BY <2>1 DEF IInv, BillingTypeOK
    <3> QED
      BY <2>1, <3>1 DEF IInv, OpenTrue, MessagesTrue, Events
  <2> QED
    BY <1>2, <2>1, <2>2, <2>3, <2>4, ProviderMoves
<1>6. CASE PaymentFails(s)
  <2>1. /\ [sold[s] EXCEPT !.state = "past_due"] \in Sold
        /\ sold[s].kept => [sold[s] EXCEPT !.state = "past_due"].kept
        /\ checkouts[s] = "paid" /\ UNCHANGED checkouts
    BY <1>2, <1>6 DEF PaymentFails, Sold
  <2> QED
    BY <1>6, <2>1, ChangePreserves DEF PaymentFails
<1>7. ASSUME NEW echo \in BOOLEAN, PaymentSucceeds(s, echo) PROVE IInv'
  <2>1. /\ [sold[s] EXCEPT !.state = "active"] \in Sold
        /\ sold[s].kept => [sold[s] EXCEPT !.state = "active"].kept
        /\ checkouts[s] = "paid" /\ UNCHANGED checkouts
    BY <1>2, <1>7 DEF PaymentSucceeds, Sold
  <2> QED
    BY <1>7, <2>1, ChangePreserves DEF PaymentSucceeds
<1>8. CASE OwnerCancels(s)
  <2>1. /\ [sold[s] EXCEPT !.cancel = TRUE] \in Sold
        /\ sold[s].kept => [sold[s] EXCEPT !.cancel = TRUE].kept
        /\ checkouts[s] = "paid" /\ UNCHANGED checkouts
    BY <1>2, <1>8 DEF OwnerCancels, Sold
  <2> QED
    BY <1>3, <1>8, <2>1, ChangePreserves DEF OwnerCancels
<1>9. CASE OwnerUncancels(s)
  <2>1. /\ [sold[s] EXCEPT !.cancel = FALSE, !.kept = TRUE] \in Sold
        /\ [sold[s] EXCEPT !.cancel = FALSE, !.kept = TRUE].kept
        /\ checkouts[s] = "paid" /\ UNCHANGED checkouts
    BY <1>2, <1>9 DEF OwnerUncancels, Sold
  <2> QED
    BY <1>3, <1>9, <2>1, ChangePreserves DEF OwnerUncancels
<1>10. CASE SubscriptionEnds(s)
  <2>1. /\ [sold[s] EXCEPT !.state = "ended"] \in Sold
        /\ sold[s].kept => [sold[s] EXCEPT !.state = "ended"].kept
        /\ checkouts[s] = "paid" /\ UNCHANGED checkouts
    BY <1>2, <1>10 DEF SubscriptionEnds, Sold
  <2> QED
    BY <1>10, <2>1, ChangePreserves DEF SubscriptionEnds
<1>11. CASE ProviderRefreshes(s)
  <2>1. checkouts[s] = "paid" /\ UNCHANGED checkouts
    BY <1>2, <1>11 DEF ProviderRefreshes
  <2> QED
    BY <1>2, <1>3, <1>11, <2>1, ChangePreserves DEF ProviderRefreshes
<1> QED
  BY <1>1, <1>4, <1>5, <1>6, <1>7, <1>8, <1>9, <1>10, <1>11

-------------------------------------------------------------------------------
\* The checkout handlers

\* The reads of a handler choose a copy.
LEMMA SelectPreserves ==
    ASSUME IInv, NEW r \in Requests, NEW n \in Copies,
           NEW i \in InstIds \union {NoInst}, CheckoutSelect(r, n, i)
    PROVE  IInv'
<1> DEFINE new == [Idle EXCEPT !.step = "selected", !.copy = n, !.reserved = i]
<1>1. /\ checkoutPc' = [checkoutPc EXCEPT ![r] = new]
      /\ UNCHANGED <<subs, installs, seen, checkouts, sold, sent, processed,
                     refused, refreshing, outdated>>
  BY DEF CheckoutSelect, tableVars, providerVars, webhookVars
<1>2. new \in CheckoutPc /\ new.step = "selected" /\ new.copy = n
  <2>1. n \in 0 .. MaxCopies /\ Idle \in CheckoutPc
    BY StoreAssumption DEF Copies, Idle, CheckoutPc
  <2> DEFINE a == [Idle EXCEPT !.step = "selected"]
             b == [a EXCEPT !.copy = n]
  <2>2. a \in CheckoutPc /\ a.step = "selected"
    BY <2>1 DEF CheckoutPc
  <2> HIDE DEF a
  <2>3. b \in CheckoutPc /\ b.step = "selected" /\ b.copy = n
    BY <2>1, <2>2 DEF CheckoutPc
  <2> HIDE DEF b
  <2>4. LET d == [b EXCEPT !.reserved = i]
        IN  d \in CheckoutPc /\ d.step = "selected" /\ d.copy = n
    BY <2>3 DEF CheckoutPc
  <2> QED
    BY <2>4 DEF b, a
<1> HIDE DEF new
<1>3. checkoutPc \in [Requests -> CheckoutPc]
  BY DEF IInv, BillingTypeOK
<1>4. BillingTypeOK'
  BY <1>1, <1>2, <1>3 DEF IInv, BillingTypeOK, TablesTypeOK, Events
<1>5. ASSUME NEW q \in Requests PROVE HandlerTrue(q)'
  <2>1. HandlerTrue(q)
    BY DEF IInv
  <2> QED
    BY <1>1, <1>2, <1>3, <2>1 DEF HandlerTrue
<1>6. RowsContiguous' /\ ProviderTrue' /\ SeenTrue'
  BY <1>1 DEF IInv, RowsContiguous, ProviderTrue, SeenTrue, Events
<1>7. \A u \in SubIds : RowTrue(u)'
  BY <1>1 DEF IInv, RowTrue
<1>8. OpenTrue'
  BY <1>1, OpenStays
<1> QED
  BY <1>4, <1>5, <1>6, <1>7, <1>8 DEF IInv

\* A handler that leaves forgets its row.
LEMMA HandlerLeaves ==
    ASSUME IInv, NEW r \in Requests, checkoutPc' = [checkoutPc EXCEPT ![r] = Idle],
           \A q \in Requests :
               q # r /\ checkoutPc[q].step = "inserted" =>
                   subs'[checkoutPc[q].sub] = subs[checkoutPc[q].sub]
    PROVE  /\ checkoutPc' \in [Requests -> CheckoutPc]
           /\ \A q \in Requests : HandlerTrue(q)'
<1>1. checkoutPc \in [Requests -> CheckoutPc]
  BY DEF IInv, BillingTypeOK
<1>2. Idle \in CheckoutPc /\ Idle.step = "idle"
  BY StoreAssumption DEF Idle, CheckoutPc
<1>3. /\ checkoutPc'[r] = Idle
      /\ \A q \in Requests : q # r => checkoutPc'[q] = checkoutPc[q]
  BY <1>1
<1>4. ASSUME NEW q \in Requests PROVE HandlerTrue(q)'
  <2>1. HandlerTrue(q)
    BY DEF IInv
  <2>2. CASE q = r
    BY <1>2, <1>3, <2>2 DEF HandlerTrue
  <2>3. CASE q # r
    BY <1>2, <1>3, <2>1, <2>3 DEF HandlerTrue
  <2> QED
    BY <2>2, <2>3
<1> QED
  BY <1>1, <1>2, <1>4

\* The insertion writes a slot nobody wrote, and the row is the handler's own.
LEMMA InsertPreserves ==
    ASSUME IInv, NEW r \in Requests, CheckoutInsert(r)
    PROVE  IInv'
<1> DEFINE new == [NoSub EXCEPT !.state = "checkout_pending",
                                !.copy = checkoutPc[r].copy,
                                !.reserved = checkoutPc[r].reserved]
<1>1. PICK s \in SubIds : s = NextSub
  BY DEF CheckoutInsert
<1>2. /\ checkoutPc[r].step = "selected"
      /\ subs' = [subs EXCEPT ![s] = new]
      /\ checkoutPc' = [checkoutPc EXCEPT ![r].step = "inserted", ![r].sub = s]
      /\ UNCHANGED <<installs, seen, checkouts, sold, sent,
                     processed, refused, refreshing, outdated>>
  BY <1>1 DEF CheckoutInsert, Inserted, providerVars, webhookVars
<1>3. /\ subs \in [SubIds -> SubRow] /\ checkoutPc \in [Requests -> CheckoutPc]
      /\ checkoutPc[r] \in CheckoutPc
  BY DEF IInv, BillingTypeOK, TablesTypeOK
<1>4. /\ new \in SubRow /\ new.state = "checkout_pending"
      /\ ~new.checkout /\ ~new.linked /\ ~new.abandoned
      /\ ~new.cancelAt /\ ~new.stopped
  BY <1>3 DEF NoSub, SubRow, SubStates, CheckoutPc
<1> HIDE DEF new
<1>5. subs[s].state = "none" /\ checkouts[s] = "none"
  <2>1. subs[s].state = "none"
    BY <1>1, NextSlot DEF SubIds
  <2>2. RowTrue(s)
    BY DEF IInv
  <2> QED
    BY <2>1, <2>2 DEF RowTrue, NoSub
<1>6. /\ subs'[s] = new
      /\ \A u \in SubIds : u # s => subs'[u] = subs[u]
  BY <1>2, <1>3
<1>7. /\ checkoutPc'[r].step = "inserted" /\ checkoutPc'[r].sub = s
      /\ checkoutPc'[r] \in CheckoutPc
      /\ \A q \in Requests : q # r => checkoutPc'[q] = checkoutPc[q]
  <2> DEFINE pc == [checkoutPc[r] EXCEPT !.step = "inserted", !.sub = s]
  <2>1. pc \in CheckoutPc /\ pc.step = "inserted" /\ pc.sub = s
    <3>1. s \in 0 .. MaxSubs
      BY DEF SubIds
    <3> QED
      BY <1>3, <3>1 DEF CheckoutPc
  <2>2. checkoutPc' = [checkoutPc EXCEPT ![r] = pc]
    BY <1>2, <1>3
  <2> HIDE DEF pc
  <2> QED
    BY <1>3, <2>1, <2>2
<1>8. BillingTypeOK'
  <2>1. subs' \in [SubIds -> SubRow]
    BY <1>2, <1>3, <1>4
  <2>2. checkoutPc' \in [Requests -> CheckoutPc]
    BY <1>2, <1>3, <1>7
  <2> QED
    BY <1>2, <2>1, <2>2 DEF IInv, BillingTypeOK, TablesTypeOK, Events
<1>9. RowsContiguous'
  <2>1. NextSub \in 0 .. MaxSubs
    BY <1>1, StoreAssumption DEF SubIds
  <2>2. \A u \in SubIds : subs[u].state # "none" <=> u < NextSub
    BY NextSlot
  <2>3. \A u \in SubIds : subs'[u].state # "none" <=> u <= s
    BY <1>1, <1>4, <1>6, <2>1, <2>2 DEF SubIds
  <2> QED
    BY <1>1, <2>1, <2>3 DEF RowsContiguous
<1>10. ASSUME NEW u \in SubIds PROVE RowTrue(u)'
  <2>1. RowTrue(u)
    BY DEF IInv
  <2>2. CASE u = s
    BY <1>2, <1>4, <1>5, <1>6, <2>2 DEF RowTrue, Entitling
  <2>3. CASE u # s
    BY <1>2, <1>6, <2>1, <2>3 DEF RowTrue
  <2> QED
    BY <2>2, <2>3
<1>11. ASSUME NEW q \in Requests PROVE HandlerTrue(q)'
  <2>1. \A p \in Requests :
          p # r /\ checkoutPc[p].step = "inserted" =>
              /\ checkoutPc[p].sub \in SubIds /\ checkoutPc[p].sub # s
              /\ subs[checkoutPc[p].sub].state = "checkout_pending"
    BY <1>5 DEF IInv, HandlerTrue
  <2>2. HandlerTrue(q)
    BY DEF IInv
  <2>3. CASE q = r
    BY <1>4, <1>6, <1>7, <2>1, <2>3 DEF HandlerTrue
  <2>4. CASE q # r
    BY <1>6, <1>7, <2>1, <2>2, <2>4 DEF HandlerTrue
  <2> QED
    BY <2>3, <2>4
<1>12. ProviderTrue' /\ SeenTrue'
  BY <1>2 DEF IInv, ProviderTrue, SeenTrue, Events
<1>13. OpenTrue'
  <2>1. ~subs[s].linked
    BY <1>5 DEF IInv, RowTrue, NoSub
  <2> QED
    BY <1>2, <1>6, <2>1, OpenStays
<1> QED
  BY <1>8, <1>9, <1>10, <1>11, <1>12, <1>13 DEF IInv

\* The checkout is recorded on the row the handler inserted.
LEMMA RecordPreserves ==
    ASSUME IInv, NEW r \in Requests, CheckoutRecord(r)
    PROVE  IInv'
<1>1. PICK s \in SubIds : s = checkoutPc[r].sub
  BY HandlerRow DEF CheckoutRecord
<1> DEFINE new == [subs[s] EXCEPT !.checkout = TRUE]
<1>2. /\ checkoutPc[r].step = "inserted"
      /\ checkouts' = [checkouts EXCEPT ![s] = "open"]
      /\ subs' = [subs EXCEPT ![s] = new]
      /\ checkoutPc' = [checkoutPc EXCEPT ![r] = Idle]
      /\ UNCHANGED <<installs, seen, sold, sent,
                     processed, refused, refreshing, outdated>>
  BY <1>1 DEF CheckoutRecord, webhookVars
<1>3. /\ subs[s] \in SubRow /\ subs[s].state = "checkout_pending"
      /\ ~subs[s].linked /\ ~subs[s].abandoned
      /\ ~subs[s].cancelAt /\ ~subs[s].stopped
      /\ checkouts[s] = "none" /\ sold[s].state = "none"
  BY <1>1, <1>2, HandlerRow
<1>4. /\ new \in SubRow /\ new.state = "checkout_pending" /\ new.checkout
      /\ ~new.linked /\ ~new.abandoned /\ ~new.cancelAt /\ ~new.stopped
  BY <1>3 DEF SubRow
<1> HIDE DEF new
<1>5. /\ subs \in [SubIds -> SubRow]
      /\ checkouts \in [SubIds -> {"none", "open", "paid", "expired"}]
  BY DEF IInv, BillingTypeOK, TablesTypeOK
<1>6. /\ subs'[s] = new /\ checkouts'[s] = "open"
      /\ \A u \in SubIds : u # s => /\ subs'[u] = subs[u]
                                    /\ checkouts'[u] = checkouts[u]
      /\ \A u \in SubIds : checkouts[u] = "paid" => checkouts'[u] = "paid"
  BY <1>2, <1>3, <1>5
<1>7. /\ checkoutPc' \in [Requests -> CheckoutPc]
      /\ \A q \in Requests : HandlerTrue(q)'
  <2>1. \A q \in Requests :
          q # r /\ checkoutPc[q].step = "inserted" =>
              subs'[checkoutPc[q].sub] = subs[checkoutPc[q].sub]
    BY <1>1, <1>2, <1>6 DEF IInv, HandlerTrue
  <2> QED
    BY <1>2, <2>1, HandlerLeaves
<1>8. BillingTypeOK'
  <2>1. subs' \in [SubIds -> SubRow]
    BY <1>2, <1>4, <1>5
  <2>2. checkouts' \in [SubIds -> {"none", "open", "paid", "expired"}]
    BY <1>2, <1>5
  <2> QED
    BY <1>2, <1>7, <2>1, <2>2 DEF IInv, BillingTypeOK, TablesTypeOK, Events
<1>9. RowsContiguous'
  <2>1. \A u \in SubIds : subs'[u].state # "none" <=> subs[u].state # "none"
    BY <1>3, <1>4, <1>6
  <2> QED
    BY <2>1 DEF IInv, RowsContiguous
<1>10. ASSUME NEW u \in SubIds PROVE RowTrue(u)'
  <2>1. RowTrue(u)
    BY DEF IInv
  <2>2. CASE u = s
    BY <1>4, <1>6, <2>2 DEF RowTrue, Entitling
  <2>3. CASE u # s
    BY <1>2, <1>6, <2>1, <2>3 DEF RowTrue
  <2> QED
    BY <2>2, <2>3
<1>11. ProviderTrue'
  <2>1. \A e \in Events : sent[e].sub \in SubIds
    BY MessageTyped DEF IInv
  <2> QED
    BY <1>2, <1>6, <2>1 DEF IInv, ProviderTrue, Events
<1>12. SeenTrue'
  BY <1>2, <1>6 DEF IInv, SeenTrue
<1>13. OpenTrue'
  BY <1>2, <1>3, <1>6, OpenStays
<1> QED
  BY <1>7, <1>8, <1>9, <1>10, <1>11, <1>12, <1>13 DEF IInv

\* An attempt the provider refused is closed; a handler that stops leaves its
\* row as it is.
LEMMA AbortPreserves ==
    ASSUME IInv, NEW r \in Requests, CheckoutAbort(r) \/ CheckoutStop(r)
    PROVE  IInv'
<1>1. /\ checkoutPc' = [checkoutPc EXCEPT ![r] = Idle]
      /\ UNCHANGED <<installs, seen, checkouts, sold, sent,
                     processed, refused, refreshing, outdated>>
  BY DEF CheckoutAbort, CheckoutStop, tableVars, providerVars, webhookVars
<1>2. subs \in [SubIds -> SubRow]
  BY DEF IInv, BillingTypeOK, TablesTypeOK
<1>3. ProviderTrue' /\ SeenTrue'
  BY <1>1 DEF IInv, ProviderTrue, SeenTrue, Events
<1>4. CASE UNCHANGED subs
  <2>1. /\ checkoutPc' \in [Requests -> CheckoutPc]
        /\ \A q \in Requests : HandlerTrue(q)'
    BY <1>1, <1>4, HandlerLeaves
  <2>2. BillingTypeOK'
    BY <1>1, <1>4, <2>1 DEF IInv, BillingTypeOK, TablesTypeOK, Events
  <2>3. RowsContiguous' /\ \A u \in SubIds : RowTrue(u)'
    BY <1>1, <1>4 DEF IInv, RowsContiguous, RowTrue
  <2>4. OpenTrue'
    BY <1>1, <1>4, OpenStays
  <2> QED
    BY <1>3, <2>1, <2>2, <2>3, <2>4 DEF IInv
<1>5. CASE ~UNCHANGED subs
  <2>1. checkoutPc[r].step = "inserted" /\ CheckoutAbort(r)
    BY <1>5 DEF CheckoutAbort, CheckoutStop, tableVars
  <2>2. PICK s \in SubIds : s = checkoutPc[r].sub
    BY <2>1, HandlerRow
  <2> DEFINE new == [subs[s] EXCEPT !.state = "cancelled", !.stopped = TRUE]
  <2>3. subs' = [subs EXCEPT ![s] = new]
    BY <1>5, <2>1, <2>2 DEF CheckoutAbort
  <2>4. /\ subs[s] \in SubRow /\ subs[s].state = "checkout_pending"
        /\ ~subs[s].checkout /\ ~subs[s].linked /\ ~subs[s].abandoned
        /\ ~subs[s].cancelAt /\ checkouts[s] = "none"
    BY <2>1, <2>2, HandlerRow
  <2>5. /\ new \in SubRow /\ new.state = "cancelled" /\ new.stopped
        /\ ~new.checkout /\ ~new.linked /\ ~new.abandoned /\ ~new.cancelAt
    BY <2>4 DEF SubRow, SubStates
  <2> HIDE DEF new
  <2>6. /\ subs'[s] = new
        /\ \A u \in SubIds : u # s => subs'[u] = subs[u]
    BY <1>2, <2>3
  <2>7. /\ checkoutPc' \in [Requests -> CheckoutPc]
        /\ \A q \in Requests : HandlerTrue(q)'
    <3>1. \A q \in Requests :
            q # r /\ checkoutPc[q].step = "inserted" =>
                subs'[checkoutPc[q].sub] = subs[checkoutPc[q].sub]
      BY <2>1, <2>2, <2>6 DEF IInv, HandlerTrue
    <3> QED
      BY <1>1, <3>1, HandlerLeaves
  <2>8. BillingTypeOK'
    <3>1. subs' \in [SubIds -> SubRow]
      BY <1>2, <2>3, <2>5
    <3> QED
      BY <1>1, <2>7, <3>1 DEF IInv, BillingTypeOK, TablesTypeOK, Events
  <2>9. RowsContiguous'
    <3>1. \A u \in SubIds : subs'[u].state # "none" <=> subs[u].state # "none"
      BY <2>4, <2>5, <2>6
    <3> QED
      BY <3>1 DEF IInv, RowsContiguous
  <2>10. ASSUME NEW u \in SubIds PROVE RowTrue(u)'
    <3>1. RowTrue(u)
      BY DEF IInv
    <3>2. CASE u = s
      BY <1>1, <2>4, <2>5, <2>6, <3>2 DEF RowTrue, Entitling
    <3>3. CASE u # s
      BY <1>1, <2>6, <3>1, <3>3 DEF RowTrue
    <3> QED
      BY <3>2, <3>3
  <2>11. OpenTrue'
    BY <1>1, <2>4, <2>6, OpenStays
  <2> QED
    BY <1>3, <2>7, <2>8, <2>9, <2>10, <2>11 DEF IInv
<1> QED
  BY <1>4, <1>5

LEMMA CheckoutPreserves ==
    ASSUME IInv, CheckoutNext
    PROVE  IInv'
  BY SelectPreserves, InsertPreserves, RecordPreserves, AbortPreserves
  DEF CheckoutNext

-------------------------------------------------------------------------------
\* The theorems

LEMMA InitInv == BillingInit => IInv
<1> SUFFICES ASSUME BillingInit PROVE IInv
  OBVIOUS
<1> USE DEF BillingInit, TablesInit
<1>1. BillingTypeOK
  <2>1. /\ subs \in [SubIds -> SubRow] /\ installs \in [InstIds -> InstRow]
    BY StoreAssumption
    DEF NoSub, SubRow, SubStates, NoInstRow, InstRow, InstStates, MirrorStates
  <2>2. /\ checkoutPc \in [Requests -> CheckoutPc]
        /\ seen \in [Reconcilers -> View]
    BY StoreAssumption DEF Idle, CheckoutPc, Nothing, View
  <2>3. /\ checkouts \in [SubIds -> {"none", "open", "paid", "expired"}]
        /\ sold \in [SubIds -> Sold]
    BY DEF NotSold, Sold
  <2>4. sent \in Seq(Event) /\ Len(sent) <= MaxEvents
    BY BillingAssumption
  <2>5. refreshing \in [EventIds -> SubStates]
    BY DEF SubStates
  <2> QED
    BY <2>1, <2>2, <2>3, <2>4, <2>5 DEF BillingTypeOK, TablesTypeOK
<1>2. RowsContiguous
  <2>1. \A s \in SubIds : subs[s].state # "none" <=> s <= 0
    BY StoreAssumption DEF NoSub, SubIds
  <2>2. 0 \in 0 .. MaxSubs
    BY StoreAssumption
  <2> QED
    BY <2>1, <2>2 DEF RowsContiguous
<1>3. \A s \in SubIds : RowTrue(s)
  BY DEF RowTrue, NoSub, Entitling
<1>4. ProviderTrue /\ SeenTrue
  BY DEF ProviderTrue, SeenTrue, NotSold, Events
<1>5. \A r \in Requests : HandlerTrue(r)
  BY DEF HandlerTrue, Idle
<1>6. OpenTrue
  BY DEF OpenTrue, MessagesTrue, RefreshTrue, OutdatedTrue, NotSold, Events
<1> QED
  BY <1>1, <1>2, <1>3, <1>4, <1>5, <1>6 DEF IInv

LEMMA StepInv == IInv /\ [BillingNext]_<<installs, billingVars>> => IInv'
<1> SUFFICES ASSUME IInv, [BillingNext]_<<installs, billingVars>> PROVE IInv'
  OBVIOUS
<1>1. CASE BillingNext
  BY <1>1, CheckoutPreserves, ProviderPreserves, WebhookPreserves,
     ReconcilePreserves
  DEF BillingNext
<1>2. CASE UNCHANGED <<installs, billingVars>>
  <2>1. UNCHANGED <<subs, installs, checkoutPc, seen, checkouts, sold, sent,
                    processed, refused, refreshing, outdated>>
    BY <1>2 DEF billingVars, providerVars, webhookVars
  <2>2. BillingTypeOK'
    BY <2>1 DEF IInv, BillingTypeOK, TablesTypeOK, Events
  <2>3. RowsContiguous' /\ ProviderTrue' /\ SeenTrue'
    BY <2>1 DEF IInv, RowsContiguous, ProviderTrue, SeenTrue, Events
  <2>4. /\ \A s \in SubIds : RowTrue(s)'
        /\ \A r \in Requests : HandlerTrue(r)'
    BY <2>1 DEF IInv, RowTrue, HandlerTrue
  <2>5. OpenTrue'
    BY <2>1, OpenStays
  <2> QED
    BY <2>2, <2>3, <2>4, <2>5 DEF IInv
<1> QED
  BY <1>1, <1>2

\* Billing keeps its inductive invariant.
THEOREM BillingInvariance == BillingSpec => []IInv
<1> QED
  BY InitInv, StepInv, PTL DEF BillingSpec

\* Type correctness: no handler, webhook or reconciliation leaves a row, a
\* handler or the provider in a state the code does not name.
THEOREM BillingTypeCorrect == BillingSpec => []BillingTypeOK
<1>1. IInv => BillingTypeOK
  BY DEF IInv
<1> QED
  BY <1>1, BillingInvariance, PTL

\* A copy is entitled only by a payment for that very checkout.
THEOREM PaidCopies == BillingSpec => []EntitledOnlyIfPaid
<1>1. IInv => EntitledOnlyIfPaid
  BY DEF IInv, RowTrue, EntitledOnlyIfPaid
<1> QED
  BY <1>1, BillingInvariance, PTL

LEMMA InvariantDates == IInv => DatesAgree
<1> SUFFICES ASSUME IInv PROVE DatesAgree
  OBVIOUS
<1>1. \A s \in SubIds : RowTrue(s)
  BY DEF IInv
<1>2. \A s \in outdated : sold[s].kept /\ ~InOrder
  BY DEF IInv, OpenTrue, OutdatedTrue
<1> QED
  BY <1>1, <1>2 DEF RowTrue, DatesAgree

\* The dates the box polls agree with the state beside them.  An end date can
\* be beside a running state, and only where a refresh wrote it after the
\* owner had taken the cancellation back: Polar's messages must have
\* overtaken each other for that.
THEOREM TrueDates == BillingSpec => []DatesAgree
  BY InvariantDates, BillingInvariance, PTL

\* A row that is over and was not merely abandoned stays over.
EndedStays ==
    \A s \in SubIds : subs[s].state = "cancelled" /\ ~subs[s].abandoned =>
        subs'[s].state = "cancelled"

\* No handler, message or reconciliation finds a row to revive.
LEMMA StepEnded ==
    ASSUME IInv, [BillingNext]_<<installs, billingVars>>
    PROVE  EndedStays
<1> SUFFICES ASSUME NEW s \in SubIds, subs[s].state = "cancelled",
                    ~subs[s].abandoned, ~UNCHANGED subs
             PROVE  subs'[s].state = "cancelled"
  BY DEF EndedStays
<1>1. /\ subs \in [SubIds -> SubRow] /\ RowTrue(s)
      /\ checkoutPc \in [Requests -> CheckoutPc]
  BY DEF IInv, BillingTypeOK, TablesTypeOK
<1>2. ASSUME NEW r \in Requests, CheckoutInsert(r)
      PROVE  subs'[s].state = "cancelled"
  <2>1. NextSub \in SubIds /\ subs[NextSub].state = "none"
    BY <1>2, NextSlot DEF CheckoutInsert, SubIds
  <2>2. subs'[s] = subs[s]
    BY <1>1, <1>2, <2>1 DEF CheckoutInsert, Inserted
  <2> QED
    BY <2>2
<1>3. ASSUME NEW r \in Requests, CheckoutRecord(r) \/ CheckoutAbort(r)
      PROVE  subs'[s].state = "cancelled"
  <2>1. checkoutPc[r].sub \in SubIds /\ checkoutPc[r].sub # s
    BY <1>3, HandlerRow DEF CheckoutRecord, CheckoutAbort
  <2>2. subs'[s] = subs[s]
    BY <1>1, <1>3, <2>1 DEF CheckoutRecord, CheckoutAbort
  <2> QED
    BY <2>2
<1>4. ASSUME NEW e \in Events, WebhookActivates(e)
      PROVE  subs'[s].state = "cancelled"
  <2>1. Activatable(subs[sent[e].sub]) /\ sent[e].sub \in SubIds
    BY <1>4, MessageTyped DEF WebhookActivates, Activates, IInv
  <2>2. sent[e].sub # s
    BY <2>1 DEF Activatable
  <2> QED
    BY <1>1, <1>4, <2>1, <2>2 DEF WebhookActivates, Activation
<1>5. ASSUME NEW e \in Events, WebhookMarks(e)
      PROVE  subs'[s].state = "cancelled"
  <2>1. subs[sent[e].sub].state \in LeavesFrom(TransitionOf(e))
    BY <1>5 DEF WebhookMarks, Marks, Markable
  <2>2. sent[e].kind # "subscription_refresh" /\ sent[e] \in Event /\ sent[e].sub \in SubIds
    BY <1>5, MessageTyped DEF IInv, WebhookMarks, Marks
  <2>3. TransitionOf(e) \in Transitions
    BY <2>2 DEF Event, TransitionOf, Transitions
  <2>4. sent[e].sub # s
    BY <2>1, <2>3 DEF LeavesFrom, Transitions
  <2> QED
    BY <1>1, <1>5, <2>2, <2>4 DEF WebhookMarks, MarksRow
<1>6. ASSUME NEW e \in Events, RefreshDates(e) \/ RefreshMarks(e)
      PROVE  subs'[s].state = "cancelled"
  <2>1. sent[e].sub \in SubIds
    BY MessageTyped DEF IInv
  <2>2. CASE RefreshDates(e)
    BY <1>1, <2>1, <2>2 DEF RefreshDates
  <2>3. CASE RefreshMarks(e)
    <3>1. sent[e].sub # s
      BY <2>3 DEF RefreshMarks, RefreshTransition, Markable, LeavesFrom
    <3> QED
      BY <1>1, <2>1, <2>3, <3>1 DEF RefreshMarks, MarksRow
  <2> QED
    BY <1>6, <2>2, <2>3
<1>7. ASSUME NEW c \in Reconcilers, ReconcileApply(c)
      PROVE  subs'[s].state = "cancelled"
  <2>1. seen[c].sub \in SubIds
    BY <1>7 DEF ReconcileApply, IInv, SeenTrue
  <2>2. CASE seen[c].sub = s
    BY <1>7, <2>2 DEF ReconcileApply, Reconcilable
  <2>3. CASE seen[c].sub # s
    BY <1>1, <1>7, <2>1, <2>3 DEF ReconcileApply
  <2> QED
    BY <2>2, <2>3
<1>8. BillingNext
  BY DEF billingVars
<1>9. ~ProviderNext
  BY DEF ProviderNext, OwnerPays, CheckoutExpires, PaymentFails,
         PaymentSucceeds, OwnerCancels, OwnerUncancels, SubscriptionEnds,
         ProviderRefreshes, Changes, tableVars
<1>10. CASE CheckoutNext
  BY <1>2, <1>3, <1>10
  DEF CheckoutNext, CheckoutSelect, CheckoutStop, tableVars
<1>11. CASE WebhookNext
  BY <1>4, <1>5, <1>6, <1>11
  DEF WebhookNext, WebhookRefused, WebhookIgnored, RefreshRead, RefreshEnds,
      RefreshStops, tableVars
<1>12. CASE ReconcileNext
  BY <1>7, <1>12 DEF ReconcileNext, ReconcileRead, ReconcileStop, tableVars
<1> QED
  BY <1>8, <1>9, <1>10, <1>11, <1>12 DEF BillingNext

\* What is over stays over, whatever message arrives late.
THEOREM OverIsOver == BillingSpec => NoResurrection
<1>1. IInv /\ [BillingNext]_<<installs, billingVars>> => [EndedStays]_subs
  BY StepEnded
<1> QED
  BY <1>1, BillingInvariance, PTL DEF BillingSpec, NoResurrection, EndedStays

-------------------------------------------------------------------------------
\* Agreement with the provider

EventsOf(s) == {e \in Events : sent[e].sub = s}
Heard(s) == EventsOf(s) \cap processed

Polar(s) == s \notin StripeSold
PaymentEvent(e) == sent[e].kind = "subscription_active" /\ sent[e].echo
EndEvent(e) == sent[e].kind = "subscription_ended"
CancelEvent(e) == sent[e].kind = "subscription_cancel_scheduled"
KeepEvent(e) == sent[e].kind = "subscription_uncancelled"

\* Among these messages there is a decision of the owner about the end of the
\* period, and the last one is to cancel.
Decides(E) == \E d \in E : CancelEvent(d) \/ KeepEvent(d)
Wants(E) == \E d \in E : CancelEvent(d) /\ \A e \in E : e > d => ~KeepEvent(e)

\* The provider's messages tell its story: a payment first, an end if and only
\* if there is one, and (Polar) the last decision of the owner.
ToldTrue(s) ==
    /\ checkouts[s] = "paid" =>
          \E e \in EventsOf(s) : PaymentEvent(e) /\ \A d \in EventsOf(s) : e <= d
    /\ sold[s].state = "ended" <=> \E e \in EventsOf(s) : EndEvent(e)
    /\ Polar(s) => (sold[s].cancel <=> Wants(EventsOf(s)))

\* A row is over only because its subscription is, and a reconciler writes a
\* cancellation only if one was made.
RowAgrees(s) ==
    LET row == subs[s] IN
    /\ row.state = "cancelled" /\ row.checkout /\ ~row.abandoned => row.linked
    /\ row.state = "cancelled" /\ row.linked => sold[s].state = "ended"
    /\ Polar(s) /\ row.state = "cancel_at_period_end" => Decides(EventsOf(s))
    /\ \A c \in Reconcilers :
          Polar(s) /\ seen[c] # Nothing /\ seen[c].sub = s
            /\ seen[c].outcome = "cancelling" => Decides(EventsOf(s))

\* What was heard of a subscription has been done: Polar's messages in the
\* order they were sent, Stripe's because its route insists.
HeardDone(s) ==
    LET row == subs[s] IN
    /\ InOrder /\ Polar(s) =>
          /\ \A e \in Heard(s), d \in EventsOf(s) : d < e => d \in processed
          /\ Heard(s) # {} => row.linked
          /\ Decides(Heard(s)) /\ row.state # "cancelled" =>
                (row.state = "cancel_at_period_end" <=> Wants(Heard(s)))
    /\ ~Polar(s) => \A e \in Heard(s) : PaymentEvent(e) \/ EndEvent(e) => row.linked
    /\ InOrder \/ ~Polar(s) =>
          \A e \in Heard(s) : EndEvent(e) => row.state = "cancelled"

AgreeInv == \A s \in SubIds : ToldTrue(s) /\ RowAgrees(s) /\ HeardDone(s)

\* A step that sends nothing and delivers nothing of this row keeps the
\* agreement when it leaves the row alone, or when the row is not linked and
\* stays out of a cancellation of the provider.
LEMMA AgreeRow ==
    ASSUME IInv, AgreeInv, NEW s \in SubIds,
           UNCHANGED <<sent, sold>>,
           checkouts'[s] = "paid" => checkouts[s] = "paid",
           processed \subseteq processed', Heard(s)' = Heard(s),
           \A c \in Reconcilers :
               Polar(s) /\ seen'[c] # Nothing /\ seen'[c].sub = s
                 /\ seen'[c].outcome = "cancelling" => Decides(EventsOf(s)),
           \/ /\ subs'[s].state = subs[s].state
              /\ subs'[s].linked = subs[s].linked
              /\ subs'[s].checkout = subs[s].checkout
              /\ subs'[s].abandoned = subs[s].abandoned
           \/ /\ ~subs[s].linked
              /\ subs'[s].state = "cancelled" =>
                    ~subs'[s].linked /\ (~subs'[s].checkout \/ subs'[s].abandoned)
              /\ Polar(s) /\ subs'[s].state = "cancel_at_period_end" =>
                    Decides(EventsOf(s))
    PROVE  ToldTrue(s)' /\ RowAgrees(s)' /\ HeardDone(s)'
<1>1. EventsOf(s)' = EventsOf(s)
  BY DEF EventsOf, Events
<1>2. \A e : /\ PaymentEvent(e)' <=> PaymentEvent(e)
             /\ EndEvent(e)' <=> EndEvent(e)
             /\ CancelEvent(e)' <=> CancelEvent(e)
             /\ KeepEvent(e)' <=> KeepEvent(e)
  BY DEF PaymentEvent, EndEvent, CancelEvent, KeepEvent
<1>3. /\ Decides(EventsOf(s))' <=> Decides(EventsOf(s))
      /\ Wants(EventsOf(s))' <=> Wants(EventsOf(s))
      /\ Decides(Heard(s))' <=> Decides(Heard(s))
      /\ Wants(Heard(s))' <=> Wants(Heard(s))
  BY <1>1, <1>2 DEF Decides, Wants
<1>4. ToldTrue(s) /\ RowAgrees(s) /\ HeardDone(s)
  BY DEF AgreeInv
<1>5. ToldTrue(s)'
  BY <1>1, <1>2, <1>3, <1>4 DEF ToldTrue
<1>6. RowAgrees(s)'
  BY <1>1, <1>3, <1>4 DEF RowAgrees
<1>7. HeardDone(s)'
  <2>1. CASE /\ subs'[s].state = subs[s].state
             /\ subs'[s].linked = subs[s].linked
    BY <1>1, <1>2, <1>3, <1>4, <2>1 DEF HeardDone
  <2>2. CASE ~subs[s].linked
    <3>1. InOrder /\ Polar(s) => Heard(s) = {}
      BY <1>4, <2>2 DEF HeardDone
    <3>2. ~Polar(s) => \A e \in Heard(s) : ~PaymentEvent(e) /\ ~EndEvent(e)
      BY <1>4, <2>2 DEF HeardDone
    <3>3. InOrder /\ Polar(s) => ~Decides(Heard(s))
      BY <3>1 DEF Decides
    <3> QED
      BY <1>2, <1>3, <3>1, <3>2, <3>3 DEF HeardDone
  <2> QED
    BY <2>1, <2>2
<1> QED
  BY <1>5, <1>6, <1>7

\* The handlers and the reconciler write only rows that are not linked yet.
LEMMA StoreStepAgrees ==
    ASSUME IInv, AgreeInv, CheckoutNext \/ ReconcileNext
    PROVE  AgreeInv'
<1> SUFFICES ASSUME NEW s \in SubIds
             PROVE  ToldTrue(s)' /\ RowAgrees(s)' /\ HeardDone(s)'
  BY DEF AgreeInv
<1>1. /\ subs \in [SubIds -> SubRow] /\ RowTrue(s)
      /\ checkouts \in [SubIds -> {"none", "open", "paid", "expired"}]
      /\ seen \in [Reconcilers -> View]
      /\ ToldTrue(s) /\ RowAgrees(s)
  BY DEF IInv, AgreeInv, BillingTypeOK, TablesTypeOK
<1>2. UNCHANGED <<sent, sold, processed>>
  BY DEF CheckoutNext, CheckoutSelect, CheckoutInsert, CheckoutRecord,
         CheckoutAbort, CheckoutStop, ReconcileNext, ReconcileRead,
         ReconcileApply, ReconcileStop, providerVars, webhookVars
<1>3. Heard(s)' = Heard(s)
  BY <1>2 DEF Heard, EventsOf, Events
<1>4. checkouts'[s] = "paid" => checkouts[s] = "paid"
  <2>1. ASSUME NEW r \in Requests, CheckoutRecord(r)
        PROVE  checkouts'[s] = "paid" => checkouts[s] = "paid"
    BY <1>1, <2>1, HandlerRow DEF CheckoutRecord
  <2> QED
    BY <2>1
    DEF CheckoutNext, CheckoutSelect, CheckoutInsert,
        CheckoutAbort, CheckoutStop, ReconcileNext, ReconcileRead,
        ReconcileApply, ReconcileStop, providerVars
<1>5. ASSUME NEW c \in Reconcilers, Polar(s), seen'[c] # Nothing,
             seen'[c].sub = s, seen'[c].outcome = "cancelling"
      PROVE  Decides(EventsOf(s))
  <2>1. CASE seen'[c] = seen[c]
    BY <1>1, <1>5, <2>1 DEF RowAgrees
  <2>2. CASE \E u \in SubIds : ReconcileRead(c, u)
    <3>1. seen'[c] = [sub |-> s, outcome |-> OutcomeOf(s)]
      BY <1>1, <1>5, <2>2 DEF ReconcileRead
    <3>2. OutcomeOf(s) = "cancelling"
      BY <1>5, <3>1
    <3>3. sold[s].cancel
      BY <1>5, <3>2 DEF OutcomeOf, Polar, PolarOutcome
    <3> QED
      BY <1>1, <1>5, <3>3 DEF ToldTrue, Wants, Decides
  <2>3. seen'[c] = seen[c] \/ (\E u \in SubIds : ReconcileRead(c, u))
    BY <1>1, <1>5
    DEF CheckoutNext, CheckoutSelect, CheckoutInsert, CheckoutRecord,
        CheckoutAbort, CheckoutStop, ReconcileNext, ReconcileRead,
        ReconcileApply, ReconcileStop
  <2> QED
    BY <2>1, <2>2, <2>3
<1>6. \/ /\ subs'[s].state = subs[s].state
         /\ subs'[s].linked = subs[s].linked
         /\ subs'[s].checkout = subs[s].checkout
         /\ subs'[s].abandoned = subs[s].abandoned
      \/ /\ ~subs[s].linked
         /\ subs'[s].state = "cancelled" =>
               ~subs'[s].linked /\ (~subs'[s].checkout \/ subs'[s].abandoned)
         /\ Polar(s) /\ subs'[s].state = "cancel_at_period_end" =>
               Decides(EventsOf(s))
  <2> DEFINE Goal == \/ /\ subs'[s].state = subs[s].state
                        /\ subs'[s].linked = subs[s].linked
                        /\ subs'[s].checkout = subs[s].checkout
                        /\ subs'[s].abandoned = subs[s].abandoned
                     \/ /\ ~subs[s].linked
                        /\ subs'[s].state = "cancelled" =>
                              /\ ~subs'[s].linked
                              /\ ~subs'[s].checkout \/ subs'[s].abandoned
                        /\ Polar(s) /\ subs'[s].state = "cancel_at_period_end" =>
                              Decides(EventsOf(s))
  <2>1. ASSUME NEW r \in Requests, CheckoutInsert(r) PROVE Goal
    <3>1. NextSub \in SubIds /\ subs[NextSub].state = "none"
      BY <2>1, NextSlot DEF CheckoutInsert, SubIds
    <3>2. CASE s = NextSub
      <4>1. subs'[s].state = "checkout_pending"
        BY <1>1, <2>1, <3>1, <3>2 DEF CheckoutInsert, Inserted, NoSub
      <4>2. ~subs[s].linked
        BY <1>1, <3>1, <3>2 DEF RowTrue, NoSub
      <4> QED
        BY <4>1, <4>2
    <3>3. CASE s # NextSub
      BY <1>1, <2>1, <3>1, <3>3 DEF CheckoutInsert, Inserted
    <3> QED
      BY <3>2, <3>3
  <2>2. ASSUME NEW r \in Requests, CheckoutRecord(r) \/ CheckoutAbort(r) PROVE Goal
    <3>1. checkoutPc[r].step = "inserted"
      BY <2>2 DEF CheckoutRecord, CheckoutAbort
    <3>2. CASE s = checkoutPc[r].sub
      <4>1. /\ subs[s] \in SubRow /\ subs[s].state = "checkout_pending"
            /\ ~subs[s].checkout /\ ~subs[s].linked
        BY <3>1, <3>2, HandlerRow
      <4>2. \/ subs'[s] = [subs[s] EXCEPT !.checkout = TRUE]
            \/ subs'[s] = [subs[s] EXCEPT !.state = "cancelled", !.stopped = TRUE]
            \/ subs'[s] = subs[s]
        BY <1>1, <2>2, <3>2 DEF CheckoutRecord, CheckoutAbort
      <4> QED
        BY <4>1, <4>2 DEF SubRow
    <3>3. CASE s # checkoutPc[r].sub
      BY <1>1, <2>2, <3>3 DEF CheckoutRecord, CheckoutAbort
    <3> QED
      BY <3>2, <3>3
  <2>3. ASSUME NEW c \in Reconcilers, ReconcileApply(c) PROVE Goal
    <3>1. CASE seen[c].sub = s /\ Reconcilable(subs[s])
      <4>1. subs'[s] = Reconciled(subs[s], seen[c].outcome)
        BY <1>1, <2>3, <3>1 DEF ReconcileApply
      <4>2. subs[s] \in SubRow /\ ~subs[s].linked
        BY <1>1, <3>1 DEF Reconcilable, RowTrue
      <4>3. CASE seen[c].outcome = "abandoned"
        <5>1. ~subs'[s].linked /\ subs'[s].abandoned /\ subs'[s].state = "cancelled"
          BY <4>1, <4>2, <4>3 DEF Reconciled, SubRow
        <5> QED
          BY <4>2, <5>1
      <4>4. CASE seen[c].outcome # "abandoned"
        <5>1. /\ subs'[s].state # "cancelled"
              /\ subs'[s].state = "cancel_at_period_end" =>
                    seen[c].outcome = "cancelling"
          BY <4>1, <4>2, <4>4 DEF Reconciled, SubRow
        <5>2. Polar(s) /\ subs'[s].state = "cancel_at_period_end" =>
                 Decides(EventsOf(s))
          BY <1>1, <2>3, <3>1, <5>1 DEF RowAgrees, ReconcileApply
        <5> QED
          BY <4>2, <5>1, <5>2
      <4> QED
        BY <4>3, <4>4
    <3>2. CASE ~(seen[c].sub = s /\ Reconcilable(subs[s]))
      BY <1>1, <2>3, <3>2 DEF ReconcileApply
    <3> QED
      BY <3>1, <3>2
  <2>4. \/ \E r \in Requests :
              CheckoutInsert(r) \/ CheckoutRecord(r) \/ CheckoutAbort(r)
        \/ \E c \in Reconcilers : ReconcileApply(c)
        \/ subs'[s] = subs[s]
    BY DEF CheckoutNext, CheckoutSelect, CheckoutStop, ReconcileNext,
           ReconcileRead, ReconcileStop, tableVars
  <2> HIDE DEF Goal
  <2>5. Goal
    <3>1. CASE subs'[s] = subs[s]
      BY <3>1 DEF Goal
    <3> QED
      BY <2>1, <2>2, <2>3, <2>4, <3>1
  <2> QED
    BY <2>5 DEF Goal
<1> QED
  BY <1>2, <1>3, <1>4, <1>5, <1>6, AgreeRow

\* A message sent is the newest of its subscription, and nobody heard it yet.
LEMMA SendAgrees ==
    ASSUME IInv, AgreeInv, NEW s \in SubIds, NEW new \in Sold, NEW kind,
           NEW echo \in BOOLEAN, Changes(s, new, kind, echo),
           sold[s].state # "ended",
           new.state = "ended" <=> kind = "subscription_ended",
           \/ /\ checkouts[s] = "open"
              /\ checkouts' = [checkouts EXCEPT ![s] = "paid"]
              /\ kind = "subscription_active" /\ echo /\ ~new.cancel
           \/ checkouts[s] = "paid" /\ UNCHANGED checkouts,
           Polar(s) =>
              /\ kind = "subscription_cancel_scheduled" => new.cancel
              /\ kind = "subscription_uncancelled" => ~new.cancel
              /\ kind \notin {"subscription_cancel_scheduled",
                              "subscription_uncancelled"}
                   /\ checkouts[s] = "paid" => new.cancel = sold[s].cancel
    PROVE  AgreeInv'
<1>0. PICK n \in Nat : n = Len(sent) + 1
  BY DEF IInv, BillingTypeOK
<1> DEFINE m == Message(kind, s, echo)
<1>1. /\ sent \in Seq(Event) /\ Len(sent) \in Nat
      /\ sold \in [SubIds -> Sold] /\ processed \subseteq Events
      /\ checkouts \in [SubIds -> {"none", "open", "paid", "expired"}]
  BY DEF IInv, BillingTypeOK
<1>2. /\ sent' = Append(sent, m) /\ sold' = [sold EXCEPT ![s] = new]
      /\ UNCHANGED <<subs, seen, processed>>
  BY DEF Changes, tableVars, webhookVars
<1>3. m.sub = s /\ m.kind = kind /\ m.echo = echo
  BY DEF Message
<1> HIDE DEF m
<1>4. /\ Events' = Events \union {n} /\ n \notin Events
      /\ \A e \in Events : e < n /\ e \in Nat
      /\ \A e \in Events : sent'[e] = sent[e]
      /\ sent'[n] = m
  BY <1>0, <1>1, <1>2 DEF Events
<1>5. /\ EventsOf(s)' = EventsOf(s) \union {n}
      /\ \A u \in SubIds : u # s => EventsOf(u)' = EventsOf(u)
      /\ \A u \in SubIds : Heard(u)' = Heard(u)
  <2>1. \A u \in SubIds :
          EventsOf(u)' = {e \in Events \union {n} : sent'[e].sub = u}
    BY <1>4 DEF EventsOf
  <2>2. EventsOf(s)' = EventsOf(s) \union {n}
    BY <1>3, <1>4, <2>1 DEF EventsOf
  <2>3. ASSUME NEW u \in SubIds, u # s PROVE EventsOf(u)' = EventsOf(u)
    BY <1>3, <1>4, <2>1, <2>3 DEF EventsOf
  <2>4. n \notin processed /\ processed' = processed
    BY <1>1, <1>2, <1>4
  <2>5. \A u \in SubIds : Heard(u)' = EventsOf(u)' \cap processed
    BY <2>4 DEF Heard
  <2> QED
    BY <2>2, <2>3, <2>4, <2>5 DEF Heard
<1>6. /\ \A e \in Events : /\ PaymentEvent(e)' <=> PaymentEvent(e)
                           /\ EndEvent(e)' <=> EndEvent(e)
                           /\ CancelEvent(e)' <=> CancelEvent(e)
                           /\ KeepEvent(e)' <=> KeepEvent(e)
      /\ PaymentEvent(n)' <=> kind = "subscription_active" /\ echo
      /\ EndEvent(n)' <=> kind = "subscription_ended"
      /\ CancelEvent(n)' <=> kind = "subscription_cancel_scheduled"
      /\ KeepEvent(n)' <=> kind = "subscription_uncancelled"
  BY <1>3, <1>4 DEF PaymentEvent, EndEvent, CancelEvent, KeepEvent
<1>7. \A u \in SubIds : EventsOf(u) \subseteq Events /\ Heard(u) \subseteq Events
  BY DEF EventsOf, Heard
<1>8. ASSUME NEW u \in SubIds
      PROVE  /\ Decides(Heard(u))' <=> Decides(Heard(u))
             /\ Wants(Heard(u))' <=> Wants(Heard(u))
             /\ Decides(EventsOf(u)) => Decides(EventsOf(u))'
  BY <1>5, <1>6, <1>7 DEF Decides, Wants
<1>9. ASSUME NEW u \in SubIds PROVE HeardDone(u)'
  <2>1. HeardDone(u)
    BY DEF AgreeInv
  <2>2. \A e \in Heard(u), d \in EventsOf(u)' : d < e => d \in EventsOf(u)
    BY <1>4, <1>5, <1>7
  <2>3. \A e \in Heard(u) : /\ PaymentEvent(e)' <=> PaymentEvent(e)
                            /\ EndEvent(e)' <=> EndEvent(e)
    BY <1>6, <1>7
  <2> QED
    BY <1>2, <1>5, <1>8, <2>1, <2>2, <2>3 DEF HeardDone
<1>10. ASSUME NEW u \in SubIds PROVE RowAgrees(u)'
  <2>1. RowAgrees(u)
    BY DEF AgreeInv
  <2>2. sold[u].state = "ended" => sold'[u] = sold[u]
    BY <1>1, <1>2
  <2> QED
    BY <1>2, <1>8, <2>1, <2>2 DEF RowAgrees
<1>11. ASSUME NEW u \in SubIds, u # s PROVE ToldTrue(u)'
  <2>1. ToldTrue(u)
    BY DEF AgreeInv
  <2>2. sold'[u] = sold[u] /\ checkouts'[u] = checkouts[u]
    BY <1>1, <1>2, <1>11
  <2>3. \A e \in EventsOf(u) : /\ PaymentEvent(e)' <=> PaymentEvent(e)
                               /\ EndEvent(e)' <=> EndEvent(e)
                               /\ CancelEvent(e)' <=> CancelEvent(e)
                               /\ KeepEvent(e)' <=> KeepEvent(e)
    BY <1>6, <1>7
  <2>4. EventsOf(u)' = EventsOf(u)
    BY <1>5, <1>11
  <2>5. Wants(EventsOf(u))' <=> Wants(EventsOf(u))
    BY <2>3, <2>4 DEF Wants
  <2> QED
    BY <2>1, <2>2, <2>3, <2>4, <2>5 DEF ToldTrue
<1>12. ToldTrue(s)'
  <2>1. ToldTrue(s)
    BY DEF AgreeInv
  <2>2. sold'[s] = new
    BY <1>1, <1>2
  <2>3. checkouts[s] = "open" => EventsOf(s) = {}
    BY <1>1 DEF IInv, ProviderTrue, EventsOf
  <2>4. \E e \in EventsOf(s)' : PaymentEvent(e)' /\ \A d \in EventsOf(s)' : e <= d
    <3>1. CASE checkouts[s] = "open"
      <4>1. EventsOf(s)' = {n} /\ PaymentEvent(n)' /\ n <= n
        BY <1>1, <1>5, <1>6, <2>3, <3>1
      <4> QED
        BY <4>1
    <3>2. CASE checkouts[s] # "open"
      <4>1. PICK e \in EventsOf(s) :
              PaymentEvent(e) /\ \A d \in EventsOf(s) : e <= d
        BY <2>1, <3>2 DEF ToldTrue
      <4>2. e \in EventsOf(s)' /\ PaymentEvent(e)' /\ e <= n
        BY <1>1, <1>4, <1>5, <1>6, <1>7, <4>1
      <4>3. \A d \in EventsOf(s)' : e <= d
        BY <1>5, <4>1, <4>2
      <4> QED
        BY <4>2, <4>3
    <3> QED
      BY <3>1, <3>2
  <2>5. sold'[s].state = "ended" <=> \E e \in EventsOf(s)' : EndEvent(e)'
    <3>1. \A e \in EventsOf(s) : ~EndEvent(e) /\ ~EndEvent(e)'
      BY <1>6, <1>7, <2>1 DEF ToldTrue
    <3> QED
      BY <1>5, <1>6, <2>2, <3>1
  <2>6. Polar(s) => (sold'[s].cancel <=> Wants(EventsOf(s))')
    <3> SUFFICES ASSUME Polar(s) PROVE sold'[s].cancel <=> Wants(EventsOf(s))'
      OBVIOUS
    <3>1. CASE kind = "subscription_cancel_scheduled"
      <4>1. \A e \in EventsOf(s)' : ~(e > n)
        BY <1>1, <1>4, <1>5, <1>7
      <4> QED
        BY <1>5, <1>6, <2>2, <3>1, <4>1 DEF Wants
    <3>2. CASE kind = "subscription_uncancelled"
      <4>1. \A d \in EventsOf(s)' : CancelEvent(d)' => d \in Events /\ n > d
        BY <1>1, <1>4, <1>5, <1>6, <1>7, <3>2
      <4> QED
        BY <1>5, <1>6, <2>2, <3>2, <4>1 DEF Wants
    <3>3. CASE kind \notin {"subscription_cancel_scheduled",
                            "subscription_uncancelled"}
      <4>1. ~CancelEvent(n)' /\ ~KeepEvent(n)'
        BY <1>6, <3>3
      <4>2. \A e \in EventsOf(s) : /\ CancelEvent(e)' <=> CancelEvent(e)
                                   /\ KeepEvent(e)' <=> KeepEvent(e)
        BY <1>6, <1>7
      <4>3. Wants(EventsOf(s))' <=> Wants(EventsOf(s))
        BY <1>5, <4>1, <4>2 DEF Wants
      <4>4. CASE checkouts[s] = "open"
        BY <2>2, <2>3, <3>3, <4>3, <4>4 DEF Wants
      <4>5. CASE checkouts[s] # "open"
        BY <2>1, <2>2, <3>3, <4>3, <4>5 DEF ToldTrue
      <4> QED
        BY <4>4, <4>5
    <3> QED
      BY <3>1, <3>2, <3>3
  <2> QED
    BY <2>4, <2>5, <2>6 DEF ToldTrue
<1> QED
  BY <1>9, <1>10, <1>11, <1>12 DEF AgreeInv

\* Whatever the provider does, its messages tell of it.
LEMMA ProviderStepAgrees ==
    ASSUME IInv, AgreeInv, ProviderNext
    PROVE  AgreeInv'
<1>1. PICK s \in SubIds :
        \/ OwnerPays(s) \/ CheckoutExpires(s) \/ PaymentFails(s)
        \/ \E echo \in BOOLEAN : PaymentSucceeds(s, echo)
        \/ OwnerCancels(s) \/ OwnerUncancels(s) \/ SubscriptionEnds(s)
        \/ ProviderRefreshes(s)
  BY DEF ProviderNext
<1>2. /\ sold[s] \in Sold
      /\ sold[s].state # "none" => checkouts[s] = "paid"
      /\ checkouts \in [SubIds -> {"none", "open", "paid", "expired"}]
      /\ seen \in [Reconcilers -> View]
  BY DEF IInv, BillingTypeOK, ProviderTrue
<1>3. /\ Polar(s) => \A kind : KindOf(s, kind) = kind
      /\ ~Polar(s) => \A kind : KindOf(s, kind) \in
            {"subscription_active", "subscription_past_due"}
  BY DEF KindOf, StripeKind, Polar
<1>4. CASE OwnerPays(s)
  <2> DEFINE new == [NotSold EXCEPT !.state = "active"]
  <2>1. new \in Sold /\ new.state = "active" /\ ~new.cancel
    BY DEF NotSold, Sold
  <2>2. sold[s].state # "ended" /\ checkouts[s] = "open"
    BY <1>2, <1>4 DEF OwnerPays
  <2> HIDE DEF new
  <2>3. /\ checkouts' = [checkouts EXCEPT ![s] = "paid"]
        /\ Changes(s, new, "subscription_active", TRUE)
    BY <1>4 DEF OwnerPays, new
  <2> QED
    BY <2>1, <2>2, <2>3, SendAgrees
<1>5. CASE CheckoutExpires(s)
  <2> SUFFICES ASSUME NEW u \in SubIds
               PROVE  ToldTrue(u)' /\ RowAgrees(u)' /\ HeardDone(u)'
    BY DEF AgreeInv
  <2>1. /\ checkouts' = [checkouts EXCEPT ![s] = "expired"]
        /\ UNCHANGED <<sold, sent, subs, seen, processed>>
    BY <1>5 DEF CheckoutExpires, tableVars, webhookVars
  <2>2. checkouts'[u] = "paid" => checkouts[u] = "paid"
    BY <1>2, <2>1
  <2>3. Heard(u)' = Heard(u)
    BY <2>1 DEF Heard, EventsOf, Events
  <2>4. RowAgrees(u)
    BY DEF AgreeInv
  <2> QED
    BY <2>1, <2>2, <2>3, <2>4, AgreeRow DEF RowAgrees
<1>6. CASE PaymentFails(s)
  <2> DEFINE new == [sold[s] EXCEPT !.state = "past_due"]
  <2>1. new \in Sold /\ new.state = "past_due" /\ new.cancel = sold[s].cancel
    BY <1>2 DEF Sold
  <2> HIDE DEF new
  <2>2. /\ sold[s].state # "ended" /\ checkouts[s] = "paid" /\ UNCHANGED checkouts
        /\ Changes(s, new, "subscription_past_due", FALSE)
    BY <1>2, <1>6 DEF PaymentFails, new
  <2> QED
    BY <2>1, <2>2, SendAgrees
<1>7. ASSUME NEW echo \in BOOLEAN, PaymentSucceeds(s, echo) PROVE AgreeInv'
  <2> DEFINE new == [sold[s] EXCEPT !.state = "active"]
  <2>1. new \in Sold /\ new.state = "active" /\ new.cancel = sold[s].cancel
    BY <1>2 DEF Sold
  <2> HIDE DEF new
  <2>2. /\ sold[s].state # "ended" /\ checkouts[s] = "paid" /\ UNCHANGED checkouts
        /\ Changes(s, new, "subscription_active", echo)
    BY <1>2, <1>7 DEF PaymentSucceeds, new
  <2> QED
    BY <2>1, <2>2, SendAgrees
<1>8. CASE OwnerCancels(s)
  <2> DEFINE new == [sold[s] EXCEPT !.cancel = TRUE]
             kind == KindOf(s, "subscription_cancel_scheduled")
  <2>1. new \in Sold /\ new.state = sold[s].state /\ new.cancel
    BY <1>2 DEF Sold
  <2>2. /\ kind # "subscription_ended"
        /\ Polar(s) => kind = "subscription_cancel_scheduled"
    BY <1>3
  <2> HIDE DEF new, kind
  <2>3. /\ sold[s].state # "ended" /\ checkouts[s] = "paid" /\ UNCHANGED checkouts
        /\ Changes(s, new, kind, FALSE)
    BY <1>2, <1>8 DEF OwnerCancels, new, kind
  <2> QED
    BY <2>1, <2>2, <2>3, SendAgrees
<1>9. CASE OwnerUncancels(s)
  <2> DEFINE new == [sold[s] EXCEPT !.cancel = FALSE, !.kept = TRUE]
             kind == KindOf(s, "subscription_uncancelled")
  <2>1. new \in Sold /\ new.state = sold[s].state /\ ~new.cancel
    BY <1>2 DEF Sold
  <2>2. /\ kind # "subscription_ended"
        /\ Polar(s) => kind = "subscription_uncancelled"
    BY <1>3
  <2> HIDE DEF new, kind
  <2>3. /\ sold[s].state # "ended" /\ checkouts[s] = "paid" /\ UNCHANGED checkouts
        /\ Changes(s, new, kind, FALSE)
    BY <1>2, <1>9 DEF OwnerUncancels, new, kind
  <2> QED
    BY <2>1, <2>2, <2>3, SendAgrees
<1>10. CASE SubscriptionEnds(s)
  <2> DEFINE new == [sold[s] EXCEPT !.state = "ended"]
  <2>1. new \in Sold /\ new.state = "ended" /\ new.cancel = sold[s].cancel
    BY <1>2 DEF Sold
  <2> HIDE DEF new
  <2>2. /\ sold[s].state # "ended" /\ checkouts[s] = "paid" /\ UNCHANGED checkouts
        /\ Changes(s, new, "subscription_ended", FALSE)
    BY <1>2, <1>10 DEF SubscriptionEnds, new
  <2> QED
    BY <2>1, <2>2, SendAgrees
<1>11. CASE ProviderRefreshes(s)
  <2> DEFINE new == sold[s]
             kind == KindOf(s, "subscription_refresh")
  <2>1. new \in Sold /\ new.cancel = sold[s].cancel
    BY <1>2
  <2>2. /\ kind # "subscription_ended"
        /\ Polar(s) => kind = "subscription_refresh"
    BY <1>3
  <2> HIDE DEF kind
  <2>3. /\ sold[s].state # "ended" /\ checkouts[s] = "paid" /\ UNCHANGED checkouts
        /\ Changes(s, new, kind, FALSE)
    BY <1>2, <1>11 DEF ProviderRefreshes, kind
  <2> HIDE DEF new
  <2>4. new.state # "ended"
    BY <2>3 DEF new
  <2> QED
    BY <2>1, <2>2, <2>3, <2>4, SendAgrees
<1> QED
  BY <1>1, <1>4, <1>5, <1>6, <1>7, <1>8, <1>9, <1>10, <1>11

\* A subscription that is not linked yet has only its payment to hear of.
LEMMA PaymentFirst ==
    ASSUME IInv, AgreeInv, NEW e \in Events, NEW s \in SubIds, sent[e].sub = s,
           Delivered(e), InOrder, Polar(s), ~subs[s].linked
    PROVE  PaymentEvent(e)
<1>1. e \in EventsOf(s) /\ checkouts[s] = "paid"
  BY DEF EventsOf, IInv, ProviderTrue
<1>2. PICK f \in EventsOf(s) : PaymentEvent(f) /\ \A d \in EventsOf(s) : f <= d
  BY <1>1 DEF AgreeInv, ToldTrue
<1>3. f <= e /\ f \in Events /\ sent[f].sub = s
  BY <1>1, <1>2 DEF EventsOf
<1>4. Heard(s) = {}
  BY DEF AgreeInv, HeardDone
<1>5. CASE f < e
  <2>1. f \in 1 .. e - 1
    BY <1>3, <1>5 DEF Events
  <2>2. f \in processed
    BY <1>3, <2>1 DEF Delivered, Polar
  <2> QED
    BY <1>2, <1>4, <2>2 DEF Heard
<1>6. CASE ~(f < e)
  <2>1. f = e
    BY <1>3, <1>6 DEF Events
  <2> QED
    BY <1>2, <2>1
<1> QED
  BY <1>5, <1>6

\* One more message is heard, and what it asks for is done.
LEMMA HearAgrees ==
    ASSUME IInv, AgreeInv, NEW e \in Events, NEW s \in SubIds, sent[e].sub = s,
           Delivered(e), Recorded(e),
           subs[s].linked => subs'[s].linked,
           InOrder /\ Polar(s) => subs'[s].linked,
           ~Polar(s) /\ (PaymentEvent(e) \/ EndEvent(e)) => subs'[s].linked,
           EndEvent(e) /\ (InOrder \/ ~Polar(s)) => subs'[s].state = "cancelled",
           subs'[s].state = "cancelled" /\ subs'[s].checkout
             /\ ~subs'[s].abandoned => subs'[s].linked,
           subs'[s].state = "cancelled" /\ subs'[s].linked =>
               sold[s].state = "ended",
           subs[s].state = "cancelled" /\ subs[s].linked =>
               subs'[s].state = "cancelled",
           subs'[s].state = "cancel_at_period_end" =>
               subs[s].state = "cancel_at_period_end" \/ CancelEvent(e),
           subs[s].linked /\ subs'[s].state # "cancelled" =>
              /\ CancelEvent(e) => subs'[s].state = "cancel_at_period_end"
              /\ KeepEvent(e) => subs'[s].state # "cancel_at_period_end"
              /\ ~CancelEvent(e) /\ ~KeepEvent(e) =>
                    (subs'[s].state = "cancel_at_period_end"
                       <=> subs[s].state = "cancel_at_period_end")
    PROVE  ToldTrue(s)' /\ RowAgrees(s)' /\ HeardDone(s)'
<1>1. /\ processed' = processed \union {e} /\ e \notin processed
      /\ UNCHANGED <<checkouts, sold, sent, seen>>
  BY DEF Recorded, Delivered, AlreadyRecorded, providerVars
<1>2. /\ EventsOf(s)' = EventsOf(s) /\ e \in EventsOf(s)
      /\ EventsOf(s) \subseteq Events
  BY <1>1 DEF EventsOf, Events
<1>3. Heard(s)' = Heard(s) \union {e} /\ Heard(s) \subseteq EventsOf(s)
  <2>1. Heard(s)' = EventsOf(s)' \cap processed'
    BY DEF Heard
  <2> QED
    BY <1>1, <1>2, <2>1 DEF Heard
<1>4. \A d : /\ PaymentEvent(d)' <=> PaymentEvent(d)
             /\ EndEvent(d)' <=> EndEvent(d)
             /\ CancelEvent(d)' <=> CancelEvent(d)
             /\ KeepEvent(d)' <=> KeepEvent(d)
  BY <1>1 DEF PaymentEvent, EndEvent, CancelEvent, KeepEvent
<1>5. /\ Decides(EventsOf(s))' <=> Decides(EventsOf(s))
      /\ Wants(EventsOf(s))' <=> Wants(EventsOf(s))
  BY <1>2, <1>4 DEF Decides, Wants
<1>6. ToldTrue(s) /\ RowAgrees(s) /\ HeardDone(s)
  BY DEF AgreeInv
<1>7. ToldTrue(s)'
  BY <1>1, <1>2, <1>4, <1>5, <1>6 DEF ToldTrue
<1>8. RowAgrees(s)'
  <2>1. CancelEvent(e) => Decides(EventsOf(s))
    BY <1>2 DEF Decides
  <2> QED
    BY <1>1, <1>5, <1>6, <2>1 DEF RowAgrees
<1>9. ASSUME InOrder, Polar(s)
      PROVE  /\ \A f \in Heard(s)', d \in EventsOf(s)' : d < f => d \in processed'
             /\ Decides(Heard(s))' /\ subs'[s].state # "cancelled" =>
                   (subs'[s].state = "cancel_at_period_end" <=> Wants(Heard(s))')
  <2>1. \A d \in EventsOf(s) : d < e => d \in processed
    <3> SUFFICES ASSUME NEW d \in EventsOf(s), d < e PROVE d \in processed
      OBVIOUS
    <3>1. d \in 1 .. e - 1 /\ sent[d].sub = sent[e].sub
      BY <1>2 DEF EventsOf, Events
    <3> QED
      BY <1>9, <3>1 DEF Delivered, Polar
  <2>2. \A f \in Heard(s), d \in EventsOf(s) : d < f => d \in processed
    BY <1>6, <1>9 DEF HeardDone
  <2>3. \A f \in Heard(s) : f < e
    <3> SUFFICES ASSUME NEW f \in Heard(s) PROVE f < e
      OBVIOUS
    <3>1. f \in Events /\ e \in Events /\ f # e
      BY <1>1, <1>2, <1>3 DEF Heard
    <3>2. ~(e < f)
      BY <1>1, <1>2, <2>2
    <3> QED
      BY <3>1, <3>2 DEF Events
  <2>4. ~(e < e)
    BY <1>2 DEF Events
  <2>5. ASSUME Decides(Heard(s))', subs'[s].state # "cancelled"
        PROVE  subs'[s].state = "cancel_at_period_end" <=> Wants(Heard(s))'
    <3>1. CASE CancelEvent(e)
      <4>1. subs[s].linked
        BY <1>9, <3>1, PaymentFirst DEF PaymentEvent, CancelEvent
      <4>2. \A f \in Heard(s)' : ~(f > e)
        BY <1>2, <1>3, <2>3, <2>4 DEF Events
      <4> QED
        BY <1>3, <1>4, <2>5, <3>1, <4>1, <4>2 DEF Wants
    <3>2. CASE KeepEvent(e)
      <4>1. subs[s].linked
        BY <1>9, <3>2, PaymentFirst DEF PaymentEvent, KeepEvent
      <4>2. ~CancelEvent(e)
        BY <3>2 DEF CancelEvent, KeepEvent
      <4>3. \A d \in Heard(s) : e > d
        BY <1>2, <1>3, <2>3 DEF Events
      <4>4. ~Wants(Heard(s))'
        BY <1>3, <1>4, <3>2, <4>2, <4>3 DEF Wants
      <4> QED
        BY <2>5, <3>2, <4>1, <4>4
    <3>3. CASE ~CancelEvent(e) /\ ~KeepEvent(e)
      <4>1. Decides(Heard(s))
        BY <1>3, <1>4, <2>5, <3>3 DEF Decides
      <4>2. subs[s].linked
        BY <1>6, <1>9, <4>1 DEF HeardDone, Decides
      <4>3. subs[s].state # "cancelled"
        BY <2>5, <4>2
      <4>4. subs[s].state = "cancel_at_period_end" <=> Wants(Heard(s))
        BY <1>6, <1>9, <4>1, <4>3 DEF HeardDone
      <4>5. Wants(Heard(s))' <=> Wants(Heard(s))
        BY <1>3, <1>4, <3>3 DEF Wants
      <4> QED
        BY <2>5, <3>3, <4>2, <4>4, <4>5
    <3> QED
      BY <3>1, <3>2, <3>3
  <2>6. \A f \in Heard(s)', d \in EventsOf(s)' : d < f => d \in processed'
    BY <1>1, <1>2, <1>3, <2>1, <2>2
  <2> QED
    BY <2>5, <2>6
<1>10. ASSUME ~Polar(s), NEW f \in Heard(s)', PaymentEvent(f) \/ EndEvent(f)
       PROVE  subs'[s].linked
  BY <1>3, <1>6, <1>10 DEF HeardDone
<1>11. ASSUME InOrder \/ ~Polar(s), NEW f \in Heard(s)', EndEvent(f)
       PROVE  subs'[s].state = "cancelled"
  <2>1. CASE f = e
    BY <1>11, <2>1
  <2>2. CASE f \in Heard(s)
    <3>1. subs[s].state = "cancelled"
      BY <1>6, <1>11, <2>2 DEF HeardDone
    <3>2. subs[s].linked
      BY <1>6, <1>11, <2>2 DEF HeardDone
    <3> QED
      BY <3>1, <3>2
  <2> QED
    BY <1>3, <2>1, <2>2
<1>12. HeardDone(s)'
  BY <1>4, <1>9, <1>10, <1>11 DEF HeardDone
<1> QED
  BY <1>7, <1>8, <1>12

\* Of the row a message names: what every delivery finds.
LEMMA NamedRow ==
    ASSUME IInv, NEW e \in Events, NEW s \in SubIds, sent[e].sub = s
    PROVE  /\ sent[e] \in Event /\ subs[s] \in SubRow /\ RowTrue(s)
           /\ subs \in [SubIds -> SubRow]
           /\ checkouts[s] = "paid" /\ subs[s].checkout /\ subs[s].state # "none"
<1>1. /\ sent[e] \in Event /\ subs[s] \in SubRow /\ RowTrue(s)
      /\ subs \in [SubIds -> SubRow] /\ checkouts[s] = "paid"
  BY MessageTyped DEF IInv, BillingTypeOK, TablesTypeOK, ProviderTrue
<1>2. subs[s].checkout
  BY <1>1 DEF RowTrue
<1>3. subs[s].state # "none"
  BY <1>1, <1>2 DEF RowTrue, NoSub
<1> QED
  BY <1>1, <1>2, <1>3

LEMMA ActivateAgrees ==
    ASSUME IInv, AgreeInv, NEW e \in Events, NEW s \in SubIds, sent[e].sub = s,
           WebhookActivates(e)
    PROVE  ToldTrue(s)' /\ RowAgrees(s)' /\ HeardDone(s)'
<1>1. /\ subs[s] \in SubRow /\ RowTrue(s) /\ subs \in [SubIds -> SubRow]
  BY NamedRow
<1>2. /\ Delivered(e) /\ Recorded(e) /\ PaymentEvent(e)
      /\ Activatable(subs[s]) /\ subs' = [subs EXCEPT ![s] = Activated(subs[s])]
  BY DEF WebhookActivates, Activates, Activation, PaymentEvent
<1>3. subs'[s].state = "active" /\ subs'[s].linked
  BY <1>1, <1>2 DEF Activated, SubRow
<1>4. /\ subs[s].state # "cancel_at_period_end"
      /\ ~(subs[s].state = "cancelled" /\ subs[s].linked)
  BY <1>1, <1>2 DEF Activatable, RowTrue
<1>5. ~EndEvent(e) /\ ~CancelEvent(e) /\ ~KeepEvent(e)
  BY <1>2 DEF PaymentEvent, EndEvent, CancelEvent, KeepEvent
<1> QED
  BY <1>2, <1>3, <1>4, <1>5, HearAgrees

LEMMA MarkAgrees ==
    ASSUME IInv, AgreeInv, NEW e \in Events, NEW s \in SubIds, sent[e].sub = s,
           WebhookMarks(e)
    PROVE  ToldTrue(s)' /\ RowAgrees(s)' /\ HeardDone(s)'
<1> DEFINE tr == TransitionOf(e)
<1>1. /\ sent[e] \in Event /\ subs[s] \in SubRow
      /\ subs \in [SubIds -> SubRow]
  BY NamedRow
<1>2. /\ Delivered(e) /\ Recorded(e) /\ subs[s].linked
      /\ subs[s].state \in LeavesFrom(tr)
      /\ sent[e].kind # "subscription_refresh"
      /\ subs' = [subs EXCEPT ![s] = Marked(subs[s], tr)]
  BY DEF WebhookMarks, Marks, Markable, MarksRow
<1>3. /\ tr \in Transitions
      /\ tr = "cancelled" <=> EndEvent(e)
      /\ tr = "cancel_at_period_end" <=> CancelEvent(e)
      /\ tr = "uncancelled" <=> KeepEvent(e)
  BY <1>1, <1>2
  DEF Event, TransitionOf, Transitions, EndEvent, CancelEvent, KeepEvent
<1> HIDE DEF tr
<1>4. subs'[s].state = StateAfter(tr) /\ subs'[s].linked
  BY <1>1, <1>2 DEF Marked, SubRow
<1>5. /\ subs[s].state # "cancelled"
      /\ subs'[s].state = "cancelled" <=> EndEvent(e)
      /\ subs'[s].state = "cancel_at_period_end" <=> CancelEvent(e)
      /\ tr \in {"past_due", "active"} =>
            subs[s].state # "cancel_at_period_end"
  BY <1>2, <1>3, <1>4 DEF LeavesFrom, StateAfter, Transitions, SubStates
<1>6. EndEvent(e) => sold[s].state = "ended"
  <2>1. e \in EventsOf(s)
    BY DEF EventsOf
  <2> QED
    BY <2>1 DEF AgreeInv, ToldTrue
<1>7. ~CancelEvent(e) /\ ~KeepEvent(e) /\ subs'[s].state # "cancelled" =>
         tr \in {"past_due", "active"}
  BY <1>3, <1>5 DEF Transitions
<1>8. KeepEvent(e) => ~CancelEvent(e)
  BY DEF KeepEvent, CancelEvent
<1> QED
  BY <1>2, <1>4, <1>5, <1>6, <1>7, <1>8, HearAgrees

\* Neither a date nor a payment state a refresh writes decides anything.
LEMMA RefreshAgrees ==
    ASSUME IInv, AgreeInv, NEW e \in Events, NEW s \in SubIds, sent[e].sub = s,
           RefreshDates(e) \/ RefreshMarks(e) \/ RefreshEnds(e)
    PROVE  ToldTrue(s)' /\ RowAgrees(s)' /\ HeardDone(s)'
<1>1. subs[s] \in SubRow /\ subs \in [SubIds -> SubRow]
  BY NamedRow
<1>2. refreshing[e] # "none" /\ Recorded(e)
  BY DEF RefreshDates, RefreshMarks, RefreshEnds, RefreshTransition
<1>3. e \in EventIds
  BY BillingAssumption DEF IInv, BillingTypeOK, Events, EventIds
<1>4. /\ Delivered(e) /\ sent[e].kind = "subscription_refresh"
      /\ subs[s].linked
  BY <1>2, <1>3, OpenDelivered
<1>5. ~PaymentEvent(e) /\ ~EndEvent(e) /\ ~CancelEvent(e) /\ ~KeepEvent(e)
  BY <1>4 DEF PaymentEvent, EndEvent, CancelEvent, KeepEvent
<1>6. /\ subs'[s].linked
      /\ \/ subs'[s].state = subs[s].state
         \/ subs[s].state \in {"active", "past_due"}
              /\ subs'[s].state \in {"active", "past_due"}
  <2>1. CASE RefreshMarks(e)
    <3> DEFINE tr == RefreshTransition(e)
    <3>1. /\ tr \in {"active", "past_due"} /\ subs[s].state \in LeavesFrom(tr)
          /\ subs' = [subs EXCEPT ![s] = Marked(subs[s], tr)]
      BY <2>1 DEF RefreshMarks, RefreshTransition, Markable, MarksRow
    <3> HIDE DEF tr
    <3>2. subs'[s].state = tr /\ subs'[s].linked
      BY <1>1, <1>4, <3>1 DEF Marked, StateAfter, SubRow
    <3> QED
      BY <3>1, <3>2 DEF LeavesFrom
  <2>2. CASE RefreshDates(e)
    BY <1>1, <1>4, <2>2 DEF RefreshDates, SubRow
  <2>3. CASE RefreshEnds(e)
    BY <1>4, <2>3 DEF RefreshEnds, tableVars
  <2> QED
    BY <2>1, <2>2, <2>3
<1>7. RowAgrees(s)
  BY DEF AgreeInv
<1> QED
  BY <1>2, <1>4, <1>5, <1>6, <1>7, HearAgrees DEF RowAgrees

\* A message that asks for nothing the row has not done already.
LEMMA IgnoreAgrees ==
    ASSUME IInv, AgreeInv, NEW e \in Events, NEW s \in SubIds, sent[e].sub = s,
           WebhookIgnored(e)
    PROVE  ToldTrue(s)' /\ RowAgrees(s)' /\ HeardDone(s)'
<1>1. /\ sent[e] \in Event /\ subs[s] \in SubRow /\ RowTrue(s)
      /\ subs[s].checkout /\ subs[s].state # "none"
  BY NamedRow
<1>2. /\ Delivered(e) /\ Recorded(e) /\ UNCHANGED subs
      /\ ~Activates(e) /\ ~Marks(e) /\ ~MustApply(e)
  BY DEF WebhookIgnored, Applies, tableVars
<1>3. RowAgrees(s)
  BY DEF AgreeInv
<1>4. PaymentEvent(e) => subs[s].linked
  <2> SUFFICES ASSUME PaymentEvent(e), ~subs[s].linked PROVE FALSE
    OBVIOUS
  <2>1. ~Activatable(subs[s])
    BY <1>2 DEF Activates, PaymentEvent
  <2>2. subs[s].state \in {"cancel_at_period_end", "cancelled"} /\ ~subs[s].abandoned
    BY <1>1, <2>1 DEF Activatable, SubRow, SubStates
  <2> QED
    BY <1>1, <1>3, <2>2 DEF RowTrue, RowAgrees, Entitling
<1>5. InOrder /\ Polar(s) => subs[s].linked
  BY <1>2, <1>4, PaymentFirst
<1>6. ~Polar(s) => ~PaymentEvent(e) /\ ~EndEvent(e)
  BY <1>2 DEF MustApply, Polar, PaymentEvent, EndEvent
<1>7. EndEvent(e) /\ subs[s].linked => subs[s].state = "cancelled"
  BY <1>1, <1>2
  DEF EndEvent, Marks, Markable, TransitionOf, LeavesFrom, SubRow, SubStates
<1>8. CancelEvent(e) /\ subs[s].linked => subs[s].state = "cancelled"
  <2> SUFFICES ASSUME CancelEvent(e), subs[s].linked
               PROVE  subs[s].state = "cancelled"
    OBVIOUS
  <2>1. subs[s].state \notin {"active", "past_due", "cancel_at_period_end"}
    BY <1>2 DEF CancelEvent, Marks, Markable, TransitionOf, LeavesFrom
  <2> QED
    BY <1>1, <2>1 DEF SubRow, SubStates, RowTrue
<1>9. KeepEvent(e) /\ subs[s].linked => subs[s].state # "cancel_at_period_end"
  BY <1>2 DEF KeepEvent, Marks, Markable, TransitionOf, LeavesFrom
<1> QED
  BY <1>2, <1>3, <1>5, <1>6, <1>7, <1>8, <1>9, HearAgrees DEF RowAgrees

LEMMA WebhookStepAgrees ==
    ASSUME IInv, AgreeInv, WebhookNext
    PROVE  AgreeInv'
<1> SUFFICES ASSUME NEW u \in SubIds
             PROVE  ToldTrue(u)' /\ RowAgrees(u)' /\ HeardDone(u)'
  BY DEF AgreeInv
<1>1. PICK e \in Events :
        \/ WebhookActivates(e) \/ WebhookRefused(e) \/ WebhookMarks(e)
        \/ WebhookIgnored(e) \/ RefreshRead(e) \/ RefreshDates(e)
        \/ RefreshMarks(e) \/ RefreshEnds(e) \/ RefreshStops(e)
  BY DEF WebhookNext
<1>2. PICK s \in SubIds : s = sent[e].sub
  BY MessageTyped DEF IInv
<1>3. /\ UNCHANGED <<checkouts, sold, sent, seen>>
      /\ processed \subseteq processed' /\ processed' \subseteq processed \union {e}
      /\ subs \in [SubIds -> SubRow]
  BY <1>1 DEF WebhookActivates, WebhookRefused, WebhookMarks, WebhookIgnored,
              RefreshRead, RefreshDates, RefreshMarks, RefreshEnds,
              RefreshStops, Recorded, providerVars, IInv, BillingTypeOK,
              TablesTypeOK
<1>4. RowAgrees(u)
  BY DEF AgreeInv
<1>5. EventsOf(u)' = EventsOf(u)
  BY <1>3 DEF EventsOf, Events
<1> DEFINE Silent == WebhookRefused(e) \/ RefreshRead(e) \/ RefreshStops(e)
<1>6. CASE Silent
  <2>1. UNCHANGED <<subs, processed>>
    BY <1>6 DEF WebhookRefused, RefreshRead, RefreshStops, tableVars
  <2>2. Heard(u)' = Heard(u)
    BY <1>5, <2>1 DEF Heard
  <2> QED
    BY <1>3, <1>4, <2>1, <2>2, AgreeRow DEF RowAgrees
<1>7. CASE u # s /\ ~Silent
  <2>1. e \notin EventsOf(u)
    BY <1>2, <1>7 DEF EventsOf
  <2>2. Heard(u)' = Heard(u)
    BY <1>3, <1>5, <2>1 DEF Heard
  <2>3. subs'[u] = subs[u]
    BY <1>1, <1>2, <1>3, <1>7
    DEF WebhookActivates, Activation, WebhookMarks, MarksRow, WebhookIgnored,
        RefreshDates, RefreshMarks, RefreshEnds, tableVars
  <2> QED
    BY <1>3, <1>4, <2>2, <2>3, AgreeRow DEF RowAgrees
<1>8. CASE u = s /\ ~Silent
  BY <1>1, <1>2, <1>8, ActivateAgrees, MarkAgrees, RefreshAgrees,
     IgnoreAgrees
<1> QED
  BY <1>6, <1>7, <1>8

LEMMA AgreeInit == BillingInit => AgreeInv
<1> SUFFICES ASSUME BillingInit PROVE AgreeInv
  OBVIOUS
<1>1. Events = {} /\ \A s \in SubIds : EventsOf(s) = {} /\ Heard(s) = {}
  BY DEF BillingInit, Events, EventsOf, Heard
<1> QED
  BY <1>1 DEF BillingInit, TablesInit, AgreeInv, ToldTrue, RowAgrees, HeardDone,
              NoSub, NotSold, Wants, Decides, Nothing

LEMMA AgreeStep ==
    ASSUME IInv, AgreeInv, [BillingNext]_<<installs, billingVars>>
    PROVE  AgreeInv'
<1>1. CASE BillingNext
  BY <1>1, StoreStepAgrees, ProviderStepAgrees, WebhookStepAgrees DEF BillingNext
<1>2. CASE UNCHANGED <<installs, billingVars>>
  <2> SUFFICES ASSUME NEW s \in SubIds
               PROVE  ToldTrue(s)' /\ RowAgrees(s)' /\ HeardDone(s)'
    BY DEF AgreeInv
  <2>1. UNCHANGED <<subs, seen, checkouts, sold, sent, processed>>
    BY <1>2 DEF billingVars, providerVars, webhookVars
  <2>2. Heard(s)' = Heard(s)
    BY <2>1 DEF Heard, EventsOf, Events
  <2>3. RowAgrees(s)
    BY DEF AgreeInv
  <2> QED
    BY <2>1, <2>2, <2>3, AgreeRow DEF RowAgrees
<1> QED
  BY <1>1, <1>2

\* The messages tell the provider's story and the store has done what it heard.
THEOREM AgreementInvariance == BillingSpec => []AgreeInv
<1>1. IInv /\ AgreeInv /\ [BillingNext]_<<installs, billingVars>> => AgreeInv'
  BY AgreeStep
<1> QED
  BY <1>1, AgreeInit, BillingInvariance, PTL DEF BillingSpec

\* Once all messages about a subscription were heard, store and provider agree
\* on whether it is over and on whether it is going to end.
THEOREM StoreAgreesWithProvider == BillingSpec => []ProviderAgreement
<1>1. IInv /\ AgreeInv => ProviderAgreement
  <2> SUFFICES ASSUME IInv, AgreeInv, NEW s \in SubIds,
                      InOrder \/ s \in StripeSold, Settled(s)
               PROVE  /\ subs[s].state = "cancelled" <=> sold[s].state = "ended"
                      /\ s \notin StripeSold =>
                            (subs[s].state = "cancel_at_period_end" <=>
                                 sold[s].state # "ended" /\ sold[s].cancel)
                      /\ subs[s].state # "checkout_pending"
    BY DEF ProviderAgreement
  <2>1. ToldTrue(s) /\ RowAgrees(s) /\ HeardDone(s) /\ RowTrue(s)
    BY DEF IInv, AgreeInv
  <2>2. Heard(s) = EventsOf(s) /\ checkouts[s] = "paid"
    BY DEF Settled, Heard, EventsOf
  <2>3. PICK e \in Heard(s) : PaymentEvent(e)
    BY <2>1, <2>2 DEF ToldTrue
  <2>4. subs[s].linked
    BY <2>1, <2>3 DEF HeardDone, Polar
  <2>5. subs[s].state # "checkout_pending"
    BY <2>1, <2>4 DEF RowTrue
  <2>6. subs[s].state = "cancelled" <=> sold[s].state = "ended"
    BY <2>1, <2>2, <2>4 DEF RowAgrees, ToldTrue, HeardDone, Polar
  <2>7. ASSUME s \notin StripeSold
        PROVE  subs[s].state = "cancel_at_period_end" <=>
                   sold[s].state # "ended" /\ sold[s].cancel
    <3>1. CASE sold[s].state = "ended"
      BY <2>6, <3>1
    <3>2. CASE sold[s].state # "ended" /\ Decides(EventsOf(s))
      BY <2>1, <2>2, <2>6, <2>7, <3>2 DEF HeardDone, ToldTrue, Polar
    <3>3. CASE sold[s].state # "ended" /\ ~Decides(EventsOf(s))
      <4>1. ~Wants(EventsOf(s))
        BY <3>3 DEF Wants, Decides
      <4> QED
        BY <2>1, <2>7, <3>3, <4>1 DEF RowAgrees, ToldTrue, Polar
    <3> QED
      BY <3>1, <3>2, <3>3
  <2> QED
    BY <2>5, <2>6, <2>7
<1> QED
  BY <1>1, BillingInvariance, AgreementInvariance, PTL
===============================================================================
