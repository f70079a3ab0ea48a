----------------------- MODULE FeeImplementsEscrow_proofs ----------------------
(***************************************************************************)
(* Every step of FaivrFeeModule opens a deal, pays one out, returns one,   *)
(* or moves nobody's money; and what an account was sent, is credited and  *)
(* is underway to it is its share of the tasks that closed.                *)
(***************************************************************************)
EXTENDS FeeImplementsEscrow, FeeModule_proofs

\* What the legs of a settlement that are in chosen bring an account.
Gain(r, chosen, a) ==
    (IF a = r.owner THEN Part(r.payout, "agent", chosen) ELSE 0)
    + (IF a = r.protocolWallet THEN Part(r.protocolFee, "protocol", chosen) ELSE 0)
    + (IF a = r.devWallet THEN Part(r.devFee, "dev", chosen) ELSE 0)

PaidReceipt == {r \in Receipt : {r.owner, r.protocolWallet, r.devWallet}
                                    \subseteq Accounts}

-------------------------------------------------------------------------------
\* Ledgers, entry by entry

\* The legs of a settlement add to each entry what they bring the account.
LEMMA AddLegsAt ==
    ASSUME NEW ledger \in [Accounts -> Nat], NEW r \in PaidReceipt,
           NEW chosen \in SUBSET Legs, NEW a \in Accounts
    PROVE  AddLegs(ledger, r, chosen)[a] = ledger[a] + Gain(r, chosen, a)
<1> DEFINE p1 == Part(r.payout, "agent", chosen)
           p2 == Part(r.protocolFee, "protocol", chosen)
           p3 == Part(r.devFee, "dev", chosen)
           l1 == Credit(ledger, r.owner, p1)
           l2 == Credit(l1, r.protocolWallet, p2)
<1>1. p1 \in Nat /\ p2 \in Nat /\ p3 \in Nat
  BY DEF PaidReceipt, Receipt, Part
<1>2. r.owner \in Accounts /\ r.protocolWallet \in Accounts /\ r.devWallet \in Accounts
  BY DEF PaidReceipt
<1>3. AddLegs(ledger, r, chosen) = Credit(l2, r.devWallet, p3)
  BY DEF AddLegs
<1>4. Gain(r, chosen, a) = (IF a = r.owner THEN p1 ELSE 0)
         + (IF a = r.protocolWallet THEN p2 ELSE 0)
         + (IF a = r.devWallet THEN p3 ELSE 0)
  BY DEF Gain
<1> HIDE DEF p1, p2, p3
<1>5. l1 \in [Accounts -> Nat] /\ l1[a] = ledger[a] + (IF a = r.owner THEN p1 ELSE 0)
  BY <1>1, <1>2 DEF Credit
<1> HIDE DEF l1
<1>6. l2 \in [Accounts -> Nat]
      /\ l2[a] = l1[a] + (IF a = r.protocolWallet THEN p2 ELSE 0)
  BY <1>1, <1>2, <1>5 DEF Credit
<1> HIDE DEF l2
<1>7. Credit(l2, r.devWallet, p3)[a] = l2[a] + (IF a = r.devWallet THEN p3 ELSE 0)
  BY <1>1, <1>2, <1>6 DEF Credit
<1>8. ledger[a] \in Nat /\ l1[a] \in Nat /\ l2[a] \in Nat
  BY <1>5, <1>6
<1> QED
  BY <1>1, <1>3, <1>4, <1>5, <1>6, <1>7, <1>8

\* What the refused legs and the sent legs bring is what all of them bring.
LEMMA GainSplit ==
    ASSUME NEW r \in PaidReceipt, NEW refusing \in SUBSET Legs, NEW a \in Accounts
    PROVE  /\ Gain(r, refusing, a) \in Nat
           /\ Gain(r, Legs \ refusing, a) \in Nat
           /\ Gain(r, Legs, a) \in Nat
           /\ Gain(r, refusing, a) + Gain(r, Legs \ refusing, a) = Gain(r, Legs, a)
<1>1. ASSUME NEW amount \in Nat, NEW leg \in Legs
      PROVE  /\ Part(amount, leg, refusing) \in Nat
             /\ Part(amount, leg, Legs \ refusing) \in Nat
             /\ Part(amount, leg, Legs) = amount
             /\ Part(amount, leg, refusing) + Part(amount, leg, Legs \ refusing)
                  = amount
  BY DEF Part
<1>2. /\ r.payout \in Nat /\ r.protocolFee \in Nat /\ r.devFee \in Nat
      /\ "agent" \in Legs /\ "protocol" \in Legs /\ "dev" \in Legs
  BY DEF PaidReceipt, Receipt, Legs
<1> DEFINE p1 == Part(r.payout, "agent", refusing)
           p2 == Part(r.protocolFee, "protocol", refusing)
           p3 == Part(r.devFee, "dev", refusing)
           q1 == Part(r.payout, "agent", Legs \ refusing)
           q2 == Part(r.protocolFee, "protocol", Legs \ refusing)
           q3 == Part(r.devFee, "dev", Legs \ refusing)
           is(w, n) == IF a = w THEN n ELSE 0
<1>3. /\ p1 \in Nat /\ q1 \in Nat /\ p1 + q1 = r.payout
      /\ Part(r.payout, "agent", Legs) = r.payout
  BY <1>1, <1>2
<1>4. /\ p2 \in Nat /\ q2 \in Nat /\ p2 + q2 = r.protocolFee
      /\ Part(r.protocolFee, "protocol", Legs) = r.protocolFee
  BY <1>1, <1>2
<1>5. /\ p3 \in Nat /\ q3 \in Nat /\ p3 + q3 = r.devFee
      /\ Part(r.devFee, "dev", Legs) = r.devFee
  BY <1>1, <1>2
<1>6. /\ Gain(r, refusing, a)
            = is(r.owner, p1) + is(r.protocolWallet, p2) + is(r.devWallet, p3)
      /\ Gain(r, Legs \ refusing, a)
            = is(r.owner, q1) + is(r.protocolWallet, q2) + is(r.devWallet, q3)
  BY DEF Gain
<1>7. Gain(r, Legs, a) = is(r.owner, r.payout)
            + is(r.protocolWallet, r.protocolFee) + is(r.devWallet, r.devFee)
  BY <1>3, <1>4, <1>5 DEF Gain
<1> HIDE DEF p1, p2, p3, q1, q2, q3
<1>8. /\ is(r.owner, p1) \in Nat /\ is(r.owner, q1) \in Nat
      /\ is(r.owner, p1) + is(r.owner, q1) = is(r.owner, r.payout)
  BY <1>3
<1>9. /\ is(r.protocolWallet, p2) \in Nat /\ is(r.protocolWallet, q2) \in Nat
      /\ is(r.protocolWallet, p2) + is(r.protocolWallet, q2)
           = is(r.protocolWallet, r.protocolFee)
  BY <1>4
<1>10. /\ is(r.devWallet, p3) \in Nat /\ is(r.devWallet, q3) \in Nat
       /\ is(r.devWallet, p3) + is(r.devWallet, q3) = is(r.devWallet, r.devFee)
  BY <1>5
<1> HIDE DEF is
<1> QED
  BY <1>6, <1>7, <1>8, <1>9, <1>10

\* All the legs bring the three wallets their shares.
LEMMA GainOfAll ==
    ASSUME NEW r \in PaidReceipt, NEW a \in Accounts
    PROVE  Gain(r, Legs, a) =
             (IF r.owner = a THEN r.payout ELSE 0)
             + (IF r.protocolWallet = a THEN r.protocolFee ELSE 0)
             + (IF r.devWallet = a THEN r.devFee ELSE 0)
  BY DEF Gain, Part, Legs

\* What is owed is a natural number.
LEMMA OwedType ==
    ASSUME TypeOK
    PROVE  Owed \in [Tokens -> [Accounts -> Nat]]
<1>1. \A k \in Tokens, a \in Accounts :
        /\ delivered[k][a] \in Nat
        /\ pending[k][a] \in Nat
        /\ InFlight(k, a) \in Nat
  BY DEF TypeOK, StorageTypeOK, ObservationTypeOK, InFlight, Frame
<1> QED
  BY <1>1 DEF Owed

-------------------------------------------------------------------------------
\* What each step makes of what is owed

\* The receipt of a settlement names accounts, and its parts are the amount.
LEMMA SettleReceipt ==
    ASSUME IInv, NEW t \in TaskIds, NEW caller \in Accounts,
           NEW refusing \in SUBSET Legs, SettleEscrow(t, caller, refusing)
    PROVE  /\ t < nextTaskId
           /\ tasks[t].token \in Tokens
           /\ tasks[t].amount \in Nat
           /\ ReceiptOf(t) \in PaidReceipt
           /\ AmountOf(ReceiptOf(t), Legs) = tasks[t].amount
<1> DEFINE r == ReceiptOf(t)
<1>1. t < nextTaskId /\ tasks[t].agent \in AgentIds
  BY NamedSlotFunded DEF SettleEscrow, Settleable
<1>2. agentOwner[tasks[t].agent] \in Accounts
  BY <1>1 DEF SettleEscrow, IInv, TypeOK, NFTTypeOK, AgentExists, Addresses
<1>3. /\ r \in Receipt /\ r.owner \in Accounts
      /\ r.protocolWallet \in Accounts /\ r.devWallet \in Accounts
      /\ r.payout + r.protocolFee + r.devFee = tasks[t].amount
  BY <1>1, <1>2, ReceiptParts DEF IInv
<1>4. tasks[t].token \in Tokens /\ tasks[t].amount \in Nat
  BY DEF IInv, TypeOK, StorageTypeOK, Task
<1> HIDE DEF r
<1>5. AmountOf(r, Legs) = r.payout + r.protocolFee + r.devFee
  BY DEF AmountOf, Part, Legs
<1> QED
  BY <1>1, <1>3, <1>4, <1>5 DEF PaidReceipt, r

\* Settling a task brings every account what the receipt says.
LEMMA SettleOwed ==
    ASSUME IInv, NEW t \in TaskIds, NEW caller \in Accounts,
           NEW refusing \in SUBSET Legs, SettleEscrow(t, caller, refusing),
           NEW k \in Tokens, NEW a \in Accounts
    PROVE  Owed'[k][a] = Owed[k][a]
             + (IF k = tasks[t].token THEN Gain(ReceiptOf(t), Legs, a) ELSE 0)
<1> DEFINE r == ReceiptOf(t)
           j == tasks[t].token
           gains == AddLegs(delivered[j], r, Legs \ refusing)
           credits == AddLegs(pending[j], r, refusing)
<1>1. r \in PaidReceipt /\ j \in Tokens
  BY SettleReceipt
<1>2. /\ delivered \in [Tokens -> [Accounts -> Nat]]
      /\ pending \in [Tokens -> [Accounts -> Nat]]
  BY DEF IInv, TypeOK, StorageTypeOK, ObservationTypeOK
<1>3. /\ delivered' = [delivered EXCEPT ![j] = gains]
      /\ pending' = [pending EXCEPT ![j] = credits]
      /\ frame = NoFrame /\ frame' = NoFrame
  BY DEF SettleEscrow, NonReentrant
<1> HIDE DEF r, j
<1>4. /\ gains[a] = delivered[j][a] + Gain(r, Legs \ refusing, a)
      /\ credits[a] = pending[j][a] + Gain(r, refusing, a)
  BY <1>1, <1>2, AddLegsAt
<1>5. /\ Gain(r, refusing, a) \in Nat
      /\ Gain(r, Legs \ refusing, a) \in Nat
      /\ Gain(r, refusing, a) + Gain(r, Legs \ refusing, a) = Gain(r, Legs, a)
  BY <1>1, GainSplit
<1> HIDE DEF gains, credits
<1>6. /\ Owed[k][a] = delivered[k][a] + pending[k][a]
      /\ Owed'[k][a] = delivered'[k][a] + pending'[k][a]
      /\ delivered[k][a] \in Nat /\ pending[k][a] \in Nat
  <2>1. delivered[k][a] \in Nat /\ pending[k][a] \in Nat
    BY <1>2
  <2>2. delivered'[k][a] \in Nat /\ pending'[k][a] \in Nat
    BY SettlePreserves DEF CoreInv, ShapeOK, StorageTypeOK, ObservationTypeOK
  <2>3. InFlight(k, a) = 0 /\ InFlight(k, a)' = 0
    BY <1>3 DEF InFlight
  <2> QED
    BY <2>1, <2>2, <2>3 DEF Owed
<1>7. CASE k = j
  BY <1>1, <1>2, <1>3, <1>4, <1>5, <1>6, <1>7 DEF r, j
<1>8. CASE k # j
  BY <1>1, <1>2, <1>3, <1>6, <1>8 DEF j
<1> QED
  BY <1>7, <1>8

\* Reclaiming a task brings its client the amount.
LEMMA ReclaimOwed ==
    ASSUME IInv, NEW t \in TaskIds, NEW caller \in Accounts,
           NEW refuses \in BOOLEAN, ReclaimTask(t, caller, refuses),
           NEW k \in Tokens, NEW a \in Accounts
    PROVE  Owed'[k][a] = Owed[k][a]
             + (IF k = tasks[t].token /\ a = caller THEN tasks[t].amount ELSE 0)
<1> DEFINE j == tasks[t].token
           amount == tasks[t].amount
           kept == IF refuses THEN amount ELSE 0
           sent == IF refuses THEN 0 ELSE amount
<1>1. j \in Tokens /\ amount \in Nat
  BY DEF IInv, TypeOK, StorageTypeOK, Task
<1>2. /\ delivered \in [Tokens -> [Accounts -> Nat]]
      /\ pending \in [Tokens -> [Accounts -> Nat]]
  BY DEF IInv, TypeOK, StorageTypeOK, ObservationTypeOK
<1>3. /\ delivered' = [delivered EXCEPT ![j] = Credit(delivered[j], caller, sent)]
      /\ pending' = [pending EXCEPT ![j] = Credit(pending[j], caller, kept)]
      /\ frame = NoFrame /\ frame' = NoFrame
  BY DEF ReclaimTask, NonReentrant
<1>4. kept \in Nat /\ sent \in Nat /\ kept + sent = amount
  BY <1>1
<1> HIDE DEF j, amount, kept, sent
<1>5. /\ Credit(delivered[j], caller, sent)[a]
           = delivered[j][a] + (IF a = caller THEN sent ELSE 0)
      /\ Credit(pending[j], caller, kept)[a]
           = pending[j][a] + (IF a = caller THEN kept ELSE 0)
  BY <1>1, <1>2, <1>4 DEF Credit
<1>6. /\ Owed[k][a] = delivered[k][a] + pending[k][a]
      /\ Owed'[k][a] = delivered'[k][a] + pending'[k][a]
      /\ delivered[k][a] \in Nat /\ pending[k][a] \in Nat
  <2>1. delivered[k][a] \in Nat /\ pending[k][a] \in Nat
    BY <1>2
  <2>2. delivered'[k][a] \in Nat /\ pending'[k][a] \in Nat
    BY ReclaimPreserves DEF CoreInv, ShapeOK, StorageTypeOK, ObservationTypeOK
  <2>3. InFlight(k, a) = 0 /\ InFlight(k, a)' = 0
    BY <1>3 DEF InFlight
  <2> QED
    BY <2>1, <2>2, <2>3 DEF Owed
<1>7. CASE k = j
  BY <1>1, <1>2, <1>3, <1>4, <1>5, <1>6, <1>7 DEF j, amount
<1>8. CASE k # j
  BY <1>1, <1>2, <1>3, <1>6, <1>8 DEF j
<1> QED
  BY <1>7, <1>8

\* A withdrawal that leaves the contract changes where the money is, and not
\* whose it is.
LEMMA WithdrawOwed ==
    ASSUME IInv, NEW x \in Accounts, NEW j \in Tokens, WithdrawPending(x, j),
           NEW k \in Tokens, NEW a \in Accounts
    PROVE  Owed'[k][a] = Owed[k][a]
<1> DEFINE n == pending[j][x]
<1>1. /\ pending \in [Tokens -> [Accounts -> Nat]]
      /\ delivered[k][a] \in Nat /\ pending[k][a] \in Nat /\ n \in Nat
  BY DEF IInv, TypeOK, StorageTypeOK, ObservationTypeOK
<1>2. /\ frame = NoFrame
      /\ frame' = [account |-> x, token |-> j, amount |-> n]
      /\ pending' = [pending EXCEPT ![j][x] = 0]
      /\ delivered' = delivered
  BY DEF WithdrawPending, NonReentrant
<1>3. frame' # NoFrame
  <2>1. frame' \in Frame
    BY <1>1, <1>2 DEF Frame
  <2> QED
    BY <2>1, NoFrameAssumption
<1>4. InFlight(k, a) = 0
  BY <1>2 DEF InFlight
<1>5. CASE k = j /\ a = x
  <2>1. InFlight(k, a)' = n /\ pending'[k][a] = 0 /\ pending[k][a] = n
    BY <1>1, <1>2, <1>3, <1>5 DEF InFlight
  <2> HIDE DEF n
  <2> QED
    BY <1>1, <1>2, <1>4, <2>1 DEF Owed
<1>6. CASE ~(k = j /\ a = x)
  <2>1. InFlight(k, a)' = 0 /\ pending'[k][a] = pending[k][a]
    BY <1>1, <1>2, <1>3, <1>6 DEF InFlight
  <2> QED
    BY <1>1, <1>2, <1>4, <2>1 DEF Owed
<1> QED
  BY <1>5, <1>6

\* A withdrawal that comes back, with the money delivered or restored, does
\* not change whose it is either.
LEMMA WithdrawReturnOwed ==
    ASSUME IInv, WithdrawSucceeds \/ WithdrawReverts,
           NEW k \in Tokens, NEW a \in Accounts
    PROVE  Owed'[k][a] = Owed[k][a]
<1> DEFINE j == frame.token
           x == frame.account
           n == frame.amount
<1>1. frame # NoFrame /\ frame' = NoFrame
  BY DEF WithdrawSucceeds, WithdrawReverts
<1>2. j \in Tokens /\ x \in Accounts /\ n \in Nat
  BY <1>1 DEF IInv, TypeOK, StorageTypeOK, Frame
<1>3. /\ pending \in [Tokens -> [Accounts -> Nat]]
      /\ delivered \in [Tokens -> [Accounts -> Nat]]
      /\ pending[j][x] = 0
  BY <1>1 DEF IInv, TypeOK, StorageTypeOK, ObservationTypeOK, FrameCleared
<1>4. InFlight(k, a)' = 0
  BY <1>1 DEF InFlight
<1>5. InFlight(k, a) = IF k = j /\ a = x THEN n ELSE 0
  BY <1>1 DEF InFlight
<1>6. \/ /\ delivered' = [delivered EXCEPT ![j][x] = delivered[j][x] + n]
         /\ pending' = pending
      \/ /\ pending' = [pending EXCEPT ![j][x] = n]
         /\ delivered' = delivered
  BY <1>2, <1>3 DEF WithdrawSucceeds, WithdrawReverts
<1> HIDE DEF j, x, n
<1>7. delivered'[k][a] + pending'[k][a]
        = delivered[k][a] + pending[k][a] + (IF k = j /\ a = x THEN n ELSE 0)
  <2>1. delivered[k][a] \in Nat /\ pending[k][a] \in Nat
    BY <1>3
  <2>2. CASE k = j /\ a = x
    BY <1>2, <1>3, <1>6, <2>1, <2>2
  <2>3. CASE ~(k = j /\ a = x)
    BY <1>2, <1>3, <1>6, <2>1, <2>3
  <2> QED
    BY <2>2, <2>3
<1>8. delivered'[k][a] + pending'[k][a] \in Nat
  BY <1>2, <1>3, <1>7
<1> QED
  BY <1>4, <1>5, <1>7, <1>8 DEF Owed

\* A step that moves no money and opens no withdrawal changes nothing owed.
LEMMA QuietOwed ==
    ASSUME UNCHANGED <<moneyVars, frame>>
    PROVE  Owed' = Owed
  BY DEF moneyVars, Owed, InFlight

-------------------------------------------------------------------------------
\* The four kinds of steps

Opens(t) ==
    /\ t = nextTaskId /\ nextTaskId' = t + 1
    /\ tasks'[t].status = "FUNDED"
    /\ tasks'[t].client \in Accounts
    /\ tasks'[t].token \in Tokens
    /\ tasks'[t].amount \in Nat \ {0}
    /\ tasks' = [tasks EXCEPT ![t] = tasks'[t]]
    /\ UNCHANGED <<receipts, Owed>>

Closes(t, status) ==
    /\ t < nextTaskId /\ nextTaskId' = nextTaskId
    /\ tasks[t].status = "FUNDED"
    /\ tasks[t].client \in Accounts
    /\ tasks[t].token \in Tokens
    /\ tasks[t].amount \in Nat
    /\ tasks' = [tasks EXCEPT ![t].status = status]

Pays(t) ==
    /\ Closes(t, "SETTLED")
    /\ ReceiptOf(t) \in PaidReceipt
    /\ AmountOf(ReceiptOf(t), Legs) = tasks[t].amount
    /\ receipts' = [receipts EXCEPT ![t] = ReceiptOf(t)]
    /\ \A k \in Tokens, a \in Accounts :
          Owed'[k][a] = Owed[k][a]
             + (IF k = tasks[t].token THEN Gain(ReceiptOf(t), Legs, a) ELSE 0)

Returns(t) ==
    /\ Closes(t, "RECLAIMED")
    /\ UNCHANGED receipts
    /\ \A k \in Tokens, a \in Accounts :
          Owed'[k][a] = Owed[k][a]
             + (IF k = tasks[t].token /\ a = tasks[t].client
                THEN tasks[t].amount ELSE 0)

Stays == UNCHANGED <<tasks, nextTaskId, receipts, Owed>>

\* What is owed is equal when its entries are.
LEMMA OwedEqual ==
    ASSUME \A k \in Tokens, a \in Accounts : Owed'[k][a] = Owed[k][a]
    PROVE  Owed' = Owed
  BY DEF Owed

\* Funding opens a task.
LEMMA FundOpens ==
    ASSUME IInv, NEW g \in AgentIds, NEW k \in Tokens, NEW amount \in Nat,
           NEW d \in Nat, NEW a \in Accounts, NEW received \in Int,
           EscrowFunded(g, k, amount, d, a, received)
    PROVE  \E t \in TaskIds : Opens(t)
<1> DEFINE t == nextTaskId
           new == [agent |-> g, client |-> a, token |-> k, amount |-> amount,
                   status |-> "FUNDED", deadline |-> now + d]
<1>1. t \in TaskIds /\ nextTaskId' = t + 1 /\ amount # 0
  BY DEF EscrowFunded
<1>2. tasks' = [tasks EXCEPT ![t] = new]
  BY DEF EscrowFunded
<1>3. tasks \in [TaskIds -> Task]
  BY DEF IInv, TypeOK, StorageTypeOK
<1>4. tasks'[t] = new
  BY <1>1, <1>2, <1>3
<1>5. UNCHANGED receipts /\ Owed' = Owed
  BY DEF EscrowFunded, Owed, InFlight
<1>6. /\ new.status = "FUNDED" /\ new.client \in Accounts
      /\ new.token \in Tokens /\ new.amount \in Nat \ {0}
  BY <1>1
<1> HIDE DEF new
<1>7. tasks' = [tasks EXCEPT ![t] = tasks'[t]]
  BY <1>2, <1>4
<1>8. Opens(t)
  BY <1>1, <1>4, <1>5, <1>6, <1>7 DEF Opens
<1> QED
  BY <1>1, <1>8

\* Settling pays a task out.
LEMMA SettlePays ==
    ASSUME IInv, NEW t \in TaskIds, NEW caller \in Accounts,
           NEW refusing \in SUBSET Legs, SettleEscrow(t, caller, refusing)
    PROVE  Pays(t)
<1>1. /\ tasks[t].status = "FUNDED" /\ tasks[t].client \in Accounts
      /\ tasks' = [tasks EXCEPT ![t].status = "SETTLED"]
      /\ receipts' = [receipts EXCEPT ![t] = ReceiptOf(t)]
      /\ nextTaskId' = nextTaskId
  BY DEF SettleEscrow, Settleable
<1>2. \A k \in Tokens, a \in Accounts :
          Owed'[k][a] = Owed[k][a]
             + (IF k = tasks[t].token THEN Gain(ReceiptOf(t), Legs, a) ELSE 0)
  BY SettleOwed
<1> QED
  BY <1>1, <1>2, SettleReceipt DEF Pays, Closes

\* Reclaiming returns it.
LEMMA ReclaimReturns ==
    ASSUME IInv, NEW t \in TaskIds, NEW caller \in Accounts,
           NEW refuses \in BOOLEAN, ReclaimTask(t, caller, refuses)
    PROVE  Returns(t)
<1>1. /\ tasks[t].status = "FUNDED" /\ tasks[t].client = caller
      /\ tasks' = [tasks EXCEPT ![t].status = "RECLAIMED"]
      /\ receipts' = receipts
      /\ nextTaskId' = nextTaskId
  BY DEF ReclaimTask, Reclaimable
<1>2. t < nextTaskId
  BY <1>1, NamedSlotFunded
<1>3. tasks[t].token \in Tokens /\ tasks[t].amount \in Nat
  BY DEF IInv, TypeOK, StorageTypeOK, Task
<1>4. \A k \in Tokens, a \in Accounts :
          Owed'[k][a] = Owed[k][a]
             + (IF k = tasks[t].token /\ a = caller THEN tasks[t].amount ELSE 0)
  BY ReclaimOwed
<1> QED
  BY <1>1, <1>2, <1>3, <1>4 DEF Returns, Closes

\* Every step is of one of the four kinds.
LEMMA StepKinds ==
    ASSUME IInv, [Next]_vars
    PROVE  \/ \E t \in TaskIds : Opens(t) \/ Pays(t) \/ Returns(t)
           \/ Stays
<1>1. CASE UNCHANGED vars
  BY <1>1, QuietOwed DEF vars, feeVars, taskVars, Stays
<1>2. ASSUME NEW a \in Accounts, ClientStep(a)
      PROVE  \/ \E t \in TaskIds : Opens(t) \/ Pays(t) \/ Returns(t)
             \/ Stays
  <2>1. ASSUME NEW g \in AgentIds, NEW k \in Tokens, NEW amount \in Amounts,
               NEW d \in Durations, NEW shortfall \in {0, 1},
               FundTask(g, k, amount, d, a, amount - shortfall)
        PROVE  \E t \in TaskIds : Opens(t)
    <3>1. amount \in Nat /\ d \in Nat /\ amount - shortfall \in Int
      BY FeeConstantsAssumption
    <3> QED
      BY <2>1, <3>1, FundOpens DEF FundTask, FundEscrow
  <2>2. ASSUME NEW t \in TaskIds, NEW refusing \in SUBSET Legs,
               SettleTask(t, a, refusing)
        PROVE  Pays(t)
    BY <2>2, SettlePays DEF SettleTask
  <2>3. ASSUME NEW t \in TaskIds, NEW refuses \in BOOLEAN,
               ReclaimTask(t, a, refuses)
        PROVE  Returns(t)
    BY <2>3, ReclaimReturns
  <2>4. ASSUME NEW k \in Tokens, WithdrawPending(a, k)
        PROVE  Stays
    <3>1. UNCHANGED taskVars
      BY <2>4 DEF WithdrawPending
    <3> QED
      BY <2>4, <3>1, WithdrawOwed, OwedEqual DEF taskVars, Stays
  <2> QED
    BY <1>2, <2>1, <2>2, <2>3, <2>4 DEF ClientStep
<1>3. ASSUME WithdrawSucceeds \/ WithdrawReverts
      PROVE  Stays
  <2>1. UNCHANGED taskVars
    BY <1>3 DEF WithdrawSucceeds, WithdrawReverts
  <2> QED
    BY <1>3, <2>1, WithdrawReturnOwed, OwedEqual DEF taskVars, Stays
<1>4. ASSUME AdminStep \/ ChainStep
      PROVE  Stays
  <2>1. UNCHANGED <<moneyVars, taskVars, frame>>
    BY <1>4
    DEF AdminStep, ChainStep, SetFeePercentage, SetProtocolWallet,
        SetDevWallet, SetSupportedToken, SetMaxEscrowAmount, Pause, Unpause,
        AddGenesisAgent, RemoveGenesisAgent, Tick, RegisterAgent,
        TransferAgent, feeVars
  <2> QED
    BY <2>1, QuietOwed DEF taskVars, Stays
<1> QED
  BY <1>1, <1>2, <1>3, <1>4 DEF Next

-------------------------------------------------------------------------------
\* The steps of the abstract escrow

\* A step that changes one task changes one deal.
LEMMA DealChange ==
    ASSUME NEW t \in TaskIds, \A x \in TaskIds \ {t} : Deals'[x] = Deals[x]
    PROVE  Deals' = [Deals EXCEPT ![t] = Deals'[t]]
  BY DEF Deals

LEMMA OpensImplements ==
    ASSUME IInv, NEW t \in TaskIds, Opens(t)
    PROVE  E!Open(t)
<1>1. tasks \in [TaskIds -> Task] /\ nextTaskId \in Nat
  BY DEF IInv, TypeOK, StorageTypeOK
<1>2. Deals[t] = [state |-> "none"]
  <2>1. ~(t < nextTaskId)
    BY <1>1 DEF Opens
  <2> QED
    BY <2>1 DEF Deals
<1>3. Deals'[t] = [state |-> "open", client |-> tasks'[t].client,
                   token |-> tasks'[t].token, amount |-> tasks'[t].amount]
  <2>1. t < nextTaskId'
    BY <1>1 DEF Opens
  <2> QED
    BY <2>1 DEF Opens, Deals, DealState
<1>4. Deals'[t] \in E!OpenDeal
  BY <1>3 DEF Opens, E!OpenDeal
<1>5. ASSUME NEW x \in TaskIds \ {t} PROVE Deals'[x] = Deals[x]
  <2>1. tasks'[x] = tasks[x]
    BY <1>1 DEF Opens
  <2>2. x < nextTaskId' <=> x < nextTaskId
    BY <1>1 DEF Opens, TaskIds
  <2> QED
    BY <2>1, <2>2 DEF Deals
<1>6. Deals' = [Deals EXCEPT ![t] = Deals'[t]]
  BY <1>5, DealChange
<1>7. Deals[t].state = "none" /\ Owed' = Owed
  BY <1>2 DEF Opens
<1> QED
  BY <1>4, <1>6, <1>7 DEF E!Open

\* Closing a task closes the deal.
LEMMA ClosesDeal ==
    ASSUME IInv, NEW t \in TaskIds, NEW status \in {"SETTLED", "RECLAIMED"},
           Closes(t, status), NEW word, word = DealState(status)
    PROVE  /\ Deals[t] = [state |-> "open", client |-> tasks[t].client,
                          token |-> tasks[t].token, amount |-> tasks[t].amount]
           /\ Deals' = [Deals EXCEPT ![t].state = word]
<1>1. tasks \in [TaskIds -> Task] /\ nextTaskId \in Nat
  BY DEF IInv, TypeOK, StorageTypeOK
<1>2. Deals[t] = [state |-> "open", client |-> tasks[t].client,
                  token |-> tasks[t].token, amount |-> tasks[t].amount]
  BY DEF Closes, Deals, DealState
<1>3. /\ tasks'[t].status = status
      /\ tasks'[t].client = tasks[t].client
      /\ tasks'[t].token = tasks[t].token
      /\ tasks'[t].amount = tasks[t].amount
  BY <1>1 DEF Closes, Task
<1>4. Deals'[t] = [state |-> word, client |-> tasks[t].client,
                   token |-> tasks[t].token, amount |-> tasks[t].amount]
  BY <1>3 DEF Closes, Deals
<1>5. Deals'[t] = [Deals[t] EXCEPT !.state = word]
  BY <1>2, <1>4
<1>6. ASSUME NEW x \in TaskIds \ {t} PROVE Deals'[x] = Deals[x]
  BY <1>1 DEF Closes, Deals
<1>7. Deals' = [Deals EXCEPT ![t] = Deals'[t]]
  BY <1>6, DealChange
<1> QED
  BY <1>2, <1>5, <1>7

LEMMA PaysImplements ==
    ASSUME IInv, NEW t \in TaskIds, Pays(t)
    PROVE  E!PayOut(t)
<1> DEFINE k == tasks[t].token
           r == ReceiptOf(t)
<1>1. /\ Deals[t].state = "open" /\ Deals[t].token = k
      /\ Deals[t].amount = tasks[t].amount
      /\ Deals' = [Deals EXCEPT ![t].state = "paid"]
  <2>1. Closes(t, "SETTLED") /\ DealState("SETTLED") = "paid"
    BY DEF Pays, DealState
  <2>2. /\ Deals[t] = [state |-> "open", client |-> tasks[t].client,
                       token |-> tasks[t].token, amount |-> tasks[t].amount]
        /\ Deals' = [Deals EXCEPT ![t].state = "paid"]
    BY <2>1, ClosesDeal
  <2> QED
    BY <2>1, <2>2
<1>2. Owed \in [Tokens -> [Accounts -> Nat]]
  BY OwedType DEF IInv
<1>3. /\ r \in PaidReceipt /\ k \in Tokens /\ AmountOf(r, Legs) = tasks[t].amount
      /\ \A j \in Tokens, a \in Accounts :
            Owed'[j][a] = Owed[j][a] + (IF j = k THEN Gain(r, Legs, a) ELSE 0)
  BY DEF Pays, Closes
<1> HIDE DEF k, r
<1>4. ASSUME NEW a \in Accounts
      PROVE  Gain(r, Legs, a) \in Nat /\ Owed'[k][a] = Owed[k][a] + Gain(r, Legs, a)
  <2>1. Gain(r, {}, a) \in Nat /\ Gain(r, Legs, a) \in Nat
    BY <1>3, GainSplit
  <2> QED
    BY <1>3, <2>1
<1>5. \A a \in Accounts : Owed'[k][a] >= Owed[k][a]
  BY <1>2, <1>3, <1>4
<1>6. Owed'[k] = AddLegs(Owed[k], r, Legs)
  <2>1. Owed[k] \in [Accounts -> Nat]
    BY <1>2, <1>3
  <2>2. r \in Receipt /\ r.owner \in Accounts /\ r.protocolWallet \in Accounts
        /\ r.devWallet \in Accounts
    BY <1>3 DEF PaidReceipt
  <2>3. AddLegs(Owed[k], r, Legs) \in [Accounts -> Nat]
    BY <2>1, <2>2, AddLegsTotal
  <2>4. \A a \in Accounts : AddLegs(Owed[k], r, Legs)[a] = Owed'[k][a]
    BY <1>3, <1>4, <2>1, AddLegsAt
  <2>5. Owed'[k] = [a \in Accounts |-> Owed'[k][a]]
    BY <1>3 DEF Owed
  <2> QED
    BY <2>3, <2>4, <2>5
<1>7. Total(Owed'[k]) = Total(Owed[k]) + tasks[t].amount
  <2>1. Owed[k] \in [Accounts -> Nat]
    BY <1>2, <1>3
  <2>2. r \in Receipt /\ r.owner \in Accounts /\ r.protocolWallet \in Accounts
        /\ r.devWallet \in Accounts
    BY <1>3 DEF PaidReceipt
  <2>3. Total(AddLegs(Owed[k], r, Legs)) = Total(Owed[k]) + AmountOf(r, Legs)
    BY <2>1, <2>2, AddLegsTotal
  <2> QED
    BY <1>3, <1>6, <2>3
<1>8. Owed' = [Owed EXCEPT ![k] = Owed'[k]]
  <2>1. \A j \in Tokens \ {k}, a \in Accounts : Owed'[j][a] = Owed[j][a]
    BY <1>2, <1>3
  <2>2. \A j \in Tokens \ {k} : Owed'[j] = Owed[j]
    BY <2>1 DEF Owed
  <2> QED
    BY <2>2 DEF Owed
<1>9. E!Total(Owed'[k]) = E!Total(Owed[k]) + tasks[t].amount
  <2>1. \A ledger : E!Total(ledger) = Total(ledger)
    BY DEF Total, Units, UnitsOf, Cardinality,
           E!Total, E!Units, E!UnitsOf, E!Cardinality
  <2> QED
    BY <1>7, <2>1
<1> QED
  BY <1>1, <1>5, <1>8, <1>9 DEF E!PayOut

LEMMA ReturnsImplements ==
    ASSUME IInv, NEW t \in TaskIds, Returns(t)
    PROVE  E!Return(t)
<1> DEFINE k == tasks[t].token
           c == tasks[t].client
           n == tasks[t].amount
<1>1. /\ Deals[t].state = "open" /\ Deals[t].token = k
      /\ Deals[t].client = c /\ Deals[t].amount = n
      /\ Deals' = [Deals EXCEPT ![t].state = "returned"]
  <2>1. Closes(t, "RECLAIMED") /\ DealState("RECLAIMED") = "returned"
    BY DEF Returns, DealState
  <2>2. /\ Deals[t] = [state |-> "open", client |-> tasks[t].client,
                       token |-> tasks[t].token, amount |-> tasks[t].amount]
        /\ Deals' = [Deals EXCEPT ![t].state = "returned"]
    BY <2>1, ClosesDeal
  <2> QED
    BY <2>1, <2>2
<1>2. Owed \in [Tokens -> [Accounts -> Nat]]
  BY OwedType DEF IInv
<1>3. /\ k \in Tokens /\ c \in Accounts /\ n \in Nat
      /\ \A j \in Tokens, a \in Accounts :
            Owed'[j][a] = Owed[j][a] + (IF j = k /\ a = c THEN n ELSE 0)
  BY DEF Returns, Closes
<1> HIDE DEF k, c, n
<1>4. \A j \in Tokens, a \in Accounts :
         Owed'[j][a] = [Owed EXCEPT ![k][c] = Owed[k][c] + n][j][a]
  BY <1>2, <1>3
<1>5. \A j \in Tokens :
         Owed'[j] = [Owed EXCEPT ![k][c] = Owed[k][c] + n][j]
  BY <1>2, <1>3, <1>4 DEF Owed
<1>6. Owed' = [Owed EXCEPT ![k][c] = Owed[k][c] + n]
  BY <1>2, <1>3, <1>5 DEF Owed
<1> QED
  BY <1>1, <1>6 DEF E!Return

LEMMA InitImplements == Init => E!Init
<1> SUFFICES ASSUME Init PROVE E!Init
  OBVIOUS
<1>1. Deals = [t \in TaskIds |-> E!NoDeal]
  BY DEF Init, FeeInit, Deals, E!NoDeal, TaskIds
<1>2. Owed = [k \in Tokens |-> [a \in Accounts |-> 0]]
  BY DEF Init, FeeInit, Owed, InFlight
<1> QED
  BY <1>1, <1>2 DEF E!Init

LEMMA StepImplements == IInv /\ [Next]_vars => [E!Next]_E!vars
<1> SUFFICES ASSUME IInv, [Next]_vars PROVE [E!Next]_E!vars
  OBVIOUS
<1>1. CASE \E t \in TaskIds : Opens(t) \/ Pays(t) \/ Returns(t)
  BY <1>1, OpensImplements, PaysImplements, ReturnsImplements DEF E!Next
<1>2. CASE Stays
  BY <1>2 DEF Stays, Deals, E!vars
<1> QED
  BY <1>1, <1>2, StepKinds

\* The contract implements the abstract escrow: for every set of accounts,
\* tokens and agents, every fee and every order of refused transfers, reverts
\* and withdrawals, each transaction opens a deal, pays its whole amount out
\* once, returns it once, or changes nothing anybody is owed.
THEOREM Refinement == Spec => EscrowSpec
<1> QED
  BY Invariance, InitImplements, StepImplements, PTL DEF Spec, EscrowSpec, E!Spec

-------------------------------------------------------------------------------
\* Everyone gets their due

\* What account a is due in token k, task by task.
DueOf(k, a) == [t \in TaskIds |-> Due(t, k, a)]

DueTotals == \A k \in Tokens, a \in Accounts : Owed[k][a] = Total(DueOf(k, a))

\* An entry of a ledger over the tasks that goes from nothing to n adds n.
LEMMA EntryFilled ==
    ASSUME NEW due \in [TaskIds -> Nat], NEW t \in TaskIds, NEW n \in Nat,
           due[t] = 0
    PROVE  Total([due EXCEPT ![t] = n]) = Total(due) + n
<1>1. IsFiniteSet(TaskIds)
  BY FeeConstantsAssumption, FS_Interval DEF TaskIds
<1>2. Total([due EXCEPT ![t] = n]) = Total(due) - due[t] + n
  BY <1>1, TotalUpdate
<1>3. Total(due) \in Nat
  BY <1>1, TotalBound
<1> QED
  BY <1>2, <1>3

\* Nothing is due for an open task, and what is due is a natural number.
LEMMA DueType ==
    ASSUME IInv, NEW k \in Tokens, NEW a \in Accounts
    PROVE  /\ DueOf(k, a) \in [TaskIds -> Nat]
           /\ \A t \in TaskIds :
                 tasks[t].status = "FUNDED" => DueOf(k, a)[t] = 0
<1>1. ASSUME NEW t \in TaskIds PROVE Due(t, k, a) \in Nat
  <2>1. /\ receipts[t].payout \in Nat /\ receipts[t].protocolFee \in Nat
        /\ receipts[t].devFee \in Nat /\ tasks[t].amount \in Nat
    BY DEF IInv, TypeOK, StorageTypeOK, ObservationTypeOK, Task, Receipt
  <2> QED
    BY <2>1 DEF Due
<1>2. ASSUME NEW t \in TaskIds, tasks[t].status = "FUNDED" PROVE Due(t, k, a) = 0
  BY <1>2 DEF Due
<1> QED
  BY <1>1, <1>2 DEF DueOf

\* A step that adds n to what an account is due by one open task and to what
\* it is owed, and leaves its dues by the other tasks alone.
LEMMA DueGrows ==
    ASSUME IInv, NEW t \in TaskIds, tasks[t].status = "FUNDED",
           NEW k \in Tokens, NEW a \in Accounts, NEW n \in Nat,
           Owed[k][a] = Total(DueOf(k, a)),
           Owed'[k][a] = Owed[k][a] + n,
           Due(t, k, a)' = n,
           \A x \in TaskIds \ {t} :
              tasks'[x] = tasks[x] /\ receipts'[x] = receipts[x]
    PROVE  Owed'[k][a] = Total(DueOf(k, a)')
<1> DEFINE due == DueOf(k, a)
<1>1. due \in [TaskIds -> Nat] /\ due[t] = 0
  BY DueType
<1>2. DueOf(k, a)' = [due EXCEPT ![t] = n]
  <2>1. \A x \in TaskIds \ {t} : Due(x, k, a)' = Due(x, k, a)
    BY DEF Due
  <2> QED
    BY <2>1 DEF DueOf
<1>3. Total([due EXCEPT ![t] = n]) = Total(due) + n
  <2> HIDE DEF due
  <2> QED
    BY <1>1, EntryFilled
<1> QED
  BY <1>2, <1>3

\* An opened task is not due to anyone yet.
LEMMA OpensDue ==
    ASSUME IInv, DueTotals, NEW t \in TaskIds, Opens(t)
    PROVE  DueTotals'
<1>1. tasks[t].status = "FUNDED"
  BY DEF Opens, IInv, TaskSlots, NoTask, StorageTypeOK, TypeOK
<1>2. ASSUME NEW k \in Tokens, NEW a \in Accounts
      PROVE  Owed'[k][a] = Total(DueOf(k, a)')
  <2>1. Due(t, k, a)' = 0
    BY DEF Opens, Due
  <2>2. Owed'[k][a] = Owed[k][a] + 0
    BY OwedType DEF Opens, IInv
  <2>3. \A x \in TaskIds \ {t} :
           tasks'[x] = tasks[x] /\ receipts'[x] = receipts[x]
    BY DEF Opens, IInv, TypeOK, StorageTypeOK
  <2> QED
    BY <1>1, <2>1, <2>2, <2>3, DueGrows DEF DueTotals
<1> QED
  BY <1>2 DEF DueTotals

\* A settled task is due to the three wallets of its receipt.
LEMMA PaysDue ==
    ASSUME IInv, DueTotals, NEW t \in TaskIds, Pays(t)
    PROVE  DueTotals'
<1> DEFINE r == ReceiptOf(t)
<1>1. /\ tasks \in [TaskIds -> Task]
      /\ receipts \in [TaskIds -> Receipt]
  BY DEF IInv, TypeOK, StorageTypeOK, ObservationTypeOK
<1>2. /\ tasks[t].status = "FUNDED"
      /\ tasks' = [tasks EXCEPT ![t].status = "SETTLED"]
      /\ receipts' = [receipts EXCEPT ![t] = r]
      /\ r \in PaidReceipt
      /\ \A k \in Tokens, a \in Accounts :
            Owed'[k][a] = Owed[k][a]
               + (IF k = tasks[t].token THEN Gain(r, Legs, a) ELSE 0)
  BY DEF Pays, Closes
<1> HIDE DEF r
<1>3. /\ tasks'[t].status = "SETTLED" /\ tasks'[t].token = tasks[t].token
      /\ receipts'[t] = r
  BY <1>1, <1>2 DEF Task
<1>4. \A x \in TaskIds \ {t} :
         tasks'[x] = tasks[x] /\ receipts'[x] = receipts[x]
  BY <1>1, <1>2
<1>5. ASSUME NEW k \in Tokens, NEW a \in Accounts
      PROVE  Owed'[k][a] = Total(DueOf(k, a)')
  <2> DEFINE n == IF k = tasks[t].token THEN Gain(r, Legs, a) ELSE 0
  <2>1. n \in Nat
    <3>1. Gain(r, {}, a) \in Nat /\ Gain(r, Legs, a) \in Nat
      BY <1>2, GainSplit
    <3> QED
      BY <3>1
  <2>2. Due(t, k, a)' = n
    <3>1. Gain(r, Legs, a) =
             (IF r.owner = a THEN r.payout ELSE 0)
             + (IF r.protocolWallet = a THEN r.protocolFee ELSE 0)
             + (IF r.devWallet = a THEN r.devFee ELSE 0)
      BY <1>2, GainOfAll
    <3> QED
      BY <1>3, <3>1 DEF Due
  <2>3. Owed'[k][a] = Owed[k][a] + n
    BY <1>2
  <2> HIDE DEF n
  <2> QED
    BY <1>2, <1>4, <2>1, <2>2, <2>3, DueGrows DEF DueTotals
<1> QED
  BY <1>5 DEF DueTotals

\* A reclaimed task is due to its client.
LEMMA ReturnsDue ==
    ASSUME IInv, DueTotals, NEW t \in TaskIds, Returns(t)
    PROVE  DueTotals'
<1>1. tasks \in [TaskIds -> Task]
  BY DEF IInv, TypeOK, StorageTypeOK
<1>2. /\ tasks[t].status = "FUNDED" /\ tasks[t].amount \in Nat
      /\ tasks' = [tasks EXCEPT ![t].status = "RECLAIMED"]
      /\ receipts' = receipts
      /\ \A k \in Tokens, a \in Accounts :
            Owed'[k][a] = Owed[k][a]
               + (IF k = tasks[t].token /\ a = tasks[t].client
                  THEN tasks[t].amount ELSE 0)
  BY DEF Returns, Closes
<1>3. /\ tasks'[t].status = "RECLAIMED" /\ tasks'[t].token = tasks[t].token
      /\ tasks'[t].client = tasks[t].client
      /\ tasks'[t].amount = tasks[t].amount
  BY <1>1, <1>2 DEF Task
<1>4. \A x \in TaskIds \ {t} :
         tasks'[x] = tasks[x] /\ receipts'[x] = receipts[x]
  BY <1>1, <1>2
<1>5. ASSUME NEW k \in Tokens, NEW a \in Accounts
      PROVE  Owed'[k][a] = Total(DueOf(k, a)')
  <2> DEFINE n == IF k = tasks[t].token /\ a = tasks[t].client
                  THEN tasks[t].amount ELSE 0
  <2>1. n \in Nat
    BY <1>2
  <2>2. Due(t, k, a)' = n
    BY <1>3 DEF Due
  <2>3. Owed'[k][a] = Owed[k][a] + n
    BY <1>2
  <2> HIDE DEF n
  <2> QED
    BY <1>2, <1>4, <2>1, <2>2, <2>3, DueGrows DEF DueTotals
<1> QED
  BY <1>5 DEF DueTotals

LEMMA StepDue == IInv /\ DueTotals /\ [Next]_vars => DueTotals'
<1> SUFFICES ASSUME IInv, DueTotals, [Next]_vars PROVE DueTotals'
  OBVIOUS
<1>1. CASE \E t \in TaskIds : Opens(t) \/ Pays(t) \/ Returns(t)
  BY <1>1, OpensDue, PaysDue, ReturnsDue
<1>2. CASE Stays
  BY <1>2 DEF Stays, DueTotals, DueOf, Due
<1> QED
  BY <1>1, <1>2, StepKinds

LEMMA InitDue == Init => DueTotals
<1> SUFFICES ASSUME Init, NEW k \in Tokens, NEW a \in Accounts
             PROVE  Owed[k][a] = Total(DueOf(k, a))
  BY DEF DueTotals
<1>1. Owed[k][a] = 0
  BY DEF Init, FeeInit, Owed, InFlight
<1>2. \A t \in TaskIds : DueOf(k, a)[t] = 0
  BY DEF Init, FeeInit, NoTask, DueOf, Due
<1>3. DueOf(k, a) \in [TaskIds -> Nat]
  BY InitInv, DueType
<1>4. Total(DueOf(k, a)) = 0
  BY <1>2, <1>3, TotalOfNothing
<1> QED
  BY <1>1, <1>4

\* What an account was sent, is credited and is underway to it is its share
\* of the tasks that closed, as the TaskSettled events and the reclaims state
\* it: no refused transfer, reverted withdrawal or second credit loses or
\* doubles anybody's money.
THEOREM EveryoneDue == Spec => []EveryoneGetsTheirDue
<1>1. DueTotals => EveryoneGetsTheirDue
  BY DEF DueTotals, EveryoneGetsTheirDue, Owed, DueOf
<1> QED
  BY <1>1, Invariance, InitDue, StepDue, PTL DEF Spec
===============================================================================
