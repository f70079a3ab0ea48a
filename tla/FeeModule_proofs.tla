---------------------------- MODULE FeeModule_proofs --------------------------
(***************************************************************************)
(* The escrow is solvent, for every set of accounts and tokens, every fee  *)
(* and every number of tasks.                                              *)
(***************************************************************************)
EXTENDS FeeModule, Totals_proofs

\* A slot below nextTaskId was written by a funding; the others never were,
\* so they hold no money and no client can name them.
TaskSlots ==
    \A t \in TaskIds :
        IF t < nextTaskId
        THEN tasks[t].client \in Accounts /\ tasks[t].agent \in AgentIds
        ELSE tasks[t] = NoTask

\* While a withdrawal is out, its credit is cleared: what a revert restores
\* is not counted twice.
FrameCleared == frame # NoFrame => pending[frame.token][frame.account] = 0

GenesisCountExact == genesisAgentCount = Cardinality(genesisAgents)

\* All of TypeOK but the sign of the balances, which follows from solvency.
ShapeOK ==
    /\ NFTTypeOK
    /\ StorageTypeOK
    /\ ObservationTypeOK
    /\ now \in 0 .. MaxTime
    /\ balance \in [Tokens -> Int]

\* The inductive invariant but for the sign of the balances.
CoreInv ==
    /\ ShapeOK
    /\ TaskSlots
    /\ FrameCleared
    /\ GenesisCountExact
    /\ Solvency

\* The inductive invariant.
IInv ==
    /\ TypeOK
    /\ TaskSlots
    /\ FrameCleared
    /\ GenesisCountExact
    /\ Solvency

-------------------------------------------------------------------------------
\* Arithmetic of a settlement

\* A fee of at most MAX_FEE_BPS is at most the amount.
LEMMA FeeBound ==
    ASSUME NEW amount \in Nat, NEW bps \in 0 .. MAX_FEE_BPS
    PROVE  /\ (amount * bps) \div 10000 \in 0 .. amount
           /\ ((amount * bps) \div 10000) * 10000 <= amount * MAX_FEE_BPS
<1> DEFINE x == amount * bps
           fee == x \div 10000
<1>1. x \in Nat /\ x <= amount * 1000
  BY DEF MAX_FEE_BPS
<1> HIDE DEF x
<1>2. fee \in Nat /\ fee * 10000 <= x
  BY <1>1
<1> HIDE DEF fee
<1>3. fee \in 0 .. amount /\ fee * 10000 <= amount * 1000
  BY <1>1, <1>2
<1> QED
  BY <1>3 DEF MAX_FEE_BPS, fee, x

\* The share of the protocol is at most the fee.
LEMMA ShareBound ==
    ASSUME NEW fee \in Nat
    PROVE  ProtocolShare(fee) \in 0 .. fee
  BY DEF ProtocolShare

\* The event of a settlement is well formed, and its parts are the whole
\* amount.
LEMMA ReceiptParts ==
    ASSUME TypeOK, NEW t \in TaskIds, tasks[t].agent \in AgentIds
    PROVE  LET r == ReceiptOf(t)
           IN  /\ r \in Receipt
               /\ r.owner = agentOwner[tasks[t].agent]
               /\ r.protocolWallet \in Accounts /\ r.devWallet \in Accounts
               /\ r.payout + r.protocolFee + r.devFee = tasks[t].amount
               /\ (r.protocolFee + r.devFee) * 10000
                    <= tasks[t].amount * MAX_FEE_BPS
<1> DEFINE amount == tasks[t].amount
           exempt == GenesisExempt(tasks[t].client)
           fee == TotalFee(amount, exempt)
           share == ProtocolShare(fee)
<1>1. amount \in Nat /\ exempt \in BOOLEAN
  BY DEF TypeOK, StorageTypeOK, Task, GenesisExempt
<1>2. fee \in 0 .. amount /\ fee * 10000 <= amount * MAX_FEE_BPS
  <2>1. CASE exempt
    BY <1>1, <2>1 DEF TotalFee, MAX_FEE_BPS
  <2>2. CASE ~exempt
    <3>1. feeBps \in 0 .. MAX_FEE_BPS
      BY DEF TypeOK, StorageTypeOK
    <3>2. fee = (amount * feeBps) \div 10000
      BY <2>2 DEF TotalFee
    <3> QED
      BY <1>1, <3>1, <3>2, FeeBound
  <2> QED
    BY <2>1, <2>2
<1>3. share \in 0 .. fee
  BY <1>2, ShareBound
<1>4. ReceiptOf(t) =
        [owner |-> agentOwner[tasks[t].agent],
         protocolWallet |-> protocolWallet, devWallet |-> devWallet,
         payout |-> amount - fee, protocolFee |-> share,
         devFee |-> fee - share, exempt |-> exempt]
  BY DEF ReceiptOf
<1>5. /\ agentOwner[tasks[t].agent] \in Addresses
      /\ protocolWallet \in Accounts /\ devWallet \in Accounts
  BY DEF TypeOK, NFTTypeOK, StorageTypeOK, Addresses
<1> HIDE DEF amount, exempt, fee, share
<1>6. amount - fee \in Nat /\ fee - share \in Nat /\ share \in Nat
  BY <1>1, <1>2, <1>3
<1>7. /\ (amount - fee) + share + (fee - share) = amount
      /\ (share + (fee - share)) * 10000 <= amount * MAX_FEE_BPS
  BY <1>1, <1>2, <1>3
<1> QED
  BY <1>1, <1>4, <1>5, <1>6, <1>7 DEF Receipt, Addresses, amount

-------------------------------------------------------------------------------
\* Ledgers

\* Money credited to an account is added to the total of the ledger.
LEMMA CreditTotal ==
    ASSUME NEW ledger \in [Accounts -> Nat], NEW to \in Accounts,
           NEW amount \in Nat
    PROVE  /\ Credit(ledger, to, amount) \in [Accounts -> Nat]
           /\ Total(Credit(ledger, to, amount)) = Total(ledger) + amount
<1>1. IsFiniteSet(Accounts)
  BY FeeConstantsAssumption
<1>2. ledger[to] + amount \in Nat
  OBVIOUS
<1>3. Credit(ledger, to, amount) = [ledger EXCEPT ![to] = ledger[to] + amount]
  BY DEF Credit
<1>4. Total([ledger EXCEPT ![to] = ledger[to] + amount])
        = Total(ledger) - ledger[to] + (ledger[to] + amount)
  BY <1>1, <1>2, TotalUpdate
<1>5. Total(ledger) \in Nat /\ ledger[to] \in Nat
  BY <1>1, TotalBound
<1>6. Total([ledger EXCEPT ![to] = ledger[to] + amount])
        = Total(ledger) + amount
  BY <1>2, <1>4, <1>5
<1>7. [ledger EXCEPT ![to] = ledger[to] + amount] \in [Accounts -> Nat]
  BY <1>2
<1> QED
  BY <1>3, <1>6, <1>7

\* The three transfers of a settlement add the chosen legs to a ledger.
LEMMA AddLegsTotal ==
    ASSUME NEW ledger \in [Accounts -> Nat], NEW r \in Receipt,
           r.owner \in Accounts, r.protocolWallet \in Accounts,
           r.devWallet \in Accounts, NEW chosen \in SUBSET Legs
    PROVE  /\ AddLegs(ledger, r, chosen) \in [Accounts -> Nat]
           /\ Total(AddLegs(ledger, r, chosen))
                = Total(ledger) + AmountOf(r, chosen)
<1> DEFINE p1 == Part(r.payout, "agent", chosen)
           p2 == Part(r.protocolFee, "protocol", chosen)
           p3 == Part(r.devFee, "dev", chosen)
           l1 == Credit(ledger, r.owner, p1)
           l2 == Credit(l1, r.protocolWallet, p2)
           l3 == Credit(l2, r.devWallet, p3)
<1>1. p1 \in Nat /\ p2 \in Nat /\ p3 \in Nat
  BY DEF Receipt, Part
<1>2. AddLegs(ledger, r, chosen) = l3 /\ AmountOf(r, chosen) = p1 + p2 + p3
  BY DEF AddLegs, AmountOf
<1> HIDE DEF p1, p2, p3
<1>3. l1 \in [Accounts -> Nat] /\ Total(l1) = Total(ledger) + p1
  BY <1>1, CreditTotal
<1> HIDE DEF l1
<1>4. l2 \in [Accounts -> Nat] /\ Total(l2) = Total(l1) + p2
  BY <1>1, <1>3, CreditTotal
<1> HIDE DEF l2
<1>5. l3 \in [Accounts -> Nat] /\ Total(l3) = Total(l2) + p3
  BY <1>1, <1>4, CreditTotal
<1> HIDE DEF l3
<1>6. Total(ledger) \in Nat
  BY FeeConstantsAssumption, TotalBound
<1> QED
  BY <1>1, <1>2, <1>3, <1>4, <1>5, <1>6

\* A leg is sent or credited, never both and never neither.
LEMMA LegsSplit ==
    ASSUME NEW r \in Receipt, NEW refusing \in SUBSET Legs
    PROVE  /\ AmountOf(r, refusing) \in Nat
           /\ AmountOf(r, Legs \ refusing) \in Nat
           /\ AmountOf(r, refusing) + AmountOf(r, Legs \ refusing)
                = r.payout + r.protocolFee + r.devFee
  BY DEF AmountOf, Part, Legs, Receipt

\* Writing one slot of the tasks changes what is held for the token of the
\* slot, and nothing of the other tokens.
LEMMA EscrowOfSlot ==
    ASSUME TypeOK, NEW t \in TaskIds, NEW new \in Task,
           tasks' = [tasks EXCEPT ![t] = new], NEW k \in Tokens
    PROVE  LET held(x) == IF x.status = "FUNDED" /\ x.token = k
                          THEN x.amount ELSE 0
           IN  Total(EscrowOf(k)')
                 = Total(EscrowOf(k)) - held(tasks[t]) + held(new)
<1> DEFINE held(x) == IF x.status = "FUNDED" /\ x.token = k
                      THEN x.amount ELSE 0
<1>1. IsFiniteSet(TaskIds)
  BY FeeConstantsAssumption, FS_Interval DEF TaskIds
<1>2. tasks \in [TaskIds -> Task]
  BY DEF TypeOK, StorageTypeOK
<1>3. EscrowOf(k) = [x \in TaskIds |-> held(tasks[x])]
  BY DEF EscrowOf
<1>4. \A x \in Task : held(x) \in Nat
  BY DEF Task
<1>5. EscrowOf(k) \in [TaskIds -> Nat] /\ EscrowOf(k)[t] = held(tasks[t])
  BY <1>2, <1>3, <1>4
<1>6. EscrowOf(k)' = [EscrowOf(k) EXCEPT ![t] = held(new)]
  <2>1. EscrowOf(k)' = [x \in TaskIds |-> held(tasks'[x])]
    BY DEF EscrowOf
  <2> QED
    BY <1>2, <1>3, <2>1
<1>7. held(new) \in Nat
  BY <1>4
<1> HIDE DEF held
<1>8. Total([EscrowOf(k) EXCEPT ![t] = held(new)])
        = Total(EscrowOf(k)) - EscrowOf(k)[t] + held(new)
  BY <1>1, <1>5, <1>7, TotalUpdate
<1> QED
  BY <1>5, <1>6, <1>8 DEF held

\* A step that leaves the tasks and the money alone keeps the contract
\* solvent.
LEMMA UnchangedMoney ==
    ASSUME Solvency, UNCHANGED <<tasks, pending, balance>>
    PROVE  Solvency'
<1>1. \A k \in Tokens : EscrowOf(k)' = EscrowOf(k)
  BY DEF EscrowOf
<1> QED
  BY <1>1 DEF Solvency

\* The totals of the open tasks and of the credits are natural numbers.
LEMMA HeldNatural ==
    ASSUME StorageTypeOK, NEW k \in Tokens
    PROVE  Total(EscrowOf(k)) \in Nat /\ Total(pending[k]) \in Nat
<1>1. Total(EscrowOf(k)) \in Nat
  <2>1. IsFiniteSet(TaskIds)
    BY FeeConstantsAssumption, FS_Interval DEF TaskIds
  <2>2. EscrowOf(k) \in [TaskIds -> Nat]
    BY DEF StorageTypeOK, Task, EscrowOf
  <2> QED
    BY <2>1, <2>2, TotalBound
<1>2. Total(pending[k]) \in Nat
  BY FeeConstantsAssumption, TotalBound DEF StorageTypeOK
<1> QED
  BY <1>1, <1>2

\* A solvent contract holds a natural number of units of each token.
LEMMA CoreSuffices ==
    ASSUME CoreInv
    PROVE  IInv
<1>3. \A k \in Tokens : balance[k] \in Nat
  BY HeldNatural DEF CoreInv, ShapeOK, Solvency
<1>4. balance \in [Tokens -> Nat]
  BY <1>3 DEF CoreInv, ShapeOK
<1> QED
  BY <1>4 DEF CoreInv, IInv, ShapeOK, TypeOK

-------------------------------------------------------------------------------
\* One lemma per action

\* Funding a task keeps the invariant: the slot written was empty, and what the
\* contract receives is what the task is worth.  The agent may be registered
\* in the same transaction.
LEMMA FundPreserves ==
    ASSUME IInv,
           NEW g \in AgentIds, NEW k \in Tokens, NEW amount \in Nat,
           NEW duration \in Nat, NEW client \in Accounts, NEW received \in Int,
           EscrowFunded(g, k, amount, duration, client, received),
           NFTTypeOK'
    PROVE  CoreInv'
<1> DEFINE new == [agent |-> g, client |-> client, token |-> k,
                   amount |-> amount, status |-> "FUNDED",
                   deadline |-> now + duration]
<1> USE DEF IInv
<1>1. new \in Task /\ nextTaskId \in TaskIds
  BY DEF Task, Addresses, EscrowFunded, TypeOK
<1>2. tasks' = [tasks EXCEPT ![nextTaskId] = new]
  BY DEF EscrowFunded
<1>3. balance' = [balance EXCEPT ![k] = balance[k] + amount]
  BY DEF EscrowFunded, PullExact, TypeOK
<1>4. ShapeOK'
  <2>1. StorageTypeOK'
    <3>1. tasks' \in [TaskIds -> Task]
      <4> HIDE DEF new
      <4> QED
        BY <1>1, <1>2 DEF TypeOK, StorageTypeOK
    <3>2. nextTaskId' \in 1 .. MaxTasks + 1
      BY <1>1, FeeConstantsAssumption DEF EscrowFunded, TaskIds
    <3> QED
      BY <3>1, <3>2
      DEF EscrowFunded, configVars, genesisVars, TypeOK, StorageTypeOK
  <2>2. ObservationTypeOK' /\ now' \in 0 .. MaxTime
    BY DEF EscrowFunded, TypeOK, ObservationTypeOK
  <2>3. balance' \in [Tokens -> Int]
    BY <1>3 DEF TypeOK
  <2> QED
    BY <2>1, <2>2, <2>3 DEF ShapeOK
<1>5. TaskSlots'
  <2>1. nextTaskId' = nextTaskId + 1 /\ nextTaskId \in Nat
    BY <1>1, FeeConstantsAssumption DEF EscrowFunded, TaskIds
  <2>2. \A t \in TaskIds :
          tasks'[t] = IF t = nextTaskId THEN new ELSE tasks[t]
    <3> HIDE DEF new
    <3> QED
      BY <1>1, <1>2 DEF TypeOK, StorageTypeOK
  <2>3. new.client \in Accounts /\ new.agent \in AgentIds
    OBVIOUS
  <2> HIDE DEF new
  <2> QED
    BY <2>1, <2>2, <2>3 DEF TaskSlots, TaskIds
<1>6. FrameCleared' /\ GenesisCountExact'
  BY DEF EscrowFunded, genesisVars, FrameCleared, GenesisCountExact
<1>7. Solvency'
  <2> SUFFICES ASSUME NEW j \in Tokens
               PROVE  balance'[j] = Total(EscrowOf(j)') + Total(pending'[j])
    BY DEF Solvency
  <2>1. tasks[nextTaskId] = NoTask
    BY <1>1 DEF TaskSlots, TaskIds
  <2>2. Total(EscrowOf(j)')
          = Total(EscrowOf(j)) - 0 + (IF k = j THEN amount ELSE 0)
    <3> HIDE DEF IInv
    <3> HIDE DEF new
    <3>1. Total(EscrowOf(j)')
          = Total(EscrowOf(j))
             - (IF NoTask.status = "FUNDED" /\ NoTask.token = j
                THEN NoTask.amount ELSE 0)
             + (IF new.status = "FUNDED" /\ new.token = j
                THEN new.amount ELSE 0)
      BY <1>1, <1>2, <2>1, EscrowOfSlot DEF IInv
    <3> QED
      BY <3>1 DEF NoTask, new
  <2>3. pending' = pending
    BY DEF EscrowFunded
  <2>4. balance[j] = Total(EscrowOf(j)) + Total(pending[j])
    BY DEF Solvency
  <2>5. Total(EscrowOf(j)) \in Nat /\ Total(pending[j]) \in Nat
    BY HeldNatural DEF TypeOK
  <2>6. balance'[j] = balance[j] + (IF k = j THEN amount ELSE 0)
    BY <1>3 DEF TypeOK
  <2> QED
    BY <2>2, <2>3, <2>4, <2>5, <2>6
<1> QED
  BY <1>4, <1>5, <1>6, <1>7 DEF CoreInv

\* Closing a task moves its amount out of the escrow: what is not sent is
\* credited.
LEMMA ClosePreservesSolvency ==
    ASSUME IInv, NEW t \in TaskIds, t < nextTaskId, tasks[t].status = "FUNDED",
           NEW status \in {"SETTLED", "RECLAIMED"},
           NEW credits \in [Accounts -> Nat], NEW sent \in Nat,
           Total(credits) + sent = Total(pending[tasks[t].token]) + tasks[t].amount,
           tasks' = [tasks EXCEPT ![t].status = status],
           pending' = [pending EXCEPT ![tasks[t].token] = credits],
           balance' = [balance EXCEPT ![tasks[t].token] = @ - sent]
    PROVE  Solvency'
<1> DEFINE k == tasks[t].token
           new == [tasks[t] EXCEPT !.status = status]
<1> USE DEF IInv
<1>1. /\ tasks[t] \in Task /\ k \in Tokens /\ tasks[t].amount \in Nat
      /\ new \in Task /\ new.token = k /\ new.status # "FUNDED"
  BY DEF TypeOK, StorageTypeOK, Task
<1>2. tasks' = [tasks EXCEPT ![t] = new]
  OBVIOUS
<1> SUFFICES ASSUME NEW j \in Tokens
             PROVE  balance'[j] = Total(EscrowOf(j)') + Total(pending'[j])
  BY DEF Solvency
<1>3. Total(EscrowOf(j)')
        = Total(EscrowOf(j)) - (IF k = j THEN tasks[t].amount ELSE 0)
  <2> HIDE DEF new, IInv
  <2>1. Total(EscrowOf(j)')
          = Total(EscrowOf(j))
             - (IF tasks[t].status = "FUNDED" /\ tasks[t].token = j
                THEN tasks[t].amount ELSE 0)
             + (IF new.status = "FUNDED" /\ new.token = j
                THEN new.amount ELSE 0)
    BY <1>1, <1>2, EscrowOfSlot DEF IInv
  <2>2. Total(EscrowOf(j)) \in Nat
    BY HeldNatural DEF IInv, TypeOK
  <2> QED
    BY <1>1, <2>1, <2>2
<1>4. balance[j] = Total(EscrowOf(j)) + Total(pending[j])
  BY DEF Solvency
<1>5. Total(EscrowOf(j)) \in Nat /\ Total(pending[j]) \in Nat
  BY HeldNatural DEF TypeOK
<1>6. /\ balance'[j] = balance[j] - (IF k = j THEN sent ELSE 0)
      /\ pending'[j] = IF k = j THEN credits ELSE pending[j]
  BY <1>1 DEF TypeOK, StorageTypeOK
<1>7. CASE k = j
  <2>1. Total(credits) \in Nat
    BY FeeConstantsAssumption, TotalBound
  <2>2. Total(credits) + sent = Total(pending[j]) + tasks[t].amount
    BY <1>7
  <2>3. Total(pending'[j]) = Total(credits)
    BY <1>6, <1>7
  <2> QED
    BY <1>1, <1>3, <1>4, <1>5, <1>6, <1>7, <2>1, <2>2, <2>3
<1>8. CASE k # j
  BY <1>3, <1>4, <1>5, <1>6, <1>8
<1> QED
  BY <1>7, <1>8

\* A slot keeps its client and its agent when its task is closed.
LEMMA ClosePreservesSlots ==
    ASSUME IInv, NEW t \in TaskIds, t < nextTaskId,
           NEW status \in {"SETTLED", "RECLAIMED"},
           tasks' = [tasks EXCEPT ![t].status = status],
           UNCHANGED nextTaskId
    PROVE  tasks' \in [TaskIds -> Task] /\ TaskSlots'
<1>1. tasks \in [TaskIds -> Task]
  BY DEF IInv, TypeOK, StorageTypeOK
<1>2. \A x \in TaskIds :
        /\ tasks'[x].client = tasks[x].client
        /\ tasks'[x].agent = tasks[x].agent
        /\ x # t => tasks'[x] = tasks[x]
  BY <1>1 DEF Task
<1>3. tasks' \in [TaskIds -> Task]
  BY <1>1 DEF Task
<1>4. TaskSlots'
  <2>1. TaskSlots
    BY DEF IInv
  <2> QED
    BY <1>2, <2>1 DEF TaskSlots
<1> QED
  BY <1>3, <1>4

\* Only a slot that was funded can be named by a client.
LEMMA NamedSlotFunded ==
    ASSUME IInv, NEW t \in TaskIds, NEW caller \in Accounts,
           tasks[t].client = caller
    PROVE  t < nextTaskId /\ tasks[t].agent \in AgentIds
<1>1. NoTask.client = ZeroAddr
  BY DEF NoTask
<1> QED
  BY <1>1, AccountsAssumption DEF IInv, TaskSlots

\* Settling a task keeps the invariant, whichever transfers are refused.
LEMMA SettlePreserves ==
    ASSUME IInv, NEW t \in TaskIds, NEW caller \in Accounts,
           NEW refusing \in SUBSET Legs,
           SettleEscrow(t, caller, refusing)
    PROVE  CoreInv'
<1> DEFINE k == tasks[t].token
           r == ReceiptOf(t)
           credits == AddLegs(pending[k], r, refusing)
           gains == AddLegs(delivered[k], r, Legs \ refusing)
           sent == AmountOf(r, Legs \ refusing)
<1>1. /\ tasks[t].status = "FUNDED"
      /\ tasks[t].client = caller
      /\ AgentExists(tasks[t].agent)
  BY DEF SettleEscrow, Settleable
<1>2. t < nextTaskId /\ tasks[t].agent \in AgentIds
  BY <1>1, NamedSlotFunded
<1>3. /\ r \in Receipt
      /\ r.owner \in Accounts
      /\ r.protocolWallet \in Accounts /\ r.devWallet \in Accounts
      /\ r.payout + r.protocolFee + r.devFee = tasks[t].amount
  <2>1. agentOwner[tasks[t].agent] \in Accounts
    BY <1>1, <1>2 DEF IInv, TypeOK, NFTTypeOK, AgentExists, Addresses
  <2> QED
    BY <1>2, <2>1, ReceiptParts DEF IInv
<1>4. k \in Tokens /\ tasks[t].amount \in Nat
  BY DEF IInv, TypeOK, StorageTypeOK, Task
<1>5. /\ pending[k] \in [Accounts -> Nat]
      /\ delivered[k] \in [Accounts -> Nat]
  BY <1>4 DEF IInv, TypeOK, StorageTypeOK, ObservationTypeOK
<1>6. /\ tasks' = [tasks EXCEPT ![t].status = "SETTLED"]
      /\ pending' = [pending EXCEPT ![k] = credits]
      /\ delivered' = [delivered EXCEPT ![k] = gains]
      /\ balance' = [balance EXCEPT ![k] = @ - sent]
      /\ receipts' = [receipts EXCEPT ![t] = r]
      /\ totalFees' = [totalFees EXCEPT ![k] = @ + r.protocolFee + r.devFee]
      /\ frame = NoFrame /\ frame' = NoFrame
  BY DEF SettleEscrow, NonReentrant
<1> HIDE DEF r, k
<1>7. credits \in [Accounts -> Nat] /\ gains \in [Accounts -> Nat]
  BY <1>3, <1>5, AddLegsTotal
<1>8. /\ sent \in Nat
      /\ Total(credits) + sent = Total(pending[k]) + tasks[t].amount
  <2>1. Total(credits) = Total(pending[k]) + AmountOf(r, refusing)
    BY <1>3, <1>5, AddLegsTotal
  <2>2. /\ AmountOf(r, refusing) \in Nat /\ sent \in Nat
        /\ AmountOf(r, refusing) + sent = r.payout + r.protocolFee + r.devFee
    BY <1>3, LegsSplit
  <2>3. Total(pending[k]) \in Nat
    BY <1>4, HeldNatural DEF IInv, TypeOK
  <2> HIDE DEF credits, sent
  <2> QED
    BY <1>3, <2>1, <2>2, <2>3
<1> HIDE DEF credits, gains, sent
<1>9. Solvency'
  <2> USE DEF k
  <2> QED
    BY <1>1, <1>2, <1>6, <1>7, <1>8, ClosePreservesSolvency
<1>10. tasks' \in [TaskIds -> Task] /\ TaskSlots'
  BY <1>2, <1>6, ClosePreservesSlots DEF SettleEscrow
<1>11. ShapeOK'
  <2>1. NFTTypeOK'
    BY DEF SettleEscrow, nftVars, IInv, TypeOK, NFTTypeOK
  <2>2. pending' \in [Tokens -> [Accounts -> Nat]]
    BY <1>4, <1>6, <1>7 DEF IInv, TypeOK, StorageTypeOK
  <2>3. totalFees' \in [Tokens -> Nat]
    <3>1. r.protocolFee \in Nat /\ r.devFee \in Nat
      BY <1>3 DEF Receipt
    <3> QED
      BY <1>4, <1>6, <3>1 DEF IInv, TypeOK, StorageTypeOK
  <2>4. genesisTasksUsed' \in [Accounts -> 0 .. GENESIS_FREE_TASKS]
    <3>1. genesisTasksUsed' =
            [genesisTasksUsed EXCEPT ![caller] = @ + (IF r.exempt THEN 1 ELSE 0)]
      BY DEF SettleEscrow, r
    <3>2. r.exempt = GenesisExempt(caller)
      BY <1>1 DEF r, ReceiptOf
    <3>3. GENESIS_FREE_TASKS \in Nat
      BY FeeConstantsAssumption
    <3>4. genesisTasksUsed \in [Accounts -> 0 .. GENESIS_FREE_TASKS]
      BY DEF IInv, TypeOK, StorageTypeOK
    <3>5. CASE r.exempt
      <4>1. genesisTasksUsed[caller] < GENESIS_FREE_TASKS
        BY <3>2, <3>5 DEF GenesisExempt
      <4> QED
        BY <3>1, <3>3, <3>4, <3>5, <4>1
    <3>6. CASE ~r.exempt
      BY <3>1, <3>3, <3>4, <3>6
    <3> QED
      BY <3>5, <3>6
  <2>5. StorageTypeOK'
    BY <1>6, <1>10, <2>2, <2>3, <2>4
    DEF SettleEscrow, configVars, IInv, TypeOK, StorageTypeOK
  <2>6. ObservationTypeOK'
    BY <1>3, <1>4, <1>6, <1>7 DEF IInv, TypeOK, ObservationTypeOK
  <2>7. balance' \in [Tokens -> Int] /\ now' \in 0 .. MaxTime
    <3>1. balance \in [Tokens -> Nat] /\ now \in 0 .. MaxTime /\ now' = now
      BY DEF SettleEscrow, IInv, TypeOK
    <3>2. balance' = [balance EXCEPT ![k] = @ - sent]
      BY <1>6
    <3> QED
      BY <1>4, <1>8, <3>1, <3>2
  <2> QED
    BY <2>1, <2>5, <2>6, <2>7 DEF ShapeOK
<1>12. FrameCleared' /\ GenesisCountExact'
  BY <1>6 DEF SettleEscrow, IInv, FrameCleared, GenesisCountExact
<1> QED
  BY <1>9, <1>10, <1>11, <1>12 DEF CoreInv

\* Reclaiming a task keeps the invariant, refused or not.
LEMMA ReclaimPreserves ==
    ASSUME IInv, NEW t \in TaskIds, NEW caller \in Accounts,
           NEW refuses \in BOOLEAN,
           ReclaimTask(t, caller, refuses)
    PROVE  CoreInv'
<1> DEFINE k == tasks[t].token
           amount == tasks[t].amount
           kept == IF refuses THEN amount ELSE 0
           sent == IF refuses THEN 0 ELSE amount
           credits == Credit(pending[k], caller, kept)
           gains == Credit(delivered[k], caller, sent)
<1>1. tasks[t].status = "FUNDED" /\ tasks[t].client = caller
  BY DEF ReclaimTask, Reclaimable
<1>2. t < nextTaskId
  BY <1>1, NamedSlotFunded
<1>3. k \in Tokens /\ amount \in Nat
  BY DEF IInv, TypeOK, StorageTypeOK, Task
<1>4. pending[k] \in [Accounts -> Nat] /\ delivered[k] \in [Accounts -> Nat]
  BY <1>3 DEF IInv, TypeOK, StorageTypeOK, ObservationTypeOK
<1>5. /\ tasks' = [tasks EXCEPT ![t].status = "RECLAIMED"]
      /\ pending' = [pending EXCEPT ![k] = credits]
      /\ delivered' = [delivered EXCEPT ![k] = gains]
      /\ balance' = [balance EXCEPT ![k] = @ - sent]
      /\ nextTaskId' = nextTaskId
      /\ frame = NoFrame /\ frame' = NoFrame
  BY DEF ReclaimTask, NonReentrant
<1>6. kept \in Nat /\ sent \in Nat /\ kept + sent = amount
  BY <1>3
<1> HIDE DEF kept, sent, amount
<1>7. /\ credits \in [Accounts -> Nat] /\ gains \in [Accounts -> Nat]
      /\ Total(credits) = Total(pending[k]) + kept
  BY <1>4, <1>6, CreditTotal
<1> HIDE DEF credits, gains
<1>8. Total(credits) + sent = Total(pending[k]) + tasks[t].amount
  <2>1. Total(pending[k]) \in Nat
    BY <1>3, HeldNatural DEF IInv, TypeOK
  <2> QED
    BY <1>6, <1>7, <2>1 DEF amount
<1>9. Solvency'
  BY <1>1, <1>2, <1>5, <1>6, <1>7, <1>8, ClosePreservesSolvency
<1>10. tasks' \in [TaskIds -> Task] /\ TaskSlots'
  BY <1>2, <1>5, ClosePreservesSlots
<1> HIDE DEF k
<1>11. ShapeOK'
  <2>1. NFTTypeOK'
    BY DEF ReclaimTask, nftVars, IInv, TypeOK, NFTTypeOK
  <2>2. pending' \in [Tokens -> [Accounts -> Nat]]
    BY <1>3, <1>5, <1>7 DEF IInv, TypeOK, StorageTypeOK
  <2>3. StorageTypeOK'
    BY <1>5, <1>10, <2>2
    DEF ReclaimTask, configVars, genesisVars, IInv, TypeOK, StorageTypeOK
  <2>4. ObservationTypeOK'
    BY <1>3, <1>5, <1>7
    DEF ReclaimTask, IInv, TypeOK, ObservationTypeOK
  <2>5. balance' \in [Tokens -> Int] /\ now' \in 0 .. MaxTime
    <3>1. balance \in [Tokens -> Nat] /\ now \in 0 .. MaxTime /\ now' = now
      BY DEF ReclaimTask, IInv, TypeOK
    <3>2. balance' = [balance EXCEPT ![k] = @ - sent]
      BY <1>5
    <3> QED
      BY <1>3, <1>6, <3>1, <3>2
  <2> QED
    BY <2>1, <2>3, <2>4, <2>5 DEF ShapeOK
<1>12. FrameCleared' /\ GenesisCountExact'
  BY <1>5 DEF ReclaimTask, genesisVars, IInv, FrameCleared, GenesisCountExact
<1> QED
  BY <1>9, <1>10, <1>11, <1>12 DEF CoreInv

\* A change of one credit and of the balance by the same amount keeps the
\* contract solvent.
LEMMA MovePreservesSolvency ==
    ASSUME IInv, NEW k \in Tokens, NEW a \in Accounts, NEW n \in Nat,
           UNCHANGED tasks,
           pending' = [pending EXCEPT ![k][a] = n],
           balance'[k] = balance[k] - pending[k][a] + n,
           \A j \in Tokens \ {k} : balance'[j] = balance[j]
    PROVE  Solvency'
<1> SUFFICES ASSUME NEW j \in Tokens
             PROVE  balance'[j] = Total(EscrowOf(j)') + Total(pending'[j])
  BY DEF Solvency
<1>1. pending[k] \in [Accounts -> Nat] /\ pending[j] \in [Accounts -> Nat]
  BY DEF IInv, TypeOK, StorageTypeOK
<1>2. pending'[j] = IF j = k THEN [pending[k] EXCEPT ![a] = n] ELSE pending[j]
  BY DEF IInv, TypeOK, StorageTypeOK
<1>3. Total([pending[k] EXCEPT ![a] = n]) = Total(pending[k]) - pending[k][a] + n
  BY <1>1, FeeConstantsAssumption, TotalUpdate
<1>4. EscrowOf(j)' = EscrowOf(j)
  BY DEF EscrowOf
<1>5. balance[j] = Total(EscrowOf(j)) + Total(pending[j])
  BY DEF IInv, Solvency
<1>6. Total(EscrowOf(j)) \in Nat /\ Total(pending[j]) \in Nat
  BY HeldNatural DEF IInv, TypeOK
<1>7. balance'[j] = IF j = k THEN balance[k] - pending[k][a] + n
                              ELSE balance[j]
  OBVIOUS
<1>8. pending[k][a] \in Nat
  BY <1>1
<1>9. CASE j = k
  <2>1. Total(pending'[j]) = Total(pending[j]) - pending[k][a] + n
    BY <1>2, <1>3, <1>9
  <2>2. balance'[j] = balance[j] - pending[k][a] + n
    BY <1>7, <1>9
  <2> QED
    BY <1>4, <1>5, <1>6, <1>8, <2>1, <2>2
<1>10. CASE j # k
  BY <1>2, <1>4, <1>5, <1>6, <1>7, <1>10
<1> QED
  BY <1>9, <1>10

\* Opening a withdrawal keeps the invariant: the credit is cleared before the
\* money leaves.
LEMMA WithdrawPreserves ==
    ASSUME IInv, NEW a \in Accounts, NEW k \in Tokens, WithdrawPending(a, k)
    PROVE  CoreInv'
<1>1. /\ pending' = [pending EXCEPT ![k][a] = 0]
      /\ balance' = [balance EXCEPT ![k] = @ - pending[k][a]]
      /\ frame' = [account |-> a, token |-> k, amount |-> pending[k][a]]
  BY DEF WithdrawPending
<1>2. /\ pending \in [Tokens -> [Accounts -> Nat]]
      /\ balance \in [Tokens -> Nat]
  BY DEF IInv, TypeOK, StorageTypeOK
<1>3. pending' \in [Tokens -> [Accounts -> Nat]] /\ pending'[k][a] = 0
  BY <1>1, <1>2
<1>4. frame' \in Frame
  BY <1>1, <1>2 DEF Frame
<1>5. Solvency'
  <2> DEFINE n == 0
  <2>1. n \in Nat /\ pending[k][a] \in Nat
    BY <1>2
  <2>2. balance'[k] = balance[k] - pending[k][a] + n
    BY <1>1, <1>2, <2>1
  <2>3. \A j \in Tokens \ {k} : balance'[j] = balance[j]
    BY <1>1, <1>2
  <2>4. pending' = [pending EXCEPT ![k][a] = n] /\ UNCHANGED tasks
    BY <1>1 DEF WithdrawPending, taskVars
  <2> HIDE DEF n
  <2> QED
    BY <2>1, <2>2, <2>3, <2>4, MovePreservesSolvency
<1>6. ShapeOK'
  <2>1. NFTTypeOK'
    BY DEF WithdrawPending, nftVars, IInv, TypeOK, NFTTypeOK
  <2>2. StorageTypeOK'
    BY <1>3, <1>4
    DEF WithdrawPending, configVars, genesisVars, taskVars, IInv, TypeOK,
        StorageTypeOK
  <2>3. ObservationTypeOK' /\ now' \in 0 .. MaxTime
    BY DEF WithdrawPending, taskVars, IInv, TypeOK, ObservationTypeOK
  <2>4. balance' \in [Tokens -> Int]
    BY <1>1, <1>2
  <2> QED
    BY <2>1, <2>2, <2>3, <2>4 DEF ShapeOK
<1>7. TaskSlots' /\ GenesisCountExact'
  BY DEF WithdrawPending, taskVars, genesisVars, IInv, TaskSlots,
         GenesisCountExact
<1>8. FrameCleared'
  BY <1>1, <1>3 DEF FrameCleared
<1> QED
  BY <1>5, <1>6, <1>7, <1>8 DEF CoreInv

\* The return of a withdrawal keeps the invariant; a revert restores a credit
\* that stayed cleared meanwhile.
LEMMA WithdrawReturnPreserves ==
    ASSUME IInv, WithdrawSucceeds \/ WithdrawReverts
    PROVE  CoreInv'
<1>1. /\ frame.account \in Accounts /\ frame.token \in Tokens
      /\ frame.amount \in Nat
      /\ pending[frame.token][frame.account] = 0
      /\ frame' = NoFrame
  BY DEF WithdrawSucceeds, WithdrawReverts, IInv, TypeOK, StorageTypeOK, Frame,
         FrameCleared
<1>2. /\ pending \in [Tokens -> [Accounts -> Nat]]
      /\ delivered \in [Tokens -> [Accounts -> Nat]]
      /\ balance \in [Tokens -> Nat]
  BY DEF IInv, TypeOK, StorageTypeOK, ObservationTypeOK
<1>3. /\ UNCHANGED <<nftVars, configVars, genesisVars, taskVars, paused, now>>
      /\ pending' \in [Tokens -> [Accounts -> Nat]]
      /\ delivered' \in [Tokens -> [Accounts -> Nat]]
      /\ balance' \in [Tokens -> Int]
  <2>1. CASE WithdrawSucceeds
    <3>1. delivered' = [delivered EXCEPT ![frame.token][frame.account] =
                           @ + frame.amount]
          /\ UNCHANGED <<pending, balance>>
      BY <2>1 DEF WithdrawSucceeds
    <3>2. delivered[frame.token][frame.account] + frame.amount \in Nat
      BY <1>1, <1>2
    <3>3. delivered' \in [Tokens -> [Accounts -> Nat]]
      BY <1>1, <1>2, <3>1, <3>2
    <3> QED
      BY <1>2, <2>1, <3>1, <3>3 DEF WithdrawSucceeds
  <2>2. CASE WithdrawReverts
    <3>1. /\ pending' = [pending EXCEPT ![frame.token][frame.account] =
                            frame.amount]
          /\ balance' = [balance EXCEPT ![frame.token] = @ + frame.amount]
          /\ UNCHANGED delivered
      BY <2>2 DEF WithdrawReverts
    <3>2. pending' \in [Tokens -> [Accounts -> Nat]]
      BY <1>1, <1>2, <3>1
    <3>3. balance' \in [Tokens -> Int]
      BY <1>1, <1>2, <3>1
    <3> QED
      BY <1>2, <2>2, <3>1, <3>2, <3>3 DEF WithdrawReverts
  <2> QED
    BY <2>1, <2>2
<1>4. Solvency'
  <2>1. CASE WithdrawSucceeds
    BY <2>1, UnchangedMoney DEF WithdrawSucceeds, taskVars, IInv
  <2>2. CASE WithdrawReverts
    <3>1. pending' =
            [pending EXCEPT ![frame.token][frame.account] = frame.amount]
      BY <2>2 DEF WithdrawReverts
    <3>2. balance' = [balance EXCEPT ![frame.token] = @ + frame.amount]
      BY <2>2 DEF WithdrawReverts
    <3>3. balance'[frame.token] = balance[frame.token]
             - pending[frame.token][frame.account] + frame.amount
      BY <1>1, <1>2, <3>2
    <3>4. \A j \in Tokens \ {frame.token} : balance'[j] = balance[j]
      BY <1>2, <3>2
    <3> QED
      BY <1>1, <1>3, <3>1, <3>3, <3>4, MovePreservesSolvency DEF taskVars
  <2> QED
    BY <2>1, <2>2
<1>5. ShapeOK'
  BY <1>1, <1>3
  DEF nftVars, configVars, genesisVars, taskVars, IInv, TypeOK, ShapeOK,
      NFTTypeOK, StorageTypeOK, ObservationTypeOK
<1>6. TaskSlots' /\ GenesisCountExact' /\ FrameCleared'
  BY <1>1, <1>3 DEF taskVars, genesisVars, IInv, TaskSlots, GenesisCountExact,
                    FrameCleared
<1> QED
  BY <1>4, <1>5, <1>6 DEF CoreInv

\* Steps of the administration and of the chain move no money.
LEMMA QuietStepPreserves ==
    ASSUME IInv,
           UNCHANGED <<moneyVars, taskVars, frame>>,
           NFTTypeOK',
           feeBps' \in 0 .. MAX_FEE_BPS,
           protocolWallet' \in Accounts, devWallet' \in Accounts,
           maxEscrow' \in Nat, supportedTokens' \subseteq ERC20s,
           paused' \in BOOLEAN, now' \in 0 .. MaxTime,
           genesisAgents' \subseteq Accounts,
           UNCHANGED genesisTasksUsed,
           genesisAgentCount' \in 0 .. GENESIS_MAX_AGENTS,
           GenesisCountExact'
    PROVE  CoreInv'
<1>1. Solvency'
  BY UnchangedMoney DEF IInv, moneyVars, taskVars
<1>2. TaskSlots' /\ FrameCleared'
  BY DEF IInv, moneyVars, taskVars, TaskSlots, FrameCleared
<1>3. ShapeOK'
  BY DEF IInv, moneyVars, taskVars, TypeOK, ShapeOK, StorageTypeOK,
         ObservationTypeOK
<1> QED
  BY <1>1, <1>2, <1>3 DEF CoreInv

\* No administrative step breaks the invariant.
LEMMA AdminPreserves ==
    ASSUME IInv, AdminStep
    PROVE  CoreInv'
<1> USE DEF IInv, TypeOK, StorageTypeOK, NFTTypeOK, nftVars, configVars,
            genesisVars, GenesisCountExact
<1>1. CASE \E bps \in FeeChoices : SetFeePercentage(bps)
  BY <1>1, FeeConstantsAssumption, QuietStepPreserves
  DEF SetFeePercentage, FeeAllowed, MAX_FEE_BPS
<1>2. CASE \E w \in WalletChoices : SetProtocolWallet(w) \/ SetDevWallet(w)
  BY <1>2, FeeConstantsAssumption, QuietStepPreserves
  DEF SetProtocolWallet, SetDevWallet
<1>3. CASE \E k \in ERC20s, supported \in BOOLEAN :
              SetSupportedToken(k, supported)
  BY <1>3, QuietStepPreserves DEF SetSupportedToken
<1>4. CASE \E cap \in CapChoices : SetMaxEscrowAmount(cap)
  BY <1>4, FeeConstantsAssumption, QuietStepPreserves DEF SetMaxEscrowAmount
<1>5. CASE Pause \/ Unpause
  BY <1>5, QuietStepPreserves DEF Pause, Unpause
<1>6. ASSUME NEW a \in Accounts, AddGenesisAgent(a)
      PROVE  CoreInv'
  <2>1. IsFiniteSet(genesisAgents)
    BY FeeConstantsAssumption, FS_Subset
  <2>2. Cardinality(genesisAgents \union {a}) = Cardinality(genesisAgents) + 1
    BY <1>6, <2>1, FS_AddElement DEF AddGenesisAgent
  <2>3. GenesisCountExact'
    BY <1>6, <2>2 DEF AddGenesisAgent
  <2>4. genesisAgentCount' \in 0 .. GENESIS_MAX_AGENTS
    BY <1>6, FeeConstantsAssumption DEF AddGenesisAgent
  <2> QED
    BY <1>6, <2>3, <2>4, QuietStepPreserves DEF AddGenesisAgent
<1>7. ASSUME NEW a \in Accounts, RemoveGenesisAgent(a)
      PROVE  CoreInv'
  <2>1. IsFiniteSet(genesisAgents) /\ a \in genesisAgents
    BY <1>7, FeeConstantsAssumption, FS_Subset
    DEF RemoveGenesisAgent, Removable
  <2>2. Cardinality(genesisAgents \ {a}) = Cardinality(genesisAgents) - 1
    BY <2>1, FS_RemoveElement
  <2>3. Cardinality(genesisAgents \ {a}) \in Nat
    BY <2>1, FS_RemoveElement, FS_CardinalityType
  <2>4. GenesisCountExact'
    BY <1>7, <2>2 DEF RemoveGenesisAgent
  <2>5. genesisAgentCount' \in 0 .. GENESIS_MAX_AGENTS
    BY <1>7, <2>2, <2>3, FeeConstantsAssumption DEF RemoveGenesisAgent
  <2> QED
    BY <1>7, <2>4, <2>5, QuietStepPreserves DEF RemoveGenesisAgent
<1> QED
  BY <1>1, <1>2, <1>3, <1>4, <1>5, <1>6, <1>7 DEF AdminStep

\* Time passing and agents changing hands do not break the invariant.
LEMMA ChainPreserves ==
    ASSUME IInv, ChainStep
    PROVE  CoreInv'
<1> USE DEF IInv, TypeOK, StorageTypeOK, configVars, genesisVars,
            GenesisCountExact
<1>1. CASE Tick
  <2>1. NFTTypeOK'
    BY <1>1 DEF Tick, NFTTypeOK, nftVars
  <2> QED
    BY <1>1, <2>1, FeeConstantsAssumption, QuietStepPreserves DEF Tick
<1>2. ASSUME NEW a \in Accounts, RegisterAgent(a)
      PROVE  CoreInv'
  <2>1. NFTTypeOK'
    BY <1>2, MaxAgentsAssumption
    DEF RegisterAgent, Mint, NFTTypeOK, AgentIds, Addresses
  <2> QED
    BY <1>2, <2>1, QuietStepPreserves DEF RegisterAgent, feeVars
<1>3. ASSUME NEW g \in AgentIds, NEW to \in Accounts, TransferAgent(g, to)
      PROVE  CoreInv'
  <2>1. NFTTypeOK'
    BY <1>3 DEF TransferAgent, TransferNFT, NFTTypeOK, Addresses
  <2> QED
    BY <1>3, <2>1, QuietStepPreserves DEF TransferAgent, feeVars
<1> QED
  BY <1>1, <1>2, <1>3 DEF ChainStep

\* No transaction of a client breaks the invariant.
LEMMA ClientPreserves ==
    ASSUME IInv, NEW a \in Accounts, ClientStep(a)
    PROVE  CoreInv'
<1>1. ASSUME NEW g \in AgentIds, NEW k \in Tokens, NEW amount \in Amounts,
             NEW d \in Durations, NEW shortfall \in {0, 1},
             FundTask(g, k, amount, d, a, amount - shortfall)
      PROVE  CoreInv'
  <2>1. amount \in Nat /\ d \in Nat /\ amount - shortfall \in Int
    BY FeeConstantsAssumption
  <2>2. NFTTypeOK'
    BY <1>1 DEF FundTask, FundEscrow, nftVars, IInv, TypeOK, NFTTypeOK
  <2> QED
    BY <1>1, <2>1, <2>2, FundPreserves DEF FundTask, FundEscrow
<1>2. ASSUME NEW t \in TaskIds, NEW refusing \in SUBSET Legs,
             SettleTask(t, a, refusing)
      PROVE  CoreInv'
  BY <1>2, SettlePreserves DEF SettleTask
<1>3. ASSUME NEW t \in TaskIds, NEW refuses \in BOOLEAN,
             ReclaimTask(t, a, refuses)
      PROVE  CoreInv'
  BY <1>3, ReclaimPreserves
<1>4. ASSUME NEW k \in Tokens, WithdrawPending(a, k)
      PROVE  CoreInv'
  BY <1>4, WithdrawPreserves
<1> QED
  BY <1>1, <1>2, <1>3, <1>4 DEF ClientStep

-------------------------------------------------------------------------------
\* The invariant holds when the contract is deployed.
LEMMA InitInv == Init => IInv
<1> SUFFICES ASSUME Init PROVE IInv
  OBVIOUS
<1> USE DEF Init, FeeInit
<1>1. NoTask \in Task /\ NoReceipt \in Receipt
  BY DEF NoTask, Task, NoReceipt, Receipt, Addresses, Tokens
<1>2. TypeOK
  <2>1. NFTTypeOK
    BY MaxAgentsAssumption DEF NFTInit, NFTTypeOK, Addresses, AgentIds
  <2>2. StorageTypeOK
    <3>1. tasks \in [TaskIds -> Task] /\ paused \in BOOLEAN
      BY <1>1
    <3>2. nextTaskId \in 1 .. MaxTasks + 1
      BY FeeConstantsAssumption
    <3>3. feeBps \in 0 .. MAX_FEE_BPS /\ maxEscrow \in Nat
      BY FeeConstantsAssumption
    <3>4. protocolWallet \in Accounts /\ devWallet \in Accounts
      BY FeeConstantsAssumption
    <3>5. /\ totalFees \in [Tokens -> Nat]
          /\ pending \in [Tokens -> [Accounts -> Nat]]
      OBVIOUS
    <3>6. /\ genesisTasksUsed \in [Accounts -> 0 .. GENESIS_FREE_TASKS]
          /\ genesisAgentCount \in 0 .. GENESIS_MAX_AGENTS
      BY FeeConstantsAssumption
    <3> QED
      BY <3>1, <3>2, <3>3, <3>4, <3>5, <3>6 DEF StorageTypeOK
  <2>3. ObservationTypeOK /\ now \in 0 .. MaxTime /\ balance \in [Tokens -> Nat]
    BY <1>1, FeeConstantsAssumption DEF ObservationTypeOK
  <2> QED
    BY <2>1, <2>2, <2>3 DEF TypeOK
<1>3. TaskSlots /\ FrameCleared
  BY DEF TaskSlots, FrameCleared, TaskIds
<1>4. GenesisCountExact
  BY FS_EmptySet DEF GenesisCountExact
<1>5. Solvency
  <2> SUFFICES ASSUME NEW k \in Tokens
               PROVE  balance[k] = Total(EscrowOf(k)) + Total(pending[k])
    BY DEF Solvency
  <2>1. EscrowOf(k) \in [TaskIds -> Nat] /\ \A t \in TaskIds : EscrowOf(k)[t] = 0
    BY DEF EscrowOf, NoTask
  <2>2. pending[k] \in [Accounts -> Nat] /\ \A a \in Accounts : pending[k][a] = 0
    OBVIOUS
  <2>3. Total(EscrowOf(k)) = 0
    BY <2>1, TotalOfNothing
  <2>4. Total(pending[k]) = 0
    BY <2>2, TotalOfNothing
  <2> QED
    BY <2>3, <2>4
<1> QED
  BY <1>2, <1>3, <1>4, <1>5 DEF IInv

\* Every step keeps the invariant.
LEMMA StepInv == IInv /\ [Next]_vars => IInv'
<1> SUFFICES ASSUME IInv, [Next]_vars PROVE CoreInv'
  <2>1. CoreInv' => IInv'
    BY CoreSuffices, PTL
  <2> QED
    BY <2>1
<1>1. CASE UNCHANGED vars
  <2>1. UNCHANGED <<moneyVars, taskVars, frame, configVars, genesisVars,
                    nftVars, paused, now>>
    BY <1>1 DEF vars, feeVars
  <2> QED
    BY <2>1, QuietStepPreserves
    DEF IInv, TypeOK, NFTTypeOK, StorageTypeOK, configVars, genesisVars,
        nftVars, GenesisCountExact
<1>2. CASE Next
  BY <1>2, ClientPreserves, WithdrawReturnPreserves, AdminPreserves,
     ChainPreserves
  DEF Next
<1> QED
  BY <1>1, <1>2

\* The escrow contract keeps its inductive invariant.
THEOREM Invariance == Spec => []IInv
<1> QED
  BY InitInv, StepInv, PTL DEF Spec

\* Type correctness: no balance, credit or counter of the escrow contract goes
\* below zero, and the fee and the genesis counters stay within their caps.
THEOREM TypeCorrect == Spec => []TypeOK
<1>1. IInv => TypeOK
  BY DEF IInv
<1> QED
  BY <1>1, Invariance, PTL

\* The escrow is solvent: of each token it holds exactly what it owes.
THEOREM EscrowSolvent == Spec => []Solvency
<1>1. IInv => Solvency
  BY DEF IInv
<1> QED
  BY <1>1, Invariance, PTL

-------------------------------------------------------------------------------
\* The life of a task

\* Funding writes the next slot and no other.
LEMMA FundTaskStep ==
    ASSUME IInv, NEW g \in AgentIds, NEW k \in Tokens, NEW amount \in Nat,
           NEW d \in Nat, NEW a \in Accounts, NEW received \in Int,
           EscrowFunded(g, k, amount, d, a, received), NEW t \in TaskIds
    PROVE  TaskStep(t)
<1> DEFINE new == [agent |-> g, client |-> a, token |-> k, amount |-> amount,
                   status |-> "FUNDED", deadline |-> now + d]
<1>1. tasks' = [tasks EXCEPT ![nextTaskId] = new] /\ d # 0
  BY DEF EscrowFunded
<1>2. tasks \in [TaskIds -> Task] /\ nextTaskId \in Nat /\ now \in Nat
  BY DEF IInv, TypeOK, StorageTypeOK
<1>3. new.status = "FUNDED" /\ new.deadline > now
  BY <1>1, <1>2
<1> HIDE DEF new
<1>4. CASE t = nextTaskId
  BY <1>1, <1>2, <1>3, <1>4 DEF TaskStep
<1>5. CASE t # nextTaskId
  BY <1>1, <1>2, <1>5 DEF TaskStep
<1> QED
  BY <1>4, <1>5

\* Closing a task changes its status and no other slot.
LEMMA CloseTaskStep ==
    ASSUME IInv, NEW closed \in TaskIds, NEW status \in {"SETTLED", "RECLAIMED"},
           tasks[closed].status = "FUNDED", closed < nextTaskId,
           tasks' = [tasks EXCEPT ![closed].status = status],
           status = "RECLAIMED" => now >= tasks[closed].deadline,
           NEW t \in TaskIds
    PROVE  TaskStep(t)
<1>1. tasks \in [TaskIds -> Task] /\ nextTaskId \in Nat
  BY DEF IInv, TypeOK, StorageTypeOK
<1>2. CASE t = closed
  <2>1. tasks'[t] = [tasks[t] EXCEPT !.status = status]
    BY <1>1, <1>2
  <2>2. tasks'[t].status = status
    BY <1>1, <2>1 DEF Task
  <2>3. ~(t >= nextTaskId)
    BY <1>1, <1>2 DEF TaskIds
  <2> QED
    BY <1>2, <2>1, <2>2, <2>3 DEF TaskStep
<1>3. CASE t # closed
  BY <1>1, <1>3 DEF TaskStep
<1> QED
  BY <1>2, <1>3

LEMMA StepTasks ==
    ASSUME IInv, [Next]_vars, NEW t \in TaskIds
    PROVE  TaskStep(t)
<1>1. CASE UNCHANGED tasks
  BY <1>1 DEF TaskStep
<1>2. ASSUME NEW g \in AgentIds, NEW k \in Tokens, NEW amount \in Amounts,
             NEW d \in Durations, NEW a \in Accounts, NEW shortfall \in {0, 1},
             FundTask(g, k, amount, d, a, amount - shortfall)
      PROVE  TaskStep(t)
  <2>1. amount \in Nat /\ d \in Nat /\ amount - shortfall \in Int
    BY FeeConstantsAssumption
  <2> QED
    BY <1>2, <2>1, FundTaskStep DEF FundTask, FundEscrow
<1>3. ASSUME NEW s \in TaskIds, NEW a \in Accounts, NEW refusing \in SUBSET Legs,
             SettleTask(s, a, refusing)
      PROVE  TaskStep(t)
  <2>1. /\ tasks[s].status = "FUNDED" /\ tasks[s].client = a
        /\ tasks' = [tasks EXCEPT ![s].status = "SETTLED"]
    BY <1>3 DEF SettleTask, SettleEscrow, Settleable
  <2>2. s < nextTaskId
    BY <2>1, NamedSlotFunded
  <2> QED
    BY <2>1, <2>2, CloseTaskStep
<1>4. ASSUME NEW s \in TaskIds, NEW a \in Accounts, NEW refuses \in BOOLEAN,
             ReclaimTask(s, a, refuses)
      PROVE  TaskStep(t)
  <2>1. /\ tasks[s].status = "FUNDED" /\ tasks[s].client = a
        /\ now >= tasks[s].deadline
        /\ tasks' = [tasks EXCEPT ![s].status = "RECLAIMED"]
    BY <1>4 DEF ReclaimTask, Reclaimable
  <2>2. s < nextTaskId
    BY <2>1, NamedSlotFunded
  <2> QED
    BY <2>1, <2>2, CloseTaskStep
<1>5. CASE \E a \in Accounts, k \in Tokens : WithdrawPending(a, k)
  BY <1>1, <1>5 DEF WithdrawPending, taskVars
<1>6. CASE WithdrawSucceeds \/ WithdrawReverts
  BY <1>1, <1>6 DEF WithdrawSucceeds, WithdrawReverts, taskVars
<1>7. CASE AdminStep \/ ChainStep
  <2>1. UNCHANGED tasks
    BY <1>7
    DEF AdminStep, ChainStep, SetFeePercentage, SetProtocolWallet,
        SetDevWallet, SetSupportedToken, SetMaxEscrowAmount, Pause, Unpause,
        AddGenesisAgent, RemoveGenesisAgent, Tick, RegisterAgent,
        TransferAgent, feeVars, taskVars
  <2> QED
    BY <1>1, <2>1
<1>8. CASE UNCHANGED vars
  BY <1>1, <1>8 DEF vars, feeVars, taskVars
<1> QED
  BY <1>2, <1>3, <1>4, <1>5, <1>6, <1>7, <1>8 DEF Next, ClientStep

\* A slot is written once, by its funding; what was agreed never changes; a
\* closed task never moves again; and money goes back only after the deadline.
THEOREM Lifecycle == Spec => TaskLifecycle
<1>1. IInv /\ [Next]_vars => [\A t \in TaskIds : TaskStep(t)]_vars
  BY StepTasks
<1> QED
  BY <1>1, Invariance, PTL DEF Spec, TaskLifecycle
-------------------------------------------------------------------------------
\* The events of settlements

FeesOf(k) ==
    [t \in TaskIds |-> IF tasks[t].token = k
                       THEN receipts[t].protocolFee + receipts[t].devFee ELSE 0]

FreeTasksOf(a) == {t \in TaskIds : receipts[t].exempt /\ tasks[t].client = a}

\* A task that is not settled has no event yet: the slot a settlement writes
\* counts for nothing before.
NoEventBefore ==
    \A t \in TaskIds : tasks[t].status # "SETTLED" => receipts[t] = NoReceipt

\* No settlement charged more than the cap, and its parts are the whole amount.
ReceiptsFair ==
    \A t \in TaskIds :
        LET r == receipts[t]
            fee == r.protocolFee + r.devFee
        IN  tasks[t].status = "SETTLED" =>
               /\ fee * 10000 <= tasks[t].amount * MAX_FEE_BPS
               /\ r.payout + fee = tasks[t].amount

FeesCounted == \A k \in Tokens : totalFees[k] = Total(FeesOf(k))

\* The counter the contract keeps per client is the number of the client's
\* settlements without a fee; removals do not reset it.
FreeTasksCounted ==
    \A a \in Accounts : genesisTasksUsed[a] = Cardinality(FreeTasksOf(a))

EventsInv ==
    /\ NoEventBefore
    /\ ReceiptsFair
    /\ FeesCounted
    /\ FreeTasksCounted

\* A step that leaves events and slots alone keeps what the events say.
LEMMA QuietEvents ==
    ASSUME EventsInv, UNCHANGED <<tasks, receipts, totalFees, genesisTasksUsed>>
    PROVE  EventsInv'
<1>1. \A k \in Tokens : FeesOf(k)' = FeesOf(k)
  BY DEF FeesOf
<1>2. \A a \in Accounts : FreeTasksOf(a)' = FreeTasksOf(a)
  BY DEF FreeTasksOf
<1>3. NoEventBefore' /\ ReceiptsFair'
  BY DEF EventsInv, NoEventBefore, ReceiptsFair
<1> QED
  BY <1>1, <1>2, <1>3 DEF EventsInv, FeesCounted, FreeTasksCounted

\* So does a step that rewrites a slot without an event: its fee is zero and
\* it counts for nobody, before and after.
LEMMA NoEventEvents ==
    ASSUME IInv, EventsInv, NEW t \in TaskIds, NEW new \in Task,
           tasks[t].status # "SETTLED", new.status # "SETTLED",
           tasks' = [tasks EXCEPT ![t] = new],
           UNCHANGED <<receipts, totalFees, genesisTasksUsed>>
    PROVE  EventsInv'
<1>1. tasks \in [TaskIds -> Task]
  BY DEF IInv, TypeOK, StorageTypeOK
<1>2. receipts[t] = NoReceipt
  BY DEF EventsInv, NoEventBefore
<1>3. /\ tasks'[t] = new
      /\ \A x \in TaskIds : x # t => tasks'[x] = tasks[x]
  BY <1>1
<1>4. /\ ~receipts[t].exempt
      /\ receipts[t].protocolFee + receipts[t].devFee = 0
  BY <1>2 DEF NoReceipt
<1>5. \A k \in Tokens : FeesOf(k)' = FeesOf(k)
  BY <1>3, <1>4 DEF FeesOf
<1>6. \A a \in Accounts : FreeTasksOf(a)' = FreeTasksOf(a)
  BY <1>3, <1>4 DEF FreeTasksOf
<1>7. NoEventBefore' /\ ReceiptsFair'
  BY <1>2, <1>3 DEF EventsInv, NoEventBefore, ReceiptsFair
<1> QED
  BY <1>5, <1>6, <1>7 DEF EventsInv, FeesCounted, FreeTasksCounted

\* A settlement emits the first and only event of its task: the fee it adds to
\* totalFeesAccrued is the fee of the event, and the client's counter moves
\* exactly when the event is free of a fee.
LEMMA SettleEvents ==
    ASSUME IInv, EventsInv, NEW t \in TaskIds, NEW caller \in Accounts,
           NEW refusing \in SUBSET Legs, SettleEscrow(t, caller, refusing)
    PROVE  EventsInv'
<1> DEFINE k == tasks[t].token
           r == ReceiptOf(t)
<1>1. /\ tasks[t].status = "FUNDED" /\ tasks[t].client = caller
      /\ tasks' = [tasks EXCEPT ![t].status = "SETTLED"]
      /\ receipts' = [receipts EXCEPT ![t] = r]
      /\ totalFees' = [totalFees EXCEPT ![k] = @ + r.protocolFee + r.devFee]
      /\ genesisTasksUsed' =
           [genesisTasksUsed EXCEPT ![caller] = @ + (IF r.exempt THEN 1 ELSE 0)]
  BY DEF SettleEscrow, Settleable
<1>2. /\ tasks \in [TaskIds -> Task] /\ receipts \in [TaskIds -> Receipt]
      /\ totalFees \in [Tokens -> Nat] /\ k \in Tokens
      /\ genesisTasksUsed \in [Accounts -> 0 .. GENESIS_FREE_TASKS]
  BY DEF IInv, TypeOK, StorageTypeOK, ObservationTypeOK, Task
<1>3. /\ r \in Receipt
      /\ r.payout + r.protocolFee + r.devFee = tasks[t].amount
      /\ (r.protocolFee + r.devFee) * 10000 <= tasks[t].amount * MAX_FEE_BPS
  <2>1. tasks[t].agent \in AgentIds
    BY <1>1, NamedSlotFunded
  <2> QED
    BY <2>1, ReceiptParts DEF IInv
<1>4. receipts[t] = NoReceipt
  BY <1>1 DEF EventsInv, NoEventBefore
<1> HIDE DEF r
<1>5. /\ r.payout \in Nat /\ r.protocolFee \in Nat /\ r.devFee \in Nat
      /\ r.exempt \in BOOLEAN
  BY <1>3 DEF Receipt
<1>6. /\ tasks'[t].status = "SETTLED" /\ receipts'[t] = r
      /\ tasks'[t].amount = tasks[t].amount
      /\ \A x \in TaskIds : /\ tasks'[x].client = tasks[x].client
                            /\ tasks'[x].token = tasks[x].token
      /\ \A x \in TaskIds : x # t => /\ tasks'[x] = tasks[x]
                                     /\ receipts'[x] = receipts[x]
  BY <1>1, <1>2 DEF Task
<1> HIDE DEF k
<1>7. NoEventBefore'
  BY <1>6 DEF EventsInv, NoEventBefore
<1>8. ReceiptsFair'
  <2> SUFFICES ASSUME NEW x \in TaskIds, tasks'[x].status = "SETTLED"
               PROVE  LET p == receipts'[x]
                          fee == p.protocolFee + p.devFee
                      IN  /\ fee * 10000 <= tasks'[x].amount * MAX_FEE_BPS
                          /\ p.payout + fee = tasks'[x].amount
    BY DEF ReceiptsFair
  <2>1. CASE x = t
    BY <1>3, <1>5, <1>6, <2>1
  <2>2. CASE x # t
    BY <1>6, <2>2 DEF EventsInv, ReceiptsFair
  <2> QED
    BY <2>1, <2>2
<1>9. FeesCounted'
  <2> SUFFICES ASSUME NEW j \in Tokens
               PROVE  totalFees'[j] = Total(FeesOf(j)')
    BY DEF FeesCounted
  <2> DEFINE new == IF k = j THEN r.protocolFee + r.devFee ELSE 0
  <2>1. IsFiniteSet(TaskIds)
    BY FeeConstantsAssumption, FS_Interval DEF TaskIds
  <2>2. FeesOf(j) \in [TaskIds -> Nat] /\ FeesOf(j)[t] = 0
    BY <1>2, <1>4 DEF FeesOf, Receipt, NoReceipt
  <2>3. FeesOf(j)' = [FeesOf(j) EXCEPT ![t] = new]
    BY <1>6, <2>2 DEF FeesOf, k
  <2>4. new \in Nat
    BY <1>5
  <2>5. totalFees'[j] = totalFees[j] + new /\ totalFees[j] \in Nat
    BY <1>1, <1>2, <1>5
  <2> HIDE DEF new
  <2>6. Total([FeesOf(j) EXCEPT ![t] = new])
          = Total(FeesOf(j)) - FeesOf(j)[t] + new
    BY <2>1, <2>2, <2>4, TotalUpdate
  <2>7. totalFees[j] = Total(FeesOf(j))
    BY DEF EventsInv, FeesCounted
  <2> QED
    BY <2>2, <2>3, <2>4, <2>5, <2>6, <2>7
<1>10. FreeTasksCounted'
  <2> SUFFICES ASSUME NEW a \in Accounts
               PROVE  genesisTasksUsed'[a] = Cardinality(FreeTasksOf(a)')
    BY DEF FreeTasksCounted
  <2>1. genesisTasksUsed[a] = Cardinality(FreeTasksOf(a))
    BY DEF EventsInv, FreeTasksCounted
  <2>2. genesisTasksUsed[a] \in Nat
    BY <1>2, FeeConstantsAssumption
  <2>3. t \notin FreeTasksOf(a)
    BY <1>4 DEF FreeTasksOf, NoReceipt
  <2>4. CASE a = caller /\ r.exempt
    <3>1. FreeTasksOf(a)' = FreeTasksOf(a) \union {t}
      BY <1>1, <1>6, <2>4 DEF FreeTasksOf
    <3>2. IsFiniteSet(FreeTasksOf(a))
      <4>1. IsFiniteSet(TaskIds)
        BY FeeConstantsAssumption, FS_Interval DEF TaskIds
      <4> QED
        BY <4>1, FS_Subset DEF FreeTasksOf
    <3>3. Cardinality(FreeTasksOf(a) \union {t}) = Cardinality(FreeTasksOf(a)) + 1
      BY <2>3, <3>2, FS_AddElement
    <3>4. genesisTasksUsed'[a] = genesisTasksUsed[a] + 1
      BY <1>1, <1>2, <2>4
    <3> QED
      BY <2>1, <3>1, <3>3, <3>4
  <2>5. CASE ~(a = caller /\ r.exempt)
    <3>1. FreeTasksOf(a)' = FreeTasksOf(a)
      BY <1>1, <1>4, <1>6, <2>5 DEF FreeTasksOf, NoReceipt
    <3>2. genesisTasksUsed'[a] = genesisTasksUsed[a]
      BY <1>1, <1>2, <2>2, <2>5
    <3> QED
      BY <2>1, <3>1, <3>2
  <2> QED
    BY <2>4, <2>5
<1> QED
  BY <1>7, <1>8, <1>9, <1>10 DEF EventsInv

\* A funding emits no event.
LEMMA FundEvents ==
    ASSUME IInv, EventsInv,
           NEW g \in AgentIds, NEW k \in Tokens, NEW amount \in Nat,
           NEW d \in Nat, NEW a \in Accounts, NEW received \in Int,
           EscrowFunded(g, k, amount, d, a, received)
    PROVE  EventsInv'
<1> DEFINE new == [agent |-> g, client |-> a, token |-> k, amount |-> amount,
                   status |-> "FUNDED", deadline |-> now + d]
<1>1. /\ tasks' = [tasks EXCEPT ![nextTaskId] = new]
      /\ UNCHANGED <<receipts, totalFees, genesisTasksUsed>>
      /\ nextTaskId \in TaskIds
  BY DEF EscrowFunded, genesisVars
<1>2. new \in Task /\ new.status # "SETTLED"
  BY FeeConstantsAssumption DEF Task, Addresses, IInv, TypeOK
<1>3. tasks[nextTaskId].status # "SETTLED"
  BY <1>1 DEF IInv, TaskSlots, NoTask, TaskIds
<1> HIDE DEF new
<1> QED
  BY <1>1, <1>2, <1>3, NoEventEvents

\* Every step keeps what the events say.
LEMMA StepEvents ==
    ASSUME IInv, EventsInv, [Next]_vars
    PROVE  EventsInv'
<1>1. ASSUME NEW g \in AgentIds, NEW k \in Tokens, NEW amount \in Amounts,
             NEW d \in Durations, NEW a \in Accounts, NEW shortfall \in {0, 1},
             FundTask(g, k, amount, d, a, amount - shortfall)
      PROVE  EventsInv'
  <2>1. amount \in Nat /\ d \in Nat /\ amount - shortfall \in Int
    BY FeeConstantsAssumption
  <2> QED
    BY <1>1, <2>1, FundEvents DEF FundTask, FundEscrow
<1>2. ASSUME NEW t \in TaskIds, NEW a \in Accounts, NEW refusing \in SUBSET Legs,
             SettleTask(t, a, refusing)
      PROVE  EventsInv'
  BY <1>2, SettleEvents DEF SettleTask
<1>3. ASSUME NEW t \in TaskIds, NEW a \in Accounts, NEW refuses \in BOOLEAN,
             ReclaimTask(t, a, refuses)
      PROVE  EventsInv'
  <2> DEFINE new == [tasks[t] EXCEPT !.status = "RECLAIMED"]
  <2>1. /\ tasks' = [tasks EXCEPT ![t] = new] /\ tasks[t].status # "SETTLED"
        /\ UNCHANGED <<receipts, totalFees, genesisTasksUsed>>
    BY <1>3 DEF ReclaimTask, Reclaimable, genesisVars
  <2>2. new \in Task /\ new.status # "SETTLED"
    BY DEF IInv, TypeOK, StorageTypeOK, Task
  <2> HIDE DEF new
  <2> QED
    BY <2>1, <2>2, NoEventEvents
<1>4. CASE \/ \E a \in Accounts, k \in Tokens : WithdrawPending(a, k)
           \/ WithdrawSucceeds \/ WithdrawReverts \/ UNCHANGED vars
  <2>1. UNCHANGED <<tasks, receipts, totalFees, genesisTasksUsed>>
    BY <1>4 DEF WithdrawPending, WithdrawSucceeds, WithdrawReverts, taskVars,
                genesisVars, vars, feeVars
  <2> QED
    BY <2>1, QuietEvents
<1>5. CASE AdminStep \/ ChainStep
  <2>1. UNCHANGED <<tasks, receipts, totalFees, genesisTasksUsed>>
    BY <1>5
    DEF AdminStep, ChainStep, SetFeePercentage, SetProtocolWallet,
        SetDevWallet, SetSupportedToken, SetMaxEscrowAmount, Pause, Unpause,
        AddGenesisAgent, RemoveGenesisAgent, Tick, RegisterAgent,
        TransferAgent, feeVars, taskVars, genesisVars
  <2> QED
    BY <2>1, QuietEvents
<1> QED
  BY <1>1, <1>2, <1>3, <1>4, <1>5 DEF Next, ClientStep

\* Before the first settlement there is nothing to say.
LEMMA InitEvents == Init => EventsInv
<1> SUFFICES ASSUME Init PROVE EventsInv
  OBVIOUS
<1> USE DEF Init, FeeInit
<1>1. NoEventBefore /\ ReceiptsFair
  BY DEF NoEventBefore, ReceiptsFair, NoTask
<1>2. FeesCounted
  <2> SUFFICES ASSUME NEW k \in Tokens PROVE totalFees[k] = Total(FeesOf(k))
    BY DEF FeesCounted
  <2>1. FeesOf(k) \in [TaskIds -> Nat] /\ \A t \in TaskIds : FeesOf(k)[t] = 0
    BY DEF FeesOf, NoReceipt
  <2>2. Total(FeesOf(k)) = 0
    BY <2>1, TotalOfNothing
  <2> QED
    BY <2>2
<1>3. FreeTasksCounted
  <2> SUFFICES ASSUME NEW a \in Accounts
               PROVE  genesisTasksUsed[a] = Cardinality(FreeTasksOf(a))
    BY DEF FreeTasksCounted
  <2>1. FreeTasksOf(a) = {}
    BY DEF FreeTasksOf, NoReceipt
  <2> QED
    BY <2>1, FS_EmptySet
<1> QED
  BY <1>1, <1>2, <1>3 DEF EventsInv

\* The events tell the truth about fees and free tasks in every state.
THEOREM EventsTrue == Spec => []EventsInv
<1>1. IInv /\ EventsInv /\ [Next]_vars => EventsInv'
  BY StepEvents
<1> QED
  BY <1>1, InitEvents, Invariance, PTL DEF Spec

\* No settlement charges more than the cap, the parts of a settlement are its
\* whole amount, and totalFeesAccrued is the sum of the fees of the events.
THEOREM FeesExact == Spec => []FeesAddUp
<1>1. EventsInv => FeesAddUp
  BY DEF EventsInv, ReceiptsFair, FeesCounted, FeesOf, FeesAddUp
<1> QED
  BY <1>1, EventsTrue, PTL

\* Nobody gets more than GENESIS_FREE_TASKS settlements without a fee, however
\* often they are removed and added again, and the member count is exact.
THEOREM GenesisCapped == Spec => []GenesisBounded
<1>1. IInv /\ EventsInv => GenesisBounded
  <2> SUFFICES ASSUME IInv, EventsInv PROVE GenesisBounded
    OBVIOUS
  <2>1. ASSUME NEW a \in Accounts
        PROVE  Cardinality({t \in TaskIds :
                              receipts[t].exempt /\ tasks[t].client = a})
                 <= GENESIS_FREE_TASKS
    <3>1. genesisTasksUsed[a] \in 0 .. GENESIS_FREE_TASKS
      BY DEF IInv, TypeOK, StorageTypeOK
    <3>2. genesisTasksUsed[a] = Cardinality(FreeTasksOf(a))
      BY DEF EventsInv, FreeTasksCounted
    <3>3. Cardinality(FreeTasksOf(a)) <= GENESIS_FREE_TASKS
      BY <3>1, <3>2, FeeConstantsAssumption
    <3> QED
      BY <3>3 DEF FreeTasksOf
  <2> QED
    BY <2>1 DEF IInv, GenesisCountExact, GenesisBounded
<1> QED
  BY <1>1, Invariance, EventsTrue, PTL
===============================================================================
