------------------------------- MODULE FeeModule ------------------------------
(***************************************************************************)
(* FaivrFeeModule: the escrow contract.  A client funds a task for an      *)
(* agent; the client settles it (the payout goes to the agent's owner at   *)
(* that moment, a fee is split between two wallets) or, once the deadline  *)
(* has passed, takes the amount back.  A transfer the receiver refuses is  *)
(* kept for a later pull withdrawal.                                       *)
(*                                                                         *)
(* A transaction is one action, and a call that reverts is an action that  *)
(* is not enabled.  The exception is a pull withdrawal: it hands control   *)
(* to the recipient with all the gas, so it is two actions, and frame      *)
(* holds the withdrawal between them (OpenZeppelin's ReentrancyGuard is    *)
(* entered exactly while frame is not NoFrame).  Functions the guard does  *)
(* not cover touch nothing the open withdrawal uses; calling them from the *)
(* recipient is the same as calling them before or after.                  *)
(*                                                                         *)
(* fundedAt and settledAt are left out: nothing reads them.                *)
(***************************************************************************)
EXTENDS AgentNFT, Integers, Totals

CONSTANTS
    ETH,                \* address(0) used as a token
    ERC20s,             \* the ERC-20 tokens
    MaxTasks,           \* bound: tasks funded in a behaviour
    MaxTime,            \* bound: the last block timestamp
    Amounts,            \* the amounts clients try to fund
    Durations,          \* the deadline arguments clients pass
    FeeChoices,         \* the fees the fee manager tries to set, in bps
    CapChoices,         \* the caps the fee manager sets
    WalletChoices,      \* the fee wallets the fee manager sets
    InitialProtocolWallet,
    InitialDevWallet,
    InitialFeeBps,
    InitialMaxEscrow,
    GENESIS_MAX_AGENTS,
    GENESIS_FREE_TASKS,
    NoFrame             \* no withdrawal is in progress

MAX_FEE_BPS == 1000

ASSUME FeeConstantsAssumption ==
    /\ IsFiniteSet(Accounts)
    /\ ETH \notin ERC20s
    /\ MaxTasks \in Nat
    /\ MaxTime \in Nat
    /\ Amounts \subseteq Nat
    /\ Durations \subseteq Nat
    /\ FeeChoices \subseteq Nat
    /\ CapChoices \subseteq Nat
    /\ WalletChoices \subseteq Accounts
    /\ {InitialProtocolWallet, InitialDevWallet} \subseteq Accounts
    /\ InitialFeeBps \in 0 .. MAX_FEE_BPS
    /\ InitialMaxEscrow \in Nat
    /\ GENESIS_MAX_AGENTS \in Nat
    /\ GENESIS_FREE_TASKS \in Nat

Tokens == ERC20s \union {ETH}
TaskIds == 1 .. MaxTasks

VARIABLES
    \* storage of the contract
    tasks, nextTaskId, feeBps, protocolWallet, devWallet, totalFees,
    pending,            \* _pendingWithdrawals and _pendingTokenWithdrawals
    maxEscrow, genesisAgents, genesisTasksUsed, genesisAgentCount,
    supportedTokens, paused,
    frame,              \* the withdrawal whose external call is running
    \* the chain around it
    balance,            \* what the contract holds of each token
    now,                \* block.timestamp
    \* observations: no action reads them
    receipts,           \* the TaskSettled event of each settled task
    delivered           \* what each account was sent, per token

configVars == <<feeBps, protocolWallet, devWallet, maxEscrow, supportedTokens>>
genesisVars == <<genesisAgents, genesisTasksUsed, genesisAgentCount>>
moneyVars == <<pending, balance, delivered>>
taskVars == <<tasks, nextTaskId, receipts, totalFees>>
feeVars == <<configVars, genesisVars, moneyVars, taskVars, paused, frame, now>>
vars == <<nftVars, feeVars>>

-------------------------------------------------------------------------------
\* A slot of the mapping that was never written.  FUNDED is the zero of the
\* enum, so such a slot reads as a funded task of address(0).
NoTask == [agent |-> 0, client |-> ZeroAddr, token |-> ETH, amount |-> 0,
           status |-> "FUNDED", deadline |-> 0]

Task == [agent : AgentIds \union {0}, client : Addresses, token : Tokens,
         amount : Nat, status : {"FUNDED", "SETTLED", "RECLAIMED"},
         deadline : Nat]

NoReceipt == [owner |-> ZeroAddr, protocolWallet |-> ZeroAddr,
              devWallet |-> ZeroAddr, payout |-> 0, protocolFee |-> 0,
              devFee |-> 0, exempt |-> FALSE]

Receipt == [owner : Addresses, protocolWallet : Addresses,
            devWallet : Addresses, payout : Nat, protocolFee : Nat,
            devFee : Nat, exempt : BOOLEAN]

Frame == [account : Accounts, token : Tokens, amount : Nat]

ASSUME NoFrameAssumption == NoFrame \notin Frame

FeeInit ==
    /\ tasks = [t \in TaskIds |-> NoTask]
    /\ nextTaskId = 1
    /\ feeBps = InitialFeeBps
    /\ protocolWallet = InitialProtocolWallet
    /\ devWallet = InitialDevWallet
    /\ totalFees = [k \in Tokens |-> 0]
    /\ pending = [k \in Tokens |-> [a \in Accounts |-> 0]]
    /\ maxEscrow = InitialMaxEscrow
    /\ genesisAgents = {}
    /\ genesisTasksUsed = [a \in Accounts |-> 0]
    /\ genesisAgentCount = 0
    /\ supportedTokens = {}
    /\ paused = FALSE
    /\ frame = NoFrame
    /\ balance = [k \in Tokens |-> 0]
    /\ now = 0
    /\ receipts = [t \in TaskIds |-> NoReceipt]
    /\ delivered = [k \in Tokens |-> [a \in Accounts |-> 0]]

-------------------------------------------------------------------------------
\* Funding

\* Mutated form of NonReentrant: the modifier is missing.
NonReentrantMissing == TRUE

\* The modifier nonReentrant, and the same condition for what cannot happen
\* in the middle of another transaction.
NonReentrant == frame = NoFrame

Quiescent == frame = NoFrame

\* Mutated form of PullExact: the amount received is not compared.
PullUnchecked(k, amount, received) == TRUE

IsSupportedToken(k) == k = ETH \/ k \in supportedTokens

\* What the contract receives when it pulls the tokens may be less than it
\* asked for; the measured difference has to match.
PullExact(k, amount, received) == k = ETH \/ received = amount

EscrowFunded(g, k, amount, duration, client, received) ==
    /\ NonReentrant
    /\ ~paused
    /\ amount # 0
    /\ duration # 0
    /\ maxEscrow > 0 => amount <= maxEscrow
    /\ IsSupportedToken(k)
    /\ PullExact(k, amount, received)
    /\ nextTaskId \in TaskIds          \* bound
    /\ now + duration <= MaxTime       \* bound
    /\ tasks' = [tasks EXCEPT ![nextTaskId] =
                    [agent |-> g, client |-> client, token |-> k,
                     amount |-> amount, status |-> "FUNDED",
                     deadline |-> now + duration]]
    /\ nextTaskId' = nextTaskId + 1
    /\ balance' = [balance EXCEPT ![k] =
                      @ + (IF k = ETH THEN amount ELSE received)]
    /\ UNCHANGED <<configVars, genesisVars, pending, delivered, receipts,
                   totalFees, paused, frame, now>>

FundEscrow(g, k, amount, duration, client, received) ==
    /\ EscrowFunded(g, k, amount, duration, client, received)
    /\ UNCHANGED nftVars

\* The client is msg.sender, who is never address(0).
FundTask(g, k, amount, duration, client, received) ==
    /\ client \in Accounts
    /\ FundEscrow(g, k, amount, duration, client, received)

-------------------------------------------------------------------------------
\* Settlement

\* Mutated form of Credit: the credit is overwritten instead of increased.
CreditOverwrites(ledger, to, amount) ==
    IF amount = 0 THEN ledger ELSE [ledger EXCEPT ![to] = amount]

Credit(ledger, to, amount) == [ledger EXCEPT ![to] = @ + amount]

\* Mutated form of GenesisExempt: one free task too many.
GenesisExemptOffByOne(client) ==
    client \in genesisAgents /\ genesisTasksUsed[client] <= GENESIS_FREE_TASKS

GenesisExempt(client) ==
    client \in genesisAgents /\ genesisTasksUsed[client] < GENESIS_FREE_TASKS

TotalFee(amount, exempt) == IF exempt THEN 0 ELSE (amount * feeBps) \div 10000

ProtocolShare(totalFee) == (totalFee * 90) \div 100

\* The event a settlement of task t emits, with the wallets it pays.
ReceiptOf(t) ==
    LET exempt == GenesisExempt(tasks[t].client)
        totalFee == TotalFee(tasks[t].amount, exempt)
        protocolFee == ProtocolShare(totalFee)
    IN  [owner |-> agentOwner[tasks[t].agent],
         protocolWallet |-> protocolWallet,
         devWallet |-> devWallet,
         payout |-> tasks[t].amount - totalFee,
         protocolFee |-> protocolFee,
         devFee |-> totalFee - protocolFee,
         exempt |-> exempt]

\* The three transfers of a settlement, in the order the code makes them
\* (_sendETH and _sendERC20OrEscrow): the legs in refusing are refused by
\* their receiver and credited, the others are sent.
Legs == {"agent", "protocol", "dev"}

Part(amount, leg, chosen) == IF leg \in chosen THEN amount ELSE 0

AddLegs(ledger, r, chosen) ==
    Credit(Credit(Credit(ledger,
                         r.owner, Part(r.payout, "agent", chosen)),
                  r.protocolWallet, Part(r.protocolFee, "protocol", chosen)),
           r.devWallet, Part(r.devFee, "dev", chosen))

AmountOf(r, chosen) ==
    Part(r.payout, "agent", chosen) + Part(r.protocolFee, "protocol", chosen)
        + Part(r.devFee, "dev", chosen)

\* Mutated form of Settleable: the status is not checked.
SettleableInAnyStatus(t, caller) == tasks[t].client = caller

Settleable(t, caller) ==
    tasks[t].status = "FUNDED" /\ tasks[t].client = caller

SettleEscrow(t, caller, refusing) ==
    LET task == tasks[t]
        r == ReceiptOf(t)
        k == task.token
    IN  /\ NonReentrant
        /\ ~paused
        /\ Settleable(t, caller)
        /\ AgentExists(task.agent)
        /\ tasks' = [tasks EXCEPT ![t].status = "SETTLED"]
        /\ genesisTasksUsed' =
             [genesisTasksUsed EXCEPT ![caller] = @ + (IF r.exempt THEN 1 ELSE 0)]
        /\ totalFees' = [totalFees EXCEPT ![k] = @ + r.protocolFee + r.devFee]
        /\ pending' = [pending EXCEPT ![k] = AddLegs(@, r, refusing)]
        /\ delivered' =
             [delivered EXCEPT ![k] = AddLegs(@, r, Legs \ refusing)]
        /\ balance' = [balance EXCEPT ![k] = @ - AmountOf(r, Legs \ refusing)]
        /\ receipts' = [receipts EXCEPT ![t] = r]
        /\ UNCHANGED <<nftVars, configVars, genesisAgents, genesisAgentCount,
                       nextTaskId, paused, frame, now>>

SettleTask(t, caller, refusing) ==
    /\ caller \in Accounts
    /\ SettleEscrow(t, caller, refusing)

\* Mutated forms of Reclaimable: before the deadline, and stopped by a pause.
ReclaimableEarly(t, caller) ==
    tasks[t].status = "FUNDED" /\ tasks[t].client = caller

ReclaimableUnlessPaused(t, caller) ==
    /\ ~paused
    /\ tasks[t].status = "FUNDED"
    /\ tasks[t].client = caller
    /\ now >= tasks[t].deadline

Reclaimable(t, caller) ==
    /\ tasks[t].status = "FUNDED"
    /\ tasks[t].client = caller
    /\ now >= tasks[t].deadline

\* Not stopped by a pause.  Ether a client refuses is credited; an ERC-20
\* transfer that fails reverts the reclaim.
ReclaimTask(t, caller, refuses) ==
    LET task == tasks[t]
        k == task.token
    IN  /\ NonReentrant
        /\ Reclaimable(t, caller)
        /\ refuses => k = ETH
        /\ tasks' = [tasks EXCEPT ![t].status = "RECLAIMED"]
        /\ pending' = [pending EXCEPT ![k] =
                          Credit(@, caller, IF refuses THEN task.amount ELSE 0)]
        /\ delivered' = [delivered EXCEPT ![k] =
                          Credit(@, caller, IF refuses THEN 0 ELSE task.amount)]
        /\ balance' = [balance EXCEPT ![k] =
                          @ - (IF refuses THEN 0 ELSE task.amount)]
        /\ UNCHANGED <<nftVars, configVars, genesisVars, nextTaskId, receipts,
                       totalFees, paused, frame, now>>

-------------------------------------------------------------------------------
\* Pull withdrawals

\* The credit is cleared, then the money goes out with control.  Who
\* receives it is the caller's choice and changes nothing here.
WithdrawPending(a, k) ==
    /\ NonReentrant
    /\ pending[k][a] # 0
    /\ frame' = [account |-> a, token |-> k, amount |-> pending[k][a]]
    /\ pending' = [pending EXCEPT ![k][a] = 0]
    /\ balance' = [balance EXCEPT ![k] = @ - pending[k][a]]
    /\ UNCHANGED <<nftVars, configVars, genesisVars, taskVars, delivered,
                   paused, now>>

WithdrawSucceeds ==
    /\ frame # NoFrame
    /\ frame' = NoFrame
    /\ delivered' = [delivered EXCEPT ![frame.token][frame.account] =
                        @ + frame.amount]
    /\ UNCHANGED <<nftVars, configVars, genesisVars, taskVars, pending,
                   balance, paused, now>>

\* The transfer failed and the transaction reverts: the credit and the money
\* are back.
WithdrawReverts ==
    /\ frame # NoFrame
    /\ frame' = NoFrame
    /\ pending' = [pending EXCEPT ![frame.token][frame.account] = frame.amount]
    /\ balance' = [balance EXCEPT ![frame.token] = @ + frame.amount]
    /\ UNCHANGED <<nftVars, configVars, genesisVars, taskVars, delivered,
                   paused, now>>

-------------------------------------------------------------------------------
\* Administration

\* Mutated form of FeeAllowed: the cap is the whole amount.
FeeAllowedUpToAll(bps) == bps <= 10000

FeeAllowed(bps) == bps <= MAX_FEE_BPS

SetFeePercentage(bps) ==
    /\ Quiescent
    /\ FeeAllowed(bps)
    /\ feeBps' = bps
    /\ UNCHANGED <<nftVars, protocolWallet, devWallet, maxEscrow,
                   supportedTokens, genesisVars, moneyVars, taskVars, paused,
                   frame, now>>

SetProtocolWallet(w) ==
    /\ Quiescent
    /\ protocolWallet' = w
    /\ UNCHANGED <<nftVars, feeBps, devWallet, maxEscrow, supportedTokens,
                   genesisVars, moneyVars, taskVars, paused, frame, now>>

SetDevWallet(w) ==
    /\ Quiescent
    /\ devWallet' = w
    /\ UNCHANGED <<nftVars, feeBps, protocolWallet, maxEscrow,
                   supportedTokens, genesisVars, moneyVars, taskVars, paused,
                   frame, now>>

SetSupportedToken(k, supported) ==
    /\ Quiescent
    /\ k # ETH
    /\ supportedTokens' = IF supported THEN supportedTokens \union {k}
                                       ELSE supportedTokens \ {k}
    /\ UNCHANGED <<nftVars, feeBps, protocolWallet, devWallet, maxEscrow,
                   genesisVars, moneyVars, taskVars, paused, frame, now>>

SetMaxEscrowAmount(cap) ==
    /\ Quiescent
    /\ maxEscrow' = cap
    /\ UNCHANGED <<nftVars, feeBps, protocolWallet, devWallet,
                   supportedTokens, genesisVars, moneyVars, taskVars, paused,
                   frame, now>>

\* _pause requires whenNotPaused and _unpause whenPaused.
Pause ==
    /\ Quiescent
    /\ ~paused
    /\ paused' = TRUE
    /\ UNCHANGED <<nftVars, configVars, genesisVars, moneyVars, taskVars,
                   frame, now>>

Unpause ==
    /\ Quiescent
    /\ paused
    /\ paused' = FALSE
    /\ UNCHANGED <<nftVars, configVars, genesisVars, moneyVars, taskVars,
                   frame, now>>

AddGenesisAgent(a) ==
    /\ Quiescent
    /\ a \notin genesisAgents
    /\ genesisAgentCount < GENESIS_MAX_AGENTS
    /\ genesisAgents' = genesisAgents \union {a}
    /\ genesisAgentCount' = genesisAgentCount + 1
    /\ UNCHANGED <<nftVars, configVars, genesisTasksUsed, moneyVars, taskVars,
                   paused, frame, now>>

\* Mutated form of Removable: any account can be removed, any time.
RemovableUnchecked(a) == TRUE

Removable(a) == a \in genesisAgents

RemoveGenesisAgent(a) ==
    /\ Quiescent
    /\ Removable(a)
    /\ genesisAgents' = genesisAgents \ {a}
    /\ genesisAgentCount' = genesisAgentCount - 1
    /\ UNCHANGED <<nftVars, configVars, genesisTasksUsed, moneyVars, taskVars,
                   paused, frame, now>>

-------------------------------------------------------------------------------
\* The chain around the contract

Tick ==
    /\ Quiescent
    /\ now < MaxTime
    /\ now' = now + 1
    /\ UNCHANGED <<nftVars, configVars, genesisVars, moneyVars, taskVars,
                   paused, frame>>

RegisterAgent(owner) ==
    /\ Quiescent
    /\ Mint(owner)
    /\ UNCHANGED feeVars

TransferAgent(g, to) ==
    /\ Quiescent
    /\ TransferNFT(g, to)
    /\ UNCHANGED feeVars

-------------------------------------------------------------------------------
ClientStep(a) ==
    \/ \E g \in AgentIds, k \in Tokens, amount \in Amounts, d \in Durations,
          shortfall \in {0, 1} :
          FundTask(g, k, amount, d, a, amount - shortfall)
    \/ \E t \in TaskIds, refusing \in SUBSET Legs : SettleTask(t, a, refusing)
    \/ \E t \in TaskIds, refuses \in BOOLEAN : ReclaimTask(t, a, refuses)
    \/ \E k \in Tokens : WithdrawPending(a, k)

AdminStep ==
    \/ \E bps \in FeeChoices : SetFeePercentage(bps)
    \/ \E w \in WalletChoices : SetProtocolWallet(w) \/ SetDevWallet(w)
    \/ \E k \in ERC20s, supported \in BOOLEAN : SetSupportedToken(k, supported)
    \/ \E cap \in CapChoices : SetMaxEscrowAmount(cap)
    \/ Pause \/ Unpause
    \/ \E a \in Accounts : AddGenesisAgent(a) \/ RemoveGenesisAgent(a)

ChainStep ==
    \/ Tick
    \/ \E a \in Accounts : RegisterAgent(a)
    \/ \E g \in AgentIds, to \in Accounts : TransferAgent(g, to)

Init == NFTInit /\ FeeInit

Next ==
    \/ \E a \in Accounts : ClientStep(a)
    \/ WithdrawSucceeds
    \/ WithdrawReverts
    \/ AdminStep
    \/ ChainStep

Spec == Init /\ [][Next]_vars

-------------------------------------------------------------------------------
\* Correctness

StorageTypeOK ==
    /\ tasks \in [TaskIds -> Task]
    /\ nextTaskId \in 1 .. MaxTasks + 1
    /\ feeBps \in 0 .. MAX_FEE_BPS
    /\ protocolWallet \in Accounts /\ devWallet \in Accounts
    /\ totalFees \in [Tokens -> Nat]
    /\ pending \in [Tokens -> [Accounts -> Nat]]
    /\ maxEscrow \in Nat
    /\ genesisAgents \subseteq Accounts
    /\ genesisTasksUsed \in [Accounts -> 0 .. GENESIS_FREE_TASKS]
    /\ genesisAgentCount \in 0 .. GENESIS_MAX_AGENTS
    /\ supportedTokens \subseteq ERC20s
    /\ paused \in BOOLEAN
    /\ frame \in Frame \union {NoFrame}

ObservationTypeOK ==
    /\ receipts \in [TaskIds -> Receipt]
    /\ delivered \in [Tokens -> [Accounts -> Nat]]

\* Every variable has its type; in particular no balance, credit or counter
\* ever goes below zero, so the checked subtractions of the contract cannot
\* revert, and the fee stays within MAX_FEE_BPS.
TypeOK ==
    /\ NFTTypeOK
    /\ StorageTypeOK
    /\ ObservationTypeOK
    /\ now \in 0 .. MaxTime
    /\ balance \in [Tokens -> Nat]

\* What the contract still holds for each task, per token.
EscrowOf(k) ==
    [t \in TaskIds |->
        IF tasks[t].status = "FUNDED" /\ tasks[t].token = k
        THEN tasks[t].amount ELSE 0]

\* Of each token the contract holds exactly what it owes: the amounts of the
\* open tasks and the credits not yet withdrawn, whatever mixture of refused
\* transfers, settlements, reclaims and reverted withdrawals led here.
Solvency ==
    \A k \in Tokens : balance[k] = Total(EscrowOf(k)) + Total(pending[k])

\* What a closed task brings an account, by the event of its settlement or
\* by its reclaim.
Due(t, k, a) ==
    LET task == tasks[t]
        r == receipts[t]
        Leg(wallet, fee) == IF wallet = a THEN fee ELSE 0
    IN  IF task.token # k THEN 0
        ELSE IF task.status = "RECLAIMED" THEN Leg(task.client, task.amount)
        ELSE IF task.status = "SETTLED"
             THEN Leg(r.owner, r.payout) + Leg(r.protocolWallet, r.protocolFee)
                  + Leg(r.devWallet, r.devFee)
             ELSE 0

InFlight(k, a) ==
    IF frame # NoFrame /\ frame.token = k /\ frame.account = a
    THEN frame.amount ELSE 0

\* The events tell the truth about the money: what an account was sent, what
\* is credited to it and what is on its way to it add up to its share of the
\* tasks that closed.  A withdrawal entered twice, a credit overwritten by a
\* second refused transfer, or a task that is settled and reclaimed breaks it.
EveryoneGetsTheirDue ==
    \A k \in Tokens, a \in Accounts :
        delivered[k][a] + pending[k][a] + InFlight(k, a)
            = Total([t \in TaskIds |-> Due(t, k, a)])

\* No settlement ever charged more than MAX_FEE_BPS, the three parts of a
\* settlement are the whole amount, and totalFeesAccrued is the sum of the
\* fees of the TaskSettled events.
FeesAddUp ==
    /\ \A t \in TaskIds :
          LET r == receipts[t]
              fee == r.protocolFee + r.devFee
          IN  tasks[t].status = "SETTLED" =>
                 /\ fee * 10000 <= tasks[t].amount * MAX_FEE_BPS
                 /\ r.payout + fee = tasks[t].amount
    /\ \A k \in Tokens :
          totalFees[k] = Total([t \in TaskIds |->
                            IF tasks[t].token = k
                            THEN receipts[t].protocolFee + receipts[t].devFee
                            ELSE 0])

\* The genesis program has bounds a removal does not reset: nobody gets more
\* than GENESIS_FREE_TASKS settlements without a fee, however often they are
\* removed and added again, and the member count is exact.
GenesisBounded ==
    /\ \A a \in Accounts :
          Cardinality({t \in TaskIds :
                          receipts[t].exempt /\ tasks[t].client = a})
              <= GENESIS_FREE_TASKS
    /\ genesisAgentCount = Cardinality(genesisAgents)

\* What a step may do to a task.
TaskStep(t) ==
    tasks'[t] # tasks[t] =>
       IF t >= nextTaskId
       THEN /\ t = nextTaskId
            /\ tasks'[t].status = "FUNDED"
            /\ tasks'[t].deadline > now
       ELSE /\ tasks[t].status = "FUNDED"
            /\ tasks'[t].status \in {"SETTLED", "RECLAIMED"}
            /\ tasks'[t] = [tasks[t] EXCEPT !.status = tasks'[t].status]
            /\ tasks'[t].status = "RECLAIMED" => now >= tasks[t].deadline

\* The life of a task: a slot is written once, by its funding; what was
\* agreed never changes afterwards; a closed task never moves again; and the
\* client's money goes back only once the deadline has passed.  A slot that
\* was never written reads as FUNDED, and still nobody can close it.
TaskLifecycle == [][\A t \in TaskIds : TaskStep(t)]_vars
===============================================================================
