------------------------------ MODULE Marketplace -----------------------------
(***************************************************************************)
(* The contracts of a task together: the escrow (FeeModule) calls the      *)
(* reputation registry when a task settles, the registry asks the identity *)
(* registry who may speak for an agent, and the router registers and funds *)
(* or settles and rates in one transaction.  A call that reverts anywhere  *)
(* undoes the whole transaction, so each entry point is one action whose   *)
(* guard is the conjunction of the guards on its path.                     *)
(*                                                                         *)
(* Profiles are left out: no other contract reads them.  So are changes of *)
(* an agent's wallet, which IdentityRegistry has; here it is the wallet    *)
(* the agent was registered with until the agent is sold.                  *)
(*                                                                         *)
(* The fee module can be pointed at another reputation registry; the       *)
(* router always calls the one modelled here.                              *)
(***************************************************************************)
EXTENDS FeeImplementsEscrow, ReputationRegistry

CONSTANTS
    RegistryChoices,  \* what the fee manager points the fee module at
    RefusalChoices    \* the transfers of a settlement that are refused

ASSUME RefusalAssumption == RefusalChoices \subseteq SUBSET Legs

VARIABLES reputationRegistry, atSettlement

marketVars == <<vars, identityVars, reputationVars, reputationRegistry,
                atSettlement>>

NoRegistry == "none"      \* address(0): settlements are not recorded
ThisRegistry == "this"    \* the registry modelled here
OtherRegistry == "other"  \* one deployed before or after it

MarketInit ==
    /\ IdentityInit
    /\ FeeInit
    /\ ReputationInit
    /\ reputationRegistry = NoRegistry
    /\ atSettlement = [t \in TaskIds |-> NoRegistry]

EscrowOnly == UNCHANGED <<identityVars, reputationVars, reputationRegistry,
                          atSettlement>>
IdentityOnly == UNCHANGED <<feeVars, reputationVars, reputationRegistry,
                            atSettlement>>
ReputationOnly == UNCHANGED <<nftVars, feeVars, identityVars,
                              reputationRegistry, atSettlement>>

\* setReputationRegistry refuses address(0).
SetReputationRegistry(r) ==
    /\ Quiescent
    /\ r # NoRegistry
    /\ reputationRegistry' = r
    /\ UNCHANGED <<vars, identityVars, reputationVars, atSettlement>>

\* Mutated form of SettlementCredits: nothing is recorded.
SettlementCreditsNothing(t) == credits

\* _recordTaskSettlement: skipped when no registry is set.
SettlementCredits(t) ==
    IF reputationRegistry = ThisRegistry
    THEN CreditsPlus(tasks[t].agent, tasks[t].client)
    ELSE credits

SettlementRecorded(t) ==
    /\ reputationRegistry = ThisRegistry => CanRecord(t, tasks[t].agent)
    /\ recorded' = IF reputationRegistry = ThisRegistry
                   THEN recorded \union {t} ELSE recorded
    /\ atSettlement' = [atSettlement EXCEPT ![t] = reputationRegistry]
    /\ UNCHANGED <<identityVars, reputationRegistry>>

\* settleTask of the fee module.
MarketSettle(t, a, refusing) ==
    /\ SettleTask(t, a, refusing)
    /\ SettlementRecorded(t)
    /\ credits' = SettlementCredits(t)
    /\ UNCHANGED <<feedback, clientsOf, responses>>

\* Mutated form of RouterAgentChecked: the agent is not compared.
RouterAgentUnchecked(t, g) == g \in AgentIds

RouterAgentChecked(t, g) == tasks[t].agent = g

\* settleAndGiveFeedback of the router: the settlement, then the feedback
\* that may spend the credit the settlement has just earned.
SettleAndGiveFeedback(t, g, a, refusing, value, tag) ==
    /\ RouterAgentChecked(t, g)
    /\ SettleTask(t, a, refusing)
    /\ SettlementRecorded(t)
    /\ GiveFeedback(a, g, value, tag, SettlementCredits(t))

\* registerAndFund of the router: the caller becomes the owner of the agent
\* and the client of the task.  What the caller does when it is called for
\* the mint, in between, is what it can do between registering and funding
\* in transactions of its own, and those are steps here too.
RegisterAndFund(a, k, amount, duration, received) ==
    /\ Register(a, <<>>)
    /\ EscrowFunded(nextAgentId, k, amount, duration, a, received)
    /\ UNCHANGED <<reputationVars, reputationRegistry, atSettlement>>

DirectFeedback(a, g, value, tag) ==
    /\ Quiescent
    /\ GiveFeedback(a, g, value, tag, credits)
    /\ UNCHANGED <<recorded, nftVars, feeVars, identityVars,
                   reputationRegistry, atSettlement>>

EscrowStep ==
    /\ \/ \E a \in Accounts, g \in AgentIds, k \in Tokens, amount \in Amounts,
             d \in Durations : FundTask(g, k, amount, d, a, amount)
       \/ \E a \in Accounts, t \in TaskIds, refuses \in BOOLEAN :
             ReclaimTask(t, a, refuses)
       \/ \E a \in Accounts, k \in Tokens : WithdrawPending(a, k)
       \/ WithdrawSucceeds
       \/ WithdrawReverts
       \/ Tick
    /\ EscrowOnly

SettlementStep ==
    \E a \in Accounts, t \in TaskIds, refusing \in RefusalChoices :
       \/ MarketSettle(t, a, refusing)
       \/ \E g \in AgentIds, value \in FeedbackValues, tag \in FeedbackTags :
             SettleAndGiveFeedback(t, g, a, refusing, value, tag)

RouterFunding ==
    \E a \in Accounts, k \in Tokens, amount \in Amounts, d \in Durations :
       RegisterAndFund(a, k, amount, d, amount)

FeedbackStep ==
    \/ \E a \in Accounts, g \in AgentIds, value \in FeedbackValues,
          tag \in FeedbackTags : DirectFeedback(a, g, value, tag)
    \/ /\ \E a, client \in Accounts, g \in AgentIds, i \in TaskIds :
             \/ RevokeFeedback(client, g, i)
             \/ AppendResponse(a, g, client, i)
       /\ ReputationOnly

IdentityStep ==
    /\ Quiescent
    /\ OwnershipStep \/ ApprovalStep
    /\ IdentityOnly

MarketNext ==
    \/ EscrowStep
    \/ SettlementStep
    \/ RouterFunding
    \/ FeedbackStep
    \/ IdentityStep
    \/ \E r \in RegistryChoices : SetReputationRegistry(r)

MarketSpec == MarketInit /\ [][MarketNext]_marketVars

-------------------------------------------------------------------------------
\* Every feedback stands for a payment: what an account has said of an agent
\* and may still say adds up to the tasks it settled with that agent while
\* this registry was the one told of settlements.  A settlement rolled back
\* by a refused feedback, a feedback on another agent's task, a credit spent
\* twice or a task recorded twice breaks it.
FeedbackBacked ==
    /\ \A t \in recorded : tasks[t].status = "SETTLED"
    /\ \A g \in AgentIds, a \in Accounts :
          credits[g][a] + Len(feedback[g][a])
             = Cardinality({t \in TaskIds :
                              /\ tasks[t].agent = g
                              /\ tasks[t].client = a
                              /\ tasks[t].status = "SETTLED"
                              /\ atSettlement[t] = ThisRegistry})
===============================================================================
