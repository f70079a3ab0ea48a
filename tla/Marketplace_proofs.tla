--------------------------- MODULE Marketplace_proofs --------------------------
(***************************************************************************)
(* The contracts of a task together, for every set of accounts, agents,    *)
(* tokens and feedback: the escrow stays the escrow when the router        *)
(* registers and funds in one transaction, and every feedback stands for   *)
(* a payment.                                                              *)
(***************************************************************************)
EXTENDS Marketplace, FeeImplementsEscrow_proofs

-------------------------------------------------------------------------------
\* The escrow inside the marketplace

\* A transaction of the marketplace is a transaction of the escrow, or changes
\* nothing of it; except the router's registration with funding, which is two
\* at once.
LEMMA MarketStepKinds ==
    ASSUME [MarketNext]_marketVars
    PROVE  [Next]_vars \/ RouterFunding
<1>1. ASSUME EscrowStep PROVE Next
  <2>1. ASSUME NEW a \in Accounts, NEW g \in AgentIds, NEW k \in Tokens,
               NEW amount \in Amounts, NEW d \in Durations,
               FundTask(g, k, amount, d, a, amount)
        PROVE  Next
    <3>1. amount - 0 = amount
      BY FeeConstantsAssumption
    <3>2. FundTask(g, k, amount, d, a, amount - 0)
      BY <2>1, <3>1
    <3> QED
      BY <3>2 DEF Next, ClientStep
  <2> QED
    BY <1>1, <2>1 DEF EscrowStep, Next, ClientStep, ChainStep
<1>2. ASSUME SettlementStep PROVE Next
  BY <1>2, RefusalAssumption
     DEF SettlementStep, MarketSettle, SettleAndGiveFeedback, Next, ClientStep
<1>3. ASSUME FeedbackStep PROVE UNCHANGED vars
  BY <1>3 DEF FeedbackStep, DirectFeedback, ReputationOnly, vars
<1>4. ASSUME IdentityStep PROVE [Next]_vars
  <2>1. CASE OwnershipStep
    BY <1>4, <2>1 DEF IdentityStep, IdentityOnly, OwnershipStep, Register,
                      TransferAgentFrom, RegisterAgent, TransferAgent, Next,
                      ChainStep
  <2>2. CASE ApprovalStep
    <3>1. UNCHANGED nftVars
      BY <2>2 DEF ApprovalStep, Approve, SetApprovalForAll
    <3> QED
      BY <1>4, <3>1 DEF IdentityStep, IdentityOnly, vars
  <2> QED
    BY <1>4, <2>1, <2>2 DEF IdentityStep
<1>5. ASSUME \E r \in RegistryChoices : SetReputationRegistry(r)
      PROVE  UNCHANGED vars
  BY <1>5 DEF SetReputationRegistry
<1>6. CASE UNCHANGED marketVars
  BY <1>6 DEF marketVars
<1> QED
  BY <1>1, <1>2, <1>3, <1>4, <1>5, <1>6 DEF MarketNext

\* The router's funding is a funding for an agent of the next identifier.
LEMMA RouterFundingFunds ==
    ASSUME IInv, RouterFunding
    PROVE  /\ NFTTypeOK'
           /\ \E g \in AgentIds, k \in Tokens, amount \in Nat, d \in Nat,
                 a \in Accounts : EscrowFunded(g, k, amount, d, a, amount)
<1>1. PICK a \in Accounts, k \in Tokens, amount \in Amounts, d \in Durations :
         RegisterAndFund(a, k, amount, d, amount)
  BY DEF RouterFunding
<1>2. /\ nextAgentId \in AgentIds /\ nextAgentId' = nextAgentId + 1
      /\ agentOwner' = [agentOwner EXCEPT ![nextAgentId] = a]
      /\ EscrowFunded(nextAgentId, k, amount, d, a, amount)
  BY <1>1 DEF RegisterAndFund, Register, Mint
<1>3. amount \in Nat /\ d \in Nat
  BY FeeConstantsAssumption
<1>4. NFTTypeOK'
  BY <1>2, MaxAgentsAssumption DEF IInv, TypeOK, NFTTypeOK, Addresses, AgentIds
<1> QED
  BY <1>2, <1>3, <1>4

\* What every step of the escrow keeps, every step of the marketplace keeps.
LEMMA MarketStepInv == IInv /\ [MarketNext]_marketVars => IInv'
<1> SUFFICES ASSUME IInv, [MarketNext]_marketVars PROVE IInv'
  OBVIOUS
<1>1. CASE [Next]_vars
  BY <1>1, StepInv
<1>2. CASE RouterFunding
  <2>1. CoreInv'
    <3>1. PICK g \in AgentIds, k \in Tokens, amount \in Nat, d \in Nat,
               a \in Accounts : EscrowFunded(g, k, amount, d, a, amount)
      BY <1>2, RouterFundingFunds
    <3>2. NFTTypeOK' /\ amount \in Int
      BY <1>2, RouterFundingFunds
    <3> QED
      BY <3>1, <3>2, FundPreserves
  <2>2. CoreInv' => IInv'
    BY CoreSuffices, PTL
  <2> QED
    BY <2>1, <2>2
<1> QED
  BY <1>1, <1>2, MarketStepKinds

LEMMA MarketStepEvents ==
    IInv /\ EventsInv /\ [MarketNext]_marketVars => EventsInv'
<1> SUFFICES ASSUME IInv, EventsInv, [MarketNext]_marketVars PROVE EventsInv'
  OBVIOUS
<1>1. CASE [Next]_vars
  BY <1>1, StepEvents
<1>2. CASE RouterFunding
  <2>1. PICK g \in AgentIds, k \in Tokens, amount \in Nat, d \in Nat,
             a \in Accounts : EscrowFunded(g, k, amount, d, a, amount)
    BY <1>2, RouterFundingFunds
  <2>2. amount \in Int
    OBVIOUS
  <2> QED
    BY <2>1, <2>2, FundEvents
<1> QED
  BY <1>1, <1>2, MarketStepKinds

\* The router's funding opens a deal.
LEMMA RouterFundingOpens ==
    ASSUME IInv, RouterFunding
    PROVE  \E t \in TaskIds : Opens(t)
<1>1. PICK g \in AgentIds, k \in Tokens, amount \in Nat, d \in Nat,
           a \in Accounts : EscrowFunded(g, k, amount, d, a, amount)
  BY RouterFundingFunds
<1>2. amount \in Int
  OBVIOUS
<1> QED
  BY <1>1, <1>2, FundOpens

LEMMA MarketInitInv == MarketInit => Init
  BY DEF MarketInit, IdentityInit, Init

\* The escrow keeps its inductive invariant in the marketplace.
THEOREM MarketInvariance == MarketSpec => []IInv
<1> QED
  BY MarketInitInv, InitInv, MarketStepInv, PTL DEF MarketSpec

\* Of each token the escrow holds exactly what it owes, whatever the router,
\* the registries and the sales of agents do around it.
THEOREM MarketSolvent == MarketSpec => []Solvency
<1>1. IInv => Solvency
  BY DEF IInv
<1> QED
  BY <1>1, MarketInvariance, PTL

\* The marketplace as a whole is still an Escrow: registrations with funding,
\* settlements with feedback, sales and a registry that is exchanged are
\* steps in which a deal opens, pays its whole amount once, returns it once,
\* or nobody's money moves.
THEOREM MarketRefinement == MarketSpec => EscrowSpec
<1>1. IInv /\ [MarketNext]_marketVars => [E!Next]_E!vars
  <2> SUFFICES ASSUME IInv, [MarketNext]_marketVars PROVE [E!Next]_E!vars
    OBVIOUS
  <2>1. CASE [Next]_vars
    BY <2>1, StepImplements
  <2>2. CASE RouterFunding
    BY <2>2, RouterFundingOpens, OpensImplements DEF E!Next
  <2> QED
    BY <2>1, <2>2, MarketStepKinds
<1> QED
  BY <1>1, MarketInitInv, InitImplements, MarketInvariance, PTL
     DEF MarketSpec, EscrowSpec, E!Spec

\* The events still tell the truth: the parts of a settlement are the whole
\* amount and the total of the fees is theirs.
THEOREM MarketFees == MarketSpec => []FeesAddUp
<1>1. EventsInv => FeesAddUp
  BY DEF EventsInv, ReceiptsFair, FeesCounted, FeesOf, FeesAddUp
<1> QED
  BY <1>1, MarketInitInv, InitEvents, MarketStepEvents, MarketInvariance, PTL
     DEF MarketSpec

-------------------------------------------------------------------------------
\* Feedback stands for payments

FeedbackEntry ==
    [value : FeedbackValues, tag : FeedbackTags, revoked : BOOLEAN]

Registries == RegistryChoices \union {NoRegistry}

ReputationTypeOK ==
    /\ credits \in [AgentIds -> [Accounts -> Nat]]
    /\ feedback \in [AgentIds -> [Accounts -> Seq(FeedbackEntry)]]
    /\ recorded \subseteq TaskIds
    /\ reputationRegistry \in Registries
    /\ atSettlement \in [TaskIds -> Registries]

\* The tasks that stand behind what an account says of an agent.
PaidFor(g, a) ==
    {t \in TaskIds : /\ tasks[t].agent = g
                     /\ tasks[t].client = a
                     /\ tasks[t].status = "SETTLED"
                     /\ atSettlement[t] = ThisRegistry}

RecordedSettled == \A t \in recorded : tasks[t].status = "SETTLED"

CreditsBacked ==
    \A g \in AgentIds, a \in Accounts :
       credits[g][a] + Len(feedback[g][a]) = Cardinality(PaidFor(g, a))

\* The inductive invariant of the reputation registry beside the escrow.
BackedInv == ReputationTypeOK /\ RecordedSettled /\ CreditsBacked

LEMMA PaidForFinite ==
    ASSUME NEW g, NEW a
    PROVE  IsFiniteSet(PaidFor(g, a))
<1>1. IsFiniteSet(TaskIds)
  BY FeeConstantsAssumption, FS_Interval DEF TaskIds
<1> QED
  BY <1>1, FS_Subset DEF PaidFor

\* A step that settles no task and leaves the reputation registry alone.
LEMMA NothingSettled ==
    ASSUME IInv, BackedInv,
           \A t \in TaskIds :
              /\ tasks[t].status = "SETTLED" <=> tasks'[t].status = "SETTLED"
              /\ tasks[t].status = "SETTLED" => tasks'[t] = tasks[t],
           UNCHANGED <<recorded, credits, feedback, reputationRegistry,
                       atSettlement>>
    PROVE  BackedInv'
<1>1. \A g \in AgentIds, a \in Accounts : PaidFor(g, a)' = PaidFor(g, a)
  BY DEF PaidFor
<1>2. ReputationTypeOK' /\ RecordedSettled'
  BY DEF BackedInv, ReputationTypeOK, RecordedSettled
<1> QED
  BY <1>1, <1>2 DEF BackedInv, CreditsBacked

LEMMA OpensNothingSettled ==
    ASSUME IInv, NEW t \in TaskIds, Opens(t), NEW u \in TaskIds
    PROVE  /\ tasks[u].status = "SETTLED" <=> tasks'[u].status = "SETTLED"
           /\ tasks[u].status = "SETTLED" => tasks'[u] = tasks[u]
<1>1. tasks \in [TaskIds -> Task]
  BY DEF IInv, TypeOK, StorageTypeOK
<1>2. tasks[t].status = "FUNDED" /\ tasks'[t].status = "FUNDED"
  BY DEF Opens, IInv, TypeOK, StorageTypeOK, TaskSlots, NoTask
<1> QED
  BY <1>1, <1>2 DEF Opens

LEMMA ReturnsNothingSettled ==
    ASSUME IInv, NEW t \in TaskIds, Returns(t), NEW u \in TaskIds
    PROVE  /\ tasks[u].status = "SETTLED" <=> tasks'[u].status = "SETTLED"
           /\ tasks[u].status = "SETTLED" => tasks'[u] = tasks[u]
<1>1. tasks \in [TaskIds -> Task]
  BY DEF IInv, TypeOK, StorageTypeOK
<1>2. /\ tasks[t].status = "FUNDED"
      /\ tasks' = [tasks EXCEPT ![t].status = "RECLAIMED"]
  BY DEF Returns, Closes
<1>3. tasks'[t].status = "RECLAIMED"
  BY <1>1, <1>2 DEF Task
<1> QED
  BY <1>1, <1>2, <1>3

\* A settlement earns the client one credit when this registry is told.
LEMMA SettlementEarns ==
    ASSUME IInv, BackedInv, NEW t \in TaskIds, NEW a \in Accounts,
           NEW refusing \in SUBSET Legs,
           SettleTask(t, a, refusing), SettlementRecorded(t)
    PROVE  /\ tasks[t].agent \in AgentIds /\ tasks[t].client = a
           /\ SettlementCredits(t) \in [AgentIds -> [Accounts -> Nat]]
           /\ \A g \in AgentIds, b \in Accounts :
                 SettlementCredits(t)[g][b] + Len(feedback[g][b])
                    = Cardinality(PaidFor(g, b)')
           /\ recorded' \subseteq TaskIds /\ RecordedSettled'
           /\ reputationRegistry' \in Registries
           /\ atSettlement' \in [TaskIds -> Registries]
<1>1. /\ tasks[t].status = "FUNDED" /\ tasks[t].client = a
      /\ tasks' = [tasks EXCEPT ![t].status = "SETTLED"]
  BY DEF SettleTask, SettleEscrow, Settleable
<1>2. tasks[t].agent \in AgentIds
  BY <1>1, NamedSlotFunded
<1>3. tasks \in [TaskIds -> Task]
  BY DEF IInv, TypeOK, StorageTypeOK
<1>4. /\ tasks'[t].status = "SETTLED" /\ tasks'[t].agent = tasks[t].agent
      /\ tasks'[t].client = a
      /\ \A u \in TaskIds : u # t => tasks'[u] = tasks[u]
  BY <1>1, <1>3 DEF Task
<1>5. /\ atSettlement' = [atSettlement EXCEPT ![t] = reputationRegistry]
      /\ recorded' = IF reputationRegistry = ThisRegistry
                     THEN recorded \union {t} ELSE recorded
      /\ UNCHANGED reputationRegistry
  BY DEF SettlementRecorded
<1>6. /\ atSettlement' \in [TaskIds -> Registries]
      /\ atSettlement'[t] = reputationRegistry
      /\ \A u \in TaskIds : u # t => atSettlement'[u] = atSettlement[u]
  BY <1>5 DEF BackedInv, ReputationTypeOK
<1>7. recorded' \subseteq TaskIds /\ RecordedSettled'
  BY <1>4, <1>5 DEF BackedInv, ReputationTypeOK, RecordedSettled
<1>8. /\ credits \in [AgentIds -> [Accounts -> Nat]]
      /\ \A g \in AgentIds, b \in Accounts : Len(feedback[g][b]) \in Nat
  BY DEF BackedInv, ReputationTypeOK
<1>9. CASE reputationRegistry # ThisRegistry
  <2>1. \A g \in AgentIds, b \in Accounts : PaidFor(g, b)' = PaidFor(g, b)
    BY <1>1, <1>4, <1>6, <1>9 DEF PaidFor
  <2>2. SettlementCredits(t) = credits
    BY <1>9 DEF SettlementCredits
  <2> QED
    BY <1>1, <1>2, <1>5, <1>6, <1>7, <1>8, <2>1, <2>2
       DEF BackedInv, CreditsBacked, ReputationTypeOK
<1>10. CASE reputationRegistry = ThisRegistry
  <2> DEFINE row == [credits[tasks[t].agent] EXCEPT ![a] = @ + 1]
  <2>1. SettlementCredits(t) = [credits EXCEPT ![tasks[t].agent] = row]
    BY <1>1, <1>10 DEF SettlementCredits, CreditsPlus
  <2>2. /\ row \in [Accounts -> Nat]
        /\ row[a] = credits[tasks[t].agent][a] + 1
        /\ \A b \in Accounts : b # a => row[b] = credits[tasks[t].agent][b]
    BY <1>2, <1>8
  <2> HIDE DEF row
  <2>3. SettlementCredits(t) \in [AgentIds -> [Accounts -> Nat]]
    BY <1>2, <1>8, <2>1, <2>2
  <2>4. ASSUME NEW g \in AgentIds, NEW b \in Accounts
        PROVE  SettlementCredits(t)[g][b] + Len(feedback[g][b])
                  = Cardinality(PaidFor(g, b)')
    <3>1. credits[g][b] + Len(feedback[g][b]) = Cardinality(PaidFor(g, b))
      BY DEF BackedInv, CreditsBacked
    <3>2. CASE g = tasks[t].agent /\ b = a
      <4>1. PaidFor(g, b)' = PaidFor(g, b) \union {t}
        BY <1>1, <1>4, <1>6, <1>10, <3>2 DEF PaidFor
      <4>2. t \notin PaidFor(g, b)
        BY <1>1 DEF PaidFor
      <4>3. Cardinality(PaidFor(g, b)') = Cardinality(PaidFor(g, b)) + 1
        BY <4>1, <4>2, PaidForFinite, FS_AddElement
      <4>4. SettlementCredits(t)[g][b] = credits[g][b] + 1
        BY <1>2, <1>8, <2>1, <2>2, <3>2
      <4>5. credits[g][b] \in Nat /\ Len(feedback[g][b]) \in Nat
        BY <1>8
      <4> QED
        BY <3>1, <4>3, <4>4, <4>5
    <3>3. CASE ~(g = tasks[t].agent /\ b = a)
      <4>1. PaidFor(g, b)' = PaidFor(g, b)
        BY <1>1, <1>4, <1>6, <3>3 DEF PaidFor
      <4>2. SettlementCredits(t)[g][b] = credits[g][b]
        BY <1>2, <1>8, <2>1, <2>2, <3>3
      <4> QED
        BY <3>1, <4>1, <4>2
    <3> QED
      BY <3>2, <3>3
  <2> QED
    BY <1>1, <1>2, <1>5, <1>6, <1>7, <2>3, <2>4
       DEF BackedInv, ReputationTypeOK
<1> QED
  BY <1>9, <1>10

\* A feedback spends one credit and leaves one entry.
LEMMA FeedbackSpends ==
    ASSUME BackedInv, NEW have \in [AgentIds -> [Accounts -> Nat]],
           NEW client \in Accounts, NEW g \in AgentIds,
           NEW value \in FeedbackValues, NEW tag \in FeedbackTags,
           GiveFeedback(client, g, value, tag, have)
    PROVE  /\ credits' \in [AgentIds -> [Accounts -> Nat]]
           /\ feedback' \in [AgentIds -> [Accounts -> Seq(FeedbackEntry)]]
           /\ \A h \in AgentIds, b \in Accounts :
                 credits'[h][b] + Len(feedback'[h][b])
                    = have[h][b] + Len(feedback[h][b])
<1> DEFINE entry == [value |-> value, tag |-> tag, revoked |-> FALSE]
           spent == [have[g] EXCEPT ![client] = @ - 1]
           said == [feedback[g] EXCEPT ![client] = Append(@, entry)]
<1>1. /\ have[g][client] > 0
      /\ credits' = [have EXCEPT ![g] = spent]
      /\ feedback' = [feedback EXCEPT ![g] = said]
  BY DEF GiveFeedback, Spend
<1>2. entry \in FeedbackEntry
  BY DEF FeedbackEntry
<1> HIDE DEF entry
<1>3. feedback \in [AgentIds -> [Accounts -> Seq(FeedbackEntry)]]
  BY DEF BackedInv, ReputationTypeOK
<1>4. /\ feedback[g] \in [Accounts -> Seq(FeedbackEntry)]
      /\ feedback[g][client] \in Seq(FeedbackEntry)
  BY <1>3
<1>5. /\ Append(feedback[g][client], entry) \in Seq(FeedbackEntry)
      /\ Len(Append(feedback[g][client], entry)) = Len(feedback[g][client]) + 1
  BY <1>2, <1>4
<1>6. /\ said \in [Accounts -> Seq(FeedbackEntry)]
      /\ Len(said[client]) = Len(feedback[g][client]) + 1
      /\ \A b \in Accounts : b # client => said[b] = feedback[g][b]
  BY <1>4, <1>5
<1>7. /\ spent \in [Accounts -> Nat]
      /\ spent[client] = have[g][client] - 1
      /\ \A b \in Accounts : b # client => spent[b] = have[g][b]
  BY <1>1
<1> HIDE DEF said, spent
<1>8. /\ credits' \in [AgentIds -> [Accounts -> Nat]]
      /\ feedback' \in [AgentIds -> [Accounts -> Seq(FeedbackEntry)]]
  BY <1>1, <1>3, <1>6, <1>7
<1>9. ASSUME NEW h \in AgentIds, NEW b \in Accounts
      PROVE  credits'[h][b] + Len(feedback'[h][b])
                = have[h][b] + Len(feedback[h][b])
  <2>1. have[h][b] \in Nat /\ Len(feedback[h][b]) \in Nat
    BY <1>3
  <2>2. CASE h = g /\ b = client
    BY <1>1, <1>3, <1>6, <1>7, <2>1, <2>2
  <2>3. CASE ~(h = g /\ b = client)
    BY <1>1, <1>3, <1>6, <1>7, <2>1, <2>3
  <2> QED
    BY <2>2, <2>3
<1> QED
  BY <1>8, <1>9

\* A revoked entry stays an entry: its credit does not come back.
LEMMA RevokeKeepsLength ==
    ASSUME BackedInv, NEW client \in Accounts, NEW g \in AgentIds, NEW i,
           RevokeFeedback(client, g, i)
    PROVE  /\ feedback' \in [AgentIds -> [Accounts -> Seq(FeedbackEntry)]]
           /\ \A h \in AgentIds, b \in Accounts :
                 Len(feedback'[h][b]) = Len(feedback[h][b])
<1>1. feedback \in [AgentIds -> [Accounts -> Seq(FeedbackEntry)]]
  BY DEF BackedInv, ReputationTypeOK
<1>2. PICK old \in Seq(FeedbackEntry) : old = feedback[g][client]
  BY <1>1
<1>3. i \in DOMAIN old /\ i \in 1 .. Len(old)
  BY <1>2 DEF RevokeFeedback
<1>4. PICK entry \in FeedbackEntry : entry = old[i]
  BY <1>3
<1>5. [entry EXCEPT !.revoked = TRUE] \in FeedbackEntry
  BY DEF FeedbackEntry
<1>6. PICK revoked \in FeedbackEntry : revoked = [entry EXCEPT !.revoked = TRUE]
  BY <1>5
<1>7. /\ [old EXCEPT ![i] = revoked] \in Seq(FeedbackEntry)
      /\ Len([old EXCEPT ![i] = revoked]) = Len(old)
  BY <1>3
<1>8. PICK new \in Seq(FeedbackEntry) : new = [old EXCEPT ![i] = revoked]
  BY <1>7
<1> DEFINE said == [feedback[g] EXCEPT ![client] = new]
<1>9. feedback' = [feedback EXCEPT ![g] = said]
  BY <1>2, <1>4, <1>6, <1>8 DEF RevokeFeedback
<1>10. /\ said \in [Accounts -> Seq(FeedbackEntry)]
       /\ Len(said[client]) = Len(feedback[g][client])
       /\ \A b \in Accounts : b # client => said[b] = feedback[g][b]
  BY <1>1, <1>2, <1>7, <1>8
<1> HIDE DEF said
<1> QED
  BY <1>1, <1>9, <1>10

\* A step of the reputation registry alone.
LEMMA ReputationBacked ==
    ASSUME BackedInv,
           credits' \in [AgentIds -> [Accounts -> Nat]],
           feedback' \in [AgentIds -> [Accounts -> Seq(FeedbackEntry)]],
           \A h \in AgentIds, b \in Accounts :
              credits'[h][b] + Len(feedback'[h][b])
                 = credits[h][b] + Len(feedback[h][b]),
           UNCHANGED <<tasks, recorded, reputationRegistry, atSettlement>>
    PROVE  BackedInv'
<1>1. \A g \in AgentIds, a \in Accounts : PaidFor(g, a)' = PaidFor(g, a)
  BY DEF PaidFor
<1>2. ReputationTypeOK' /\ RecordedSettled'
  BY DEF BackedInv, ReputationTypeOK, RecordedSettled
<1>3. CreditsBacked'
  BY <1>1 DEF BackedInv, CreditsBacked
<1> QED
  BY <1>2, <1>3 DEF BackedInv

LEMMA SettlementBacked ==
    ASSUME IInv, BackedInv, SettlementStep
    PROVE  BackedInv'
<1>1. ASSUME NEW a \in Accounts, NEW t \in TaskIds,
             NEW refusing \in RefusalChoices, MarketSettle(t, a, refusing)
      PROVE  BackedInv'
  <2>1. /\ SettleTask(t, a, refusing) /\ SettlementRecorded(t)
        /\ credits' = SettlementCredits(t) /\ UNCHANGED feedback
        /\ refusing \in SUBSET Legs
    BY <1>1, RefusalAssumption DEF MarketSettle
  <2>2. ReputationTypeOK' /\ RecordedSettled'
    BY <2>1, SettlementEarns DEF BackedInv, ReputationTypeOK
  <2>3. CreditsBacked'
    BY <2>1, SettlementEarns DEF CreditsBacked
  <2> QED
    BY <2>2, <2>3 DEF BackedInv
<1>2. ASSUME NEW a \in Accounts, NEW t \in TaskIds,
             NEW refusing \in RefusalChoices, NEW g \in AgentIds,
             NEW value \in FeedbackValues, NEW tag \in FeedbackTags,
             SettleAndGiveFeedback(t, g, a, refusing, value, tag)
      PROVE  BackedInv'
  <2>1. /\ SettleTask(t, a, refusing) /\ SettlementRecorded(t)
        /\ GiveFeedback(a, g, value, tag, SettlementCredits(t))
        /\ refusing \in SUBSET Legs
    BY <1>2, RefusalAssumption DEF SettleAndGiveFeedback
  <2>2. PICK have \in [AgentIds -> [Accounts -> Nat]] :
           have = SettlementCredits(t)
    BY <2>1, SettlementEarns
  <2>3. /\ credits' \in [AgentIds -> [Accounts -> Nat]]
        /\ feedback' \in [AgentIds -> [Accounts -> Seq(FeedbackEntry)]]
        /\ \A h \in AgentIds, b \in Accounts :
              credits'[h][b] + Len(feedback'[h][b])
                 = have[h][b] + Len(feedback[h][b])
    <3>1. GiveFeedback(a, g, value, tag, have)
      BY <2>1, <2>2
    <3> QED
      BY <3>1, FeedbackSpends
  <2>4. ReputationTypeOK' /\ RecordedSettled'
    BY <2>1, <2>3, SettlementEarns DEF ReputationTypeOK
  <2>5. CreditsBacked'
    BY <2>1, <2>2, <2>3, SettlementEarns DEF CreditsBacked
  <2> QED
    BY <2>4, <2>5 DEF BackedInv
<1> QED
  BY <1>1, <1>2 DEF SettlementStep

LEMMA EscrowStepBacked ==
    ASSUME IInv, BackedInv, EscrowStep
    PROVE  BackedInv'
<1>1. UNCHANGED <<recorded, credits, feedback, reputationRegistry, atSettlement>>
  BY DEF EscrowStep, EscrowOnly, reputationVars
<1>2. ASSUME NEW a \in Accounts, NEW g \in AgentIds, NEW k \in Tokens,
             NEW amount \in Amounts, NEW d \in Durations,
             FundTask(g, k, amount, d, a, amount)
      PROVE  BackedInv'
  <2>1. amount \in Nat /\ d \in Nat /\ amount \in Int
    BY FeeConstantsAssumption
  <2>2. EscrowFunded(g, k, amount, d, a, amount)
    BY <1>2 DEF FundTask, FundEscrow
  <2>3. PICK t \in TaskIds : Opens(t)
    BY <2>1, <2>2, FundOpens
  <2> QED
    BY <1>1, <2>3, OpensNothingSettled, NothingSettled
<1>3. ASSUME NEW a \in Accounts, NEW t \in TaskIds, NEW refuses \in BOOLEAN,
             ReclaimTask(t, a, refuses)
      PROVE  BackedInv'
  <2>1. Returns(t)
    BY <1>3, ReclaimReturns
  <2> QED
    BY <1>1, <2>1, ReturnsNothingSettled, NothingSettled
<1>4. CASE \/ \E a \in Accounts, k \in Tokens : WithdrawPending(a, k)
           \/ WithdrawSucceeds \/ WithdrawReverts \/ Tick
  <2>1. UNCHANGED tasks
    BY <1>4 DEF WithdrawPending, WithdrawSucceeds, WithdrawReverts, Tick, taskVars
  <2> QED
    BY <1>1, <2>1, NothingSettled
<1> QED
  BY <1>2, <1>3, <1>4 DEF EscrowStep

LEMMA FeedbackStepBacked ==
    ASSUME BackedInv, FeedbackStep
    PROVE  BackedInv'
<1>1. ASSUME NEW a \in Accounts, NEW g \in AgentIds,
             NEW value \in FeedbackValues, NEW tag \in FeedbackTags,
             DirectFeedback(a, g, value, tag)
      PROVE  BackedInv'
  <2>1. /\ GiveFeedback(a, g, value, tag, credits)
        /\ UNCHANGED <<tasks, recorded, reputationRegistry, atSettlement>>
    BY <1>1 DEF DirectFeedback, feeVars, taskVars
  <2>2. PICK have \in [AgentIds -> [Accounts -> Nat]] : have = credits
    BY DEF BackedInv, ReputationTypeOK
  <2>3. GiveFeedback(a, g, value, tag, have)
    BY <2>1, <2>2
  <2> QED
    BY <2>1, <2>2, <2>3, FeedbackSpends, ReputationBacked
<1>2. ASSUME NEW client \in Accounts, NEW g \in AgentIds, NEW i \in TaskIds,
             RevokeFeedback(client, g, i), ReputationOnly
      PROVE  BackedInv'
  <2>1. UNCHANGED <<credits, tasks, recorded, reputationRegistry, atSettlement>>
    BY <1>2 DEF RevokeFeedback, ReputationOnly, feeVars, taskVars
  <2>2. /\ feedback' \in [AgentIds -> [Accounts -> Seq(FeedbackEntry)]]
        /\ \A h \in AgentIds, b \in Accounts :
              Len(feedback'[h][b]) = Len(feedback[h][b])
    BY <1>2, RevokeKeepsLength
  <2>3. credits' \in [AgentIds -> [Accounts -> Nat]]
    BY <2>1 DEF BackedInv, ReputationTypeOK
  <2> QED
    BY <2>1, <2>2, <2>3, ReputationBacked
<1>3. ASSUME NEW a \in Accounts, NEW client \in Accounts, NEW g \in AgentIds,
             NEW i \in TaskIds, AppendResponse(a, g, client, i), ReputationOnly
      PROVE  BackedInv'
  <2>1. UNCHANGED <<credits, feedback, tasks, recorded, reputationRegistry,
                    atSettlement>>
    BY <1>3 DEF AppendResponse, ReputationOnly, feeVars, taskVars
  <2>2. /\ credits' \in [AgentIds -> [Accounts -> Nat]]
        /\ feedback' \in [AgentIds -> [Accounts -> Seq(FeedbackEntry)]]
    BY <2>1 DEF BackedInv, ReputationTypeOK
  <2> QED
    BY <2>1, <2>2, ReputationBacked
<1> QED
  BY <1>1, <1>2, <1>3 DEF FeedbackStep

LEMMA RouterFundingBacked ==
    ASSUME IInv, BackedInv, RouterFunding
    PROVE  BackedInv'
<1>1. UNCHANGED <<recorded, credits, feedback, reputationRegistry, atSettlement>>
  BY DEF RouterFunding, RegisterAndFund, reputationVars
<1>2. PICK t \in TaskIds : Opens(t)
  BY RouterFundingOpens
<1> QED
  BY <1>1, <1>2, OpensNothingSettled, NothingSettled

LEMMA MarketStepBacked ==
    IInv /\ BackedInv /\ [MarketNext]_marketVars => BackedInv'
<1> SUFFICES ASSUME IInv, BackedInv, [MarketNext]_marketVars PROVE BackedInv'
  OBVIOUS
<1>1. CASE IdentityStep
  <2>1. UNCHANGED <<tasks, recorded, credits, feedback, reputationRegistry,
                    atSettlement>>
    BY <1>1 DEF IdentityStep, IdentityOnly, feeVars, taskVars, reputationVars
  <2> QED
    BY <2>1, NothingSettled
<1>2. ASSUME NEW r \in RegistryChoices, SetReputationRegistry(r)
      PROVE  BackedInv'
  <2>1. /\ UNCHANGED <<tasks, recorded, credits, feedback, atSettlement>>
        /\ reputationRegistry' \in Registries
    BY <1>2 DEF SetReputationRegistry, vars, feeVars, taskVars, reputationVars,
                Registries
  <2> QED
    BY <2>1 DEF BackedInv, ReputationTypeOK, RecordedSettled, CreditsBacked, PaidFor
<1>3. CASE UNCHANGED marketVars
  <2>1. UNCHANGED <<tasks, recorded, credits, feedback, reputationRegistry,
                    atSettlement>>
    BY <1>3 DEF marketVars, vars, feeVars, taskVars, reputationVars
  <2> QED
    BY <2>1, NothingSettled
<1> QED
  BY <1>1, <1>2, <1>3, EscrowStepBacked, SettlementBacked, RouterFundingBacked,
     FeedbackStepBacked DEF MarketNext

LEMMA MarketInitBacked == MarketInit => BackedInv
<1> SUFFICES ASSUME MarketInit PROVE BackedInv
  OBVIOUS
<1> USE DEF MarketInit, ReputationInit
<1>1. ReputationTypeOK
  <2>1. <<>> \in Seq(FeedbackEntry)
    OBVIOUS
  <2> QED
    BY <2>1 DEF ReputationTypeOK, Registries
<1>2. ASSUME NEW g \in AgentIds, NEW a \in Accounts
      PROVE  credits[g][a] + Len(feedback[g][a]) = Cardinality(PaidFor(g, a))
  <2>1. PaidFor(g, a) = {}
    BY DEF PaidFor, FeeInit, NoTask
  <2> QED
    BY <2>1, FS_EmptySet
<1> QED
  BY <1>1, <1>2 DEF BackedInv, RecordedSettled, CreditsBacked

\* FeedbackBacked for every number of tasks, agents and accounts: feedback
\* given and credits left are the settled tasks this registry was told of, one
\* for one (recordTaskSettlement, _giveFeedback, settleAndGiveFeedback).
THEOREM FeedbackPaidFor == MarketSpec => []FeedbackBacked
<1>1. BackedInv => FeedbackBacked
  BY DEF BackedInv, RecordedSettled, CreditsBacked, PaidFor, FeedbackBacked
<1> QED
  BY <1>1, MarketInitBacked, MarketStepBacked, MarketInvariance, PTL
     DEF MarketSpec
===============================================================================
