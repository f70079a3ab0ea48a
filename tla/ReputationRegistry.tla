-------------------------- MODULE ReputationRegistry --------------------------
(***************************************************************************)
(* FaivrReputationRegistry: a settled task earns its client one feedback   *)
(* credit for the agent, each feedback spends one.  An entry keeps its     *)
(* value and first tag; the second tag, the endpoint, the URI and the hash *)
(* are only emitted or filtered like the first.                            *)
(***************************************************************************)
EXTENDS IdentityRegistry, Bags

CONSTANTS
    FeedbackValues,  \* the values clients give
    FeedbackTags,    \* the tags clients give
    MaxResponses     \* bound: responses in a behaviour

VARIABLES
    credits,    \* _pendingFeedbackCredits
    recorded,   \* _recordedTaskSettlements
    feedback,   \* _feedback and _lastIndex
    clientsOf,  \* _clients and _isClient
    responses   \* _responseCounts: a bag of the keys of the mapping

reputationVars == <<credits, recorded, feedback, clientsOf, responses>>

ReputationInit ==
    /\ credits = [g \in AgentIds |-> [a \in Accounts |-> 0]]
    /\ recorded = {}
    /\ feedback = [g \in AgentIds |-> [a \in Accounts |-> <<>>]]
    /\ clientsOf = [g \in AgentIds |-> <<>>]
    /\ responses = EmptyBag

-------------------------------------------------------------------------------
\* Mutated form of CreditedOnce: a task may be recorded again.
CreditedAgain(t) == TRUE

CreditedOnce(t) == t \notin recorded

\* recordTaskSettlement, and what it leaves in credits.
CreditsPlus(g, client) == [credits EXCEPT ![g][client] = @ + 1]

CanRecord(t, g) == CreditedOnce(t) /\ AgentExists(g)

NotSelf(client, g) == ~ActsForAgent(client, g) /\ client # agentWallet[g]

\* Mutated form of Spend: the credit stays.
SpendNothing(have, g, client) == have

Spend(have, g, client) == [have EXCEPT ![g][client] = @ - 1]

ListClient(g, client) ==
    IF \E i \in DOMAIN clientsOf[g] : clientsOf[g][i] = client
    THEN clientsOf[g] ELSE Append(clientsOf[g], client)

\* _giveFeedback, with the credits the transaction has at that point.
GiveFeedback(client, g, value, tag, have) ==
    /\ AgentExists(g)
    /\ have[g][client] > 0
    /\ credits' = Spend(have, g, client)
    /\ NotSelf(client, g)
    /\ clientsOf' = [clientsOf EXCEPT ![g] = ListClient(g, client)]
    /\ feedback' = [feedback EXCEPT ![g][client] =
                       Append(@, [value |-> value, tag |-> tag,
                                  revoked |-> FALSE])]
    /\ UNCHANGED responses

RevokeFeedback(client, g, i) ==
    /\ i \in DOMAIN feedback[g][client]
    /\ ~feedback[g][client][i].revoked
    /\ feedback' = [feedback EXCEPT ![g][client][i].revoked = TRUE]
    /\ UNCHANGED <<credits, recorded, clientsOf, responses>>

\* Whoever acts for the agent may answer, and so may the author, a revoked
\* entry included.
AppendResponse(a, g, client, i) ==
    /\ i \in DOMAIN feedback[g][client]
    /\ ActsForAgent(a, g) \/ a = client
    /\ BagCardinality(responses) < MaxResponses   \* bound
    /\ responses' = responses (+) SetToBag({<<g, client, i, a>>})
    /\ UNCHANGED <<credits, recorded, feedback, clientsOf>>

GetResponseCount(g, client, i, responders) ==
    BagCardinality([k \in {x \in DOMAIN responses :
                              /\ <<x[1], x[2], x[3]>> = <<g, client, i>>
                              /\ x[4] \in responders} |-> responses[k]])
===============================================================================
