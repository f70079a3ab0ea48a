-------------------------- MODULE ValidationRegistry --------------------------
(***************************************************************************)
(* FaivrValidationRegistry: whoever acts for an agent asks a validator for *)
(* a verdict, the validator gives it and may give another.  The hash of a  *)
(* request is the tuple that is hashed; the response's URI and hash are    *)
(* left out.                                                               *)
(***************************************************************************)
EXTENDS IdentityRegistry

LOCAL INSTANCE SequencesExt

CONSTANTS
    Responses,      \* the responses validators try to give
    ValidationTags, \* the tags they give
    MaxRequests     \* bound: requests for an agent

VARIABLES
    validations,       \* _records, and _validatorRequests by its validators
    agentValidations,  \* _agentValidations
    requestNonce       \* _requestNonces

validationVars == <<validations, agentValidations, requestNonce>>

MaxResponse == 100

ValidationInit ==
    /\ validations = <<>>
    /\ agentValidations = [g \in AgentIds |-> <<>>]
    /\ requestNonce = [g \in AgentIds |-> 0]

\* Mutated form of RequestHash: the nonce is not hashed.
RequestHashWithoutNonce(a, validator, g) == <<a, validator, g, 0>>

RequestHash(a, validator, g) == <<a, validator, g, requestNonce[g]>>

ValidationRequest(a, validator, g) ==
    LET hash == RequestHash(a, validator, g)
        old == IF hash \in DOMAIN validations THEN validations[hash]
               ELSE [validator |-> validator, agent |-> g, response |-> 0,
                     tag |-> "", answered |-> FALSE]
    IN  /\ ActsForAgent(a, g)
        /\ requestNonce[g] < MaxRequests   \* bound
        /\ requestNonce' = [requestNonce EXCEPT ![g] = @ + 1]
        /\ validations' = [h \in DOMAIN validations \union {hash} |->
                              IF h = hash
                              THEN [old EXCEPT !.validator = validator,
                                               !.agent = g]
                              ELSE validations[h]]
        /\ agentValidations' = [agentValidations EXCEPT ![g] = Append(@, hash)]

\* answered stands for lastUpdate # 0.
ValidationResponse(a, hash, response, tag) ==
    /\ hash \in DOMAIN validations
    /\ a = validations[hash].validator
    /\ response <= MaxResponse
    /\ validations' = [validations EXCEPT ![hash].response = response,
                                          ![hash].tag = tag,
                                          ![hash].answered = TRUE]
    /\ UNCHANGED <<agentValidations, requestNonce>>

ValidationStep ==
    \E a \in Accounts :
       \/ \E validator \in Accounts, g \in AgentIds :
             ValidationRequest(a, validator, g)
       \/ \E hash \in DOMAIN validations, response \in Responses,
             tag \in ValidationTags : ValidationResponse(a, hash, response, tag)

-------------------------------------------------------------------------------
\* Summaries: the answered requests among those at positions from .. to, of
\* the validators asked for (all of them when none is named) and the tag.
Counts(hash, validators, tag) ==
    LET r == validations[hash]
    IN  /\ r.answered
        /\ validators # {} => r.validator \in validators
        /\ tag # "" => r.tag = tag

Counted(g, validators, tag, from, to) ==
    SelectSeq(SubSeq(agentValidations[g], from, to),
              LAMBDA hash : Counts(hash, validators, tag))

SummaryOf(hashes) ==
    [count |-> Len(hashes),
     average |-> IF hashes = <<>> THEN 0
                 ELSE FoldLeft(LAMBDA sum, hash : sum + validations[hash].response,
                               0, hashes) \div Len(hashes)]

ValidationSummary(g, validators, tag) ==
    SummaryOf(Counted(g, validators, tag, 1, Len(agentValidations[g])))

\* Mutated form of PageEnd: a page ends one request late.
PageEndLate(g, offset, limit) ==
    IF offset + limit >= Len(agentValidations[g]) THEN Len(agentValidations[g])
    ELSE offset + limit + 1

PageEnd(g, offset, limit) ==
    IF offset + limit > Len(agentValidations[g]) THEN Len(agentValidations[g])
    ELSE offset + limit

\* getSummaryPaginated pages over the requests, not over the answers.
ValidationSummaryPage(g, validators, tag, offset, limit) ==
    SummaryOf(Counted(g, validators, tag, offset + 1, PageEnd(g, offset, limit)))

-------------------------------------------------------------------------------
\* Every request of an agent has a record of its own, at the agent and for
\* the validator it was made for, however often the same person asks the same
\* validator; nobody's verdict is inherited by a later request.
EveryRequestItsOwn ==
    \A g \in AgentIds :
       /\ Cardinality({h \in DOMAIN validations : validations[h].agent = g})
             = Len(agentValidations[g])
       /\ \A i \in DOMAIN agentValidations[g] :
             LET hash == agentValidations[g][i]
             IN  validations[hash].agent = g /\ validations[hash].validator = hash[2]

\* The pages of a summary are a partition of it: their counts add up to the
\* count of the whole, for every page size, validator and tag.
PagesAddUp ==
    \A g \in AgentIds, validators \in SUBSET Accounts,
       tag \in ValidationTags \union {""}, limit \in 1 .. MaxRequests :
       LET Pages == {p \in 0 .. MaxRequests - 1 : p * limit < Len(agentValidations[g])}
           Page(p) == ValidationSummaryPage(g, validators, tag, p * limit, limit)
       IN  ValidationSummary(g, validators, tag).count
             = FoldLeft(LAMBDA sum, p : sum + Page(p).count, 0,
                        SetToSeq(Pages))
===============================================================================
