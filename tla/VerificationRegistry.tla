------------------------- MODULE VerificationRegistry -------------------------
(***************************************************************************)
(* FaivrVerificationRegistry: a verifier marks an agent as verified for    *)
(* some time, and a soulbound token is minted to the agent's owner.  The   *)
(* verification counts while the token's owner still owns the agent; after *)
(* a transfer it is stale until anybody moves the token to the new owner.  *)
(* The drawing in the token's metadata is left out, its status is not.     *)
(***************************************************************************)
EXTENDS IdentityRegistry

CONSTANTS
    MaxTokenId,      \* bound: verification tokens minted in a behaviour
    MaxClock,        \* bound: the last block timestamp
    ExpiryPeriods,   \* the periods the administrator sets
    InitialExpiry    \* 90 days

ASSUME VerificationAssumption ==
    /\ MaxTokenId \in Nat /\ MaxClock \in Nat
    /\ ExpiryPeriods \subseteq Nat /\ InitialExpiry \in Nat

VARIABLES
    verifications,   \* _verifications
    tokenOwner,      \* ERC-721 _owners of the verification tokens
    tokenAgent,      \* _tokenAgents
    nextTokenId,     \* _nextTokenId
    expiryPeriod,
    clock            \* block.timestamp

verificationVars == <<verifications, tokenOwner, tokenAgent, nextTokenId,
                      expiryPeriod>>

TokenIds == 1 .. MaxTokenId

VerificationInit ==
    /\ verifications = [g \in AgentIds |->
          [verified |-> FALSE, verifiedAt |-> 0, expiresAt |-> 0, token |-> 0]]
    /\ tokenOwner = [t \in TokenIds |-> ZeroAddr]
    /\ tokenAgent = [t \in TokenIds |-> 0]
    /\ nextTokenId = 1
    /\ expiryPeriod = InitialExpiry
    /\ clock = 1

-------------------------------------------------------------------------------
\* _verificationBoundToCurrentOwner
BoundToCurrentOwner(g) ==
    LET t == verifications[g].token
    IN  /\ t # 0
        /\ tokenOwner[t] # ZeroAddr
        /\ AgentExists(g)
        /\ tokenOwner[t] = agentOwner[g]

\* Mutated form of VerificationState: the owner is not compared.
StateWithoutOwner(g) ==
    IF ~verifications[g].verified THEN "revoked"
    ELSE IF clock > verifications[g].expiresAt THEN "expired" ELSE "active"

\* _verificationState
VerificationState(g) ==
    IF ~verifications[g].verified THEN "revoked"
    ELSE IF clock > verifications[g].expiresAt THEN "expired"
    ELSE IF ~BoundToCurrentOwner(g) THEN "stale-owner"
    ELSE "active"

IsVerified(g) == VerificationState(g) = "active"

\* getVerification
VerificationShown(g) ==
    [verifications[g] EXCEPT !.verified = @ /\ IsVerified(g)]

\* The agent a token belongs to: tokenURI looks the link up and falls back on
\* a search for tokens minted before links were kept.
LinkedAgent(t) ==
    IF tokenAgent[t] # 0 THEN tokenAgent[t]
    ELSE LET holders == {g \in AgentIds : /\ g < nextAgentId
                                          /\ verifications[g].token = t}
         IN  IF holders = {} THEN 0
             ELSE CHOOSE g \in holders : \A h \in holders : g <= h

\* tokenURI: current or historical, with the state of the verification.
TokenStatus(t) ==
    [agent |-> LinkedAgent(t), status |-> VerificationState(LinkedAgent(t)),
     current |-> IsVerified(LinkedAgent(t))]

\* Mutated form of SyncKeeps: a token is kept whoever owns it.
SyncKeepsAny(g) ==
    LET t == verifications[g].token IN t # 0 /\ tokenOwner[t] # ZeroAddr

\* The token stays where it is when it is live and its owner owns the agent.
SyncKeeps(g) == BoundToCurrentOwner(g)

\* Mutated form of Burnt: the old token stays with its owner.
BurntNothing(g) == {}

\* The token a sync burns before it mints the next one.
Burnt(g) ==
    {t \in TokenIds : t = verifications[g].token /\ tokenOwner[t] # ZeroAddr}

\* _syncVerification
SyncedToken(g) == IF SyncKeeps(g) THEN verifications[g].token ELSE nextTokenId

SyncVerification(g) ==
    /\ AgentExists(g)
    /\ ~SyncKeeps(g) => nextTokenId \in TokenIds     \* bound
    /\ IF SyncKeeps(g)
       THEN /\ tokenAgent' = [tokenAgent EXCEPT ![SyncedToken(g)] = g]
            /\ UNCHANGED <<tokenOwner, nextTokenId>>
       ELSE /\ tokenOwner' = [t \in TokenIds |->
                  IF t = nextTokenId THEN agentOwner[g]
                  ELSE IF t \in Burnt(g) THEN ZeroAddr ELSE tokenOwner[t]]
            /\ tokenAgent' = [t \in TokenIds |->
                  IF t = nextTokenId THEN g
                  ELSE IF t \in Burnt(g) THEN 0 ELSE tokenAgent[t]]
            /\ nextTokenId' = nextTokenId + 1

Verify(g) ==
    /\ SyncVerification(g)
    /\ verifications' = [verifications EXCEPT ![g] =
          [verified |-> TRUE, verifiedAt |-> clock,
           expiresAt |-> clock + expiryPeriod, token |-> SyncedToken(g)]]
    /\ UNCHANGED <<expiryPeriod, clock>>

SyncedRecord(g) == [verifications[g] EXCEPT !.token = SyncedToken(g)]

\* syncVerification: anybody may call it.
Sync(g) ==
    /\ verifications[g].token # 0
    /\ SyncVerification(g)
    /\ verifications' = [verifications EXCEPT ![g] = SyncedRecord(g)]
    /\ UNCHANGED <<expiryPeriod, clock>>

Revoke(g) ==
    /\ verifications[g].verified
    /\ verifications' = [verifications EXCEPT ![g].verified = FALSE,
                                              ![g].expiresAt = 0,
                                              ![g].token = 0]
    /\ tokenOwner' = [t \in TokenIds |->
                         IF t \in Burnt(g) THEN ZeroAddr ELSE tokenOwner[t]]
    /\ tokenAgent' = [t \in TokenIds |->
                         IF t \in Burnt(g) THEN 0 ELSE tokenAgent[t]]
    /\ UNCHANGED <<nextTokenId, expiryPeriod, clock>>

SetExpiryPeriod(period) ==
    /\ expiryPeriod' = period
    /\ UNCHANGED <<verifications, tokenOwner, tokenAgent, nextTokenId, clock>>

ClockTick ==
    /\ clock < MaxClock
    /\ clock' = clock + 1
    /\ UNCHANGED verificationVars

VerificationStep ==
    \/ \E g \in AgentIds : Verify(g) \/ Sync(g) \/ Revoke(g)
    \/ \E period \in ExpiryPeriods : SetExpiryPeriod(period)
    \/ ClockTick

-------------------------------------------------------------------------------
\* A token that exists says what the registry says: it is linked to an agent
\* and it is that agent's one token.  Whatever the transfers, syncs and
\* revocations before, no second badge of an agent survives.
BadgesMatchRecords ==
    \A t \in TokenIds : tokenOwner[t] # ZeroAddr =>
       LinkedAgent(t) # 0 /\ verifications[LinkedAgent(t)].token = t

\* Selling an agent ends its verification in the same transaction, with no
\* step of the verification registry.
TransferEndsVerification ==
    [][\A g \in AgentIds :
          IsVerified(g) /\ agentOwner'[g] # agentOwner[g] => ~IsVerified(g)']_<<nftVars, verificationVars, clock>>
===============================================================================
