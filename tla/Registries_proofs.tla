--------------------------- MODULE Registries_proofs ---------------------------
(***************************************************************************)
(* The identity registry with the two registries that read it, for every   *)
(* number of agents, accounts, tokens and requests, all their entry points *)
(* in any order: whose wallet an agent names, which badge says what, and   *)
(* which request a verdict answers.                                        *)
(*                                                                         *)
(* MCContracts checks the same properties with one registry at a time      *)
(* beside the identity registry; here the three run together.              *)
(***************************************************************************)
EXTENDS VerificationRegistry, ValidationRegistry,
        FiniteSetTheorems, SequenceTheorems, TLAPS

RegistriesInit == IdentityInit /\ VerificationInit /\ ValidationInit

IdentityStep == OwnershipStep \/ ApprovalStep \/ WalletStep(clock) \/ ProfileStep

RegistriesNext ==
    \/ IdentityStep /\ UNCHANGED <<verificationVars, clock, validationVars>>
    \/ VerificationStep /\ UNCHANGED <<nftVars, identityVars, validationVars>>
    \/ ValidationStep /\ UNCHANGED <<nftVars, identityVars, verificationVars, clock>>

registriesVars ==
    <<nftVars, identityVars, verificationVars, clock, validationVars>>

RegistriesSpec == RegistriesInit /\ [][RegistriesNext]_registriesVars

-------------------------------------------------------------------------------
\* The wallet of an agent

SignatureSet ==
    [agent : AgentIds, wallet : Accounts, nonce : 0 .. MaxNonce,
     deadline : SigDeadlines]

IdentityTypeOK ==
    /\ NFTTypeOK
    /\ agentWallet \in [AgentIds -> Addresses]
    /\ walletNonce \in [AgentIds -> 0 .. MaxNonce]
    /\ nonceAtTransfer \in [AgentIds -> 0 .. NeverTransferred]
    /\ signatures \subseteq SignatureSet

\* An agent that was never registered was never sold.
UnregisteredUnsold ==
    \A g \in AgentIds : g >= nextAgentId =>
       ~AgentExists(g) /\ nonceAtTransfer[g] = NeverTransferred

\* The nonce only grows, so the nonce at the last sale is behind it.
SaleBehindNonce ==
    \A g \in AgentIds : nonceAtTransfer[g] # NeverTransferred =>
       nonceAtTransfer[g] <= walletNonce[g]

\* The inductive invariant of the identity registry.
IdentityInv ==
    IdentityTypeOK /\ UnregisteredUnsold /\ SaleBehindNonce /\ WalletOfThisOwner

LEMMA IdentityStarts ==
    ASSUME IdentityInit
    PROVE  IdentityInv
<1> USE NonceAssumption, MaxAgentsAssumption
<1>1. IdentityTypeOK
  BY DEF IdentityInit, NFTInit, IdentityTypeOK, NFTTypeOK, Addresses, AgentIds,
         NeverTransferred
<1> QED
  BY <1>1 DEF IdentityInit, NFTInit, IdentityInv, UnregisteredUnsold,
              SaleBehindNonce, WalletOfThisOwner, AgentExists

\* A step that leaves wallets, nonces, signatures and owners as they are.
LEMMA IdentityUntouched ==
    ASSUME IdentityInv,
           UNCHANGED <<nftVars, agentWallet, walletNonce, signatures, nonceAtTransfer>>
    PROVE  IdentityInv'
BY DEF IdentityInv, IdentityTypeOK, NFTTypeOK, UnregisteredUnsold,
       SaleBehindNonce, WalletOfThisOwner, AgentExists, nftVars, SignatureSet

\* A registration: the agent was never sold.
LEMMA RegisterKeepsWallets ==
    ASSUME IdentityInv, NEW a \in Accounts, NEW written, Register(a, written)
    PROVE  IdentityInv'
<1> USE NonceAssumption, MaxAgentsAssumption
<1>1. /\ nextAgentId \in AgentIds /\ nextAgentId' = nextAgentId + 1
      /\ agentOwner' = [agentOwner EXCEPT ![nextAgentId] = a]
      /\ agentWallet' = [agentWallet EXCEPT ![nextAgentId] = a]
      /\ UNCHANGED <<walletNonce, signatures, nonceAtTransfer>>
  BY DEF Register, Mint
<1>2. IdentityTypeOK'
  BY <1>1 DEF IdentityInv, IdentityTypeOK, NFTTypeOK, Addresses, AgentIds,
              SignatureSet, NeverTransferred
<1>3. UnregisteredUnsold'
  BY <1>1 DEF IdentityInv, IdentityTypeOK, NFTTypeOK, AgentIds,
              UnregisteredUnsold, AgentExists, NeverTransferred
<1>4. SaleBehindNonce'
  BY <1>1 DEF IdentityInv, SaleBehindNonce, NeverTransferred
<1>5. nonceAtTransfer[nextAgentId] = NeverTransferred
  BY <1>1 DEF IdentityInv, IdentityTypeOK, NFTTypeOK, UnregisteredUnsold, AgentIds
<1>6. WalletOfThisOwner'
  BY <1>1, <1>5 DEF IdentityInv, IdentityTypeOK, WalletOfThisOwner, NeverTransferred
<1> QED
  BY <1>2, <1>3, <1>4, <1>6 DEF IdentityInv

\* A sale clears the wallet and notes the nonce.
LEMMA TransferKeepsWallets ==
    ASSUME IdentityInv, NEW a \in Accounts, NEW g \in AgentIds,
           NEW to \in Accounts, TransferAgentFrom(a, g, to)
    PROVE  IdentityInv'
<1> USE NonceAssumption, MaxAgentsAssumption
<1>1. /\ AgentExists(g) /\ UNCHANGED <<nextAgentId, walletNonce, signatures>>
      /\ agentOwner' = [agentOwner EXCEPT ![g] = to]
      /\ agentWallet' = [agentWallet EXCEPT ![g] = ZeroAddr]
      /\ nonceAtTransfer' = [nonceAtTransfer EXCEPT ![g] = walletNonce[g]]
  BY DEF TransferAgentFrom, TransferNFT, WalletAfterTransfer
<1>2. IdentityTypeOK'
  BY <1>1 DEF IdentityInv, IdentityTypeOK, NFTTypeOK, Addresses, SignatureSet,
              NeverTransferred
<1>3. UnregisteredUnsold'
  BY <1>1 DEF IdentityInv, IdentityTypeOK, NFTTypeOK, AgentIds,
              UnregisteredUnsold, AgentExists, NeverTransferred
<1>4. SaleBehindNonce'
  BY <1>1 DEF IdentityInv, IdentityTypeOK, SaleBehindNonce, NeverTransferred
<1>5. WalletOfThisOwner'
  BY <1>1 DEF IdentityInv, IdentityTypeOK, WalletOfThisOwner, NeverTransferred
<1> QED
  BY <1>2, <1>3, <1>4, <1>5 DEF IdentityInv

\* A wallet signs for the nonce in force.
LEMMA SignKeepsWallets ==
    ASSUME IdentityInv, NEW w \in Accounts, NEW g \in AgentIds,
           NEW deadline \in SigDeadlines, SignWallet(w, g, deadline)
    PROVE  IdentityInv'
<1> DEFINE sig == [agent |-> g, wallet |-> w, nonce |-> walletNonce[g],
                   deadline |-> deadline]
<1>1. /\ signatures' = signatures \union {sig}
      /\ UNCHANGED <<nftVars, agentWallet, walletNonce, nonceAtTransfer>>
  BY DEF SignWallet
<1>2. sig \in SignatureSet
  BY DEF IdentityInv, IdentityTypeOK, SignatureSet
<1> HIDE DEF sig
<1>3. IdentityTypeOK'
  BY <1>1, <1>2 DEF IdentityInv, IdentityTypeOK, NFTTypeOK, nftVars, SignatureSet
<1>4. UnregisteredUnsold' /\ SaleBehindNonce'
  BY <1>1 DEF IdentityInv, UnregisteredUnsold, SaleBehindNonce, AgentExists, nftVars
<1>5. WalletOfThisOwner'
  BY <1>1 DEF IdentityInv, WalletOfThisOwner
<1> QED
  BY <1>3, <1>4, <1>5 DEF IdentityInv

\* A signature is used once: the nonce it was made for is over.
LEMMA WalletSetKeepsWallets ==
    ASSUME IdentityInv, NEW a \in Accounts, NEW g \in AgentIds,
           NEW sig \in signatures, SetAgentWallet(a, g, sig, clock)
    PROVE  IdentityInv'
<1> USE NonceAssumption
<1>1. /\ sig.agent = g /\ sig.nonce = walletNonce[g] /\ walletNonce[g] < MaxNonce
      /\ walletNonce' = [walletNonce EXCEPT ![g] = @ + 1]
      /\ agentWallet' = [agentWallet EXCEPT ![g] = sig.wallet]
      /\ UNCHANGED <<nftVars, signatures, nonceAtTransfer>>
  BY DEF SetAgentWallet, SignatureValid
<1>2. sig.wallet \in Addresses
  BY DEF IdentityInv, IdentityTypeOK, SignatureSet, Addresses
<1>3. /\ walletNonce[g] \in 0 .. MaxNonce /\ walletNonce'[g] = walletNonce[g] + 1
      /\ \A h \in AgentIds : h # g => walletNonce'[h] = walletNonce[h]
  BY <1>1 DEF IdentityInv, IdentityTypeOK
<1>4. IdentityTypeOK'
  <2>1. walletNonce' \in [AgentIds -> 0 .. MaxNonce]
    BY <1>1, <1>3 DEF IdentityInv, IdentityTypeOK
  <2> QED
    BY <1>1, <1>2, <2>1 DEF IdentityInv, IdentityTypeOK, NFTTypeOK, nftVars,
                            SignatureSet
<1>5. UnregisteredUnsold'
  BY <1>1 DEF IdentityInv, UnregisteredUnsold, AgentExists, nftVars
<1>6. SaleBehindNonce'
  BY <1>1, <1>3 DEF IdentityInv, IdentityTypeOK, SaleBehindNonce, NeverTransferred
<1>7. WalletOfThisOwner'
  <2> SUFFICES ASSUME NEW h \in AgentIds,
                      nonceAtTransfer[h] # NeverTransferred,
                      agentWallet'[h] # ZeroAddr
               PROVE  /\ walletNonce'[h] > nonceAtTransfer[h]
                      /\ \E s \in signatures :
                            /\ s.agent = h /\ s.wallet = agentWallet'[h]
                            /\ s.nonce + 1 = walletNonce'[h]
    BY <1>1 DEF WalletOfThisOwner
  <2>1. CASE h = g
    BY <2>1, <1>1, <1>3 DEF IdentityInv, IdentityTypeOK, SaleBehindNonce,
                            NeverTransferred
  <2>2. CASE h # g
    BY <2>2, <1>1, <1>3 DEF IdentityInv, IdentityTypeOK, WalletOfThisOwner
  <2> QED
    BY <2>1, <2>2
<1> QED
  BY <1>4, <1>5, <1>6, <1>7 DEF IdentityInv

LEMMA WalletUnsetKeepsWallets ==
    ASSUME IdentityInv, NEW a \in Accounts, NEW g \in AgentIds,
           UnsetAgentWallet(a, g)
    PROVE  IdentityInv'
<1>1. /\ agentWallet' = [agentWallet EXCEPT ![g] = ZeroAddr]
      /\ UNCHANGED <<nftVars, walletNonce, signatures, nonceAtTransfer>>
  BY DEF UnsetAgentWallet
<1>2. IdentityTypeOK'
  BY <1>1 DEF IdentityInv, IdentityTypeOK, NFTTypeOK, nftVars, SignatureSet, Addresses
<1>3. UnregisteredUnsold' /\ SaleBehindNonce'
  BY <1>1 DEF IdentityInv, UnregisteredUnsold, SaleBehindNonce, AgentExists, nftVars
<1>4. WalletOfThisOwner'
  BY <1>1 DEF IdentityInv, IdentityTypeOK, WalletOfThisOwner
<1> QED
  BY <1>2, <1>3, <1>4 DEF IdentityInv

LEMMA IdentityStepKeeps ==
    ASSUME IdentityInv, IdentityStep
    PROVE  IdentityInv'
<1>1. CASE OwnershipStep
  BY <1>1, RegisterKeepsWallets, TransferKeepsWallets DEF OwnershipStep
<1>2. CASE ApprovalStep
  <2>1. UNCHANGED <<nftVars, agentWallet, walletNonce, signatures, nonceAtTransfer>>
    BY <1>2 DEF ApprovalStep, Approve, SetApprovalForAll
  <2> QED
    BY <2>1, IdentityUntouched
<1>3. CASE WalletStep(clock)
  BY <1>3, SignKeepsWallets, WalletSetKeepsWallets, WalletUnsetKeepsWallets
     DEF WalletStep
<1>4. CASE ProfileStep
  <2>1. CASE \E a \in Accounts, key \in MetadataKeys, value \in MetadataValues :
                Register(a, [k \in {key} |-> value])
    BY <2>1, RegisterKeepsWallets
  <2>2. CASE \E a \in Accounts, g \in AgentIds :
                \/ \E key \in MetadataKeys, value \in MetadataValues :
                      SetMetadata(a, g, key, value)
                \/ \E active \in BOOLEAN : SetActive(a, g, active)
    <3>1. UNCHANGED <<nftVars, agentWallet, walletNonce, signatures, nonceAtTransfer>>
      BY <2>2 DEF SetMetadata, SetActive
    <3> QED
      BY <3>1, IdentityUntouched
  <2> QED
    BY <1>4, <2>1, <2>2 DEF ProfileStep
<1> QED
  BY <1>1, <1>2, <1>3, <1>4 DEF IdentityStep

\* The wallet, the nonces and the sales agree in every state.
THEOREM IdentityInvariance == RegistriesSpec => []IdentityInv
<1>1. RegistriesInit => IdentityInv
  BY IdentityStarts DEF RegistriesInit
<1>2. IdentityInv /\ [RegistriesNext]_registriesVars => IdentityInv'
  <2> SUFFICES ASSUME IdentityInv, [RegistriesNext]_registriesVars
               PROVE  IdentityInv'
    OBVIOUS
  <2>1. CASE IdentityStep
    BY <2>1, IdentityStepKeeps
  <2>2. CASE UNCHANGED <<nftVars, identityVars>>
    BY <2>2, IdentityUntouched DEF identityVars
  <2> QED
    BY <2>1, <2>2 DEF RegistriesNext, registriesVars
<1> QED
  BY <1>1, <1>2, PTL DEF RegistriesSpec

\* WalletOfThisOwner for every number of accounts, agents and nonces: a sale
\* ends the seller's wallet; one the agent names after it was set since, with
\* a signature of that wallet for the last nonce and no earlier one.  It does
\* not say that the signature was made after the sale
\* (_update and setAgentWallet of FaivrIdentityRegistry).
THEOREM WalletOfOwner == RegistriesSpec => []WalletOfThisOwner
<1>1. IdentityInv => WalletOfThisOwner
  BY DEF IdentityInv
<1> QED
  BY <1>1, IdentityInvariance, PTL

-------------------------------------------------------------------------------
\* The badges of an agent

VerificationTypeOK ==
    /\ NFTTypeOK
    /\ verifications \in [AgentIds ->
          [verified : BOOLEAN, verifiedAt : Nat, expiresAt : Nat,
           token : 0 .. MaxTokenId]]
    /\ tokenOwner \in [TokenIds -> Addresses]
    /\ tokenAgent \in [TokenIds -> 0 .. MaxAgents]
    /\ nextTokenId \in 1 .. MaxTokenId + 1
    /\ expiryPeriod \in Nat
    /\ clock \in Nat

\* A token that exists carries its link, and the record it is linked to names
\* it: the search for tokens without a link never runs.
LiveTokensLinked ==
    \A t \in TokenIds : tokenOwner[t] # ZeroAddr =>
       /\ tokenAgent[t] \in AgentIds
       /\ verifications[tokenAgent[t]].token = t

\* Only tokens that were minted exist.
MintedInOrder ==
    \A t \in TokenIds : t >= nextTokenId => tokenOwner[t] = ZeroAddr

\* The inductive invariant of the verification registry.
VerificationInv == VerificationTypeOK /\ LiveTokensLinked /\ MintedInOrder

LEMMA VerificationStarts ==
    ASSUME IdentityInit, VerificationInit
    PROVE  VerificationInv
<1> USE MaxAgentsAssumption, VerificationAssumption
<1>1. VerificationTypeOK
  BY DEF IdentityInit, NFTInit, VerificationInit, VerificationTypeOK, NFTTypeOK,
         Addresses, AgentIds, TokenIds
<1> QED
  BY <1>1 DEF VerificationInit, VerificationInv, LiveTokensLinked, MintedInOrder

\* A token is burnt when it is the agent's and exists.
LEMMA BurntIsTheAgents ==
    ASSUME VerificationInv, NEW g \in AgentIds, NEW t \in TokenIds,
           tokenOwner[t] # ZeroAddr, tokenAgent[t] = g
    PROVE  t \in Burnt(g)
BY DEF VerificationInv, LiveTokensLinked, Burnt

\* What a sync does to the tokens, whoever asks for it: the agent's record
\* then names the synced token.
LEMMA SyncKeepsTokens ==
    ASSUME VerificationInv, NEW g \in AgentIds, SyncVerification(g),
           NEW row \in [verified : BOOLEAN, verifiedAt : Nat, expiresAt : Nat,
                        token : 0 .. MaxTokenId],
           row.token = SyncedToken(g),
           verifications' = [verifications EXCEPT ![g] = row],
           UNCHANGED <<nftVars, expiryPeriod, clock>>
    PROVE  VerificationInv'
<1> USE VerificationAssumption, MaxAgentsAssumption, AccountsAssumption
<1>1. /\ verifications'[g] = row
      /\ \A h \in AgentIds : h # g => verifications'[h] = verifications[h]
      /\ verifications' \in [AgentIds ->
            [verified : BOOLEAN, verifiedAt : Nat, expiresAt : Nat,
             token : 0 .. MaxTokenId]]
  BY DEF VerificationInv, VerificationTypeOK
<1>2. CASE SyncKeeps(g)
  <2> DEFINE t == verifications[g].token
  <2>1. /\ t \in TokenIds /\ tokenOwner[t] # ZeroAddr
    BY <1>2 DEF SyncKeeps, BoundToCurrentOwner, VerificationInv,
                VerificationTypeOK, TokenIds
  <2>2. /\ row.token = t
        /\ tokenAgent' = [tokenAgent EXCEPT ![t] = g]
        /\ UNCHANGED <<tokenOwner, nextTokenId>>
    BY <1>2 DEF SyncVerification, SyncedToken
  <2>3. VerificationTypeOK'
    BY <1>1, <2>1, <2>2 DEF VerificationInv, VerificationTypeOK, NFTTypeOK,
                            nftVars, AgentIds
  <2>4. LiveTokensLinked'
    <3> SUFFICES ASSUME NEW u \in TokenIds, tokenOwner'[u] # ZeroAddr
                 PROVE  /\ tokenAgent'[u] \in AgentIds
                        /\ verifications'[tokenAgent'[u]].token = u
      BY DEF LiveTokensLinked
    <3>1. CASE u = verifications[g].token
      BY <3>1, <1>1, <2>1, <2>2 DEF VerificationInv, VerificationTypeOK
    <3>2. CASE u # verifications[g].token
      BY <3>2, <1>1, <2>1, <2>2
         DEF VerificationInv, VerificationTypeOK, LiveTokensLinked
    <3> QED
      BY <3>1, <3>2
  <2>5. MintedInOrder'
    BY <2>2 DEF VerificationInv, MintedInOrder
  <2> QED
    BY <2>3, <2>4, <2>5 DEF VerificationInv
<1>3. CASE ~SyncKeeps(g)
  <2>1. /\ nextTokenId \in TokenIds /\ row.token = nextTokenId
        /\ AgentExists(g)
        /\ tokenOwner' = [t \in TokenIds |->
              IF t = nextTokenId THEN agentOwner[g]
              ELSE IF t \in Burnt(g) THEN ZeroAddr ELSE tokenOwner[t]]
        /\ tokenAgent' = [t \in TokenIds |->
              IF t = nextTokenId THEN g
              ELSE IF t \in Burnt(g) THEN 0 ELSE tokenAgent[t]]
        /\ nextTokenId' = nextTokenId + 1
    BY <1>3 DEF SyncVerification, SyncedToken
  <2>2. VerificationTypeOK'
    <3>1. tokenOwner' \in [TokenIds -> Addresses]
      BY <2>1 DEF VerificationInv, VerificationTypeOK, NFTTypeOK, Addresses
    <3>2. tokenAgent' \in [TokenIds -> 0 .. MaxAgents]
      BY <2>1 DEF VerificationInv, VerificationTypeOK, AgentIds
    <3>3. nextTokenId' \in 1 .. MaxTokenId + 1
      BY <2>1 DEF TokenIds
    <3> QED
      BY <1>1, <3>1, <3>2, <3>3
         DEF VerificationInv, VerificationTypeOK, NFTTypeOK, nftVars
  <2>3. LiveTokensLinked'
    <3> SUFFICES ASSUME NEW u \in TokenIds, tokenOwner'[u] # ZeroAddr
                 PROVE  /\ tokenAgent'[u] \in AgentIds
                        /\ verifications'[tokenAgent'[u]].token = u
      BY DEF LiveTokensLinked
    <3>1. CASE u = nextTokenId
      BY <3>1, <1>1, <2>1
    <3>2. CASE u # nextTokenId
      <4>1. /\ u \notin Burnt(g) /\ tokenOwner[u] # ZeroAddr
            /\ tokenAgent'[u] = tokenAgent[u]
        BY <3>2, <2>1
      <4>2. tokenAgent[u] # g
        BY <4>1, BurntIsTheAgents
      <4> QED
        BY <4>1, <4>2, <1>1 DEF VerificationInv, LiveTokensLinked
    <3> QED
      BY <3>1, <3>2
  <2>4. MintedInOrder'
    <3> SUFFICES ASSUME NEW u \in TokenIds, u >= nextTokenId'
                 PROVE  tokenOwner'[u] = ZeroAddr
      BY DEF MintedInOrder
    <3>1. u # nextTokenId /\ u >= nextTokenId
      BY <2>1 DEF TokenIds
    <3> QED
      BY <3>1, <2>1 DEF VerificationInv, MintedInOrder
  <2> QED
    BY <2>2, <2>3, <2>4 DEF VerificationInv
<1> QED
  BY <1>2, <1>3

\* The token a sync leaves an agent with is one there can be.
LEMMA SyncedTokenTyped ==
    ASSUME VerificationInv, NEW g \in AgentIds, SyncVerification(g)
    PROVE  SyncedToken(g) \in 0 .. MaxTokenId
BY VerificationAssumption
   DEF SyncVerification, SyncedToken, VerificationInv, VerificationTypeOK, TokenIds

LEMMA VerifyKeepsTokens ==
    ASSUME VerificationInv, NEW g \in AgentIds, Verify(g), UNCHANGED nftVars
    PROVE  VerificationInv'
<1> DEFINE row == [verified |-> TRUE, verifiedAt |-> clock,
                   expiresAt |-> clock + expiryPeriod, token |-> SyncedToken(g)]
<1>1. /\ SyncVerification(g)
      /\ verifications' = [verifications EXCEPT ![g] = row]
      /\ UNCHANGED <<expiryPeriod, clock>>
  BY DEF Verify
<1>2. row \in [verified : BOOLEAN, verifiedAt : Nat, expiresAt : Nat,
               token : 0 .. MaxTokenId]
  BY <1>1, SyncedTokenTyped DEF VerificationInv, VerificationTypeOK
<1>3. row.token = SyncedToken(g)
  OBVIOUS
<1> HIDE DEF row
<1> QED
  BY <1>1, <1>2, <1>3, SyncKeepsTokens

LEMMA SyncStepKeepsTokens ==
    ASSUME VerificationInv, NEW g \in AgentIds, Sync(g), UNCHANGED nftVars
    PROVE  VerificationInv'
<1>1. /\ SyncVerification(g)
      /\ verifications' = [verifications EXCEPT ![g] = SyncedRecord(g)]
      /\ UNCHANGED <<expiryPeriod, clock>>
  BY DEF Sync
<1>2. verifications[g] \in [verified : BOOLEAN, verifiedAt : Nat,
                            expiresAt : Nat, token : 0 .. MaxTokenId]
  BY DEF VerificationInv, VerificationTypeOK
<1>3. /\ SyncedRecord(g) \in [verified : BOOLEAN, verifiedAt : Nat,
                              expiresAt : Nat, token : 0 .. MaxTokenId]
      /\ SyncedRecord(g).token = SyncedToken(g)
  BY <1>1, <1>2, SyncedTokenTyped DEF SyncedRecord
<1> QED
  BY <1>1, <1>3, SyncKeepsTokens

\* A revocation burns the agent's token and no other.
LEMMA RevokeKeepsTokens ==
    ASSUME VerificationInv, NEW g \in AgentIds, Revoke(g), UNCHANGED nftVars
    PROVE  VerificationInv'
<1> USE VerificationAssumption
<1> DEFINE row == [verifications[g] EXCEPT !.verified = FALSE,
                                           !.expiresAt = 0, !.token = 0]
<1>1. /\ tokenOwner' = [t \in TokenIds |->
            IF t \in Burnt(g) THEN ZeroAddr ELSE tokenOwner[t]]
      /\ tokenAgent' = [t \in TokenIds |->
            IF t \in Burnt(g) THEN 0 ELSE tokenAgent[t]]
      /\ UNCHANGED <<nextTokenId, expiryPeriod, clock>>
  BY DEF Revoke
<1>2. verifications[g] \in [verified : BOOLEAN, verifiedAt : Nat,
                            expiresAt : Nat, token : 0 .. MaxTokenId]
  BY DEF VerificationInv, VerificationTypeOK
<1>3. verifications' = [verifications EXCEPT ![g] = row]
  BY DEF Revoke, VerificationInv, VerificationTypeOK
<1>4. row \in [verified : BOOLEAN, verifiedAt : Nat, expiresAt : Nat,
               token : 0 .. MaxTokenId]
  <2> DEFINE Row == [verified : BOOLEAN, verifiedAt : Nat, expiresAt : Nat,
                     token : 0 .. MaxTokenId]
             revoked == [verifications[g] EXCEPT !.verified = FALSE]
             ended == [revoked EXCEPT !.expiresAt = 0]
  <2>1. revoked \in Row
    BY <1>2
  <2> HIDE DEF revoked
  <2>2. ended \in Row
    BY <2>1
  <2> HIDE DEF ended
  <2>3. [ended EXCEPT !.token = 0] \in Row
    BY <2>2
  <2> QED
    BY <2>3 DEF ended, revoked
<1> HIDE DEF row
<1>5. /\ \A h \in AgentIds : h # g => verifications'[h] = verifications[h]
      /\ verifications' \in [AgentIds ->
            [verified : BOOLEAN, verifiedAt : Nat, expiresAt : Nat,
             token : 0 .. MaxTokenId]]
  BY <1>3, <1>4 DEF VerificationInv, VerificationTypeOK
<1>6. VerificationTypeOK'
  <2>1. tokenOwner' \in [TokenIds -> Addresses]
    BY <1>1 DEF VerificationInv, VerificationTypeOK, Addresses
  <2>2. tokenAgent' \in [TokenIds -> 0 .. MaxAgents]
    BY <1>1, MaxAgentsAssumption DEF VerificationInv, VerificationTypeOK
  <2> QED
    BY <1>1, <1>5, <2>1, <2>2
       DEF VerificationInv, VerificationTypeOK, NFTTypeOK, nftVars
<1>7. LiveTokensLinked'
  <2> SUFFICES ASSUME NEW u \in TokenIds, tokenOwner'[u] # ZeroAddr
               PROVE  /\ tokenAgent'[u] \in AgentIds
                      /\ verifications'[tokenAgent'[u]].token = u
    BY DEF LiveTokensLinked
  <2>1. /\ u \notin Burnt(g) /\ tokenOwner[u] # ZeroAddr
        /\ tokenAgent'[u] = tokenAgent[u]
    BY <1>1
  <2>2. tokenAgent[u] # g
    BY <2>1, BurntIsTheAgents
  <2> QED
    BY <2>1, <2>2, <1>5 DEF VerificationInv, LiveTokensLinked
<1>8. MintedInOrder'
  BY <1>1 DEF VerificationInv, MintedInOrder
<1> QED
  BY <1>6, <1>7, <1>8 DEF VerificationInv

LEMMA VerificationStepKeeps ==
    ASSUME VerificationInv, VerificationStep, UNCHANGED nftVars
    PROVE  VerificationInv'
<1>1. CASE \E period \in ExpiryPeriods : SetExpiryPeriod(period)
  BY <1>1, VerificationAssumption
     DEF SetExpiryPeriod, VerificationInv, VerificationTypeOK, NFTTypeOK,
         nftVars, LiveTokensLinked, MintedInOrder
<1>2. CASE ClockTick
  BY <1>2, VerificationAssumption
     DEF ClockTick, verificationVars, VerificationInv, VerificationTypeOK,
         NFTTypeOK, nftVars, LiveTokensLinked, MintedInOrder
<1> QED
  BY <1>1, <1>2, VerifyKeepsTokens, SyncStepKeepsTokens, RevokeKeepsTokens
     DEF VerificationStep

\* Whatever happens to the owners, the tokens stay what they are.
LEMMA TokensUntouched ==
    ASSUME VerificationInv, NFTTypeOK', UNCHANGED <<verificationVars, clock>>
    PROVE  VerificationInv'
BY DEF VerificationInv, VerificationTypeOK, verificationVars, LiveTokensLinked,
       MintedInOrder

\* The tokens and the records agree in every state.
THEOREM VerificationInvariance == RegistriesSpec => []VerificationInv
<1>1. RegistriesInit => VerificationInv
  BY VerificationStarts DEF RegistriesInit
<1>2. IdentityInv' /\ VerificationInv /\ [RegistriesNext]_registriesVars
         => VerificationInv'
  <2> SUFFICES ASSUME IdentityInv', VerificationInv,
                      [RegistriesNext]_registriesVars
               PROVE  VerificationInv'
    OBVIOUS
  <2>1. NFTTypeOK'
    BY DEF IdentityInv, IdentityTypeOK
  <2>2. CASE VerificationStep /\ UNCHANGED nftVars
    BY <2>2, VerificationStepKeeps
  <2>3. CASE UNCHANGED <<verificationVars, clock>>
    BY <2>1, <2>3, TokensUntouched
  <2> QED
    BY <2>2, <2>3 DEF RegistriesNext, registriesVars
<1> QED
  BY <1>1, <1>2, IdentityInvariance, PTL DEF RegistriesSpec

\* BadgesMatchRecords for every number of agents and tokens: no second badge
\* of an agent survives, whatever the transfers, syncs and revocations
\* (_syncVerification and revoke of FaivrVerificationRegistry).
THEOREM BadgesMatch == RegistriesSpec => []BadgesMatchRecords
<1>1. VerificationInv => BadgesMatchRecords
  BY MaxAgentsAssumption
     DEF VerificationInv, LiveTokensLinked, BadgesMatchRecords, LinkedAgent, AgentIds
<1> QED
  BY <1>1, VerificationInvariance, PTL

\* An agent that changes hands is no longer verified: the badge is still with
\* the seller.
LEMMA SaleEndsVerification ==
    ASSUME [RegistriesNext]_registriesVars, NEW g \in AgentIds,
           IsVerified(g), agentOwner'[g] # agentOwner[g]
    PROVE  ~IsVerified(g)'
<1>1. BoundToCurrentOwner(g)
  BY DEF IsVerified, VerificationState
<1>2. UNCHANGED <<verifications, tokenOwner>>
  BY DEF RegistriesNext, registriesVars, nftVars, verificationVars
<1>3. ~BoundToCurrentOwner(g)'
  BY <1>1, <1>2 DEF BoundToCurrentOwner
<1> QED
  BY <1>3 DEF IsVerified, VerificationState

\* TransferEndsVerification for every number of agents and tokens: a sale ends
\* the verification in the transaction of the sale
\* (_verificationBoundToCurrentOwner).
THEOREM TransferEnds == RegistriesSpec => TransferEndsVerification
<1>1. [RegistriesNext]_registriesVars =>
        [\A g \in AgentIds :
            IsVerified(g) /\ agentOwner'[g] # agentOwner[g] => ~IsVerified(g)']_<<nftVars, verificationVars, clock>>
  BY SaleEndsVerification
<1> QED
  BY <1>1, PTL DEF RegistriesSpec, TransferEndsVerification

-------------------------------------------------------------------------------
\* The requests for validation

Hashes == Accounts \X Accounts \X AgentIds \X Nat

ValidationSet ==
    [validator : Accounts, agent : AgentIds, response : Responses \union {0},
     tag : ValidationTags \union {""}, answered : BOOLEAN]

ValidationTypeOK ==
    /\ DOMAIN validations \subseteq Hashes
    /\ validations \in [DOMAIN validations -> ValidationSet]
    /\ IsFiniteSet(DOMAIN validations)
    /\ agentValidations \in [AgentIds -> Seq(DOMAIN validations)]
    /\ requestNonce \in [AgentIds -> Nat]

\* A record is that of the request its hash was made of, and the nonce hashed
\* was used up by that request.
HashesTrue ==
    \A h \in DOMAIN validations :
       /\ validations[h].validator = h[2] /\ validations[h].agent = h[3]
       /\ h[4] < requestNonce[h[3]]

\* The list of an agent holds its own hashes.
ListsTrue ==
    \A g \in AgentIds : \A i \in DOMAIN agentValidations[g] :
       agentValidations[g][i][3] = g

RecordsOf(g) == {h \in DOMAIN validations : validations[h].agent = g}

\* As many records of an agent as requests in its list.
RecordsListed ==
    \A g \in AgentIds :
       Cardinality(RecordsOf(g)) = Len(agentValidations[g])

\* The inductive invariant of the validation registry.
ValidationInv ==
    ValidationTypeOK /\ HashesTrue /\ ListsTrue /\ RecordsListed

LEMMA ValidationStarts ==
    ASSUME ValidationInit
    PROVE  ValidationInv
<1>1. DOMAIN validations = {}
  BY DEF ValidationInit
<1>2. ValidationTypeOK
  <2>1. validations \in [DOMAIN validations -> ValidationSet]
    BY <1>1 DEF ValidationInit
  <2>2. IsFiniteSet(DOMAIN validations)
    BY <1>1, FS_EmptySet
  <2>3. <<>> \in Seq(DOMAIN validations)
    OBVIOUS
  <2> QED
    BY <1>1, <2>1, <2>2, <2>3 DEF ValidationInit, ValidationTypeOK
<1>3. \A g \in AgentIds : RecordsOf(g) = {}
  BY <1>1 DEF RecordsOf
<1>4. RecordsListed
  BY <1>3, FS_EmptySet DEF RecordsListed, ValidationInit
<1> QED
  BY <1>1, <1>2, <1>4 DEF ValidationInit, ValidationInv, HashesTrue, ListsTrue

\* The hash of a request was never used: its nonce is not behind.
LEMMA HashIsNew ==
    ASSUME ValidationInv, NEW a \in Accounts, NEW validator \in Accounts,
           NEW g \in AgentIds
    PROVE  /\ RequestHash(a, validator, g) \in Hashes
           /\ RequestHash(a, validator, g) \notin DOMAIN validations
<1>1. requestNonce[g] \in Nat
  BY DEF ValidationInv, ValidationTypeOK
<1> QED
  BY <1>1 DEF ValidationInv, HashesTrue, RequestHash, Hashes

\* A request opens a record of its own and lists it.
LEMMA RequestKeepsRecords ==
    ASSUME ValidationInv, NEW a \in Accounts, NEW validator \in Accounts,
           NEW g \in AgentIds, ValidationRequest(a, validator, g)
    PROVE  ValidationInv'
<1> DEFINE new == [validator |-> validator, agent |-> g, response |-> 0,
                   tag |-> "", answered |-> FALSE]
<1>1. PICK hash \in Hashes : hash = RequestHash(a, validator, g)
  BY HashIsNew
<1>2. /\ hash \notin DOMAIN validations
      /\ hash[2] = validator /\ hash[3] = g /\ hash[4] = requestNonce[g]
  BY <1>1, HashIsNew DEF RequestHash
<1>3. /\ requestNonce' = [requestNonce EXCEPT ![g] = @ + 1]
      /\ agentValidations' = [agentValidations EXCEPT ![g] = Append(@, hash)]
  BY <1>1 DEF ValidationRequest
<1>4. validations' = [h \in DOMAIN validations \union {hash} |->
                         IF h = hash
                         THEN [new EXCEPT !.validator = validator, !.agent = g]
                         ELSE validations[h]]
  BY <1>1, <1>2 DEF ValidationRequest
<1>5. /\ new \in ValidationSet
      /\ new.validator = validator /\ new.agent = g
  BY DEF ValidationSet
<1> HIDE DEF new
<1>6. [new EXCEPT !.validator = validator, !.agent = g] = new
  <2>1. [new EXCEPT !.validator = validator] = new
    BY <1>5 DEF ValidationSet
  <2>2. [new EXCEPT !.agent = g] = new
    BY <1>5 DEF ValidationSet
  <2> QED
    BY <2>1, <2>2
<1>7. /\ DOMAIN validations' = DOMAIN validations \union {hash}
      /\ validations'[hash] = new
      /\ \A h \in DOMAIN validations : validations'[h] = validations[h]
  BY <1>2, <1>4, <1>6
<1>8. /\ requestNonce[g] \in Nat /\ requestNonce' \in [AgentIds -> Nat]
      /\ requestNonce'[g] = requestNonce[g] + 1
      /\ \A h \in AgentIds : h # g => requestNonce'[h] = requestNonce[h]
  BY <1>3 DEF ValidationInv, ValidationTypeOK
<1>9. /\ agentValidations[g] \in Seq(DOMAIN validations')
      /\ agentValidations'[g] = Append(agentValidations[g], hash)
      /\ \A h \in AgentIds : h # g =>
            agentValidations'[h] = agentValidations[h]
      /\ agentValidations' \in [AgentIds -> Seq(DOMAIN validations')]
  <2>1. \A h \in AgentIds : agentValidations[h] \in Seq(DOMAIN validations)
    BY DEF ValidationInv, ValidationTypeOK
  <2>2. \A h \in AgentIds : agentValidations[h] \in Seq(DOMAIN validations')
    BY <2>1, <1>7
  <2>3. Append(agentValidations[g], hash) \in Seq(DOMAIN validations')
    BY <2>2, <1>7
  <2>4. agentValidations \in [AgentIds -> Seq(DOMAIN validations')]
    BY <2>2 DEF ValidationInv, ValidationTypeOK
  <2> QED
    BY <1>3, <2>2, <2>3, <2>4
<1>10. ValidationTypeOK'
  <2>1. DOMAIN validations' \subseteq Hashes
    BY <1>7 DEF ValidationInv, ValidationTypeOK
  <2>2. \A h \in DOMAIN validations' : validations'[h] \in ValidationSet
    BY <1>5, <1>7 DEF ValidationInv, ValidationTypeOK
  <2>3. validations' \in [DOMAIN validations' -> ValidationSet]
    BY <1>4, <2>2
  <2>4. IsFiniteSet(DOMAIN validations')
    BY <1>7, FS_AddElement DEF ValidationInv, ValidationTypeOK
  <2> QED
    BY <1>8, <1>9, <2>1, <2>3, <2>4 DEF ValidationTypeOK
<1>11. HashesTrue'
  <2> SUFFICES ASSUME NEW h \in DOMAIN validations'
               PROVE  /\ validations'[h].validator = h[2]
                      /\ validations'[h].agent = h[3]
                      /\ h[4] < requestNonce'[h[3]]
    BY DEF HashesTrue
  <2>1. CASE h = hash
    BY <2>1, <1>2, <1>7, <1>5, <1>8
  <2>2. CASE h # hash
    <3>1. h \in DOMAIN validations
      BY <2>2, <1>7
    <3>2. h[3] \in AgentIds /\ h[4] \in Nat
      BY <3>1 DEF ValidationInv, ValidationTypeOK, Hashes
    <3> QED
      BY <3>1, <3>2, <1>7, <1>8 DEF ValidationInv, HashesTrue
  <2> QED
    BY <2>1, <2>2
<1>12. ListsTrue'
  <2> SUFFICES ASSUME NEW f \in AgentIds, NEW i \in DOMAIN agentValidations'[f]
               PROVE  agentValidations'[f][i][3] = f
    BY DEF ListsTrue
  <2>1. CASE f = g
    <3>1. i \in 1 .. Len(agentValidations[g]) + 1
      BY <2>1, <1>9
    <3>2. CASE i = Len(agentValidations[g]) + 1
      BY <2>1, <3>2, <1>2, <1>9
    <3>3. CASE i # Len(agentValidations[g]) + 1
      <4>1. i \in DOMAIN agentValidations[g]
        BY <3>1, <3>3, <1>9
      <4>2. agentValidations'[f][i] = agentValidations[g][i]
        BY <2>1, <3>1, <3>3, <1>9
      <4> QED
        BY <2>1, <4>1, <4>2 DEF ValidationInv, ListsTrue
    <3> QED
      BY <3>2, <3>3
  <2>2. CASE f # g
    BY <2>2, <1>9 DEF ValidationInv, ListsTrue
  <2> QED
    BY <2>1, <2>2
<1>13. RecordsListed'
  <2> SUFFICES ASSUME NEW f \in AgentIds
               PROVE  Cardinality(RecordsOf(f)') = Len(agentValidations'[f])
    BY DEF RecordsListed
  <2>1. RecordsOf(f)' = {h \in DOMAIN validations \union {hash} :
                            validations'[h].agent = f}
    BY <1>7 DEF RecordsOf
  <2>2. CASE f = g
    <3>1. RecordsOf(f)' = RecordsOf(f) \union {hash}
      BY <2>1, <2>2, <1>5, <1>7 DEF RecordsOf
    <3>2. hash \notin RecordsOf(f)
      BY <1>2 DEF RecordsOf
    <3>3. IsFiniteSet(RecordsOf(f))
      BY FS_Subset DEF RecordsOf, ValidationInv, ValidationTypeOK
    <3>4. Cardinality(RecordsOf(f)') = Cardinality(RecordsOf(f)) + 1
      BY <3>1, <3>2, <3>3, FS_AddElement
    <3>5. Len(agentValidations'[f]) = Len(agentValidations[f]) + 1
      BY <2>2, <1>9
    <3> QED
      BY <3>4, <3>5 DEF ValidationInv, RecordsListed
  <2>3. CASE f # g
    <3>1. RecordsOf(f)' = RecordsOf(f)
      BY <2>1, <2>3, <1>5, <1>7 DEF RecordsOf
    <3> QED
      BY <2>3, <3>1, <1>9 DEF ValidationInv, RecordsListed
  <2> QED
    BY <2>2, <2>3
<1> QED
  BY <1>10, <1>11, <1>12, <1>13 DEF ValidationInv

\* A verdict changes what a record says, not whose it is.
LEMMA ResponseKeepsRecords ==
    ASSUME ValidationInv, NEW a \in Accounts, NEW hash \in DOMAIN validations,
           NEW response \in Responses, NEW tag \in ValidationTags,
           ValidationResponse(a, hash, response, tag)
    PROVE  ValidationInv'
<1> DEFINE answer == [validations[hash] EXCEPT !.response = response]
           tagged == [answer EXCEPT !.tag = tag]
           new == [tagged EXCEPT !.answered = TRUE]
<1>1. validations[hash] \in ValidationSet
  BY DEF ValidationInv, ValidationTypeOK
<1>2. /\ answer \in ValidationSet
      /\ answer.agent = validations[hash].agent
      /\ answer.validator = validations[hash].validator
  BY <1>1 DEF ValidationSet
<1>3. /\ validations' = [validations EXCEPT ![hash] = new]
      /\ UNCHANGED <<agentValidations, requestNonce>>
  BY DEF ValidationResponse, ValidationInv, ValidationTypeOK
<1> HIDE DEF answer
<1>4. /\ tagged \in ValidationSet
      /\ tagged.agent = answer.agent /\ tagged.validator = answer.validator
  BY <1>2 DEF ValidationSet
<1> HIDE DEF tagged
<1>5. /\ new \in ValidationSet
      /\ new.agent = tagged.agent /\ new.validator = tagged.validator
  BY <1>4 DEF ValidationSet
<1> HIDE DEF new
<1>6. /\ DOMAIN validations' = DOMAIN validations
      /\ \A h \in DOMAIN validations :
            /\ validations'[h] \in ValidationSet
            /\ validations'[h].agent = validations[h].agent
            /\ validations'[h].validator = validations[h].validator
  BY <1>2, <1>3, <1>4, <1>5 DEF ValidationInv, ValidationTypeOK
<1>7. ValidationTypeOK'
  BY <1>3, <1>6 DEF ValidationInv, ValidationTypeOK
<1>8. HashesTrue' /\ ListsTrue'
  BY <1>3, <1>6 DEF ValidationInv, HashesTrue, ListsTrue
<1>9. \A g \in AgentIds : RecordsOf(g)' = RecordsOf(g)
  BY <1>6 DEF RecordsOf
<1>10. RecordsListed'
  BY <1>3, <1>9 DEF ValidationInv, RecordsListed
<1> QED
  BY <1>7, <1>8, <1>10 DEF ValidationInv

\* The requests and their records agree in every state.
THEOREM ValidationInvariance == RegistriesSpec => []ValidationInv
<1>1. RegistriesInit => ValidationInv
  BY ValidationStarts DEF RegistriesInit
<1>2. ValidationInv /\ [RegistriesNext]_registriesVars => ValidationInv'
  <2> SUFFICES ASSUME ValidationInv, [RegistriesNext]_registriesVars
               PROVE  ValidationInv'
    OBVIOUS
  <2>1. CASE ValidationStep
    BY <2>1, RequestKeepsRecords, ResponseKeepsRecords DEF ValidationStep
  <2>2. CASE UNCHANGED validationVars
    BY <2>2 DEF validationVars, ValidationInv, ValidationTypeOK, HashesTrue,
                ListsTrue, RecordsListed, RecordsOf
  <2> QED
    BY <2>1, <2>2 DEF RegistriesNext, registriesVars
<1> QED
  BY <1>1, <1>2, PTL DEF RegistriesSpec

\* EveryRequestItsOwn for every number of agents, accounts and requests: no
\* request inherits the verdict of an earlier one (validationRequest).
THEOREM RequestsApart == RegistriesSpec => []EveryRequestItsOwn
<1>1. ValidationInv => EveryRequestItsOwn
  <2> SUFFICES ASSUME ValidationInv, NEW g \in AgentIds
               PROVE  /\ Cardinality(RecordsOf(g)) = Len(agentValidations[g])
                      /\ \A i \in DOMAIN agentValidations[g] :
                            LET hash == agentValidations[g][i]
                            IN  /\ validations[hash].agent = g
                                /\ validations[hash].validator = hash[2]
    BY DEF EveryRequestItsOwn, RecordsOf
  <2>1. \A i \in DOMAIN agentValidations[g] :
           agentValidations[g][i] \in DOMAIN validations
    BY DEF ValidationInv, ValidationTypeOK
  <2> QED
    BY <2>1 DEF ValidationInv, HashesTrue, ListsTrue, RecordsListed
<1> QED
  BY <1>1, ValidationInvariance, PTL
===============================================================================
