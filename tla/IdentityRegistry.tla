--------------------------- MODULE IdentityRegistry ---------------------------
(***************************************************************************)
(* FaivrIdentityRegistry: the agents, the wallet each agent names, the     *)
(* nonce that makes a wallet's signature usable once, and whom the owner   *)
(* of an agent lets act for it.                                            *)
(*                                                                         *)
(* A signature is the EIP-712 message a wallet signs off chain; it can be  *)
(* presented by anybody who may act for the agent, at any later time.      *)
(* Metadata is what was last written under a key.                          *)
(*                                                                         *)
(* Registering is one action although _safeMint calls the owner in the     *)
(* middle (onERC721Received): the agent, its flag and its wallet are       *)
(* written before, so what the owner does in the call is what it can do    *)
(* right after registering.  Only what is written after it, the URI and    *)
(* the metadata, would then be an earlier value overwritten; no property   *)
(* reads them.                                                             *)
(***************************************************************************)
EXTENDS AgentNFT, FiniteSets, Sequences

CONSTANTS
    MetadataKeys,    \* the keys written, the URI of the agent among them
    MetadataValues,  \* bound: the values written
    SigDeadlines,    \* bound: the deadlines wallets sign
    MaxNonce,        \* bound: wallet changes of an agent
    MaxApprovals     \* bound: approvals in force at a time

ASSUME NonceAssumption == MaxNonce \in Nat

VARIABLES
    agentWallet,      \* _agentWallets
    walletNonce,      \* _walletNonces
    agentActive,      \* _agentActive
    metadata,         \* _metadata, and the token URI under the key "uri"
    tokenApproval,    \* ERC-721 _tokenApprovals
    operators,        \* ERC-721 _operatorApprovals: pairs <<owner, operator>>
    signatures,       \* the messages wallets have signed
    nonceAtTransfer   \* observation: the nonce when the agent last changed hands

identityVars == <<agentWallet, walletNonce, agentActive, metadata,
                  tokenApproval, operators, signatures, nonceAtTransfer>>
approvalVars == <<tokenApproval, operators>>

NoValue == "none"
NeverTransferred == MaxNonce + 1

IdentityInit ==
    /\ NFTInit
    /\ agentWallet = [g \in AgentIds |-> ZeroAddr]
    /\ walletNonce = [g \in AgentIds |-> 0]
    /\ agentActive = [g \in AgentIds |-> FALSE]
    /\ metadata = [g \in AgentIds |-> [key \in MetadataKeys |-> NoValue]]
    /\ tokenApproval = [g \in AgentIds |-> ZeroAddr]
    /\ operators = {}
    /\ signatures = {}
    /\ nonceAtTransfer = [g \in AgentIds |-> NeverTransferred]

-------------------------------------------------------------------------------
IsApprovedForAll(owner, a) == <<owner, a>> \in operators

\* _requireOwnerOrApproved, and the same condition in the other registries.
ActsForAgent(a, g) ==
    /\ AgentExists(g)
    /\ \/ a = agentOwner[g]
       \/ IsApprovedForAll(agentOwner[g], a)
       \/ a = tokenApproval[g]

GetMetadata(g, key) ==
    IF key = "agentWallet" THEN agentWallet[g] ELSE metadata[g][key]

\* register, with or without a URI and metadata, and registerFor.  written
\* is what the call writes under each key.
Register(owner, written) ==
    /\ "agentWallet" \notin DOMAIN written
    /\ Mint(owner)
    /\ agentActive' = [agentActive EXCEPT ![nextAgentId] = TRUE]
    /\ agentWallet' = [agentWallet EXCEPT ![nextAgentId] = owner]
    /\ metadata' = [metadata EXCEPT ![nextAgentId] =
                       [key \in MetadataKeys |->
                           IF key \in DOMAIN written THEN written[key]
                                                     ELSE NoValue]]
    /\ UNCHANGED <<walletNonce, approvalVars, signatures, nonceAtTransfer>>

\* setAgentURI and setMetadata; the wallet cannot be written this way.
SetMetadata(a, g, key, value) ==
    /\ ActsForAgent(a, g)
    /\ key # "agentWallet"
    /\ metadata' = [metadata EXCEPT ![g][key] = value]
    /\ UNCHANGED <<nftVars, agentWallet, walletNonce, agentActive,
                   approvalVars, signatures, nonceAtTransfer>>

\* A wallet signs for the nonce it reads on chain.
SignWallet(w, g, deadline) ==
    /\ signatures' = signatures \union
          {[agent |-> g, wallet |-> w, nonce |-> walletNonce[g],
            deadline |-> deadline]}
    /\ UNCHANGED <<nftVars, agentWallet, walletNonce, agentActive, metadata,
                   approvalVars, nonceAtTransfer>>

\* Mutated form of SignatureValid: the nonce is not part of the message.
SignatureWithoutNonce(sig, g, time) == sig.agent = g /\ time <= sig.deadline

SignatureValid(sig, g, time) ==
    sig.agent = g /\ sig.nonce = walletNonce[g] /\ time <= sig.deadline

SetAgentWallet(a, g, sig, time) ==
    /\ ActsForAgent(a, g)
    /\ SignatureValid(sig, g, time)
    /\ walletNonce[g] < MaxNonce   \* bound
    /\ walletNonce' = [walletNonce EXCEPT ![g] = @ + 1]
    /\ agentWallet' = [agentWallet EXCEPT ![g] = sig.wallet]
    /\ UNCHANGED <<nftVars, agentActive, metadata, approvalVars, signatures,
                   nonceAtTransfer>>

UnsetAgentWallet(a, g) ==
    /\ ActsForAgent(a, g)
    /\ agentWallet' = [agentWallet EXCEPT ![g] = ZeroAddr]
    /\ UNCHANGED <<nftVars, walletNonce, agentActive, metadata, approvalVars,
                   signatures, nonceAtTransfer>>

\* deactivateAgent and reactivateAgent: each requires the other state.
SetActive(a, g, active) ==
    /\ ActsForAgent(a, g)
    /\ agentActive[g] # active
    /\ agentActive' = [agentActive EXCEPT ![g] = active]
    /\ UNCHANGED <<nftVars, agentWallet, walletNonce, metadata, approvalVars,
                   signatures, nonceAtTransfer>>

\* Mutated form of WalletAfterTransfer: the hook does not clear the wallet.
WalletKept(g) == agentWallet[g]

WalletAfterTransfer(g) == ZeroAddr

\* transferFrom: the hook clears the wallet, ERC-721 clears the approval of
\* the token; the nonce, the metadata and the flag stay.
TransferAgentFrom(a, g, to) ==
    /\ ActsForAgent(a, g)
    /\ TransferNFT(g, to)
    /\ agentWallet' = [agentWallet EXCEPT ![g] = WalletAfterTransfer(g)]
    /\ tokenApproval' = [tokenApproval EXCEPT ![g] = ZeroAddr]
    /\ nonceAtTransfer' = [nonceAtTransfer EXCEPT ![g] = walletNonce[g]]
    /\ UNCHANGED <<walletNonce, agentActive, metadata, operators, signatures>>

RoomForApproval ==
    Cardinality(operators)
       + Cardinality({g \in AgentIds : tokenApproval[g] # ZeroAddr})
          < MaxApprovals

\* ERC-721 approve (by the owner or an operator) and setApprovalForAll.
Approve(a, g, to) ==
    /\ AgentExists(g)
    /\ a = agentOwner[g] \/ IsApprovedForAll(agentOwner[g], a)
    /\ to = ZeroAddr \/ RoomForApproval   \* bound
    /\ tokenApproval' = [tokenApproval EXCEPT ![g] = to]
    /\ UNCHANGED <<nftVars, agentWallet, walletNonce, agentActive, metadata,
                   operators, signatures, nonceAtTransfer>>

SetApprovalForAll(a, operator, approved) ==
    /\ approved => RoomForApproval        \* bound
    /\ operators' = IF approved THEN operators \union {<<a, operator>>}
                                ELSE operators \ {<<a, operator>>}
    /\ UNCHANGED <<nftVars, agentWallet, walletNonce, agentActive, metadata,
                   tokenApproval, signatures, nonceAtTransfer>>

-------------------------------------------------------------------------------
WalletStep(time) ==
    \E g \in AgentIds, a \in Accounts :
       \/ \E deadline \in SigDeadlines : SignWallet(a, g, deadline)
       \/ \E sig \in signatures : SetAgentWallet(a, g, sig, time)
       \/ UnsetAgentWallet(a, g)

ProfileStep ==
    \E a \in Accounts :
       \/ \E key \in MetadataKeys, value \in MetadataValues :
             \/ Register(a, [k \in {key} |-> value])
             \/ \E g \in AgentIds : SetMetadata(a, g, key, value)
       \/ \E g \in AgentIds, active \in BOOLEAN : SetActive(a, g, active)

OwnershipStep ==
    \E a \in Accounts :
       \/ Register(a, <<>>)
       \/ \E g \in AgentIds, to \in Accounts : TransferAgentFrom(a, g, to)

ApprovalStep ==
    \E a \in Accounts :
       \/ \E g \in AgentIds, to \in Addresses : Approve(a, g, to)
       \/ \E to \in Accounts \ {a}, approved \in BOOLEAN :
             SetApprovalForAll(a, to, approved)

-------------------------------------------------------------------------------
\* Once an agent has changed hands, it names no wallet, or one that was set
\* since and signed for it, under a nonce no earlier wallet was set with: the
\* wallet of the seller is gone, and neither a signature that was used nor a
\* second transfer brings it back.  When the wallet signed is left open: one
\* that signed before the sale, for the nonce still current, may be set by
\* the buyer after it (_update and setAgentWallet).
WalletOfThisOwner ==
    \A g \in AgentIds :
       nonceAtTransfer[g] # NeverTransferred /\ agentWallet[g] # ZeroAddr =>
          /\ walletNonce[g] > nonceAtTransfer[g]
          /\ \E sig \in signatures :
                /\ sig.agent = g
                /\ sig.wallet = agentWallet[g]
                /\ sig.nonce + 1 = walletNonce[g]
===============================================================================
