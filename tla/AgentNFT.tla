------------------------------- MODULE AgentNFT -------------------------------
(***************************************************************************)
(* The ERC-721 ownership that FaivrIdentityRegistry inherits from          *)
(* OpenZeppelin: who owns which agent.  The escrow, the reputation and the *)
(* verification contracts all read it through IERC721.ownerOf.             *)
(***************************************************************************)
EXTENDS Naturals

CONSTANTS
    Accounts,   \* the non-zero addresses that take part
    ZeroAddr,   \* address(0)
    MaxAgents   \* bound: agents registered in a behaviour

ASSUME AccountsAssumption == ZeroAddr \notin Accounts
ASSUME MaxAgentsAssumption == MaxAgents \in Nat

VARIABLES
    agentOwner,  \* ERC-721 _owners, address(0) for a token never minted
    nextAgentId  \* _nextAgentId

nftVars == <<agentOwner, nextAgentId>>

AgentIds == 1 .. MaxAgents

Addresses == Accounts \union {ZeroAddr}

NFTInit ==
    /\ agentOwner = [g \in AgentIds |-> ZeroAddr]
    /\ nextAgentId = 1

\* ERC-721 ownerOf, which reverts for a token that was never minted.
AgentExists(g) == agentOwner[g] # ZeroAddr

\* The next identifier is taken and minted to its owner (agents are never
\* burnt).
Mint(owner) ==
    /\ nextAgentId \in AgentIds
    /\ agentOwner' = [agentOwner EXCEPT ![nextAgentId] = owner]
    /\ nextAgentId' = nextAgentId + 1

\* transferFrom by the owner or somebody the owner approved.
TransferNFT(g, to) ==
    /\ AgentExists(g)
    /\ agentOwner' = [agentOwner EXCEPT ![g] = to]
    /\ UNCHANGED nextAgentId

NFTTypeOK ==
    /\ agentOwner \in [AgentIds -> Addresses]
    /\ nextAgentId \in 1 .. MaxAgents + 1
===============================================================================
