----------------------------- MODULE MCFeeModule ------------------------------
(***************************************************************************)
(* A small instance of FeeModule for TLC.  What is bounded is divided in   *)
(* two: money is about who is paid, with every account and a token beside  *)
(* ether, under one configuration; admin is about what the owner changes   *)
(* under open tasks, the fee among it, in ether and with an agent that is  *)
(* not sold.                                                               *)
(***************************************************************************)
EXTENDS FeeImplementsEscrow

CONSTANTS c1, c2, vault, zero, eth, usdc, noFrame

VARIABLE part

\* A client, an agent owner who can also be a client, and the wallet of the
\* protocol.
MCAccounts == {c1, c2, vault}

OneConfiguration ==
    UNCHANGED <<feeBps, protocolWallet, devWallet, maxEscrow, genesisAgents,
                paused>>

EtherAndOneOwner ==
    /\ \A t \in TaskIds : tasks'[t].client # c2 /\ tasks'[t].token # usdc
    /\ \A a \in AgentIds : agentOwner'[a] \in {ZeroAddr, c2}

MCInit == Init /\ part \in {"money", "admin"}

Money ==
    /\ part = "money"
    /\ OneConfiguration
    /\ Next
    /\ UNCHANGED part

Admin ==
    /\ part = "admin"
    /\ UNCHANGED supportedTokens
    /\ Next
    /\ EtherAndOneOwner
    /\ UNCHANGED part

MCNext == Money \/ Admin

MCSpec == MCInit /\ [][MCNext]_<<vars, part>>
===============================================================================
