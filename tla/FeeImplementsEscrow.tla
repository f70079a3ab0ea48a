-------------------------- MODULE FeeImplementsEscrow --------------------------
(***************************************************************************)
(* FaivrFeeModule is an Escrow.  A deal is a task that was funded; what an *)
(* account is owed is what it was sent, what is credited to it, and what   *)
(* an open withdrawal is carrying to it.                                   *)
(***************************************************************************)
EXTENDS FeeModule

DealState(status) ==
    CASE status = "FUNDED" -> "open"
      [] status = "SETTLED" -> "paid"
      [] status = "RECLAIMED" -> "returned"

Deals ==
    [t \in TaskIds |->
        IF t < nextTaskId
        THEN [state |-> DealState(tasks[t].status), client |-> tasks[t].client,
              token |-> tasks[t].token, amount |-> tasks[t].amount]
        ELSE [state |-> "none"]]

Owed ==
    [k \in Tokens |-> [a \in Accounts |->
        delivered[k][a] + pending[k][a] + InFlight(k, a)]]

E == INSTANCE Escrow WITH DealIds <- TaskIds, deals <- Deals, owed <- Owed

\* The contract implements the abstract escrow: refused transfers, credits,
\* withdrawals, reverts, fees and administration are all steps in which
\* nobody's money moves, or the one step in which a task pays out its whole
\* amount or returns it.  (settleTask, reclaimTask, withdrawPending)
EscrowSpec == E!Spec
===============================================================================
