----------------------------- MODULE EscrowLiveness ----------------------------
(***************************************************************************)
(* Whether escrows are ever locked up.  FaivrFeeModule with what decides   *)
(* it outside the contract: the issuer of an ERC-20 can refuse to transfer *)
(* to an account and allow it again, and a reclaim that meets the refusal  *)
(* reverts, where ether that is refused is credited.                       *)
(***************************************************************************)
EXTENDS FeeModule

VARIABLE frozen   \* the accounts the issuer lets nobody transfer to

livenessVars == <<vars, frozen>>

LivenessInit == Init /\ frozen = {}

Accepts(k, a) == k = ETH \/ a \notin frozen

Reclaims(t) == tasks[t].status = "FUNDED" /\ tasks'[t].status = "RECLAIMED"

\* Settlements credit what a token refuses and withdrawals revert, which they
\* may do in any case; a reclaim has to be accepted.
ContractStep ==
    /\ Next
    /\ \A t \in TaskIds : Reclaims(t) => Accepts(tasks[t].token, tasks[t].client)
    /\ UNCHANGED frozen

Freeze(a) == Quiescent /\ frozen' = frozen \union {a} /\ UNCHANGED vars

Unfreeze(a) == Quiescent /\ frozen' = frozen \ {a} /\ UNCHANGED vars

LivenessNext ==
    \/ ContractStep
    \/ \E a \in Accounts : Freeze(a) \/ Unfreeze(a)

\* Fairness: blocks keep coming, an external call returns, and a client who
\* could reclaim again and again does it in the end.  Nothing is assumed of
\* the issuer.
Fairness ==
    /\ SF_livenessVars(Tick /\ UNCHANGED frozen)
    /\ WF_livenessVars((WithdrawSucceeds \/ WithdrawReverts) /\ UNCHANGED frozen)
    /\ \A a \in Accounts, t \in TaskIds :
          SF_livenessVars(/\ \E refuses \in BOOLEAN : ReclaimTask(t, a, refuses)
                          /\ Accepts(tasks[t].token, a)
                          /\ UNCHANGED frozen)

LivenessSpec == LivenessInit /\ [][LivenessNext]_livenessVars /\ Fairness

-------------------------------------------------------------------------------
\* No money is locked up by the contract: every funded task is closed in the
\* end, unless from some time on the token refuses its client for ever.  Ether
\* nobody accepts, a pause that is never lifted, an agent that was never
\* registered, a token that is no longer supported or is refused for a while,
\* or a lower cap cannot keep the client from reclaiming.  (reclaimTask)
EscrowNeverStuck ==
    \A t \in TaskIds :
       []<>Accepts(tasks[t].token, tasks[t].client)
          => (t < nextTaskId ~> tasks[t].status # "FUNDED")
===============================================================================
