-------------------------------- MODULE Escrow --------------------------------
(***************************************************************************)
(* What an escrow promises, without saying how money travels: a deal is    *)
(* opened by a client, and closed once, by paying its whole amount out or  *)
(* by returning it to the client.  owed is everything an account may call  *)
(* its own; it never shrinks, and grows only when a deal closes.           *)
(***************************************************************************)
EXTENDS Totals

CONSTANTS Accounts, Tokens, DealIds

VARIABLES deals, owed

vars == <<deals, owed>>

NoDeal == [state |-> "none"]

OpenDeal == [state : {"open"}, client : Accounts, token : Tokens,
             amount : Nat \ {0}]

Init ==
    /\ deals = [d \in DealIds |-> NoDeal]
    /\ owed = [k \in Tokens |-> [a \in Accounts |-> 0]]

Open(d) ==
    /\ deals[d].state = "none"
    /\ deals'[d] \in OpenDeal
    /\ deals' = [deals EXCEPT ![d] = deals'[d]]
    /\ UNCHANGED owed

\* Nobody loses by it, and together they gain the amount.
PayOut(d) ==
    LET k == deals[d].token IN
    /\ deals[d].state = "open"
    /\ deals' = [deals EXCEPT ![d].state = "paid"]
    /\ \A a \in Accounts : owed'[k][a] >= owed[k][a]
    /\ Total(owed'[k]) = Total(owed[k]) + deals[d].amount
    /\ owed' = [owed EXCEPT ![k] = owed'[k]]

Return(d) ==
    LET deal == deals[d] IN
    /\ deal.state = "open"
    /\ deals' = [deals EXCEPT ![d].state = "returned"]
    /\ owed' = [owed EXCEPT ![deal.token][deal.client] = @ + deal.amount]

Next == \E d \in DealIds : Open(d) \/ PayOut(d) \/ Return(d)

Spec == Init /\ [][Next]_vars
===============================================================================
