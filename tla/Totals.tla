-------------------------------- MODULE Totals --------------------------------
(***************************************************************************)
(* The sum of a ledger.  A ledger is a function from a finite set of       *)
(* accounts (or task identifiers) to natural numbers.  Its total is the    *)
(* number of its units, where unit k of entry x is the pair <<x, k>>: the  *)
(* definition needs no recursion, so facts about it follow from the        *)
(* theorems on cardinalities.                                              *)
(***************************************************************************)
EXTENDS Naturals, FiniteSets

UnitsOf(x, n) == {x} \X (1 .. n)

Units(ledger) == UNION {UnitsOf(x, ledger[x]) : x \in DOMAIN ledger}

Total(ledger) == Cardinality(Units(ledger))
===============================================================================
