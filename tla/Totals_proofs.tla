----------------------------- MODULE Totals_proofs ----------------------------
(***************************************************************************)
(* What the total of a ledger is, and how it changes with one entry.       *)
(***************************************************************************)
EXTENDS Totals, Integers, FiniteSetTheorems, FunctionTheorems, TLAPS

\* The units of one entry are as many as its amount.
LEMMA UnitsOfEntry ==
    ASSUME NEW x, NEW n \in Nat
    PROVE  IsFiniteSet(UnitsOf(x, n)) /\ Cardinality(UnitsOf(x, n)) = n
<1>1. IsFiniteSet({x}) /\ Cardinality({x}) = 1
  BY FS_Singleton
<1>2. IsFiniteSet(1 .. n) /\ Cardinality(1 .. n) = n
  BY FS_Interval
<1>3. Cardinality({x} \X (1 .. n)) = 1 * n /\ IsFiniteSet({x} \X (1 .. n))
  BY <1>1, <1>2, FS_Product
<1> QED
  BY <1>3 DEF UnitsOf

\* The units of the entries D of a ledger.
UnitsIn(ledger, D) == UNION {UnitsOf(x, ledger[x]) : x \in D}

\* A finite ledger has finitely many units.
LEMMA UnitsInFinite ==
    ASSUME NEW D, IsFiniteSet(D), NEW ledger, \A x \in D : ledger[x] \in Nat
    PROVE  IsFiniteSet(UnitsIn(ledger, D))
<1> DEFINE F == [x \in D |-> UnitsOf(x, ledger[x])]
           S == {F[x] : x \in D}
<1>1. IsFiniteSet(S)
  <2>1. F \in Surjection(D, S)
    BY Fun_IsSurj
  <2> QED
    BY <2>1, FS_Surjection
<1>2. \A T \in S : IsFiniteSet(T)
  BY UnitsOfEntry
<1>3. UnitsIn(ledger, D) = UNION S
  BY DEF UnitsIn
<1> HIDE DEF S
<1> QED
  BY <1>1, <1>2, <1>3, FS_UNION

\* An entry taken out of the ledger takes exactly its amount with it.
LEMMA TotalSplit ==
    ASSUME NEW D, IsFiniteSet(D), NEW ledger \in [D -> Nat], NEW d \in D
    PROVE  /\ Cardinality(UnitsIn(ledger, D \ {d})) \in Nat
           /\ Total(ledger)
                = Cardinality(UnitsIn(ledger, D \ {d})) + ledger[d]
<1> DEFINE Rest == UnitsIn(ledger, D \ {d})
           One == UnitsOf(d, ledger[d])
<1>1. IsFiniteSet(Rest) /\ Cardinality(Rest) \in Nat
  <2>1. IsFiniteSet(D \ {d})
    BY FS_RemoveElement
  <2>2. IsFiniteSet(Rest)
    BY <2>1, UnitsInFinite
  <2> QED
    BY <2>2, FS_CardinalityType
<1>2. IsFiniteSet(One) /\ Cardinality(One) = ledger[d]
  BY UnitsOfEntry
<1>3. Units(ledger) = Rest \union One
  BY DEF Units, UnitsIn
<1>4. Rest \cap One = {}
  BY DEF UnitsIn, UnitsOf
<1>5. Cardinality(Rest \cap One) = 0
  BY <1>4, FS_EmptySet
<1>6. Cardinality(Units(ledger))
        = Cardinality(Rest) + Cardinality(One) - Cardinality(Rest \cap One)
  <2> HIDE DEF Rest, One
  <2> QED
    BY <1>1, <1>2, <1>3, FS_Union
<1> HIDE DEF Rest, One
<1>7. Cardinality(Units(ledger)) = Cardinality(Rest) + ledger[d]
  BY <1>1, <1>2, <1>5, <1>6
<1> QED
  BY <1>1, <1>7 DEF Total, Rest

\* The total of a ledger is a natural number, at least any entry.
THEOREM TotalBound ==
    ASSUME NEW D, IsFiniteSet(D), NEW ledger \in [D -> Nat]
    PROVE  /\ Total(ledger) \in Nat
           /\ \A d \in D : ledger[d] <= Total(ledger)
<1>1. Total(ledger) \in Nat
  <2>1. Units(ledger) = UnitsIn(ledger, D)
    BY DEF Units, UnitsIn
  <2>2. IsFiniteSet(UnitsIn(ledger, D))
    BY UnitsInFinite
  <2> QED
    BY <2>1, <2>2, FS_CardinalityType DEF Total
<1>2. ASSUME NEW d \in D
      PROVE  ledger[d] <= Total(ledger)
  <2> DEFINE rest == Cardinality(UnitsIn(ledger, D \ {d}))
  <2>1. rest \in Nat /\ Total(ledger) = rest + ledger[d]
    BY TotalSplit
  <2> HIDE DEF rest
  <2> QED
    BY <1>1, <2>1
<1> QED
  BY <1>1, <1>2

\* A ledger without money has total zero.
THEOREM TotalOfNothing ==
    ASSUME NEW D, NEW ledger \in [D -> Nat], \A d \in D : ledger[d] = 0
    PROVE  Total(ledger) = 0
<1>1. \A d \in D : UnitsOf(d, ledger[d]) = {}
  BY DEF UnitsOf
<1>2. Units(ledger) = {}
  BY <1>1 DEF Units
<1> QED
  BY <1>2, FS_EmptySet DEF Total

\* Changing one entry changes the total by the difference.
THEOREM TotalUpdate ==
    ASSUME NEW D, IsFiniteSet(D), NEW ledger \in [D -> Nat], NEW d \in D,
           NEW n \in Nat
    PROVE  Total([ledger EXCEPT ![d] = n]) = Total(ledger) - ledger[d] + n
<1> DEFINE new == [ledger EXCEPT ![d] = n]
<1>1. new \in [D -> Nat] /\ new[d] = n
  OBVIOUS
<1>2. UnitsIn(new, D \ {d}) = UnitsIn(ledger, D \ {d})
  <2>1. \A x \in D \ {d} : new[x] = ledger[x]
    OBVIOUS
  <2> HIDE DEF new
  <2> QED
    BY <2>1 DEF UnitsIn
<1> HIDE DEF new
<1>3. Total(new) = Cardinality(UnitsIn(new, D \ {d})) + new[d]
  BY <1>1, TotalSplit
<1>4. /\ Cardinality(UnitsIn(ledger, D \ {d})) \in Nat
      /\ Total(ledger) = Cardinality(UnitsIn(ledger, D \ {d})) + ledger[d]
  BY TotalSplit
<1>5. Total(new) = Total(ledger) - ledger[d] + n
  BY <1>1, <1>2, <1>3, <1>4
<1> QED
  BY <1>5 DEF new
===============================================================================
