--------------------------- MODULE PackageVersions ----------------------------
(***************************************************************************)
(* The order of package versions.  The store compares versions in five     *)
(* places with one algorithm, written out each time: privateStore.ts,      *)
(* store.ts, handlers.ts, company-os-function-leads.mjs and                *)
(* import-company-os-bundle.mjs.                                           *)
(*                                                                         *)
(* A version is [core, pre]: three numbers, and the identifiers of the     *)
(* prerelease.  An identifier is [num, at]: a number and its value, or a   *)
(* word and its place in the order of strings.  Build metadata, which is   *)
(* cut off before any comparison, and leading zeros are left out: versions *)
(* whose texts differ in nothing else are one.                             *)
(***************************************************************************)
EXTENDS Integers, Sequences, FiniteSetsExt

Identifiers == [num : BOOLEAN, at : Nat]
SemanticVersions == [core : [1 .. 3 -> Nat], pre : Seq(Identifiers)]

\* A bug to be caught: a number is not below every word.
CompareIdentifiersAlike(x, y) ==
    IF x.num = y.num THEN x.at - y.at ELSE IF x.at < y.at THEN -1 ELSE 1

\* x === y has been excluded: two different identifiers.
CompareIdentifiers(x, y) ==
    IF x.num /\ y.num THEN x.at - y.at
    ELSE IF x.num # y.num THEN (IF x.num THEN -1 ELSE 1)
    ELSE IF x.at < y.at THEN -1 ELSE 1

ComparePrereleases(p, q) ==
    LET Differ == {i \in 1 .. Max({Len(p), Len(q)}) :
                     i > Len(p) \/ i > Len(q) \/ p[i] # q[i]}
    IN  IF Differ = {} THEN 0
        ELSE LET i == Min(Differ)
             IN  IF i > Len(p) THEN -1
                 ELSE IF i > Len(q) THEN 1
                 ELSE CompareIdentifiers(p[i], q[i])

\* Negative, zero or positive, as a is older than, as new as, or newer than b.
CompareSemver(a, b) ==
    LET Differ == {i \in 1 .. 3 : a.core[i] # b.core[i]}
    IN  IF Differ # {} THEN LET i == Min(Differ) IN a.core[i] - b.core[i]
        ELSE IF a.pre = <<>> \/ b.pre = <<>>
             THEN (IF a.pre = b.pre THEN 0 ELSE IF a.pre # <<>> THEN -1 ELSE 1)
        ELSE ComparePrereleases(a.pre, b.pre)

\* One step of the reduce: the row replaces the latest so far if it is newer.
Later(latest, row, noRow) ==
    IF latest = noRow \/ CompareSemver(row.version, latest.version) > 0
    THEN row ELSE latest

\* The reduce over the rows of a package, in the order the database gives them.
NewestOf(rows, noRow) ==
    LET Latest[i \in 0 .. Len(rows)] ==
          IF i = 0 THEN noRow ELSE Later(Latest[i - 1], rows[i], noRow)
    IN  Latest[Len(rows)]

-------------------------------------------------------------------------------
\* The order semver.org defines, stated without comparing any two versions:
\* a version is an endless word, and words are ordered as in a dictionary.  Its
\* letters are its three numbers, a mark that is higher for a release, the
\* identifiers of its prerelease, and from there on a number below all others.
NumberLetter(n) == [num |-> TRUE, at |-> n]
PreLetter(p, i) == IF i <= Len(p) THEN p[i] ELSE NumberLetter(-1)
Letter(v, i) ==
    IF i <= 3 THEN NumberLetter(v.core[i])
    ELSE IF i = 4 THEN NumberLetter(IF v.pre = <<>> THEN 1 ELSE 0)
    ELSE PreLetter(v.pre, i - 4)

\* Every number is below every word.
LetterBelow(x, y) == IF x.num = y.num THEN x.at < y.at ELSE x.num

Older(a, b) ==
    \E i \in 1 .. 4 + Len(a.pre) + Len(b.pre) :
       /\ \A j \in 1 .. i - 1 : Letter(a, j) = Letter(b, j)
       /\ LetterBelow(Letter(a, i), Letter(b, i))
===============================================================================
