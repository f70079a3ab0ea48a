------------------------- MODULE MCBundleInstallations -------------------------
(***************************************************************************)
(* Small instances of BundleInstallations.  What is bounded is divided in  *)
(* three: billing is about two checkouts and everything that decides them, *)
(* and no box; races is about one copy that two requests of the box act on *)
(* at once, and the provider says only what they make it say; mirror is    *)
(* about one request on one installation while the provider has more to    *)
(* say.                                                                    *)
(***************************************************************************)
EXTENDS BundleInstallations, TLC

CONSTANTS w1, w2, i1, i2, p1, p2, r1, r2, c1, none

VARIABLE part

MCWorkers == {w1, w2}
MCInstIds == {i1, i2}
MCPackages == {p1, p2}
MCRequests == {r1, r2}

\* Workers, installation ids, packages and checkout handlers are
\* interchangeable.
MCSymmetry ==
    Permutations(MCWorkers) \union Permutations(MCInstIds) \union
    Permutations(MCPackages) \union Permutations(MCRequests)

\* Acknowledgements change nothing else, and what is said of them is said of
\* the step that signs one.
MCWithoutAcks == <<installs, billingVars, work, receipts, answered, halfway, part>>

MCInit == Init /\ part \in {"billing", "races", "mirror"}

ReservedIds == ({subs[s].reserved : s \in SubIds} \union
                {checkoutPc[r].reserved : r \in Requests}) \ {NoInst}

AtMostOne(set) == Cardinality(set) <= 1

\* Two rows, two handlers, a reconciler; one of the ids is reserved.
Billings ==
    /\ part = "billing"
    /\ BillingStep
    /\ Len(sent') <= 3
    /\ AtMostOne(ReservedIds')

OneCopy ==
    /\ \A s \in SubIds \ {1} : subs'[s] = NoSub
    /\ subs'[1].copy <= 1
    /\ \A r \in Requests : checkoutPc'[r].copy <= 1
    /\ AtMostOne({r \in Requests : checkoutPc'[r] # Idle})
    /\ \A c \in Reconcilers : seen'[c] = Nothing

Races ==
    /\ part = "races"
    /\ Next
    /\ OneCopy
    /\ Len(sent') <= 2
    /\ Len(sent') = 2 => sent' = sent \/ work' # work

Mirror ==
    /\ part = "mirror"
    /\ Next
    /\ OneCopy
    /\ AtMostOne({w \in Workers : work'[w] # NoWork})
    /\ AtMostOne({i \in InstIds : installs'[i] # NoInstRow})
    /\ Len(sent') <= 4
    /\ \A e \in 2 .. Len(sent') : ~sent'[e].echo

MCNext == (Billings \/ Races \/ Mirror) /\ UNCHANGED part

MCSpec == MCInit /\ [][MCNext]_<<vars, part>>

\* An instance small enough to need no parts.
SmallSpec ==
    /\ Init /\ part = "small"
    /\ [][Next /\ UNCHANGED part]_<<vars, part>>
===============================================================================
