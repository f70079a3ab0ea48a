------------------------------ MODULE MCServices -------------------------------
(***************************************************************************)
(* Small instances of the web application's services for TLC: the box's    *)
(* requests on a paid copy one at a time, what stands before every         *)
(* handler, the quote requests, the forms that talk to the escrow, the     *)
(* operators' catalog, the migrations, the release channel, the pages that *)
(* register agents, the support chat and the rate limiters.  They share no *)
(* state: part says which one a behaviour is about, and the others stay as *)
(* they start.                                                             *)
(***************************************************************************)
EXTENDS BundleInstallations, StoreRequests, QuoteRequests, EscrowClient,
        StoreMigrations, StoreOffers, AgentRegistration, SupportDesk, RateLimits

CONSTANTS w1, i1, i2, p1, p2, r1, none, h1, h2, c1, n1, n2, k1, b1, b2,
          q1, q2, t1, s1, s2, o1, o2, m1, m2, f1, f2, d1, d2, g1, g2, g3, x, y,
          v1, v2, a1, u1, u2

VARIABLE part

MCInstIds == {i1, i2}
MCPackages == {p1, p2}
MCHandlers == {h1, h2}

\* Versions of every form: 1.2.0, 1.10.0, and 2.0.0 with the prereleases
\* alpha.alpha, beta, beta.2, beta.10 and 3.
Version(core, pre) == [core |-> core, pre |-> pre]
Number(n) == [num |-> TRUE, at |-> n]
alpha == [num |-> FALSE, at |-> 1]
beta == [num |-> FALSE, at |-> 2]
MCVersions ==
    {Version(<<1, 2, 0>>, <<>>), Version(<<1, 10, 0>>, <<>>)} \union
    {Version(<<2, 0, 0>>, pre) :
       pre \in {<<>>, <<alpha, alpha>>, <<beta>>, <<beta, Number(2)>>,
                <<beta, Number(10)>>, <<Number(3)>>}}

MCRow(v, lead, stored) == [version |-> v, lead |-> lead, stored |-> stored]

\* Both packages have a version that leads; the newer one of m1 is signed
\* twice, and the store may not hold m2.
MCImports ==
    LET old == Version(<<1, 2, 0>>, <<>>)
        new == Version(<<1, 10, 0>>, <<>>)
    IN  {<<m1, MCRow(old, FALSE, TRUE)>>, <<m1, MCRow(new, TRUE, TRUE)>>,
         <<m1, MCRow(new, FALSE, TRUE)>>, <<m2, MCRow(old, TRUE, TRUE)>>,
         <<m2, MCRow(old, FALSE, FALSE)>>}

\* Releases before and after g3, one built before g1 was merged, one that
\* rewrote g2, and one with a migration that is not allowed.
File(f, hash, sql) == [file |-> f, hash |-> hash, sql |-> sql]
MCReleases ==
    LET One == File(g1, x, "plain")
        Two == File(g2, x, "plain")
        Three == File(g3, x, "plain")
    IN  {<<One, Two>>, <<One, Two, Three>>, <<Two>>,
         <<One, File(g2, y, "plain")>>, <<One, File(g2, x, "destructive")>>}

MCLegacy == {[file |-> g1, hash |-> x]}

storeVars == <<vars, storeRequestVars, quoteVars, clientVars, adminVars,
               migrationVars, releaseVars>>
webVars == <<registrationVars, supportVars, limitVars>>
servicesVars == <<storeVars, webVars, part>>

ServicesInit ==
    /\ Init
    /\ StoreRequestsInit
    /\ QuoteInit
    /\ EscrowClientInit
    /\ AdminInit
    /\ MigrationsInit
    /\ ReleasesInit
    /\ RegistrationInit
    /\ SupportInit
    /\ LimitsInit
    /\ part \in {"install", "requests", "quotes", "client",
                 "versions", "admin", "migrations", "releases",
                 "flow", "onboard", "owned", "support", "limits"}
    \* one initial state for each part that is about something else; an
    \* allowance of 1 is enough for one amount and not for the other
    /\ part # "migrations" => handMade[g1] = "absent"
    /\ chain.allowance \in (IF part = "client" THEN {0, 1} ELSE {0})

\* Installation ids and packages are interchangeable, and names are given in
\* the order of use: the first one installed is p1, under i1.
NamedInOrder ==
    /\ installs'[i2].state # "none" => installs'[i1].state # "none"
    /\ installs'[i1].package \in {p1, NoInst}

Installs ==
    /\ part = "install"
    /\ Next
    /\ NamedInOrder
    /\ UNCHANGED <<storeRequestVars, quoteVars, clientVars, adminVars,
                   migrationVars, releaseVars, webVars, part>>

SignedRequests ==
    /\ part = "requests"
    /\ StoreRequestStep
    /\ UNCHANGED <<vars, quoteVars, clientVars, adminVars,
                   migrationVars, releaseVars, webVars, part>>

Quotes ==
    /\ part = "quotes"
    /\ QuoteStep
    /\ UNCHANGED <<vars, storeRequestVars, clientVars, adminVars,
                   migrationVars, releaseVars, webVars, part>>

Client ==
    /\ part = "client"
    /\ EscrowClientStep
    /\ UNCHANGED <<vars, storeRequestVars, quoteVars, adminVars,
                   migrationVars, releaseVars, webVars, part>>

\* One package, one operator, versions in any order.
Versions ==
    /\ part = "versions"
    /\ \/ \E v \in MCVersions : ImportVersion(o1, m1, MCRow(v, FALSE, TRUE), NoBundle)
       \/ Upsert(o1) \/ Commit(o1)
    /\ UNCHANGED <<vars, storeRequestVars, quoteVars, clientVars,
                   migrationVars, releaseVars, webVars, part>>

Administration ==
    /\ part = "admin"
    /\ \E o \in Operators :
          \/ \E i \in MCImports, b \in {f1, NoBundle} : ImportVersion(o, i[1], i[2], b)
          \/ CommandStep(o)
    /\ UNCHANGED <<vars, storeRequestVars, quoteVars, clientVars,
                   migrationVars, releaseVars, webVars, part>>

Migrations ==
    /\ part = "migrations"
    /\ MigrationStep
    /\ UNCHANGED <<vars, storeRequestVars, quoteVars, clientVars,
                   adminVars, releaseVars, webVars, part>>

ReleaseReads ==
    /\ part = "releases"
    /\ ReleaseStep
    /\ UNCHANGED <<vars, storeRequestVars, quoteVars, clientVars,
                   adminVars, migrationVars, webVars, part>>

\* A flow, while nobody else registers agents; the form; the list.
Registration ==
    /\ \/ /\ part = "flow"
          /\ FlowStep \/ WalletStep
          /\ mints' = mints => registry' = registry
       \/ /\ part = "onboard"
          /\ OnboardStep \/ WalletStep
          /\ Len(mints') <= 2
       \/ /\ part = "owned"
          /\ OwnedStep \/ WalletStep \/ PageReloads
    /\ UNCHANGED <<storeVars, supportVars, limitVars, part>>

Support ==
    /\ part = "support"
    /\ SupportStep
    /\ UNCHANGED <<storeVars, registrationVars, limitVars, part>>

Limits ==
    /\ part = "limits"
    /\ LimitStep
    /\ UNCHANGED <<storeVars, registrationVars, supportVars, part>>

ServicesNext ==
    \/ Installs \/ SignedRequests \/ Quotes \/ Client
    \/ Versions \/ Administration \/ Migrations \/ ReleaseReads
    \/ Registration \/ Support \/ Limits

ServicesSpec == ServicesInit /\ [][ServicesNext]_servicesVars

===============================================================================
