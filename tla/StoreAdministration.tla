------------------------- MODULE StoreAdministration --------------------------
(***************************************************************************)
(* What the operators of the store do to its catalog: they import signed   *)
(* versions (import-company-os-bundle.mjs), put packages into function     *)
(* bundles and take them out (company-os-store-admin.mjs), and make        *)
(* bundles public (publicCatalogAdmin.ts).  Every command is a transaction *)
(* at READ COMMITTED: it reads what others have committed, statement by    *)
(* statement, and is seen by others when it commits.  The locks it takes   *)
(* are the row of the package (the upsert) and, where a package that leads *)
(* its function is concerned, the rows of the bundles (FOR UPDATE).        *)
(***************************************************************************)
EXTENDS PackageVersions, FiniteSets

CONSTANTS
    Models,      \* package ids
    Bundles,     \* function bundles, all of them active
    Operators,   \* commands that may run at the same time
    NoBundle,    \* an import without FAIVR_STORE_BUNDLE
    MaxCommands

VARIABLES
    published,       \* the rows of company_os_package_versions of a package
    members,         \* company_os_bundle_packages
    publicBundles,   \* public_listing of a bundle
    publicPackages,  \* public_listing of a package
    tx,              \* the open transaction of each operator
    commands,        \* how many commands were started
    \* an observation: no action reads it
    stale            \* bundles written by a command whose reads were outdated

catalogVars == <<published, members, publicBundles, publicPackages>>
adminVars == <<catalogVars, tx, commands, stale>>

\* A version as published: what its signed manifest says about leading a
\* function, and whether the store holds the package itself.
NoRow == [version |-> [core |-> <<-1, 0, 0>>, pre |-> <<>>], lead |-> FALSE,
          stored |-> FALSE]

NoTransaction == [at |-> "idle"]

NewestRow(m) == NewestOf(published[m], NoRow)

Leads(b, except) ==
    {m \in members[b] \ {except} : published[m] # <<>> /\ NewestRow(m).lead}

LockedBy(p) == IF tx[p].at \in {"lead", "commit"} THEN tx[p].locked ELSE {}

\* Nobody else holds the row of the bundle FOR UPDATE.  A membership that is
\* inserted needs as much: its foreign key locks the row against deletion.
BundleFree(o, b) == \A p \in Operators \ {o} : b \notin LockedBy(p)

\* The upsert of the package holds its row until the import ends.
PackageFree(o, m) ==
    \A p \in Operators \ {o} :
       ~(tx[p].at \in {"lead", "commit"} /\ tx[p].row # NoRow /\ tx[p].model = m)

AdminInit ==
    /\ published = [m \in Models |-> <<>>]
    /\ members = [b \in Bundles |-> {}]
    /\ publicBundles = {} /\ publicPackages = {}
    /\ tx = [o \in Operators |-> NoTransaction]
    /\ commands = 0 /\ stale = {}

Begin(o, transaction) ==
    /\ tx[o] = NoTransaction /\ commands < MaxCommands
    /\ tx' = [tx EXCEPT ![o] = transaction]
    /\ commands' = commands + 1
    /\ UNCHANGED <<catalogVars, stale>>

Rollback(o) == tx' = [tx EXCEPT ![o] = NoTransaction]

-------------------------------------------------------------------------------
\* Importing a version

\* The versions published so far are read before the package is locked.
ImportVersion(o, m, row, b) ==
    Begin(o, [at |-> "upsert", model |-> m, row |-> row, bundle |-> b,
              prior |-> NewestRow(m)])

\* A bug to be caught: the upsert without its WHERE.
NeverConflicts(m, row) == FALSE

Conflicts(m, row) ==
    \E i \in DOMAIN published[m] :
       published[m][i].version = row.version /\ published[m][i].lead # row.lead

ImportedIsLatest(t) ==
    t.prior = NoRow \/ CompareSemver(t.row.version, t.prior.version) >= 0

AffectedBundles(t) ==
    {b \in Bundles : t.model \in members[b]} \union ({t.bundle} \ {NoBundle})

Upsert(o) ==
    LET t == tx[o]
        todo == IF t.row.lead /\ ImportedIsLatest(t) THEN AffectedBundles(t) ELSE {}
    IN  /\ t.at = "upsert"
        /\ PackageFree(o, t.model)
        /\ IF Conflicts(t.model, t.row) THEN Rollback(o)
           ELSE tx' = [tx EXCEPT ![o] =
                         [at |-> IF todo = {} THEN "commit" ELSE "lead",
                          model |-> t.model, row |-> t.row, bundle |-> t.bundle,
                          todo |-> todo, locked |-> {}]]
        /\ UNCHANGED <<catalogVars, commands, stale>>

\* assertFunctionLeadAvailable, for one bundle after the other in their order.
LeadCheck(o) ==
    LET t == tx[o]
        b == CHOOSE x \in t.todo : TRUE
    IN  /\ t.at = "lead"
        /\ BundleFree(o, b)
        /\ IF Leads(b, t.model) # {} THEN Rollback(o)
           ELSE tx' = [tx EXCEPT ![o] =
                         [t EXCEPT !.at = IF t.todo = {b} THEN "commit" ELSE "lead",
                                   !.todo = t.todo \ {b},
                                   !.locked = t.locked \union {b}]]
        /\ UNCHANGED <<catalogVars, commands, stale>>

WithRow(rows, row) ==
    IF \E i \in DOMAIN rows : rows[i].version = row.version
    THEN [i \in DOMAIN rows |->
            IF rows[i].version = row.version
            THEN [row EXCEPT !.stored = row.stored \/ rows[i].stored]
            ELSE rows[i]]
    ELSE Append(rows, row)

\* The row that was upserted and the membership that was inserted appear.
Commit(o) ==
    LET t == tx[o]
    IN  /\ t.at = "commit"
        /\ t.bundle # NoBundle => BundleFree(o, t.bundle)
        /\ published' = IF t.row = NoRow THEN published
                        ELSE [published EXCEPT ![t.model] = WithRow(@, t.row)]
        /\ members' = [b \in Bundles |->
                         members[b] \union (IF b = t.bundle THEN {t.model} ELSE {})]
        /\ Rollback(o)
        /\ UNCHANGED <<publicBundles, publicPackages, commands, stale>>

-------------------------------------------------------------------------------
\* Bundles

AddRead(o, b, m) ==
    LET todo == IF NewestRow(m).lead THEN {b} ELSE {}
    IN  /\ published[m] # <<>>
        /\ Begin(o, [at |-> IF todo = {} THEN "commit" ELSE "lead", model |-> m,
                     row |-> NoRow, bundle |-> b, todo |-> todo, locked |-> {}])

\* A bug to be caught: the last package of a public bundle may be removed.
RemovableAlways(b, m) == m \in members[b]

\* Three reads: whether the bundle is public, whether the package is in it,
\* and how many packages are.
Removable(b, m) ==
    /\ m \in members[b]
    /\ ~(b \in publicBundles /\ Cardinality(members[b]) <= 1)

RemoveRead(o, b, m) ==
    /\ Removable(b, m)
    /\ Begin(o, [at |-> "remove", model |-> m, bundle |-> b])

Outdated(b, fresh) == stale' = stale \union (IF fresh THEN {} ELSE {b})

RemoveWrite(o) ==
    LET t == tx[o]
    IN  /\ t.at = "remove"
        /\ members' = [members EXCEPT ![t.bundle] = @ \ {t.model}]
        /\ publicPackages' =
             IF \E b \in publicBundles : t.model \in members'[b]
             THEN publicPackages ELSE publicPackages \ {t.model}
        /\ Outdated(t.bundle, Removable(t.bundle, t.model))
        /\ Rollback(o)
        /\ UNCHANGED <<published, publicBundles, commands>>

Publishable(m) ==
    \E i \in DOMAIN published[m] : published[m][i].stored

PublishRead(o, b) ==
    /\ members[b] # {} /\ \A m \in members[b] : Publishable(m)
    /\ Begin(o, [at |-> "publish", bundle |-> b, listed |-> members[b]])

PublishWrite(o) ==
    LET t == tx[o]
    IN  /\ t.at = "publish"
        /\ BundleFree(o, t.bundle)
        /\ publicPackages' = publicPackages \union t.listed
        /\ publicBundles' = publicBundles \union {t.bundle}
        /\ Outdated(t.bundle, t.listed = members[t.bundle])
        /\ Rollback(o)
        /\ UNCHANGED <<published, members, commands>>

HideBundle(o, b) ==
    /\ tx[o] = NoTransaction /\ commands < MaxCommands
    /\ BundleFree(o, b)
    /\ publicBundles' = publicBundles \ {b}
    /\ commands' = commands + 1
    /\ UNCHANGED <<published, members, publicPackages, tx, stale>>

\* The connection is lost, or a statement fails.
CommandStops(o) ==
    /\ tx[o] # NoTransaction
    /\ Rollback(o)
    /\ UNCHANGED <<catalogVars, commands, stale>>

CommandStep(o) ==
    \/ \E b \in Bundles, m \in Models : AddRead(o, b, m) \/ RemoveRead(o, b, m)
    \/ \E b \in Bundles : PublishRead(o, b) \/ HideBundle(o, b)
    \/ Upsert(o) \/ LeadCheck(o) \/ Commit(o)
    \/ RemoveWrite(o) \/ PublishWrite(o)
    \/ CommandStops(o)

-------------------------------------------------------------------------------
\* What is shown

\* catalogForAppliance: the packages of a bundle at their newest version.
Catalog(b) ==
    {[model |-> m, version |-> NewestRow(m).version] :
       m \in {x \in members[b] : published[x] # <<>>}}

\* ... and whether a box that runs another version is offered that one.
UpdateAvailable(m, installed) == CompareSemver(NewestRow(m).version, installed) > 0

-------------------------------------------------------------------------------
\* Whatever the order the versions were imported in, a box is shown the newest
\* of them, and is offered an update exactly when it runs an older one.
CatalogShowsNewest ==
    \A m \in Models : \A i \in DOMAIN published[m] :
       LET installed == published[m][i].version
       IN  /\ ~Older(NewestRow(m).version, installed)
           /\ UpdateAvailable(m, installed) <=> Older(installed, NewestRow(m).version)

\* A published version is final: a later import of it, even one that runs at
\* the same time, never changes what was signed or takes away the package.
PublishedIsFinal ==
    [][\A m \in Models : \A i \in DOMAIN published[m] :
          \E j \in DOMAIN published'[m] :
             /\ published'[m][j].version = published[m][i].version
             /\ published'[m][j].lead = published[m][i].lead
             /\ published[m][i].stored => published'[m][j].stored]_adminVars

\* What the public is shown is there: a public package is stored and belongs
\* to a bundle, and a public bundle is not empty, unless a command wrote to
\* the bundle what it had decided from outdated reads.
PublicShelf ==
    /\ \A m \in publicPackages :
          /\ Publishable(m)
          /\ stale = {} => \E b \in Bundles : m \in members[b]
    /\ \A b \in publicBundles \ stale : members[b] # {}

\* company-os-marketplace-runbook.md: at most one package of a bundle whose
\* latest signed version declares functionLead.
OneLeadPerBundle ==
    \A b \in Bundles : Cardinality({m \in members[b] :
                                      published[m] # <<>> /\ NewestRow(m).lead}) <= 1
===============================================================================
