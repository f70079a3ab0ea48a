------------------------------ MODULE StoreTables ------------------------------
(***************************************************************************)
(* The two tables of the private store that every handler, webhook and     *)
(* cron run shares, seen from one enrolled box and one function bundle:    *)
(* company_os_bundle_subscriptions (one row per paid copy) and             *)
(* company_os_installations (one row per agent of a copy).  An operator of *)
(* this module is one SQL statement of lib/companyOs/privateStore.ts: its  *)
(* WHERE clause is an operator of its own, its SET clause an EXCEPT.       *)
(*                                                                         *)
(* Rows are numbered in the order of created_at.  The provider's checkout  *)
(* and subscription of row s are named by s as well, so an identifier      *)
(* column is a Boolean: it is NULL or it names the object sold with the    *)
(* row.  A timestamp column is a Boolean: it is NULL or set.               *)
(***************************************************************************)
EXTENDS Naturals, FiniteSets

CONSTANTS
    MaxSubs,    \* bound: subscription rows inserted in a behaviour
    MaxCopies,  \* bound: copies of the bundle on the box
    InstIds,    \* the installation ids in play
    Packages,   \* the packages of the bundle
    NoInst      \* NULL in a column that holds an installation id

ASSUME StoreAssumption ==
    MaxSubs \in Nat /\ MaxCopies \in Nat /\ NoInst \notin InstIds

VARIABLES
    subs,       \* company_os_bundle_subscriptions
    installs    \* company_os_installations

tableVars == <<subs, installs>>

SubIds == 1 .. MaxSubs
Copies == 1 .. MaxCopies

-------------------------------------------------------------------------------
\* "none" stands for a row that was not inserted.  No statement of the store
\* writes suspended, installing, update_available or (for a bundle) failed.
SubStates == {"none", "checkout_pending", "active", "past_due",
              "cancel_at_period_end", "cancelled"}

SubRow == [state : SubStates,
           copy : 0 .. MaxCopies,
           reserved : InstIds \union {NoInst},  \* requested_installation_id
           checkout : BOOLEAN,    \* provider_checkout_id
           linked : BOOLEAN,      \* provider_subscription_id
           abandoned : BOOLEAN,   \* checkout_abandoned_at
           entitled : BOOLEAN,    \* entitled_at
           cancelAt : BOOLEAN,    \* cancel_effective_at
           stopped : BOOLEAN]     \* stopped_at

NoSub == [state |-> "none", copy |-> 0, reserved |-> NoInst,
          checkout |-> FALSE, linked |-> FALSE, abandoned |-> FALSE,
          entitled |-> FALSE, cancelAt |-> FALSE, stopped |-> FALSE]

InstStates == {"none", "entitled", "downloading", "active", "disabled",
               "uninstall_pending", "removed"}

MirrorStates == SubStates \union {"cancellation_pending_uninstall"}

InstRow == [state : InstStates,
            sub : 0 .. MaxSubs,          \* bundle_subscription_id
            package : Packages \union {NoInst},
            subState : MirrorStates,
            cancelAt : BOOLEAN,          \* billing_cancel_effective_at
            stopped : BOOLEAN]           \* billing_stopped_at

NoInstRow == [state |-> "none", sub |-> 0, package |-> NoInst,
              subState |-> "none", cancelAt |-> FALSE, stopped |-> FALSE]

TablesInit ==
    /\ subs = [s \in SubIds |-> NoSub]
    /\ installs = [i \in InstIds |-> NoInstRow]

TablesTypeOK ==
    /\ subs \in [SubIds -> SubRow]
    /\ installs \in [InstIds -> InstRow]

-------------------------------------------------------------------------------
\* The unique indexes

\* WHERE subscription_state <> 'cancelled'
InLiveIndex(row) == row.state \notin {"none", "cancelled"}

\* The live_copy and live_installation indexes accept these rows.
IndexesAccept(rows) ==
    \A s, u \in SubIds :
        s # u /\ InLiveIndex(rows[s]) /\ InLiveIndex(rows[u]) =>
            /\ rows[s].copy # rows[u].copy
            /\ rows[s].reserved = NoInst \/ rows[s].reserved # rows[u].reserved

-------------------------------------------------------------------------------
\* Installations of a subscription

LiveInstall(i, s) ==
    installs[i].sub = s /\ installs[i].state \notin {"none", "removed"}

Rides(i, s) == installs[i].state # "none" /\ installs[i].sub = s

-------------------------------------------------------------------------------
\* activateBundleSubscription

\* Mutated form of Activatable: any row of the checkout is activated.
ActivatableAlways(row) == row.checkout

Activatable(row) ==
    /\ row.checkout
    /\ row.state \in {"checkout_pending", "active", "past_due"} \/ row.abandoned

\* Mutated form of Activated: the date the checkout was abandoned at stays.
ActivatedStillStopped(row) ==
    [row EXCEPT !.state = "active", !.linked = TRUE, !.abandoned = FALSE,
                !.entitled = TRUE]

Activated(row) ==
    [row EXCEPT !.state = "active", !.linked = TRUE, !.abandoned = FALSE,
                !.stopped = @ /\ ~row.abandoned, !.entitled = TRUE]

-------------------------------------------------------------------------------
\* markBundleSubscriptionState

Transitions == {"past_due", "active", "uncancelled", "cancel_at_period_end",
                "cancelled"}

\* The states a transition may leave (of those the store writes).
LeavesFrom(transition) ==
    CASE transition = "cancelled" ->
            SubStates \ {"none", "cancelled"}
      [] transition = "cancel_at_period_end" ->
            {"active", "past_due", "cancel_at_period_end"}
      [] transition = "past_due" -> {"active"}
      [] transition = "active" -> {"past_due"}
      [] transition = "uncancelled" -> {"cancel_at_period_end"}

Markable(row, transition) == row.linked /\ row.state \in LeavesFrom(transition)

StateAfter(transition) == IF transition = "uncancelled" THEN "active" ELSE transition

Marked(row, transition) ==
    [row EXCEPT !.state = StateAfter(transition),
                !.cancelAt = CASE transition = "cancel_at_period_end" -> TRUE
                               [] transition = "uncancelled" -> FALSE
                               [] OTHER -> @,
                !.stopped = @ \/ transition = "cancelled"]

\* Mutated form of MarkedInst: a cancellation taken back leaves its date.
MarkedInstKeepsDate(row, transition) ==
    [row EXCEPT !.subState = StateAfter(transition),
                !.cancelAt = @ \/ transition = "cancel_at_period_end",
                !.stopped = @ \/ (transition = "cancelled"
                                    /\ row.state = "removed")]

\* The state goes to every installation of the subscription, the dates only
\* to those the statement names.
MarkedInst(row, transition) ==
    [row EXCEPT !.subState = StateAfter(transition),
                !.cancelAt = CASE transition = "cancel_at_period_end" -> TRUE
                               [] transition = "uncancelled" -> FALSE
                               [] OTHER -> @,
                !.stopped = @ \/ (transition = "cancelled"
                                    /\ row.state = "removed")]

MarkedOn(s, transition) ==
    [i \in InstIds |-> IF Rides(i, s) THEN MarkedInst(installs[i], transition)
                                     ELSE installs[i]]

-------------------------------------------------------------------------------
\* scheduleBundleCancellation, its two statements: the row is guarded, its
\* installations are not.
Scheduled(row) ==
    IF row.state \in {"active", "past_due"}
    THEN [row EXCEPT !.state = "cancel_at_period_end", !.cancelAt = TRUE]
    ELSE row

ScheduledOn(s) ==
    [i \in InstIds |->
        IF Rides(i, s)
        THEN [installs[i] EXCEPT !.subState = "cancel_at_period_end",
                                 !.cancelAt = TRUE]
        ELSE installs[i]]
===============================================================================
