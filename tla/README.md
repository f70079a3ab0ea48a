# FAIVR in TLA+

FAIVR is a marketplace for agents in two halves that share little but a name:

* **Contracts** (`src/contracts/src`): Solidity contracts on Base. Agents are
  ERC-721 tokens; clients put money in escrow for an agent's task; feedback,
  verification and validation are recorded per agent.
* **Company OS store** (`src/web/lib/companyOs`, `src/web/app/api/company-os`):
  a private store, in PostgreSQL behind Next.js routes, from which an enrolled
  box buys *copies* of function bundles, installs their agents, and removes
  them again. Money is handled by a provider (Polar, formerly Stripe) that
  reports by webhook. Scripts and deployments change the catalog and the schema.

Between the two stands the web client: a browser that talks to the escrow, and
quote requests that precede a task, pages that register agents, and a support
chat.

This directory models the parts whose correctness depends on the order of
events, checks them with TLC, and proves with TLAPS what the checks say of
safety for any number of accounts, tasks, requests, messages and processes.

1. [Inventory](#inventory)
2. [Modules](#modules)
3. [The escrow](#the-escrow)
4. [Around the escrow](#around-the-escrow)
5. [The store](#the-store)
6. [Around the store](#around-the-store)
7. [The web client](#the-web-client)
8. [Runs](#runs)
9. [Proofs](#proofs)
10. [What the runs contradict](#what-the-runs-contradict)
11. [Not modelled](#not-modelled)
12. [Plan](#plan)

## Inventory

### Contracts

| Component | State | Operations | Interacts with | Correct when |
|---|---|---|---|---|
| Fee module `FaivrFeeModule.sol` | tasks, next id, fee and wallets, credits per token, genesis members and their used tasks, supported tokens, pause | fund, settle, reclaim, withdraw, fund/settle *for* a client, administration | asks the identity registry who owns an agent; tells the reputation registry of each settlement; called by the router | it holds what it owes; each party gets its share once; a task closes once and the client can always get unsettled money back |
| Identity registry `FaivrIdentityRegistry.sol` | ERC-721 ownership, active flag, agent wallet and its nonce, metadata | register, transfer, set and unset wallet, (de)activate | read by all others through `ownerOf` | a wallet never survives a transfer; a signature is good for one use |
| Reputation registry `FaivrReputationRegistry.sol` | settlement credits, feedback entries, responses, aggregates | record settlement, give, revoke and answer feedback, summaries | called by fee module and router | feedback is backed by exactly one settlement; aggregates equal the entries |
| Router `FaivrRouter.sol` | none | register and fund; settle and give feedback, each in one transaction | identity, fee module, reputation | it is all or nothing, and never acts for anybody but its caller |
| Verification registry `FaivrVerificationRegistry.sol` | a verification per agent, bound to an owner | verify, revoke, sync, expiry | identity registry; verification API | what is shown as verified was verified for the present owner |
| Validation registry `FaivrValidationRegistry.sol` | requests and responses | request, respond, summaries | identity registry | a response belongs to a request and its validator |

Hard behaviours: transfers a receiver refuses, recipients that call back,
ownership that changes between two transactions, deadlines against
settlements, rounding, parameters that change under open tasks.

### Store

| Component | State | Operations | Interacts with | Correct when |
|---|---|---|---|---|
| Subscriptions and billing `privateStore.ts`, `billing/` | one row per paid copy; processed webhook ids | start a checkout, apply an event | provider, reconciliation, installations | entitled only when paid; what ended stays ended; agrees with the provider |
| Checkout reconciliation `checkoutReconciliation.ts` | none of its own | read pending rows, ask the provider, update the row | cron job and catalog route, against the webhooks | no recorded checkout waits for ever for a lost webhook |
| Installations, receipts `privateStore.ts`, `store.ts`, `handlers.ts` | one row per installed agent with a mirror of the billing state; uninstall receipts; acknowledgements | install, download, acknowledge, update, archive, uninstall, receipt, billing | subscription rows, provider | billing stops after the last removal; nothing false is signed; removed is final |
| Authentication and idempotency `http.ts`, `store.ts` | nonces, idempotency rows | authenticate, run once | every handler | a request takes effect once and its answer can be had again |
| Enrolment and keys `privateStore.ts`, `publisherKeys.ts` | codes, enrolled appliances, keys | issue, redeem, rotate | authentication | a code enrols one appliance |
| Catalog and versions `privateStore.ts` | packages and versions (read only) | order versions, project the catalog | installations | the order is the one of semantic versioning, and the newest version is offered |
| Administration `import-company-os-bundle.mjs`, `company-os-store-admin.mjs`, `publicCatalogAdmin.ts` | packages, versions, bundle members, public flags | import, add, remove, list, publish | catalog; other operators | what is signed never changes; a function has one lead; what is public is there |
| Release channel `truchsessReleases.ts` | the pinned tag, a cache per process | read the stable release, pin, unpin | GitHub, the appliances | an answer describes one release, the pinned or the newest one |
| Migrations `run-store-migrations.mjs` | applied migrations and their hashes | apply pending ones | database; overlapping deployments | the record says what the schema is |
| Quote requests `quoteRequests.ts` | a table, or a JSON file it is imported from | create, view, quote, close, import | operator's queue page | status, quote and dates agree; what is closed stays closed; the import leaves nothing behind |
| Rate limiting `rateLimit.ts`, `support/chat/route.ts` | a window and a count per key, in two Maps of a process | count, sweep | quote requests' and chat routes | no span of a window's length lets more than twice the limit through; Retry-After is long enough |
| Support desk `lib/support/learnings.ts`, `support-admin` | feedback and custom answers in two files | read, add and write whole | the chat of every tab, the admin's page | what is kept of an answer is true of it |
| Verification API `app/api/verify` | challenges | challenge, check | verification registry | a challenge proves one account once |

### Web client

| Component | State | Operations | Interacts with | Correct when |
|---|---|---|---|---|
| Escrow hooks and forms `useEscrow.ts`, `FundTaskForm.tsx`, `TaskCard` | the progress of a transaction, briefs and proofs in the browser | approve, fund, settle, reclaim | wallet, fee module | what the page keeps of a task is true of that task |
| Quote queue `OperatorQuoteQueue.tsx` | lists and drafts | refresh, view, quote, close | quote requests | an outdated page overwrites nothing |
| Registration `OldSchoolRegistrationFlow.tsx`, `OnboardForm.tsx`, `useOwnedAgents.ts` | a batch and its progress, a form, a list of agents | register, stop, start again; read the logs | wallet, identity registry | an id shown is that of a registration by its signer, of this agent; a list is of the connected account |
| Support chat `SupportChat.tsx` | messages, in the tab and in its storage | open, ask, rate, reload | chat and feedback routes | an answer stands after its question; a reload forgets nothing; no answer is rated twice |

No page of the application imports the registration pages, `useOwnedAgents` or
`SupportChat` at present; they are modelled as components that a page may mount.
The rest of the user interface and the deployment scripts keep no state that
concurrent parties share. Hard behaviours of the store and the
client: webhooks that are lost, repeated, late or out of order; reads of the
provider or of GitHub that are stale when applied; handlers of several
statements without a transaction; crashes between the statements; requests,
commands and deployments that race; a page that hears of a transaction late; a
wallet that changes its account in the middle of a batch.

`PROJECT.json` lists every component with its status and the hazards at the
line where each bites, with the properties that cover it; the others are under
[Not modelled](#not-modelled).

## Modules

| Module | Models | Extends |
|---|---|---|
| `Totals` | the sum of a ledger, without recursion | |
| `AgentNFT` | who owns which agent (ERC-721 of the identity registry) | |
| `FeeModule` | the escrow contract | `AgentNFT`, `Totals` |
| `EscrowLiveness` | the escrow contract under fairness, beside an issuer that refuses and allows transfers of a token | `FeeModule` |
| `Escrow` | what an escrow promises: deals that open, pay out or return, and what each account may call its own | `Totals` |
| `FeeImplementsEscrow` | the refinement mapping from the contract to `Escrow` | `FeeModule`; instantiates `Escrow` |
| `StoreTables` | the subscription and installation tables: each WHERE and SET clause that matters | |
| `BundleBilling` | checkout handlers, the provider, webhooks, reconciliation | `StoreTables` |
| `BundleInstallations` | the agents on a copy, composed with all of `BundleBilling` | `BundleBilling` |
| `IdentityRegistry` | wallets, signatures and nonces, metadata, approvals | `AgentNFT` |
| `ReputationRegistry` | credits, feedback, revocations, responses | `IdentityRegistry` |
| `FeedbackSummaries` | the reads of the reputation registry over a growing book | |
| `Marketplace` | the escrow, the registries and the router as one system | `FeeImplementsEscrow`, `ReputationRegistry` |
| `VerificationRegistry`, `ValidationRegistry` | badges and verdicts of an agent that changes hands | `IdentityRegistry` |
| `StoreRequests` | enrolment codes, signed messages, nonces and idempotency rows | |
| `PackageVersions` | the order of versions | |
| `StoreAdministration` | concurrent operators on the catalog | `PackageVersions` |
| `StoreOffers` | what a box is offered: packages and the appliance | `StoreAdministration`, `ReleaseChannel` |
| `StoreMigrations` | overlapping deployments that migrate the database | |
| `ReleaseChannel` | the stable release of the appliance | |
| `QuoteRequests` | the file, the table, the import and the queue page | |
| `EscrowClient` | the forms of a client over an abstract chain | |
| `AgentRegistration` | the batch, the form and the list of agents, under a wallet and a chain | |
| `SupportDesk` | the chat of a tab, its storage, the files of the server, the admin's page | |
| `RateLimits` | the two limiters of one process | |
| `MC...` | instances for TLC | the modules they check |
| `Totals_proofs`, `FeeModule_proofs`, `FeeImplementsEscrow_proofs`, `Marketplace_proofs`, `BundleBilling_proofs`, `BundleInstallations_proofs` | theorems | the module they prove about, and the proofs they build on |
| `Registries_proofs` | theorems about the three registries whose agents are sold | `IdentityRegistry`, `VerificationRegistry`, `ValidationRegistry` |
| `Services_proofs` | theorems about the services, each with a specification of its own | the service modules |

`MCContracts` and `MCServices` hold several small instances that share no
state: `part` says which one a behaviour is about, and the rest stays as it
starts.

The state of `BundleInstallations` is that of `BundleBilling` plus the requests
of the box; every action of billing interleaves with it (`BillingStep`).

## The escrow

`FeeModule` has one variable per storage variable of the contract, and
`balance` (what the contract holds of each token), `now` (`block.timestamp`)
and three kinds of things no code has: `frame`, `receipts` and `delivered`.

* A **transaction is an action**, a call that reverts an action that is not
  enabled. `SettleTask` and `ReclaimTask` contain all their transfers: they
  send with a gas stipend or to a token, so nobody gets control in between, and
  the receiver's refusal is an argument (`refusing`, a subset of the three legs
  of a settlement).
* The exception is a **pull withdrawal**, which sends ether with all the gas:
  `WithdrawPending` opens it, `WithdrawSucceeds` or `WithdrawReverts` closes it,
  and `frame` holds it in between. The reentrancy guard is entered exactly when
  `frame` is not `NoFrame`; every guarded operation has the conjunct
  `NonReentrant`. What the guard does not cover (administration, the NFT, the
  clock) touches neither credits nor balances and is the same before, inside or
  after the withdrawal.
* `tasks` reads like the mapping it is: a slot that was never written is
  `NoTask`, which, because `FUNDED` is the zero of the enum, looks like a funded
  task of `address(0)`.
* A token may deliver less than it was asked for: `FundTask` takes what was
  `received`, and `PullExact` is the contract's comparison.
* The payee is the owner of the agent *when the task is settled*; a task may be
  funded for an agent that does not exist, and then only be reclaimed.
* `receipts` records the `TaskSettled` event of each task and `delivered` what
  each account was sent; no action reads them.

`EscrowLiveness` adds the one thing outside the contract that can stop a
reclaim. Ether a client refuses becomes a credit; an ERC-20 transfer that fails
reverts the reclaim (`FaivrFeeModule.sol:209`). `frozen` is the set of accounts
the issuer lets nobody transfer to, `Freeze` and `Unfreeze` change it between any
two transactions, and `ContractStep` is a step of the contract in which no
refused reclaim goes through.

`Escrow` is the contract as its users see it. A deal is opened, and closed once:
`PayOut` gives the whole amount to somebody and takes nothing from anybody,
`Return` gives it back to the client. `FeeImplementsEscrow` maps a funded slot to
a deal, and what an account was sent, is credited and is underway to it to what
it is `owed`. Refused transfers, credits, withdrawals, reverts and
administration are then steps in which nothing happens.

Abstracted: `fundedAt`, `settledAt` and the caller-chosen destination of a
withdrawal change nothing else and are left out; roles are not modelled (an
administrator is whoever holds the role); the amounts are natural numbers, since
the sum of all escrows is bounded by the supply of the tokens.

## Around the escrow

`Marketplace` composes `FeeModule` with `ReputationRegistry` and
`IdentityRegistry`. A call that reverts anywhere undoes its transaction, so an
entry point is one action whose guard is the conjunction of the guards on its
path: `registerAndFund` registers and funds, `settleAndGiveFeedback` settles,
records the settlement and gives the feedback. `_safeMint` calls a receiver that
is a contract back before `register` returns (`FaivrIdentityRegistry.sol:108`);
the callback is part of the action, since what it can do, with the agent minted
and its URI and wallet not yet written, is the agent's owner's own calls, which
can as well follow it, and `registerAndFund` funds after it in any case. The fee module may have no
reputation registry, or another than the router's. `FeedbackBacked` counts, per
client and agent, entries and credits against the settlements the registry was
told of.

`IdentityRegistry` keeps the signatures wallets have given (`signatures`): a
message names the agent, the wallet, the nonce and a deadline, and whoever may
act for the agent can present it, now or later. `WalletOfThisOwner` speaks of
nonces and not of the time of signing: a signature made before a sale and not
presented stays valid after it while the nonce is current, since the digest does
not name the owner. The same module, with
the verification registry, is the one in which an agent is sold: every badge
and verdict is checked against transfers in between.

`FeedbackSummaries` treats the read side: loops that walk clients and entries,
pages cut by offset and limit, and the summary value, whose decimals are
normalised. Each is stated as the loop computes it and compared with a
definition by sets. The average is checked against `int128` after the zeros are
stripped and the read reverts when it does not fit (`Cast`), with a narrow type
(`MAX_INT128`) so that books of a few entries reach it: values that fit each have
a mean that does not, because the mean keeps more decimals.

## The store

A **timestamp column is a Boolean**: it is NULL or set. A provider identifier
column is a Boolean too: the checkout and the subscription of a row are created
for that row and named by its number. States no statement of the store writes
(`suspended`, `installing`, `update_available`, `failed` for bundles) are left
out. Versions are left out: an update is newer than what is installed. One box
and one bundle are modelled; nothing in the statements relates two.

* A **webhook is one action**, because the route runs it in one transaction with
  its dedup row and its first statement, guarded, takes the lock of the row it
  changes. The exception is a **refresh** (`subscription.updated`): it reads the
  row without a lock (`RefreshRead`), and then dates it by its id alone
  (`RefreshDates`) or moves it by a guarded statement (`RefreshMarks`,
  `RefreshEnds`), or is rolled back (`RefreshStops`). The transaction is a plain
  `BEGIN`, so other handlers commit in between; `refreshing` is what each read. A
  customer id it remembers is left out. A payment message that activates nothing
  tries the recovery from `past_due` in a second statement; the two are one action,
  as the second is guarded again and a row it finds past due ends active either way. `sent` holds every message the provider sent, at its
  webhook-id. A message may be delivered at any time or never; one that was
  processed is in `processed` and changes nothing when it is delivered again;
  one that was answered with an error (the unique index refuses the row) is in
  `refused` and may be delivered again.
* `InOrder` restricts the deliveries of one of Polar's subscriptions to the order
  of sending. It is `FALSE` in every run but `billing_provider`, which asks what order buys.
* A **checkout handler** is four actions: the reads, the INSERT, the provider
  call with the UPDATE that records it (nobody else learns of the checkout in
  between), and the abort. It can stop anywhere (`CheckoutStop`).
* The **reconciler** reads a pending row and the provider (`ReconcileRead`),
  and applies what it read later (`ReconcileApply`); anything may happen in
  between. How old a checkout must be to be abandoned is left to chance. A
  payment in progress reads as *nothing*, like a subscription that is not active.
* The **provider** is external: it sells, expires, renews, fails, cancels,
  takes a cancellation back and ends, and sends the messages `polarEventView`
  distinguishes. A refresh carries a snapshot of the time it was sent.
* A **request of the box** that is several statements, or that calls the
  provider, is a worker taking one step per statement, able to stop after each
  (`Fail`). Requests that are one guarded UPDATE are one action. Only
  `acceptUninstallReceipt` is a transaction in the code, and one action here.
  A cancellation is therefore the call to the provider, the UPDATE of the row
  (`ScheduleRow`), that of the installations (`ScheduleMirror`) and
  `markCancellationPending` (`MarkPending`), with anything in between.
* Two variables no code has say which rows the two races above have touched:
  `outdated`, dated by a refresh after the cancellation it read was taken back;
  and `halfway`, of which a cancellation has written one table and not the other,
  or the second after the first had changed, until a cancellation is written to
  both. No guard reads them; `DatesAgree` and `AckNamesStop` do. An outdated row
  is one whose owner took a cancellation back and whose messages overlapped:
  `DatesAgree` says that too, so the exception cannot hide another cause.
* **Stripe** rows (`StripeSold`) live beside Polar's. `webhook/route.ts` answers
  the end of a subscription it cannot link with an error, so Stripe sends it
  again; a paid session that is reconciled becomes active whatever became of
  its subscription. `KindOf`, `Applies` and `WebhookRefused` hold what differs.

## Around the store

* `StoreRequests` is what stands before a handler: an enrolment code is claimed
  and its key inserted in two statements; a signed message is delivered any number
  of times; its nonce is consumed, its idempotency row inserted, the handler run
  and the row completed or deleted, one step per statement. A handler may be
  stopped after any of them (`HandlerStops`).
* `StoreAdministration` takes operators' commands statement by statement at
  READ COMMITTED, with the locks they take: the row of the package, and for a
  lead the rows of the bundles. `PackageVersions` is the comparison, written out
  five times in the code and translated once.
* `StoreMigrations` has the advisory lock (which ends with its session), the
  check of every hash before the first pending migration, the schemas that
  were made by hand, and the SQL and its record in one transaction.
* `ReleaseChannel` reads the pin, the release and its files from GitHub in three
  rounds while operators and developers go on; each process keeps what it read
  for a time that is left to chance.

## The web client

* `QuoteRequests` has the file store (read, emptied, written, with no lock), the
  table, and the move from one to the other by every process that starts. The
  card of one request on the queue page is followed through lists and replies
  that come back late.
* `EscrowClient` has the wallet's transactions (asked for, signed or rejected,
  included or reverted, seen later), the form and its Back button, the task
  cards and what `localStorage` keeps. The contract is reduced to the client's
  tasks and allowance; `FeeModule` is the contract.
* `AgentRegistration` has one list of register transactions, `mints`, for all
  pages: asked for, signed or rejected, then included or reverted, in any order,
  and only on Base. `flows` holds every `handleRegisterAll` that was started; the
  page shows one, the others go on unseen, as closures do. A flow's `item` is
  `activeIndex`, one action for each `await`. `OnboardForm` keeps one transaction
  and fields that stay open. `useOwnedAgents` keeps one list and any number of
  loads, each of which knows whether its effect was cancelled (`Live`).
  An agent's URI is the number of the trusted agent, or the draft, it is built
  from. The contract is reduced to `registry`; `IdentityRegistry` is the contract.
* `SupportDesk` follows one tab through reloads (`chat`, and `keptChat` in its
  storage), the calls under way with the history they carry, the posts that read a
  file, empty it and write it, in steps, and the admin's page. A message is its role
  and the question it is about.
* `RateLimits` has the clock, a window for each key, and what was let through and
  what Retry-After was told, which no action reads.

Two assumptions about the browser: nobody clicks or types before the first frame
after a mount (`LoadPersisted`; the animation frame that loads the conversation
overwrites what is there), and an account that has just been connected is not
read off the list until its load has begun (`OwnedIsTheirs` says nothing of that
frame, which may show the agents of the account before).

## Runs

| Run | Instance | Shows |
|---|---|---|
| `fee_module` | two parts. Money: 3 accounts, ether and a token, 2 tasks, amount 57 at 10 % (fees 5.7, cut to 5 = 4 + 1, so both divisions round), deadline now or next. Administration: one client in ether, and the fee (3 % may follow 10 %, 20 % is refused), the wallets, the pause and the genesis members change at any time, under open tasks; the development wallet is a client | `Solvency`, `EveryoneGetsTheirDue`, `TaskLifecycle`, `TypeOK`, `FeesAddUp`, `GenesisBounded`, `EscrowSpec` |
| `contracts` | six parts: the escrow alone under fairness, in ether and in a token that is frozen for accounts and unfrozen; the marketplace with 2 tasks and a registry that is absent, set and replaced; the wallets, badges and validations of an agent that is sold; books of 3 entries | `EscrowNeverStuck`, `FeedbackBacked`, `WalletOfThisOwner`, `BadgesMatchRecords`, `TransferEndsVerification`, `EveryRequestItsOwn`, `PagesAreTheWhole`, `SummaryIsTheMean` |
| `store_races` | three parts. Billing: 2 checkouts of up to 2 copies, the second sold by Stripe, 2 handlers, a reconciler, 3 messages in any order and overlapping. Races: a copy, 2 packages, 2 installation ids, 2 requests at once, 2 messages. Mirror: an installation and a request, 4 messages in any order and overlapping | `EntitledOnlyIfPaid`, `DatesAgree`, `NoResurrection`, `LastGoneStopsBilling`, `AckTruthful`, `AckNamesStop` |
| `billing_provider` | 2 checkouts of a copy, the second sold by Stripe, Polar's messages in order and Stripe's in any, all of which may be lost | `ProviderAgreement`, `PendingResolves` |
| `services` | thirteen parts, below | see below |
| `billing_late_payment`, `billing_revived`, `install_mirror`, `install_twice`, `function_lead`, `fund_task`, `flow_stops` | the instances of the passing runs, or smaller | [contradictions](#what-the-runs-contradict) |

| Part of `services` | Instance | Shows |
|---|---|---|
| installations | a paid copy, 2 packages, 2 ids, 1 request at a time, 3 messages in any order | `PackageOnceACopy`, `CancelsEmptyCopies`, `RemovedIsFinal` |
| requests | 2 handlers, a code, 2 nonces, a key, 2 bodies | `RequestsActOnce` (`CodeOpensOneBox` and `MessageRunsOnce`), `AnswersAreFinal` |
| quotes | 2 requests, 2 processes, a file that becomes a table, 2 updates, a page | `QuotesAreWhole` (`QuotesTellOneStory` and `NothingLeftBehind`), `ClosedStaysClosed` |
| client | 2 amounts, 3 transactions, an allowance of 0 or 1 | `ClientTellsTrue` (`BriefMatchesTask` and `ProofsAreTrue`) |
| versions | 8 versions of every form, imported in any order, 4 at a time | `OffersAreCurrent` (its first half, `CatalogShowsNewest`) |
| administration | 2 operators, 2 packages that may lead, a bundle, 4 commands | `PublicShelf`, `PublishedIsFinal` |
| migrations | 2 deployments of 5 releases, one older, one that rewrote history, one destructive, a file applied by hand | `HistoryIsTrue`, `OneHistory` |
| releases | 2 tags, a process, 2 releases, which may share a tag | `OffersAreCurrent` (its second half, `StableIsOneRelease`) |
| flow | 2 trusted agents, 2 accounts, 2 flows, 3 transactions | `RegistrationsAreTrue` (`FlowIsTrue`), `OneAfterAnother` |
| onboard | the form, 2 transactions, registrations by others | `RegistrationsAreTrue` (`OnboardIsTrue`) |
| owned | 2 loads, 2 accounts, 2 agents | `RegistrationsAreTrue` (`OwnedIsTheirs`) |
| support | 2 questions, a memory of 1 message, 2 posts at a time, 3 in all | `ConversationsAreTrue` |
| limits | a key of each limiter, a limit of 2 in a window of 3, seconds of 2, time up to 6 | `WithinLimit` |

`TypeOK` is that of the escrow; the other modules' types are the first
conjuncts of the invariants proved, which hold for every instance. `EscrowNeverStuck` is checked of the
escrow part with every administrator's action, and none of those is fair.

**The bounds and why they are enough.** Two tasks are the fewest with which the
money of one can pay for another, a second refused transfer adds to a credit,
and a genesis member has one free task too many. Three accounts give the client,
the agent's owner and the protocol wallet different interests and let the
development wallet coincide with a client. Two subscription rows are an
abandoned checkout and its successor, the only pair that competes for a copy.
Three messages suffice for a payment, a change and the message that overtakes
it; five in order for a failure, a recovery, a cancellation and its revocation
after the payment. Four messages and one request are enough for a refresh that
reads a cancellation which is then taken back, and for a cancellation at the
provider that is overtaken between the two statements of the store's own. Two packages are the fewest for which there is a last one,
and two workers, handlers, operators, processes or deployments are the fewest that
race. Two nonces with one key are a message and its retry; two updates of a
quote request are a closing and the late change it must survive; three
transactions are an approval, a funding and a closing; four commands are two
imports, a listing and a removal; two releases are one and the one that
replaces it, or holds another tag. Two trusted agents are a first and a next, two
accounts the one that is connected and the one before, two flows the one on the
page and one that was left; two loads are a cancelled one and its successor; a
memory shorter than the conversation is one that has to choose; time up to two
windows is a burst at the end of one and at the beginning of the next. Every bound is a conjunct marked
`\* bound` and a constant.

**Symmetry and views.** Checkout handlers, workers, installation ids and
packages are interchangeable: no definition but the MC modules names one, and
the constants that are permuted occur nowhere else. No run with symmetry checks
liveness. In `services` installation ids and packages get their names in the
order of use (`NamedInOrder`), which leaves out renamings only. `store_races` uses the view `MCWithoutAcks`: `acks` is written by
`Billing` and read by no action. A step that signs leads to the view it comes
from, so every state that is kept has signed nothing, and `AckNamesStop`, which
is said of the step, is checked of each acknowledgement where it is signed.

**Deadlock.** Every instance stops when its bounds are used up, so deadlock is
not checked.

**Fairness.** `EscrowLiveness`: blocks keep coming (strong fairness of `Tick`: a
block never ends inside a withdrawal, so a withdrawal opened again and again
disables it now and then, but between two transactions there is always a block),
an external call returns or runs out of gas (weak), and a client who could
reclaim again and again does it in the end (strong, because a withdrawal, or a
token that refuses for a while, disables the reclaim now and then). Nothing is
assumed of administrators, agents or the issuer of the token; `EscrowNeverStuck`
has it as a hypothesis that the token accepts the client again and again, and of
ether that holds by itself. A client whom the token refuses for ever never gets
the escrow back: the contract has no way to send it elsewhere. `BundleBilling`: the cron job
runs every 15 minutes and takes rows in the order of `updated_at`, which
`markBundleCheckoutChecked` bumps, so no pending row is passed over for ever; a
run that fails is followed by another. That is strong fairness of reading each
row and of applying what was read. Nothing is assumed of webhooks.

## Proofs

Every invariant and every action property of a passing run is the conclusion of
a theorem, except what the last part of this section lists. The theorems hold
for every value of the constants: any accounts, tokens, amounts and limits, any
number of tasks, agents, rows, messages, handlers, workers, servers,
deployments and commands at the same time. Each follows from an inductive
invariant.

| Module | Theorems | Inductive invariant |
|---|---|---|
| `FeeModule_proofs` | `TypeCorrect`, `EscrowSolvent`, `Lifecycle`; `FeesExact`, `GenesisCapped` | `IInv`; `EventsInv` |
| `FeeImplementsEscrow_proofs` | `Refinement` (`Spec => EscrowSpec`), `EveryoneDue` | `IInv` |
| `Marketplace_proofs` | `MarketSolvent`, `MarketRefinement`, `MarketFees`, `FeedbackPaidFor` | `IInv`, and the credits beside the settled tasks |
| `Registries_proofs` | `WalletOfOwner`, `BadgesMatch`, `TransferEnds`, `RequestsApart` | `IdentityInv`; `VerificationInv`; `ValidationInv` |
| `BundleBilling_proofs` | `BillingTypeCorrect`, `PaidCopies`, `TrueDates`, `OverIsOver`; `StoreAgreesWithProvider` | `IInv`; `AgreeInv` |
| `BundleInstallations_proofs` | `InstallsTypeCorrect`, `CopiesPaidAndDated`, `BillingStopsAtLast`, `SignedOnceTold`, `SignedStops`; for one request at a time `OncePerCopy`, `OnlyEmptyCopies`, `ReceiptsAreFinal` | `InstInv`, `NoticeInv`; `AloneInvariance` |
| `Services_proofs` | `RequestsOnce` (`OneBoxACode`, `OneRunAMessage`), `FinalAnswers` | `RequestInv` |
| | `QuotesWhole` (`QuotesConsistent`, `MovedWhole`), `ClosedIsFinal` | `QuoteInv` |
| | `TrueHistory`, `HistoryIsOne` | `MigrationInv` |
| | `ClientIsTrue` (`BriefsMatch`, `ProofsStand`) | `ClientInv` |
| | `ShelfIsTrue`, `VersionsAreFinal` | `AdminInv` |
| | `VersionOrder` | lexicography, by the first letter that differs |
| | `OffersCurrent` (`StableRelease`) | `AdminInv`, `ReleaseInv` |
| | `RegistrationsStand`, `AgentsInOrder` | `RegistrationInv` |
| | `ConversationsStand` | `SupportInv` |
| | `LimitsStand` | `LimitInv` |

*The escrow.* `Solvency` is not inductive: a slot beyond `nextTaskId` could hold
an amount that funding overwrites, and a withdrawal that reverts puts back an
amount that must come from somewhere. `IInv` adds that slots not yet written are
`NoTask`, that while a withdrawal is open its credit is zero, and the exact
genesis count that keeps `genesisAgentCount` a natural number; since `balance`,
`pending` and the counters are naturals, no checked subtraction of the contract
can revert. There is one lemma per action, over the lemmas of `Totals_proofs`:
changing one entry of a ledger changes its total by the difference
(`TotalUpdate`), which follows from the cardinality of disjoint unions because
`Total` counts units instead of recurring. `FeesAddUp` needs `EventsInv`: a task
that is not settled has no receipt, so a settlement adds its fee once, and a
member's used tasks count its receipts without a fee, which removal from the
genesis list does not reset.

*The refinement.* Every step is of one of four kinds (`StepKinds`): it opens a
task, pays one out, returns one, or leaves tasks, receipts and what is owed
alone. The money argument is made once per action and entry by entry: the sent
and the refused legs of a settlement together bring an account what all three
legs bring (`GainSplit`), whichever were refused; a withdrawal moves an amount
from the credit to the frame and from there to what was delivered, or back.
`Refinement` and `EveryoneDue` then need only the four kinds, the first with the
fact that the three legs sum to the amount (`AddLegsTotal`), the second by
induction over the tasks that closed, whose entry goes from nothing to the
share of the receipt (`DueGrows`).

*The marketplace and the registries.* The steps of the marketplace are those of
the escrow beside steps of the registries, so the lemmas of the escrow carry
over; what the router does in one transaction is a funding or a settlement to
them. `FeedbackPaidFor` counts: each settlement a registry was told of adds one
credit, each feedback moves one. The wallet of an agent is safe because its
nonce only grows past the one noted at a sale; badges match because every token
that exists is linked to the record that names it; requests stay apart because
the nonce in a hash is used up.

*Billing.* The invariant relates three views of a subscription: the row, the
provider's object, and what a handler, a reconciler or a refresh has read of
either and not yet applied. `OpenTrue` and `RefreshTrue` say what is still so of a
row whose state a refresh has read, when it comes to write. A payment once seen
was made, however old the reading; a row being created belongs to one handler
and no message can name it. Agreement with the provider needs a second invariant, over the messages sent and processed: they
tell the provider's state (`ToldTrue`), and the row is what they say, whatever
the reconciler did in between (`RowAgrees`, `HeardDone`).

*Installations.* The hard theorem is `BillingStopsAtLast`, for any number of
requests at once: whoever accepts the last receipt sees every other one gone,
whatever the order of the commits, and a crash after it leaves a receipt without
an answer. For `SignedStops` the invariant follows the columns an acknowledgement
is made of: an installation's dates and its mirror say a stop wherever its
subscription stops (`Mirrors`), unless one of the two races of
[the store](#the-store) is under way or has left its dates (`Doubtful`).
`OncePerCopy`, `OnlyEmptyCopies` and `ReceiptsAreFinal` assume `OneWorker`, because two requests at once do break them; `install_twice` shows
the first, and [Further hazards](#further-hazards) and `PROJECT.json` name the
lines of the others.

*The services.* Each is proved from a specification of its own: its initial
states and its steps. Every invariant says what a process knows between two
statements and why it is still so: a nonce taken and an idempotency row in
progress are one handler's (`RequestInv`), whoever is past the lock knows the
history as it is (`MigrationInv`), an import holds the row of its package until
it commits (`AdminInv`), a hook follows the transaction it asked for
(`ClientInv`), no tag goes back behind what an instance remembers
(`ReleaseInv`). Two of them say more than one would think of: the move of the
quotes is safe only because a table with rows implies that the import is done,
and the cache of the releases only because no tag is called `newest`.
An import may bring any version (`SemanticVersions`) in any row.

*Versions.* `VersionOrder` is that `compareSemver` tells any two versions apart,
says the opposite when they are swapped, and is transitive; `OlderIsLess` is
that it is the order of semver.org. Both go by the first place at which two
versions differ as words (`VersionsApart`). That the reduce over the rows of a
package ends at the newest of them, in whatever order they come, is then a
question of its prefixes: a shortest prefix whose result is not its newest row
is refuted by transitivity (`NewestOfRows`). The recursive function itself
exists for the same reason (`ReduceExists`). The row that stands for none has a
version no package can have.

*Registrations.* `OneAfterAnother` needs more than the flow: that a transaction
gets its id when it is mined and an id is above all earlier ones (`MintsHold`),
and that a flow asks for the next agent only when the transaction of the one
before has its outcome (`InTurn`). So an agent whose transaction is still out
cannot get an id below one shown before it, however many flows and other
accounts register meanwhile. The steps of the three pages are steps of a list of
transactions that only grows and whose settled entries do not change; one lemma
says what such a step preserves of every flow and of the form, and each action
is an instance of it. `OwnedHolds` has the point of the effect's clean-up: the
last load is for the connected account, and only the last one writes the list.

*Support.* That no answer is rated twice in the files is a fact about writers
that overlap: an entry on its way is of an answer that is marked, is in no file,
and is in nobody's copy of a file (`PostHolds`), so whichever write is the last,
and whatever it loses, adds nothing twice. What the model is handed leads to the
question because `slice(-10)` of a conversation's messages, with the question
after it, is the end of what the tab shows next (`LeadsTo`).

*Limits.* A count is not enough: the invariant gives each request that was let
through a place, 1 to `Limit`, in its window, and keeps the windows of a key a
window's length apart. A span of that length then meets two windows at most, and
the map from requests to places is injective, which bounds the cardinality.
`RetryIsEnough` is the arithmetic of rounding up (`a <= ((a + b - 1) \div b) * b`).

**Assumed**, each evaluated by TLC in every run of its module: `AccountsAssumption`
and `FeeConstantsAssumption` (zero is no account, finitely many accounts, amounts
and limits are naturals), `NoFrameAssumption`, `RefusalAssumption` and the like
(a value that stands for none is none of the others); `ReleasesAssumption` (a
list of migrations names a file once, as a directory does); `CardAssumption` (the
card shown is of a request); `TagAssumption` (tags begin with `truchsess-iso-`);
`NonceAssumption`, `MaxAgentsAssumption`, `VerificationAssumption`,
`StoreAssumption`, `BillingAssumption` and `ClientAssumption` (bounds are
naturals, amounts positive); `RegistrationAssumption` (the owner is an account, a
blank draft is none, there are trusted agents); `SupportAssumption`; and
`LimitAssumption` (the limiters have different keys; limit, window and second are
positive).

**Only model-checked.** `EscrowNeverStuck` and `PendingResolves` are liveness
under fairness. `PagesAreTheWhole` and `SummaryIsTheMean` say what folds inside
folds compute: a filtered walk over all feedback cut into pages, a sum scaled by
powers of ten and stripped of zeros. They need induction over the data, which
the prover does not do by itself; the one reduce of the catalog was within reach
of an argument by the least counterexample, these are not.

## What the runs contradict

Each is a run that ends in a counterexample, with the quoted line in
`PROJECT.json`.

* `billing_late_payment`: the runbook and a test have a late payment recover the
  very checkout that was abandoned. If the owner has meanwhile started another
  checkout of the copy, the live-copy index refuses the row and the webhook is
  answered with an error until the newer checkout is gone. (The test's
  in-memory database has no such index.)
* `billing_revived`: the end of a subscription that arrives before its first
  payment message is recorded and forgotten; the payment then entitles.
* `install_mirror`: the code's comment has the installations mirror follow every
  event. A payment message that names the checkout brings a past-due row back to
  active through `activateBundleSubscription`, which leaves the mirror past due.
* `function_lead`: an import asks whether the function already has a lead only
  if the imported version is the newest and leads, but it adds the package to the
  bundle in any case; importing an older version gives a bundle two leads.
* `fund_task`: once the approval of USDC is confirmed the form reads its
  receipt as that of the funding, and shows a funded task that does not exist.
* `flow_stops`: the page that registers a batch of agents says that the flow stops
  immediately if a transaction fails. A transaction that is mined and reverts has
  a receipt too, and the loop does not look at its status: the agent is shown as
  confirmed, without an id, and the next one is asked for.
* `install_twice`: of two concurrent requests to install a package on a copy,
  both succeed; the runbook promises 409 to the second.

Two more races contradict no sentence of the repository and are recorded as
hazards: with two requests in flight, an update can bring back an installation
whose uninstall receipt was accepted (`RemovedIsFinal`), and a cancellation can
reach the provider while a package is being installed (`CancelsEmptyCopies`).
Both properties hold one request at a time and are checked so.

One more is a step of `store_races` and not a run of its own: a comment has a
refresh never touch an ended subscription and never be a state source
(`privateStore.ts:580`), but the refresh that read a scheduled cancellation dates
the row by its id, whatever it has become (`:593`). If the cancellation was taken
back meanwhile, an active row has the date of an end, and an acknowledgement can
be signed with it, naming a running state; if it ended, the date moves. The same
acknowledgement can be had from a cancellation of which one UPDATE is written and
the other is not (`:688`, `:692`), or comes after the provider's messages. These
are the rows `DatesAgree` and `AckNamesStop` except; they hold of all others.

One disagreement needs no run: `src/docs/truchsess-release-admin.md:56` has all
other names of release assets stay excluded, while `isUpdateAsset` lets every
asset through that is neither an image nor a checksum, and a test asks for it.

## Not modelled

* **Verification API**: the two routes keep their challenges in different Maps,
  so the check always answers 404 and there is no behaviour to state anything of.
* **Deployment scripts**: straight lines run once by one administrator. What a
  deployment stopped half-way leaves (an escrow without a reputation registry)
  is a state of `Marketplace`.
* **Support chat**: what an answer says, by the language model or by the matching of
  `knowledge.ts`. No code looks for an answer among the custom ones.
* **User interface** apart from the funding form, the task cards, the operator's
  queue, the registration pages and the chat: it renders what it reads. What an
  agent's metadata says is left out of the registration pages.
* Inside modelled components: the per-installation checkout of the first
  marketplace, which no bundle takes; prices, descriptions and customer ids;
  search and the projection of manifests; bundle images and the lifetime of
  download links; the expiry of nonces and idempotency rows; roles and upgrades
  of the contracts; drawings in token metadata.

### Further hazards

`PROJECT.json` has the hazards the properties are for. These are real as well;
no property is stated of them, for the reason given.

* *Left by a crash, and nothing in the code resolves them*: a used enrolment
  code without a key (`privateStore.ts:108`), and a checkout stopped between its
  INSERT and `recordBundleCheckout`, whose row blocks the copy
  (`storeHandlers.ts:144`). `PendingResolves` is of recorded checkouts only.
* *In the file store only*, which is for development: a lost update of two
  writers (`quoteRequests.ts:140`), and a read of a file being written, which
  parses as empty (`quoteRequests.ts:52`). Both happen in `QuoteRequests`.
* *The order READ COMMITTED allows*: the commands on the public listing decide on
  members they have read and lock nothing (`publicCatalogAdmin.ts:19`).
  `PublicShelf` excepts the bundles a command wrote from outdated reads.
* *A signature kept back*: a wallet's signature made before a sale
  (`FaivrIdentityRegistry.sol:152`), see [Around the escrow](#around-the-escrow).
* *A wrong answer, but nothing done twice*: the idempotency row that refused an
  INSERT is deleted before it is read (`store.ts:27`); the notice of an import
  whose reads are outdated (`import-company-os-bundle.mjs:214`).
* *On the page only*: a second request after a lost answer
  (`FundTaskForm.tsx:180`), the brief of a task whose form was left by Back
  (`:140`), the hash of the text before (`:118`), lists of the account before
  (`QuoteRequestManager.tsx:59`, `useEscrow.ts:321`). In a batch of registrations
  (`OldSchoolRegistrationFlow.tsx`), one that is started again registers every
  agent again (`:81`), and a wallet that changes its account has the rest
  registered to that account (`:87`). Both happen in `AgentRegistration`. The form for one agent names no chain
  (`OnboardForm.tsx:68`) and its success view shows the name the field has by then
  (`:85`). The admin's page says an answer was added whatever the route replied
  (`support-admin/page.tsx:54`).
* *Loses what was kept*: overlapping posts of feedback (`learnings.ts:36`), and a
  file cut short, which is read as empty and written over (`:26`). Both happen in
  `SupportDesk`; what is kept is still true.
* *Per process*: the limiters count for one instance of the application and forget
  with it (`rateLimit.ts:23`, `support/chat/route.ts:10`).
* *The code asks for no more*: the last listed member of a public bundle may be
  removed if an unlisted one stays (`publicCatalogAdmin.ts:56`); the public page
  shows the version published last, the appliance the highest
  (`publicCatalogData.ts:36`); the older API orders by the numeric core alone
  (`handlers.ts:24`); a withdrawn release is served for five minutes
  (`truchsessReleases.ts:61`); a migration merged late runs late
  (`run-store-migrations.mjs:160`); a cancellation in Stripe's portal shows only
  when the period ends (`stripe.ts:112`).
* *A reading of text, taken as given*: a second DELETE in a statement hides the
  first from `assertSafeMigration` (`run-store-migrations.mjs:82`).

## Plan

Modelled: every part of the system in which the order of events matters.
Left to do:

* Billing beside installations: that every step of `BundleInstallations` is a
  step of `BundleBilling` or one the store writes on its own, so that
  `OverIsOver` and `StoreAgreesWithProvider` hold there as well.
