------------------------------ MODULE EscrowClient ------------------------------
(***************************************************************************)
(* A client's page over the escrow: the form that approves USDC and funds  *)
(* a task, the cards that settle and reclaim tasks, and the briefs and     *)
(* proofs the page keeps in localStorage.                                  *)
(*                                                                         *)
(* A transaction is asked of the wallet, signed or rejected, included or   *)
(* reverted, and only later seen by the page, which may have gone Back,    *)
(* closed the form or reloaded by then.  FeeModule has the contract; here  *)
(* it is one client's tasks and allowance, and any call may revert.  The   *)
(* chain may include transactions in any order.                            *)
(***************************************************************************)
EXTENDS Naturals, Sequences

CONSTANTS
    TaskAmounts,    \* USDC amounts above zero
    MaxTxs          \* bound: transactions asked of the wallet

ASSUME ClientAssumption == TaskAmounts \subseteq Nat \ {0} /\ MaxTxs \in Nat

VARIABLES
    chain,      \* the client's allowance for the escrow, and tasks
    txs,        \* transactions, by their hash: the order they were asked in
    form,       \* FundTaskForm with its useFundTaskUSDC
    cached,     \* the allowance as last read; 0 before
    cards,      \* TaskCards of the loaded list
    briefs      \* localStorage: faivr.task-briefs.v1

clientVars == <<chain, txs, form, cached, cards, briefs>>

TxIds == 1 .. MaxTxs
NoTx == 0
NoBrief == [amount |-> 0, funding |-> NoTx, settlement |-> NoTx, reclaim |-> NoTx]

FreshForm == [step |-> 1, amount |-> 0, mode |-> "approve", tx |-> NoTx]

\* An allowance may be left from earlier.
EscrowClientInit ==
    /\ chain \in [allowance : TaskAmounts \union {0}, tasks : {<<>>}]
    /\ txs = <<>>
    /\ form = FreshForm
    /\ cached = 0
    /\ cards = <<>>
    /\ briefs = [t \in TxIds |-> NoBrief]

\* What a hook tells of its transaction: isPending or isConfirming, receipt.
Working(n) == n # NoTx /\ ~txs[n].known

Receipt(n) == n # NoTx /\ txs[n].known /\ txs[n].status = "done"

Ask(kind, amount, task) ==
    /\ Len(txs) < MaxTxs
    /\ txs' = Append(txs, [kind |-> kind, amount |-> amount, task |-> task,
                           status |-> "asked", known |-> FALSE])

Asked == Len(txs) + 1

-------------------------------------------------------------------------------
\* The wallet and the chain

Signed(n) ==
    /\ txs[n].status = "asked"
    /\ txs' = [txs EXCEPT ![n].status = "sent"]
    /\ UNCHANGED <<chain, form, cached, cards, briefs>>

\* The hook gets an error, as it does when the call reverts.
Rejected(n) ==
    /\ txs[n].status = "asked"
    /\ txs' = [txs EXCEPT ![n].status = "reverted", ![n].known = TRUE]
    /\ UNCHANGED <<chain, form, cached, cards, briefs>>

Accepted(tx) ==
    \/ tx.kind = "approve"
    \/ tx.kind = "fund" /\ tx.amount <= chain.allowance
    \/ tx.kind = "settle" /\ chain.tasks[tx.task].status = "funded"
    \/ tx.kind = "reclaim" /\ chain.tasks[tx.task].status = "funded"
                           /\ chain.tasks[tx.task].due

Included(tx) ==
    CASE tx.kind = "approve" -> [chain EXCEPT !.allowance = tx.amount]
      [] tx.kind = "fund" ->
            [allowance |-> chain.allowance - tx.amount,
             tasks |-> Append(chain.tasks, [amount |-> tx.amount, status |-> "funded",
                                            due |-> FALSE])]
      [] tx.kind = "settle" -> [chain EXCEPT !.tasks[tx.task].status = "settled"]
      [] tx.kind = "reclaim" -> [chain EXCEPT !.tasks[tx.task].status = "reclaimed"]

\* The TaskFunded log of a funding transaction names the task.
TxIncluded(n) ==
    /\ txs[n].status = "sent"
    /\ Accepted(txs[n])
    /\ chain' = Included(txs[n])
    /\ txs' = [txs EXCEPT ![n].status = "done",
                          ![n].task = IF txs[n].kind = "fund" THEN Len(chain.tasks) + 1 ELSE @]
    /\ UNCHANGED <<form, cached, cards, briefs>>

TxReverts(n) ==
    /\ txs[n].status = "sent"
    /\ txs' = [txs EXCEPT ![n].status = "reverted"]
    /\ UNCHANGED <<chain, form, cached, cards, briefs>>

DeadlinePasses(t) ==
    /\ ~chain.tasks[t].due
    /\ chain' = [chain EXCEPT !.tasks[t].due = TRUE]
    /\ UNCHANGED <<txs, form, cached, cards, briefs>>

-------------------------------------------------------------------------------
\* The form

Edits(f) == form' = f /\ UNCHANGED <<chain, txs, cached, cards, briefs>>

FundedView == Receipt(form.tx) /\ form.mode = "fund"

BriefWritten ==
    /\ form.step = 1 /\ ~FundedView
    /\ Edits([form EXCEPT !.step = 2])

TermsSet(amount) ==
    /\ form.step = 2 /\ ~FundedView
    /\ Edits([form EXCEPT !.step = 3, !.amount = amount])

\* Mutated form of Back: the hook keeps its transaction.
BackKeeping ==
    /\ form.step \in {2, 3} /\ ~FundedView
    /\ Edits([form EXCEPT !.step = @ - 1])

\* reset() lets go of the transaction, whatever became of it.
Back ==
    /\ form.step \in {2, 3} /\ ~FundedView
    /\ Edits([form EXCEPT !.step = @ - 1, !.tx = NoTx])

\* Back from the first step, Done, or the dialog closed.
CloseForm == form # FreshForm /\ Edits(FreshForm)

AllowanceRead ==
    /\ form.amount > 0
    /\ cached' = chain.allowance
    /\ UNCHANGED <<chain, txs, form, cards, briefs>>

\* The third step's button, one of two.
Ready == form.step = 3 /\ ~FundedView /\ ~Working(form.tx)

NeedsApproval == cached < form.amount

Approve ==
    /\ Ready /\ NeedsApproval
    /\ Ask("approve", form.amount, 0)
    /\ form' = [form EXCEPT !.mode = "approve", !.tx = Asked]
    /\ UNCHANGED <<chain, cached, cards, briefs>>

FundTask ==
    /\ Ready /\ ~NeedsApproval
    /\ Ask("fund", form.amount, 0)
    /\ form' = [form EXCEPT !.mode = "fund", !.tx = Asked]
    /\ UNCHANGED <<chain, cached, cards, briefs>>

\* The effect after an approval: the allowance is read again, or not, and the
\* mode moves on.
ApprovalConfirmed(read) ==
    /\ Receipt(form.tx) /\ form.mode = "approve"
    /\ cached' = IF read THEN chain.allowance ELSE cached
    /\ form' = [form EXCEPT !.mode = "fund"]
    /\ UNCHANGED <<chain, txs, cards, briefs>>

-------------------------------------------------------------------------------
\* The cards: a list is loaded once, and its statuses stay as they were.

LoadTasks ==
    /\ cards' = [t \in DOMAIN chain.tasks |->
                    [status |-> chain.tasks[t].status, settle |-> NoTx, reclaim |-> NoTx]]
    /\ UNCHANGED <<chain, txs, form, cached, briefs>>

CardReady(t) ==
    /\ cards[t].status = "funded"
    /\ ~Working(cards[t].settle) /\ ~Working(cards[t].reclaim)

SettleClicked(t) ==
    /\ CardReady(t)
    /\ Ask("settle", 0, t)
    /\ cards' = [cards EXCEPT ![t].settle = Asked]
    /\ UNCHANGED <<chain, form, cached, briefs>>

ReclaimClicked(t) ==
    /\ CardReady(t)
    /\ chain.tasks[t].due
    /\ Ask("reclaim", 0, t)
    /\ cards' = [cards EXCEPT ![t].reclaim = Asked]
    /\ UNCHANGED <<chain, form, cached, briefs>>

-------------------------------------------------------------------------------
\* The page sees what became of a transaction, and its effects run.

SavedBrief(n) == [NoBrief EXCEPT !.amount = form.amount, !.funding = n]

\* Mutated form of Seen: a transaction that reverted is over as well.
SeenAnyway(n) == TRUE

Seen(n) == txs[n].status = "done"

\* updateTaskBriefProof keeps to tasks that have a brief.
BriefsAfter(n) ==
    LET t == txs[n].task IN
    CASE Seen(n) /\ form.tx = n /\ txs[n].kind = "fund" /\ form.mode = "fund" ->
            [briefs EXCEPT ![t] = SavedBrief(n)]
      [] Seen(n) /\ t \in DOMAIN cards /\ briefs[t] # NoBrief /\ cards[t].settle = n ->
            [briefs EXCEPT ![t].settlement = n]
      [] Seen(n) /\ t \in DOMAIN cards /\ briefs[t] # NoBrief /\ cards[t].reclaim = n ->
            [briefs EXCEPT ![t].reclaim = n]
      [] OTHER -> briefs

Watched(n) ==
    form.tx = n \/ \E t \in DOMAIN cards : n \in {cards[t].settle, cards[t].reclaim}

ReceiptSeen(n) ==
    /\ Watched(n)
    /\ txs[n].status \in {"done", "reverted"} /\ ~txs[n].known
    /\ txs' = [txs EXCEPT ![n].known = TRUE]
    /\ briefs' = BriefsAfter(n)
    /\ UNCHANGED <<chain, form, cached, cards>>

\* The page is loaded anew: only localStorage is left of it.
Reload ==
    /\ form' = FreshForm
    /\ cached' = 0
    /\ cards' = <<>>
    /\ UNCHANGED <<chain, txs, briefs>>

-------------------------------------------------------------------------------
EscrowClientStep ==
    \/ \E n \in DOMAIN txs :
          \/ Signed(n)
          \/ Rejected(n)
          \/ TxIncluded(n)
          \/ TxReverts(n)
          \/ ReceiptSeen(n)
    \/ BriefWritten
    \/ \E amount \in TaskAmounts : TermsSet(amount)
    \/ Back
    \/ CloseForm
    \/ AllowanceRead
    \/ Approve
    \/ FundTask
    \/ \E read \in BOOLEAN : ApprovalConfirmed(read)
    \/ LoadTasks
    \/ \E t \in DOMAIN cards : SettleClicked(t) \/ ReclaimClicked(t)
    \/ \E t \in DOMAIN chain.tasks : DeadlinePasses(t)
    \/ Reload

-------------------------------------------------------------------------------
\* The brief kept for a task is the brief of that task: the amount it states is
\* the amount in escrow, although the form can be edited and sent again while
\* an earlier transaction is underway.  (FundTaskForm's save effect and Back)
BriefMatchesTask ==
    \A t \in TxIds :
        briefs[t] # NoBrief =>
            /\ t \in DOMAIN chain.tasks
            /\ briefs[t].amount = chain.tasks[t].amount
            /\ txs[briefs[t].funding].task = t

\* A settlement or reclaim proof beside a task is a transaction that closed it
\* that way: a second click on a card whose status is stale, a call that
\* reverted and a reload leave no other hash there.  (TaskCard's effects)
ProofsAreTrue ==
    \A t \in TxIds :
        /\ briefs[t].settlement # NoTx => chain.tasks[t].status = "settled"
        /\ briefs[t].reclaim # NoTx => chain.tasks[t].status = "reclaimed"

\* What the browser keeps of a task and shows beside it agrees with the chain.
ClientTellsTrue == BriefMatchesTask /\ ProofsAreTrue

\* As the form has it: when it says that a task is funded and how much USDC is
\* escrowed for the agent, that much was escrowed by the transaction it shows.
FundedMeansEscrowed ==
    FundedView => txs[form.tx].kind = "fund" /\ txs[form.tx].amount = form.amount
===============================================================================
