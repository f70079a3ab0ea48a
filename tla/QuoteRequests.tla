----------------------------- MODULE QuoteRequests -----------------------------
(***************************************************************************)
(* Quote requests: a buyer asks, an operator looks at the request, answers *)
(* it with a quote or closes it.  The route keeps them in a JSON file, or, *)
(* when DATABASE_URL is set, in a table that the first use of a process    *)
(* fills from the file.  The file is read, changed and written back with   *)
(* no lock; the table is changed in transactions.                          *)
(*                                                                         *)
(* One operator works on the queue page, of which the card of one request  *)
(* is followed; other operators call the API as they like.  Requests that  *)
(* fail the credentials, the payload's schema or the rate limit            *)
(* change nothing and are left out, as are the columns nobody              *)
(* changes after the INSERT.                                               *)
(***************************************************************************)
EXTENDS Naturals, FiniteSets

CONSTANTS
    QuoteIds,       \* request ids in play
    CardId,         \* the request whose card is followed
    QuoteTexts,     \* quote messages and operator notes, trimmed
    NoText,         \* NULL, or a field left blank
    Servers,        \* processes of the web application
    MaxPatches,     \* bound: updates asked for in a behaviour
    MaxLists        \* bound: lists on their way to the page

ASSUME CardAssumption == CardId \in QuoteIds

VARIABLES
    durable,    \* DATABASE_URL is set
    quoteFile,  \* quote-requests.json; a file being written reads as empty
    quoteTable, \* quote_requests
    server,     \* what a process is about and whether its store is ready
    card,       \* the card of CardId on the queue page
    patches     \* observation: updates asked for

quoteVars == <<durable, quoteFile, quoteTable, server, card, patches>>

NoRequest == [status |-> "none"]
NoRows == [q \in QuoteIds |-> NoRequest]

Texts == QuoteTexts \union {NoText}

\* Nobody is doing anything.
Resting(ready) == [step |-> "idle", ready |-> ready]

\* lists and replies are the answers on their way to the page; two that say the
\* same are one.
EmptyCard == [shown |-> NoRequest, draft |-> NoText, note |-> NoText,
              loading |-> FALSE, busy |-> FALSE, lists |-> {}, replies |-> {}]

QuoteInit ==
    /\ durable = FALSE
    /\ quoteFile = NoRows
    /\ quoteTable = NoRows
    /\ server = [p \in Servers |-> Resting(FALSE)]
    /\ card = EmptyCard
    /\ patches = 0

-------------------------------------------------------------------------------
NewRequest == [status |-> "requested", message |-> NoText, note |-> NoText,
               viewed |-> FALSE, responded |-> FALSE, closed |-> FALSE]

\* What parseUpdateQuoteRequestPayload lets through: a quote has a message.
Updates == {u \in [status : {"viewed", "quoted", "closed"}, message : Texts, note : Texts] :
               u.status = "quoted" => u.message # NoText}

Viewed(r) == [r EXCEPT !.viewed = TRUE,
                       !.status = IF @ \in {"quoted", "closed"} THEN @ ELSE "viewed"]

Quoted(r, u) == [r EXCEPT !.status = "quoted", !.viewed = TRUE, !.responded = TRUE,
                          !.message = u.message, !.note = u.note]

Closed(r, u) == [r EXCEPT !.status = "closed", !.closed = TRUE,
                          !.note = IF u.note = NoText THEN @ ELSE u.note]

\* Mutated form of BuildUpdated: a closed request can be answered.
BuildUpdatedOpen(r, u) ==
    CASE u.status = "viewed" -> Viewed(r)
      [] u.status = "quoted" -> Quoted(r, u)
      [] u.status = "closed" -> Closed(r, u)

\* Mutated form of BuildUpdated: looking at a quoted request unquotes it.
BuildUpdatedViewed(r, u) ==
    CASE r.status = "closed" /\ u.status # "closed" -> r
      [] u.status = "viewed" -> [r EXCEPT !.viewed = TRUE, !.status = "viewed"]
      [] u.status = "quoted" -> Quoted(r, u)
      [] u.status = "closed" -> Closed(r, u)

\* buildUpdatedRecord
BuildUpdated(r, u) ==
    CASE r.status = "closed" /\ u.status # "closed" -> r
      [] r.status # "closed" /\ u.status = "viewed" -> Viewed(r)
      [] r.status # "closed" /\ u.status = "quoted" -> Quoted(r, u)
      [] u.status = "closed" -> Closed(r, u)

-------------------------------------------------------------------------------
\* The file: each request to the route reads it all and writes it all.

Now(p, step) == server[p].step = step

FileRead(p) ==
    /\ ~durable
    /\ Now(p, "idle")
    /\ server' = [server EXCEPT ![p] = [step |-> "read", ready |-> FALSE,
                                        rows |-> quoteFile]]
    /\ UNCHANGED <<durable, quoteFile, quoteTable, card, patches>>

\* fs.writeFile empties the file before it fills it.
FileTruncate(p, rows) ==
    /\ Now(p, "read")
    /\ quoteFile' = NoRows
    /\ server' = [server EXCEPT ![p] = [@ EXCEPT !.step = "writing", !.rows = rows]]

FileCreate(p, q) ==
    /\ \A r \in Servers : server[r].step \in {"read", "writing"} =>
          server[r].rows[q] = NoRequest
    /\ quoteFile[q] = NoRequest
    /\ FileTruncate(p, [server[p].rows EXCEPT ![q] = NewRequest])
    /\ UNCHANGED <<durable, quoteTable, card, patches>>

FileUpdate(p, q, u) ==
    /\ patches < MaxPatches
    /\ Now(p, "read") /\ server[p].rows[q] # NoRequest
    /\ FileTruncate(p, [server[p].rows EXCEPT ![q] = BuildUpdated(@, u)])
    /\ patches' = patches + 1
    /\ UNCHANGED <<durable, quoteTable, card>>

FileWrite(p) ==
    /\ Now(p, "writing")
    /\ quoteFile' = server[p].rows
    /\ server' = [server EXCEPT ![p] = Resting(FALSE)]
    /\ UNCHANGED <<durable, quoteTable, card, patches>>

\* The application is restarted with a database: what was going on is lost.
ConfigureDatabase ==
    /\ ~durable
    /\ durable' = TRUE
    /\ server' = [p \in Servers |-> Resting(FALSE)]
    /\ card' = EmptyCard
    /\ UNCHANGED <<quoteFile, quoteTable, patches>>

-------------------------------------------------------------------------------
\* ensureDatabaseStoreReady: once a process, before its first statement.

ImportCount(p) ==
    /\ durable
    /\ Now(p, "idle") /\ ~server[p].ready
    /\ server' = [server EXCEPT ![p] =
                    IF quoteTable # NoRows THEN Resting(TRUE)
                    ELSE [step |-> "empty", ready |-> FALSE]]
    /\ UNCHANGED <<durable, quoteFile, quoteTable, card, patches>>

ImportRead(p) ==
    /\ Now(p, "empty")
    /\ server' = [server EXCEPT ![p] =
                    IF quoteFile = NoRows THEN Resting(TRUE)
                    ELSE [step |-> "importing", ready |-> FALSE, rows |-> quoteFile]]
    /\ UNCHANGED <<durable, quoteFile, quoteTable, card, patches>>

\* Mutated form of Merged: ON CONFLICT the row is replaced.
MergedOver(table, rows) ==
    [q \in QuoteIds |-> IF rows[q] = NoRequest THEN table[q] ELSE rows[q]]

\* ON CONFLICT (request_id) DO NOTHING
Merged(table, rows) ==
    [q \in QuoteIds |-> IF table[q] = NoRequest THEN rows[q] ELSE table[q]]

ImportInsert(p) ==
    /\ Now(p, "importing")
    /\ quoteTable' = Merged(quoteTable, server[p].rows)
    /\ server' = [server EXCEPT ![p] = Resting(TRUE)]
    /\ UNCHANGED <<durable, quoteFile, card, patches>>

\* A list is answered from what was read, an update finds nothing, a statement
\* fails, or the process is restarted: the next request starts anew.
ServerFails(p) ==
    /\ server[p] # Resting(FALSE)
    /\ server' = [server EXCEPT ![p] = Resting(FALSE)]
    /\ UNCHANGED <<durable, quoteFile, quoteTable, card, patches>>

-------------------------------------------------------------------------------
\* The table

\* Mutated form of Serving: nobody waits for the store to be ready.
ServingAtOnce(p) == durable /\ server[p].step \in {"idle", "empty", "importing"}

Serving(p) == durable /\ Now(p, "idle") /\ server[p].ready

\* POST: the id is fresh, in the file as in the table.
QuoteCreate(p, q) ==
    /\ Serving(p)
    /\ quoteTable[q] = NoRequest /\ quoteFile[q] = NoRequest
    /\ quoteTable' = [quoteTable EXCEPT ![q] = NewRequest]
    /\ UNCHANGED <<durable, quoteFile, server, card, patches>>

\* BEGIN, SELECT ... FOR UPDATE, UPDATE, COMMIT
QuoteUpdated(p, q, u) ==
    /\ Serving(p)
    /\ quoteTable[q] # NoRequest
    /\ quoteTable' = [quoteTable EXCEPT ![q] = BuildUpdated(@, u)]
    /\ patches < MaxPatches
    /\ patches' = patches + 1
    /\ UNCHANGED <<durable, quoteFile, server>>

\* PATCH by another operator.
QuoteUpdate(p, q, u) == QuoteUpdated(p, q, u) /\ UNCHANGED card

-------------------------------------------------------------------------------
\* The queue page

\* The agent filter may leave the card's request out.
Listed == {quoteTable[CardId], NoRequest}

\* The list is read now and reaches the page later.  While one is loading the
\* filter can be changed, and asks for another.
LoadQueue(p, row) ==
    /\ Serving(p)
    /\ Cardinality(card.lists) < MaxLists
    /\ card' = [card EXCEPT !.loading = TRUE, !.lists = @ \union {row}]
    /\ UNCHANGED <<durable, quoteFile, quoteTable, server, patches>>

\* The drafts of a row are what the row has.
Drafted(r) == [card EXCEPT !.draft = IF r = NoRequest THEN NoText ELSE r.message,
                           !.note = IF r = NoRequest THEN NoText ELSE r.note]

QueueLoaded(row) ==
    /\ row \in card.lists
    /\ card' = [Drafted(row) EXCEPT !.shown = row, !.loading = FALSE,
                                    !.lists = @ \ {row}]
    /\ UNCHANGED <<durable, quoteFile, quoteTable, server, patches>>

\* An error clears the rows.
QueueFails(row) ==
    /\ row \in card.lists
    /\ card' = [card EXCEPT !.shown = NoRequest, !.loading = FALSE, !.lists = @ \ {row}]
    /\ UNCHANGED <<durable, quoteFile, quoteTable, server, patches>>

EditDraft(message, note) ==
    /\ card.shown # NoRequest /\ ~card.loading
    /\ card' = [card EXCEPT !.draft = message, !.note = note]
    /\ UNCHANGED <<durable, quoteFile, quoteTable, server, patches>>

\* Which buttons the card offers.
Offered(status) ==
    /\ card.shown # NoRequest /\ ~card.loading /\ ~card.busy
    /\ CASE status = "viewed" -> card.shown.status = "requested"
         [] status = "quoted" -> card.draft # NoText /\ card.shown.status # "closed"
         [] status = "closed" -> card.shown.status # "closed"

\* The page sends status and drafts, whatever became of the request since.
PageUpdate(p, status) ==
    LET u == [status |-> status, message |-> card.draft, note |-> card.note] IN
    /\ Offered(status)
    /\ QuoteUpdated(p, CardId, u)
    /\ card' = [card EXCEPT !.busy = TRUE,
                            !.replies = @ \union {BuildUpdated(quoteTable[CardId], u)}]

\* The page knows one busy card: the buttons of another one take the mark.
OtherCardUsed ==
    /\ card.busy
    /\ card' = [card EXCEPT !.busy = FALSE]
    /\ UNCHANGED <<durable, quoteFile, quoteTable, server, patches>>

\* A reply replaces the row if the list still has it.
PageUpdated(row) ==
    /\ row \in card.replies
    /\ card' = [Drafted(row) EXCEPT !.shown = IF @ = NoRequest THEN @ ELSE row,
                                    !.busy = FALSE, !.replies = @ \ {row}]
    /\ UNCHANGED <<durable, quoteFile, quoteTable, server, patches>>

PageUpdateFails(row) ==
    /\ row \in card.replies
    /\ card' = [card EXCEPT !.busy = FALSE, !.replies = @ \ {row}]
    /\ UNCHANGED <<durable, quoteFile, quoteTable, server, patches>>

-------------------------------------------------------------------------------
QuoteStep ==
    \/ ConfigureDatabase
    \/ \E p \in Servers :
          \/ FileRead(p)
          \/ FileWrite(p)
          \/ ImportCount(p)
          \/ ImportRead(p)
          \/ ImportInsert(p)
          \/ ServerFails(p)
          \/ \E row \in Listed : LoadQueue(p, row)
          \/ \E q \in QuoteIds :
                \/ FileCreate(p, q)
                \/ QuoteCreate(p, q)
                \/ \E u \in Updates : FileUpdate(p, q, u) \/ QuoteUpdate(p, q, u)
          \/ \E status \in {"viewed", "quoted", "closed"} : PageUpdate(p, status)
    \/ \E message, note \in Texts : EditDraft(message, note)
    \/ \E row \in card.lists : QueueLoaded(row) \/ QueueFails(row)
    \/ OtherCardUsed
    \/ \E row \in card.replies : PageUpdated(row) \/ PageUpdateFails(row)

-------------------------------------------------------------------------------
\* The status of a request, its quote and its dates tell one story, in the
\* file, in the table and on the page, whatever order the operators' updates,
\* the import and the late answers come in: a request that was answered is
\* never marked unanswered, and a quote always says something.
QuotesTellOneStory ==
    \A r \in {quoteFile[q] : q \in QuoteIds} \union {quoteTable[q] : q \in QuoteIds}
                \union {card.shown} :
        r # NoRequest =>
            /\ r.responded <=> r.message # NoText
            /\ r.responded => r.viewed /\ r.status \in {"quoted", "closed"}
            /\ r.closed <=> r.status = "closed"
            /\ r.viewed => r.status # "requested"

\* Once closed, always closed, and the quote a buyer was given before stays as
\* it was: an operator with an old page, a second server's import of the file
\* and an update that waited for the row change neither.  (updateQuoteRequest)
ClosedStaysClosed ==
    [][\A q \in QuoteIds : quoteTable[q].status = "closed" =>
          /\ quoteTable'[q].status = "closed"
          /\ quoteTable'[q].message = quoteTable[q].message]_quoteTable

\* The move to the database leaves nothing behind: the count that tells a
\* later process that there is nothing to import can be trusted, since no
\* process writes a row before its own import is done.  (ensureDatabaseStoreReady)
NothingLeftBehind ==
    durable /\ quoteTable # NoRows =>
        \A q \in QuoteIds : quoteFile[q] # NoRequest => quoteTable[q] # NoRequest

\* Every quote request is in one piece, and none is lost on the way to the
\* database.
QuotesAreWhole == QuotesTellOneStory /\ NothingLeftBehind
===============================================================================
