------------------------------ MODULE SupportDesk ------------------------------
(***************************************************************************)
(* Support: the chat of a tab with its copy in the browser's storage, what *)
(* becomes of a rated answer on the server, and the support admin's page.  *)
(*                                                                         *)
(* The tab may be reloaded while an answer is on its way.  The server      *)
(* keeps feedback and custom answers in two files that every post reads    *)
(* whole, adds to and writes whole, without a lock.                        *)
(*                                                                         *)
(* A question is known by its number; a message is of what it is about.    *)
(***************************************************************************)
EXTENDS Naturals, Sequences

CONSTANTS
    ChatMemory,     \* messages of a history that the route hands on: 10
    Writers,        \* posts that may be under way at the same time
    MaxQuestions, MaxPosts      \* bounds

ASSUME SupportAssumption ==
    ChatMemory \in Nat \ {0} /\ MaxQuestions \in Nat /\ MaxPosts \in Nat

VARIABLES
    chat,       \* SupportChat in its tab
    keptChat,   \* what localStorage and sessionStorage have of it
    questions,  \* how many were asked
    requests,   \* the calls of sendMessage that are under way
    writers,    \* posts to the feedback and the admin route
    posted,     \* how many there were
    files,      \* feedback.json and custom-qa.json
    desk        \* the feedback the support admin's page has loaded

supportVars == <<chat, keptChat, questions, requests, writers, posted, files, desk>>
serverVars == <<writers, posted, files, desk>>

NoQuestion == 0
ChatMessage(role, q) == [role |-> role, about |-> q, rated |-> FALSE]
GreetingMessage == ChatMessage("assistant", NoQuestion)

ChatMounted == [open |-> FALSE, ready |-> FALSE, typing |-> FALSE, messages |-> <<>>]
NotPosting == [at |-> "none"]

\* A file that is missing, empty or cut short reads as no entries.
Torn == <<>>

SupportInit ==
    /\ chat = ChatMounted
    /\ keptChat = [open |-> FALSE, messages |-> <<>>]
    /\ questions = 0
    /\ requests = {}
    /\ writers = [w \in Writers |-> NotPosting]
    /\ posted = 0
    /\ files = [f \in {"feedback", "custom"} |-> Torn]
    /\ desk = <<>>

-------------------------------------------------------------------------------
\* SupportChat

\* The effects that persist run after every change.
ChatIs(c) ==
    /\ chat' = c
    /\ keptChat' = [open |-> c.open,
                    messages |-> IF c.messages = <<>> THEN keptChat.messages
                                 ELSE c.messages]

\* The frame after a mount, before which nobody has clicked or typed.
LoadPersisted ==
    /\ ~chat.ready
    /\ ChatIs([ready |-> TRUE, typing |-> FALSE, open |-> keptChat.open,
               messages |-> IF keptChat.messages = <<>> /\ keptChat.open
                            THEN <<GreetingMessage>> ELSE keptChat.messages])
    /\ UNCHANGED <<questions, requests, serverVars>>

OpenChat ==
    /\ chat.ready /\ ~chat.open
    /\ ChatIs([chat EXCEPT !.open = TRUE,
                           !.messages = IF @ = <<>> THEN <<GreetingMessage>> ELSE @])
    /\ UNCHANGED <<questions, requests, serverVars>>

\* An answer that is on its way still comes.
CloseChat ==
    /\ chat.open
    /\ ChatIs([chat EXCEPT !.open = FALSE])
    /\ UNCHANGED <<questions, requests, serverVars>>

\* All but the greeting, which is only ever the first message.
Spoken(messages) ==
    LET greeted == IF messages # <<>> /\ messages[1].about = NoQuestion THEN 1 ELSE 0
    IN  [i \in 1 .. Len(messages) - greeted |->
           [role |-> messages[i + greeted].role, about |-> messages[i + greeted].about]]

\* Mutated form of Recent: the first messages.
RecentFirst(history) ==
    IF Len(history) <= ChatMemory THEN history ELSE SubSeq(history, 1, ChatMemory)

\* What the route hands on of it to the model.
Recent(history) ==
    IF Len(history) <= ChatMemory THEN history
    ELSE SubSeq(history, Len(history) - ChatMemory + 1, Len(history))

SendMessage ==
    /\ chat.open /\ ~chat.typing
    /\ questions < MaxQuestions                    \* bound
    /\ questions' = questions + 1
    /\ ChatIs([chat EXCEPT !.typing = TRUE,
                           !.messages = Append(@, ChatMessage("user", questions + 1))])
    /\ requests' = requests \union
          {[about |-> questions + 1, handed |-> Recent(Spoken(chat.messages))]}
    /\ UNCHANGED serverVars

\* The answer, the route's error, or the apology when there is neither.
AnswerShown(r) ==
    /\ ChatIs([chat EXCEPT !.typing = FALSE,
                           !.messages = Append(@, ChatMessage("assistant", r.about))])
    /\ requests' = requests \ {r}
    /\ UNCHANGED <<questions, serverVars>>

\* Nobody waits for an answer any more.
ReloadTab ==
    /\ chat # ChatMounted
    /\ chat' = ChatMounted
    /\ requests' = {}
    /\ UNCHANGED <<keptChat, questions, serverVars>>

-------------------------------------------------------------------------------
\* The routes that write

Post(file, entry) ==
    /\ posted < MaxPosts                           \* bound
    /\ posted' = posted + 1
    /\ \E w \in Writers :
          /\ writers[w].at = "none"
          /\ writers' = [writers EXCEPT ![w] =
                [at |-> "posted", file |-> file, entry |-> entry, entries |-> Torn]]

\* The last question before a message.
QuestionBefore(messages, n) ==
    LET users == {i \in 1 .. n - 1 : messages[i].role = "user"}
    IN  IF users = {} THEN NoQuestion
        ELSE messages[CHOOSE i \in users : \A j \in users : j <= i].about

\* Mutated form of CanRate: also what was rated before.
CanRateAgain(n) ==
    chat.open /\ chat.messages[n].role = "assistant" /\ chat.messages[n].about # NoQuestion

CanRate(n) ==
    /\ chat.open
    /\ chat.messages[n].role = "assistant" /\ chat.messages[n].about # NoQuestion
    /\ ~chat.messages[n].rated

\* The answer is marked before the post, whatever becomes of that.
SendFeedback(n, helpful) ==
    /\ CanRate(n)
    /\ ChatIs([chat EXCEPT !.messages[n].rated = TRUE])
    /\ Post("feedback", [question |-> QuestionBefore(chat.messages, n),
                         answer |-> chat.messages[n].about, helpful |-> helpful])
    /\ UNCHANGED <<questions, requests, files, desk>>

\* The admin's page says it was added, whatever the route answers; nothing
\* looks for an answer among the custom ones.
AddQA ==
    /\ Post("custom", [question |-> NoQuestion, answer |-> NoQuestion, helpful |-> TRUE])
    /\ UNCHANGED <<chat, keptChat, questions, requests, files, desk>>

PostReads(w) ==
    /\ writers[w].at = "posted"
    /\ writers' = [writers EXCEPT ![w].at = "read",
                                  ![w].entries = files[writers[w].file]]
    /\ UNCHANGED <<chat, keptChat, questions, requests, posted, files, desk>>

\* fs.writeFile empties the file before it writes.
PostOpens(w) ==
    /\ writers[w].at = "read"
    /\ writers' = [writers EXCEPT ![w].at = "opened"]
    /\ files' = [files EXCEPT ![writers[w].file] = Torn]
    /\ UNCHANGED <<chat, keptChat, questions, requests, posted, desk>>

PostEnds(w, content) ==
    /\ files' = [files EXCEPT ![writers[w].file] = content]
    /\ writers' = [writers EXCEPT ![w] = NotPosting]
    /\ UNCHANGED <<chat, keptChat, questions, requests, posted, desk>>

PostWrites(w) ==
    /\ writers[w].at = "opened"
    /\ PostEnds(w, Append(writers[w].entries, writers[w].entry))

\* Cut short by a crash or a full disk, or mixed with another write.
PostTears(w) ==
    /\ writers[w].at = "opened"
    /\ PostEnds(w, Torn)

\* It does not arrive, or the server stops before it opens the file.
PostFails(w) ==
    /\ writers[w].at \in {"posted", "read"}
    /\ writers' = [writers EXCEPT ![w] = NotPosting]
    /\ UNCHANGED <<chat, keptChat, questions, requests, posted, files, desk>>

LoadFeedback ==
    /\ desk' = files["feedback"]
    /\ UNCHANGED <<chat, keptChat, questions, requests, writers, posted, files>>

-------------------------------------------------------------------------------
SupportStep ==
    \/ LoadPersisted \/ OpenChat \/ CloseChat \/ SendMessage \/ ReloadTab
    \/ \E r \in requests : AnswerShown(r)
    \/ \E n \in DOMAIN chat.messages, helpful \in BOOLEAN : SendFeedback(n, helpful)
    \/ AddQA \/ LoadFeedback
    \/ \E w \in Writers :
          PostReads(w) \/ PostOpens(w) \/ PostWrites(w) \/ PostTears(w) \/ PostFails(w)

-------------------------------------------------------------------------------
\* An answer stands right after the question it answers, and a question the
\* chat waits for is the last message: what the model is handed leads to it.
AnswersFollow ==
    /\ \A n \in DOMAIN chat.messages :
          LET m == chat.messages[n]
          IN  m.role = "assistant" /\ m.about # NoQuestion =>
                n > 1 /\ chat.messages[n - 1].role = "user"
                      /\ chat.messages[n - 1].about = m.about
    /\ \A r \in requests :
          LET spoken == Spoken(chat.messages)
              handed == Append(r.handed, [role |-> "user", about |-> r.about])
              before == Len(spoken) - Len(handed)
          IN  before >= 0 /\ \A i \in DOMAIN handed : handed[i] = spoken[before + i]

\* A reload brings back the conversation as it was.
NothingForgotten == chat.messages # <<>> => keptChat.messages = chat.messages

TrueEntries(entries) ==
    /\ \A i \in DOMAIN entries : entries[i].question = entries[i].answer
    /\ \A i, j \in DOMAIN entries : entries[i].answer = entries[j].answer => i = j

\* Feedback is about an answer with the question that was answered, and no
\* answer is rated twice.
FeedbackIsTrue == TrueEntries(files["feedback"]) /\ TrueEntries(desk)

\* What the chat and the support admin's page show of a conversation is how
\* it went.
ConversationsAreTrue == AnswersFollow /\ NothingForgotten /\ FeedbackIsTrue
===============================================================================
