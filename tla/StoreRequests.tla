----------------------------- MODULE StoreRequests -----------------------------
(***************************************************************************)
(* What stands before every handler of the lifecycle API: a box is         *)
(* enrolled with a one-time code, each request it signs is taken once (the *)
(* nonce), and each idempotency key is answered once.  None of it runs in  *)
(* a transaction: a handler takes one step per statement and may be        *)
(* stopped after any of them.                                              *)
(*                                                                         *)
(* The network delivers a signed message any number of times, and a box    *)
(* that got no answer signs a new one with the same idempotency key.  A    *)
(* message older than 300 seconds, badly signed or not JSON is refused     *)
(* before anything is written and is left out.                             *)
(***************************************************************************)
EXTENDS Naturals, Sequences

CONSTANTS
    Handlers,   \* requests in flight
    Codes,      \* enrolment codes; the box enrolled with one bears its name
    Nonces,
    IdemKeys,
    Bodies,     \* hashes of request bodies
    NoIdemKey,  \* a GET carries no key
    MaxRuns     \* bound: effects of handlers in a behaviour

VARIABLES
    codes,      \* company_os_enrolment_codes
    keyRows,    \* company_os_instance_keys, rows by the code that opened them
    nonces,     \* company_os_request_nonces
    idem,       \* company_os_idempotency, one tenant and one operation
    handler,    \* what each handler is about and has still to do
    effects,    \* observation: the messages whose work was done, in order
    answers     \* observation: the successful answers given

storeRequestVars == <<codes, keyRows, nonces, idem, handler, effects, answers>>

\* A box signs the method, path, body, nonce and key, all of them together.
SignedMessages == [box : Codes, nonce : Nonces,
                   key : IdemKeys \union {NoIdemKey}, body : Bodies]

NoIdemRow == [status |-> "none"]
AtRest == [step |-> "idle"]

StoreRequestsInit ==
    /\ codes = [c \in Codes |-> [issued |-> FALSE, expired |-> FALSE, used |-> FALSE]]
    /\ keyRows = [c \in Codes |-> 0]
    /\ nonces = {}
    /\ idem = [k \in IdemKeys |-> NoIdemRow]
    /\ handler = [h \in Handlers |-> AtRest]
    /\ effects = <<>>
    /\ answers = {}

At(h, step) == handler[h].step = step

Turns(h, step) == handler' = [handler EXCEPT ![h].step = step]

Ends(h) == handler' = [handler EXCEPT ![h] = AtRest]

enrolVars == <<codes, keyRows>>
takenVars == <<nonces, idem>>
seenVars == <<effects, answers>>

-------------------------------------------------------------------------------
\* Enrolment: issueEnrolmentCode and redeemEnrolmentCode

IssueCode(c) ==
    /\ ~codes[c].issued
    /\ codes' = [codes EXCEPT ![c].issued = TRUE]
    /\ UNCHANGED <<keyRows, takenVars, handler, seenVars>>

CodeExpires(c) ==
    /\ codes[c].issued
    /\ codes' = [codes EXCEPT ![c].expired = TRUE]
    /\ UNCHANGED <<keyRows, takenVars, handler, seenVars>>

\* An unknown, used or expired code gets one and the same refusal.
RedeemRead(h, c) ==
    /\ At(h, "idle")
    /\ codes[c] = [issued |-> TRUE, expired |-> FALSE, used |-> FALSE]
    /\ handler' = [handler EXCEPT ![h] = [step |-> "code read", code |-> c]]
    /\ UNCHANGED <<enrolVars, takenVars, seenVars>>

\* Mutated form of RedeemClaim: used_at was looked at already.
RedeemClaimRead(h) ==
    /\ At(h, "code read")
    /\ codes' = [codes EXCEPT ![handler[h].code].used = TRUE]
    /\ Turns(h, "claimed")
    /\ UNCHANGED <<keyRows, takenVars, seenVars>>

\* UPDATE ... WHERE used_at IS NULL: the loser of a race is refused.
RedeemClaim(h) ==
    /\ At(h, "code read")
    /\ codes' = [codes EXCEPT ![handler[h].code].used = TRUE]
    /\ IF codes[handler[h].code].used THEN Ends(h) ELSE Turns(h, "claimed")
    /\ UNCHANGED <<keyRows, takenVars, seenVars>>

RedeemInsert(h) ==
    /\ At(h, "claimed")
    /\ keyRows' = [keyRows EXCEPT ![handler[h].code] = @ + 1]
    /\ Ends(h)
    /\ UNCHANGED <<codes, takenVars, seenVars>>

-------------------------------------------------------------------------------
\* authenticatedJson

\* The key of the box is registered and the signature is its own.
Verified(m) == keyRows[m.box] > 0

Arrive(h, m) ==
    /\ At(h, "idle")
    /\ Verified(m)
    /\ handler' = [handler EXCEPT ![h] = [step |-> "verified", msg |-> m]]
    /\ UNCHANGED <<enrolVars, takenVars, seenVars>>

\* Mutated form of ClaimNonce: a message without a key is the only one that
\* must not be seen twice.
ClaimNonceOfReads(h) ==
    LET m == handler[h].msg IN
    /\ At(h, "verified")
    /\ nonces' = nonces \union {<<m.box, m.nonce>>}
    /\ IF m.key = NoIdemKey /\ <<m.box, m.nonce>> \in nonces
       THEN Ends(h)
       ELSE Turns(h, "fresh")
    /\ UNCHANGED <<enrolVars, idem, seenVars>>

\* INSERT ... ON CONFLICT DO NOTHING: a nonce seen before is a replay.
ClaimNonce(h) ==
    LET m == handler[h].msg IN
    /\ At(h, "verified")
    /\ nonces' = nonces \union {<<m.box, m.nonce>>}
    /\ IF <<m.box, m.nonce>> \in nonces THEN Ends(h) ELSE Turns(h, "fresh")
    /\ UNCHANGED <<enrolVars, idem, seenVars>>

\* A GET reads and answers.
AnswerRead(h) ==
    /\ At(h, "fresh")
    /\ handler[h].msg.key = NoIdemKey
    /\ Ends(h)
    /\ UNCHANGED <<enrolVars, takenVars, seenVars>>

-------------------------------------------------------------------------------
\* idempotent

Reserved(m) == [status |-> "processing", body |-> m.body, run |-> 0]

\* Mutated form of Reserve: ON CONFLICT a row in progress is taken over.
ReserveOver(h) ==
    LET m == handler[h].msg IN
    /\ At(h, "fresh")
    /\ m.key # NoIdemKey
    /\ IF idem[m.key].status = "completed"
       THEN Turns(h, "prior") /\ UNCHANGED idem
       ELSE Turns(h, "reserved") /\ idem' = [idem EXCEPT ![m.key] = Reserved(m)]
    /\ UNCHANGED <<enrolVars, nonces, seenVars>>

\* INSERT ... ON CONFLICT DO NOTHING
Reserve(h) ==
    LET m == handler[h].msg IN
    /\ At(h, "fresh")
    /\ m.key # NoIdemKey
    /\ IF idem[m.key] = NoIdemRow
       THEN Turns(h, "reserved") /\ idem' = [idem EXCEPT ![m.key] = Reserved(m)]
       ELSE Turns(h, "prior") /\ UNCHANGED idem
    /\ UNCHANGED <<enrolVars, nonces, seenVars>>

AnswerOf(m, run) == [key |-> m.key, body |-> m.body, run |-> run]

\* The SELECT after a conflict.  A row gone or of another body is a conflict,
\* one in progress is said to be so; only a completed one is answered.
ReadPrior(h) ==
    LET m == handler[h].msg
        row == idem[m.key]
    IN  /\ At(h, "prior")
        /\ answers' = IF row.status = "completed" /\ row.body = m.body
                      THEN answers \union {AnswerOf(m, row.run)}
                      ELSE answers
        /\ Ends(h)
        /\ UNCHANGED <<enrolVars, takenVars, effects>>

\* The handler's own work succeeds, or fails after some of it was done.
Run(h, step) ==
    /\ At(h, "reserved")
    /\ Len(effects) < MaxRuns
    /\ effects' = Append(effects, handler[h].msg)
    /\ handler' = [handler EXCEPT ![h] = [step |-> step, msg |-> @.msg,
                                          run |-> Len(effects) + 1]]
    /\ UNCHANGED <<enrolVars, takenVars, answers>>

\* The work is refused before it did anything, or the last UPDATE fails.
RunFails(h) ==
    /\ At(h, "reserved") \/ At(h, "ran")
    /\ Turns(h, "failed")
    /\ UNCHANGED <<enrolVars, takenVars, seenVars>>

Complete(h) ==
    LET m == handler[h].msg IN
    /\ At(h, "ran")
    /\ idem' = IF idem[m.key] = NoIdemRow THEN idem
               ELSE [idem EXCEPT ![m.key].status = "completed", ![m.key].run = handler[h].run]
    /\ answers' = answers \union {AnswerOf(m, handler[h].run)}
    /\ Ends(h)
    /\ UNCHANGED <<enrolVars, nonces, effects>>

\* DELETE ... WHERE status='processing': a retry runs the work again.
Release(h) ==
    LET k == handler[h].msg.key IN
    /\ At(h, "failed")
    /\ idem' = [idem EXCEPT ![k] = IF @.status = "processing" THEN NoIdemRow ELSE @]
    /\ Ends(h)
    /\ UNCHANGED <<enrolVars, nonces, seenVars>>

\* A statement that fails outside the try, or a function stopped anywhere.
HandlerStops(h) ==
    /\ ~At(h, "idle")
    /\ Ends(h)
    /\ UNCHANGED <<enrolVars, takenVars, seenVars>>

-------------------------------------------------------------------------------
StoreRequestStep ==
    \/ \E c \in Codes : IssueCode(c) \/ CodeExpires(c)
    \/ \E h \in Handlers :
          \/ \E c \in Codes : RedeemRead(h, c)
          \/ RedeemClaim(h)
          \/ RedeemInsert(h)
          \/ \E m \in SignedMessages : Arrive(h, m)
          \/ ClaimNonce(h)
          \/ AnswerRead(h)
          \/ Reserve(h)
          \/ ReadPrior(h)
          \/ Run(h, "ran")
          \/ Run(h, "failed")
          \/ RunFails(h)
          \/ Complete(h)
          \/ Release(h)
          \/ HandlerStops(h)

-------------------------------------------------------------------------------
\* What a box is told about a key is final: every success names the same run
\* of the same body, and nothing is done under the key after it, however the
\* retries overlap, fail and are stopped.  (idempotent)
AnswersAreFinal ==
    \A a, b \in answers :
        a.key = b.key =>
            /\ a = b
            /\ effects[a.run].body = a.body
            /\ \A n \in DOMAIN effects : effects[n].key = a.key => n <= a.run

\* A signed message does its work once at most: neither a message delivered
\* again nor one retried by a proxy while the first copy failed and gave its
\* key back repeats it; a box has to sign a new one.  (authenticatedJson)
MessageRunsOnce ==
    \A n, k \in DOMAIN effects :
        /\ effects[n].box = effects[k].box
        /\ effects[n].nonce = effects[k].nonce
        => n = k

\* A code opens one box at most: of two appliances that redeem it at once one
\* is refused, and no key is registered from a code that can be used again.
\* (redeemEnrolmentCode)
CodeOpensOneBox ==
    \A c \in Codes : keyRows[c] <= 1 /\ (keyRows[c] = 1 => codes[c].used)

\* What a request does it does once, whatever is delivered again, retried or
\* redeemed by two.
RequestsActOnce == MessageRunsOnce /\ CodeOpensOneBox
===============================================================================
