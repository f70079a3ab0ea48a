--------------------------- MODULE Services_proofs ----------------------------
(***************************************************************************)
(* Proofs about the web application's services, each of which keeps its    *)
(* state to itself: the specification of one is its initial states and its *)
(* steps, for any handlers, codes, keys, quotes, servers, deployments,     *)
(* amounts, versions and tags.                                             *)
(***************************************************************************)
EXTENDS StoreRequests, QuoteRequests, StoreMigrations, StoreOffers,
        EscrowClient, AgentRegistration, SupportDesk, RateLimits,
        FiniteSetTheorems, SequenceTheorems,
        WellFoundedInduction, TLAPS

-------------------------------------------------------------------------------
(***************************************************************************)
(* What stands before every handler of the lifecycle API.                  *)
(***************************************************************************)

StoreRequestsSpec == StoreRequestsInit /\ [][StoreRequestStep]_storeRequestVars

CodeRows == [issued : BOOLEAN, expired : BOOLEAN, used : BOOLEAN]
IdemRows == [status : {"processing", "completed"}, body : Bodies, run : Nat]
Answers == [key : IdemKeys, body : Bodies, run : Nat]

\* What a handler holds, by the step it is at; one that fails may have run.
Redeeming == [step : {"code read", "claimed"}, code : Codes]
Handling == [step : {"verified", "fresh", "prior", "reserved", "failed"},
            msg : SignedMessages]
Handled == [step : {"ran", "failed"}, msg : SignedMessages, run : Nat]
HandlerStates == {AtRest} \union Redeeming \union Handling \union Handled

RequestTypes ==
    /\ codes \in [Codes -> CodeRows]
    /\ keyRows \in [Codes -> Nat]
    /\ nonces \in SUBSET (Codes \X Nonces)
    /\ idem \in [IdemKeys -> {NoIdemRow} \union IdemRows]
    /\ handler \in [Handlers -> HandlerStates]
    /\ effects \in Seq(SignedMessages)
    /\ answers \in SUBSET Answers

\* A message that got as far as the idempotency key has one.
Keyed(h) == handler[h].step \in {"prior", "reserved", "ran", "failed"}
KeysHeld == \A h \in Handlers : Keyed(h) => handler[h].msg.key \in IdemKeys

\* The claim of a code is one handler's, and its row is the only one.
CodeInv ==
    /\ \A c \in Codes : keyRows[c] <= 1 /\ (keyRows[c] = 1 => codes[c].used)
    /\ \A h \in Handlers :
          At(h, "claimed") => codes[handler[h].code].used /\ keyRows[handler[h].code] = 0
    /\ \A h, g \in Handlers :
          At(h, "claimed") /\ At(g, "claimed") /\ handler[h].code = handler[g].code
          => h = g

Stamp(m) == <<m.box, m.nonce>>
Taken(h) == handler[h].step \in {"fresh", "prior", "reserved", "ran", "failed"}
YetToRun(h) == handler[h].step \in {"fresh", "prior", "reserved"}

\* A nonce is one handler's, which runs once.
NonceInv ==
    /\ \A h \in Handlers : Taken(h) => Stamp(handler[h].msg) \in nonces
    /\ \A h, g \in Handlers :
          Taken(h) /\ Taken(g) /\ Stamp(handler[h].msg) = Stamp(handler[g].msg) => h = g
    /\ \A n \in DOMAIN effects : Stamp(effects[n]) \in nonces
    /\ \A h \in Handlers, n \in DOMAIN effects :
          YetToRun(h) => Stamp(effects[n]) # Stamp(handler[h].msg)
    /\ \A n, k \in DOMAIN effects : Stamp(effects[n]) = Stamp(effects[k]) => n = k

Owns(h) == handler[h].step \in {"reserved", "ran", "failed"}

LastUnder(log, key, run) ==
    /\ run \in DOMAIN log
    /\ \A n \in DOMAIN log : log[n].key = key => n <= run

\* A row in progress is one handler's at most; a completed one stays, names
\* the last work done under its key, and is what every answer said.
KeyInv ==
    /\ \A h \in Handlers : Owns(h) =>
          /\ idem[handler[h].msg.key].status = "processing"
          /\ idem[handler[h].msg.key].body = handler[h].msg.body
    /\ \A h, g \in Handlers :
          Owns(h) /\ Owns(g) /\ handler[h].msg.key = handler[g].msg.key => h = g
    /\ \A h \in Handlers : At(h, "ran") =>
          /\ LastUnder(effects, handler[h].msg.key, handler[h].run)
          /\ effects[handler[h].run] = handler[h].msg
    /\ \A k \in IdemKeys : idem[k].status = "completed" =>
          /\ LastUnder(effects, k, idem[k].run)
          /\ effects[idem[k].run].body = idem[k].body
    /\ \A a \in answers :
          /\ idem[a.key].status = "completed"
          /\ idem[a.key].body = a.body
          /\ idem[a.key].run = a.run

RequestInv == RequestTypes /\ KeysHeld /\ CodeInv /\ NonceInv /\ KeyInv

LEMMA RequestStart == StoreRequestsInit => RequestInv
  BY DEF StoreRequestsInit, RequestInv, RequestTypes, KeysHeld, CodeInv, NonceInv, KeyInv,
         CodeRows, Keyed, NoIdemRow, AtRest, HandlerStates, At, Taken, YetToRun, Owns

\* A handler that moves to another step still holds what it held.
LEMMA StepTurned ==
  ASSUME NEW r \in HandlerStates, NEW s
  PROVE  LET new == [r EXCEPT !.step = s] IN
         /\ new.step = s
         /\ r \in Redeeming => r.code \in Codes /\ new.code = r.code
         /\ r \in Handling \union Handled => r.msg \in SignedMessages /\ new.msg = r.msg
         /\ r \in Handled => r.run \in Nat /\ new.run = r.run
         /\ r \in Redeeming /\ s = "claimed" => new \in HandlerStates
         /\ r \in Handling /\ s \in {"fresh", "prior", "reserved", "failed"} => new \in HandlerStates
         /\ r \in Handled /\ s = "failed" => new \in HandlerStates
<1> DEFINE new == [r EXCEPT !.step = s]
<1>1. CASE r = AtRest
  BY <1>1 DEF AtRest, Redeeming, Handling, Handled
<1>2. CASE r \in Redeeming
  BY <1>2 DEF HandlerStates, Redeeming, Handling, Handled
<1>3. CASE r \in Handling
  BY <1>3 DEF HandlerStates, Redeeming, Handling, Handled
<1>4. CASE r \in Handled
  BY <1>4 DEF HandlerStates, Redeeming, Handling, Handled
<1> QED
  BY <1>1, <1>2, <1>3, <1>4 DEF HandlerStates

\* By its step a handler redeems a code or handles a message.
LEMMA StepTells ==
  ASSUME NEW r \in HandlerStates
  PROVE  /\ r.step \in {"code read", "claimed"} => r \in Redeeming
         /\ r.step \in {"verified", "fresh", "prior", "reserved"} => r \in Handling
         /\ r.step = "ran" => r \in Handled
         /\ r.step = "failed" => r \in Handling \union Handled
<1>1. CASE r = AtRest
  BY <1>1 DEF AtRest
<1>2. CASE r \in Redeeming
  BY <1>2 DEF Redeeming
<1>3. CASE r \in Handling
  BY <1>3 DEF Handling
<1>4. CASE r \in Handled
  BY <1>4 DEF Handled
<1> QED
  BY <1>1, <1>2, <1>3, <1>4 DEF HandlerStates

LEMMA RequestTypesKept == RequestTypes /\ KeysHeld /\ StoreRequestStep => RequestTypes'
<1> SUFFICES ASSUME RequestTypes, KeysHeld, StoreRequestStep
             PROVE  RequestTypes'
  OBVIOUS
<1> USE DEF RequestTypes
<1>R. AtRest \in HandlerStates
  BY DEF HandlerStates
<1>1. ASSUME NEW c \in Codes, IssueCode(c) \/ CodeExpires(c)
      PROVE  RequestTypes'
  <2>1. codes' \in [Codes -> CodeRows]
    <3> PICK r \in CodeRows : r = codes[c]
      OBVIOUS
    <3>1. codes' = [codes EXCEPT ![c] = [r EXCEPT !.issued = TRUE]]
             \/ codes' = [codes EXCEPT ![c] = [r EXCEPT !.expired = TRUE]]
      BY <1>1 DEF IssueCode, CodeExpires
    <3>2. [r EXCEPT !.issued = TRUE] \in CodeRows /\ [r EXCEPT !.expired = TRUE] \in CodeRows
      BY DEF CodeRows
    <3> QED
      BY <3>1, <3>2
  <2> QED
    BY <1>1, <2>1 DEF IssueCode, CodeExpires, takenVars, seenVars
<1>2. ASSUME NEW h \in Handlers, NEW c \in Codes, RedeemRead(h, c)
      PROVE  RequestTypes'
  <2>1. [step |-> "code read", code |-> c] \in HandlerStates
    BY DEF HandlerStates, Redeeming
  <2> QED
    BY <1>2, <2>1 DEF RedeemRead, enrolVars, takenVars, seenVars
<1>3. ASSUME NEW h \in Handlers, RedeemClaim(h)
      PROVE  RequestTypes'
  <2>1. handler[h] \in Redeeming
    BY <1>3, StepTells DEF RedeemClaim, At
  <2> PICK c \in Codes : c = handler[h].code
    BY <2>1, StepTurned
  <2>2. [handler[h] EXCEPT !.step = "claimed"] \in HandlerStates
    BY <2>1, StepTurned
  <2>3. handler' \in [Handlers -> HandlerStates]
    BY <1>3, <1>R, <2>2 DEF RedeemClaim, Ends, Turns
  <2>4. codes' \in [Codes -> CodeRows]
    <3> PICK r \in CodeRows : r = codes[c]
      OBVIOUS
    <3>1. [r EXCEPT !.used = TRUE] \in CodeRows
      BY DEF CodeRows
    <3> QED
      BY <1>3, <3>1 DEF RedeemClaim
  <2> QED
    BY <1>3, <2>3, <2>4 DEF RedeemClaim, takenVars, seenVars
<1>4. ASSUME NEW h \in Handlers, RedeemInsert(h)
      PROVE  RequestTypes'
  <2>1. handler[h] \in Redeeming
    BY <1>4, StepTells DEF RedeemInsert, At
  <2> PICK c \in Codes : c = handler[h].code
    BY <2>1, StepTurned
  <2> QED
    BY <1>4, <1>R DEF RedeemInsert, Ends, takenVars, seenVars
<1>5. ASSUME NEW h \in Handlers, NEW m \in SignedMessages, Arrive(h, m)
      PROVE  RequestTypes'
  <2>1. [step |-> "verified", msg |-> m] \in HandlerStates
    BY DEF HandlerStates, Handling
  <2> QED
    BY <1>5, <2>1 DEF Arrive, enrolVars, takenVars, seenVars
<1>6. ASSUME NEW h \in Handlers, ClaimNonce(h)
      PROVE  RequestTypes'
  <2>1. handler[h] \in Handling
    BY <1>6, StepTells DEF ClaimNonce, At
  <2> PICK m \in SignedMessages : m = handler[h].msg
    BY <2>1, StepTurned
  <2>2. [handler[h] EXCEPT !.step = "fresh"] \in HandlerStates
    BY <2>1, StepTurned
  <2>3. <<m.box, m.nonce>> \in Codes \X Nonces
    BY DEF SignedMessages
  <2>4. nonces' = nonces \union {<<m.box, m.nonce>>}
    BY <1>6 DEF ClaimNonce
  <2>5. handler' \in [Handlers -> HandlerStates]
    BY <1>6, <1>R, <2>2 DEF ClaimNonce, Ends, Turns
  <2> QED
    BY <1>6, <2>3, <2>4, <2>5 DEF ClaimNonce, enrolVars, seenVars
<1>7. ASSUME NEW h \in Handlers, AnswerRead(h) \/ HandlerStops(h)
      PROVE  RequestTypes'
  BY <1>7, <1>R DEF AnswerRead, HandlerStops, Ends, enrolVars, takenVars, seenVars
<1>8. ASSUME NEW h \in Handlers, Reserve(h)
      PROVE  RequestTypes'
  <2>1. handler[h] \in Handling
    BY <1>8, StepTells DEF Reserve, At
  <2> PICK m \in SignedMessages : m = handler[h].msg
    BY <2>1, StepTurned
  <2>2. m.key \in IdemKeys /\ m.body \in Bodies
    BY <1>8 DEF Reserve, SignedMessages
  <2>3. Reserved(m) \in IdemRows
    BY <2>2 DEF Reserved, IdemRows
  <2>4. /\ [handler[h] EXCEPT !.step = "reserved"] \in HandlerStates
        /\ [handler[h] EXCEPT !.step = "prior"] \in HandlerStates
    BY <2>1, StepTurned
  <2>5. handler' \in [Handlers -> HandlerStates]
    BY <1>8, <2>4 DEF Reserve, Turns
  <2>6. idem' = idem \/ idem' = [idem EXCEPT ![m.key] = Reserved(m)]
    BY <1>8 DEF Reserve
  <2>7. idem' \in [IdemKeys -> {NoIdemRow} \union IdemRows]
    BY <2>2, <2>3, <2>6
  <2> QED
    BY <1>8, <2>5, <2>7 DEF Reserve, enrolVars, seenVars
<1>9. ASSUME NEW h \in Handlers, ReadPrior(h)
      PROVE  RequestTypes'
  <2>1. handler[h] \in Handling
    BY <1>9, StepTells DEF ReadPrior, At
  <2> PICK m \in SignedMessages : m = handler[h].msg
    BY <2>1, StepTurned
  <2>2. m.key \in IdemKeys /\ m.body \in Bodies
    BY <1>9 DEF ReadPrior, KeysHeld, Keyed, At, SignedMessages
  <2>3. idem[m.key].status = "completed" => idem[m.key].run \in Nat
    BY <2>2 DEF IdemRows, NoIdemRow
  <2>4. idem[m.key].status = "completed" => AnswerOf(m, idem[m.key].run) \in Answers
    BY <2>2, <2>3 DEF AnswerOf, Answers
  <2>5. answers' \in SUBSET Answers
    BY <1>9, <2>4 DEF ReadPrior
  <2> QED
    BY <1>9, <1>R, <2>5 DEF ReadPrior, Ends, enrolVars, takenVars
<1>10. ASSUME NEW h \in Handlers, Run(h, "ran") \/ Run(h, "failed")
       PROVE  RequestTypes'
  <2>1. handler[h] \in Handling
    BY <1>10, StepTells DEF Run, At
  <2> PICK m \in SignedMessages : m = handler[h].msg
    BY <2>1, StepTurned
  <2> PICK s \in {"ran", "failed"} : Run(h, s)
    BY <1>10
  <2>2. effects' \in Seq(SignedMessages) /\ Len(effects) + 1 \in Nat
    BY DEF Run
  <2>3. [step |-> s, msg |-> m, run |-> Len(effects) + 1] \in HandlerStates
    BY <2>2 DEF HandlerStates, Handled
  <2> QED
    BY <2>2, <2>3 DEF Run, enrolVars, takenVars
<1>11. ASSUME NEW h \in Handlers, RunFails(h)
       PROVE  RequestTypes'
  <2>1. handler[h] \in Handling \union Handled
    BY <1>11, StepTells DEF RunFails, At
  <2>2. [handler[h] EXCEPT !.step = "failed"] \in HandlerStates
    BY <2>1, StepTurned
  <2> QED
    BY <1>11, <2>2 DEF RunFails, Turns, enrolVars, takenVars, seenVars
<1>12. ASSUME NEW h \in Handlers, Complete(h)
       PROVE  RequestTypes'
  <2>1. handler[h] \in Handled
    BY <1>12, StepTells DEF Complete, At
  <2> PICK m \in SignedMessages : m = handler[h].msg
    BY <2>1, StepTurned
  <2>2. m.key \in IdemKeys /\ m.body \in Bodies /\ handler[h].run \in Nat
    BY <1>12, <2>1, StepTurned DEF Complete, KeysHeld, Keyed, At, SignedMessages
  <2>3. AnswerOf(m, handler[h].run) \in Answers
    BY <2>2 DEF AnswerOf, Answers
  <2>4. idem' \in [IdemKeys -> {NoIdemRow} \union IdemRows]
    <3>1. CASE idem[m.key] = NoIdemRow
      BY <1>12, <3>1 DEF Complete
    <3>2. CASE idem[m.key] # NoIdemRow
      <4> PICK row \in IdemRows : row = idem[m.key]
        BY <2>2, <3>2
      <4>1. [row EXCEPT !.status = "completed", !.run = handler[h].run] \in IdemRows
        BY <2>2 DEF IdemRows
      <4>2. idem' = [idem EXCEPT ![m.key] =
                       [row EXCEPT !.status = "completed", !.run = handler[h].run]]
        BY <1>12, <2>2, <3>2 DEF Complete
      <4> QED
        BY <4>1, <4>2
    <3> QED
      BY <3>1, <3>2
  <2>5. answers' \in SUBSET Answers
    BY <1>12, <2>3 DEF Complete
  <2> QED
    BY <1>12, <1>R, <2>4, <2>5 DEF Complete, Ends, enrolVars
<1>13. ASSUME NEW h \in Handlers, Release(h)
       PROVE  RequestTypes'
  <2>1. idem' \in [IdemKeys -> {NoIdemRow} \union IdemRows]
    BY <1>13 DEF Release
  <2> QED
    BY <1>13, <1>R, <2>1 DEF Release, Ends, enrolVars, seenVars
<1> HIDE DEF RequestTypes
<1> QED
  BY <1>1, <1>2, <1>3, <1>4, <1>5, <1>6, <1>7, <1>8, <1>9, <1>10, <1>11, <1>12, <1>13
     DEF StoreRequestStep

\* What a step says of the handler that takes it, and of the others.
LEMMA Turned ==
  ASSUME RequestTypes, NEW h \in Handlers, NEW s, Turns(h, s)
  PROVE  /\ \A g \in Handlers \ {h} : handler'[g] = handler[g]
         /\ handler'[h].step = s
         /\ handler[h] \in Redeeming => handler'[h].code = handler[h].code
         /\ handler[h] \in Handling \union Handled => handler'[h].msg = handler[h].msg
         /\ handler[h] \in Handled => handler'[h].run = handler[h].run
  <1>1. handler'[h] = [handler[h] EXCEPT !.step = s]
    BY DEF RequestTypes, Turns
  <1>2. handler[h] \in HandlerStates
    BY DEF RequestTypes
  <1> QED
    BY <1>1, <1>2, StepTurned DEF RequestTypes, Turns

LEMMA Ended ==
  ASSUME RequestTypes, NEW h \in Handlers, Ends(h)
  PROVE  /\ \A g \in Handlers \ {h} : handler'[g] = handler[g]
         /\ handler'[h].step = "idle"
  BY DEF RequestTypes, Ends, AtRest


LEMMA CodesKept ==
  ASSUME RequestTypes, CodeInv, keyRows' = keyRows, codes' \in [Codes -> CodeRows],
         \A c \in Codes : codes[c].used => codes'[c].used,
         \A h \in Handlers : At(h, "claimed")' =>
            At(h, "claimed") /\ handler'[h].code = handler[h].code
  PROVE  CodeInv'
<1>1. \A h \in Handlers : At(h, "claimed") => handler[h].code \in Codes
  BY StepTells, StepTurned DEF RequestTypes, At
<1>2. \A c \in Codes : keyRows'[c] <= 1 /\ (keyRows'[c] = 1 => codes'[c].used)
  BY DEF CodeInv
<1>3. ASSUME NEW h \in Handlers, At(h, "claimed")'
      PROVE  codes'[handler'[h].code].used /\ keyRows'[handler'[h].code] = 0
  <2>1. At(h, "claimed") /\ handler'[h].code = handler[h].code /\ handler[h].code \in Codes
    BY <1>1, <1>3
  <2>2. codes[handler[h].code].used /\ keyRows[handler[h].code] = 0
    BY <2>1 DEF CodeInv
  <2> QED
    BY <2>1, <2>2
<1>4. ASSUME NEW h \in Handlers, NEW g \in Handlers, At(h, "claimed")', At(g, "claimed")',
             handler'[h].code = handler'[g].code
      PROVE  h = g
  <2>1. At(h, "claimed") /\ At(g, "claimed") /\ handler[h].code = handler[g].code
    BY <1>4
  <2> QED
    BY <2>1 DEF CodeInv
<1> QED
  BY <1>2, <1>3, <1>4 DEF CodeInv

LEMMA RedeemClaimCodes ==
  ASSUME RequestTypes, CodeInv, NEW h \in Handlers, RedeemClaim(h)
  PROVE  CodeInv'
<1>1. handler[h] \in Redeeming /\ handler[h].code \in Codes
  BY StepTells, StepTurned DEF RequestTypes, RedeemClaim, At
<1> PICK c \in Codes : c = handler[h].code
  BY <1>1
<1>2. keyRows' = keyRows /\ codes' = [codes EXCEPT ![c].used = TRUE]
  BY DEF RedeemClaim
<1>3. \A d \in Codes : (codes[d].used => codes'[d].used) /\ codes'[d] \in CodeRows
  BY <1>2 DEF RequestTypes, CodeRows
<1>4. codes'[c].used
  BY <1>2 DEF RequestTypes, CodeRows
<1>5. codes' \in [Codes -> CodeRows]
  BY <1>2, <1>3 DEF RequestTypes
<1>6. CASE codes[c].used
  <2>1. Ends(h)
    BY <1>6 DEF RedeemClaim
  <2> QED
    BY <1>2, <1>3, <1>5, <2>1, Ended, CodesKept DEF At
<1>7. CASE ~codes[c].used
  <2>1. Turns(h, "claimed")
    BY <1>7 DEF RedeemClaim
  <2>2. /\ \A g \in Handlers \ {h} : handler'[g] = handler[g]
        /\ handler'[h].code = c
    BY <1>1, <2>1, Turned
  <2>3. keyRows[c] = 0
    BY <1>7 DEF CodeInv, RequestTypes
  <2>4. \A g \in Handlers : At(g, "claimed") => handler[g].code # c
    BY <1>7 DEF CodeInv
  <2>5. ASSUME NEW g \in Handlers, At(g, "claimed")'
        PROVE  codes'[handler'[g].code].used /\ keyRows'[handler'[g].code] = 0
    <3>1. CASE g = h
      BY <1>2, <1>4, <2>2, <2>3, <3>1
    <3>2. CASE g # h
      <4>1. handler'[g] = handler[g] /\ At(g, "claimed")
        BY <2>2, <2>5, <3>2 DEF At
      <4>2. handler[g].code \in Codes
        BY <4>1, StepTells, StepTurned DEF RequestTypes, At
      <4> QED
        BY <1>2, <1>3, <4>1, <4>2 DEF CodeInv
    <3> QED
      BY <3>1, <3>2
  <2>6. ASSUME NEW f \in Handlers, NEW g \in Handlers, At(f, "claimed")', At(g, "claimed")',
               handler'[f].code = handler'[g].code
        PROVE  f = g
    BY <2>2, <2>4, <2>6 DEF CodeInv, At
  <2>7. \A d \in Codes : keyRows'[d] <= 1 /\ (keyRows'[d] = 1 => codes'[d].used)
    BY <1>2, <1>3 DEF CodeInv
  <2> QED
    BY <2>5, <2>6, <2>7 DEF CodeInv
<1> QED
  BY <1>6, <1>7

LEMMA RedeemInsertCodes ==
  ASSUME RequestTypes, CodeInv, NEW h \in Handlers, RedeemInsert(h)
  PROVE  CodeInv'
<1>1. At(h, "claimed") /\ handler[h].code \in Codes
  BY StepTells, StepTurned DEF RequestTypes, RedeemInsert, At
<1> PICK c \in Codes : c = handler[h].code
  BY <1>1
<1>2. codes' = codes /\ keyRows' = [keyRows EXCEPT ![c] = @ + 1] /\ Ends(h)
  BY DEF RedeemInsert
<1>3. keyRows[c] = 0 /\ codes[c].used
  BY <1>1 DEF CodeInv
<1>4. keyRows'[c] = 1 /\ \A d \in Codes \ {c} : keyRows'[d] = keyRows[d]
  BY <1>2, <1>3 DEF RequestTypes
<1>5. \A g \in Handlers : At(g, "claimed")' =>
         g # h /\ handler'[g] = handler[g] /\ At(g, "claimed")
  BY <1>2, Ended DEF At
<1>6. \A g \in Handlers : At(g, "claimed")' => handler'[g].code \in Codes \ {c}
  <2>1. \A g \in Handlers : At(g, "claimed") => handler[g].code \in Codes
    BY StepTells, StepTurned DEF RequestTypes, At
  <2>2. \A g \in Handlers \ {h} : At(g, "claimed") => handler[g].code # c
    BY <1>1 DEF CodeInv
  <2> QED
    BY <1>5, <2>1, <2>2
<1>7. \A d \in Codes : keyRows'[d] <= 1 /\ (keyRows'[d] = 1 => codes'[d].used)
  BY <1>2, <1>3, <1>4 DEF CodeInv
<1>8. \A g \in Handlers : At(g, "claimed")' =>
         codes'[handler'[g].code].used /\ keyRows'[handler'[g].code] = 0
  BY <1>2, <1>4, <1>5, <1>6 DEF CodeInv
<1>9. \A f, g \in Handlers :
         At(f, "claimed")' /\ At(g, "claimed")' /\ handler'[f].code = handler'[g].code
         => f = g
  BY <1>5 DEF CodeInv
<1> QED
  BY <1>7, <1>8, <1>9 DEF CodeInv

LEMMA NoncesKept ==
  ASSUME NonceInv, nonces \subseteq nonces', effects' = effects,
         \A h \in Handlers : Taken(h)' => Taken(h) /\ handler'[h].msg = handler[h].msg,
         \A h \in Handlers : YetToRun(h)' => YetToRun(h)
  PROVE  NonceInv'
<1>1. \A h \in Handlers : YetToRun(h)' => Taken(h)'
  BY DEF YetToRun, Taken
<1>2. \A h \in Handlers : Taken(h)' => Stamp(handler'[h].msg) \in nonces'
  BY DEF NonceInv
<1>3. \A h, g \in Handlers :
         Taken(h)' /\ Taken(g)' /\ Stamp(handler'[h].msg) = Stamp(handler'[g].msg) => h = g
  BY DEF NonceInv
<1>4. \A n \in DOMAIN effects' : Stamp(effects'[n]) \in nonces'
  BY DEF NonceInv
<1>5. \A h \in Handlers, n \in DOMAIN effects' :
         YetToRun(h)' => Stamp(effects'[n]) # Stamp(handler'[h].msg)
  BY <1>1 DEF NonceInv
<1>6. \A n, k \in DOMAIN effects' : Stamp(effects'[n]) = Stamp(effects'[k]) => n = k
  BY DEF NonceInv
<1> QED
  BY <1>2, <1>3, <1>4, <1>5, <1>6 DEF NonceInv, Stamp

LEMMA ClaimNonceNonces ==
  ASSUME RequestTypes, NonceInv, NEW h \in Handlers, ClaimNonce(h)
  PROVE  NonceInv'
<1>1. handler[h] \in Handling /\ handler[h].msg \in SignedMessages
  BY StepTells, StepTurned DEF RequestTypes, ClaimNonce, At
<1> PICK m \in SignedMessages : m = handler[h].msg
  BY <1>1
<1>2. nonces' = nonces \union {Stamp(m)} /\ effects' = effects
  BY DEF ClaimNonce, Stamp, seenVars
<1>3. CASE Stamp(m) \in nonces
  <2>1. Ends(h)
    BY <1>3 DEF ClaimNonce, Stamp
  <2>2. \A g \in Handlers : Taken(g)' => Taken(g) /\ handler'[g].msg = handler[g].msg
    BY <2>1, Ended DEF Taken
  <2>3. \A g \in Handlers : YetToRun(g)' => YetToRun(g)
    BY <2>1, Ended DEF YetToRun
  <2> QED
    BY <1>2, <2>2, <2>3, NoncesKept
<1>4. CASE Stamp(m) \notin nonces
  <2>1. Turns(h, "fresh")
    BY <1>4 DEF ClaimNonce, Stamp
  <2>2. /\ \A g \in Handlers \ {h} : handler'[g] = handler[g]
        /\ handler'[h].step = "fresh" /\ handler'[h].msg = m
    BY <1>1, <2>1, Turned
  <2>3. \A g \in Handlers \ {h} : Taken(g)' => Taken(g) /\ Stamp(handler[g].msg) # Stamp(m)
    BY <1>4, <2>2 DEF NonceInv, Taken
  <2>4. \A n \in DOMAIN effects : Stamp(effects[n]) # Stamp(m)
    BY <1>4 DEF NonceInv
  <2>5. \A g \in Handlers : Taken(g)' => Stamp(handler'[g].msg) \in nonces'
    BY <1>2, <2>2, <2>3 DEF NonceInv
  <2>6. \A f, g \in Handlers :
           Taken(f)' /\ Taken(g)' /\ Stamp(handler'[f].msg) = Stamp(handler'[g].msg) => f = g
    BY <2>2, <2>3 DEF NonceInv
  <2>7. \A g \in Handlers, n \in DOMAIN effects :
           YetToRun(g)' => Stamp(effects[n]) # Stamp(handler'[g].msg)
    BY <2>2, <2>4 DEF NonceInv, YetToRun
  <2> QED
    BY <1>2, <2>5, <2>6, <2>7 DEF NonceInv, Stamp
<1> QED
  BY <1>3, <1>4

\* What Append does to the effects.
LEMMA RunEffects ==
  ASSUME RequestTypes, NEW h \in Handlers, NEW s, Run(h, s)
  PROVE  /\ DOMAIN effects' = DOMAIN effects \union {Len(effects) + 1}
         /\ Len(effects) + 1 \notin DOMAIN effects
         /\ Len(effects) + 1 \in Nat
         /\ \A n \in DOMAIN effects : effects'[n] = effects[n] /\ n \in Nat /\ n <= Len(effects)
         /\ effects'[Len(effects) + 1] = handler[h].msg
<1>1. effects \in Seq(SignedMessages) /\ handler[h].msg \in SignedMessages
  BY StepTells, StepTurned DEF RequestTypes, Run, At
<1> QED
  BY <1>1 DEF Run

LEMMA RunHandler ==
  ASSUME RequestTypes, NEW h \in Handlers, NEW s, Run(h, s)
  PROVE  /\ \A g \in Handlers \ {h} : handler'[g] = handler[g]
         /\ handler'[h].step = s
         /\ handler'[h].msg = handler[h].msg
         /\ handler'[h].run = Len(effects) + 1
  BY DEF RequestTypes, Run

LEMMA RunNonces ==
  ASSUME RequestTypes, NonceInv, NEW h \in Handlers, NEW s \in {"ran", "failed"}, Run(h, s)
  PROVE  NonceInv'
<1> DEFINE m == handler[h].msg
           last == Len(effects) + 1
<1>1. /\ DOMAIN effects' = DOMAIN effects \union {last} /\ last \notin DOMAIN effects
      /\ \A n \in DOMAIN effects : effects'[n] = effects[n]
      /\ effects'[last] = m
  BY RunEffects
<1>2. /\ \A g \in Handlers \ {h} : handler'[g] = handler[g]
      /\ handler'[h].step = s /\ handler'[h].msg = m
  BY RunHandler
<1>3. nonces' = nonces /\ Taken(h) /\ YetToRun(h)
  BY DEF Run, takenVars, At, Taken, YetToRun
<1>4. Stamp(m) \in nonces /\ \A n \in DOMAIN effects : Stamp(effects[n]) # Stamp(m)
  BY <1>3 DEF NonceInv
<1> HIDE DEF m, last
<1>5. \A g \in Handlers : Taken(g)' => Taken(g) /\ handler'[g].msg = handler[g].msg
  BY <1>2, <1>3 DEF Taken, m
<1>6. \A g \in Handlers : YetToRun(g)' => g # h /\ YetToRun(g) /\ handler'[g].msg = handler[g].msg
  BY <1>2 DEF YetToRun
<1>7. \A g \in Handlers \ {h} : YetToRun(g) => Stamp(handler[g].msg) # Stamp(m)
  BY <1>3 DEF NonceInv, Taken, YetToRun, m
<1>8. \A g \in Handlers : Taken(g)' => Stamp(handler'[g].msg) \in nonces'
  BY <1>3, <1>5 DEF NonceInv
<1>9. \A f, g \in Handlers :
         Taken(f)' /\ Taken(g)' /\ Stamp(handler'[f].msg) = Stamp(handler'[g].msg) => f = g
  BY <1>5 DEF NonceInv
<1>10. \A n \in DOMAIN effects' : Stamp(effects'[n]) \in nonces'
  BY <1>1, <1>3, <1>4 DEF NonceInv
<1>11. \A g \in Handlers, n \in DOMAIN effects' :
          YetToRun(g)' => Stamp(effects'[n]) # Stamp(handler'[g].msg)
  BY <1>1, <1>6, <1>7 DEF NonceInv
<1>12. \A n, k \in DOMAIN effects' : Stamp(effects'[n]) = Stamp(effects'[k]) => n = k
  BY <1>1, <1>4 DEF NonceInv
<1> QED
  BY <1>8, <1>9, <1>10, <1>11, <1>12 DEF NonceInv, Stamp

LEMMA KeysKept ==
  ASSUME KeyInv, effects' = effects, idem' = idem, answers' = answers,
         \A h \in Handlers : Owns(h)' => Owns(h) /\ handler'[h].msg = handler[h].msg,
         \A h \in Handlers : At(h, "ran")' => At(h, "ran") /\ handler'[h].run = handler[h].run
  PROVE  KeyInv'
<1>1. \A h \in Handlers : Owns(h)' =>
         /\ idem'[handler'[h].msg.key].status = "processing"
         /\ idem'[handler'[h].msg.key].body = handler'[h].msg.body
  BY DEF KeyInv
<1>2. \A h, g \in Handlers :
         Owns(h)' /\ Owns(g)' /\ handler'[h].msg.key = handler'[g].msg.key => h = g
  BY DEF KeyInv
<1>3. \A h \in Handlers : At(h, "ran")' => Owns(h)'
  BY DEF At, Owns
<1>4. \A h \in Handlers : At(h, "ran")' =>
         /\ LastUnder(effects, handler'[h].msg.key, handler'[h].run)
         /\ effects'[handler'[h].run] = handler'[h].msg
  BY <1>3 DEF KeyInv
<1> QED
  BY <1>1, <1>2, <1>4 DEF KeyInv, LastUnder

LEMMA ReserveKeys ==
  ASSUME RequestTypes, KeysHeld, KeyInv, NEW h \in Handlers, Reserve(h)
  PROVE  KeyInv'
<1>1. handler[h] \in Handling /\ handler[h].msg \in SignedMessages
  BY StepTells, StepTurned DEF RequestTypes, Reserve, At
<1> PICK m \in SignedMessages : m = handler[h].msg
  BY <1>1
<1>2. m.key \in IdemKeys /\ effects' = effects /\ answers' = answers
  BY DEF Reserve, SignedMessages, seenVars
<1>3. CASE idem[m.key] # NoIdemRow
  <2>1. Turns(h, "prior") /\ idem' = idem
    BY <1>3 DEF Reserve
  <2>2. \A g \in Handlers : Owns(g)' => Owns(g) /\ handler'[g].msg = handler[g].msg
    BY <2>1, Turned DEF Owns
  <2>3. \A g \in Handlers : At(g, "ran")' => At(g, "ran") /\ handler'[g].run = handler[g].run
    BY <2>1, Turned DEF At
  <2> QED
    BY <1>2, <2>1, <2>2, <2>3, KeysKept
<1>4. CASE idem[m.key] = NoIdemRow
  <2>1. Turns(h, "reserved") /\ idem' = [idem EXCEPT ![m.key] = Reserved(m)]
    BY <1>4 DEF Reserve
  <2>2. /\ \A g \in Handlers \ {h} : handler'[g] = handler[g]
        /\ handler'[h].step = "reserved" /\ handler'[h].msg = m
    BY <1>1, <2>1, Turned
  <2>3. idem[m.key].status = "none"
    BY <1>4 DEF NoIdemRow
  <2>4. /\ idem'[m.key].status = "processing" /\ idem'[m.key].body = m.body
        /\ \A k \in IdemKeys \ {m.key} : idem'[k] = idem[k]
    BY <1>2, <2>1 DEF RequestTypes, Reserved
  <2>5. ASSUME NEW g \in Handlers \ {h}, Owns(g)'
        PROVE  Owns(g) /\ handler'[g].msg = handler[g].msg
               /\ handler[g].msg.key \in IdemKeys \ {m.key}
    <3>1. handler'[g] = handler[g] /\ Owns(g)
      BY <2>2, <2>5 DEF Owns
    <3>2. idem[handler[g].msg.key].status = "processing"
      BY <3>1 DEF KeyInv
    <3>3. handler[g].msg.key \in IdemKeys
      BY <3>1 DEF KeysHeld, Keyed, Owns
    <3> QED
      BY <2>3, <3>1, <3>2, <3>3
  <2>6. \A g \in Handlers : Owns(g)' =>
           /\ idem'[handler'[g].msg.key].status = "processing"
           /\ idem'[handler'[g].msg.key].body = handler'[g].msg.body
    BY <2>2, <2>4, <2>5 DEF KeyInv
  <2>7. \A f, g \in Handlers :
           Owns(f)' /\ Owns(g)' /\ handler'[f].msg.key = handler'[g].msg.key => f = g
    BY <2>2, <2>5 DEF KeyInv
  <2>8. \A g \in Handlers : At(g, "ran")' =>
           /\ LastUnder(effects', handler'[g].msg.key, handler'[g].run)
           /\ effects'[handler'[g].run] = handler'[g].msg
    BY <1>2, <2>2 DEF KeyInv, At, LastUnder
  <2>9. \A k \in IdemKeys : idem'[k].status = "completed" =>
           k # m.key /\ idem'[k] = idem[k]
    BY <2>4
  <2>10. \A a \in answers : a.key \in IdemKeys /\ a.key # m.key
    BY <2>3 DEF KeyInv, RequestTypes, Answers
  <2>11. \A a \in answers' :
            /\ idem'[a.key].status = "completed"
            /\ idem'[a.key].body = a.body
            /\ idem'[a.key].run = a.run
    BY <1>2, <2>4, <2>10 DEF KeyInv
  <2>12. \A k \in IdemKeys : idem'[k].status = "completed" =>
            /\ LastUnder(effects', k, idem'[k].run)
            /\ effects'[idem'[k].run].body = idem'[k].body
    BY <1>2, <2>9 DEF KeyInv, LastUnder
  <2> QED
    BY <2>6, <2>7, <2>8, <2>11, <2>12 DEF KeyInv, LastUnder
<1> QED
  BY <1>3, <1>4

LEMMA ReadPriorKeys ==
  ASSUME RequestTypes, KeysHeld, KeyInv, NEW h \in Handlers, ReadPrior(h)
  PROVE  KeyInv'
<1>1. handler[h].msg.key \in IdemKeys
  BY DEF ReadPrior, KeysHeld, Keyed, At
<1>2. effects' = effects /\ idem' = idem /\ Ends(h)
  BY DEF ReadPrior, takenVars
<1>3. \A g \in Handlers : Owns(g)' => g # h /\ handler'[g] = handler[g] /\ Owns(g)
  BY <1>2, Ended DEF Owns
<1>4. \A g \in Handlers : At(g, "ran")' => g # h /\ handler'[g] = handler[g] /\ At(g, "ran")
  BY <1>2, Ended DEF At
<1>5. ASSUME NEW a \in answers'
      PROVE  /\ idem[a.key].status = "completed"
             /\ idem[a.key].body = a.body
             /\ idem[a.key].run = a.run
  <2>1. CASE a \in answers
    BY <2>1 DEF KeyInv
  <2>2. CASE a \notin answers
    <3> DEFINE m == handler[h].msg
    <3>1. /\ idem[m.key].status = "completed" /\ idem[m.key].body = m.body
          /\ a = AnswerOf(m, idem[m.key].run)
      BY <2>2 DEF ReadPrior
    <3> QED
      BY <3>1 DEF AnswerOf
  <2> QED
    BY <2>1, <2>2
<1>6. \A g \in Handlers : Owns(g)' =>
         /\ idem'[handler'[g].msg.key].status = "processing"
         /\ idem'[handler'[g].msg.key].body = handler'[g].msg.body
  BY <1>2, <1>3 DEF KeyInv
<1>7. \A f, g \in Handlers :
         Owns(f)' /\ Owns(g)' /\ handler'[f].msg.key = handler'[g].msg.key => f = g
  BY <1>3 DEF KeyInv
<1>8. \A g \in Handlers : At(g, "ran")' =>
         /\ LastUnder(effects, handler'[g].msg.key, handler'[g].run)
         /\ effects'[handler'[g].run] = handler'[g].msg
  BY <1>2, <1>4 DEF KeyInv
<1> QED
  BY <1>2, <1>5, <1>6, <1>7, <1>8 DEF KeyInv, LastUnder

LEMMA RunKeys ==
  ASSUME RequestTypes, KeysHeld, KeyInv, NEW h \in Handlers, NEW s \in {"ran", "failed"},
         Run(h, s)
  PROVE  KeyInv'
<1>1. handler[h].msg \in SignedMessages
  BY StepTells, StepTurned DEF RequestTypes, Run, At
<1> PICK m \in SignedMessages : m = handler[h].msg
  BY <1>1
<1> PICK last \in Nat : last = Len(effects) + 1
  BY RunEffects
<1>2. /\ DOMAIN effects' = DOMAIN effects \union {last} /\ last \notin DOMAIN effects
      /\ \A n \in DOMAIN effects : effects'[n] = effects[n] /\ n \in Nat
      /\ effects'[last] = m
  BY RunEffects
<1>3. \A n \in DOMAIN effects' : n <= last
  <2>1. \A n \in DOMAIN effects : n <= Len(effects) /\ n \in Nat
    BY RunEffects
  <2>2. Len(effects) \in Nat
    BY DEF RequestTypes
  <2> QED
    BY <1>2, <2>1, <2>2
<1>4. /\ \A g \in Handlers \ {h} : handler'[g] = handler[g]
      /\ handler'[h].step = s /\ handler'[h].msg = m /\ handler'[h].run = last
  BY RunHandler
<1>5. idem' = idem /\ answers' = answers /\ Owns(h)
  BY DEF Run, takenVars, At, Owns
<1>6. m.key \in IdemKeys /\ idem[m.key].status = "processing"
  BY <1>5 DEF KeyInv, KeysHeld, Keyed, Owns
<1>7. \A g \in Handlers : Owns(g)' => Owns(g) /\ handler'[g].msg = handler[g].msg
  BY <1>4, <1>5 DEF Owns
<1>8. \A g \in Handlers : Owns(g)' =>
         /\ idem'[handler'[g].msg.key].status = "processing"
         /\ idem'[handler'[g].msg.key].body = handler'[g].msg.body
  BY <1>5, <1>7 DEF KeyInv
<1>9. \A f, g \in Handlers :
         Owns(f)' /\ Owns(g)' /\ handler'[f].msg.key = handler'[g].msg.key => f = g
  BY <1>7 DEF KeyInv
\* The work of another key is no later under this one.
<1>10. ASSUME NEW k \in IdemKeys \ {m.key}, NEW run \in DOMAIN effects,
              LastUnder(effects, k, run)
       PROVE  LastUnder(effects', k, run) /\ effects'[run] = effects[run]
  BY <1>2, <1>10 DEF LastUnder
<1>11. ASSUME NEW g \in Handlers, At(g, "ran")'
       PROVE  /\ LastUnder(effects', handler'[g].msg.key, handler'[g].run)
              /\ effects'[handler'[g].run] = handler'[g].msg
  <2>1. CASE g = h
    BY <1>2, <1>3, <1>4, <2>1 DEF LastUnder
  <2>2. CASE g # h
    <3>1. handler'[g] = handler[g] /\ At(g, "ran")
      BY <1>4, <1>11, <2>2 DEF At
    <3>2. Owns(g) /\ handler[g].msg.key \in IdemKeys
      BY <3>1 DEF At, Owns, KeysHeld, Keyed
    <3>3. handler[g].msg.key # m.key
      BY <1>5, <2>2, <3>2 DEF KeyInv
    <3>4. /\ LastUnder(effects, handler[g].msg.key, handler[g].run)
          /\ effects[handler[g].run] = handler[g].msg
      BY <3>1 DEF KeyInv
    <3>5. handler[g].run \in DOMAIN effects
      BY <3>4 DEF LastUnder
    <3> QED
      BY <1>10, <3>1, <3>2, <3>3, <3>4, <3>5
  <2> QED
    BY <2>1, <2>2
<1>12. ASSUME NEW k \in IdemKeys, idem'[k].status = "completed"
       PROVE  /\ LastUnder(effects', k, idem'[k].run)
              /\ effects'[idem'[k].run].body = idem'[k].body
  <2>1. k # m.key /\ idem'[k] = idem[k]
    BY <1>5, <1>6, <1>12
  <2>2. /\ LastUnder(effects, k, idem[k].run)
        /\ effects[idem[k].run].body = idem[k].body
    BY <1>12, <2>1 DEF KeyInv
  <2>3. idem[k].run \in DOMAIN effects
    BY <2>2 DEF LastUnder
  <2> QED
    BY <1>10, <2>1, <2>2, <2>3
<1>13. \A a \in answers' :
          /\ idem'[a.key].status = "completed"
          /\ idem'[a.key].body = a.body
          /\ idem'[a.key].run = a.run
  BY <1>5 DEF KeyInv
<1> QED
  BY <1>8, <1>9, <1>11, <1>12, <1>13 DEF KeyInv

\* The row of a key changes hands only when its owner lets it go.
LEMMA OwnerLetsGo ==
  ASSUME RequestTypes, KeysHeld, KeyInv, NEW h \in Handlers, Owns(h), Ends(h),
         effects' = effects, idem' \in [IdemKeys -> {NoIdemRow} \union IdemRows],
         \A k \in IdemKeys \ {handler[h].msg.key} : idem'[k] = idem[k]
  PROVE  /\ \A g \in Handlers : Owns(g)' =>
               /\ idem'[handler'[g].msg.key].status = "processing"
               /\ idem'[handler'[g].msg.key].body = handler'[g].msg.body
         /\ \A f, g \in Handlers :
               Owns(f)' /\ Owns(g)' /\ handler'[f].msg.key = handler'[g].msg.key => f = g
         /\ \A g \in Handlers : At(g, "ran")' =>
               /\ LastUnder(effects', handler'[g].msg.key, handler'[g].run)
               /\ effects'[handler'[g].run] = handler'[g].msg
         /\ \A a \in answers :
               a.key # handler[h].msg.key /\ idem'[a.key] = idem[a.key]
<1>1. /\ \A g \in Handlers \ {h} : handler'[g] = handler[g]
      /\ handler'[h].step = "idle"
  BY Ended
<1>2. \A g \in Handlers : Owns(g)' => g # h /\ handler'[g] = handler[g] /\ Owns(g)
  BY <1>1 DEF Owns
<1>3. \A g \in Handlers : Owns(g)' =>
         handler[g].msg.key \in IdemKeys \ {handler[h].msg.key}
  BY <1>2 DEF KeyInv, KeysHeld, Keyed, Owns
<1>4. \A g \in Handlers : Owns(g)' =>
         /\ idem'[handler'[g].msg.key].status = "processing"
         /\ idem'[handler'[g].msg.key].body = handler'[g].msg.body
  BY <1>2, <1>3 DEF KeyInv
<1>5. \A f, g \in Handlers :
         Owns(f)' /\ Owns(g)' /\ handler'[f].msg.key = handler'[g].msg.key => f = g
  BY <1>2 DEF KeyInv
<1>6. \A g \in Handlers : At(g, "ran")' => g # h /\ handler'[g] = handler[g] /\ At(g, "ran")
  BY <1>1 DEF At
<1>7. \A g \in Handlers : At(g, "ran")' =>
         /\ LastUnder(effects', handler'[g].msg.key, handler'[g].run)
         /\ effects'[handler'[g].run] = handler'[g].msg
  BY <1>6 DEF KeyInv
<1>8. idem[handler[h].msg.key].status = "processing"
  BY DEF KeyInv
<1>9. \A a \in answers : a.key # handler[h].msg.key /\ idem'[a.key] = idem[a.key]
  BY <1>8 DEF KeyInv, RequestTypes, Answers
<1> QED
  BY <1>4, <1>5, <1>7, <1>9

LEMMA CompleteKeys ==
  ASSUME RequestTypes, KeysHeld, KeyInv, RequestTypes', NEW h \in Handlers, Complete(h)
  PROVE  KeyInv'
<1>1. Owns(h) /\ At(h, "ran") /\ Ends(h) /\ effects' = effects
  BY DEF Complete, Owns, At
<1> DEFINE m == handler[h].msg
           run == handler[h].run
<1>2. m.key \in IdemKeys /\ idem[m.key].status = "processing" /\ idem[m.key].body = m.body
  BY <1>1 DEF KeysHeld, Keyed, KeyInv, At
<1>3. LastUnder(effects, m.key, run) /\ effects[run] = m
  BY <1>1 DEF KeyInv
<1>4. idem[m.key] \in IdemRows /\ idem[m.key] # NoIdemRow
  BY <1>2 DEF RequestTypes, NoIdemRow
<1>5. /\ idem'[m.key].status = "completed" /\ idem'[m.key].body = m.body
      /\ idem'[m.key].run = run
      /\ \A k \in IdemKeys \ {m.key} : idem'[k] = idem[k]
  <2>1. idem' = [idem EXCEPT ![m.key].status = "completed", ![m.key].run = run]
    BY <1>4 DEF Complete
  <2> HIDE DEF m, run
  <2> QED
    BY <1>2, <1>4, <2>1 DEF RequestTypes, IdemRows
<1>6. idem' \in [IdemKeys -> {NoIdemRow} \union IdemRows]
  BY DEF RequestTypes
<1>7. answers' = answers \union {AnswerOf(m, run)}
  BY DEF Complete
<1> HIDE DEF m, run
<1>8. \A k \in IdemKeys : idem'[k].status = "completed" =>
         /\ LastUnder(effects', k, idem'[k].run)
         /\ effects'[idem'[k].run].body = idem'[k].body
  BY <1>1, <1>3, <1>5 DEF KeyInv
<1>9. \A a \in answers' :
         /\ idem'[a.key].status = "completed"
         /\ idem'[a.key].body = a.body
         /\ idem'[a.key].run = a.run
  <2>1. \A a \in answers : idem'[a.key] = idem[a.key]
    BY <1>1, <1>5, <1>6, OwnerLetsGo DEF m
  <2> QED
    BY <1>5, <1>7, <2>1 DEF KeyInv, AnswerOf
<1>10. /\ \A g \in Handlers : Owns(g)' =>
             /\ idem'[handler'[g].msg.key].status = "processing"
             /\ idem'[handler'[g].msg.key].body = handler'[g].msg.body
       /\ \A f, g \in Handlers :
             Owns(f)' /\ Owns(g)' /\ handler'[f].msg.key = handler'[g].msg.key => f = g
       /\ \A g \in Handlers : At(g, "ran")' =>
             /\ LastUnder(effects', handler'[g].msg.key, handler'[g].run)
             /\ effects'[handler'[g].run] = handler'[g].msg
  BY <1>1, <1>5, <1>6, OwnerLetsGo DEF m
<1> QED
  BY <1>8, <1>9, <1>10 DEF KeyInv

LEMMA ReleaseKeys ==
  ASSUME RequestTypes, KeysHeld, KeyInv, RequestTypes', NEW h \in Handlers, Release(h)
  PROVE  KeyInv'
<1>1. Owns(h) /\ Ends(h) /\ effects' = effects /\ answers' = answers
  BY DEF Release, Owns, At, seenVars
<1> DEFINE key == handler[h].msg.key
<1>2. key \in IdemKeys /\ idem[key].status = "processing"
  BY <1>1 DEF KeysHeld, Keyed, KeyInv, Owns
<1>3. /\ idem'[key] = NoIdemRow
      /\ \A k \in IdemKeys \ {key} : idem'[k] = idem[k]
  BY <1>2 DEF Release, RequestTypes
<1>4. idem' \in [IdemKeys -> {NoIdemRow} \union IdemRows]
  BY DEF RequestTypes
<1> HIDE DEF key
<1>5. \A k \in IdemKeys : idem'[k].status = "completed" =>
         /\ LastUnder(effects', k, idem'[k].run)
         /\ effects'[idem'[k].run].body = idem'[k].body
  <2>1. \A k \in IdemKeys : idem'[k].status = "completed" => idem'[k] = idem[k]
    BY <1>3 DEF NoIdemRow
  <2> QED
    BY <1>1, <2>1 DEF KeyInv
<1>6. \A a \in answers' :
         /\ idem'[a.key].status = "completed"
         /\ idem'[a.key].body = a.body
         /\ idem'[a.key].run = a.run
  <2>1. \A a \in answers : idem'[a.key] = idem[a.key]
    BY <1>1, <1>3, <1>4, OwnerLetsGo DEF key
  <2> QED
    BY <1>1, <2>1 DEF KeyInv
<1>7. /\ \A g \in Handlers : Owns(g)' =>
            /\ idem'[handler'[g].msg.key].status = "processing"
            /\ idem'[handler'[g].msg.key].body = handler'[g].msg.body
      /\ \A f, g \in Handlers :
            Owns(f)' /\ Owns(g)' /\ handler'[f].msg.key = handler'[g].msg.key => f = g
      /\ \A g \in Handlers : At(g, "ran")' =>
            /\ LastUnder(effects', handler'[g].msg.key, handler'[g].run)
            /\ effects'[handler'[g].run] = handler'[g].msg
  BY <1>1, <1>3, <1>4, OwnerLetsGo DEF key
<1> QED
  BY <1>5, <1>6, <1>7 DEF KeyInv

LEMMA HeldKept ==
  ASSUME KeysHeld,
         \A h \in Handlers : Keyed(h)' => Keyed(h) /\ handler'[h].msg = handler[h].msg
  PROVE  KeysHeld'
  BY DEF KeysHeld

\* What a handler has that is at one of these steps matters to nobody.
Idling(r) == r.step \in {"idle", "code read", "verified"}

LEMMA QuietStep ==
  ASSUME RequestInv, RequestTypes', effects' = effects, idem' = idem, answers' = answers,
         nonces' = nonces, keyRows' = keyRows,
         \A c \in Codes : codes[c].used => codes'[c].used,
         \A h \in Handlers : handler'[h] = handler[h] \/ Idling(handler'[h])
  PROVE  RequestInv'
<1>1. CodeInv'
  <2>1. \A h \in Handlers : At(h, "claimed")' =>
           At(h, "claimed") /\ handler'[h].code = handler[h].code
    BY DEF At, Idling
  <2> QED
    BY <2>1, CodesKept DEF RequestInv, RequestTypes
<1>2. NonceInv'
  <2>1. \A h \in Handlers : Taken(h)' => Taken(h) /\ handler'[h].msg = handler[h].msg
    BY DEF Taken, Idling
  <2>2. \A h \in Handlers : YetToRun(h)' => YetToRun(h)
    BY DEF YetToRun, Idling
  <2> QED
    BY <2>1, <2>2, NoncesKept DEF RequestInv
<1>3. KeyInv'
  <2>1. \A h \in Handlers : Owns(h)' => Owns(h) /\ handler'[h].msg = handler[h].msg
    BY DEF Owns, Idling
  <2>2. \A h \in Handlers : At(h, "ran")' => At(h, "ran") /\ handler'[h].run = handler[h].run
    BY DEF At, Idling
  <2> QED
    BY <2>1, <2>2, KeysKept DEF RequestInv
<1>4. KeysHeld'
  <2>1. \A h \in Handlers : Keyed(h)' => Keyed(h) /\ handler'[h].msg = handler[h].msg
    BY DEF Keyed, Idling
  <2> QED
    BY <2>1, HeldKept DEF RequestInv
<1> QED
  BY <1>1, <1>2, <1>3, <1>4 DEF RequestInv

LEMMA RequestNext == RequestInv /\ StoreRequestStep => RequestInv'
<1> SUFFICES ASSUME RequestInv, StoreRequestStep
             PROVE  RequestInv'
  OBVIOUS
<1>T. RequestTypes /\ RequestTypes' /\ KeysHeld /\ CodeInv /\ NonceInv /\ KeyInv
  BY RequestTypesKept DEF RequestInv
<1>1. ASSUME NEW c \in Codes, IssueCode(c) \/ CodeExpires(c)
      PROVE  RequestInv'
  <2>1. \A d \in Codes : codes[d].used => codes'[d].used
    BY <1>T, <1>1 DEF RequestTypes, CodeRows, IssueCode, CodeExpires
  <2> QED
    BY <1>T, <1>1, <2>1, QuietStep DEF IssueCode, CodeExpires, takenVars, seenVars
<1>2. ASSUME NEW h \in Handlers, NEW c \in Codes, RedeemRead(h, c)
      PROVE  RequestInv'
  <2>1. \A g \in Handlers : handler'[g] = handler[g] \/ Idling(handler'[g])
    BY <1>T, <1>2 DEF RequestTypes, RedeemRead, Idling
  <2> QED
    BY <1>T, <1>2, <2>1, QuietStep DEF RedeemRead, enrolVars, takenVars, seenVars
<1>3. ASSUME NEW h \in Handlers, NEW m \in SignedMessages, Arrive(h, m)
      PROVE  RequestInv'
  <2>1. \A g \in Handlers : handler'[g] = handler[g] \/ Idling(handler'[g])
    BY <1>T, <1>3 DEF RequestTypes, Arrive, Idling
  <2> QED
    BY <1>T, <1>3, <2>1, QuietStep DEF Arrive, enrolVars, takenVars, seenVars
<1>4. ASSUME NEW h \in Handlers, AnswerRead(h) \/ HandlerStops(h)
      PROVE  RequestInv'
  <2>1. \A g \in Handlers : handler'[g] = handler[g] \/ Idling(handler'[g])
    BY <1>T, <1>4, Ended DEF AnswerRead, HandlerStops, Idling
  <2> QED
    BY <1>T, <1>4, <2>1, QuietStep DEF AnswerRead, HandlerStops, enrolVars, takenVars, seenVars
<1>5. ASSUME NEW h \in Handlers, RedeemClaim(h) \/ RedeemInsert(h)
      PROVE  RequestInv'
  <2>1. CodeInv'
    BY <1>T, <1>5, RedeemClaimCodes, RedeemInsertCodes
  <2>2. /\ nonces' = nonces /\ idem' = idem /\ effects' = effects /\ answers' = answers
        /\ Ends(h) \/ Turns(h, "claimed")
    BY <1>5 DEF RedeemClaim, RedeemInsert, takenVars, seenVars
  <2>3. /\ \A g \in Handlers \ {h} : handler'[g] = handler[g]
        /\ handler'[h].step \in {"idle", "claimed"}
    BY <1>T, <2>2, Ended, Turned
  <2>4. NonceInv'
    <3>1. \A g \in Handlers : Taken(g)' => Taken(g) /\ handler'[g].msg = handler[g].msg
      BY <2>3 DEF Taken
    <3>2. \A g \in Handlers : YetToRun(g)' => YetToRun(g)
      BY <2>3 DEF YetToRun
    <3> QED
      BY <1>T, <2>2, <3>1, <3>2, NoncesKept
  <2>5. KeyInv'
    <3>1. \A g \in Handlers : Owns(g)' => Owns(g) /\ handler'[g].msg = handler[g].msg
      BY <2>3 DEF Owns
    <3>2. \A g \in Handlers : At(g, "ran")' => At(g, "ran") /\ handler'[g].run = handler[g].run
      BY <2>3 DEF At
    <3> QED
      BY <1>T, <2>2, <3>1, <3>2, KeysKept
  <2>6. KeysHeld'
    <3>1. \A g \in Handlers : Keyed(g)' => Keyed(g) /\ handler'[g].msg = handler[g].msg
      BY <2>3 DEF Keyed
    <3> QED
      BY <1>T, <3>1, HeldKept
  <2> QED
    BY <1>T, <2>1, <2>4, <2>5, <2>6 DEF RequestInv
<1>6. ASSUME NEW h \in Handlers,
             ClaimNonce(h) \/ Reserve(h) \/ ReadPrior(h) \/ Run(h, "ran") \/ Run(h, "failed")
             \/ RunFails(h) \/ Complete(h) \/ Release(h)
      PROVE  RequestInv'
  <2>1. keyRows' = keyRows /\ codes' = codes
    BY <1>6 DEF ClaimNonce, Reserve, ReadPrior, Run, RunFails, Complete, Release, enrolVars
  <2>2. handler[h].msg \in SignedMessages /\ handler[h] \in Handling \union Handled
    BY <1>T, <1>6, StepTells, StepTurned
       DEF RequestTypes, ClaimNonce, Reserve, ReadPrior, Run, RunFails, Complete, Release, At
  <2>3. /\ \A g \in Handlers \ {h} : handler'[g] = handler[g]
        /\ \/ handler'[h].step = "idle"
           \/ /\ handler'[h].step \in {"fresh", "reserved", "prior", "ran", "failed"}
              /\ handler'[h].msg = handler[h].msg
    BY <1>T, <1>6, <2>2, Turned, Ended, RunHandler
       DEF ClaimNonce, Reserve, ReadPrior, RunFails, Complete, Release
  <2>4. CodeInv'
    <3>1. \A g \in Handlers : At(g, "claimed")' =>
             At(g, "claimed") /\ handler'[g].code = handler[g].code
      BY <2>3 DEF At
    <3> QED
      BY <1>T, <2>1, <3>1, CodesKept DEF RequestTypes
  <2>5. NonceInv'
    <3>1. CASE ClaimNonce(h)
      BY <1>T, <3>1, ClaimNonceNonces
    <3>2. CASE Run(h, "ran") \/ Run(h, "failed")
      BY <1>T, <3>2, RunNonces
    <3>3. CASE Reserve(h) \/ ReadPrior(h) \/ RunFails(h) \/ Complete(h) \/ Release(h)
      <4>1. nonces' = nonces /\ effects' = effects
        BY <3>3 DEF Reserve, ReadPrior, RunFails, Complete, Release, takenVars, seenVars
      <4>2. Taken(h)
        BY <3>3 DEF Reserve, ReadPrior, RunFails, Complete, Release, At, Taken
      <4>3. \A g \in Handlers : Taken(g)' => Taken(g) /\ handler'[g].msg = handler[g].msg
        BY <2>3, <4>2 DEF Taken
      <4>4. YetToRun(h)' => YetToRun(h)
        BY <1>T, <3>3, Ended, Turned
           DEF Reserve, ReadPrior, RunFails, Complete, Release, At, YetToRun
      <4>5. \A g \in Handlers : YetToRun(g)' => YetToRun(g)
        BY <2>3, <4>4 DEF YetToRun
      <4> QED
        BY <1>T, <4>1, <4>3, <4>5, NoncesKept
    <3> QED
      BY <1>6, <3>1, <3>2, <3>3
  <2>6. KeyInv'
    <3>1. CASE ClaimNonce(h) \/ RunFails(h)
      <4>1. effects' = effects /\ idem' = idem /\ answers' = answers
        BY <3>1 DEF ClaimNonce, RunFails, takenVars, seenVars
      <4>2. Owns(h)' => Owns(h)
        BY <1>T, <3>1, Ended, Turned DEF ClaimNonce, RunFails, At, Owns
      <4>3. ~At(h, "ran")'
        BY <1>T, <3>1, Ended, Turned DEF ClaimNonce, RunFails, At
      <4>4. \A g \in Handlers : Owns(g)' => Owns(g) /\ handler'[g].msg = handler[g].msg
        BY <2>3, <4>2 DEF Owns
      <4>5. \A g \in Handlers : At(g, "ran")' =>
               At(g, "ran") /\ handler'[g].run = handler[g].run
        BY <2>3, <4>3 DEF At
      <4> QED
        BY <1>T, <4>1, <4>4, <4>5, KeysKept
    <3>2. CASE Reserve(h)
      BY <1>T, <3>2, ReserveKeys
    <3>3. CASE ReadPrior(h)
      BY <1>T, <3>3, ReadPriorKeys
    <3>4. CASE Run(h, "ran") \/ Run(h, "failed")
      BY <1>T, <3>4, RunKeys
    <3>5. CASE Complete(h)
      BY <1>T, <3>5, CompleteKeys
    <3>6. CASE Release(h)
      BY <1>T, <3>6, ReleaseKeys
    <3> QED
      BY <1>6, <3>1, <3>2, <3>3, <3>4, <3>5, <3>6
  <2>7. KeysHeld'
    <3>1. Keyed(h)' => handler[h].msg.key \in IdemKeys
      <4>1. CASE ClaimNonce(h)
        BY <1>T, <4>1, Ended, Turned DEF ClaimNonce, Keyed
      <4>2. CASE Reserve(h)
        BY <2>2, <4>2 DEF Reserve, SignedMessages
      <4>3. CASE ~ClaimNonce(h) /\ ~Reserve(h)
        BY <1>T, <1>6, <4>3 DEF ReadPrior, Run, RunFails, Complete, Release, At, KeysHeld, Keyed
      <4> QED
        BY <4>1, <4>2, <4>3
    <3>2. ASSUME NEW g \in Handlers, Keyed(g)'
          PROVE  handler'[g].msg.key \in IdemKeys
      BY <1>T, <2>3, <3>1, <3>2 DEF KeysHeld, Keyed
    <3> QED
      BY <3>2 DEF KeysHeld
  <2> QED
    BY <1>T, <2>4, <2>5, <2>6, <2>7 DEF RequestInv
<1> QED
  BY <1>1, <1>2, <1>3, <1>4, <1>5, <1>6 DEF StoreRequestStep

\* The inductive invariant of the API's front door: a code claimed, a nonce
\* taken and an idempotency row in progress are one handler's at a time, for
\* any handlers, stopped anywhere.
THEOREM RequestInvariance == StoreRequestsSpec => []RequestInv
<1>1. RequestInv /\ UNCHANGED storeRequestVars => RequestInv'
  BY DEF storeRequestVars, RequestInv, RequestTypes, KeysHeld, CodeInv, NonceInv, KeyInv,
         Keyed, At, Taken, YetToRun, Owns
<1> QED
  BY <1>1, RequestStart, RequestNext, PTL DEF StoreRequestsSpec

\* A code opens one box at most, however many appliances redeem it at once
\* (redeemEnrolmentCode).
THEOREM OneBoxACode == StoreRequestsSpec => []CodeOpensOneBox
<1>1. RequestInv => CodeOpensOneBox
  BY DEF RequestInv, CodeInv, CodeOpensOneBox
<1> QED
  BY <1>1, RequestInvariance, PTL

\* A signed message does its work once at most, although it is delivered any
\* number of times and failed copies give their keys back (authenticatedJson).
THEOREM OneRunAMessage == StoreRequestsSpec => []MessageRunsOnce
<1>1. RequestInv => MessageRunsOnce
  BY DEF RequestInv, NonceInv, MessageRunsOnce, Stamp
<1> QED
  BY <1>1, RequestInvariance, PTL

\* A signed message and a code act once at most.
THEOREM RequestsOnce == StoreRequestsSpec => []RequestsActOnce
BY OneBoxACode, OneRunAMessage, PTL DEF RequestsActOnce

\* What a box is told about an idempotency key is final, however its retries
\* overlap, fail and are stopped (idempotent).
THEOREM FinalAnswers == StoreRequestsSpec => []AnswersAreFinal
<1>1. RequestInv => AnswersAreFinal
  <2> SUFFICES ASSUME RequestInv, NEW a \in answers, NEW b \in answers, a.key = b.key
               PROVE  /\ a = b
                      /\ effects[a.run].body = a.body
                      /\ \A n \in DOMAIN effects : effects[n].key = a.key => n <= a.run
    BY DEF AnswersAreFinal
  <2>1. a \in Answers /\ b \in Answers
    BY DEF RequestInv, RequestTypes
  <2>2. /\ idem[a.key].status = "completed" /\ idem[a.key].body = a.body
        /\ idem[a.key].run = a.run /\ idem[a.key].body = b.body /\ idem[a.key].run = b.run
    BY DEF RequestInv, KeyInv
  <2>3. LastUnder(effects, a.key, a.run) /\ effects[a.run].body = a.body
    BY <2>1, <2>2 DEF RequestInv, KeyInv, Answers
  <2>4. a = b
    <3>1. a = [key |-> a.key, body |-> a.body, run |-> a.run]
      BY <2>1 DEF Answers
    <3>2. b = [key |-> b.key, body |-> b.body, run |-> b.run]
      BY <2>1 DEF Answers
    <3> QED
      BY <2>2, <3>1, <3>2
  <2> QED
    BY <2>3, <2>4 DEF LastUnder
<1> QED
  BY <1>1, RequestInvariance, PTL

-------------------------------------------------------------------------------
(***************************************************************************)
(* Quote requests.                                                         *)
(***************************************************************************)

QuotesSpec == QuoteInit /\ [][QuoteStep]_quoteVars

Requested == [status : {"requested", "viewed", "quoted", "closed"}, message : Texts,
              note : Texts, viewed : BOOLEAN, responded : BOOLEAN, closed : BOOLEAN]

\* A row whose status, quote and dates tell one story.
OneStory(r) ==
    /\ r.responded <=> r.message # NoText
    /\ r.responded => r.viewed /\ r.status \in {"quoted", "closed"}
    /\ r.closed <=> r.status = "closed"
    /\ r.viewed => r.status # "requested"

ToldRows == {r \in Requested : OneStory(r)}
QuoteRows == {NoRequest} \union ToldRows
RowSets == [QuoteIds -> QuoteRows]

\* A process at work on rows, and one that is not.
Unladen == [step : {"idle", "empty"}, ready : BOOLEAN]
Laden == [step : {"read", "writing", "importing"}, ready : {FALSE}, rows : RowSets]

CardStates == [shown : QuoteRows, draft : Texts, note : Texts, loading : BOOLEAN,
               busy : BOOLEAN, lists : SUBSET QuoteRows, replies : SUBSET ToldRows]

QuoteTypes ==
    /\ durable \in BOOLEAN
    /\ quoteFile \in RowSets
    /\ quoteTable \in RowSets
    /\ server \in [Servers -> Unladen \union Laden]
    /\ card \in CardStates

\* Every request in the file is in the table.
Imported == \A q \in QuoteIds : quoteFile[q] # NoRequest => quoteTable[q] # NoRequest

\* Without a database the table is empty and nobody is ready; with one the
\* file stays as it is, which is what an import under way has read, and both
\* a row in the table and a process that is ready tell of an import done.
AtHome(r) ==
    /\ r.step \in {"read", "writing"} => ~durable
    /\ r.step \in {"empty", "importing"} \/ r.ready => durable
    /\ r.step = "importing" => r.rows = quoteFile
    /\ r.ready => Imported

MoveInv ==
    /\ ~durable => quoteTable = NoRows
    /\ \A p \in Servers : AtHome(server[p])
    /\ durable /\ quoteTable # NoRows => Imported

QuoteInv == QuoteTypes /\ MoveInv

LEMMA QuoteStart == QuoteInit => QuoteInv
<1> SUFFICES ASSUME QuoteInit PROVE QuoteInv
  OBVIOUS
<1>1. EmptyCard \in CardStates
  BY DEF EmptyCard, CardStates, QuoteRows, Texts
<1>2. NoRows \in RowSets /\ Resting(FALSE) \in Unladen
  BY DEF NoRows, RowSets, QuoteRows, Resting, Unladen
<1>3. QuoteTypes
  BY <1>1, <1>2 DEF QuoteInit, QuoteTypes
<1>4. MoveInv
  BY DEF QuoteInit, MoveInv, AtHome, Resting
<1> QED
  BY <1>3, <1>4 DEF QuoteInv

LEMMA NewRequestTold == NewRequest \in ToldRows /\ NewRequest # NoRequest
  BY DEF NewRequest, NoRequest, ToldRows, Requested, OneStory, Texts

LEMMA ToldIsSome == NoRequest \notin ToldRows
<1> SUFFICES ASSUME NoRequest \in ToldRows PROVE FALSE
  OBVIOUS
<1>1. NoRequest.status \in {"requested", "viewed", "quoted", "closed"}
  BY DEF ToldRows, Requested
<1> QED
  BY <1>1 DEF NoRequest

\* An update keeps a row's story whole, and leaves a closed row's status and
\* quote alone.
LEMMA UpdateTold ==
  ASSUME NEW r \in ToldRows, NEW u \in Updates
  PROVE  /\ BuildUpdated(r, u) \in ToldRows
         /\ r.status = "closed" =>
               BuildUpdated(r, u).status = "closed" /\ BuildUpdated(r, u).message = r.message
<1>1. /\ u.status \in {"viewed", "quoted", "closed"} /\ u.message \in Texts /\ u.note \in Texts
      /\ u.status = "quoted" => u.message # NoText
  BY DEF Updates
<1>2. CASE r.status = "closed" /\ u.status # "closed"
  BY <1>2 DEF BuildUpdated
<1>3. CASE r.status # "closed" /\ u.status = "viewed"
  <2>1. BuildUpdated(r, u) = Viewed(r)
    BY <1>3 DEF BuildUpdated
  <2>2. Viewed(r) \in Requested
    BY DEF Viewed, ToldRows, Requested
  <2>3. OneStory(Viewed(r))
    BY <1>3 DEF Viewed, ToldRows, Requested, OneStory
  <2> QED
    BY <1>3, <2>1, <2>2, <2>3 DEF ToldRows
<1>4. CASE r.status # "closed" /\ u.status = "quoted"
  <2>1. BuildUpdated(r, u) = Quoted(r, u)
    BY <1>4 DEF BuildUpdated
  <2>2. Quoted(r, u) \in Requested
    BY <1>1 DEF Quoted, ToldRows, Requested
  <2>3. OneStory(Quoted(r, u))
    BY <1>1, <1>4 DEF Quoted, ToldRows, Requested, OneStory
  <2> QED
    BY <1>4, <2>1, <2>2, <2>3 DEF ToldRows
<1>5. CASE u.status = "closed"
  <2>1. BuildUpdated(r, u) = Closed(r, u)
    BY <1>5 DEF BuildUpdated
  <2>2. Closed(r, u) \in Requested
    BY <1>1 DEF Closed, ToldRows, Requested
  <2>3. OneStory(Closed(r, u)) /\ Closed(r, u).status = "closed" /\ Closed(r, u).message = r.message
    BY <1>5 DEF Closed, ToldRows, Requested, OneStory
  <2> QED
    BY <2>1, <2>2, <2>3 DEF ToldRows
<1> QED
  BY <1>1, <1>2, <1>3, <1>4, <1>5

\* One process moves; what it moves to is as it should be.
LEMMA ServerMoves ==
  ASSUME QuoteInv, NEW p \in Servers, NEW r \in Unladen \union Laden, AtHome(r),
         server' = [server EXCEPT ![p] = r],
         UNCHANGED <<durable, quoteFile, quoteTable, card>>
  PROVE  QuoteInv'
<1>1. QuoteTypes'
  BY DEF QuoteInv, QuoteTypes
<1>2. \A q \in Servers : AtHome(server'[q])
  BY DEF QuoteInv, QuoteTypes, MoveInv
<1>3. Imported' <=> Imported
  BY DEF Imported
<1>4. MoveInv'
  BY <1>2, <1>3 DEF QuoteInv, MoveInv, AtHome
<1> QED
  BY <1>1, <1>4 DEF QuoteInv

\* Only the file changes, which nobody is importing yet.
LEMMA FileChanges ==
  ASSUME QuoteInv, ~durable, NEW p \in Servers, NEW r \in Unladen \union Laden,
         r.step \in {"idle", "writing"}, ~r.ready, quoteFile' \in RowSets,
         server' = [server EXCEPT ![p] = r],
         UNCHANGED <<durable, quoteTable, card>>
  PROVE  QuoteInv'
<1>1. QuoteTypes'
  BY DEF QuoteInv, QuoteTypes
<1>2. \A q \in Servers : server[q].step \notin {"empty", "importing"} /\ ~server[q].ready
  BY DEF QuoteInv, MoveInv, AtHome
<1>3. \A q \in Servers : server'[q].step \notin {"empty", "importing"} /\ ~server'[q].ready
  BY <1>2 DEF QuoteInv, QuoteTypes
<1>4. MoveInv'
  BY <1>3 DEF QuoteInv, MoveInv, AtHome
<1> QED
  BY <1>1, <1>4 DEF QuoteInv

\* The table of a store that is ready changes, and keeps every row.
LEMMA TableChanges ==
  ASSUME QuoteInv, NEW p \in Servers, Serving(p), quoteTable' \in RowSets,
         \A q \in QuoteIds : quoteTable[q] # NoRequest => quoteTable'[q] # NoRequest,
         card' \in CardStates, UNCHANGED <<durable, quoteFile, server>>
  PROVE  QuoteInv'
<1>1. QuoteTypes'
  BY DEF QuoteInv, QuoteTypes
<1>2. durable /\ Imported
  BY DEF QuoteInv, MoveInv, AtHome, Serving
<1>3. Imported'
  BY <1>2 DEF Imported
<1>4. \A q \in Servers : AtHome(server[q])'
  BY <1>3 DEF QuoteInv, MoveInv, AtHome
<1>5. MoveInv'
  BY <1>2, <1>3, <1>4 DEF QuoteInv, MoveInv
<1> QED
  BY <1>1, <1>5 DEF QuoteInv

\* Only the page changes.
LEMMA PageChanges ==
  ASSUME QuoteInv, card' \in CardStates,
         UNCHANGED <<durable, quoteFile, quoteTable, server>>
  PROVE  QuoteInv'
  BY DEF QuoteInv, QuoteTypes, MoveInv, AtHome, Imported

\* The steps of a process.
LEMMA ServerStep ==
  ASSUME QuoteInv, NEW p \in Servers,
         \/ FileRead(p) \/ ImportCount(p) \/ ImportRead(p) \/ ServerFails(p)
  PROVE  QuoteInv'
<1> DEFINE read == [step |-> "read", ready |-> FALSE, rows |-> quoteFile]
           importing == [step |-> "importing", ready |-> FALSE, rows |-> quoteFile]
           empty == [step |-> "empty", ready |-> FALSE]
<1>1. \A b \in BOOLEAN : Resting(b) \in Unladen
  BY DEF Resting, Unladen
<1>2. read \in Laden /\ importing \in Laden /\ empty \in Unladen
  BY DEF QuoteInv, QuoteTypes, Laden, Unladen
<1>3. AtHome(Resting(FALSE))
  BY DEF AtHome, Resting
<1>4. CASE FileRead(p)
  <2>1. AtHome(read)
    BY <1>4 DEF AtHome, FileRead
  <2> QED
    BY <1>2, <1>4, <2>1, ServerMoves DEF FileRead
<1>5. CASE ImportCount(p)
  <2>1. durable
    BY <1>5 DEF ImportCount
  <2>2. CASE quoteTable # NoRows
    <3>1. AtHome(Resting(TRUE))
      BY <2>1, <2>2 DEF QuoteInv, MoveInv, AtHome, Resting
    <3>2. server' = [server EXCEPT ![p] = Resting(TRUE)]
      BY <1>5, <2>2 DEF ImportCount
    <3> QED
      BY <1>1, <1>5, <3>1, <3>2, ServerMoves DEF ImportCount
  <2>3. CASE quoteTable = NoRows
    <3>1. AtHome(empty)
      BY <2>1 DEF AtHome
    <3>2. server' = [server EXCEPT ![p] = empty]
      BY <1>5, <2>3 DEF ImportCount
    <3> QED
      BY <1>2, <1>5, <3>1, <3>2, ServerMoves DEF ImportCount
  <2> QED
    BY <2>2, <2>3
<1>6. CASE ImportRead(p)
  <2>1. durable
    BY <1>6 DEF ImportRead, Now, QuoteInv, MoveInv, AtHome
  <2>2. CASE quoteFile = NoRows
    <3>1. AtHome(Resting(TRUE))
      BY <2>1, <2>2 DEF AtHome, Resting, Imported, NoRows
    <3>2. server' = [server EXCEPT ![p] = Resting(TRUE)]
      BY <1>6, <2>2 DEF ImportRead
    <3> QED
      BY <1>1, <1>6, <3>1, <3>2, ServerMoves DEF ImportRead
  <2>3. CASE quoteFile # NoRows
    <3>1. AtHome(importing)
      BY <2>1 DEF AtHome
    <3>2. server' = [server EXCEPT ![p] = importing]
      BY <1>6, <2>3 DEF ImportRead
    <3> QED
      BY <1>2, <1>6, <3>1, <3>2, ServerMoves DEF ImportRead
  <2> QED
    BY <2>2, <2>3
<1>7. CASE ServerFails(p)
  BY <1>1, <1>3, <1>7, ServerMoves DEF ServerFails
<1> QED
  BY <1>4, <1>5, <1>6, <1>7

\* The file is emptied, with its next content in the hands of the process.
LEMMA TruncateStep ==
  ASSUME QuoteInv, NEW p \in Servers, NEW rows \in RowSets, FileTruncate(p, rows),
         UNCHANGED <<durable, quoteTable, card>>
  PROVE  QuoteInv'
<1>1. server[p].step = "read" /\ ~durable /\ ~server[p].ready
  BY DEF FileTruncate, Now, QuoteInv, MoveInv, AtHome
<1>2. server[p] \in Laden
  BY <1>1 DEF QuoteInv, QuoteTypes, Unladen
<1> PICK r \in Laden : r = server[p]
  BY <1>2
<1> PICK one \in Laden : one = [r EXCEPT !.step = "writing"]
  BY DEF Laden
<1>3. one.step = "writing" /\ ~one.ready
  BY DEF Laden
<1> PICK two \in Laden : two = [one EXCEPT !.rows = rows]
  BY DEF Laden
<1>4. two.step = "writing" /\ ~two.ready
  BY <1>3 DEF Laden
<1>5. server' = [server EXCEPT ![p] = two]
  BY DEF FileTruncate
<1>6. quoteFile' \in RowSets
  BY DEF FileTruncate, NoRows, RowSets, QuoteRows
<1> QED
  BY <1>1, <1>4, <1>5, <1>6, FileChanges

LEMMA FileStep ==
  ASSUME QuoteInv, NEW p \in Servers, NEW q \in QuoteIds,
         FileCreate(p, q) \/ \E u \in Updates : FileUpdate(p, q, u)
  PROVE  QuoteInv'
<1>1. server[p].step = "read"
  BY DEF FileCreate, FileUpdate, FileTruncate, Now
<1>2. server[p] \in Laden /\ server[p].rows \in RowSets
  BY <1>1 DEF QuoteInv, QuoteTypes, Unladen, Laden
<1>3. CASE FileCreate(p, q)
  <2>1. [server[p].rows EXCEPT ![q] = NewRequest] \in RowSets
    BY <1>2, NewRequestTold DEF RowSets, QuoteRows
  <2> QED
    BY <1>3, <2>1, TruncateStep DEF FileCreate
<1>4. ASSUME NEW u \in Updates, FileUpdate(p, q, u)
      PROVE  QuoteInv'
  <2>1. server[p].rows[q] \in ToldRows
    BY <1>2, <1>4 DEF FileUpdate, RowSets, QuoteRows
  <2>2. [server[p].rows EXCEPT ![q] = BuildUpdated(@, u)] \in RowSets
    BY <1>2, <2>1, UpdateTold DEF RowSets, QuoteRows
  <2> QED
    BY <1>4, <2>2, TruncateStep DEF FileUpdate
<1> QED
  BY <1>3, <1>4

LEMMA FileWriteStep ==
  ASSUME QuoteInv, NEW p \in Servers, FileWrite(p)
  PROVE  QuoteInv'
<1>1. server[p].step = "writing" /\ ~durable
  BY DEF FileWrite, Now, QuoteInv, MoveInv, AtHome
<1>2. server[p].rows \in RowSets
  BY <1>1 DEF QuoteInv, QuoteTypes, Unladen, Laden
<1>3. Resting(FALSE) \in Unladen /\ Resting(FALSE).step = "idle" /\ ~Resting(FALSE).ready
  BY DEF Resting, Unladen
<1> QED
  BY <1>1, <1>2, <1>3, FileChanges DEF FileWrite

LEMMA ConfigureStep ==
  ASSUME QuoteInv, ConfigureDatabase
  PROVE  QuoteInv'
<1>1. EmptyCard \in CardStates /\ Resting(FALSE) \in Unladen
  BY DEF EmptyCard, CardStates, QuoteRows, Texts, Resting, Unladen
<1>2. QuoteTypes'
  BY <1>1 DEF QuoteInv, QuoteTypes, ConfigureDatabase
<1>3. quoteTable' = NoRows
  BY DEF QuoteInv, MoveInv, ConfigureDatabase
<1>4. \A p \in Servers : AtHome(server[p])'
  BY DEF ConfigureDatabase, AtHome, Resting
<1>5. MoveInv'
  BY <1>3, <1>4 DEF MoveInv, ConfigureDatabase, AtHome, Resting, NoRows
<1> QED
  BY <1>2, <1>5 DEF QuoteInv

LEMMA MergedRows ==
  ASSUME NEW table \in RowSets, NEW rows \in RowSets
  PROVE  /\ Merged(table, rows) \in RowSets
         /\ \A q \in QuoteIds :
               /\ table[q] # NoRequest => Merged(table, rows)[q] = table[q]
               /\ rows[q] # NoRequest => Merged(table, rows)[q] # NoRequest
  BY DEF Merged, RowSets

LEMMA InsertStep ==
  ASSUME QuoteInv, NEW p \in Servers, ImportInsert(p)
  PROVE  QuoteInv'
<1>1. durable /\ server[p].step = "importing" /\ server[p].rows = quoteFile
  BY DEF ImportInsert, Now, QuoteInv, MoveInv, AtHome
<1>2. quoteTable' = Merged(quoteTable, quoteFile)
  BY <1>1 DEF ImportInsert
<1>3. quoteTable' \in RowSets /\ Imported'
  BY <1>2, MergedRows DEF QuoteInv, QuoteTypes, Imported, ImportInsert
<1>4. Resting(TRUE) \in Unladen
  BY DEF Resting, Unladen
<1>5. QuoteTypes'
  BY <1>3, <1>4 DEF QuoteInv, QuoteTypes, ImportInsert
<1>6. \A r \in Servers : server'[r] = server[r] \/ server'[r] = Resting(TRUE)
  BY DEF ImportInsert, QuoteInv, QuoteTypes
<1>7. ASSUME NEW r \in Servers
      PROVE  AtHome(server[r])'
  <2>1. CASE server'[r] = server[r]
    BY <1>3, <2>1 DEF QuoteInv, MoveInv, AtHome, ImportInsert
  <2>2. CASE server'[r] = Resting(TRUE)
    BY <1>1, <1>3, <2>2 DEF AtHome, Resting, ImportInsert
  <2> QED
    BY <1>6, <2>1, <2>2
<1>8. MoveInv'
  BY <1>1, <1>3, <1>7 DEF MoveInv, ImportInsert
<1> QED
  BY <1>5, <1>8 DEF QuoteInv

LEMMA UpdatedStep ==
  ASSUME QuoteInv, NEW p \in Servers, NEW q \in QuoteIds, NEW u \in Updates,
         QuoteUpdated(p, q, u), card' \in CardStates
  PROVE  QuoteInv'
<1>1. quoteTable[q] \in ToldRows
  BY DEF QuoteUpdated, QuoteInv, QuoteTypes, RowSets, QuoteRows
<1>2. BuildUpdated(quoteTable[q], u) \in ToldRows
  BY <1>1, UpdateTold
<1>3. quoteTable' \in RowSets
  BY <1>2 DEF QuoteUpdated, QuoteInv, QuoteTypes, RowSets, QuoteRows
<1>4. \A k \in QuoteIds : quoteTable[k] # NoRequest => quoteTable'[k] # NoRequest
  BY <1>2, ToldIsSome DEF QuoteUpdated, QuoteInv, QuoteTypes, RowSets
<1> QED
  BY <1>3, <1>4, TableChanges DEF QuoteUpdated

LEMMA CreateStep ==
  ASSUME QuoteInv, NEW p \in Servers, NEW q \in QuoteIds, QuoteCreate(p, q)
  PROVE  QuoteInv'
<1>1. quoteTable' \in RowSets
  BY NewRequestTold DEF QuoteCreate, QuoteInv, QuoteTypes, RowSets, QuoteRows
<1>2. \A k \in QuoteIds : quoteTable[k] # NoRequest => quoteTable'[k] # NoRequest
  BY NewRequestTold DEF QuoteCreate, QuoteInv, QuoteTypes, RowSets
<1>3. card' \in CardStates
  BY DEF QuoteCreate, QuoteInv, QuoteTypes
<1> QED
  BY <1>1, <1>2, <1>3, TableChanges DEF QuoteCreate

\* The drafts a row leaves on the card.
LEMMA DraftedCard ==
  ASSUME card \in CardStates, NEW row \in QuoteRows
  PROVE  Drafted(row) \in CardStates
<1>1. row # NoRequest => row.message \in Texts /\ row.note \in Texts
  BY DEF QuoteRows, ToldRows, Requested
<1> DEFINE message == IF row = NoRequest THEN NoText ELSE row.message
           note == IF row = NoRequest THEN NoText ELSE row.note
<1>2. message \in Texts /\ note \in Texts
  BY <1>1 DEF Texts
<1>3. Drafted(row) = [card EXCEPT !.draft = message, !.note = note]
  BY DEF Drafted
<1> HIDE DEF message, note
<1> QED
  BY <1>2, <1>3 DEF CardStates

LEMMA ListStep ==
  ASSUME QuoteInv, NEW row,
         \/ \E p \in Servers : row \in Listed /\ LoadQueue(p, row)
         \/ row \in card.lists /\ (QueueLoaded(row) \/ QueueFails(row))
  PROVE  QuoteInv'
<1>1. card \in CardStates /\ card.lists \subseteq QuoteRows
  BY DEF QuoteInv, QuoteTypes, CardStates
<1>2. CASE \E p \in Servers : row \in Listed /\ LoadQueue(p, row)
  <2>1. row \in QuoteRows
    BY <1>2, CardAssumption DEF Listed, QuoteInv, QuoteTypes, RowSets, QuoteRows
  <2>2. card' \in CardStates
    BY <1>1, <1>2, <2>1 DEF LoadQueue, CardStates
  <2> QED
    BY <1>2, <2>2, PageChanges DEF LoadQueue
<1>3. CASE row \in card.lists /\ QueueLoaded(row)
  <2>1. row \in QuoteRows
    BY <1>1, <1>3
  <2> PICK drafted \in CardStates : drafted = Drafted(row)
    BY <1>1, <2>1, DraftedCard
  <2>2. card' = [drafted EXCEPT !.shown = row, !.loading = FALSE, !.lists = @ \ {row}]
    BY <1>3 DEF QueueLoaded
  <2>3. card' \in CardStates
    BY <2>1, <2>2 DEF CardStates
  <2> QED
    BY <1>3, <2>3, PageChanges DEF QueueLoaded
<1>4. CASE row \in card.lists /\ QueueFails(row)
  <2>1. card' \in CardStates
    BY <1>1, <1>4 DEF QueueFails, CardStates, QuoteRows
  <2> QED
    BY <1>4, <2>1, PageChanges DEF QueueFails
<1> QED
  BY <1>2, <1>3, <1>4

LEMMA ReplyStep ==
  ASSUME QuoteInv, NEW row \in card.replies, PageUpdated(row) \/ PageUpdateFails(row)
  PROVE  QuoteInv'
<1>1. card \in CardStates /\ card.replies \subseteq ToldRows
  BY DEF QuoteInv, QuoteTypes, CardStates
<1>2. row \in QuoteRows
  BY <1>1 DEF QuoteRows
<1>3. CASE PageUpdated(row)
  <2> PICK drafted \in CardStates : drafted = Drafted(row)
    BY <1>1, <1>2, DraftedCard
  <2>1. card' = [drafted EXCEPT !.shown = IF @ = NoRequest THEN @ ELSE row,
                                !.busy = FALSE, !.replies = @ \ {row}]
    BY <1>3 DEF PageUpdated
  <2>2. card' \in CardStates
    BY <1>2, <2>1 DEF CardStates
  <2> QED
    BY <1>3, <2>2, PageChanges DEF PageUpdated
<1>4. CASE PageUpdateFails(row)
  <2>1. card' \in CardStates
    BY <1>1, <1>4 DEF PageUpdateFails, CardStates
  <2> QED
    BY <1>4, <2>1, PageChanges DEF PageUpdateFails
<1> QED
  BY <1>3, <1>4

LEMMA PageUpdateStep ==
  ASSUME QuoteInv, NEW p \in Servers, NEW status \in {"viewed", "quoted", "closed"},
         PageUpdate(p, status)
  PROVE  QuoteInv'
<1> DEFINE u == [status |-> status, message |-> card.draft, note |-> card.note]
<1>1. card \in CardStates /\ card.draft \in Texts /\ card.note \in Texts
  BY DEF QuoteInv, QuoteTypes, CardStates
<1>2. status = "quoted" => card.draft # NoText
  BY DEF PageUpdate, Offered
<1>3. u \in Updates
  BY <1>1, <1>2 DEF Updates
<1>4. QuoteUpdated(p, CardId, u)
  BY DEF PageUpdate
<1>5. quoteTable[CardId] \in ToldRows
  BY <1>4, CardAssumption DEF QuoteUpdated, QuoteInv, QuoteTypes, RowSets, QuoteRows
<1> PICK reply \in ToldRows : reply = BuildUpdated(quoteTable[CardId], u)
  BY <1>3, <1>5, UpdateTold
<1>6. card' = [card EXCEPT !.busy = TRUE, !.replies = @ \union {reply}]
  BY DEF PageUpdate
<1>7. card' \in CardStates
  BY <1>1, <1>6 DEF CardStates
<1> HIDE DEF u
<1> QED
  BY <1>3, <1>4, <1>7, CardAssumption, UpdatedStep

LEMMA QuoteNext == QuoteInv /\ QuoteStep => QuoteInv'
<1> SUFFICES ASSUME QuoteInv, QuoteStep
             PROVE  QuoteInv'
  OBVIOUS
<1>1. CASE ConfigureDatabase
  BY <1>1, ConfigureStep
<1>2. ASSUME NEW p \in Servers,
             \/ FileRead(p) \/ ImportCount(p) \/ ImportRead(p) \/ ServerFails(p)
      PROVE  QuoteInv'
  BY <1>2, ServerStep
<1>3. ASSUME NEW p \in Servers, FileWrite(p) \/ ImportInsert(p)
      PROVE  QuoteInv'
  BY <1>3, FileWriteStep, InsertStep
<1>4. ASSUME NEW p \in Servers, NEW row \in Listed, LoadQueue(p, row)
      PROVE  QuoteInv'
  BY <1>4, ListStep
<1>5. ASSUME NEW p \in Servers, NEW q \in QuoteIds,
             FileCreate(p, q) \/ \E u \in Updates : FileUpdate(p, q, u)
      PROVE  QuoteInv'
  BY <1>5, FileStep
<1>6. ASSUME NEW p \in Servers, NEW q \in QuoteIds, QuoteCreate(p, q)
      PROVE  QuoteInv'
  BY <1>6, CreateStep
<1>7. ASSUME NEW p \in Servers, NEW q \in QuoteIds, NEW u \in Updates, QuoteUpdate(p, q, u)
      PROVE  QuoteInv'
  <2>1. card' \in CardStates
    BY <1>7 DEF QuoteUpdate, QuoteInv, QuoteTypes
  <2> QED
    BY <1>7, <2>1, UpdatedStep DEF QuoteUpdate
<1>8. ASSUME NEW p \in Servers, NEW status \in {"viewed", "quoted", "closed"},
             PageUpdate(p, status)
      PROVE  QuoteInv'
  BY <1>8, PageUpdateStep
<1>9. ASSUME NEW message \in Texts, NEW note \in Texts, EditDraft(message, note)
      PROVE  QuoteInv'
  <2>1. card' \in CardStates
    BY <1>9 DEF EditDraft, QuoteInv, QuoteTypes, CardStates
  <2> QED
    BY <1>9, <2>1, PageChanges DEF EditDraft
<1>10. ASSUME NEW row \in card.lists, QueueLoaded(row) \/ QueueFails(row)
       PROVE  QuoteInv'
  BY <1>10, ListStep
<1>11. CASE OtherCardUsed
  <2>1. card' \in CardStates
    BY <1>11 DEF OtherCardUsed, QuoteInv, QuoteTypes, CardStates
  <2> QED
    BY <1>11, <2>1, PageChanges DEF OtherCardUsed
<1>12. ASSUME NEW row \in card.replies, PageUpdated(row) \/ PageUpdateFails(row)
       PROVE  QuoteInv'
  BY <1>12, ReplyStep
<1> QED
  BY <1>1, <1>2, <1>3, <1>4, <1>5, <1>6, <1>7, <1>8, <1>9, <1>10, <1>11, <1>12 DEF QuoteStep

\* The inductive invariant of the quote requests: every row, wherever a copy
\* of it is, tells one story, and the move to the database is done before
\* anybody uses the table.
THEOREM QuoteInvariance == QuotesSpec => []QuoteInv
<1>1. QuoteInv /\ UNCHANGED quoteVars => QuoteInv'
  BY PageChanges DEF quoteVars, QuoteInv, QuoteTypes
<1> QED
  BY <1>1, QuoteStart, QuoteNext, PTL DEF QuotesSpec

\* The status of a request, its quote and its dates tell one story in the
\* file, in the table and on the page (buildUpdatedRecord and its callers).
THEOREM QuotesConsistent == QuotesSpec => []QuotesTellOneStory
<1>1. QuoteInv => QuotesTellOneStory
  <2> SUFFICES ASSUME QuoteInv,
                      NEW r \in {quoteFile[q] : q \in QuoteIds}
                                \union {quoteTable[q] : q \in QuoteIds} \union {card.shown},
                      r # NoRequest
               PROVE  OneStory(r)
    BY DEF QuotesTellOneStory, OneStory
  <2>1. r \in QuoteRows
    BY DEF QuoteInv, QuoteTypes, RowSets, CardStates
  <2> QED
    BY <2>1 DEF QuoteRows, ToldRows
<1> QED
  BY <1>1, QuoteInvariance, PTL

\* The move to the database leaves nothing behind (ensureDatabaseStoreReady).
THEOREM MovedWhole == QuotesSpec => []NothingLeftBehind
<1>1. QuoteInv => NothingLeftBehind
  BY DEF QuoteInv, MoveInv, NothingLeftBehind, Imported
<1> QED
  BY <1>1, QuoteInvariance, PTL

\* Every quote request is in one piece and none is left behind.
THEOREM QuotesWhole == QuotesSpec => []QuotesAreWhole
BY QuotesConsistent, MovedWhole, PTL DEF QuotesAreWhole

\* Once closed, always closed, with the quote as it was (updateQuoteRequest).
THEOREM ClosedIsFinal == QuotesSpec => ClosedStaysClosed
<1> DEFINE Stays == \A q \in QuoteIds : quoteTable[q].status = "closed" =>
                       /\ quoteTable'[q].status = "closed"
                       /\ quoteTable'[q].message = quoteTable[q].message
<1>1. ASSUME QuoteInv, QuoteStep, quoteTable' # quoteTable
      PROVE  Stays
  <2>1. \A q \in QuoteIds : quoteTable[q].status = "closed" => quoteTable[q] # NoRequest
    BY DEF NoRequest
  <2>2. ASSUME NEW p \in Servers, ImportInsert(p)
        PROVE  Stays
    <3>1. quoteTable' = Merged(quoteTable, quoteFile) /\ quoteTable \in RowSets /\ quoteFile \in RowSets
      BY <1>1, <2>2 DEF ImportInsert, Now, QuoteInv, QuoteTypes, MoveInv, AtHome
    <3> QED
      BY <2>1, <3>1, MergedRows
  <2>3. ASSUME NEW p \in Servers, NEW q \in QuoteIds, QuoteCreate(p, q)
        PROVE  Stays
    BY <1>1, <2>1, <2>3 DEF QuoteCreate, QuoteInv, QuoteTypes, RowSets
  <2>4. ASSUME NEW p \in Servers, NEW q \in QuoteIds, NEW u \in Updates, QuoteUpdated(p, q, u)
        PROVE  Stays
    <3>1. quoteTable[q] \in ToldRows /\ quoteTable' = [quoteTable EXCEPT ![q] = BuildUpdated(@, u)]
      BY <1>1, <2>4 DEF QuoteUpdated, QuoteInv, QuoteTypes, RowSets, QuoteRows
    <3>2. \A k \in QuoteIds \ {q} : quoteTable'[k] = quoteTable[k]
      BY <1>1, <3>1 DEF QuoteInv, QuoteTypes, RowSets
    <3>3. quoteTable'[q] = BuildUpdated(quoteTable[q], u)
      BY <1>1, <3>1 DEF QuoteInv, QuoteTypes, RowSets
    <3> QED
      BY <3>1, <3>2, <3>3, UpdateTold
  <2>5. ASSUME NEW p \in Servers, NEW status \in {"viewed", "quoted", "closed"},
               PageUpdate(p, status)
        PROVE  Stays
    <3> DEFINE u == [status |-> status, message |-> card.draft, note |-> card.note]
    <3>1. u \in Updates
      BY <1>1, <2>5 DEF PageUpdate, Offered, QuoteInv, QuoteTypes, CardStates, Updates
    <3>2. QuoteUpdated(p, CardId, u)
      BY <2>5 DEF PageUpdate
    <3> HIDE DEF u, Stays
    <3> QED
      BY <2>4, <3>1, <3>2, CardAssumption
  <2> HIDE DEF Stays
  <2>6. \/ \E p \in Servers : ImportInsert(p)
        \/ \E p \in Servers, q \in QuoteIds : QuoteCreate(p, q)
        \/ \E p \in Servers, q \in QuoteIds, u \in Updates : QuoteUpdated(p, q, u)
        \/ \E p \in Servers, status \in {"viewed", "quoted", "closed"} : PageUpdate(p, status)
    BY <1>1 DEF QuoteStep, ConfigureDatabase, FileRead, FileWrite, ImportCount, ImportRead,
                ServerFails, LoadQueue, FileCreate, FileUpdate, QuoteUpdate, EditDraft,
                QueueLoaded, QueueFails, OtherCardUsed, PageUpdated, PageUpdateFails
  <2> QED
    BY <2>2, <2>3, <2>4, <2>5, <2>6
<1>2. QuoteInv /\ [QuoteStep]_quoteVars => [Stays]_quoteTable
  BY <1>1 DEF quoteVars
<1> QED
  BY <1>2, QuoteInvariance, PTL DEF QuotesSpec, ClosedStaysClosed

-------------------------------------------------------------------------------
(***************************************************************************)
(* Migrations of the store.                                                *)
(***************************************************************************)

MigrationsSpec == MigrationsInit /\ [][MigrationStep]_migrationVars

Hashes == {NoHash} \union {g.hash : g \in ReleasedMigrations}
Histories == [MigrationFiles -> Hashes]

\* A deployment that has nothing to do with the history, and one that has.
Aside == [at : {"idle", "failed", "done"}]
Queued == [at : {"locking", "reading"}, list : Releases]
Applying == [at : {"applying", "ran"}, list : Releases, known : Histories]

MigrationTypes ==
    /\ schema \in Seq(ReleasedMigrations)
    /\ handMade \in [{l.file : l \in LegacyHashes} -> {"absent", "compatible", "incompatible"}]
    /\ recorded \in Histories
    /\ deployments \in [Deployments -> Aside \union Queued \union Applying]

Holds(t) == t.at \in {"reading", "applying", "ran"}

\* A deployment at work holds the lock, knows the history as it is, and its
\* list agrees with it.
LockInv ==
    \A d \in Deployments :
       /\ Holds(deployments[d]) => holder = d
       /\ deployments[d].at \in {"applying", "ran"} =>
             /\ deployments[d].known = recorded
             /\ ~Rewritten(deployments[d].list, recorded)
       /\ deployments[d].at = "ran" => Pending(deployments[d]) # {}

MigrationInv == MigrationTypes /\ LockInv /\ HistoryIsTrue

\* The first of some places in a list is one of them.
LEMMA SomeLeast ==
  ASSUME NEW T, T \subseteq Nat, T # {}
  PROVE  \E x \in T : \A y \in T : x <= y
<1>0. \A x, y \in Nat : ~(y < x) => x <= y
  OBVIOUS
<1>1. \E x \in T : \A y \in T : ~(<<y, x>> \in OpToRel(<, Nat))
  BY NatLessThanWellFounded, WFMin
<1>2. \A x, y \in T : <<y, x>> \notin OpToRel(<, Nat) => x <= y
  <2> SUFFICES ASSUME NEW x \in T, NEW y \in T, <<y, x>> \notin OpToRel(<, Nat)
               PROVE  x <= y
    OBVIOUS
  <2>1. x \in Nat /\ y \in Nat /\ <<y, x>> \in Nat \X Nat
    OBVIOUS
  <2>2. ~(y < x)
    BY <2>1 DEF OpToRel
  <2> QED
    BY <1>0, <2>1, <2>2, Zenon
<1> QED
  BY <1>1, <1>2

LEMMA MinIsMember ==
  ASSUME NEW T, T \subseteq Nat, T # {}
  PROVE  Min(T) \in T
  BY SomeLeast DEF Min

LEMMA FirstIsPending ==
  ASSUME NEW t, t.list \in Releases, Pending(t) # {}
  PROVE  /\ \E i \in DOMAIN t.list : FirstPending(t) = t.list[i]
         /\ FirstPending(t) \in ReleasedMigrations
         /\ FirstPending(t).file \in MigrationFiles
         /\ FirstPending(t).hash \in Hashes \ {NoHash}
         /\ t.known[FirstPending(t).file] = NoHash
<1>1. t.list \in Seq(ReleasedMigrations)
  BY ReleasesAssumption
<1>2. DOMAIN t.list \subseteq Nat
  BY <1>1
<1>3. Min(Pending(t)) \in Pending(t)
  BY <1>2, MinIsMember DEF Pending
<1>4. /\ FirstPending(t) \in ReleasedMigrations
      /\ \E i \in DOMAIN t.list : FirstPending(t) = t.list[i]
      /\ t.known[FirstPending(t).file] = NoHash
  <2> PICK i \in Pending(t) : i = Min(Pending(t))
    BY <1>3
  <2>1. FirstPending(t) = t.list[i]
    BY DEF FirstPending
  <2>2. i \in DOMAIN t.list /\ t.known[t.list[i].file] = NoHash
    BY DEF Pending
  <2> QED
    BY <1>1, <2>1, <2>2
<1> QED
  BY <1>4, ReleasesAssumption DEF MigrationFiles, Hashes

LEMMA MigrationStart == MigrationsInit => MigrationInv
<1> SUFFICES ASSUME MigrationsInit PROVE MigrationInv
  OBVIOUS
<1>1. MigrationTypes
  BY DEF MigrationsInit, MigrationTypes, Histories, Hashes, NotStarted, Aside
<1>2. LockInv
  BY DEF MigrationsInit, LockInv, NotStarted, Holds
<1>3. HistoryIsTrue
  BY DEF MigrationsInit, HistoryIsTrue
<1> QED
  BY <1>1, <1>2, <1>3 DEF MigrationInv

\* One deployment moves, and the history stays as it is.
LEMMA DeploymentMoves ==
  ASSUME MigrationInv, NEW d \in Deployments, NEW t \in Aside \union Queued \union Applying,
         Set(d, t), UNCHANGED <<schema, handMade, recorded>>,
         \A e \in Deployments \ {d} : Holds(deployments[e]) => holder' = holder,
         Holds(t) => holder' = d,
         t.at \in {"applying", "ran"} => t.known = recorded /\ ~Rewritten(t.list, recorded),
         t.at = "ran" => Pending(t) # {}
  PROVE  MigrationInv'
<1>1. deployments' = [deployments EXCEPT ![d] = t]
  BY DEF Set
<1>2. MigrationTypes'
  BY <1>1 DEF MigrationInv, MigrationTypes
<1>3. \A e \in Deployments : \/ e = d /\ deployments'[e] = t
                             \/ e # d /\ deployments'[e] = deployments[e]
  BY <1>1 DEF MigrationInv, MigrationTypes
<1>4. LockInv'
  <2> SUFFICES ASSUME NEW e \in Deployments
               PROVE  /\ Holds(deployments'[e]) => holder' = e
                      /\ deployments'[e].at \in {"applying", "ran"} =>
                            /\ deployments'[e].known = recorded
                            /\ ~Rewritten(deployments'[e].list, recorded)
                      /\ deployments'[e].at = "ran" => Pending(deployments'[e]) # {}
    BY DEF LockInv, Holds, Rewritten, Pending
  <2>1. CASE e = d /\ deployments'[e] = t
    BY <2>1
  <2>2. CASE e # d /\ deployments'[e] = deployments[e]
    BY <2>2 DEF MigrationInv, LockInv
  <2> QED
    BY <1>3, <2>1, <2>2
<1>5. HistoryIsTrue'
  BY DEF MigrationInv, HistoryIsTrue
<1> QED
  BY <1>2, <1>4, <1>5 DEF MigrationInv

LEMMA DeploymentLeaves ==
  ASSUME MigrationInv, NEW d \in Deployments, NEW at \in {"failed", "done"},
         Leave(d, at), UNCHANGED <<schema, handMade, recorded>>
  PROVE  MigrationInv'
<1> PICK t \in Aside : t = [at |-> at]
  BY DEF Aside
<1>1. t.at \notin {"reading", "applying", "ran"}
  OBVIOUS
<1>2. \A e \in Deployments \ {d} : Holds(deployments[e]) => holder = e
  BY DEF MigrationInv, LockInv
<1>3. \A e \in Deployments \ {d} : Holds(deployments[e]) => holder' = holder
  BY <1>2 DEF Leave
<1> QED
  BY <1>1, <1>3, DeploymentMoves DEF Leave, Holds

\* The holder of the lock records the first pending migration; its SQL is
\* committed with it, unless it had been applied by hand.
LEMMA Recording ==
  ASSUME MigrationInv, NEW d \in Deployments, deployments[d].at \in {"applying", "ran"},
         Pending(deployments[d]) # {}, RecordMigration(d, FirstPending(deployments[d])),
         handMade' = handMade,
         LET g == FirstPending(deployments[d]) IN
            \/ schema' = Append(schema, g)
            \/ schema' = schema /\ LegacyState(g) = "compatible"
  PROVE  MigrationInv'
<1> PICK t \in Applying : t = deployments[d]
  BY DEF MigrationInv, MigrationTypes, Aside, Queued
<1> PICK g \in ReleasedMigrations : g = FirstPending(t)
  BY FirstIsPending DEF Applying
<1>1. /\ t.list \in Releases /\ t.known \in Histories
      /\ t.known = recorded /\ ~Rewritten(t.list, recorded) /\ holder = d
  BY DEF Applying, MigrationInv, LockInv, Holds
<1>2. /\ \E i \in DOMAIN t.list : g = t.list[i]
      /\ g.file \in MigrationFiles /\ g.hash \in Hashes /\ g.hash # NoHash
      /\ recorded[g.file] = NoHash
  BY <1>1, FirstIsPending
<1>3. /\ recorded' = [recorded EXCEPT ![g.file] = g.hash]
      /\ Set(d, [t EXCEPT !.at = "applying", !.known[g.file] = g.hash])
      /\ holder' = holder
  BY <1>2 DEF RecordMigration
<1>4. recorded' \in Histories
  BY <1>2, <1>3 DEF MigrationInv, MigrationTypes, Histories
<1> PICK one \in Applying : one = [t EXCEPT !.at = "applying"]
  BY DEF Applying
<1>5. one.at = "applying" /\ one.list = t.list /\ one.known = recorded
  BY <1>1 DEF Applying
<1> PICK new \in Applying : new = [one EXCEPT !.known = recorded']
  BY <1>4 DEF Applying
<1>6. new.at = "applying" /\ new.list = t.list /\ new.known = recorded'
  BY <1>5 DEF Applying
<1>7. deployments' = [deployments EXCEPT ![d] = new]
  BY <1>3, <1>5 DEF Set
<1>8. schema' \in Seq(ReleasedMigrations)
  BY DEF MigrationInv, MigrationTypes
<1>9. MigrationTypes'
  BY <1>4, <1>7, <1>8 DEF MigrationInv, MigrationTypes
<1>10. ~Rewritten(t.list, recorded')
  <2> SUFFICES ASSUME NEW i \in DOMAIN t.list
               PROVE  recorded'[t.list[i].file] \in {NoHash, t.list[i].hash}
    BY DEF Rewritten
  <2>1. t.list[i].file \in MigrationFiles
    BY <1>1, ReleasesAssumption DEF MigrationFiles
  <2>2. recorded[t.list[i].file] \in {NoHash, t.list[i].hash}
    BY <1>1 DEF Rewritten
  <2>3. CASE t.list[i].file = g.file
    <3>1. t.list[i] = g
      BY <1>1, <1>2, <2>3, ReleasesAssumption
    <3> QED
      BY <1>2, <1>3, <2>1, <3>1 DEF MigrationInv, MigrationTypes, Histories
  <2>4. CASE t.list[i].file # g.file
    BY <1>3, <2>1, <2>2, <2>4 DEF MigrationInv, MigrationTypes, Histories
  <2> QED
    BY <2>3, <2>4
<1>11. LockInv'
  <2> SUFFICES ASSUME NEW e \in Deployments
               PROVE  /\ Holds(deployments'[e]) => holder' = e
                      /\ deployments'[e].at \in {"applying", "ran"} =>
                            /\ deployments'[e].known = recorded'
                            /\ ~Rewritten(deployments'[e].list, recorded')
                      /\ deployments'[e].at = "ran" => Pending(deployments'[e]) # {}
    BY DEF LockInv, Holds, Rewritten, Pending
  <2>1. CASE e = d
    <3>1. deployments'[e] = new
      BY <1>7, <2>1 DEF MigrationInv, MigrationTypes
    <3> QED
      BY <1>1, <1>3, <1>6, <1>10, <2>1, <3>1
  <2>2. CASE e # d
    <3>1. deployments'[e] = deployments[e]
      BY <1>7, <2>2 DEF MigrationInv, MigrationTypes
    <3>2. ~Holds(deployments[e])
      BY <1>1, <2>2 DEF MigrationInv, LockInv
    <3> QED
      BY <3>1, <3>2 DEF Holds
  <2> QED
    BY <2>1, <2>2
<1>12. \A i \in DOMAIN schema : /\ schema[i].file \in MigrationFiles
                                /\ schema[i].file # g.file
                                /\ recorded'[schema[i].file] = schema[i].hash
  <2> SUFFICES ASSUME NEW i \in DOMAIN schema
               PROVE  /\ schema[i].file \in MigrationFiles
                      /\ schema[i].file # g.file
                      /\ recorded'[schema[i].file] = schema[i].hash
    OBVIOUS
  <2>1. schema[i] \in ReleasedMigrations
    BY DEF MigrationInv, MigrationTypes
  <2>2. recorded[schema[i].file] = schema[i].hash /\ schema[i].hash # NoHash
    BY <2>1, ReleasesAssumption DEF MigrationInv, HistoryIsTrue
  <2>3. schema[i].file \in MigrationFiles /\ schema[i].file # g.file
    BY <1>2, <2>1, <2>2 DEF MigrationFiles
  <2> QED
    BY <1>3, <2>2, <2>3 DEF MigrationInv, MigrationTypes, Histories
<1>13. recorded'[g.file] = g.hash /\ \A f \in MigrationFiles \ {g.file} : recorded'[f] = recorded[f]
  BY <1>2, <1>3 DEF MigrationInv, MigrationTypes, Histories
<1>14. HistoryIsTrue'
  <2>1. CASE schema' = Append(schema, g)
    <3> PICK last \in Nat : last = Len(schema) + 1
      BY DEF MigrationInv, MigrationTypes
    <3>1. /\ DOMAIN schema' = DOMAIN schema \union {last}
          /\ schema'[last] = g /\ last \notin DOMAIN schema
          /\ \A i \in DOMAIN schema : schema'[i] = schema[i]
      BY <2>1 DEF MigrationInv, MigrationTypes
    <3>2. \A i, j \in DOMAIN schema' : schema'[i].file = schema'[j].file => i = j
      BY <1>12, <3>1 DEF MigrationInv, HistoryIsTrue
    <3>3. \A i \in DOMAIN schema' : recorded'[schema'[i].file] = schema'[i].hash
      BY <1>12, <1>13, <3>1
    <3>4. ASSUME NEW f \in MigrationFiles, recorded'[f] # NoHash
          PROVE  \/ \E i \in DOMAIN schema' : schema'[i].file = f
                 \/ f \in DOMAIN handMade /\ handMade[f] = "compatible"
      <4>1. CASE f = g.file
        BY <3>1, <4>1
      <4>2. CASE f # g.file
        BY <1>13, <3>1, <3>4, <4>2 DEF MigrationInv, HistoryIsTrue
      <4> QED
        BY <4>1, <4>2
    <3> QED
      BY <3>2, <3>3, <3>4 DEF HistoryIsTrue
  <2>2. CASE schema' = schema /\ LegacyState(g) = "compatible"
    <3>1. g.file \in DOMAIN handMade /\ handMade[g.file] = "compatible"
      <4>1. [file |-> g.file, hash |-> g.hash] \in LegacyHashes /\ handMade[g.file] = "compatible"
        BY <2>2 DEF LegacyState
      <4>2. [file |-> g.file, hash |-> g.hash].file = g.file
        OBVIOUS
      <4>3. g.file \in {l.file : l \in LegacyHashes}
        BY <4>1, <4>2
      <4> QED
        BY <4>1, <4>3 DEF MigrationInv, MigrationTypes
    <3>2. \A i \in DOMAIN schema : recorded'[schema[i].file] = schema[i].hash
      BY <1>12
    <3>3. ASSUME NEW f \in MigrationFiles, recorded'[f] # NoHash
          PROVE  \/ \E i \in DOMAIN schema : schema[i].file = f
                 \/ f \in DOMAIN handMade /\ handMade[f] = "compatible"
      <4>1. CASE f = g.file
        BY <3>1, <4>1
      <4>2. CASE f # g.file
        BY <1>13, <3>3, <4>2 DEF MigrationInv, HistoryIsTrue
      <4> QED
        BY <4>1, <4>2
    <3> QED
      BY <2>2, <3>2, <3>3 DEF MigrationInv, HistoryIsTrue
  <2> QED
    BY <2>1, <2>2
<1> QED
  BY <1>9, <1>11, <1>14 DEF MigrationInv

LEMMA MigrationNext == MigrationInv /\ MigrationStep => MigrationInv'
<1> SUFFICES ASSUME MigrationInv, NEW d \in Deployments,
                    \/ \E release \in Releases : DeploymentStarts(d, release)
                    \/ TakeLock(d) \/ ReadHistory(d)
                    \/ Backfill(d) \/ RunSql(d) \/ SqlFails(d) \/ CommitMigration(d)
                    \/ DeploymentEnds(d) \/ DeploymentStops(d) \/ Redeploy(d)
             PROVE  MigrationInv'
  BY DEF MigrationStep
<1> DEFINE t == deployments[d]
<1>T. /\ t.at \in {"locking", "reading"} => t \in Queued
      /\ t.at \in {"applying", "ran"} => t \in Applying
  BY DEF MigrationInv, MigrationTypes, Aside, Queued, Applying
<1>L. \A e \in Deployments : Holds(deployments[e]) => holder = e
  BY DEF MigrationInv, LockInv
<1>1. ASSUME NEW release \in Releases, DeploymentStarts(d, release)
      PROVE  MigrationInv'
  <2>1. PICK new \in Aside \union Queued : Set(d, new) /\ new.at \in {"failed", "locking"}
    <3>1. [at |-> "failed"] \in Aside /\ [at |-> "locking", list |-> release] \in Queued
      BY DEF Aside, Queued
    <3> QED
      BY <1>1, <3>1 DEF DeploymentStarts
  <2> QED
    BY <1>1, <2>1, DeploymentMoves DEF DeploymentStarts, Holds
<1>2. CASE TakeLock(d)
  <2>1. t \in Queued /\ holder = NoDeployment /\ holder' = d
    BY <1>2, <1>T DEF TakeLock
  <2> PICK new \in Queued : new = [t EXCEPT !.at = "reading"]
    BY <2>1 DEF Queued
  <2>2. new.at = "reading"
    BY <2>1 DEF Queued
  <2>3. \A e \in Deployments \ {d} : ~Holds(deployments[e])
    BY <1>L, <2>1, ReleasesAssumption
  <2>4. Set(d, new) /\ UNCHANGED <<schema, handMade, recorded>>
    BY <1>2 DEF TakeLock
  <2> HIDE DEF t
  <2> QED
    BY <2>1, <2>2, <2>3, <2>4, DeploymentMoves
<1>3. CASE ReadHistory(d)
  <2>1. t \in Queued /\ t.list \in Releases /\ t.at = "reading" /\ holder = d
    BY <1>3, <1>T, <1>L DEF ReadHistory, Queued, Holds
  <2>2. CASE Rewritten(t.list, recorded)
    BY <1>3, <2>2, DeploymentLeaves DEF ReadHistory
  <2>3. CASE ~Rewritten(t.list, recorded)
    <3> PICK new \in Applying : new = [at |-> "applying", list |-> t.list, known |-> recorded]
      BY <2>1 DEF Applying, MigrationInv, MigrationTypes
    <3>1. new.at = "applying" /\ new.list = t.list /\ new.known = recorded
      OBVIOUS
    <3>2. Set(d, new) /\ holder' = holder /\ UNCHANGED <<schema, handMade, recorded>>
      BY <1>3, <2>3, <3>1 DEF ReadHistory
    <3> HIDE DEF t
    <3> QED
      BY <2>1, <2>3, <3>1, <3>2, DeploymentMoves
  <2> QED
    BY <2>2, <2>3
<1>4. CASE Backfill(d)
  BY <1>4, Recording DEF Backfill
<1>5. CASE RunSql(d)
  <2>1. /\ t \in Applying /\ Pending(t) # {} /\ holder = d
        /\ t.known = recorded /\ ~Rewritten(t.list, recorded)
    BY <1>5, <1>T, <1>L DEF RunSql, Holds, MigrationInv, LockInv
  <2> PICK new \in Applying : new = [t EXCEPT !.at = "ran"]
    BY <2>1 DEF Applying
  <2>2. new.at = "ran" /\ new.list = t.list /\ new.known = t.known
    BY <2>1 DEF Applying
  <2>3. Pending(new) # {}
    BY <2>1, <2>2 DEF Pending
  <2>4. Set(d, new) /\ holder' = holder /\ UNCHANGED <<schema, handMade, recorded>>
    BY <1>5, <2>2 DEF RunSql
  <2> HIDE DEF t
  <2> QED
    BY <2>1, <2>2, <2>3, <2>4, DeploymentMoves
<1>6. CASE SqlFails(d)
  BY <1>6, DeploymentLeaves DEF SqlFails
<1>7. CASE CommitMigration(d)
  <2>1. t.at = "ran" /\ t \in Applying /\ Pending(t) # {} /\ t.known = recorded
    BY <1>7, <1>T DEF CommitMigration, MigrationInv, LockInv
  <2>2. recorded[FirstPending(t).file] = NoHash
    BY <2>1, FirstIsPending DEF Applying
  <2>3. schema' = Append(schema, FirstPending(t))
    BY <1>7, <2>2 DEF CommitMigration
  <2> QED
    BY <1>7, <2>1, <2>3, Recording DEF CommitMigration
<1>8. CASE DeploymentEnds(d)
  BY <1>8, DeploymentLeaves DEF DeploymentEnds
<1>9. CASE DeploymentStops(d)
  BY <1>9, DeploymentLeaves DEF DeploymentStops
<1>10. CASE Redeploy(d)
  <2> PICK new \in Aside : new = NotStarted
    BY DEF Aside, NotStarted
  <2>1. new.at = "idle"
    BY DEF NotStarted
  <2>2. Set(d, new) /\ holder' = holder /\ UNCHANGED <<schema, handMade, recorded>>
    BY <1>10, <2>1 DEF Redeploy
  <2> QED
    BY <2>1, <2>2, DeploymentMoves DEF Holds
<1> QED
  BY <1>1, <1>2, <1>3, <1>4, <1>5, <1>6, <1>7, <1>8, <1>9, <1>10

\* The inductive invariant of the migrations: whoever is past the lock holds
\* it, and knows the history as it is.
THEOREM MigrationInvariance == MigrationsSpec => []MigrationInv
<1>1. MigrationInv /\ UNCHANGED migrationVars => MigrationInv'
  BY DEF migrationVars, MigrationInv, MigrationTypes, LockInv, HistoryIsTrue, Holds,
         Rewritten, Pending
<1> QED
  BY <1>1, MigrationStart, MigrationNext, PTL DEF MigrationsSpec

\* The database is what its record says, whatever deployment stopped where
\* (applyStoreMigrations).
THEOREM TrueHistory == MigrationsSpec => []HistoryIsTrue
<1>1. MigrationInv => HistoryIsTrue
  BY DEF MigrationInv
<1> QED
  BY <1>1, MigrationInvariance, PTL

\* Only a deployment whose whole list agrees with the history adds to it.
THEOREM HistoryIsOne == MigrationsSpec => OneHistory
<1>1. MigrationInv =>
         [\A d \in Deployments :
            deployments[d].at \in {"applying", "ran"} /\ recorded' # recorded
            /\ deployments'[d] # deployments[d] =>
               ~Rewritten(deployments[d].list, recorded)]_migrationVars
  BY DEF MigrationInv, LockInv
<1> QED
  BY <1>1, MigrationInvariance, PTL DEF OneHistory

-------------------------------------------------------------------------------
(***************************************************************************)
(* A client's page over the escrow.                                        *)
(***************************************************************************)

ClientSpec == EscrowClientInit /\ [][EscrowClientStep]_clientVars

Txs == [kind : {"approve", "fund", "settle", "reclaim"}, amount : Nat, task : Nat,
        status : {"asked", "sent", "done", "reverted"}, known : BOOLEAN]
Tasks == [amount : Nat, status : {"funded", "settled", "reclaimed"}, due : BOOLEAN]
Forms == [step : 1 .. 3, amount : Nat, mode : {"approve", "fund"}, tx : Nat]
Cards == [status : {"funded", "settled", "reclaimed"}, settle : Nat, reclaim : Nat]
Briefs == [amount : Nat, funding : Nat, settlement : Nat, reclaim : Nat]

ClientTypes ==
    /\ chain \in [allowance : Nat, tasks : Seq(Tasks)]
    /\ txs \in Seq(Txs)
    /\ form \in Forms
    /\ cards \in [DOMAIN cards -> Cards]
    /\ DOMAIN cards \subseteq DOMAIN chain.tasks
    /\ briefs \in [TxIds -> Briefs]

\* A form with a transaction is at its last step, and asked for what it shows.
FormInv ==
    form.tx # NoTx =>
       /\ form.tx \in DOMAIN txs
       /\ form.step = 3
       /\ txs[form.tx].kind \in {"approve", "fund"}
       /\ txs[form.tx].amount = form.amount

\* What a card's hook follows is a transaction about that card's task.
CardsInv ==
    \A t \in DOMAIN cards :
       /\ cards[t].settle # NoTx =>
             /\ cards[t].settle \in DOMAIN txs
             /\ txs[cards[t].settle].kind = "settle" /\ txs[cards[t].settle].task = t
       /\ cards[t].reclaim # NoTx =>
             /\ cards[t].reclaim \in DOMAIN txs
             /\ txs[cards[t].reclaim].kind = "reclaim" /\ txs[cards[t].reclaim].task = t

\* What a transaction did when it was included is still to be seen.
Landed(x, tasks) ==
    /\ x.kind \in {"settle", "reclaim"} => x.task \in DOMAIN tasks
    /\ x.status = "done" =>
          /\ x.kind = "fund" => x.task \in DOMAIN tasks /\ tasks[x.task].amount = x.amount
          /\ x.kind = "settle" => tasks[x.task].status = "settled"
          /\ x.kind = "reclaim" => tasks[x.task].status = "reclaimed"

LandedInv == \A n \in DOMAIN txs : Landed(txs[n], chain.tasks)

\* A brief names the transaction that funded its task, for good.
BriefInv ==
    \A t \in TxIds : briefs[t] # NoBrief =>
       /\ t \in DOMAIN chain.tasks
       /\ briefs[t].amount = chain.tasks[t].amount
       /\ briefs[t].funding \in DOMAIN txs
       /\ txs[briefs[t].funding].kind = "fund"
       /\ txs[briefs[t].funding].status = "done"
       /\ txs[briefs[t].funding].task = t

ClientInv == ClientTypes /\ FormInv /\ CardsInv /\ LandedInv /\ BriefInv /\ ProofsAreTrue

LEMMA ClientStart == EscrowClientInit => ClientInv
<1> SUFFICES ASSUME EscrowClientInit PROVE ClientInv
  OBVIOUS
<1>1. chain \in [allowance : Nat, tasks : Seq(Tasks)] /\ chain.tasks = <<>>
  <2>1. chain \in [allowance : TaskAmounts \union {0}, tasks : {<<>>}]
    BY DEF EscrowClientInit
  <2>2. TaskAmounts \union {0} \subseteq Nat /\ {<<>>} \subseteq Seq(Tasks)
    BY ClientAssumption
  <2> QED
    BY <2>1, <2>2
<1>2. txs \in Seq(Txs) /\ DOMAIN txs = {} /\ DOMAIN cards = {}
  BY DEF EscrowClientInit
<1>3. cards \in [DOMAIN cards -> Cards]
  BY <1>2 DEF EscrowClientInit
<1>4. form \in Forms /\ form.tx = NoTx
  BY DEF EscrowClientInit, FreshForm, Forms, NoTx
<1>5. briefs \in [TxIds -> Briefs] /\ \A t \in TxIds : briefs[t] = NoBrief
  BY DEF EscrowClientInit, NoBrief, NoTx, Briefs
<1>6. ProofsAreTrue
  BY <1>5 DEF ProofsAreTrue, NoBrief
<1>7. ClientTypes
  BY <1>1, <1>2, <1>3, <1>4, <1>5 DEF ClientTypes
<1> QED
  BY <1>2, <1>4, <1>5, <1>6, <1>7 DEF ClientInv, FormInv, CardsInv, LandedInv, BriefInv

\* What no step undoes: a task's amount and its end ...
TasksKept ==
    \A t \in DOMAIN chain.tasks :
       /\ t \in DOMAIN chain'.tasks
       /\ chain'.tasks[t].amount = chain.tasks[t].amount
       /\ chain.tasks[t].status # "funded" => chain'.tasks[t].status = chain.tasks[t].status

\* ... what a transaction asks, and what it did once it was included.
TxsKept ==
    \A n \in DOMAIN txs :
       /\ n \in DOMAIN txs'
       /\ txs'[n].kind = txs[n].kind /\ txs'[n].amount = txs[n].amount
       /\ txs[n].kind # "fund" \/ txs[n].status = "done" => txs'[n].task = txs[n].task
       /\ txs[n].status = "done" => txs'[n].status = "done"

LEMMA FormKept ==
  ASSUME FormInv, TxsKept, form' = form
  PROVE  FormInv'
  BY DEF FormInv, TxsKept

LEMMA CardsKept ==
  ASSUME CardsInv, TxsKept, cards' = cards
  PROVE  CardsInv'
<1> SUFFICES ASSUME NEW t \in DOMAIN cards
             PROVE  /\ cards[t].settle # NoTx =>
                          /\ cards[t].settle \in DOMAIN txs'
                          /\ txs'[cards[t].settle].kind = "settle"
                          /\ txs'[cards[t].settle].task = t
                    /\ cards[t].reclaim # NoTx =>
                          /\ cards[t].reclaim \in DOMAIN txs'
                          /\ txs'[cards[t].reclaim].kind = "reclaim"
                          /\ txs'[cards[t].reclaim].task = t
  BY DEF CardsInv
<1> QED
  BY DEF CardsInv, TxsKept

LEMMA BriefsKept ==
  ASSUME BriefInv, ProofsAreTrue, TasksKept, TxsKept, briefs' = briefs
  PROVE  BriefInv' /\ ProofsAreTrue'
<1>1. BriefInv'
  <2> SUFFICES ASSUME NEW t \in TxIds, briefs[t] # NoBrief
               PROVE  /\ t \in DOMAIN chain'.tasks
                      /\ briefs[t].amount = chain'.tasks[t].amount
                      /\ briefs[t].funding \in DOMAIN txs'
                      /\ txs'[briefs[t].funding].kind = "fund"
                      /\ txs'[briefs[t].funding].status = "done"
                      /\ txs'[briefs[t].funding].task = t
    BY DEF BriefInv, TxIds
  <2> QED
    BY DEF BriefInv, TasksKept, TxsKept
<1>2. ProofsAreTrue'
  <2> SUFFICES ASSUME NEW t \in TxIds
               PROVE  /\ briefs[t].settlement # NoTx => chain'.tasks[t].status = "settled"
                      /\ briefs[t].reclaim # NoTx => chain'.tasks[t].status = "reclaimed"
    BY DEF ProofsAreTrue, TxIds
  <2>1. briefs[t].settlement # NoTx \/ briefs[t].reclaim # NoTx => t \in DOMAIN chain.tasks
    BY DEF BriefInv, NoBrief
  <2> QED
    BY <2>1 DEF ProofsAreTrue, TasksKept
<1> QED
  BY <1>1, <1>2

LEMMA LandedKept ==
  ASSUME NEW x \in Txs, Landed(x, chain.tasks), TasksKept
  PROVE  Landed(x, chain'.tasks)
  BY DEF Landed, TasksKept

\* One transaction moves on.
LEMMA TxMoves ==
  ASSUME ClientInv, NEW n \in DOMAIN txs, NEW x \in Txs, txs' = [txs EXCEPT ![n] = x],
         x.kind = txs[n].kind, x.amount = txs[n].amount,
         txs[n].kind # "fund" \/ txs[n].status = "done" => x.task = txs[n].task,
         txs[n].status = "done" => x.status = "done",
         TasksKept, chain' \in [allowance : Nat, tasks : Seq(Tasks)],
         Landed(x, chain'.tasks), UNCHANGED <<form, cards>>
  PROVE  /\ txs' \in Seq(Txs) /\ TxsKept
         /\ FormInv' /\ CardsInv' /\ LandedInv'
         /\ DOMAIN cards' \subseteq DOMAIN chain'.tasks
<1>1. txs' \in Seq(Txs) /\ DOMAIN txs' = DOMAIN txs
  BY DEF ClientInv, ClientTypes
<1>2. \A k \in DOMAIN txs : txs[k] \in Txs /\ txs'[k] = IF k = n THEN x ELSE txs[k]
  BY DEF ClientInv, ClientTypes
<1>3. TxsKept
  BY <1>1, <1>2 DEF TxsKept
<1>4. LandedInv'
  BY <1>1, <1>2, LandedKept DEF ClientInv, LandedInv
<1>5. DOMAIN cards' \subseteq DOMAIN chain'.tasks
  BY DEF ClientInv, ClientTypes, TasksKept
<1> QED
  BY <1>1, <1>3, <1>4, <1>5, FormKept, CardsKept DEF ClientInv

LEMMA SameTasks ==
  ASSUME chain' = chain
  PROVE  TasksKept
  BY DEF TasksKept

LEMMA SameTxs ==
  ASSUME txs' = txs
  PROVE  TxsKept
  BY DEF TxsKept

\* The wallet signs or rejects, or the chain refuses.
LEMMA UnlandedStep ==
  ASSUME ClientInv, NEW n \in DOMAIN txs, Signed(n) \/ Rejected(n) \/ TxReverts(n)
  PROVE  ClientInv'
<1> PICK x \in Txs : x = txs[n]
  BY DEF ClientInv, ClientTypes
<1>1. x.status # "done"
  BY DEF Signed, Rejected, TxReverts
<1>2. PICK y \in Txs : /\ txs' = [txs EXCEPT ![n] = y]
                       /\ y.kind = x.kind /\ y.amount = x.amount /\ y.task = x.task
                       /\ y.status # "done"
  <2>1. CASE Signed(n)
    <3> PICK y \in Txs : y = [x EXCEPT !.status = "sent"]
      BY DEF Txs
    <3>1. txs' = [txs EXCEPT ![n] = y]
      BY <2>1 DEF Signed
    <3> QED
      BY <3>1 DEF Txs
  <2>2. CASE Rejected(n)
    <3> PICK y \in Txs : y = [x EXCEPT !.status = "reverted", !.known = TRUE]
      BY DEF Txs
    <3>1. txs' = [txs EXCEPT ![n] = y]
      BY <2>2 DEF Rejected
    <3> QED
      BY <3>1 DEF Txs
  <2>3. CASE TxReverts(n)
    <3> PICK y \in Txs : y = [x EXCEPT !.status = "reverted"]
      BY DEF Txs
    <3>1. txs' = [txs EXCEPT ![n] = y]
      BY <2>3 DEF TxReverts
    <3> QED
      BY <3>1 DEF Txs
  <2> QED
    BY <2>1, <2>2, <2>3
<1>3. UNCHANGED <<chain, form, cards, briefs>>
  BY DEF Signed, Rejected, TxReverts
<1>4. Landed(x, chain.tasks) /\ TasksKept
  BY <1>3, SameTasks DEF ClientInv, LandedInv
<1>5. Landed(y, chain'.tasks)
  BY <1>2, <1>3, <1>4 DEF Landed
<1>6. chain' \in [allowance : Nat, tasks : Seq(Tasks)]
  BY <1>3 DEF ClientInv, ClientTypes
<1>7. /\ txs' \in Seq(Txs) /\ TxsKept
      /\ FormInv' /\ CardsInv' /\ LandedInv'
  BY <1>1, <1>2, <1>3, <1>4, <1>5, <1>6, TxMoves
<1>8. BriefInv' /\ ProofsAreTrue'
  BY <1>3, <1>4, <1>7, BriefsKept DEF ClientInv
<1>9. ClientTypes'
  BY <1>3, <1>7 DEF ClientInv, ClientTypes
<1> QED
  BY <1>7, <1>8, <1>9 DEF ClientInv

\* One task of the chain changes, as little as it may.
LEMMA TaskMoves ==
  ASSUME ClientInv, NEW t \in DOMAIN chain.tasks, NEW y \in Tasks,
         y.amount = chain.tasks[t].amount,
         chain.tasks[t].status # "funded" => y.status = chain.tasks[t].status,
         chain' = [chain EXCEPT !.tasks[t] = y]
  PROVE  /\ chain' \in [allowance : Nat, tasks : Seq(Tasks)]
         /\ TasksKept
         /\ DOMAIN chain'.tasks = DOMAIN chain.tasks
         /\ chain'.tasks[t] = y
<1> PICK tasks \in Seq(Tasks) : tasks = chain.tasks
  BY DEF ClientInv, ClientTypes
<1>0. [tasks EXCEPT ![t] = y] \in Seq(Tasks)
  OBVIOUS
<1> PICK new \in Seq(Tasks) : new = [tasks EXCEPT ![t] = y]
  BY <1>0, Zenon
<1>1. chain' = [chain EXCEPT !.tasks = new]
  OBVIOUS
<1>2. chain \in [allowance : Nat, tasks : Seq(Tasks)]
  BY DEF ClientInv, ClientTypes
<1>3. chain'.tasks = new /\ chain' \in [allowance : Nat, tasks : Seq(Tasks)]
  BY <1>1, <1>2
<1>4. DOMAIN new = DOMAIN tasks /\ \A k \in DOMAIN tasks : new[k] = IF k = t THEN y ELSE tasks[k]
  OBVIOUS
<1>5. TasksKept
  BY <1>3, <1>4 DEF TasksKept
<1> QED
  BY <1>3, <1>4, <1>5

LEMMA DeadlineStep ==
  ASSUME ClientInv, NEW t \in DOMAIN chain.tasks, DeadlinePasses(t)
  PROVE  ClientInv'
<1> PICK task \in Tasks : task = chain.tasks[t]
  BY DEF ClientInv, ClientTypes
<1> PICK y \in Tasks : y = [task EXCEPT !.due = TRUE]
  BY DEF Tasks
<1>1. y.amount = task.amount /\ y.status = task.status
  BY DEF Tasks
<1>2. chain' = [chain EXCEPT !.tasks[t] = y]
  BY DEF DeadlinePasses
<1>3. /\ chain' \in [allowance : Nat, tasks : Seq(Tasks)]
      /\ TasksKept /\ DOMAIN chain'.tasks = DOMAIN chain.tasks
  BY <1>1, <1>2, TaskMoves
<1>4. UNCHANGED <<txs, form, cards, briefs>> /\ TxsKept
  BY SameTxs DEF DeadlinePasses
<1>5. LandedInv'
  <2>1. \A n \in DOMAIN txs : txs[n] \in Txs
    BY DEF ClientInv, ClientTypes
  <2> QED
    BY <1>3, <1>4, <2>1, LandedKept DEF ClientInv, LandedInv
<1>6. FormInv' /\ CardsInv' /\ BriefInv' /\ ProofsAreTrue'
  BY <1>3, <1>4, FormKept, CardsKept, BriefsKept DEF ClientInv
<1>7. ClientTypes'
  BY <1>3, <1>4 DEF ClientInv, ClientTypes
<1> QED
  BY <1>5, <1>6, <1>7 DEF ClientInv

\* A transaction that the chain accepts does what it asks.
LEMMA IncludedStep ==
  ASSUME ClientInv, NEW n \in DOMAIN txs, TxIncluded(n)
  PROVE  ClientInv'
<1> PICK x \in Txs : x = txs[n]
  BY DEF ClientInv, ClientTypes
<1> PICK tasks \in Seq(Tasks) : tasks = chain.tasks
  BY DEF ClientInv, ClientTypes
<1>1. x.status = "sent" /\ chain \in [allowance : Nat, tasks : Seq(Tasks)]
  BY DEF TxIncluded, ClientInv, ClientTypes
<1> PICK task \in Nat : task = IF x.kind = "fund" THEN Len(tasks) + 1 ELSE x.task
  BY DEF Txs
<1> PICK done \in Txs : done = [x EXCEPT !.status = "done"]
  BY DEF Txs
<1> PICK y \in Txs : y = [done EXCEPT !.task = task]
  BY DEF Txs
<1>2. /\ y.status = "done" /\ y.kind = x.kind /\ y.amount = x.amount
      /\ x.kind # "fund" => y.task = x.task
      /\ x.kind = "fund" => y.task = Len(tasks) + 1
  BY DEF Txs
<1>3. txs' = [txs EXCEPT ![n] = y] /\ UNCHANGED <<form, cards, briefs>>
  BY DEF TxIncluded
<1>4. /\ chain' \in [allowance : Nat, tasks : Seq(Tasks)]
      /\ TasksKept
      /\ Landed(y, chain'.tasks)
  <2>1. CASE x.kind = "approve"
    <3>1. chain' = [chain EXCEPT !.allowance = x.amount]
      BY <2>1 DEF TxIncluded, Included
    <3>2. x.amount \in Nat
      BY DEF Txs
    <3>3. chain'.tasks = tasks /\ chain' \in [allowance : Nat, tasks : Seq(Tasks)]
      BY <1>1, <3>1, <3>2
    <3> QED
      BY <1>2, <2>1, <3>3 DEF TasksKept, Landed
  <2>2. CASE x.kind = "fund"
    <3> PICK funded \in Tasks : funded = [amount |-> x.amount, status |-> "funded", due |-> FALSE]
      BY DEF Txs, Tasks
    <3>1. chain' = [allowance |-> chain.allowance - x.amount, tasks |-> Append(tasks, funded)]
      BY <2>2 DEF TxIncluded, Included
    <3>2. chain.allowance \in Nat /\ x.amount \in Nat /\ x.amount <= chain.allowance
      BY <1>1, <2>2 DEF TxIncluded, Accepted, Txs
    <3>3. chain.allowance - x.amount \in Nat
      BY <3>2
    <3>a. Append(tasks, funded) \in Seq(Tasks)
      OBVIOUS
    <3> PICK new \in Seq(Tasks) : new = Append(tasks, funded)
      BY <3>a, Zenon
    <3>4. chain'.tasks = new /\ chain' \in [allowance : Nat, tasks : Seq(Tasks)]
      BY <3>1, <3>3
    <3>5. /\ DOMAIN new = DOMAIN tasks \union {Len(tasks) + 1}
          /\ new[Len(tasks) + 1] = funded
          /\ \A k \in DOMAIN tasks : new[k] = tasks[k]
      OBVIOUS
    <3>6. TasksKept
      BY <3>4, <3>5 DEF TasksKept
    <3>7. Landed(y, new)
      BY <1>2, <2>2, <3>5 DEF Landed
    <3> QED
      BY <3>4, <3>6, <3>7
  <2>3. ASSUME NEW end \in {"settled", "reclaimed"},
               \/ x.kind = "settle" /\ end = "settled"
               \/ x.kind = "reclaim" /\ end = "reclaimed",
               chain' = [chain EXCEPT !.tasks[x.task].status = end],
               tasks[x.task].status = "funded"
        PROVE  /\ chain' \in [allowance : Nat, tasks : Seq(Tasks)]
               /\ TasksKept
               /\ Landed(y, chain'.tasks)
    <3>1. x.task \in DOMAIN tasks
      BY <2>3 DEF ClientInv, LandedInv, Landed
    <3> PICK old \in Tasks : old = tasks[x.task]
      BY <3>1
    <3> PICK new \in Tasks : new = [old EXCEPT !.status = end]
      BY DEF Tasks
    <3>2. new.amount = old.amount /\ new.status = end
      BY DEF Tasks
    <3>3. chain' = [chain EXCEPT !.tasks[x.task] = new] /\ old.status = "funded"
      BY <2>3
    <3>4. /\ chain' \in [allowance : Nat, tasks : Seq(Tasks)]
          /\ TasksKept /\ DOMAIN chain'.tasks = DOMAIN tasks /\ chain'.tasks[x.task] = new
      <4> PICK t \in DOMAIN chain.tasks : t = x.task
        BY <3>1
      <4>1. new.amount = chain.tasks[t].amount
        BY <3>2
      <4>2. chain.tasks[t].status = "funded"
        BY <3>3
      <4>3. chain' = [chain EXCEPT !.tasks[t] = new]
        BY <3>3
      <4> QED
        BY <4>1, <4>2, <4>3, TaskMoves
    <3>5. Landed(y, chain'.tasks)
      BY <1>2, <2>3, <3>1, <3>2, <3>4 DEF Landed
    <3> QED
      BY <3>4, <3>5
  <2>4. CASE x.kind = "settle"
    BY <2>3, <2>4 DEF TxIncluded, Included, Accepted
  <2>5. CASE x.kind = "reclaim"
    BY <2>3, <2>5 DEF TxIncluded, Included, Accepted
  <2> QED
    BY <2>1, <2>2, <2>4, <2>5 DEF Txs
<1>5. /\ txs' \in Seq(Txs) /\ TxsKept
      /\ FormInv' /\ CardsInv' /\ LandedInv'
      /\ DOMAIN cards' \subseteq DOMAIN chain'.tasks
  BY <1>1, <1>2, <1>3, <1>4, TxMoves
<1>6. BriefInv' /\ ProofsAreTrue'
  BY <1>3, <1>4, <1>5, BriefsKept DEF ClientInv
<1>7. ClientTypes'
  BY <1>3, <1>4, <1>5 DEF ClientInv, ClientTypes
<1> QED
  BY <1>5, <1>6, <1>7 DEF ClientInv

\* A transaction is asked of the wallet.
LEMMA AskMoves ==
  ASSUME ClientInv, NEW kind \in {"approve", "fund", "settle", "reclaim"}, NEW amount \in Nat,
         NEW task \in Nat, Ask(kind, amount, task), chain' = chain,
         kind \in {"settle", "reclaim"} => task \in DOMAIN chain.tasks
  PROVE  /\ txs' \in Seq(Txs) /\ TxsKept /\ LandedInv'
         /\ Asked \in DOMAIN txs' /\ Asked \in Nat \ {NoTx}
         /\ txs'[Asked].kind = kind /\ txs'[Asked].amount = amount /\ txs'[Asked].task = task
<1> PICK x \in Txs : x = [kind |-> kind, amount |-> amount, task |-> task,
                          status |-> "asked", known |-> FALSE]
  BY DEF Txs
<1>1. txs' = Append(txs, x) /\ txs \in Seq(Txs)
  BY DEF Ask, ClientInv, ClientTypes
<1>2. /\ txs' \in Seq(Txs)
      /\ DOMAIN txs' = DOMAIN txs \union {Asked} /\ Asked \in Nat \ {NoTx}
      /\ txs'[Asked] = x
      /\ \A n \in DOMAIN txs : txs'[n] = txs[n]
  BY <1>1 DEF Asked, NoTx
<1>3. TxsKept
  BY <1>2 DEF TxsKept
<1>4. Landed(x, chain.tasks)
  BY DEF Landed
<1>5. LandedInv'
  BY <1>2, <1>4 DEF ClientInv, LandedInv
<1> QED
  BY <1>2, <1>3, <1>5

LEMMA FormAsks ==
  ASSUME ClientInv, Approve \/ FundTask
  PROVE  ClientInv'
<1>1. form \in Forms /\ form.step = 3 /\ form.amount \in Nat
  BY DEF Approve, FundTask, Ready, ClientInv, ClientTypes, Forms
<1>2. PICK kind \in {"approve", "fund"} :
         /\ Ask(kind, form.amount, 0)
         /\ form' = [form EXCEPT !.mode = kind, !.tx = Asked]
         /\ UNCHANGED <<chain, cards, briefs>>
  BY DEF Approve, FundTask
<1>3. TasksKept
  BY <1>2, SameTasks
<1>4. /\ txs' \in Seq(Txs) /\ TxsKept /\ LandedInv'
      /\ Asked \in DOMAIN txs' /\ Asked \in Nat \ {NoTx}
      /\ txs'[Asked].kind = kind /\ txs'[Asked].amount = form.amount
  BY <1>1, <1>2, AskMoves
<1>5. /\ form' \in Forms /\ form'.tx = Asked /\ form'.step = 3 /\ form'.amount = form.amount
  BY <1>1, <1>2, <1>4 DEF Forms
<1>6. FormInv'
  BY <1>4, <1>5 DEF FormInv
<1>7. CardsInv' /\ BriefInv' /\ ProofsAreTrue'
  BY <1>2, <1>3, <1>4, CardsKept, BriefsKept DEF ClientInv
<1>8. ClientTypes'
  BY <1>2, <1>4, <1>5 DEF ClientInv, ClientTypes
<1> QED
  BY <1>4, <1>6, <1>7, <1>8 DEF ClientInv

LEMMA CardAsks ==
  ASSUME ClientInv, NEW t \in DOMAIN cards, SettleClicked(t) \/ ReclaimClicked(t)
  PROVE  ClientInv'
<1>1. t \in DOMAIN chain.tasks /\ t \in Nat
  BY DEF ClientInv, ClientTypes
<1> PICK c \in Cards : c = cards[t]
  BY DEF ClientInv, ClientTypes
<1>2. UNCHANGED <<chain, form, briefs>>
  BY DEF SettleClicked, ReclaimClicked
<1>3. PICK kind \in {"settle", "reclaim"} :
         /\ Ask(kind, 0, t)
         /\ cards' = IF kind = "settle" THEN [cards EXCEPT ![t].settle = Asked]
                     ELSE [cards EXCEPT ![t].reclaim = Asked]
  BY DEF SettleClicked, ReclaimClicked
<1>4. /\ txs' \in Seq(Txs) /\ TxsKept /\ LandedInv'
      /\ Asked \in DOMAIN txs' /\ Asked \in Nat \ {NoTx}
      /\ txs'[Asked].kind = kind /\ txs'[Asked].task = t
  BY <1>1, <1>2, <1>3, AskMoves
<1>5. PICK d \in Cards :
         /\ cards' = [cards EXCEPT ![t] = d]
         /\ kind = "settle" => d.settle = Asked /\ d.reclaim = c.reclaim
         /\ kind = "reclaim" => d.reclaim = Asked /\ d.settle = c.settle
  <2>1. CASE kind = "settle"
    <3> PICK d \in Cards : d = [c EXCEPT !.settle = Asked]
      BY <1>4 DEF Cards
    <3>1. d.settle = Asked /\ d.reclaim = c.reclaim
      BY DEF Cards
    <3>2. cards' = [cards EXCEPT ![t] = d]
      BY <1>3, <2>1
    <3> QED
      BY <2>1, <3>1, <3>2
  <2>2. CASE kind = "reclaim"
    <3> PICK d \in Cards : d = [c EXCEPT !.reclaim = Asked]
      BY <1>4 DEF Cards
    <3>1. d.reclaim = Asked /\ d.settle = c.settle
      BY DEF Cards
    <3>2. cards' = [cards EXCEPT ![t] = d]
      BY <1>3, <2>2
    <3> QED
      BY <2>2, <3>1, <3>2
  <2> QED
    BY <2>1, <2>2
<1>6. /\ DOMAIN cards' = DOMAIN cards /\ cards' \in [DOMAIN cards -> Cards]
      /\ cards'[t] = d /\ \A u \in DOMAIN cards \ {t} : cards'[u] = cards[u]
  BY <1>5 DEF ClientInv, ClientTypes
<1>7. CardsInv'
  <2> SUFFICES ASSUME NEW u \in DOMAIN cards
               PROVE  /\ cards'[u].settle # NoTx =>
                            /\ cards'[u].settle \in DOMAIN txs'
                            /\ txs'[cards'[u].settle].kind = "settle"
                            /\ txs'[cards'[u].settle].task = u
                      /\ cards'[u].reclaim # NoTx =>
                            /\ cards'[u].reclaim \in DOMAIN txs'
                            /\ txs'[cards'[u].reclaim].kind = "reclaim"
                            /\ txs'[cards'[u].reclaim].task = u
    BY <1>6 DEF CardsInv
  <2>1. /\ cards[u].settle # NoTx =>
              /\ cards[u].settle \in DOMAIN txs'
              /\ txs'[cards[u].settle].kind = "settle"
              /\ txs'[cards[u].settle].task = u
        /\ cards[u].reclaim # NoTx =>
              /\ cards[u].reclaim \in DOMAIN txs'
              /\ txs'[cards[u].reclaim].kind = "reclaim"
              /\ txs'[cards[u].reclaim].task = u
    BY <1>4 DEF ClientInv, CardsInv, TxsKept
  <2>2. CASE u = t
    BY <1>4, <1>5, <1>6, <2>1, <2>2
  <2>3. CASE u # t
    BY <1>6, <2>1, <2>3
  <2> QED
    BY <2>2, <2>3
<1>8. FormInv' /\ BriefInv' /\ ProofsAreTrue'
  BY <1>2, <1>4, FormKept, BriefsKept, SameTasks DEF ClientInv
<1>9. ClientTypes'
  BY <1>2, <1>4, <1>6 DEF ClientInv, ClientTypes
<1> QED
  BY <1>4, <1>7, <1>8, <1>9 DEF ClientInv

\* The form is edited, or starts anew; its transaction is let go unless the
\* edit leaves it the form's.
LEMMA FormEdited ==
  ASSUME ClientInv, NEW f \in Forms, form' = f, UNCHANGED <<chain, txs, cards, briefs>>,
         \/ f.tx = NoTx
         \/ f.tx = form.tx /\ f.step = form.step /\ f.amount = form.amount
  PROVE  ClientInv'
<1>1. TasksKept /\ TxsKept
  BY SameTasks, SameTxs
<1>2. FormInv'
  BY DEF ClientInv, FormInv
<1>3. CardsInv' /\ BriefInv' /\ ProofsAreTrue'
  BY <1>1, CardsKept, BriefsKept DEF ClientInv
<1>4. LandedInv' /\ ClientTypes'
  BY DEF ClientInv, LandedInv, ClientTypes
<1> QED
  BY <1>2, <1>3, <1>4 DEF ClientInv

LEMMA FormStep ==
  ASSUME ClientInv,
         \/ BriefWritten
         \/ \E amount \in TaskAmounts : TermsSet(amount)
         \/ Back
         \/ CloseForm
         \/ \E read \in BOOLEAN : ApprovalConfirmed(read)
  PROVE  ClientInv'
<1>1. form \in Forms
  BY DEF ClientInv, ClientTypes
<1>0. 1 \in 1 .. 3 /\ 2 \in 1 .. 3 /\ 3 \in 1 .. 3 /\ 0 \in Nat
  OBVIOUS
<1>2. form.step \in {1, 2} => form.tx = NoTx
  BY DEF ClientInv, FormInv
<1>3. CASE BriefWritten
  <2> PICK f \in Forms : f = [form EXCEPT !.step = 2]
    BY <1>0, <1>1 DEF Forms
  <2>1. f.tx = NoTx
    BY <1>1, <1>2, <1>3 DEF Forms, BriefWritten
  <2> QED
    BY <1>3, <2>1, FormEdited DEF BriefWritten, Edits
<1>4. ASSUME NEW amount \in TaskAmounts, TermsSet(amount)
      PROVE  ClientInv'
  <2>1. amount \in Nat
    BY ClientAssumption
  <2> PICK g \in Forms : g = [form EXCEPT !.step = 3]
    BY <1>0, <1>1 DEF Forms
  <2> PICK f \in Forms : f = [g EXCEPT !.amount = amount]
    BY <2>1 DEF Forms
  <2>2. f.tx = NoTx
    BY <1>1, <1>2, <1>4 DEF Forms, TermsSet
  <2> QED
    BY <1>4, <2>2, FormEdited DEF TermsSet, Edits
<1>5. CASE Back
  <2>1. form.step - 1 \in 1 .. 3
    BY <1>5 DEF Back
  <2> PICK g \in Forms : g = [form EXCEPT !.step = form.step - 1]
    BY <1>1, <2>1 DEF Forms
  <2> PICK f \in Forms : f = [g EXCEPT !.tx = NoTx]
    BY DEF Forms, NoTx
  <2>2. f.tx = NoTx
    BY DEF Forms
  <2> QED
    BY <1>5, <2>2, FormEdited DEF Back, Edits
<1>6. CASE CloseForm
  <2> PICK f \in Forms : f = FreshForm
    BY <1>0 DEF Forms, FreshForm, NoTx
  <2>1. f.tx = NoTx
    BY DEF FreshForm
  <2> QED
    BY <1>6, <2>1, FormEdited DEF CloseForm, Edits
<1>7. ASSUME NEW read \in BOOLEAN, ApprovalConfirmed(read)
      PROVE  ClientInv'
  <2> PICK f \in Forms : f = [form EXCEPT !.mode = "fund"]
    BY <1>1 DEF Forms
  <2>1. f.tx = form.tx /\ f.step = form.step /\ f.amount = form.amount
    BY <1>1 DEF Forms
  <2> QED
    BY <1>7, <2>1, FormEdited DEF ApprovalConfirmed
<1> QED
  BY <1>3, <1>4, <1>5, <1>6, <1>7

\* The cards of a list just loaded follow no transaction; a page just loaded
\* has neither list nor form.
LEMMA PageStep ==
  ASSUME ClientInv, AllowanceRead \/ LoadTasks \/ Reload
  PROVE  ClientInv'
<1>1. UNCHANGED <<chain, txs, briefs>>
  BY DEF AllowanceRead, LoadTasks, Reload
<1>2. TasksKept /\ TxsKept
  BY <1>1, SameTasks, SameTxs
<1>3. BriefInv' /\ ProofsAreTrue' /\ LandedInv'
  BY <1>1, <1>2, BriefsKept DEF ClientInv, LandedInv
<1>4. FormInv' /\ form' \in Forms
  <2>1. FreshForm \in Forms /\ FreshForm.tx = NoTx
    BY DEF FreshForm, Forms, NoTx
  <2> QED
    BY <1>2, <2>1, FormKept DEF AllowanceRead, LoadTasks, Reload, ClientInv, ClientTypes, FormInv
<1>5. /\ CardsInv'
      /\ cards' \in [DOMAIN cards' -> Cards]
      /\ DOMAIN cards' \subseteq DOMAIN chain.tasks
  <2>1. CASE AllowanceRead
    <3>1. cards' = cards
      BY <2>1 DEF AllowanceRead
    <3> QED
      BY <1>2, <3>1, CardsKept DEF ClientInv, ClientTypes
  <2>2. CASE LoadTasks
    <3>0. \A t \in DOMAIN chain.tasks : chain.tasks[t] \in Tasks
      BY DEF ClientInv, ClientTypes
    <3>1. \A t \in DOMAIN chain.tasks :
             [status |-> chain.tasks[t].status, settle |-> NoTx, reclaim |-> NoTx] \in Cards
      BY <3>0 DEF Tasks, Cards, NoTx
    <3>2. /\ cards' \in [DOMAIN chain.tasks -> Cards]
          /\ \A t \in DOMAIN cards' : cards'[t].settle = NoTx /\ cards'[t].reclaim = NoTx
      BY <2>2, <3>1 DEF LoadTasks
    <3> QED
      BY <3>2 DEF CardsInv
  <2>3. CASE Reload
    <3>1. DOMAIN cards' = {} /\ cards' = <<>>
      BY <2>3 DEF Reload
    <3>2. cards' \in [DOMAIN cards' -> Cards]
      BY <3>1
    <3> QED
      BY <3>1, <3>2 DEF CardsInv
  <2> QED
    BY <2>1, <2>2, <2>3
<1>6. ClientTypes'
  BY <1>1, <1>4, <1>5 DEF ClientInv, ClientTypes
<1> QED
  BY <1>3, <1>4, <1>5, <1>6 DEF ClientInv

\* What the effects write: the brief of the task that the form's transaction
\* funded, or, beside the task of a card, the hash of what closed it.
LEMMA BriefsSeen ==
  ASSUME ClientInv, NEW n \in DOMAIN txs
  PROVE  \/ BriefsAfter(n) = briefs
         \/ /\ txs[n].kind = "fund" /\ txs[n].status = "done"
            /\ txs[n].amount = form.amount
            /\ BriefsAfter(n) = [briefs EXCEPT ![txs[n].task] = SavedBrief(n)]
         \/ /\ txs[n].kind = "settle" /\ txs[n].status = "done"
            /\ briefs[txs[n].task] # NoBrief
            /\ BriefsAfter(n) = [briefs EXCEPT ![txs[n].task].settlement = n]
         \/ /\ txs[n].kind = "reclaim" /\ txs[n].status = "done"
            /\ briefs[txs[n].task] # NoBrief
            /\ BriefsAfter(n) = [briefs EXCEPT ![txs[n].task].reclaim = n]
<1>1. n # NoTx
  BY DEF NoTx, ClientInv, ClientTypes
<1>2. form.tx = n => txs[n].amount = form.amount
  BY <1>1 DEF ClientInv, FormInv
<1> PICK t : t = txs[n].task
  OBVIOUS
<1> DEFINE Saves == Seen(n) /\ form.tx = n /\ txs[n].kind = "fund" /\ form.mode = "fund"
           Settles == Seen(n) /\ t \in DOMAIN cards /\ briefs[t] # NoBrief
                      /\ cards[t].settle = n
           Reclaims == Seen(n) /\ t \in DOMAIN cards /\ briefs[t] # NoBrief
                       /\ cards[t].reclaim = n
<1>3. t \in DOMAIN cards =>
         /\ cards[t].settle = n => txs[n].kind = "settle"
         /\ cards[t].reclaim = n => txs[n].kind = "reclaim"
  BY <1>1 DEF ClientInv, CardsInv
<1>4. ~(Saves /\ Settles) /\ ~(Saves /\ Reclaims) /\ ~(Settles /\ Reclaims)
  BY <1>3
<1>5. BriefsAfter(n) = CASE Saves -> [briefs EXCEPT ![t] = SavedBrief(n)]
                         [] Settles -> [briefs EXCEPT ![t].settlement = n]
                         [] Reclaims -> [briefs EXCEPT ![t].reclaim = n]
                         [] OTHER -> briefs
  BY Zenon DEF BriefsAfter
<1>6. CASE Saves
  <2>1. BriefsAfter(n) = [briefs EXCEPT ![t] = SavedBrief(n)]
    BY <1>4, <1>5, <1>6
  <2> QED
    BY <1>2, <1>6, <2>1 DEF Seen
<1>7. CASE Settles
  <2>1. BriefsAfter(n) = [briefs EXCEPT ![t].settlement = n]
    BY <1>4, <1>5, <1>7
  <2> QED
    BY <1>3, <1>7, <2>1 DEF Seen
<1>8. CASE Reclaims
  <2>1. BriefsAfter(n) = [briefs EXCEPT ![t].reclaim = n]
    BY <1>4, <1>5, <1>8
  <2> QED
    BY <1>3, <1>8, <2>1 DEF Seen
<1>9. CASE ~Saves /\ ~Settles /\ ~Reclaims
  BY <1>5, <1>9
<1> QED
  BY <1>6, <1>7, <1>8, <1>9, Zenon

\* One brief is written, by a transaction that did what the brief says.
LEMMA BriefMoves ==
  ASSUME ClientInv, NEW t \in TxIds, NEW b \in Briefs, briefs' = [briefs EXCEPT ![t] = b],
         chain' = chain, TxsKept,
         t \in DOMAIN chain.tasks, b.amount = chain.tasks[t].amount,
         b.funding \in DOMAIN txs, txs[b.funding].kind = "fund",
         txs[b.funding].status = "done", txs[b.funding].task = t,
         b.settlement # NoTx => chain.tasks[t].status = "settled",
         b.reclaim # NoTx => chain.tasks[t].status = "reclaimed"
  PROVE  BriefInv' /\ ProofsAreTrue' /\ briefs' \in [TxIds -> Briefs]
<1>1. /\ briefs' \in [TxIds -> Briefs] /\ briefs'[t] = b
      /\ \A u \in TxIds \ {t} : briefs'[u] = briefs[u]
  BY DEF ClientInv, ClientTypes
<1>2. /\ b.funding \in DOMAIN txs' /\ txs'[b.funding].kind = "fund"
      /\ txs'[b.funding].status = "done" /\ txs'[b.funding].task = t
  BY DEF TxsKept
<1>3. BriefInv'
  <2> SUFFICES ASSUME NEW u \in TxIds, briefs'[u] # NoBrief
               PROVE  /\ u \in DOMAIN chain.tasks
                      /\ briefs'[u].amount = chain.tasks[u].amount
                      /\ briefs'[u].funding \in DOMAIN txs'
                      /\ txs'[briefs'[u].funding].kind = "fund"
                      /\ txs'[briefs'[u].funding].status = "done"
                      /\ txs'[briefs'[u].funding].task = u
    BY DEF BriefInv, TxIds
  <2>1. CASE u = t
    BY <1>1, <1>2, <2>1
  <2>2. CASE u # t
    <3>1. briefs'[u] = briefs[u] /\ briefs[u] # NoBrief
      BY <1>1, <2>2
    <3> QED
      BY <3>1 DEF ClientInv, BriefInv, TxsKept
  <2> QED
    BY <2>1, <2>2
<1>4. ProofsAreTrue'
  <2> SUFFICES ASSUME NEW u \in TxIds
               PROVE  /\ briefs'[u].settlement # NoTx => chain.tasks[u].status = "settled"
                      /\ briefs'[u].reclaim # NoTx => chain.tasks[u].status = "reclaimed"
    BY DEF ProofsAreTrue, TxIds
  <2> QED
    BY <1>1 DEF ClientInv, ProofsAreTrue
<1> QED
  BY <1>1, <1>3, <1>4

LEMMA BriefsStep ==
  ASSUME ClientInv, NEW n \in DOMAIN txs, briefs' = BriefsAfter(n), chain' = chain, TxsKept
  PROVE  BriefInv' /\ ProofsAreTrue' /\ briefs' \in [TxIds -> Briefs]
<1> PICK x \in Txs : x = txs[n]
  BY DEF ClientInv, ClientTypes
<1> PICK t \in Nat : t = x.task
  BY DEF Txs
<1>1. n \in Nat /\ Landed(x, chain.tasks) /\ briefs \in [TxIds -> Briefs]
  BY DEF ClientInv, ClientTypes, LandedInv
<1>2. CASE briefs' = briefs
  BY <1>1, <1>2, SameTasks, BriefsKept DEF ClientInv
<1>3. CASE t \notin TxIds
  <2>1. \A b : [briefs EXCEPT ![t] = b] = briefs
    BY <1>1, <1>3
  <2>2. briefs' = briefs
    BY <2>1, BriefsSeen
  <2> QED
    BY <1>2, <2>2
<1>4. ASSUME t \in TxIds, x.kind = "fund", x.status = "done", x.amount = form.amount,
             briefs' = [briefs EXCEPT ![t] = SavedBrief(n)]
      PROVE  BriefInv' /\ ProofsAreTrue' /\ briefs' \in [TxIds -> Briefs]
  <2>1. x.amount \in Nat
    BY DEF Txs
  <2> PICK none \in Briefs : none = NoBrief
    BY DEF NoBrief, Briefs, NoTx
  <2> PICK half \in Briefs : half = [none EXCEPT !.amount = x.amount]
    BY <2>1 DEF Briefs
  <2> PICK b \in Briefs : b = [half EXCEPT !.funding = n]
    BY <1>1 DEF Briefs
  <2>2. none.settlement = NoTx /\ none.reclaim = NoTx
    BY DEF NoBrief
  <2>3. /\ b.amount = x.amount /\ b.funding = n
        /\ b.settlement = NoTx /\ b.reclaim = NoTx
    BY <2>2 DEF Briefs
  <2>4. briefs' = [briefs EXCEPT ![t] = b]
    BY <1>4 DEF SavedBrief
  <2>5. t \in DOMAIN chain.tasks /\ chain.tasks[t].amount = x.amount
    BY <1>1, <1>4 DEF Landed
  <2>6. b.amount = chain.tasks[t].amount
    BY <2>3, <2>5
  <2>7. /\ b.funding \in DOMAIN txs /\ txs[b.funding].kind = "fund"
        /\ txs[b.funding].status = "done" /\ txs[b.funding].task = t
    BY <1>4, <2>3
  <2> QED
    BY <1>4, <2>3, <2>4, <2>5, <2>6, <2>7, BriefMoves
<1>5. ASSUME t \in TxIds, briefs[t] # NoBrief, NEW b \in Briefs,
             briefs' = [briefs EXCEPT ![t] = b],
             b.amount = briefs[t].amount, b.funding = briefs[t].funding,
             b.settlement # NoTx => chain.tasks[t].status = "settled",
             b.reclaim # NoTx => chain.tasks[t].status = "reclaimed"
      PROVE  BriefInv' /\ ProofsAreTrue' /\ briefs' \in [TxIds -> Briefs]
  <2>1. /\ t \in DOMAIN chain.tasks /\ b.amount = chain.tasks[t].amount
        /\ b.funding \in DOMAIN txs /\ txs[b.funding].kind = "fund"
        /\ txs[b.funding].status = "done" /\ txs[b.funding].task = t
    BY <1>5 DEF ClientInv, BriefInv
  <2> QED
    BY <1>5, <2>1, BriefMoves
<1>6. ASSUME t \in TxIds, x.kind = "settle", x.status = "done", briefs[t] # NoBrief,
             briefs' = [briefs EXCEPT ![t].settlement = n]
      PROVE  BriefInv' /\ ProofsAreTrue' /\ briefs' \in [TxIds -> Briefs]
  <2> PICK a \in Briefs : a = briefs[t]
    BY <1>1, <1>6
  <2> PICK b \in Briefs : b = [a EXCEPT !.settlement = n]
    BY <1>1 DEF Briefs
  <2>1. /\ b.amount = a.amount /\ b.funding = a.funding
        /\ b.settlement = n /\ b.reclaim = a.reclaim
    BY DEF Briefs
  <2>2. /\ chain.tasks[t].status = "settled"
        /\ a.reclaim # NoTx => chain.tasks[t].status = "reclaimed"
    BY <1>1, <1>6 DEF Landed, ClientInv, ProofsAreTrue
  <2>3. briefs' = [briefs EXCEPT ![t] = b]
    BY <1>6
  <2>4. /\ b.amount = briefs[t].amount /\ b.funding = briefs[t].funding
        /\ b.settlement # NoTx => chain.tasks[t].status = "settled"
        /\ b.reclaim # NoTx => chain.tasks[t].status = "reclaimed"
    BY <2>1, <2>2
  <2> QED
    BY <1>5, <1>6, <2>3, <2>4
<1>7. ASSUME t \in TxIds, x.kind = "reclaim", x.status = "done", briefs[t] # NoBrief,
             briefs' = [briefs EXCEPT ![t].reclaim = n]
      PROVE  BriefInv' /\ ProofsAreTrue' /\ briefs' \in [TxIds -> Briefs]
  <2> PICK a \in Briefs : a = briefs[t]
    BY <1>1, <1>7
  <2> PICK b \in Briefs : b = [a EXCEPT !.reclaim = n]
    BY <1>1 DEF Briefs
  <2>1. /\ b.amount = a.amount /\ b.funding = a.funding
        /\ b.settlement = a.settlement /\ b.reclaim = n
    BY DEF Briefs
  <2>2. /\ chain.tasks[t].status = "reclaimed"
        /\ a.settlement # NoTx => chain.tasks[t].status = "settled"
    BY <1>1, <1>7 DEF Landed, ClientInv, ProofsAreTrue
  <2>3. briefs' = [briefs EXCEPT ![t] = b]
    BY <1>7
  <2>4. /\ b.amount = briefs[t].amount /\ b.funding = briefs[t].funding
        /\ b.settlement # NoTx => chain.tasks[t].status = "settled"
        /\ b.reclaim # NoTx => chain.tasks[t].status = "reclaimed"
    BY <2>1, <2>2
  <2> QED
    BY <1>5, <1>7, <2>3, <2>4
<1>8. CASE t \in TxIds
  BY <1>2, <1>4, <1>6, <1>7, <1>8, BriefsSeen
<1> QED
  BY <1>3, <1>8

\* The page sees what became of a transaction.
LEMMA ReceiptStep ==
  ASSUME ClientInv, NEW n \in DOMAIN txs, ReceiptSeen(n)
  PROVE  ClientInv'
<1> PICK x \in Txs : x = txs[n]
  BY DEF ClientInv, ClientTypes
<1> PICK y \in Txs : y = [x EXCEPT !.known = TRUE]
  BY DEF Txs
<1>1. y.kind = x.kind /\ y.amount = x.amount /\ y.task = x.task /\ y.status = x.status
  BY DEF Txs
<1>2. /\ txs' = [txs EXCEPT ![n] = y] /\ briefs' = BriefsAfter(n)
      /\ UNCHANGED <<chain, form, cards>>
  BY DEF ReceiptSeen
<1>3. /\ chain' \in [allowance : Nat, tasks : Seq(Tasks)] /\ TasksKept
      /\ Landed(y, chain'.tasks)
  BY <1>1, <1>2, SameTasks DEF ClientInv, ClientTypes, LandedInv, Landed
<1>4. /\ txs' \in Seq(Txs) /\ TxsKept
      /\ FormInv' /\ CardsInv' /\ LandedInv'
  BY <1>1, <1>2, <1>3, TxMoves
<1>5. BriefInv' /\ ProofsAreTrue' /\ briefs' \in [TxIds -> Briefs]
  BY <1>2, <1>4, BriefsStep
<1>6. ClientTypes'
  BY <1>2, <1>4, <1>5 DEF ClientInv, ClientTypes, TxIds
<1> QED
  BY <1>4, <1>5, <1>6 DEF ClientInv

LEMMA ClientNext == ClientInv /\ EscrowClientStep => ClientInv'
  BY UnlandedStep, IncludedStep, ReceiptStep, FormStep, PageStep, FormAsks, CardAsks,
     DeadlineStep, Zenon DEF EscrowClientStep

\* The inductive invariant of the page: what each hook follows is the
\* transaction it was asked for, and what a transaction did stays done.
THEOREM ClientInvariance == ClientSpec => []ClientInv
<1>1. ClientInv /\ UNCHANGED clientVars => ClientInv'
  BY DEF clientVars, ClientInv, ClientTypes, FormInv, CardsInv, LandedInv, BriefInv,
         ProofsAreTrue, TxIds
<1> QED
  BY <1>1, ClientStart, ClientNext, PTL DEF ClientSpec

\* A brief is kept for the task it was written for and states what that task
\* holds, however the form was edited while a transaction was underway
\* (FundTaskForm).
THEOREM BriefsMatch == ClientSpec => []BriefMatchesTask
<1>1. ClientInv => BriefMatchesTask
  BY DEF ClientInv, BriefInv, BriefMatchesTask
<1> QED
  BY <1>1, ClientInvariance, PTL

\* The proofs beside a task are of transactions that closed it that way
\* (TaskCard).
THEOREM ProofsStand == ClientSpec => []ProofsAreTrue
<1>1. ClientInv => ProofsAreTrue
  BY DEF ClientInv
<1> QED
  BY <1>1, ClientInvariance, PTL

\* What the browser keeps of a task agrees with the chain.
THEOREM ClientIsTrue == ClientSpec => []ClientTellsTrue
BY BriefsMatch, ProofsStand, PTL DEF ClientTellsTrue

-------------------------------------------------------------------------------
(***************************************************************************)
(* What the operators of the store do to its catalog.                      *)
(***************************************************************************)

Rows == [version : SemanticVersions, lead : BOOLEAN, stored : BOOLEAN]

AdminStep ==
    \E o \in Operators :
       \/ CommandStep(o)
       \/ \E m \in Models, row \in Rows, b \in Bundles \union {NoBundle} :
             ImportVersion(o, m, row, b)

AdminSpec == AdminInit /\ [][AdminStep]_adminVars

\* An import that passed its upsert, and holds the row of its package.
Importing(t) == t.at \in {"lead", "commit"} /\ t.row # NoRow

\* A version that is there was signed as the import has it, too.
AsSigned(rows, row) ==
    \A i \in DOMAIN rows : rows[i].version = row.version => rows[i].lead = row.lead

Stored(rows) == \E i \in DOMAIN rows : rows[i].stored

\* What a command knows or has decided, whatever others do in the meantime.
CommandInv(t) ==
    /\ t.at = "upsert" => t.model \in Models /\ t.row \in Rows
    /\ t.at \in {"lead", "commit"} =>
          {"at", "model", "row"} \subseteq DOMAIN t /\ t.model \in Models
    /\ Importing(t) => t.row \in Rows /\ AsSigned(published[t.model], t.row)
    /\ t.at \in {"remove", "publish"} => t.bundle \in Bundles
    /\ t.at = "publish" =>
          t.listed # {} /\ \A m \in t.listed : m \in Models /\ Stored(published[m])

PackageLock ==
    \A o, p \in Operators :
       o # p /\ Importing(tx[o]) /\ Importing(tx[p]) => tx[o].model # tx[p].model

CatalogTypes ==
    /\ published \in [Models -> Seq(Rows)]
    /\ members \in [Bundles -> SUBSET Models]
    /\ publicPackages \subseteq Models
    /\ publicBundles \subseteq Bundles
    /\ DOMAIN tx = Operators

AdminInv ==
    /\ CatalogTypes
    /\ \A o \in Operators : CommandInv(tx[o])
    /\ PackageLock
    /\ PublicShelf

\* The rows of a package that an import leaves behind.
RowsKept(old, new) ==
    \A i \in DOMAIN old : \E j \in DOMAIN new :
       /\ new[j].version = old[i].version
       /\ new[j].lead = old[i].lead
       /\ old[i].stored => new[j].stored

LEMMA AdminStart == AdminInit => AdminInv
<1> SUFFICES ASSUME AdminInit PROVE AdminInv
  OBVIOUS
<1>1. <<>> \in Seq(Rows) /\ CatalogTypes
  BY DEF AdminInit, CatalogTypes
<1>2. \A o \in Operators : tx[o].at = "idle"
  BY DEF AdminInit, NoTransaction
<1>3. (\A o \in Operators : CommandInv(tx[o])) /\ PackageLock
  BY <1>2 DEF CommandInv, PackageLock, Importing
<1>4. PublicShelf
  BY DEF AdminInit, PublicShelf
<1> QED
  BY <1>1, <1>3, <1>4 DEF AdminInv

\* A command begins, goes on or is given up, and nobody sees it.
LEMMA CommandMoves ==
  ASSUME AdminInv, NEW o \in Operators, NEW t, tx' = [tx EXCEPT ![o] = t], CommandInv(t),
         \A p \in Operators \ {o} :
            Importing(t) /\ Importing(tx[p]) => tx[p].model # t.model,
         UNCHANGED <<catalogVars, stale>>
  PROVE  AdminInv'
<1>1. /\ published' = published /\ members' = members /\ stale' = stale
      /\ publicBundles' = publicBundles /\ publicPackages' = publicPackages
  BY DEF catalogVars
<1>2. /\ DOMAIN tx' = Operators /\ tx'[o] = t
      /\ \A p \in Operators \ {o} : tx'[p] = tx[p]
  BY DEF AdminInv, CatalogTypes
<1>3. CatalogTypes' /\ PublicShelf'
  BY <1>1, <1>2 DEF AdminInv, CatalogTypes, PublicShelf, Publishable
<1>4. ASSUME NEW p \in Operators
      PROVE  CommandInv(tx[p])'
  <2>1. PICK u : u = tx'[p] /\ CommandInv(u)
    BY <1>2 DEF AdminInv
  <2> QED
    BY <1>1, <2>1 DEF CommandInv
<1>5. PackageLock'
  <2>1. \A p, q \in Operators :
           p # q /\ Importing(tx'[p]) /\ Importing(tx'[q]) => tx'[p].model # tx'[q].model
    BY <1>2 DEF AdminInv, PackageLock
  <2> QED
    BY <2>1 DEF PackageLock, Importing
<1> QED
  BY <1>3, <1>4, <1>5 DEF AdminInv

\* A command that is given up leaves nothing behind.
LEMMA CommandLeaves ==
  ASSUME AdminInv, NEW o \in Operators, Rollback(o), UNCHANGED <<catalogVars, stale>>
  PROVE  AdminInv'
<1> PICK t : t = NoTransaction
  OBVIOUS
<1>1. CommandInv(t) /\ ~Importing(t)
  BY DEF NoTransaction, CommandInv, Importing
<1>2. tx' = [tx EXCEPT ![o] = t]
  BY DEF Rollback
<1> QED
  BY <1>1, <1>2, CommandMoves

LEMMA ReadingStep ==
  ASSUME AdminInv, NEW o \in Operators,
         \/ \E b \in Bundles, m \in Models : AddRead(o, b, m) \/ RemoveRead(o, b, m)
         \/ \E b \in Bundles : PublishRead(o, b)
         \/ \E m \in Models, row \in Rows, b \in Bundles \union {NoBundle} :
               ImportVersion(o, m, row, b)
  PROVE  AdminInv'
<1>1. PICK t : /\ Begin(o, t) /\ ~Importing(t) /\ CommandInv(t)
  <2>1. ASSUME NEW b \in Bundles, NEW m \in Models, AddRead(o, b, m)
        PROVE  \E t : Begin(o, t) /\ ~Importing(t) /\ CommandInv(t)
    <3> PICK todo : todo = IF NewestRow(m).lead THEN {b} ELSE {}
      OBVIOUS
    <3> PICK at \in {"lead", "commit"} : at = IF todo = {} THEN "commit" ELSE "lead"
      OBVIOUS
    <3> PICK t : t = [at |-> at, model |-> m, row |-> NoRow, bundle |-> b, todo |-> todo,
                      locked |-> {}]
      OBVIOUS
    <3>1. Begin(o, t)
      BY <2>1, Zenon DEF AddRead
    <3>2. ~Importing(t) /\ CommandInv(t)
      BY DEF Importing, CommandInv
    <3> QED
      BY <3>1, <3>2
  <2>2. ASSUME NEW b \in Bundles, NEW m \in Models, RemoveRead(o, b, m)
        PROVE  \E t : Begin(o, t) /\ ~Importing(t) /\ CommandInv(t)
    <3> PICK t : t = [at |-> "remove", model |-> m, bundle |-> b]
      OBVIOUS
    <3>1. Begin(o, t)
      BY <2>2 DEF RemoveRead
    <3>2. ~Importing(t) /\ CommandInv(t)
      BY DEF Importing, CommandInv
    <3> QED
      BY <3>1, <3>2
  <2>3. ASSUME NEW b \in Bundles, PublishRead(o, b)
        PROVE  \E t : Begin(o, t) /\ ~Importing(t) /\ CommandInv(t)
    <3> PICK t : t = [at |-> "publish", bundle |-> b, listed |-> members[b]]
      OBVIOUS
    <3>1. Begin(o, t)
      BY <2>3 DEF PublishRead
    <3>2. members[b] # {} /\ \A m \in members[b] : m \in Models /\ Stored(published[m])
      BY <2>3 DEF PublishRead, Publishable, Stored, AdminInv, CatalogTypes
    <3>3. ~Importing(t) /\ CommandInv(t)
      BY <3>2 DEF Importing, CommandInv
    <3> QED
      BY <3>1, <3>3
  <2>4. ASSUME NEW m \in Models, NEW row \in Rows, NEW b \in Bundles \union {NoBundle},
               ImportVersion(o, m, row, b)
        PROVE  \E t : Begin(o, t) /\ ~Importing(t) /\ CommandInv(t)
    <3> PICK t : t = [at |-> "upsert", model |-> m, row |-> row, bundle |-> b,
                      prior |-> NewestRow(m)]
      OBVIOUS
    <3>1. Begin(o, t)
      BY <2>4 DEF ImportVersion
    <3>2. ~Importing(t) /\ CommandInv(t)
      BY DEF Importing, CommandInv
    <3> QED
      BY <3>1, <3>2
  <2> QED
    BY <2>1, <2>2, <2>3, <2>4
<1>2. tx' = [tx EXCEPT ![o] = t] /\ UNCHANGED <<catalogVars, stale>>
  BY <1>1 DEF Begin
<1> QED
  BY <1>1, <1>2, CommandMoves

\* The upsert takes the package's row, of which no other import has a version.
LEMMA UpsertStep ==
  ASSUME AdminInv, NEW o \in Operators, Upsert(o)
  PROVE  AdminInv'
<1> PICK t : t = tx[o]
  OBVIOUS
<1>1. /\ t.at = "upsert" /\ t.model \in Models /\ t.row \in Rows
      /\ PackageFree(o, t.model) /\ UNCHANGED <<catalogVars, stale>>
  BY DEF Upsert, AdminInv, CommandInv
<1>2. CASE Rollback(o)
  BY <1>1, <1>2, CommandLeaves
<1>3. CASE ~Rollback(o)
  <2> PICK todo : todo = IF t.row.lead /\ ImportedIsLatest(t) THEN AffectedBundles(t) ELSE {}
    OBVIOUS
  <2> PICK at \in {"lead", "commit"} : at = IF todo = {} THEN "commit" ELSE "lead"
    OBVIOUS
  <2> PICK u : u = [at |-> at, model |-> t.model, row |-> t.row, bundle |-> t.bundle,
                    todo |-> todo, locked |-> {}]
    OBVIOUS
  <2>1. tx' = [tx EXCEPT ![o] = u] /\ ~Conflicts(t.model, t.row)
    BY <1>3, Zenon DEF Upsert
  <2>2. AsSigned(published[t.model], t.row)
    BY <2>1 DEF Conflicts, AsSigned
  <2>3. CommandInv(u)
    BY <1>1, <2>2 DEF CommandInv
  <2>4. \A p \in Operators \ {o} : Importing(tx[p]) => tx[p].model # u.model
    BY <1>1 DEF PackageFree, Importing
  <2> QED
    BY <1>1, <2>1, <2>3, <2>4, CommandMoves
<1> QED
  BY <1>2, <1>3

LEMMA LeadStep ==
  ASSUME AdminInv, NEW o \in Operators, LeadCheck(o)
  PROVE  AdminInv'
<1> PICK t : t = tx[o]
  OBVIOUS
<1>1. t.at = "lead" /\ CommandInv(t) /\ UNCHANGED <<catalogVars, stale>>
  BY DEF LeadCheck, AdminInv
<1>2. CASE Rollback(o)
  BY <1>1, <1>2, CommandLeaves
<1>3. CASE ~Rollback(o)
  <2> PICK b : b = CHOOSE x \in t.todo : TRUE
    OBVIOUS
  <2> PICK at \in {"lead", "commit"} : at = IF t.todo = {b} THEN "commit" ELSE "lead"
    OBVIOUS
  <2> PICK u : u = [t EXCEPT !.at = at, !.todo = t.todo \ {b}, !.locked = t.locked \union {b}]
    OBVIOUS
  <2>1. tx' = [tx EXCEPT ![o] = u]
    BY <1>3, Zenon DEF LeadCheck
  <2>2. /\ DOMAIN u = DOMAIN t /\ u.at = at /\ u.model = t.model /\ u.row = t.row
    BY <1>1 DEF CommandInv
  <2>3. CommandInv(u) /\ (Importing(u) => Importing(t))
    BY <1>1, <2>2 DEF CommandInv, Importing
  <2>4. \A p \in Operators \ {o} :
           Importing(u) /\ Importing(tx[p]) => tx[p].model # u.model
    BY <2>2, <2>3 DEF AdminInv, PackageLock
  <2>5. CommandInv(u) /\ UNCHANGED <<catalogVars, stale>>
    BY <1>1, <2>3
  <2> QED
    BY <2>1, <2>4, <2>5, CommandMoves, Zenon
<1> QED
  BY <1>2, <1>3

\* What an import writes: every version is still there, as it was signed.
LEMMA RowsAfter ==
  ASSUME NEW rows \in Seq(Rows), NEW row \in Rows, AsSigned(rows, row)
  PROVE  WithRow(rows, row) \in Seq(Rows) /\ RowsKept(rows, WithRow(rows, row))
<1>1. CASE \E i \in DOMAIN rows : rows[i].version = row.version
  <2> DEFINE After(i) == IF rows[i].version = row.version
                         THEN [row EXCEPT !.stored = row.stored \/ rows[i].stored]
                         ELSE rows[i]
  <2>1. WithRow(rows, row) = [i \in DOMAIN rows |-> After(i)]
    BY <1>1 DEF WithRow
  <2>2. \A i \in DOMAIN rows :
           /\ rows[i] \in Rows /\ After(i) \in Rows
           /\ After(i).version = rows[i].version /\ After(i).lead = rows[i].lead
           /\ rows[i].stored => After(i).stored
    <3> SUFFICES ASSUME NEW i \in DOMAIN rows
                 PROVE  /\ rows[i] \in Rows /\ After(i) \in Rows
                        /\ After(i).version = rows[i].version /\ After(i).lead = rows[i].lead
                        /\ rows[i].stored => After(i).stored
      OBVIOUS
    <3>1. rows[i] \in Rows
      OBVIOUS
    <3>2. CASE rows[i].version = row.version
      <4> PICK stored \in BOOLEAN : stored = (row.stored \/ rows[i].stored)
        BY <3>1 DEF Rows
      <4> PICK new \in Rows : new = [row EXCEPT !.stored = stored]
        BY DEF Rows
      <4>1. new.version = row.version /\ new.lead = row.lead /\ new.stored = stored
        BY DEF Rows
      <4>2. After(i) = new /\ row.lead = rows[i].lead
        BY <3>2 DEF AsSigned
      <4> QED
        BY <3>1, <3>2, <4>1, <4>2
    <3>3. CASE rows[i].version # row.version
      BY <3>1, <3>3
    <3> QED
      BY <3>2, <3>3
  <2> HIDE DEF After
  <2>3. DOMAIN rows = 1 .. Len(rows) /\ Len(rows) \in Nat
    OBVIOUS
  <2>4. [i \in DOMAIN rows |-> After(i)] \in Seq(Rows)
    BY <2>2, <2>3, IsASeq
  <2> QED
    BY <2>1, <2>2, <2>4 DEF RowsKept
<1>2. CASE ~\E i \in DOMAIN rows : rows[i].version = row.version
  <2>1. WithRow(rows, row) = Append(rows, row)
    BY <1>2 DEF WithRow
  <2>2. /\ Append(rows, row) \in Seq(Rows)
        /\ \A i \in DOMAIN rows : i \in DOMAIN Append(rows, row) /\ Append(rows, row)[i] = rows[i]
    OBVIOUS
  <2> QED
    BY <2>1, <2>2 DEF RowsKept
<1> QED
  BY <1>1, <1>2

\* A command that ends, with the versions it published.
LEMMA CommandEnds ==
  ASSUME AdminInv, NEW o \in Operators, Rollback(o),
         published' \in [Models -> Seq(Rows)],
         \A m \in Models : RowsKept(published[m], published'[m]),
         \A p \in Operators \ {o} :
            Importing(tx[p]) => published'[tx[p].model] = published[tx[p].model]
  PROVE  /\ DOMAIN tx' = Operators
         /\ \A p \in Operators : CommandInv(tx[p])'
         /\ PackageLock'
         /\ \A m \in Models : Stored(published[m]) => Stored(published'[m])
<1> PICK t : t = NoTransaction
  OBVIOUS
<1>1. /\ DOMAIN tx' = Operators /\ tx'[o] = t /\ t.at = "idle"
      /\ \A p \in Operators \ {o} : tx'[p] = tx[p]
  BY DEF Rollback, NoTransaction, AdminInv, CatalogTypes
<1>2. \A m \in Models : Stored(published[m]) => Stored(published'[m])
  BY DEF RowsKept, Stored
<1>3. ASSUME NEW p \in Operators
      PROVE  CommandInv(tx[p])'
  <2>1. CASE p = o
    BY <1>1, <2>1 DEF CommandInv, Importing
  <2>2. CASE p # o
    <3> PICK u : u = tx[p]
      OBVIOUS
    <3>1. tx'[p] = u /\ CommandInv(u)
      BY <1>1, <2>2 DEF AdminInv
    <3>2. Importing(u) => published'[u.model] = published[u.model]
      BY <2>2
    <3> QED
      BY <1>2, <3>1, <3>2 DEF CommandInv, Importing
  <2> QED
    BY <2>1, <2>2
<1>4. PackageLock'
  <2>1. \A p, q \in Operators :
           p # q /\ Importing(tx'[p]) /\ Importing(tx'[q]) => tx'[p].model # tx'[q].model
    BY <1>1 DEF AdminInv, PackageLock, Importing
  <2> QED
    BY <2>1 DEF PackageLock, Importing
<1> QED
  BY <1>1, <1>2, <1>3, <1>4

\* An import that commits puts its version beside those that are there.
LEMMA VersionCommitted ==
  ASSUME AdminInv, NEW o \in Operators, Commit(o)
  PROVE  /\ published' \in [Models -> Seq(Rows)]
         /\ \A m \in Models : RowsKept(published[m], published'[m])
         /\ \A p \in Operators \ {o} :
               Importing(tx[p]) => published'[tx[p].model] = published[tx[p].model]
<1> PICK t : t = tx[o]
  OBVIOUS
<1>1. published \in [Models -> Seq(Rows)] /\ t.at = "commit"
  BY DEF Commit, AdminInv, CatalogTypes
<1>2. CASE t.row = NoRow
  <2>1. published' = published
    BY <1>2 DEF Commit
  <2> QED
    BY <1>1, <2>1 DEF RowsKept
<1>3. CASE t.row # NoRow
  <2>1. t.model \in Models /\ t.row \in Rows /\ AsSigned(published[t.model], t.row)
    BY <1>1, <1>3 DEF AdminInv, CommandInv, Importing
  <2> PICK rows \in Seq(Rows) : rows = published[t.model]
    BY <1>1, <2>1
  <2>2. WithRow(rows, t.row) \in Seq(Rows) /\ RowsKept(rows, WithRow(rows, t.row))
    BY <2>1, RowsAfter
  <2> PICK new \in Seq(Rows) : new = WithRow(rows, t.row)
    BY <2>2, Zenon
  <2>3. published' = [published EXCEPT ![t.model] = new]
    BY <1>3 DEF Commit
  <2>4. \A m \in Models : published'[m] = IF m = t.model THEN new ELSE published[m]
    BY <1>1, <2>3
  <2>5. \A p \in Operators \ {o} : Importing(tx[p]) => tx[p].model \in Models \ {t.model}
    BY <1>1, <1>3 DEF AdminInv, PackageLock, CommandInv, Importing
  <2>6. \A m \in Models : RowsKept(published[m], published[m])
    BY <1>1 DEF RowsKept
  <2>7. published' \in [Models -> Seq(Rows)]
    BY <1>1, <2>3
  <2> QED
    BY <2>2, <2>4, <2>5, <2>6, <2>7
<1> QED
  BY <1>2, <1>3

LEMMA CommitStep ==
  ASSUME AdminInv, NEW o \in Operators, Commit(o)
  PROVE  AdminInv'
<1> PICK t : t = tx[o]
  OBVIOUS
<1>1. /\ Rollback(o)
      /\ publicBundles' = publicBundles /\ publicPackages' = publicPackages /\ stale' = stale
  BY DEF Commit
<1>2. /\ DOMAIN tx' = Operators
      /\ \A p \in Operators : CommandInv(tx[p])'
      /\ PackageLock'
      /\ published' \in [Models -> Seq(Rows)]
      /\ \A m \in Models : Stored(published[m]) => Stored(published'[m])
  BY <1>1, VersionCommitted, CommandEnds
<1>3. /\ members' \in [Bundles -> SUBSET Models]
      /\ \A b \in Bundles : members[b] \subseteq members'[b]
  <2>1. \A b \in Bundles : b = t.bundle => t.model \in Models
    BY DEF Commit, AdminInv, CommandInv
  <2> QED
    BY <2>1 DEF Commit, AdminInv, CatalogTypes
<1>4. PublicShelf'
  BY <1>1, <1>2, <1>3 DEF AdminInv, CatalogTypes, PublicShelf, Publishable, Stored
<1> QED
  BY <1>1, <1>2, <1>3, <1>4 DEF AdminInv, CatalogTypes

\* A package that leaves its last public bundle is no longer public, and only
\* an outdated read takes the last one out of a public bundle.
LEMMA RemoveStep ==
  ASSUME AdminInv, NEW o \in Operators, RemoveWrite(o)
  PROVE  AdminInv'
<1> PICK t : t = tx[o]
  OBVIOUS
<1>1. /\ Rollback(o) /\ published' = published /\ publicBundles' = publicBundles
      /\ t.bundle \in Bundles
      /\ members' = [members EXCEPT ![t.bundle] = members[t.bundle] \ {t.model}]
  BY DEF RemoveWrite, AdminInv, CommandInv
<1>2. \A m \in Models : RowsKept(published[m], published[m])
  BY DEF RowsKept
<1>3. /\ DOMAIN tx' = Operators
      /\ \A p \in Operators : CommandInv(tx[p])'
      /\ PackageLock'
  <2>1. published' \in [Models -> Seq(Rows)]
    BY <1>1 DEF AdminInv, CatalogTypes
  <2> QED
    BY <1>1, <1>2, <2>1, CommandEnds
<1>4. /\ members' \in [Bundles -> SUBSET Models]
      /\ members'[t.bundle] = members[t.bundle] \ {t.model}
      /\ \A b \in Bundles \ {t.bundle} : members'[b] = members[b]
  BY <1>1 DEF AdminInv, CatalogTypes
<1>5. /\ publicPackages' \subseteq publicPackages
      /\ t.model \in publicPackages' => \E b \in publicBundles : t.model \in members'[b]
  BY DEF RemoveWrite
<1>6. /\ stale \subseteq stale'
      /\ ~Removable(t.bundle, t.model) => t.bundle \in stale'
  BY DEF RemoveWrite, Outdated
<1>7. \A m \in publicPackages' : Publishable(m)'
  BY <1>1, <1>5 DEF AdminInv, PublicShelf, Publishable
<1>8. ASSUME NEW m \in publicPackages', stale' = {}
      PROVE  \E b \in Bundles : m \in members'[b]
  <2>1. CASE m = t.model
    BY <1>5, <2>1 DEF AdminInv, CatalogTypes
  <2>2. CASE m # t.model
    <3>1. PICK b \in Bundles : m \in members[b]
      BY <1>5, <1>6, <1>8 DEF AdminInv, PublicShelf
    <3>2. m \in members'[b]
      BY <1>4, <2>2, <3>1
    <3> QED
      BY <3>2
  <2> QED
    BY <2>1, <2>2
<1>9. ASSUME NEW b \in publicBundles' \ stale'
      PROVE  members'[b] # {}
  <2>1. b \in publicBundles \ stale /\ b \in Bundles /\ members[b] # {}
    BY <1>1, <1>6 DEF AdminInv, CatalogTypes, PublicShelf
  <2>2. CASE b = t.bundle
    <3>1. t.model \in members[b] /\ ~(Cardinality(members[b]) <= 1)
      BY <1>6, <1>9, <2>1, <2>2 DEF Removable
    <3>2. ASSUME members'[b] = {} PROVE FALSE
      <4>1. members[b] = {t.model}
        BY <1>4, <2>2, <3>1, <3>2
      <4>2. Cardinality(members[b]) = 1
        BY <4>1, FS_Singleton
      <4> QED
        BY <3>1, <4>2
    <3> QED
      BY <3>2
  <2>3. CASE b # t.bundle
    BY <1>4, <2>1, <2>3
  <2> QED
    BY <2>2, <2>3
<1>10. CatalogTypes' /\ PublicShelf'
  BY <1>1, <1>3, <1>4, <1>5, <1>7, <1>8, <1>9 DEF AdminInv, CatalogTypes, PublicShelf
<1> QED
  BY <1>3, <1>10 DEF AdminInv

\* What becomes public was found to be there.
LEMMA PublishStep ==
  ASSUME AdminInv, NEW o \in Operators, PublishWrite(o)
  PROVE  AdminInv'
<1> PICK t : t = tx[o]
  OBVIOUS
<1>1. /\ Rollback(o) /\ published' = published /\ members' = members
      /\ publicPackages' = publicPackages \union t.listed
      /\ publicBundles' = publicBundles \union {t.bundle}
  BY DEF PublishWrite
<1>2. /\ t.bundle \in Bundles /\ t.listed # {}
      /\ \A m \in t.listed : m \in Models /\ Stored(published[m])
  BY DEF PublishWrite, AdminInv, CommandInv
<1>3. \A m \in Models : RowsKept(published[m], published[m])
  BY DEF RowsKept
<1>4. /\ DOMAIN tx' = Operators
      /\ \A p \in Operators : CommandInv(tx[p])'
      /\ PackageLock'
  <2>1. published' \in [Models -> Seq(Rows)]
    BY <1>1 DEF AdminInv, CatalogTypes
  <2> QED
    BY <1>1, <1>3, <2>1, CommandEnds
<1>5. /\ stale \subseteq stale'
      /\ t.listed # members[t.bundle] => t.bundle \in stale'
  BY DEF PublishWrite, Outdated
<1>6. \A m \in publicPackages' : Publishable(m)'
  BY <1>1, <1>2 DEF AdminInv, PublicShelf, Publishable, Stored
<1>7. ASSUME NEW m \in publicPackages', stale' = {}
      PROVE  \E b \in Bundles : m \in members'[b]
  BY <1>1, <1>2, <1>5, <1>7 DEF AdminInv, PublicShelf
<1>8. ASSUME NEW b \in publicBundles' \ stale'
      PROVE  members'[b] # {}
  BY <1>1, <1>2, <1>5, <1>8 DEF AdminInv, PublicShelf
<1>9. CatalogTypes' /\ PublicShelf'
  BY <1>1, <1>2, <1>4, <1>6, <1>7, <1>8 DEF AdminInv, CatalogTypes, PublicShelf
<1> QED
  BY <1>4, <1>9 DEF AdminInv

LEMMA HideStep ==
  ASSUME AdminInv, NEW o \in Operators, NEW b \in Bundles, HideBundle(o, b)
  PROVE  AdminInv'
<1>1. /\ publicBundles' \subseteq publicBundles
      /\ UNCHANGED <<published, members, publicPackages, tx, stale>>
  BY DEF HideBundle
<1> QED
  BY <1>1 DEF AdminInv, CatalogTypes, CommandInv, PackageLock, Importing, PublicShelf,
              Publishable

LEMMA AdminNext == AdminInv /\ AdminStep => AdminInv'
<1> SUFFICES ASSUME AdminInv, NEW o \in Operators,
                    \/ CommandStep(o)
                    \/ \E m \in Models, row \in Rows, b \in Bundles \union {NoBundle} :
                          ImportVersion(o, m, row, b)
             PROVE  AdminInv'
  BY DEF AdminStep
<1>1. CommandStops(o) => AdminInv'
  BY CommandLeaves DEF CommandStops
<1> QED
  BY <1>1, ReadingStep, HideStep, UpsertStep, LeadStep, CommitStep, RemoveStep, PublishStep,
     Zenon DEF CommandStep

\* The inductive invariant of the catalog: what a command decided on still
\* holds when it writes, as far as its locks or the rows themselves see to it.
THEOREM AdminInvariance == AdminSpec => []AdminInv
<1>1. AdminInv /\ UNCHANGED adminVars => AdminInv'
  BY DEF adminVars, catalogVars, AdminInv, CatalogTypes, CommandInv, PackageLock, Importing,
         PublicShelf, Publishable
<1> QED
  BY <1>1, AdminStart, AdminNext, PTL DEF AdminSpec

\* What the public is shown is there (setPublicBundleVisibility, the bundle
\* commands of company-os-store-admin.mjs).
THEOREM ShelfIsTrue == AdminSpec => []PublicShelf
<1>1. AdminInv => PublicShelf
  BY DEF AdminInv
<1> QED
  BY <1>1, AdminInvariance, PTL

\* A version that was published stays as it was signed, and stays in the store,
\* whoever imports it again and when (import-company-os-bundle.mjs).
THEOREM VersionsAreFinal == AdminSpec => PublishedIsFinal
<1>1. ASSUME AdminInv, AdminStep
      PROVE  \A m \in Models : RowsKept(published[m], published'[m])
  <2>1. CASE published' = published
    BY <2>1 DEF RowsKept
  <2>2. CASE published' # published
    <3>1. PICK o \in Operators : Commit(o)
      BY <1>1, <2>2, Zenon
      DEF AdminStep, CommandStep, AddRead, RemoveRead, PublishRead, HideBundle, Upsert,
          LeadCheck, RemoveWrite, PublishWrite, CommandStops, ImportVersion, Begin, catalogVars
    <3> QED
      BY <1>1, <3>1, VersionCommitted
  <2> QED
    BY <2>1, <2>2
<1>2. UNCHANGED adminVars => \A m \in Models : RowsKept(published[m], published'[m])
  BY DEF adminVars, catalogVars, RowsKept
<1>3. AdminInv /\ [AdminStep]_adminVars =>
         [\A m \in Models : \A i \in DOMAIN published[m] :
            \E j \in DOMAIN published'[m] :
               /\ published'[m][j].version = published[m][i].version
               /\ published'[m][j].lead = published[m][i].lead
               /\ published[m][i].stored => published'[m][j].stored]_adminVars
  BY <1>1, <1>2 DEF RowsKept
<1> QED
  BY <1>3, AdminInvariance, PTL DEF AdminSpec, PublishedIsFinal

-------------------------------------------------------------------------------
(***************************************************************************)
(* The stable release of the appliance.                                    *)
(***************************************************************************)

ReleaseSpec == ReleasesInit /\ [][ReleaseStep]_releaseVars

Pins == Tags \union {NoTag}
GitHubReleases == [tag : Pins, state : {"absent", "draft", "published"}, number : Nat,
                   sound : BOOLEAN]

AskedSets ==
    [at : {"asking"}, app : AppInstances, pin : Pins]
FoundSets ==
    [at : {"found"}, pin : Pins, release : GitHubReleases]
LinkedSets ==
    [at : {"linked"}, pin : Pins, release : GitHubReleases, linked : Nat]
AnsweredSets ==
    [at : {"answered"}, pin : Pins, release : GitHubReleases, linked : Nat, commit : Nat]

\* The release was the one of its tag, and its tag has not gone back since.
Held(release) ==
    release.tag \in Tags /\ release.number <= gitHub[release.tag].number

GitHubInv ==
    /\ gitHub \in [Tags -> GitHubReleases] /\ numbered \in Nat /\ pinned \in Pins
    /\ \A t \in Tags : /\ gitHub[t].number <= numbered
                       /\ gitHub[t].state = "published" => gitHub[t].tag = t

CacheInv ==
    /\ releaseCache \in [AppInstances -> [CacheKeys -> GitHubReleases]]
    /\ \A a \in AppInstances, k \in CacheKeys :
          releaseCache[a][k] # NoRelease =>
             /\ Held(releaseCache[a][k])
             /\ k \in Tags => releaseCache[a][k].tag = k

\* What a request knows.
AskerInv(asker) ==
    \/ asker = NotAsking
    \/ asker \in AskedSets
    \/ /\ asker \in FoundSets \union LinkedSets \union AnsweredSets
       /\ Held(asker.release)
       /\ asker.pin # NoTag => asker.release.tag = asker.pin
       /\ asker.at # "found" => asker.linked = asker.release.number
       /\ asker.at = "answered" => asker.commit >= asker.release.number

ReleaseInv ==
    /\ GitHubInv /\ CacheInv
    /\ DOMAIN askers = Askers
    /\ \A q \in Askers : AskerInv(askers[q])

LEMMA ReleaseStart == ReleasesInit => ReleaseInv
<1> SUFFICES ASSUME ReleasesInit PROVE ReleaseInv
  OBVIOUS
<1>1. NoRelease \in GitHubReleases /\ NoRelease.state = "absent" /\ NoRelease.number = 0
  BY DEF NoRelease, GitHubReleases, Pins
<1>2. GitHubInv
  BY <1>1 DEF ReleasesInit, GitHubInv, Pins
<1>3. CacheInv
  BY <1>1 DEF ReleasesInit, CacheInv
<1> QED
  BY <1>2, <1>3 DEF ReleasesInit, ReleaseInv, AskerInv

\* No tag goes back to an older release.
GitHubGrows == \A t \in Tags : gitHub[t].number <= gitHub'[t].number

LEMMA HeldStays ==
  ASSUME GitHubInv, GitHubInv', GitHubGrows, NEW release \in GitHubReleases, Held(release)
  PROVE  Held(release)'
<1>1. release.tag \in Tags /\ release.number <= gitHub[release.tag].number
  BY DEF Held
<1>2. gitHub[release.tag].number <= gitHub'[release.tag].number
  BY <1>1 DEF GitHubGrows
<1>3. /\ release.number \in Nat /\ gitHub[release.tag].number \in Nat
      /\ gitHub'[release.tag].number \in Nat
  BY <1>1 DEF GitHubInv, GitHubReleases
<1>4. release.number <= gitHub'[release.tag].number
  BY <1>1, <1>2, <1>3
<1> QED
  BY <1>1, <1>4 DEF Held

LEMMA CacheKept ==
  ASSUME GitHubInv, GitHubInv', GitHubGrows, CacheInv, releaseCache' = releaseCache
  PROVE  CacheInv'
<1>1. ASSUME NEW a \in AppInstances, NEW k \in CacheKeys, releaseCache[a][k] # NoRelease
      PROVE  Held(releaseCache[a][k])' /\ (k \in Tags => releaseCache[a][k].tag = k)
  <2> PICK release \in GitHubReleases : release = releaseCache[a][k]
    BY DEF CacheInv
  <2>1. Held(release) /\ (k \in Tags => release.tag = k)
    BY <1>1 DEF CacheInv
  <2>2. Held(release)'
    BY <2>1, HeldStays
  <2>3. release = releaseCache'[a][k]
    OBVIOUS
  <2> QED
    BY <2>1, <2>2, <2>3 DEF Held
<1> QED
  BY <1>1 DEF CacheInv, CacheKeys, Held

LEMMA AskerKept ==
  ASSUME GitHubInv, GitHubInv', GitHubGrows, NEW asker, AskerInv(asker)
  PROVE  AskerInv(asker)'
<1>1. CASE asker = NotAsking \/ asker \in AskedSets
  BY <1>1 DEF AskerInv, AskedSets, Pins
<1>2. CASE ~(asker = NotAsking \/ asker \in AskedSets)
  <2>1. asker \in FoundSets \union LinkedSets \union AnsweredSets /\ Held(asker.release)
    BY <1>2 DEF AskerInv
  <2>2. asker.release \in GitHubReleases
    BY <2>1 DEF FoundSets, LinkedSets, AnsweredSets
  <2>3. Held(asker.release)'
    BY <2>1, <2>2, HeldStays
  <2> QED
    BY <1>2, <2>1, <2>3 DEF AskerInv
<1> QED
  BY <1>1, <1>2

\* What others do leaves the requests as they are.
LEMMA AskersKept ==
  ASSUME ReleaseInv, GitHubInv', CacheInv', GitHubGrows, askers' = askers
  PROVE  ReleaseInv'
<1>1. ASSUME NEW q \in Askers
      PROVE  AskerInv(askers[q])'
  <2> PICK asker : asker = askers[q]
    OBVIOUS
  <2>1. AskerInv(asker)'
    BY AskerKept DEF ReleaseInv
  <2>2. asker = askers'[q]
    OBVIOUS
  <2> QED
    BY <2>1, <2>2 DEF AskerInv, Held
<1> QED
  BY <1>1 DEF ReleaseInv

\* One request goes on.
LEMMA AskerMoves ==
  ASSUME ReleaseInv, NEW q \in Askers, NEW asker, Asker(q, asker), AskerInv(asker),
         gitHub' = gitHub, GitHubInv', CacheInv'
  PROVE  ReleaseInv'
<1>0. GitHubGrows
  BY DEF GitHubGrows, ReleaseInv, GitHubInv, GitHubReleases
<1>1. /\ DOMAIN askers' = Askers /\ askers'[q] = asker
      /\ \A p \in Askers \ {q} : askers'[p] = askers[p]
  BY DEF ReleaseInv, Asker
<1>2. ASSUME NEW p \in Askers
      PROVE  AskerInv(askers[p])'
  <2> PICK it : it = askers'[p]
    OBVIOUS
  <2>1. AskerInv(it)
    BY <1>1 DEF ReleaseInv
  <2>2. AskerInv(it)'
    BY <1>0, <2>1, AskerKept DEF ReleaseInv
  <2> QED
    BY <2>2 DEF AskerInv, Held
<1> QED
  BY <1>1, <1>2 DEF ReleaseInv

-------------------------------------------------------------------------------
\* What the developers, the operators and the clock do.
LEMMA RepositoryStep ==
  ASSUME ReleaseInv,
         \/ \E t \in Tags :
               \/ \E sound \in BOOLEAN : PublishRelease(t, sound)
               \/ \E state \in {"absent", "draft"} : WithdrawRelease(t, state)
         \/ \E t \in Tags \union {NoTag} : SetStable(t)
  PROVE  ReleaseInv'
<1>0. gitHub \in [Tags -> GitHubReleases] /\ numbered \in Nat
  BY DEF ReleaseInv, GitHubInv
<1>1. UNCHANGED <<releaseCache, askers>>
  BY DEF PublishRelease, WithdrawRelease, SetStable
<1>2. GitHubInv' /\ GitHubGrows
  <2>1. ASSUME NEW t \in Tags, NEW sound \in BOOLEAN, PublishRelease(t, sound)
        PROVE  GitHubInv' /\ GitHubGrows
    <3>1. numbered + 1 \in Nat
      BY <1>0
    <3> PICK new \in GitHubReleases :
           new = [tag |-> t, state |-> "published", number |-> numbered + 1, sound |-> sound]
      BY <3>1 DEF GitHubReleases, Pins
    <3>2. /\ gitHub' = [gitHub EXCEPT ![t] = new] /\ numbered' = numbered + 1
          /\ pinned' = pinned
      BY <2>1 DEF PublishRelease
    <3>3. /\ gitHub' \in [Tags -> GitHubReleases] /\ gitHub'[t] = new
          /\ \A u \in Tags \ {t} : gitHub'[u] = gitHub[u]
      BY <1>0, <3>2
    <3>4. \A u \in Tags : gitHub[u].number \in Nat /\ gitHub[u].number <= numbered
      BY <1>0 DEF ReleaseInv, GitHubInv, GitHubReleases
    <3> QED
      BY <1>0, <3>2, <3>3, <3>4 DEF ReleaseInv, GitHubInv, GitHubGrows, Pins
  <2>2. ASSUME NEW t \in Tags, NEW state \in {"absent", "draft"}, WithdrawRelease(t, state)
        PROVE  GitHubInv' /\ GitHubGrows
    <3> PICK old \in GitHubReleases : old = gitHub[t]
      BY <1>0
    <3> PICK new \in GitHubReleases : new = [old EXCEPT !.state = state]
      BY DEF GitHubReleases
    <3>1. new.number = old.number /\ new.state # "published"
      BY DEF GitHubReleases
    <3>2. gitHub' = [gitHub EXCEPT ![t] = new] /\ UNCHANGED <<numbered, pinned>>
      BY <2>2 DEF WithdrawRelease
    <3>3. /\ gitHub' \in [Tags -> GitHubReleases] /\ gitHub'[t] = new
          /\ \A u \in Tags \ {t} : gitHub'[u] = gitHub[u]
      BY <1>0, <3>2
    <3>4. \A u \in Tags : gitHub[u].number \in Nat /\ gitHub'[u].number = gitHub[u].number
      BY <1>0, <3>1, <3>3 DEF GitHubReleases
    <3> QED
      BY <1>0, <3>1, <3>2, <3>3, <3>4 DEF ReleaseInv, GitHubInv, GitHubGrows, Pins
  <2>3. ASSUME NEW t \in Tags \union {NoTag}, SetStable(t)
        PROVE  GitHubInv' /\ GitHubGrows
    <3>1. pinned' \in Pins /\ UNCHANGED <<gitHub, numbered>>
      BY <2>3 DEF SetStable, Pins
    <3> QED
      BY <3>1 DEF ReleaseInv, GitHubInv, GitHubGrows, GitHubReleases, Pins
  <2> QED
    BY <2>1, <2>2, <2>3
<1>3. CacheInv'
  BY <1>1, <1>2, CacheKept DEF ReleaseInv
<1> QED
  BY <1>1, <1>2, <1>3, AskersKept

\* The repository has a newest release if it has any.
LEMMA NewestExists ==
  ASSUME GitHubInv, Eligible # {}
  PROVE  \E t \in Eligible : \A u \in Eligible : gitHub[u].number <= gitHub[t].number
<1>1. \A t \in Eligible : /\ gitHub[t].number \in Nat /\ numbered \in Nat
                          /\ gitHub[t].number <= numbered
  BY DEF GitHubInv, Eligible, GitHubReleases
<1> DEFINE Ages == {numbered - gitHub[t].number : t \in Eligible}
<1>2. Ages \subseteq Nat /\ Ages # {}
  BY <1>1
<1>3. PICK age \in Ages : \A other \in Ages : age <= other
  BY <1>2, SomeLeast
<1>4. PICK t \in Eligible : age = numbered - gitHub[t].number
  OBVIOUS
<1>5. ASSUME NEW u \in Eligible
      PROVE  gitHub[u].number <= gitHub[t].number
  <2>1. age <= numbered - gitHub[u].number
    BY <1>3
  <2> QED
    BY <1>1, <1>4, <2>1
<1> QED
  BY <1>5

\* What GitHub answers is the release of a tag, of the pinned one if any.
LEMMA LookedIsHeld ==
  ASSUME GitHubInv, NEW pin \in Pins, Looked(pin) # NoRelease
  PROVE  /\ Looked(pin) \in GitHubReleases /\ Held(Looked(pin))
         /\ pin # NoTag => Looked(pin).tag = pin
<1>1. \E t \in Eligible : Looked(pin) = gitHub[t] /\ (pin # NoTag => t = pin)
  <2>1. CASE pin # NoTag
    BY <2>1 DEF Looked
  <2>2. CASE pin = NoTag
    <3>1. Eligible # {}
      BY <2>2 DEF Looked
    <3> PICK t : t = CHOOSE x \in Eligible :
                       \A u \in Eligible : gitHub[u].number <= gitHub[x].number
      OBVIOUS
    <3>2. t \in Eligible
      BY <3>1, NewestExists
    <3>3. Looked(pin) = gitHub[t]
      BY <2>2, <3>1 DEF Looked
    <3> QED
      BY <2>2, <3>2, <3>3
  <2> QED
    BY <2>1, <2>2
<1>2. PICK t \in Eligible : Looked(pin) = gitHub[t] /\ (pin # NoTag => t = pin)
  BY <1>1
<1>3. /\ t \in Tags /\ gitHub[t] \in GitHubReleases /\ gitHub[t].tag = t
      /\ gitHub[t].number \in Nat
  BY DEF GitHubInv, Eligible, GitHubReleases
<1> QED
  BY <1>2, <1>3 DEF Held

\* A cache takes what was looked up under its key, and forgets it.
LEMMA CacheChanges ==
  ASSUME GitHubInv, CacheInv, NEW a \in AppInstances, NEW k \in CacheKeys,
         NEW release \in GitHubReleases,
         releaseCache' = [releaseCache EXCEPT ![a][k] = release],
         release # NoRelease => Held(release) /\ (k \in Tags => release.tag = k),
         UNCHANGED <<gitHub, numbered, pinned>>
  PROVE  GitHubInv' /\ CacheInv'
<1>1. GitHubInv'
  BY DEF GitHubInv, GitHubReleases, Pins
<1> PICK row \in [CacheKeys -> GitHubReleases] : row = releaseCache[a]
  BY DEF CacheInv
<1> PICK new \in [CacheKeys -> GitHubReleases] : new = [row EXCEPT ![k] = release]
  OBVIOUS
<1>2. releaseCache' = [releaseCache EXCEPT ![a] = new]
  OBVIOUS
<1>3. /\ releaseCache' \in [AppInstances -> [CacheKeys -> GitHubReleases]]
      /\ \A b \in AppInstances, j \in CacheKeys :
            releaseCache'[b][j] = IF b = a /\ j = k THEN release ELSE releaseCache[b][j]
  BY <1>2 DEF CacheInv
<1>4. ASSUME NEW b \in AppInstances, NEW j \in CacheKeys, releaseCache'[b][j] # NoRelease
      PROVE  Held(releaseCache[b][j])' /\ (j \in Tags => releaseCache'[b][j].tag = j)
  <2>1. CASE b = a /\ j = k
    BY <1>3, <1>4, <2>1 DEF Held
  <2>2. CASE ~(b = a /\ j = k)
    <3> PICK same : same = releaseCache[b][j]
      OBVIOUS
    <3>1. releaseCache'[b][j] = same /\ same # NoRelease
      BY <1>3, <1>4, <2>2
    <3>2. Held(same) /\ (j \in Tags => same.tag = j)
      BY <3>1 DEF CacheInv
    <3> QED
      BY <3>1, <3>2 DEF Held
  <2> QED
    BY <2>1, <2>2
<1> QED
  BY <1>1, <1>3, <1>4 DEF CacheInv, CacheKeys, Held

LEMMA LookUpStep ==
  ASSUME ReleaseInv, NEW q \in Askers, LookUpRelease(q)
  PROVE  ReleaseInv'
<1> PICK asker : asker = askers[q]
  OBVIOUS
<1>1. asker \in AskedSets
  BY DEF LookUpRelease, ReleaseInv, AskerInv, NotAsking, FoundSets, LinkedSets, AnsweredSets
<1> PICK pin \in Pins : pin = asker.pin
  BY <1>1 DEF AskedSets
<1> PICK a \in AppInstances : a = asker.app
  BY <1>1 DEF AskedSets
<1> PICK k \in CacheKeys : k = CacheKey(pin)
  BY DEF CacheKey, CacheKeys, Pins
<1>2. pin # NoTag => k = pin /\ k \in Tags
  BY DEF CacheKey, Pins
<1>3. pin = NoTag => k \notin Tags
  BY TagAssumption DEF CacheKey, NewestKey
<1> PICK release : release = IF releaseCache[a][k] # NoRelease THEN releaseCache[a][k]
                             ELSE Looked(pin)
  OBVIOUS
<1>4. /\ GitHubInv /\ CacheInv /\ UNCHANGED <<gitHub, numbered, pinned>>
  BY DEF LookUpRelease, ReleaseInv
<1>5. release # NoRelease =>
         /\ release \in GitHubReleases /\ Held(release)
         /\ pin # NoTag => release.tag = pin
  <2>1. CASE releaseCache[a][k] # NoRelease
    BY <1>2, <1>4, <2>1 DEF CacheInv
  <2>2. CASE releaseCache[a][k] = NoRelease
    BY <1>4, <2>2, LookedIsHeld
  <2> QED
    BY <2>1, <2>2
<1>6. CASE release = NoRelease
  <2>1. Asker(q, NotAsking) /\ releaseCache' = releaseCache
    BY <1>6 DEF LookUpRelease
  <2>2. GitHubInv' /\ CacheInv'
    BY <1>4, <2>1 DEF GitHubInv, GitHubReleases, Pins, CacheInv, CacheKeys, Held
  <2>3. AskerInv(NotAsking)
    BY DEF AskerInv
  <2> QED
    BY <1>4, <2>1, <2>2, <2>3, AskerMoves
<1>7. CASE release # NoRelease
  <2> PICK found \in FoundSets : found = [at |-> "found", pin |-> pin, release |-> release]
    BY <1>5, <1>7 DEF FoundSets
  <2>1. /\ Asker(q, found)
        /\ releaseCache' = [releaseCache EXCEPT ![a][k] = release]
    BY <1>7 DEF LookUpRelease
  <2>2. k \in Tags => release.tag = k
    BY <1>2, <1>3, <1>5, <1>7
  <2>3. GitHubInv' /\ CacheInv'
    BY <1>4, <1>5, <1>7, <2>1, <2>2, CacheChanges
  <2>4. AskerInv(found)
    BY <1>5, <1>7 DEF AskerInv
  <2> QED
    BY <1>4, <2>1, <2>3, <2>4, AskerMoves
<1> QED
  BY <1>6, <1>7

LEMMA ExpiryStep ==
  ASSUME ReleaseInv, NEW a \in AppInstances, NEW k \in CacheKeys, CacheExpires(a, k)
  PROVE  ReleaseInv'
<1> PICK release \in GitHubReleases : release = NoRelease
  BY DEF NoRelease, GitHubReleases, Pins
<1>1. /\ releaseCache' = [releaseCache EXCEPT ![a][k] = release]
      /\ UNCHANGED <<gitHub, numbered, pinned, askers>>
  BY DEF CacheExpires
<1>2. GitHubInv' /\ CacheInv'
  BY <1>1, CacheChanges DEF ReleaseInv
<1>3. GitHubGrows
  BY <1>1 DEF GitHubGrows, ReleaseInv, GitHubInv, GitHubReleases
<1> QED
  BY <1>1, <1>2, <1>3, AskersKept

LEMMA AskerStep ==
  ASSUME ReleaseInv, NEW q \in Askers,
         \/ \E a \in AppInstances : AskStable(q, a)
         \/ LinkAssets(q)
         \/ ReadCommit(q)
         \/ AskerFails(q)
  PROVE  ReleaseInv'
<1> PICK asker : asker = askers[q]
  OBVIOUS
<1>1. /\ AskerInv(asker) /\ GitHubInv /\ CacheInv
      /\ UNCHANGED <<gitHub, numbered, pinned, releaseCache>>
  BY DEF ReleaseInv, AskStable, LinkAssets, ReadCommit, AskerFails
<1>2. GitHubInv' /\ CacheInv'
  BY <1>1 DEF GitHubInv, GitHubReleases, Pins, CacheInv, CacheKeys, Held
<1>3. AskerInv(NotAsking)
  BY DEF AskerInv
<1>4. Asker(q, NotAsking) => ReleaseInv'
  BY <1>1, <1>2, <1>3, AskerMoves
<1>5. ASSUME NEW a \in AppInstances, AskStable(q, a)
      PROVE  ReleaseInv'
  <2> PICK new \in AskedSets : new = [at |-> "asking", app |-> a, pin |-> pinned]
    BY <1>1 DEF AskedSets, GitHubInv
  <2>1. Asker(q, new) /\ AskerInv(new)
    BY <1>5 DEF AskStable, AskerInv
  <2> QED
    BY <1>1, <1>2, <2>1, AskerMoves
<1>6. CASE LinkAssets(q)
  <2>1. asker \in FoundSets
    BY <1>1, <1>6 DEF LinkAssets, AskerInv, NotAsking, AskedSets, LinkedSets, AnsweredSets
  <2> PICK release \in GitHubReleases : release = asker.release
    BY <2>1 DEF FoundSets
  <2>2. Held(release) /\ (asker.pin # NoTag => release.tag = asker.pin)
    BY <1>1, <2>1 DEF AskerInv, NotAsking, AskedSets, FoundSets
  <2>3. CASE release.sound /\ AssetsFound(release)
    <3>1. gitHub[release.tag].number = release.number /\ release.number \in Nat
      BY <2>3 DEF AssetsFound, GitHubReleases
    <3> PICK new \in LinkedSets : new = [at |-> "linked", pin |-> asker.pin,
                                         release |-> release, linked |-> release.number]
      BY <2>1, <3>1 DEF FoundSets, LinkedSets
    <3>2. Asker(q, new)
      BY <1>6, <2>3, <3>1 DEF LinkAssets
    <3>3. AskerInv(new)
      BY <2>2 DEF AskerInv
    <3> QED
      BY <1>1, <1>2, <3>2, <3>3, AskerMoves
  <2>4. CASE ~(release.sound /\ AssetsFound(release))
    BY <1>4, <1>6, <2>4 DEF LinkAssets
  <2> QED
    BY <2>3, <2>4
<1>7. CASE ReadCommit(q)
  <2>1. asker \in LinkedSets
    BY <1>1, <1>7 DEF ReadCommit, AskerInv, NotAsking, AskedSets, FoundSets, AnsweredSets
  <2> PICK release \in GitHubReleases : release = asker.release
    BY <2>1 DEF LinkedSets
  <2>2. /\ Held(release) /\ (asker.pin # NoTag => release.tag = asker.pin)
        /\ asker.linked = release.number
    BY <1>1, <2>1 DEF AskerInv, NotAsking, AskedSets, LinkedSets
  <2> PICK commit \in Nat : commit = gitHub[release.tag].number
    BY <1>1, <2>2 DEF Held, GitHubInv, GitHubReleases
  <2>3. commit >= release.number
    BY <2>2 DEF Held, GitHubReleases
  <2> PICK new \in AnsweredSets : new = [at |-> "answered", pin |-> asker.pin,
                                         release |-> release, linked |-> asker.linked,
                                         commit |-> commit]
    BY <2>1 DEF LinkedSets, AnsweredSets
  <2>4. Asker(q, new)
    BY <1>7 DEF ReadCommit
  <2>5. AskerInv(new)
    BY <2>2, <2>3 DEF AskerInv
  <2> QED
    BY <1>1, <1>2, <2>4, <2>5, AskerMoves
<1>8. CASE AskerFails(q)
  BY <1>4, <1>8 DEF AskerFails
<1> QED
  BY <1>5, <1>6, <1>7, <1>8

LEMMA ReleaseNext == ReleaseInv /\ ReleaseStep => ReleaseInv'
  BY RepositoryStep, LookUpStep, ExpiryStep, AskerStep, Zenon DEF ReleaseStep

\* The inductive invariant of the channel: what an instance remembers under a
\* tag is a release of that tag, and no tag goes back behind it.
THEOREM ReleaseInvariance == ReleaseSpec => []ReleaseInv
<1>1. ReleaseInv /\ UNCHANGED releaseVars => ReleaseInv'
  <2> SUFFICES ASSUME ReleaseInv, UNCHANGED releaseVars PROVE ReleaseInv'
    OBVIOUS
  <2>1. UNCHANGED <<gitHub, numbered, pinned, releaseCache, askers>>
    BY DEF releaseVars
  <2>2. GitHubInv' /\ GitHubGrows
    BY <2>1 DEF ReleaseInv, GitHubInv, GitHubGrows, GitHubReleases, Pins
  <2>3. CacheInv'
    BY <2>1, <2>2, CacheKept DEF ReleaseInv
  <2> QED
    BY <2>1, <2>2, <2>3, AskersKept
<1> QED
  BY <1>1, ReleaseStart, ReleaseNext, PTL DEF ReleaseSpec

\* A box is answered with the release of the tag that was pinned when it asked,
\* and with parts that belong together (latestTruchsessRelease).
THEOREM StableRelease == ReleaseSpec => []StableIsOneRelease
<1>1. ReleaseInv => StableIsOneRelease
  <2> SUFFICES ASSUME ReleaseInv, NEW q \in Askers, askers[q].at = "answered"
               PROVE  /\ askers[q].pin # NoTag => askers[q].release.tag = askers[q].pin
                      /\ askers[q].linked = askers[q].release.number
                      /\ askers[q].commit >= askers[q].release.number
    BY DEF StableIsOneRelease
  <2> PICK asker : asker = askers[q]
    OBVIOUS
  <2> QED
    BY DEF ReleaseInv, AskerInv, NotAsking, AskedSets
<1> QED
  BY <1>1, ReleaseInvariance, PTL


-------------------------------------------------------------------------------
(***************************************************************************)
(* The pages that register agents.                                         *)
(***************************************************************************)

RegistrationSpec == RegistrationInit /\ [][RegistrationStep]_registrationVars

Uris == TrustedAgents \union Drafts \union {Blank}
MintRecords ==
    [from : Holders, uri : Uris, onBase : BOOLEAN, id : Nat,
     status : {"asked", "rejected", "sent", "mined", "reverted"}]
AgentRecords == [by : Holders, uri : Uris]
Items ==
    [status : {"idle", "awaiting", "confirming", "confirmed", "failed"},
     tx : Nat, id : Nat]
Flows == [item : 0 .. TrustedCount, progress : [TrustedAgents -> Items]]
Onboards ==
    [draft : Drafts \union {Blank}, tx : Nat,
     at : {"editing", "pending", "confirming", "success"}]
OwnedLists == [open : BOOLEAN, loading : BOOLEAN, ids : SUBSET Nat]
Loads == [by : Holders, at : {"starting", "reading", "found", "over"}, ids : SUBSET Nat]

RegistrationTypes ==
    /\ wallet \in [account : Holders \union {NoHolder}, onBase : BOOLEAN]
    /\ mints \in Seq(MintRecords)
    /\ registry \in Seq(AgentRecords)
    /\ flows \in Seq(Flows)
    /\ page \in 0 .. Len(flows)
    /\ onboard \in Onboards
    /\ owned \in OwnedLists
    /\ reads \in Seq(Loads)

\* A transaction has an id when it is mined, and the registry has it so.
MintHolds(n) ==
    LET m == mints[n]
    IN  IF m.status = "mined"
        THEN m.id \in DOMAIN registry /\ registry[m.id] = [by |-> m.from, uri |-> m.uri]
        ELSE m.id = NoAgent

MintsHold == \A n \in DOMAIN mints : MintHolds(n)

\* What an item of a flow has to do with its transaction, if the flow is at
\* it, or has been.
ItemHolds(flow, k, ms) ==
    LET item == flow.progress[k]
    IN  /\ flow.item = k <=> item.status \in {"awaiting", "confirming"}
        /\ item.status \in {"awaiting", "confirming", "confirmed"} =>
             item.tx \in DOMAIN ms /\ ms[item.tx].uri = k
        /\ IF item.status = "confirmed"
           THEN ms[item.tx].status \in {"mined", "reverted"} /\ item.id = ms[item.tx].id
           ELSE item.id = NoAgent

\* Up to where the flow is, its transactions and their ids rise.
InTurn(flow, ms) ==
    \A k \in TrustedAgents : k <= flow.item =>
       \A j \in 1 .. k - 1 :
          LET earlier == flow.progress[j]
              later == flow.progress[k]
          IN  /\ earlier.status = "confirmed"
              /\ earlier.tx < later.tx
              /\ ms[later.tx].id # NoAgent => ms[earlier.tx].id < ms[later.tx].id

FlowHolds(flow, ms) == (\A k \in TrustedAgents : ItemHolds(flow, k, ms)) /\ InTurn(flow, ms)

FlowsHold == \A f \in DOMAIN flows : FlowHolds(flows[f], mints)

OnboardHolds ==
    onboard.at # "editing" =>
      /\ onboard.tx \in DOMAIN mints /\ mints[onboard.tx].uri \in Drafts
      /\ onboard.at = "success" => mints[onboard.tx].status = "mined"

\* The last read is for the account that is connected, unless there is none.
OwnedHolds ==
    /\ \A n \in DOMAIN reads : reads[n].ids \subseteq RegisteredBy(reads[n].by)
    /\ (owned.open /\ wallet.account # NoHolder) =>
         LET last == reads[Len(reads)]
         IN  /\ reads # <<>> /\ last.by = wallet.account
             /\ last.at \in {"reading", "found"} => owned.loading
             /\ last.at = "over" => owned.ids \subseteq RegisteredBy(wallet.account)

RegistrationInv ==
    RegistrationTypes /\ MintsHold /\ FlowsHold /\ OnboardHolds /\ OwnedHolds

LEMMA RegistrationStart == RegistrationInit => RegistrationInv
<1> SUFFICES ASSUME RegistrationInit PROVE RegistrationInv
    OBVIOUS
<1> USE DEF RegistrationInit, NotConnected, FreshOnboard, NotOpen
<1>1. RegistrationTypes
    BY DEF RegistrationTypes, Onboards, OwnedLists, NoMint
<1>2. MintsHold /\ FlowsHold /\ OnboardHolds /\ OwnedHolds
    BY DEF MintsHold, FlowsHold, OnboardHolds, OwnedHolds
<1> QED  BY <1>1, <1>2 DEF RegistrationInv

\* The transactions of a step: those that were there keep what they ask for
\* and what has become of them, and a new id is above all.
MintsGrow(ms, ns) ==
    \A n \in DOMAIN ms :
       /\ n \in DOMAIN ns /\ ns[n].uri = ms[n].uri
       /\ ms[n].status \in {"mined", "reverted"} => ns[n] = ms[n]
       /\ \/ ns[n].id = ms[n].id
          \/ \A o \in DOMAIN ms \ {n} : ns[o].id = ms[o].id /\ ms[o].id < ns[n].id

\* The flows do not mind such a step.
LEMMA FlowKept ==
    ASSUME NEW flow \in Flows, NEW ms \in Seq(MintRecords), NEW ns \in Seq(MintRecords),
           FlowHolds(flow, ms), MintsGrow(ms, ns)
    PROVE  FlowHolds(flow, ns)
<1>1. ASSUME NEW k \in TrustedAgents PROVE ItemHolds(flow, k, ns)
    BY <1>1 DEF ItemHolds, FlowHolds, MintsGrow
<1>2. ASSUME NEW k \in TrustedAgents, k <= flow.item, NEW j \in 1 .. k - 1
      PROVE  /\ flow.progress[j].status = "confirmed"
             /\ flow.progress[j].tx < flow.progress[k].tx
             /\ ns[flow.progress[k].tx].id # NoAgent =>
                  ns[flow.progress[j].tx].id < ns[flow.progress[k].tx].id
  <2> DEFINE n == flow.progress[k].tx
             o == flow.progress[j].tx
  <2>1. j \in TrustedAgents /\ flow.item \in TrustedAgents
    BY <1>2, RegistrationAssumption DEF TrustedAgents, Flows
  <2>2. /\ flow.progress[j].status = "confirmed" /\ o < n
        /\ ms[n].id # NoAgent => ms[o].id < ms[n].id
    BY <1>2 DEF FlowHolds, InTurn
  <2>3. flow.progress[k].status \in {"awaiting", "confirming", "confirmed"}
    <3>1. CASE k = flow.item  BY <3>1, <1>2 DEF FlowHolds, ItemHolds
    <3>2. CASE k < flow.item
      <4>1. k \in 1 .. flow.item - 1
        BY <3>2, <2>1 DEF TrustedAgents
      <4> QED  BY <4>1, <2>1 DEF FlowHolds, InTurn, TrustedAgents
    <3> QED  BY <3>1, <3>2, <1>2, <2>1 DEF TrustedAgents
  <2>4. n \in DOMAIN ms /\ o \in DOMAIN ms /\ ms[o].status \in {"mined", "reverted"}
    BY <2>1, <2>2, <2>3, <1>2 DEF FlowHolds, ItemHolds
  <2>5. ns[o] = ms[o] /\ o # n
    <3>1. ns[o] = ms[o]  BY <2>4 DEF MintsGrow
    <3>2. n \in Nat /\ o \in Nat  BY <2>4
    <3> QED  BY <3>1, <3>2, <2>2
  <2>6. CASE ns[n].id = ms[n].id
    BY <2>6, <2>5, <2>2
  <2>7. CASE ns[n].id # ms[n].id
    <3>1. ms[o].id < ns[n].id
      BY <2>7, <2>4, <2>5 DEF MintsGrow
    <3> QED  BY <3>1, <2>5, <2>2
  <2> QED  BY <2>6, <2>7, <2>2
<1> QED  BY <1>1, <1>2 DEF FlowHolds, InTurn

\* A new transaction.
LEMMA AskedGrow ==
    ASSUME NEW ms \in Seq(MintRecords), NEW m
    PROVE  MintsGrow(ms, Append(ms, m))
BY DEF MintsGrow

\* Nothing of the flows, the form or the list changes, and the transactions
\* grow.
LEMMA MintsMove ==
    ASSUME RegistrationInv, UNCHANGED <<flows, onboard>>,
           mints' \in Seq(MintRecords), MintsGrow(mints, mints')
    PROVE  FlowsHold' /\ OnboardHolds'
<1>1. FlowsHold'
  <2>1. ASSUME NEW f \in DOMAIN flows PROVE FlowHolds(flows[f], mints')
    <3>1. flows[f] \in Flows /\ FlowHolds(flows[f], mints) /\ mints \in Seq(MintRecords)
      BY DEF RegistrationInv, RegistrationTypes, FlowsHold
    <3> QED  BY <3>1, FlowKept
  <2> QED  BY <2>1 DEF FlowsHold
<1>2. OnboardHolds'
    BY DEF OnboardHolds, RegistrationInv, MintsGrow
<1> QED  BY <1>1, <1>2

\* The registry only grows.
LEMMA OwnedKept ==
    ASSUME OwnedHolds, RegistrationTypes, RegistrationTypes',
           UNCHANGED <<wallet, owned, reads>>,
           \/ registry' = registry
           \/ \E r \in AgentRecords : registry' = Append(registry, r)
    PROVE  OwnedHolds'
<1>1. ASSUME NEW a PROVE RegisteredBy(a) \subseteq RegisteredBy(a)'
  <2>1. registry \in Seq(AgentRecords)
    BY DEF RegistrationTypes
  <2>2. DOMAIN registry \subseteq DOMAIN registry'
        /\ \A g \in DOMAIN registry : registry'[g] = registry[g]
    BY <2>1
  <2> QED  BY <2>2 DEF RegisteredBy
<1>2. \A n \in DOMAIN reads : reads[n].ids \subseteq RegisteredBy(reads[n].by)'
    BY <1>1 DEF OwnedHolds
<1>3. (owned.open /\ wallet.account # NoHolder /\ reads[Len(reads)].at = "over") =>
         owned.ids \subseteq RegisteredBy(wallet.account)'
    BY <1>1 DEF OwnedHolds
<1> QED  BY <1>2, <1>3 DEF OwnedHolds

\* A step of the wallet or the chain: the pages do not hear of it, and the
\* list's account stays.
LEMMA ChainMoves ==
    ASSUME RegistrationInv, UNCHANGED <<wallet, flows, page, onboard, owned, reads>>,
           mints' \in Seq(MintRecords), MintsGrow(mints, mints'), MintsHold',
           \/ registry' = registry
           \/ \E r \in AgentRecords : registry' = Append(registry, r)
    PROVE  RegistrationInv'
<1>1. registry' \in Seq(AgentRecords)
  <2>1. registry \in Seq(AgentRecords)
    BY DEF RegistrationInv, RegistrationTypes
  <2> QED  BY <2>1
<1>2. RegistrationTypes'
    BY <1>1 DEF RegistrationInv, RegistrationTypes
<1>3. FlowsHold' /\ OnboardHolds'
    BY MintsMove
<1>4. OwnedHolds'
    BY <1>2, OwnedKept DEF RegistrationInv
<1> QED  BY <1>2, <1>3, <1>4 DEF RegistrationInv

\* One transaction changes.
LEMMA MintChanges ==
    ASSUME mints \in Seq(MintRecords), NEW n \in DOMAIN mints, NEW m \in MintRecords,
           mints' = [mints EXCEPT ![n] = m]
    PROVE  /\ mints' \in Seq(MintRecords) /\ DOMAIN mints' = DOMAIN mints
           /\ mints'[n] = m /\ \A o \in DOMAIN mints \ {n} : mints'[o] = mints[o]
OBVIOUS

LEMMA MintFields ==
    ASSUME RegistrationInv, NEW n \in DOMAIN mints
    PROVE  /\ mints[n] \in MintRecords /\ mints[n].id \in 0 .. Len(registry)
           /\ registry \in Seq(AgentRecords)
<1>1. mints \in Seq(MintRecords) /\ registry \in Seq(AgentRecords)
    BY DEF RegistrationInv, RegistrationTypes
<1>2. mints[n] \in MintRecords
    BY <1>1
<1>3. MintHolds(n)
    BY DEF RegistrationInv, MintsHold
<1>4. mints[n].id \in 0 .. Len(registry)
    BY <1>1, <1>3 DEF MintHolds, NoAgent
<1> QED  BY <1>1, <1>2, <1>4

LEMMA SettleStep ==
    ASSUME RegistrationInv, NEW n \in DOMAIN mints,
           \/ SignsMint(n) \/ RejectsMint(n) \/ MintReverts(n)
    PROVE  RegistrationInv'
<1>1. PICK status \in {"rejected", "sent", "reverted"} :
         mints[n].status \in {"asked", "sent"} /\ mints' = [mints EXCEPT ![n].status = status]
    BY DEF SignsMint, RejectsMint, MintSettled, MintReverts
<1>2. UNCHANGED <<wallet, registry, flows, page, onboard, owned, reads>>
    BY DEF SignsMint, RejectsMint, MintSettled, MintReverts
<1>3. mints \in Seq(MintRecords) /\ mints[n] \in MintRecords
    BY MintFields DEF RegistrationInv, RegistrationTypes
<1> DEFINE m == [mints[n] EXCEPT !.status = status]
<1>4. m \in MintRecords /\ m.id = mints[n].id /\ m.uri = mints[n].uri /\ m.from = mints[n].from
      /\ m.status = status
    BY <1>3 DEF MintRecords
<1>5. mints' = [mints EXCEPT ![n] = m]
    BY <1>1
<1> HIDE DEF m
<1>6. /\ mints' \in Seq(MintRecords) /\ DOMAIN mints' = DOMAIN mints
      /\ mints'[n] = m /\ \A o \in DOMAIN mints \ {n} : mints'[o] = mints[o]
    BY <1>3, <1>4, <1>5, MintChanges
<1>7. MintsGrow(mints, mints')
    BY <1>1, <1>4, <1>6 DEF MintsGrow
<1>8. MintsHold'
    BY <1>1, <1>2, <1>4, <1>6 DEF MintsHold, MintHolds, RegistrationInv
<1> QED  BY <1>2, <1>6, <1>7, <1>8, ChainMoves

LEMMA IncludeStep ==
    ASSUME RegistrationInv, NEW n \in DOMAIN mints, MintIncluded(n)
    PROVE  RegistrationInv'
<1> DEFINE new == [by |-> mints[n].from, uri |-> mints[n].uri]
           id == Len(registry) + 1
           m == [mints[n] EXCEPT !.status = "mined", !.id = id]
<1>1. /\ mints \in Seq(MintRecords) /\ registry \in Seq(AgentRecords)
      /\ mints[n] \in MintRecords
    BY MintFields DEF RegistrationInv, RegistrationTypes
<1>2. /\ mints[n].status = "sent" /\ registry' = Append(registry, new)
      /\ mints' = [mints EXCEPT ![n] = m]
    BY DEF MintIncluded, Registered
<1>3. new \in AgentRecords /\ id \in Nat /\ id # NoAgent
    <2>1. Len(registry) \in Nat  BY <1>1
    <2> QED  BY <1>1, <2>1 DEF AgentRecords, MintRecords, NoAgent
<1>4. m \in MintRecords /\ m.id = id /\ m.status = "mined" /\ m.uri = mints[n].uri
      /\ m.from = mints[n].from
    <2> HIDE DEF id
    <2> QED  BY <1>1, <1>3 DEF MintRecords
<1> HIDE DEF m
<1>5. /\ mints' \in Seq(MintRecords) /\ DOMAIN mints' = DOMAIN mints
      /\ mints'[n] = m /\ \A o \in DOMAIN mints \ {n} : mints'[o] = mints[o]
    BY <1>1, <1>2, <1>4, MintChanges
<1>6. \A o \in DOMAIN mints : mints[o].id \in Nat /\ mints[o].id < id
    <2>1. ASSUME NEW o \in DOMAIN mints PROVE mints[o].id \in Nat /\ mints[o].id < id
      <3>1. mints[o].id \in 0 .. Len(registry) /\ Len(registry) \in Nat
        BY <1>1, MintFields
      <3> QED  BY <3>1
    <2> QED  BY <2>1
<1>7. MintsGrow(mints, mints')
    BY <1>2, <1>4, <1>5, <1>6 DEF MintsGrow
<1>8. MintsHold'
  <2>1. /\ DOMAIN registry' = DOMAIN registry \union {id} /\ registry'[id] = new
        /\ \A g \in DOMAIN registry : registry'[g] = registry[g]
    BY <1>1, <1>2, <1>3
  <2>2. ASSUME NEW o \in DOMAIN mints PROVE MintHolds(o)'
    BY <1>4, <1>5, <2>1 DEF MintsHold, MintHolds, RegistrationInv
  <2> QED  BY <2>2, <1>5 DEF MintsHold
<1> QED  BY <1>2, <1>3, <1>5, <1>7, <1>8, ChainMoves DEF MintIncluded

LEMMA OthersStep ==
    ASSUME RegistrationInv, NEW a \in Holders, OthersRegister(a)
    PROVE  RegistrationInv'
<1> DEFINE new == [by |-> a, uri |-> Blank]
<1>1. mints \in Seq(MintRecords) /\ registry \in Seq(AgentRecords)
    BY DEF RegistrationInv, RegistrationTypes
<1>2. new \in AgentRecords
    BY DEF AgentRecords, Uris
<1>3. registry' = Append(registry, new) /\ mints' = mints
    BY DEF OthersRegister, Registered
<1>4. MintsHold'
  <2>1. DOMAIN registry \subseteq DOMAIN registry'
        /\ \A g \in DOMAIN registry : registry'[g] = registry[g]
    BY <1>1, <1>2, <1>3
  <2> QED  BY <2>1, <1>3 DEF MintsHold, MintHolds, RegistrationInv
<1>5. MintsGrow(mints, mints')
    BY <1>3 DEF MintsGrow
<1> QED  BY <1>1, <1>2, <1>3, <1>4, <1>5, ChainMoves DEF OthersRegister

-------------------------------------------------------------------------------
\* A transaction is asked of the wallet.
LEMMA AskGrows ==
    ASSUME RegistrationInv, NEW uri \in Uris, AskToMint(uri), wallet.account # NoHolder
    PROVE  /\ mints' \in Seq(MintRecords) /\ MintsGrow(mints, mints')
           /\ NextMint \in Nat \ DOMAIN mints
           /\ DOMAIN mints' = DOMAIN mints \union {NextMint}
           /\ mints'[NextMint].uri = uri /\ mints'[NextMint].id = NoAgent
           /\ mints'[NextMint].status = "asked"
           /\ \A n \in DOMAIN mints : mints'[n] = mints[n]
<1> DEFINE m == [from |-> wallet.account, uri |-> uri, onBase |-> wallet.onBase,
                 status |-> "asked", id |-> NoAgent]
<1>1. mints \in Seq(MintRecords) /\ mints' = Append(mints, m)
    BY DEF RegistrationInv, RegistrationTypes, AskToMint
<1>2. m \in MintRecords
    BY DEF RegistrationInv, RegistrationTypes, MintRecords, NoAgent
<1>3. m.uri = uri /\ m.id = NoAgent /\ m.status = "asked"
    OBVIOUS
<1> HIDE DEF m
<1>4. /\ mints' \in Seq(MintRecords) /\ NextMint \in Nat \ DOMAIN mints
      /\ DOMAIN mints' = DOMAIN mints \union {NextMint} /\ mints'[NextMint] = m
      /\ \A n \in DOMAIN mints : mints'[n] = mints[n]
    BY <1>1, <1>2 DEF NextMint
<1>5. MintsGrow(mints, mints')
    BY <1>1, AskedGrow
<1> QED  BY <1>3, <1>4, <1>5

LEMMA AskedHold ==
    ASSUME RegistrationInv, NEW uri \in Uris, AskToMint(uri), wallet.account # NoHolder,
           registry' = registry
    PROVE  MintsHold'
BY AskGrows DEF MintsHold, MintHolds, RegistrationInv

\* One flow moves on, and may have asked for a transaction.
LEMMA FlowMoves ==
    ASSUME RegistrationInv, NEW f \in DOMAIN flows, NEW flow \in Flows,
           flows' = [flows EXCEPT ![f] = flow], FlowHolds(flow, mints'),
           UNCHANGED <<wallet, registry, page, onboard, owned, reads>>,
           mints' \in Seq(MintRecords), MintsGrow(mints, mints'), MintsHold'
    PROVE  RegistrationInv'
<1>1. flows \in Seq(Flows) /\ mints \in Seq(MintRecords)
    BY DEF RegistrationInv, RegistrationTypes
<1>2. /\ flows' \in Seq(Flows) /\ DOMAIN flows' = DOMAIN flows /\ Len(flows') = Len(flows)
      /\ flows'[f] = flow /\ \A o \in DOMAIN flows \ {f} : flows'[o] = flows[o]
    BY <1>1
<1>3. RegistrationTypes'
    BY <1>2 DEF RegistrationInv, RegistrationTypes
<1>4. FlowsHold'
  <2>1. ASSUME NEW o \in DOMAIN flows \ {f} PROVE FlowHolds(flows[o], mints')
    <3>1. flows[o] \in Flows /\ FlowHolds(flows[o], mints)
      BY <1>1 DEF RegistrationInv, FlowsHold
    <3> QED  BY <3>1, <1>1, FlowKept
  <2> QED  BY <2>1, <1>2 DEF FlowsHold
<1>5. OnboardHolds'
    BY DEF OnboardHolds, RegistrationInv, MintsGrow
<1>6. OwnedHolds'
    BY DEF OwnedHolds, RegistrationInv, RegisteredBy
<1> QED  BY <1>3, <1>4, <1>5, <1>6 DEF RegistrationInv

\* What FlowHolds says of one flow, for the steps that move it.
LEMMA FlowFacts ==
    ASSUME RegistrationInv, NEW f \in DOMAIN flows
    PROVE  /\ flows[f] \in Flows /\ FlowHolds(flows[f], mints)
           /\ mints \in Seq(MintRecords)
BY DEF RegistrationInv, RegistrationTypes, FlowsHold

\* A flow that is not at k, of which every item before k is confirmed in
\* turn, asks for k, or fails to.
LEMMA ItemStep ==
    ASSUME RegistrationInv, NEW f \in DOMAIN flows, NEW k \in TrustedAgents,
           NEW progress \in [TrustedAgents -> Items],
           \A i \in TrustedAgents : ItemHolds([item |-> 0, progress |-> progress], i, mints),
           \A i \in 1 .. k - 1 : progress[i].status = "confirmed",
           InTurn([item |-> k - 1, progress |-> progress], mints),
           ItemAsked(f, k, progress),
           UNCHANGED <<wallet, registry, page, onboard, owned, reads>>
    PROVE  RegistrationInv'
<1>1. CASE /\ wallet.account = NoHolder \/ ~wallet.onBase
           /\ FlowIs(f, 0, [progress EXCEPT ![k] = [IdleItem EXCEPT !.status = "failed"]])
           /\ UNCHANGED mints
  <2> DEFINE failed == [IdleItem EXCEPT !.status = "failed"]
             flow == [item |-> 0, progress |-> [progress EXCEPT ![k] = failed]]
  <2>1. failed \in Items /\ failed.status = "failed" /\ failed.id = NoAgent
    BY DEF IdleItem, Items, NoMint, NoAgent
  <2> HIDE DEF failed
  <2>2. flow \in Flows /\ flow.item = 0 /\ flow.progress[k] = failed
        /\ \A i \in TrustedAgents \ {k} : flow.progress[i] = progress[i]
    BY <2>1, RegistrationAssumption DEF Flows
  <2>3. flows' = [flows EXCEPT ![f] = flow]
    BY <1>1 DEF FlowIs, failed
  <2> HIDE DEF flow
  <2>4. \A i \in TrustedAgents : ItemHolds(flow, i, mints)
    BY <2>1, <2>2 DEF ItemHolds, TrustedAgents
  <2>5. InTurn(flow, mints)
    BY <2>2 DEF InTurn, TrustedAgents
  <2>6. MintsGrow(mints, mints') /\ mints' \in Seq(MintRecords) /\ MintsHold'
    BY <1>1 DEF MintsGrow, MintsHold, MintHolds, RegistrationInv, RegistrationTypes
  <2> QED  BY <2>2, <2>3, <2>4, <2>5, <2>6, <1>1, FlowMoves DEF FlowHolds
<1>2. CASE /\ wallet.account # NoHolder /\ wallet.onBase
           /\ AskToMint(k)
           /\ FlowIs(f, k, [progress EXCEPT ![k] =
                               [status |-> "awaiting", tx |-> NextMint, id |-> NoAgent]])
  <2> DEFINE asked == [status |-> "awaiting", tx |-> NextMint, id |-> NoAgent]
             flow == [item |-> k, progress |-> [progress EXCEPT ![k] = asked]]
  <2>1. k \in Uris
    BY DEF Uris
  <2>2. /\ mints' \in Seq(MintRecords) /\ MintsGrow(mints, mints')
        /\ NextMint \in Nat \ DOMAIN mints
        /\ DOMAIN mints' = DOMAIN mints \union {NextMint}
        /\ mints'[NextMint].uri = k /\ mints'[NextMint].id = NoAgent
        /\ \A n \in DOMAIN mints : mints'[n] = mints[n]
    BY <1>2, <2>1, AskGrows
  <2>3. MintsHold'
    BY <1>2, <2>1, AskedHold
  <2>4. asked \in Items /\ asked.status = "awaiting" /\ asked.tx = NextMint /\ asked.id = NoAgent
    BY <2>2 DEF Items, NoAgent
  <2>5. flows' = [flows EXCEPT ![f] = flow]
    BY <1>2 DEF FlowIs
  <2> HIDE DEF asked
  <2>6. flow \in Flows /\ flow.item = k /\ flow.progress[k] = asked
        /\ \A i \in TrustedAgents \ {k} : flow.progress[i] = progress[i]
    BY <2>4, RegistrationAssumption DEF Flows, TrustedAgents
  <2> HIDE DEF flow
  <2>7. \A i \in TrustedAgents : ItemHolds(flow, i, mints')
    <3>1. ItemHolds(flow, k, mints')
      BY <2>2, <2>4, <2>6 DEF ItemHolds
    <3>2. ASSUME NEW i \in TrustedAgents \ {k} PROVE ItemHolds(flow, i, mints')
      <4>1. i # 0 /\ ItemHolds([item |-> 0, progress |-> progress], i, mints)
        BY DEF TrustedAgents
      <4>2. progress[i].status \notin {"awaiting", "confirming"}
        BY <4>1 DEF ItemHolds
      <4> QED  BY <4>1, <4>2, <2>2, <2>6 DEF ItemHolds
    <3> QED  BY <3>1, <3>2
  <2>8. ASSUME NEW i \in TrustedAgents, i <= k, NEW j \in 1 .. i - 1
        PROVE  /\ flow.progress[j].status = "confirmed"
               /\ flow.progress[j].tx < flow.progress[i].tx
               /\ mints'[flow.progress[i].tx].id # NoAgent =>
                    mints'[flow.progress[j].tx].id < mints'[flow.progress[i].tx].id
    <3>1. j \in TrustedAgents \ {k} /\ j \in 1 .. k - 1
      BY <2>8, RegistrationAssumption DEF TrustedAgents
    <3>2. flow.progress[j] = progress[j] /\ progress[j].status = "confirmed"
          /\ progress[j].tx \in DOMAIN mints
      BY <3>1, <2>6 DEF ItemHolds
    <3>3. CASE i = k
      <4>1. \A n \in DOMAIN mints : n < NextMint
        BY DEF NextMint, RegistrationInv, RegistrationTypes
      <4> QED  BY <4>1, <3>2, <3>3, <2>2, <2>4, <2>6
    <3>4. CASE i # k
      <4>1. i \in 1 .. k - 1 /\ i \in TrustedAgents \ {k} /\ i <= k - 1
        BY <3>4, <2>8, RegistrationAssumption DEF TrustedAgents
      <4>2. flow.progress[i] = progress[i] /\ progress[i].tx \in DOMAIN mints
        BY <4>1, <2>6 DEF ItemHolds
      <4>3. /\ progress[j].tx < progress[i].tx
            /\ mints[progress[i].tx].id # NoAgent =>
                 mints[progress[j].tx].id < mints[progress[i].tx].id
        BY <4>1, <2>8 DEF InTurn
      <4> QED  BY <4>2, <4>3, <3>2, <2>2
    <3> QED  BY <3>3, <3>4
  <2>9. InTurn(flow, mints')
    BY <2>8, <2>6 DEF InTurn
  <2> QED  BY <2>2, <2>3, <2>5, <2>6, <2>7, <2>9, FlowMoves DEF FlowHolds
<1> QED  BY <1>1, <1>2 DEF ItemAsked

LEMMA RegisterStep ==
    ASSUME RegistrationInv, RegisterAll
    PROVE  RegistrationInv'
<1>1. /\ page \in DOMAIN flows /\ flows[page].item = 0
      /\ ItemAsked(page, 1, flows[page].progress)
      /\ UNCHANGED <<wallet, registry, page, onboard, owned, reads>>
    BY DEF RegisterAll, CanRegister, RegistrationInv, RegistrationTypes
<1>2. flows[page] \in Flows /\ FlowHolds(flows[page], mints)
    BY <1>1, FlowFacts
<1>3. 1 \in TrustedAgents
    BY RegistrationAssumption DEF TrustedAgents
<1>4. \A i \in TrustedAgents :
         ItemHolds([item |-> 0, progress |-> flows[page].progress], i, mints)
    BY <1>1, <1>2 DEF FlowHolds, ItemHolds
<1>5. InTurn([item |-> 1 - 1, progress |-> flows[page].progress], mints)
    BY DEF InTurn, TrustedAgents
<1> QED  BY <1>1, <1>2, <1>3, <1>4, <1>5, ItemStep DEF Flows

\* The hash of the transaction is heard, or the flow stops.
LEMMA HeardStep ==
    ASSUME RegistrationInv, NEW f \in DOMAIN flows, HashHeard(f) \/ FlowStops(f)
    PROVE  RegistrationInv'
<1> DEFINE k == flows[f].item
<1>1. PICK item \in 0 .. TrustedCount, status \in {"confirming", "failed"} :
         /\ item = (IF status = "confirming" THEN k ELSE 0)
         /\ flows' = [flows EXCEPT ![f] =
                        [item |-> item, progress |-> [flows[f].progress EXCEPT ![k].status = status]]]
         /\ k # 0 /\ flows[f].progress[k].status \in {"awaiting", "confirming"}
         /\ UNCHANGED <<wallet, mints, registry, page, onboard, owned, reads>>
  <2>1. CASE HashHeard(f)
    <3>1. k \in 0 .. TrustedCount
      BY FlowFacts DEF Flows
    <3> QED  BY <2>1, <3>1 DEF HashHeard, ItemAt, FlowIs, mintVars
  <2>2. CASE FlowStops(f)
    <3>1. 0 \in 0 .. TrustedCount
      BY RegistrationAssumption
    <3> QED  BY <2>2, <3>1 DEF FlowStops, ItemAt, FlowIs, mintVars
  <2> QED  BY <2>1, <2>2
<1> DEFINE heard == [flows[f].progress[k] EXCEPT !.status = status]
           flow == [item |-> item, progress |-> [flows[f].progress EXCEPT ![k] = heard]]
<1>2. /\ flows[f] \in Flows /\ FlowHolds(flows[f], mints) /\ mints \in Seq(MintRecords)
      /\ k \in TrustedAgents
    BY <1>1, FlowFacts DEF Flows, TrustedAgents
<1>3. flows[f].progress[k] \in Items
    BY <1>2 DEF Flows
<1>4. heard \in Items /\ heard.status = status /\ heard.tx = flows[f].progress[k].tx
      /\ heard.id = flows[f].progress[k].id
    BY <1>3 DEF Items
<1>5. flows' = [flows EXCEPT ![f] = flow]
    BY <1>1
<1> HIDE DEF heard
<1>6. flow \in Flows /\ flow.item = item /\ flow.progress[k] = heard
      /\ \A i \in TrustedAgents \ {k} : flow.progress[i] = flows[f].progress[i]
    BY <1>2, <1>4 DEF Flows
<1> HIDE DEF flow
<1>7. \A i \in TrustedAgents : ItemHolds(flow, i, mints)
  <2>1. ASSUME NEW i \in TrustedAgents PROVE ItemHolds(flow, i, mints)
    <3>1. ItemHolds(flows[f], i, mints)
      BY <1>2 DEF FlowHolds
    <3>2. i # 0
      BY DEF TrustedAgents
    <3> QED  BY <3>1, <3>2, <1>1, <1>4, <1>6 DEF ItemHolds
  <2> QED  BY <2>1
<1>8. InTurn(flow, mints)
  <2>1. CASE item = 0
    BY <2>1, <1>6 DEF InTurn, TrustedAgents
  <2>2. CASE item = k
    <3>1. ASSUME NEW i \in TrustedAgents, i <= k, NEW j \in 1 .. i - 1
          PROVE  j \in TrustedAgents \ {k}
      BY <3>1, <1>2, RegistrationAssumption DEF TrustedAgents
    <3>2. \A i \in TrustedAgents : flow.progress[i].tx = flows[f].progress[i].tx
      BY <1>4, <1>6
    <3> QED  BY <2>2, <3>1, <3>2, <1>2, <1>6 DEF InTurn, FlowHolds
  <2> QED  BY <2>1, <2>2, <1>1
<1>9. MintsGrow(mints, mints') /\ mints' \in Seq(MintRecords) /\ MintsHold'
    BY <1>1, <1>2 DEF MintsGrow, MintsHold, MintHolds, RegistrationInv
<1> QED  BY <1>1, <1>5, <1>6, <1>7, <1>8, <1>9, FlowMoves DEF FlowHolds

LEMMA ReceiptHeardStep ==
    ASSUME RegistrationInv, NEW f \in DOMAIN flows, ReceiptHeard(f)
    PROVE  RegistrationInv'
<1> DEFINE k == flows[f].item
           minted == flows[f].progress[k].tx
           heard == [flows[f].progress[k] EXCEPT !.status = "confirmed", !.id = mints[minted].id]
           told == [flows[f].progress EXCEPT ![k] = heard]
           flow == [item |-> 0, progress |-> told]
<1>1. /\ k # 0 /\ flows[f].progress[k].status = "confirming"
      /\ mints[minted].status \in {"mined", "reverted"}
      /\ \/ k = TrustedCount /\ FlowIs(f, 0, told) /\ UNCHANGED mints
         \/ k < TrustedCount /\ ItemAsked(f, k + 1, told)
      /\ UNCHANGED <<wallet, registry, page, onboard, owned, reads>>
    BY DEF ReceiptHeard, ItemAt, ItemTx
<1>2. /\ flows[f] \in Flows /\ FlowHolds(flows[f], mints) /\ mints \in Seq(MintRecords)
      /\ k \in TrustedAgents /\ flows[f].progress[k] \in Items
  <2>1. flows[f] \in Flows /\ FlowHolds(flows[f], mints) /\ mints \in Seq(MintRecords)
    BY FlowFacts
  <2>2. k \in 0 .. TrustedCount /\ flows[f].progress \in [TrustedAgents -> Items]
    BY <2>1 DEF Flows
  <2>3. k \in TrustedAgents
    BY <2>2, <1>1, RegistrationAssumption DEF TrustedAgents
  <2> QED  BY <2>1, <2>2, <2>3
<1>3. minted \in DOMAIN mints /\ mints[minted].uri = k /\ mints[minted].id \in Nat
    BY <1>1, <1>2, MintFields DEF FlowHolds, ItemHolds, MintRecords
<1>4. heard \in Items /\ heard.status = "confirmed" /\ heard.tx = minted /\ heard.id = mints[minted].id
    BY <1>2, <1>3 DEF Items
<1> HIDE DEF heard
<1>5. told \in [TrustedAgents -> Items] /\ told[k] = heard
      /\ \A i \in TrustedAgents \ {k} : told[i] = flows[f].progress[i]
    BY <1>2, <1>4 DEF Flows
<1> HIDE DEF told
<1>6. \A i \in TrustedAgents : ItemHolds(flow, i, mints)
  <2>1. ItemHolds(flow, k, mints)
    BY <1>1, <1>2, <1>3, <1>4, <1>5 DEF ItemHolds, TrustedAgents
  <2>2. ASSUME NEW i \in TrustedAgents \ {k} PROVE ItemHolds(flow, i, mints)
    <3>1. ItemHolds(flows[f], i, mints) /\ i # 0
      BY <1>2 DEF FlowHolds, TrustedAgents
    <3> QED  BY <3>1, <1>5 DEF ItemHolds
  <2> QED  BY <2>1, <2>2
<1>7. \A i \in 1 .. k : told[i].status = "confirmed"
  <2>1. ASSUME NEW i \in 1 .. k PROVE told[i].status = "confirmed"
    <3>1. CASE i = k  BY <3>1, <1>4, <1>5
    <3>2. CASE i # k
      <4>1. i \in TrustedAgents \ {k} /\ i \in 1 .. k - 1
        BY <3>2, <1>2, RegistrationAssumption DEF TrustedAgents
      <4> QED  BY <4>1, <1>2, <1>5 DEF FlowHolds, InTurn, TrustedAgents
    <3> QED  BY <3>1, <3>2
  <2> QED  BY <2>1
<1>8. InTurn([item |-> k, progress |-> told], mints)
  <2>1. ASSUME NEW i \in TrustedAgents, i <= k, NEW j \in 1 .. i - 1
        PROVE  /\ told[j].status = "confirmed"
               /\ told[j].tx < told[i].tx
               /\ mints[told[i].tx].id # NoAgent =>
                    mints[told[j].tx].id < mints[told[i].tx].id
    <3>1. j \in TrustedAgents \ {k} /\ j \in 1 .. k
      BY <2>1, <1>2, RegistrationAssumption DEF TrustedAgents
    <3>2. \A o \in TrustedAgents : told[o].tx = flows[f].progress[o].tx
      BY <1>4, <1>5
    <3> QED  BY <3>1, <3>2, <2>1, <1>2, <1>7 DEF FlowHolds, InTurn
  <2> QED  BY <2>1 DEF InTurn
<1>9. CASE k = TrustedCount /\ FlowIs(f, 0, told) /\ UNCHANGED mints
  <2>1. flow \in Flows /\ flows' = [flows EXCEPT ![f] = flow]
    BY <1>5, <1>9, RegistrationAssumption DEF Flows, FlowIs
  <2>2. InTurn(flow, mints)
    BY DEF InTurn, TrustedAgents
  <2>3. MintsGrow(mints, mints') /\ mints' \in Seq(MintRecords) /\ MintsHold'
    BY <1>9, <1>1, <1>2 DEF MintsGrow, MintsHold, MintHolds, RegistrationInv
  <2> HIDE DEF flow
  <2> QED  BY <2>1, <2>2, <2>3, <1>1, <1>6, <1>9, FlowMoves DEF FlowHolds
<1>10. CASE k < TrustedCount /\ ItemAsked(f, k + 1, told)
  <2>1. k + 1 \in TrustedAgents /\ (k + 1) - 1 = k
    BY <1>2, <1>10, RegistrationAssumption DEF TrustedAgents
  <2>2. \A i \in 1 .. (k + 1) - 1 : told[i].status = "confirmed"
    BY <2>1, <1>7
  <2>3. InTurn([item |-> (k + 1) - 1, progress |-> told], mints)
    BY <2>1, <1>8
  <2> HIDE DEF k
  <2> QED  BY <2>1, <2>2, <2>3, <1>1, <1>5, <1>6, <1>10, ItemStep
<1> QED  BY <1>1, <1>9, <1>10

\* Only the page, or which flows there are.
LEMMA PagesStep ==
    ASSUME RegistrationInv, OpenFlow \/ LeaveFlow
    PROVE  RegistrationInv'
<1>1. UNCHANGED <<wallet, mints, registry, onboard, owned, reads>>
    BY DEF OpenFlow, LeaveFlow, mintVars
<1>2. /\ flows \in Seq(Flows) /\ flows' \in Seq(Flows) /\ page' \in 0 .. Len(flows')
      /\ \A f \in DOMAIN flows' : flows'[f] = FreshFlow \/ (f \in DOMAIN flows /\ flows'[f] = flows[f])
  <2>1. flows \in Seq(Flows) /\ page \in 0 .. Len(flows) /\ FreshFlow \in Flows
    BY RegistrationAssumption
       DEF RegistrationInv, RegistrationTypes, FreshFlow, Flows, Items, IdleItem, NoMint, NoAgent
  <2> HIDE DEF FreshFlow
  <2> QED  BY <2>1 DEF OpenFlow, LeaveFlow
<1>3. FlowHolds(FreshFlow, mints)
    BY DEF FlowHolds, ItemHolds, InTurn, FreshFlow, IdleItem, TrustedAgents, NoAgent
<1>4. FlowsHold'
    BY <1>1, <1>2, <1>3 DEF FlowsHold, RegistrationInv
<1>5. RegistrationTypes'
    BY <1>1, <1>2 DEF RegistrationInv, RegistrationTypes
<1>6. MintsHold' /\ OnboardHolds' /\ OwnedHolds'
    BY <1>1 DEF MintsHold, MintHolds, OnboardHolds, OwnedHolds, RegisteredBy, RegistrationInv
<1> QED  BY <1>4, <1>5, <1>6 DEF RegistrationInv

\* The flows and the form do not mind which wallet is connected, nor what is
\* listed.
LEMMA ListMoves ==
    ASSUME RegistrationInv, UNCHANGED <<mints, registry, flows, page, onboard>>,
           RegistrationTypes', OwnedHolds'
    PROVE  RegistrationInv'
BY DEF RegistrationInv, MintsHold, MintHolds, FlowsHold, OnboardHolds

LEMMA LoadAppended ==
    ASSUME reads \in Seq(Loads), NEW a \in Holders, LoadFor(a),
           \A n \in DOMAIN reads : reads[n].ids \subseteq RegisteredBy(reads[n].by)
    PROVE  /\ reads' \in Seq(Loads) /\ reads' # <<>>
           /\ reads'[Len(reads')] = [by |-> a, at |-> "starting", ids |-> {}]
           /\ \A n \in DOMAIN reads' : reads'[n].ids \subseteq RegisteredBy(reads'[n].by)
<1> DEFINE load == [by |-> a, at |-> "starting", ids |-> {}]
<1>1. load \in Loads /\ load.ids = {} /\ reads' = Append(reads, load)
    BY DEF Loads, LoadFor
<1> HIDE DEF load
<1>2. /\ reads' \in Seq(Loads) /\ reads' # <<>> /\ reads'[Len(reads')] = load
      /\ \A n \in DOMAIN reads' : reads'[n] = load \/ (n \in DOMAIN reads /\ reads'[n] = reads[n])
    BY <1>1
<1>3. \A n \in DOMAIN reads' : reads'[n].ids \subseteq RegisteredBy(reads'[n].by)
    BY <1>1, <1>2
<1> QED  BY <1>2, <1>3 DEF load

LEMMA WalletChangesStep ==
    ASSUME RegistrationInv, NEW a \in Holders \union {NoHolder}, NEW onBase \in BOOLEAN,
           WalletChanges(a, onBase)
    PROVE  RegistrationInv'
<1>1. wallet' = [account |-> a, onBase |-> onBase]
      /\ UNCHANGED <<mints, registry, flows, page, onboard, owned>>
    BY DEF WalletChanges
<1>2. reads \in Seq(Loads) /\ OwnedHolds
      /\ wallet \in [account : Holders \union {NoHolder}, onBase : BOOLEAN]
    BY DEF RegistrationInv, RegistrationTypes
<1>3. CASE owned.open /\ a \notin {NoHolder, wallet.account}
  <2>1. LoadFor(a) /\ a \in Holders
    BY <1>3 DEF WalletChanges
  <2>2. /\ reads' \in Seq(Loads) /\ reads' # <<>>
        /\ reads'[Len(reads')] = [by |-> a, at |-> "starting", ids |-> {}]
        /\ \A n \in DOMAIN reads' : reads'[n].ids \subseteq RegisteredBy(reads'[n].by)
    BY <2>1, <1>2, LoadAppended DEF OwnedHolds
  <2>3. RegistrationTypes'
    BY <2>2, <1>1 DEF RegistrationInv, RegistrationTypes
  <2>4. OwnedHolds'
    BY <2>2, <1>1 DEF OwnedHolds, RegisteredBy
  <2> QED  BY <2>3, <2>4, <1>1, ListMoves
<1>4. CASE ~(owned.open /\ a \notin {NoHolder, wallet.account})
  <2>1. reads' = reads
    BY <1>4 DEF WalletChanges
  <2>2. RegistrationTypes'
    BY <2>1, <1>1 DEF RegistrationInv, RegistrationTypes
  <2>3. OwnedHolds'
    BY <2>1, <1>1, <1>2, <1>4 DEF OwnedHolds, RegisteredBy
  <2> QED  BY <2>2, <2>3, <1>1, ListMoves
<1> QED  BY <1>3, <1>4

LEMMA SwitchStep ==
    ASSUME RegistrationInv, SwitchToBase
    PROVE  RegistrationInv'
<1>1. wallet'.account = wallet.account
      /\ wallet' \in [account : Holders \union {NoHolder}, onBase : BOOLEAN]
    BY DEF SwitchToBase, RegistrationInv, RegistrationTypes
<1>2. UNCHANGED <<mints, registry, flows, page, onboard, owned, reads>>
    BY DEF SwitchToBase
<1>3. RegistrationTypes'
    BY <1>1, <1>2 DEF RegistrationInv, RegistrationTypes
<1>4. OwnedHolds'
    BY <1>1, <1>2 DEF RegistrationInv, OwnedHolds, RegisteredBy
<1> QED  BY <1>2, <1>3, <1>4, ListMoves

LEMMA ReloadsStep ==
    ASSUME RegistrationInv, PageReloads
    PROVE  RegistrationInv'
<1> USE DEF PageReloads, NotConnected, FreshOnboard, NotOpen
<1>1. RegistrationTypes'
    BY DEF RegistrationInv, RegistrationTypes, Onboards, OwnedLists, NoMint
<1>2. MintsHold'
    BY DEF RegistrationInv, MintsHold, MintHolds
<1>3. FlowsHold' /\ OnboardHolds' /\ OwnedHolds'
    BY DEF FlowsHold, OnboardHolds, OwnedHolds
<1> QED  BY <1>1, <1>2, <1>3 DEF RegistrationInv

-------------------------------------------------------------------------------
\* The list opens, is closed, or its reads go on.
LEMMA ReadChanges ==
    ASSUME reads \in Seq(Loads), NEW n \in DOMAIN reads, NEW r \in Loads,
           reads' = [reads EXCEPT ![n] = r]
    PROVE  /\ reads' \in Seq(Loads) /\ DOMAIN reads' = DOMAIN reads /\ Len(reads') = Len(reads)
           /\ reads' # <<>> /\ Len(reads) \in DOMAIN reads
           /\ reads'[n] = r /\ \A o \in DOMAIN reads \ {n} : reads'[o] = reads[o]
OBVIOUS

LEMMA OpenStep ==
    ASSUME RegistrationInv, OpenOwned \/ CloseOwned
    PROVE  RegistrationInv'
<1>1. UNCHANGED <<wallet, mints, registry, flows, page, onboard>>
    BY DEF OpenOwned, CloseOwned, mintVars
<1>2. reads \in Seq(Loads) /\ OwnedHolds
      /\ wallet \in [account : Holders \union {NoHolder}, onBase : BOOLEAN]
    BY DEF RegistrationInv, RegistrationTypes
<1>3. owned' \in OwnedLists
  <2>1. NotOpen \in OwnedLists /\ [NotOpen EXCEPT !.open = TRUE] \in OwnedLists
    BY DEF NotOpen, OwnedLists
  <2> QED  BY <2>1 DEF OpenOwned, CloseOwned
<1>4. CASE owned'.open /\ wallet.account # NoHolder
  <2>1. LoadFor(wallet.account) /\ wallet.account \in Holders
    BY <1>2, <1>4 DEF OpenOwned, CloseOwned, NotOpen
  <2>2. /\ reads' \in Seq(Loads) /\ reads' # <<>>
        /\ reads'[Len(reads')] = [by |-> wallet.account, at |-> "starting", ids |-> {}]
        /\ \A n \in DOMAIN reads' : reads'[n].ids \subseteq RegisteredBy(reads'[n].by)
    BY <2>1, <1>2, LoadAppended DEF OwnedHolds
  <2>3. RegistrationTypes'
    BY <2>2, <1>1, <1>3 DEF RegistrationInv, RegistrationTypes
  <2>4. OwnedHolds'
    BY <2>2, <1>1 DEF OwnedHolds, RegisteredBy
  <2> QED  BY <2>3, <2>4, <1>1, ListMoves
<1>5. CASE ~(owned'.open /\ wallet.account # NoHolder)
  <2>1. reads' = reads
    BY <1>5 DEF OpenOwned, CloseOwned, NotOpen
  <2>2. RegistrationTypes'
    BY <2>1, <1>1, <1>3 DEF RegistrationInv, RegistrationTypes
  <2>3. OwnedHolds'
    BY <2>1, <1>1, <1>2, <1>5 DEF OwnedHolds, RegisteredBy
  <2> QED  BY <2>2, <2>3, <1>1, ListMoves
<1> QED  BY <1>4, <1>5

\* A read goes on: it still has only agents of its account, and the list
\* changes only if the read is the last one.
LEMMA LoadMoves ==
    ASSUME RegistrationInv, NEW n \in DOMAIN reads, NEW r \in Loads,
           reads' = [reads EXCEPT ![n] = r], owned' \in OwnedLists,
           r.by = reads[n].by, r.ids \subseteq RegisteredBy(r.by),
           owned'.open = owned.open,
           UNCHANGED <<wallet, mints, registry, flows, page, onboard>>,
           Live(n) => /\ r.at \in {"reading", "found"} => owned'.loading
                      /\ r.at = "over" => owned'.ids \subseteq r.ids,
           ~Live(n) => owned' = owned
    PROVE  RegistrationInv'
<1>1. reads \in Seq(Loads) /\ OwnedHolds
    BY DEF RegistrationInv, RegistrationTypes
<1>2. /\ reads' \in Seq(Loads) /\ DOMAIN reads' = DOMAIN reads /\ Len(reads') = Len(reads)
      /\ reads' # <<>> /\ Len(reads) \in DOMAIN reads
      /\ reads'[n] = r /\ \A o \in DOMAIN reads \ {n} : reads'[o] = reads[o]
    BY <1>1, ReadChanges
<1>3. RegistrationTypes'
    BY <1>2 DEF RegistrationInv, RegistrationTypes
<1>4. \A o \in DOMAIN reads' : reads'[o].ids \subseteq RegisteredBy(reads'[o].by)
    BY <1>1, <1>2 DEF OwnedHolds
<1>5. ASSUME owned.open, wallet.account # NoHolder
      PROVE  LET last == reads'[Len(reads')]
             IN  /\ last.by = wallet.account
                 /\ last.at \in {"reading", "found"} => owned'.loading
                 /\ last.at = "over" => owned'.ids \subseteq RegisteredBy(wallet.account)
  <2>1. CASE n = Len(reads)
    BY <2>1, <1>1, <1>2, <1>5 DEF OwnedHolds, Live
  <2>2. CASE n # Len(reads)
    BY <2>2, <1>1, <1>2, <1>5 DEF OwnedHolds, Live
  <2> QED  BY <2>1, <2>2
<1>6. OwnedHolds'
    BY <1>2, <1>4, <1>5 DEF OwnedHolds, RegisteredBy
<1> QED  BY <1>3, <1>6, ListMoves

LEMMA LoadStep ==
    ASSUME RegistrationInv, NEW n \in DOMAIN reads,
           \/ LoadStarts(n) \/ LoadEnds(n)
           \/ \E ids \in SUBSET RegisteredBy(reads[n].by) : LoadReads(n, ids)
    PROVE  RegistrationInv'
<1>1. /\ reads[n] \in Loads /\ owned \in OwnedLists /\ registry \in Seq(AgentRecords)
      /\ reads[n].ids \subseteq RegisteredBy(reads[n].by)
    BY DEF RegistrationInv, RegistrationTypes, OwnedHolds
<1>2. RegisteredBy(reads[n].by) \subseteq Nat
    BY <1>1 DEF RegisteredBy
<1>3. CASE LoadStarts(n)
  <2> DEFINE r == [reads[n] EXCEPT !.at = "reading"]
  <2>1. r \in Loads /\ r.by = reads[n].by /\ r.ids = reads[n].ids /\ r.at = "reading"
    BY <1>1 DEF Loads
  <2>2. reads' = [reads EXCEPT ![n] = r] /\ owned' = [owned EXCEPT !.loading = TRUE] /\ Live(n)
        /\ UNCHANGED <<wallet, mints, registry, flows, page, onboard>>
    BY <1>3 DEF LoadStarts, mintVars
  <2>3. owned' \in OwnedLists /\ owned'.open = owned.open /\ owned'.loading
    BY <2>2, <1>1 DEF OwnedLists
  <2> HIDE DEF r
  <2> QED  BY <2>1, <2>2, <2>3, <1>1, LoadMoves
<1>4. CASE LoadEnds(n)
  <2> DEFINE r == [reads[n] EXCEPT !.at = "over"]
  <2>1. r \in Loads /\ r.by = reads[n].by /\ r.ids = reads[n].ids /\ r.at = "over"
    BY <1>1 DEF Loads
  <2>2. reads' = [reads EXCEPT ![n] = r]
        /\ UNCHANGED <<wallet, mints, registry, flows, page, onboard>>
        /\ owned' = IF Live(n) THEN [open |-> TRUE, loading |-> FALSE, ids |-> reads[n].ids] ELSE owned
    BY <1>4 DEF LoadEnds, mintVars
  <2>3. /\ owned' \in OwnedLists /\ owned'.open = owned.open
        /\ Live(n) => owned'.ids \subseteq r.ids
    BY <2>1, <2>2, <1>1, <1>2 DEF OwnedLists, Live
  <2> HIDE DEF r
  <2> QED  BY <2>1, <2>2, <2>3, <1>1, LoadMoves
<1>5. ASSUME NEW ids \in SUBSET RegisteredBy(reads[n].by), LoadReads(n, ids)
      PROVE  RegistrationInv'
  <2> DEFINE r == [reads[n] EXCEPT !.at = "found", !.ids = ids]
  <2>1. r \in Loads /\ r.by = reads[n].by /\ r.ids = ids /\ r.at = "found"
    BY <1>1, <1>2 DEF Loads
  <2>2. reads' = [reads EXCEPT ![n] = r]
        /\ UNCHANGED <<wallet, mints, registry, flows, page, onboard, owned>>
        /\ reads[n].at = "reading"
    BY <1>5 DEF LoadReads, mintVars
  <2>3. Live(n) => owned.loading
    BY <2>2 DEF Live, RegistrationInv, OwnedHolds
  <2> HIDE DEF r
  <2> QED  BY <2>1, <2>2, <2>3, <1>1, LoadMoves
<1> QED  BY <1>3, <1>4, <1>5

-------------------------------------------------------------------------------
\* The form, which may have asked for a transaction.
LEMMA OnboardMoves ==
    ASSUME RegistrationInv, onboard' \in Onboards, OnboardHolds',
           UNCHANGED <<wallet, registry, flows, page, owned, reads>>,
           mints' \in Seq(MintRecords), MintsGrow(mints, mints'), MintsHold'
    PROVE  RegistrationInv'
<1>1. RegistrationTypes'
    BY DEF RegistrationInv, RegistrationTypes
<1>2. FlowsHold'
  <2>1. ASSUME NEW f \in DOMAIN flows PROVE FlowHolds(flows[f], mints')
    BY FlowFacts, FlowKept
  <2> QED  BY <2>1 DEF FlowsHold
<1>3. OwnedHolds'
    BY DEF OwnedHolds, RegisteredBy, RegistrationInv
<1> QED  BY <1>1, <1>2, <1>3 DEF RegistrationInv

LEMMA OnboardNext ==
    ASSUME RegistrationInv, OnboardStep
    PROVE  RegistrationInv'
<1>1. onboard \in Onboards /\ mints \in Seq(MintRecords) /\ OnboardHolds
    BY DEF RegistrationInv, RegistrationTypes
<1>2. UNCHANGED <<wallet, registry, flows, page, owned, reads>>
    BY DEF OnboardStep, EditAgent, HandleMint, MintAnswered, MintConfirmed, MintForgotten,
           RegisterAnother, OnboardIs
<1>3. CASE UNCHANGED mints
  <2>1. MintsGrow(mints, mints') /\ mints' \in Seq(MintRecords) /\ MintsHold'
    BY <1>1, <1>2, <1>3 DEF MintsGrow, MintsHold, MintHolds, RegistrationInv
  <2>2. onboard' \in Onboards /\ OnboardHolds'
    <3>1. ASSUME NEW d \in Drafts \union {Blank}, EditAgent(d) PROVE onboard' \in Onboards /\ OnboardHolds'
      BY <3>1, <1>1, <1>3 DEF EditAgent, OnboardIs, Onboards, OnboardHolds
    <3>2. ASSUME HandleMint PROVE onboard' \in Onboards /\ OnboardHolds'
      <4>1. Len(mints') = Len(mints) + 1
        BY <3>2, <1>1 DEF HandleMint, AskToMint
      <4> QED  BY <4>1, <1>3, <1>1
    <3>3. ASSUME MintAnswered PROVE onboard' \in Onboards /\ OnboardHolds'
      BY <3>3, <1>1, <1>3 DEF MintAnswered, OnboardIs, Onboards, OnboardHolds, NoMint
    <3>4. ASSUME MintConfirmed PROVE onboard' \in Onboards /\ OnboardHolds'
      BY <3>4, <1>1, <1>3 DEF MintConfirmed, OnboardIs, Onboards, OnboardHolds
    <3>5. ASSUME MintForgotten PROVE onboard' \in Onboards /\ OnboardHolds'
      BY <3>5, <1>1, <1>3 DEF MintForgotten, OnboardIs, Onboards, OnboardHolds
    <3>6. ASSUME RegisterAnother PROVE onboard' \in Onboards /\ OnboardHolds'
      BY <3>6 DEF RegisterAnother, OnboardIs, FreshOnboard, Onboards, OnboardHolds, NoMint
    <3> QED  BY <3>1, <3>2, <3>3, <3>4, <3>5, <3>6 DEF OnboardStep
  <2> QED  BY <2>1, <2>2, <1>2, OnboardMoves
<1>4. CASE HandleMint
  <2>1. /\ onboard.draft \in Drafts /\ onboard.draft \in Uris /\ AskToMint(onboard.draft)
        /\ wallet.account # NoHolder
        /\ onboard' = [onboard EXCEPT !.tx = NextMint, !.at = "pending"]
    BY <1>1, <1>4 DEF HandleMint, Onboards, Uris, OnboardIs
  <2>2. /\ mints' \in Seq(MintRecords) /\ MintsGrow(mints, mints') /\ MintsHold'
        /\ NextMint \in Nat /\ NextMint \in DOMAIN mints'
        /\ mints'[NextMint].uri = onboard.draft
    BY <2>1, <1>2, AskGrows, AskedHold
  <2>3. onboard' \in Onboards /\ onboard'.tx = NextMint /\ onboard'.at = "pending"
    BY <2>1, <2>2, <1>1 DEF Onboards
  <2>4. OnboardHolds'
    BY <2>1, <2>2, <2>3 DEF OnboardHolds
  <2> QED  BY <2>2, <2>3, <2>4, <1>2, OnboardMoves
<1> QED  BY <1>3, <1>4 DEF OnboardStep, EditAgent, MintAnswered, MintConfirmed, MintForgotten,
           RegisterAnother

LEMMA RegistrationNext == RegistrationInv /\ RegistrationStep => RegistrationInv'
<1> SUFFICES ASSUME RegistrationInv, RegistrationStep PROVE RegistrationInv'
    OBVIOUS
<1>1. ASSUME FlowStep PROVE RegistrationInv'
    BY <1>1, PagesStep, SwitchStep, RegisterStep, HeardStep, ReceiptHeardStep DEF FlowStep
<1>2. ASSUME OnboardStep PROVE RegistrationInv'
    BY <1>2, OnboardNext
<1>3. ASSUME OwnedStep PROVE RegistrationInv'
    BY <1>3, OpenStep, LoadStep DEF OwnedStep
<1>4. ASSUME WalletStep PROVE RegistrationInv'
    BY <1>4, WalletChangesStep, SettleStep, IncludeStep, OthersStep DEF WalletStep
<1> QED  BY <1>1, <1>2, <1>3, <1>4, ReloadsStep DEF RegistrationStep

\* The inductive invariant of the registration pages: every flow, shown or
\* left, knows its transactions, and the registry has what they minted.
THEOREM RegistrationInvariance == RegistrationSpec => []RegistrationInv
<1>1. RegistrationInv /\ UNCHANGED registrationVars => RegistrationInv'
  <2> SUFFICES ASSUME RegistrationInv, UNCHANGED registrationVars PROVE RegistrationInv'
      OBVIOUS
  <2>1. RegistrationTypes' /\ OwnedHolds'
    BY DEF registrationVars, RegistrationInv, RegistrationTypes, OwnedHolds, RegisteredBy
  <2> QED  BY <2>1, ListMoves DEF registrationVars
<1> QED  BY <1>1, RegistrationStart, RegistrationNext, PTL DEF RegistrationSpec

\* For any accounts, drafts and number of trusted agents: an id on a card is
\* of a registration of that card's agent by who signed it, the form says
\* "registered" only of what was minted, and the list is of the connected
\* account, however wallets, chains, pages and transactions interleave.
THEOREM RegistrationsStand == RegistrationSpec => []RegistrationsAreTrue
<1>1. RegistrationInv => FlowIsTrue
  <2> SUFFICES ASSUME RegistrationInv, NEW f \in DOMAIN flows, NEW k \in TrustedAgents,
                      ItemShown(f, k).id # NoAgent
               PROVE  LET item == ItemShown(f, k)
                      IN  /\ item.status = "confirmed"
                          /\ item.id \in DOMAIN registry
                          /\ registry[item.id] = [by |-> mints[item.tx].from, uri |-> k]
      BY DEF FlowIsTrue
  <2>1. ItemHolds(flows[f], k, mints)
    BY FlowFacts DEF FlowHolds
  <2>2. /\ ItemShown(f, k).status = "confirmed" /\ ItemShown(f, k).tx \in DOMAIN mints
        /\ mints[ItemShown(f, k).tx].uri = k
        /\ ItemShown(f, k).id = mints[ItemShown(f, k).tx].id
    BY <2>1 DEF ItemHolds, ItemShown
  <2>3. MintHolds(ItemShown(f, k).tx)
    BY <2>2 DEF RegistrationInv, MintsHold
  <2> QED  BY <2>2, <2>3 DEF MintHolds
<1>2. RegistrationInv => OnboardIsTrue
    BY DEF RegistrationInv, OnboardHolds, OnboardIsTrue, MintsHold, MintHolds
<1>3. RegistrationInv => OwnedIsTheirs
  <2> SUFFICES ASSUME RegistrationInv, owned.open, ~owned.loading, wallet.account # NoHolder,
                      reads[Len(reads)].at # "starting", NEW g \in OwnedShown
               PROVE  g \in DOMAIN registry /\ registry[g].by = wallet.account
      BY DEF OwnedIsTheirs
  <2>1. reads # <<>> /\ reads \in Seq(Loads) /\ OwnedHolds
    BY DEF RegistrationInv, RegistrationTypes, OwnedHolds
  <2>2. reads[Len(reads)] \in Loads
    BY <2>1
  <2>3. reads[Len(reads)].at = "over"
    BY <2>1, <2>2 DEF OwnedHolds, Loads
  <2> QED  BY <2>1, <2>3 DEF OwnedHolds, OwnedShown, RegisteredBy
<1> QED  BY <1>1, <1>2, <1>3, RegistrationInvariance, PTL DEF RegistrationsAreTrue

\* For any number of trusted agents and of flows left running: a flow asks
\* for an agent only when nothing of those before is out, and the ids rise.
THEOREM AgentsInOrder == RegistrationSpec => []OneAfterAnother
<1>1. RegistrationInv => OneAfterAnother
  <2> SUFFICES ASSUME RegistrationInv, NEW f \in DOMAIN flows, NEW k \in TrustedAgents,
                      k < flows[f].item
               PROVE  LET item == ItemShown(f, k)
                      IN  /\ mints[item.tx].status \notin {"asked", "sent"}
                          /\ item.tx < ItemShown(f, k + 1).tx
                          /\ \A j \in 1 .. k - 1 :
                                item.id # NoAgent => ItemShown(f, j).id < item.id
      BY DEF OneAfterAnother
  <2>1. flows[f] \in Flows /\ FlowHolds(flows[f], mints)
    BY FlowFacts
  <2>2. /\ flows[f].item \in TrustedAgents /\ k \in 1 .. flows[f].item - 1
        /\ k + 1 \in TrustedAgents /\ k + 1 <= flows[f].item /\ k \in 1 .. (k + 1) - 1
    BY <2>1, RegistrationAssumption DEF Flows, TrustedAgents
  <2>3. flows[f].progress[k].status = "confirmed"
        /\ flows[f].progress[k].tx < flows[f].progress[k + 1].tx
    <3> DEFINE next == k + 1
    <3>1. next \in TrustedAgents /\ next <= flows[f].item /\ k \in 1 .. next - 1
      BY <2>2
    <3> HIDE DEF next
    <3>2. flows[f].progress[k].status = "confirmed"
          /\ flows[f].progress[k].tx < flows[f].progress[next].tx
      BY <2>1, <3>1 DEF FlowHolds, InTurn
    <3> QED  BY <3>2 DEF next
  <2>4. mints[flows[f].progress[k].tx].status \in {"mined", "reverted"}
        /\ flows[f].progress[k].id = mints[flows[f].progress[k].tx].id
    BY <2>1, <2>3 DEF FlowHolds, ItemHolds
  <2>5. ASSUME NEW j \in 1 .. k - 1, flows[f].progress[k].id # NoAgent
        PROVE  flows[f].progress[j].id < flows[f].progress[k].id
    <3>1. j \in TrustedAgents
      BY RegistrationAssumption DEF TrustedAgents
    <3>2. flows[f].progress[j].status = "confirmed"
          /\ mints[flows[f].progress[j].tx].id < mints[flows[f].progress[k].tx].id
      <4>1. k <= flows[f].item /\ mints[flows[f].progress[k].tx].id # NoAgent
        BY <2>1, <2>2, <2>4, <2>5 DEF Flows, TrustedAgents
      <4>2. InTurn(flows[f], mints)
        BY <2>1 DEF FlowHolds
      <4> QED  BY <4>1, <4>2 DEF InTurn
    <3>3. flows[f].progress[j].id = mints[flows[f].progress[j].tx].id
      BY <3>1, <3>2, <2>1 DEF FlowHolds, ItemHolds
    <3> QED  BY <3>2, <3>3, <2>4
  <2> QED  BY <2>3, <2>4, <2>5 DEF ItemShown
<1> QED  BY <1>1, RegistrationInvariance, PTL


-------------------------------------------------------------------------------
(***************************************************************************)
(* The support chat and what is kept of it.                                *)
(***************************************************************************)

SupportSpec == SupportInit /\ [][SupportStep]_supportVars

ChatMessages == [role : {"user", "assistant"}, about : Nat, rated : BOOLEAN]
HandedMessages == [role : {"user", "assistant"}, about : Nat]
ChatStates ==
    [open : BOOLEAN, ready : BOOLEAN, typing : BOOLEAN, messages : Seq(ChatMessages)]
ChatRequests == [about : Nat, handed : Seq(HandedMessages)]
Ratings == [question : Nat, answer : Nat, helpful : BOOLEAN]
Posts ==
    [at : {"posted", "read", "opened"}, file : {"feedback", "custom"},
     entry : Ratings, entries : Seq(Ratings)]

SupportTypes ==
    /\ chat \in ChatStates
    /\ keptChat \in [open : BOOLEAN, messages : Seq(ChatMessages)]
    /\ questions \in Nat
    /\ requests \subseteq ChatRequests
    /\ writers \in [Writers -> {NotPosting} \union Posts]
    /\ posted \in Nat
    /\ files \in [{"feedback", "custom"} -> Seq(Ratings)]
    /\ desk \in Seq(Ratings)

\* The greeting is first, an answer follows its question, and questions come
\* in the order of their numbers.
Conversation(messages, asked) ==
    /\ \A n \in DOMAIN messages :
          LET m == messages[n]
          IN  /\ m.about <= asked
              /\ m.about = NoQuestion => n = 1 /\ m.role = "assistant"
              /\ m.role = "assistant" /\ m.about # NoQuestion =>
                   n > 1 /\ messages[n - 1].role = "user" /\ messages[n - 1].about = m.about
    /\ \A i, j \in DOMAIN messages :
          i < j /\ messages[i].role = "user" /\ messages[j].role = "user" =>
            messages[i].about < messages[j].about

\* What is on the page is what is kept.
ChatKept ==
    /\ Conversation(keptChat.messages, questions)
    /\ IF chat.ready THEN chat.messages = keptChat.messages ELSE chat = ChatMounted

LeadsTo(handed, spoken) ==
    LET before == Len(spoken) - Len(handed)
    IN  before >= 0 /\ \A i \in DOMAIN handed : handed[i] = spoken[before + i]

Handed(r) == Append(r.handed, [role |-> "user", about |-> r.about])

\* A question that waits is the last message; one waits at a time.
RequestsHold ==
    /\ \A r \in requests :
          /\ chat.typing /\ chat.messages # <<>>
          /\ chat.messages[Len(chat.messages)].role = "user"
          /\ chat.messages[Len(chat.messages)].about = r.about
          /\ LeadsTo(Handed(r), Spoken(chat.messages))
    /\ \A r, o \in requests : r = o

Marked(q) ==
    \E n \in DOMAIN keptChat.messages :
       LET m == keptChat.messages[n]
       IN  m.role = "assistant" /\ m.about = q /\ m.rated

AnswersOf(entries) == {entries[i].answer : i \in DOMAIN entries}

Posting(w) == writers[w].at # "none" /\ writers[w].file = "feedback"

\* Feedback is of a marked answer, and what a post adds is nowhere else.
PostHolds(w) ==
    LET p == writers[w]
    IN  /\ p.entry.question = p.entry.answer /\ Marked(p.entry.answer)
        /\ TrueEntries(p.entries) /\ \A q \in AnswersOf(p.entries) : Marked(q)
        /\ p.entry.answer \notin AnswersOf(files["feedback"])
        /\ \A v \in Writers : Posting(v) =>
              /\ p.entry.answer \notin AnswersOf(writers[v].entries)
              /\ v # w => p.entry.answer # writers[v].entry.answer

FeedbackHolds ==
    /\ TrueEntries(files["feedback"]) /\ TrueEntries(desk)
    /\ \A q \in AnswersOf(files["feedback"]) : Marked(q)
    /\ \A w \in Writers : Posting(w) => PostHolds(w)

SupportInv == SupportTypes /\ ChatKept /\ RequestsHold /\ FeedbackHolds

LEMMA SupportStart == SupportInit => SupportInv
<1> SUFFICES ASSUME SupportInit PROVE SupportInv
    OBVIOUS
<1> USE DEF SupportInit
<1>1. SupportTypes
    BY DEF SupportTypes, ChatMounted, ChatStates, Torn
<1>2. ChatKept /\ RequestsHold
    BY DEF ChatKept, Conversation, RequestsHold, ChatMounted
<1>3. FeedbackHolds
    BY DEF FeedbackHolds, TrueEntries, AnswersOf, Posting, Torn, NotPosting
<1> QED  BY <1>1, <1>2, <1>3 DEF SupportInv

\* Nothing on the server changes, and what was marked stays marked.
LEMMA ServerKept ==
    ASSUME FeedbackHolds, UNCHANGED <<writers, files, desk>>,
           \A q : Marked(q) => Marked(q)'
    PROVE  FeedbackHolds'
BY DEF FeedbackHolds, PostHolds, Posting, AnswersOf, TrueEntries

-------------------------------------------------------------------------------
\* The chat, when only its frame changes.
LEMMA FrameStep ==
    ASSUME SupportInv, LoadPersisted \/ OpenChat \/ CloseChat
    PROVE  SupportInv'
<1>1. UNCHANGED <<questions, requests, writers, posted, files, desk>>
    BY DEF LoadPersisted, OpenChat, CloseChat, serverVars
<1>2. /\ chat \in ChatStates /\ keptChat \in [open : BOOLEAN, messages : Seq(ChatMessages)]
      /\ GreetingMessage \in ChatMessages
    BY DEF SupportInv, SupportTypes, GreetingMessage, ChatMessage, ChatMessages, NoQuestion
<1> DEFINE shown == IF chat.ready THEN chat.messages ELSE keptChat.messages
<1>3. shown = keptChat.messages /\ (chat.ready \/ requests = {})
    BY DEF SupportInv, ChatKept, RequestsHold, ChatMounted
<1>4. PICK messages \in Seq(ChatMessages), open \in BOOLEAN, typing \in BOOLEAN :
         /\ chat' = [open |-> open, ready |-> TRUE, typing |-> typing, messages |-> messages]
         /\ \/ messages = keptChat.messages
            \/ keptChat.messages = <<>> /\ messages = <<GreetingMessage>>
         /\ keptChat' = [open |-> open, messages |-> messages]
         /\ chat.ready => typing = chat.typing
  <2>1. CASE LoadPersisted
    <3> DEFINE messages == IF keptChat.messages = <<>> /\ keptChat.open
                           THEN <<GreetingMessage>> ELSE keptChat.messages
    <3>1. /\ messages \in Seq(ChatMessages) /\ keptChat.open \in BOOLEAN
          /\ ~chat.ready
          /\ chat' = [open |-> keptChat.open, ready |-> TRUE, typing |-> FALSE, messages |-> messages]
          /\ keptChat' = [open |-> keptChat.open, messages |-> messages]
      BY <1>2, <2>1 DEF LoadPersisted, ChatIs
    <3> QED  BY <3>1
  <2>2. CASE OpenChat
    <3> DEFINE messages == IF chat.messages = <<>> THEN <<GreetingMessage>> ELSE chat.messages
    <3>0. /\ messages \in Seq(ChatMessages) /\ messages # <<>> /\ chat.typing \in BOOLEAN
          /\ chat.ready
      BY <1>2, <2>2 DEF OpenChat, ChatStates
    <3>1. /\ chat' = [open |-> TRUE, ready |-> TRUE, typing |-> chat.typing, messages |-> messages]
          /\ keptChat' = [open |-> TRUE, messages |-> messages]
      BY <1>2, <2>2, <3>0 DEF OpenChat, ChatIs, ChatStates
    <3> QED  BY <3>0, <3>1, <1>3
  <2>3. CASE CloseChat
    <3>1. chat.ready
      BY <2>3 DEF CloseChat, SupportInv, ChatKept, ChatMounted
    <3>2. /\ chat.messages \in Seq(ChatMessages) /\ chat.typing \in BOOLEAN
          /\ chat' = [open |-> FALSE, ready |-> TRUE, typing |-> chat.typing, messages |-> chat.messages]
          /\ keptChat' = [open |-> FALSE, messages |-> chat.messages]
      BY <1>2, <1>3, <2>3, <3>1 DEF CloseChat, ChatIs, ChatStates
    <3> QED  BY <3>1, <3>2, <1>3
  <2> QED  BY <2>1, <2>2, <2>3
<1>5. SupportTypes'
    BY <1>1, <1>4 DEF SupportInv, SupportTypes, ChatStates
<1>6. ChatKept'
  <2>1. Conversation(keptChat.messages, questions)
    BY DEF SupportInv, ChatKept
  <2>2. questions \in Nat
    BY DEF SupportInv, SupportTypes
  <2>3. Conversation(<<GreetingMessage>>, questions)
    BY <2>2 DEF Conversation, GreetingMessage, ChatMessage, NoQuestion
  <2> QED  BY <1>1, <1>4, <2>1, <2>3 DEF ChatKept, Conversation
<1>7. RequestsHold'
    BY <1>1, <1>3, <1>4 DEF SupportInv, RequestsHold
<1>8. FeedbackHolds'
  <2>1. \A q : Marked(q) => Marked(q)'
    BY <1>4 DEF Marked
  <2> QED  BY <1>1, <2>1, ServerKept DEF SupportInv
<1> QED  BY <1>5, <1>6, <1>7, <1>8 DEF SupportInv

LEMMA ReloadTabStep ==
    ASSUME SupportInv, ReloadTab
    PROVE  SupportInv'
<1>1. chat' = ChatMounted /\ requests' = {}
      /\ UNCHANGED <<keptChat, questions, writers, posted, files, desk>>
    BY DEF ReloadTab, serverVars
<1>2. SupportTypes'
    BY <1>1 DEF SupportInv, SupportTypes, ChatMounted, ChatStates
<1>3. ChatKept' /\ RequestsHold'
    BY <1>1 DEF SupportInv, ChatKept, Conversation, RequestsHold, ChatMounted
<1>4. FeedbackHolds'
    BY <1>1, ServerKept DEF SupportInv, Marked
<1> QED  BY <1>2, <1>3, <1>4 DEF SupportInv

\* What was said grows with the messages.
LEMMA SpokenType ==
    ASSUME NEW messages \in Seq(ChatMessages)
    PROVE  /\ Spoken(messages) \in Seq(HandedMessages)
           /\ Recent(Spoken(messages)) \in Seq(HandedMessages)
<1> DEFINE greeted == IF messages # <<>> /\ messages[1].about = NoQuestion THEN 1 ELSE 0
           said == Spoken(messages)
<1>1. Len(messages) \in Nat /\ greeted \in {0, 1} /\ Len(messages) - greeted \in Nat
    OBVIOUS
<1>2. said = [i \in 1 .. Len(messages) - greeted |->
               [role |-> messages[i + greeted].role, about |-> messages[i + greeted].about]]
    BY DEF Spoken
<1>3. \A i \in 1 .. Len(messages) - greeted : messages[i + greeted] \in ChatMessages
    BY <1>1
<1>4. said \in [1 .. Len(messages) - greeted -> HandedMessages]
    BY <1>2, <1>3 DEF ChatMessages, HandedMessages
<1>5. said \in Seq(HandedMessages)
    BY <1>1, <1>4
<1>6. ASSUME Len(said) > ChatMemory
      PROVE  SubSeq(said, Len(said) - ChatMemory + 1, Len(said)) \in Seq(HandedMessages)
    BY <1>5, <1>6, SupportAssumption
<1> QED  BY <1>5, <1>6, SupportAssumption DEF Recent

LEMMA SpokenGrows ==
    ASSUME NEW messages \in Seq(ChatMessages), NEW m \in ChatMessages, m.about # NoQuestion
    PROVE  Spoken(Append(messages, m))
             = Append(Spoken(messages), [role |-> m.role, about |-> m.about])
<1> DEFINE more == Append(messages, m)
           greeted == IF messages # <<>> /\ messages[1].about = NoQuestion THEN 1 ELSE 0
           said == Spoken(messages)
           item == [role |-> m.role, about |-> m.about]
<1>1. Len(messages) \in Nat /\ greeted \in {0, 1} /\ Len(messages) - greeted \in Nat
    OBVIOUS
<1>2. /\ more \in Seq(ChatMessages) /\ Len(more) = Len(messages) + 1
      /\ \A i \in 1 .. Len(messages) : more[i] = messages[i]
      /\ more[Len(messages) + 1] = m
    OBVIOUS
<1>3. greeted = IF more # <<>> /\ more[1].about = NoQuestion THEN 1 ELSE 0
    BY <1>2
<1>4. /\ DOMAIN Spoken(more) = 1 .. Len(messages) + 1 - greeted
      /\ \A i \in 1 .. Len(messages) + 1 - greeted :
            Spoken(more)[i] = [role |-> more[i + greeted].role, about |-> more[i + greeted].about]
  <2> DEFINE moreGreeted == IF more # <<>> /\ more[1].about = NoQuestion THEN 1 ELSE 0
  <2>1. /\ DOMAIN Spoken(more) = 1 .. Len(more) - moreGreeted
        /\ \A i \in 1 .. Len(more) - moreGreeted :
              Spoken(more)[i] = [role |-> more[i + moreGreeted].role,
                                 about |-> more[i + moreGreeted].about]
    <3> HIDE DEF more
    <3> QED  BY DEF Spoken
  <2>2. moreGreeted = greeted /\ Len(more) = Len(messages) + 1
    BY <1>2, <1>3
  <2> HIDE DEF more, greeted, moreGreeted
  <2>3. Len(more) - moreGreeted = Len(messages) + 1 - greeted
    BY <1>1, <2>2
  <2> QED  BY <2>1, <2>2, <2>3
<1>5. said = [i \in 1 .. Len(messages) - greeted |->
               [role |-> messages[i + greeted].role, about |-> messages[i + greeted].about]]
    BY DEF Spoken
<1>6. Len(said) = Len(messages) - greeted /\ said \in Seq(HandedMessages)
  <2>1. DOMAIN said = 1 .. Len(messages) - greeted
    BY <1>5
  <2>2. said \in Seq(HandedMessages)
    BY SpokenType
  <2> HIDE DEF said, greeted
  <2> QED  BY <1>1, <2>1, <2>2
<1>7. /\ item \in HandedMessages
      /\ Len(Spoken(more)) = Len(messages) + 1 - greeted
      /\ Spoken(more) \in Seq(HandedMessages)
  <2>1. item \in HandedMessages
    BY DEF ChatMessages, HandedMessages
  <2>2. DOMAIN Spoken(more) = 1 .. Len(messages) + 1 - greeted
    BY <1>4
  <2>3. Spoken(more) \in Seq(HandedMessages)
    BY <1>2, SpokenType
  <2> HIDE DEF said, greeted, more, item
  <2> QED  BY <1>1, <2>1, <2>2, <2>3
<1>8. \A i \in 1 .. Len(messages) + 1 - greeted :
         Spoken(more)[i] = IF i <= Len(said) THEN said[i] ELSE item
    BY <1>1, <1>2, <1>4, <1>5, <1>6
<1> HIDE DEF said, item, more, greeted
<1>9. /\ Append(said, item) \in Seq(HandedMessages)
      /\ Len(Append(said, item)) = Len(messages) + 1 - greeted
      /\ \A i \in 1 .. Len(messages) + 1 - greeted :
            Append(said, item)[i] = IF i <= Len(said) THEN said[i] ELSE item
    BY <1>1, <1>6, <1>7
<1>10. Append(said, item) = Spoken(more)
    BY <1>1, <1>7, <1>8, <1>9, SeqEqual
<1> QED  BY <1>10 DEF said, item, more

LEMMA RecentLeads ==
    ASSUME NEW said \in Seq(HandedMessages), NEW item \in HandedMessages
    PROVE  LeadsTo(Append(Recent(said), item), Append(said, item))
<1> DEFINE recent == Recent(said)
           before == Len(said) - Len(recent)
<1>1. /\ recent \in Seq(HandedMessages) /\ before >= 0
      /\ \A i \in 1 .. Len(recent) : recent[i] = said[before + i]
  <2>1. CASE Len(said) <= ChatMemory
    BY <2>1 DEF Recent
  <2>2. CASE ~(Len(said) <= ChatMemory)
    BY <2>2, SupportAssumption DEF Recent
  <2> QED  BY <2>1, <2>2
<1> HIDE DEF recent
<1>2. /\ Len(Append(recent, item)) = Len(recent) + 1 /\ Len(Append(said, item)) = Len(said) + 1
      /\ DOMAIN Append(recent, item) = 1 .. Len(recent) + 1
      /\ \A i \in 1 .. Len(recent) : Append(recent, item)[i] = recent[i]
      /\ Append(recent, item)[Len(recent) + 1] = item
      /\ \A i \in 1 .. Len(said) : Append(said, item)[i] = said[i]
      /\ Append(said, item)[Len(said) + 1] = item
    BY <1>1
<1>3. LeadsTo(Append(recent, item), Append(said, item))
  <2>1. /\ Len(recent) \in Nat /\ Len(said) \in Nat
    BY <1>1
  <2>2. Len(Append(said, item)) - Len(Append(recent, item)) = before
    BY <1>2, <2>1
  <2>3. ASSUME NEW i \in 1 .. Len(recent) + 1
        PROVE  Append(recent, item)[i] = Append(said, item)[before + i]
    BY <1>1, <1>2, <2>1
  <2> QED  BY <1>1, <1>2, <2>2, <2>3 DEF LeadsTo
<1> QED  BY <1>3 DEF recent

\* A question is asked, or the last one is answered.
LEMMA ConversationGrows ==
    ASSUME NEW messages \in Seq(ChatMessages), NEW m \in ChatMessages,
           NEW asked \in Nat, NEW later \in Nat, asked <= later,
           Conversation(messages, asked), m.about # NoQuestion, m.about <= later,
           \/ m.role = "user" /\ m.about > asked
           \/ /\ m.role = "assistant" /\ messages # <<>>
              /\ messages[Len(messages)].role = "user"
              /\ messages[Len(messages)].about = m.about
    PROVE  Conversation(Append(messages, m), later)
<1> DEFINE more == Append(messages, m)
           k == Len(messages)
<1>1. /\ k \in Nat /\ Len(more) = k + 1 /\ DOMAIN more = 1 .. k + 1 /\ DOMAIN messages = 1 .. k
      /\ \A i \in 1 .. k : more[i] = messages[i] /\ messages[i] \in ChatMessages
      /\ more[k + 1] = m
    OBVIOUS
<1>2. messages # <<>> => k >= 1
    OBVIOUS
<1> HIDE DEF more, k
<1>3. ASSUME NEW n \in 1 .. k + 1
      PROVE  /\ more[n].about <= later
             /\ more[n].about = NoQuestion => n = 1 /\ more[n].role = "assistant"
             /\ more[n].role = "assistant" /\ more[n].about # NoQuestion =>
                  n > 1 /\ more[n - 1].role = "user" /\ more[n - 1].about = more[n].about
  <2>1. CASE n = k + 1
    <3>1. CASE m.role = "user"
      BY <1>1, <2>1, <3>1
    <3>2. CASE m.role = "assistant"
      BY <1>1, <1>2, <2>1, <3>2 DEF k
    <3> QED  BY <3>1, <3>2 DEF ChatMessages
  <2>2. CASE n \in 1 .. k
    <3>1. /\ messages[n].about <= asked
          /\ messages[n].about = NoQuestion => n = 1 /\ messages[n].role = "assistant"
          /\ messages[n].role = "assistant" /\ messages[n].about # NoQuestion =>
               n > 1 /\ messages[n - 1].role = "user" /\ messages[n - 1].about = messages[n].about
      BY <1>1, <2>2 DEF Conversation
    <3>2. messages[n].about \in Nat
      BY <1>1, <2>2 DEF ChatMessages
    <3>3. n > 1 => n - 1 \in 1 .. k
      BY <1>1, <2>2
    <3> QED  BY <1>1, <2>2, <3>1, <3>2, <3>3
  <2> QED  BY <1>1, <2>1, <2>2
<1>4. ASSUME NEW i \in 1 .. k + 1, NEW j \in 1 .. k + 1, i < j,
             more[i].role = "user", more[j].role = "user"
      PROVE  more[i].about < more[j].about
  <2>1. CASE j \in 1 .. k
    <3>1. i \in 1 .. k
      BY <1>1, <1>4, <2>1
    <3> QED  BY <1>1, <1>4, <2>1, <3>1 DEF Conversation
  <2>2. CASE j = k + 1
    <3>1. i \in 1 .. k /\ m.role = "user"
      BY <1>1, <1>4, <2>2
    <3>2. m.about > asked /\ m.about \in Nat
      BY <3>1 DEF ChatMessages
    <3>3. messages[i].about <= asked /\ messages[i].about \in Nat
      BY <1>1, <3>1 DEF Conversation, ChatMessages
    <3> QED  BY <1>1, <2>2, <3>1, <3>2, <3>3
  <2> QED  BY <1>1, <2>1, <2>2
<1>5. Conversation(more, later)
    BY <1>1, <1>3, <1>4 DEF Conversation
<1> QED  BY <1>5 DEF more

\* Nothing else changes but the chat.
LEMMA MessageShown ==
    ASSUME SupportInv, chat.ready, NEW m \in ChatMessages,
           ChatIs([chat EXCEPT !.typing = chat'.typing, !.messages = Append(@, m)]),
           chat'.typing \in BOOLEAN
    PROVE  /\ chat.ready /\ chat.messages \in Seq(ChatMessages)
           /\ Conversation(chat.messages, questions)
           /\ chat' \in ChatStates /\ chat'.ready
           /\ chat'.messages = Append(chat.messages, m)
           /\ keptChat' = [open |-> chat.open, messages |-> Append(chat.messages, m)]
           /\ keptChat' \in [open : BOOLEAN, messages : Seq(ChatMessages)]
           /\ \A q : Marked(q) => Marked(q)'
<1>1. chat.ready /\ chat.messages = keptChat.messages /\ Conversation(chat.messages, questions)
    BY DEF SupportInv, ChatKept, ChatMounted
<1>2. chat \in ChatStates
    BY DEF SupportInv, SupportTypes
<1>3. chat.messages \in Seq(ChatMessages) /\ chat.open \in BOOLEAN
    BY <1>2 DEF ChatStates
<1>4. /\ Append(chat.messages, m) \in Seq(ChatMessages) /\ Append(chat.messages, m) # <<>>
      /\ DOMAIN chat.messages \subseteq DOMAIN Append(chat.messages, m)
      /\ \A i \in DOMAIN chat.messages : Append(chat.messages, m)[i] = chat.messages[i]
    BY <1>3
<1> DEFINE more == Append(chat.messages, m)
<1>5. /\ chat' = [chat EXCEPT !.typing = chat'.typing, !.messages = more]
      /\ keptChat' = [open |-> chat'.open,
                      messages |-> IF chat'.messages = <<>> THEN keptChat.messages
                                   ELSE chat'.messages]
    BY DEF ChatIs
<1> HIDE DEF more
<1>6. /\ chat' \in ChatStates /\ chat'.ready /\ chat'.open = chat.open /\ chat'.messages = more
    BY <1>1, <1>2, <1>3, <1>4, <1>5 DEF ChatStates, more
<1>7. keptChat' = [open |-> chat.open, messages |-> more]
    BY <1>4, <1>5, <1>6 DEF more
<1>8. \A q : Marked(q) => Marked(q)'
    BY <1>1, <1>4, <1>7 DEF Marked, more
<1> QED  BY <1>1, <1>3, <1>4, <1>6, <1>7, <1>8 DEF more

LEMMA SendMessageStep ==
    ASSUME SupportInv, SendMessage
    PROVE  SupportInv'
<1> DEFINE m == ChatMessage("user", questions + 1)
           r == [about |-> questions + 1, handed |-> Recent(Spoken(chat.messages))]
           item == [role |-> "user", about |-> questions + 1]
<1>1. questions \in Nat /\ m \in ChatMessages /\ item \in HandedMessages
    BY DEF SupportInv, SupportTypes, ChatMessage, ChatMessages, HandedMessages
<1>2. chat \in ChatStates /\ chat.ready /\ ~chat.typing /\ requests = {}
    BY DEF SendMessage, SupportInv, SupportTypes, RequestsHold, ChatKept, ChatMounted
<1>3. /\ chat' = [chat EXCEPT !.typing = TRUE, !.messages = Append(@, m)]
      /\ keptChat' = [open |-> chat'.open,
                      messages |-> IF chat'.messages = <<>> THEN keptChat.messages
                                   ELSE chat'.messages]
      /\ requests' = {r} /\ questions' = questions + 1
      /\ UNCHANGED <<writers, posted, files, desk>>
    BY <1>2 DEF SendMessage, ChatIs, serverVars
<1> HIDE DEF m
<1>4. chat'.typing = TRUE
    BY <1>2, <1>3 DEF ChatStates
<1>5. ChatIs([chat EXCEPT !.typing = chat'.typing, !.messages = Append(@, m)])
    BY <1>3, <1>4 DEF ChatIs
<1>6. /\ chat.ready /\ chat.messages \in Seq(ChatMessages)
      /\ Conversation(chat.messages, questions)
      /\ chat' \in ChatStates /\ chat'.ready
      /\ chat'.messages = Append(chat.messages, m)
      /\ keptChat' = [open |-> chat.open, messages |-> Append(chat.messages, m)]
      /\ keptChat' \in [open : BOOLEAN, messages : Seq(ChatMessages)]
      /\ \A q : Marked(q) => Marked(q)'
    BY <1>1, <1>2, <1>4, <1>5, MessageShown
<1>7. m.role = "user" /\ m.about = questions + 1 /\ m.about # NoQuestion
    BY <1>1 DEF m, ChatMessage, NoQuestion
<1>8. r \in ChatRequests
  <2>1. Recent(Spoken(chat.messages)) \in Seq(HandedMessages)
    BY <1>6, SpokenType
  <2> QED  BY <1>1, <2>1 DEF ChatRequests
<1> HIDE DEF r, item
<1>9. SupportTypes'
    BY <1>1, <1>3, <1>6, <1>8 DEF SupportInv, SupportTypes
<1>10. ChatKept'
  <2>1. Conversation(Append(chat.messages, m), questions + 1)
    BY <1>1, <1>6, <1>7, ConversationGrows
  <2> QED  BY <1>3, <1>6, <2>1 DEF ChatKept
<1>11. RequestsHold'
  <2> DEFINE more == Append(chat.messages, m)
  <2>1. more # <<>> /\ more[Len(more)] = m
    <3>1. m \in ChatMessages /\ chat.messages \in Seq(ChatMessages)
      BY <1>1, <1>6
    <3> QED  BY <3>1, AppendProperties
  <2>2. Spoken(more) = Append(Spoken(chat.messages), item)
    BY <1>1, <1>6, <1>7, SpokenGrows DEF item
  <2>3. Handed(r) = Append(Recent(Spoken(chat.messages)), item)
    BY DEF Handed, r, item
  <2>4. LeadsTo(Handed(r), Spoken(more))
    BY <1>1, <1>6, <2>2, <2>3, SpokenType, RecentLeads
  <2>5. r.about = questions + 1
    BY DEF r
  <2> HIDE DEF more
  <2>6. chat'.messages = more
    BY <1>6 DEF more
  <2> QED  BY <1>3, <1>4, <1>7, <2>1, <2>4, <2>5, <2>6 DEF RequestsHold
<1>12. FeedbackHolds'
    BY <1>3, <1>6, ServerKept DEF SupportInv
<1> QED  BY <1>9, <1>10, <1>11, <1>12 DEF SupportInv

LEMMA AnswerShownStep ==
    ASSUME SupportInv, NEW r \in requests, AnswerShown(r)
    PROVE  SupportInv'
<1> DEFINE m == ChatMessage("assistant", r.about)
<1>1. questions \in Nat /\ r.about \in Nat /\ m \in ChatMessages
    BY DEF SupportInv, SupportTypes, ChatRequests, ChatMessage, ChatMessages
<1>2. /\ chat \in ChatStates /\ requests = {r} /\ chat.messages # <<>>
      /\ chat.messages[Len(chat.messages)].role = "user"
      /\ chat.messages[Len(chat.messages)].about = r.about
      /\ chat.typing
    BY DEF SupportInv, SupportTypes, RequestsHold
<1>3. chat.open \in BOOLEAN /\ chat.ready
    BY <1>2 DEF ChatStates, SupportInv, ChatKept, ChatMounted
<1>4. /\ chat' = [chat EXCEPT !.typing = FALSE, !.messages = Append(@, m)]
      /\ keptChat' = [open |-> chat'.open,
                      messages |-> IF chat'.messages = <<>> THEN keptChat.messages
                                   ELSE chat'.messages]
      /\ requests' = {}
      /\ UNCHANGED <<questions, writers, posted, files, desk>>
    BY <1>2 DEF AnswerShown, ChatIs, serverVars
<1> HIDE DEF m
<1>5. chat'.typing = FALSE
    BY <1>2, <1>4 DEF ChatStates
<1>6. ChatIs([chat EXCEPT !.typing = chat'.typing, !.messages = Append(@, m)])
    BY <1>4, <1>5 DEF ChatIs
<1>7. /\ chat.ready /\ chat.messages \in Seq(ChatMessages)
      /\ Conversation(chat.messages, questions)
      /\ chat' \in ChatStates /\ chat'.ready
      /\ chat'.messages = Append(chat.messages, m)
      /\ keptChat' = [open |-> chat.open, messages |-> Append(chat.messages, m)]
      /\ keptChat' \in [open : BOOLEAN, messages : Seq(ChatMessages)]
      /\ \A q : Marked(q) => Marked(q)'
    BY <1>1, <1>3, <1>5, <1>6, MessageShown
<1>8. m.role = "assistant" /\ m.about = r.about /\ m.about # NoQuestion /\ m.about <= questions
  <2>1. Len(chat.messages) \in DOMAIN chat.messages
    BY <1>2, <1>7
  <2>2. /\ r.about <= questions
        /\ r.about = NoQuestion => chat.messages[Len(chat.messages)].role = "assistant"
    BY <1>2, <1>7, <2>1 DEF Conversation
  <2> QED  BY <1>2, <2>2 DEF m, ChatMessage
<1>9. SupportTypes'
    BY <1>4, <1>7 DEF SupportInv, SupportTypes
<1>10. ChatKept'
  <2>1. Conversation(Append(chat.messages, m), questions)
    BY <1>1, <1>2, <1>7, <1>8, ConversationGrows
  <2>2. /\ chat'.ready /\ chat'.messages = keptChat'.messages /\ questions' = questions
        /\ keptChat'.messages = Append(chat.messages, m)
    BY <1>4, <1>7
  <2> QED  BY <2>1, <2>2 DEF ChatKept
<1>11. RequestsHold'
    BY <1>4 DEF RequestsHold
<1>12. FeedbackHolds'
    BY <1>4, <1>7, ServerKept DEF SupportInv
<1> QED  BY <1>9, <1>10, <1>11, <1>12 DEF SupportInv

\* What is said does not depend on the marks.
LEMMA MarksAreNotSaid ==
    ASSUME NEW messages \in Seq(ChatMessages), NEW marked \in Seq(ChatMessages),
           NEW asked, Conversation(messages, asked), Len(marked) = Len(messages),
           \A i \in 1 .. Len(messages) :
              marked[i].role = messages[i].role /\ marked[i].about = messages[i].about
    PROVE  Conversation(marked, asked) /\ Spoken(marked) = Spoken(messages)
<1> DEFINE k == Len(messages)
           greeted == IF messages # <<>> /\ messages[1].about = NoQuestion THEN 1 ELSE 0
<1>1. k \in Nat /\ DOMAIN messages = 1 .. k /\ DOMAIN marked = 1 .. k /\ Len(marked) = k
    OBVIOUS
<1>2. /\ messages # <<>> <=> k # 0
      /\ marked # <<>> <=> k # 0
      /\ greeted \in {0, 1} /\ (k = 0 => greeted = 0)
    BY <1>1
<1>3. greeted = IF marked # <<>> /\ marked[1].about = NoQuestion THEN 1 ELSE 0
    BY <1>1, <1>2
<1>4. /\ Spoken(messages) = [i \in 1 .. k - greeted |->
           [role |-> messages[i + greeted].role, about |-> messages[i + greeted].about]]
      /\ Spoken(marked) = [i \in 1 .. k - greeted |->
           [role |-> marked[i + greeted].role, about |-> marked[i + greeted].about]]
    BY <1>1, <1>3 DEF Spoken
<1> HIDE DEF k, greeted
<1>5. \A i \in 1 .. k - greeted : i + greeted \in 1 .. k
    BY <1>1, <1>2
<1>6. \A i \in 1 .. k :
         marked[i].role = messages[i].role /\ marked[i].about = messages[i].about
    BY DEF k
<1>7. Spoken(marked) = Spoken(messages)
    BY <1>4, <1>5, <1>6
<1>8. \A i \in 1 .. k : i > 1 => i - 1 \in 1 .. k
    BY <1>1
<1>9. Conversation(marked, asked)
    BY <1>1, <1>6, <1>8 DEF Conversation
<1> QED  BY <1>7, <1>9

\* The last question before an answer is the one it answers.
LEMMA QuestionOfAnswer ==
    ASSUME NEW messages \in Seq(ChatMessages), NEW asked, Conversation(messages, asked),
           NEW n \in DOMAIN messages, messages[n].role = "assistant",
           messages[n].about # NoQuestion
    PROVE  QuestionBefore(messages, n) = messages[n].about
<1> DEFINE users == {i \in 1 .. n - 1 : messages[i].role = "user"}
           last == CHOOSE i \in users : \A j \in users : j <= i
<1>1. /\ n \in Nat /\ n > 1 /\ messages[n - 1].role = "user"
      /\ messages[n - 1].about = messages[n].about
    BY DEF Conversation
<1>2. n - 1 \in users /\ \A j \in users : j <= n - 1 /\ j \in Nat
    BY <1>1
<1> HIDE DEF users
<1>3. last \in users /\ \A j \in users : j <= last
    BY <1>2
<1> HIDE DEF last
<1>4. last = n - 1
    BY <1>1, <1>2, <1>3
<1>5. QuestionBefore(messages, n) = messages[last].about
    BY <1>2 DEF QuestionBefore, users, last
<1> QED  BY <1>1, <1>4, <1>5

\* Two answers are of two questions.
LEMMA AnsweredOnce ==
    ASSUME NEW messages \in Seq(ChatMessages), NEW asked, Conversation(messages, asked),
           NEW n \in DOMAIN messages, NEW m \in DOMAIN messages,
           messages[n].role = "assistant", messages[m].role = "assistant",
           messages[n].about # NoQuestion, messages[m].about = messages[n].about
    PROVE  m = n
<1>1. /\ n \in Nat /\ m \in Nat /\ n > 1 /\ m > 1
      /\ messages[n - 1].role = "user" /\ messages[m - 1].role = "user"
      /\ messages[n - 1].about = messages[n].about
      /\ messages[m - 1].about = messages[m].about
    BY DEF Conversation
<1>2. /\ n - 1 \in DOMAIN messages /\ m - 1 \in DOMAIN messages
      /\ messages[n - 1] \in ChatMessages /\ messages[m - 1] \in ChatMessages
    BY <1>1
<1>3. messages[n - 1].about \in Nat /\ messages[m - 1].about = messages[n - 1].about
    BY <1>1, <1>2 DEF ChatMessages
<1>4. ~(n - 1 < m - 1) /\ ~(m - 1 < n - 1)
    BY <1>1, <1>2, <1>3 DEF Conversation
<1> QED  BY <1>1, <1>4

LEMMA SendFeedbackStep ==
    ASSUME SupportInv, NEW n \in DOMAIN chat.messages, NEW helpful \in BOOLEAN,
           SendFeedback(n, helpful)
    PROVE  SupportInv'
<1> DEFINE a == chat.messages[n].about
           entry == [question |-> QuestionBefore(chat.messages, n), answer |-> a,
                     helpful |-> helpful]
           marked == [chat.messages EXCEPT ![n].rated = TRUE]
<1>1. /\ chat \in ChatStates /\ chat.ready /\ chat.messages = keptChat.messages
      /\ Conversation(chat.messages, questions) /\ questions \in Nat
    BY DEF SupportInv, SupportTypes, ChatKept, ChatMounted, SendFeedback, CanRate
<1>2. chat.messages \in Seq(ChatMessages) /\ chat.open \in BOOLEAN
    BY <1>1 DEF ChatStates
<1>3. /\ chat.messages[n].role = "assistant" /\ a # NoQuestion /\ ~chat.messages[n].rated
      /\ chat.messages[n] \in ChatMessages /\ a \in Nat
  <2>1. chat.messages[n] \in ChatMessages
    BY <1>2
  <2>2. CanRate(n)
    BY DEF SendFeedback
  <2> QED  BY <2>1, <2>2 DEF CanRate, ChatMessages
<1>4. /\ marked \in Seq(ChatMessages) /\ Len(marked) = Len(chat.messages) /\ marked # <<>>
      /\ \A i \in 1 .. Len(chat.messages) :
            /\ marked[i].role = chat.messages[i].role
            /\ marked[i].about = chat.messages[i].about
            /\ marked[i].rated = IF i = n THEN TRUE ELSE chat.messages[i].rated
  <2>1. [chat.messages[n] EXCEPT !.rated = TRUE] \in ChatMessages
    BY <1>3 DEF ChatMessages
  <2>2. /\ marked = [chat.messages EXCEPT ![n] = [chat.messages[n] EXCEPT !.rated = TRUE]]
        /\ n \in 1 .. Len(chat.messages)
    BY <1>2
  <2>3. /\ marked \in Seq(ChatMessages) /\ Len(marked) = Len(chat.messages)
        /\ \A i \in 1 .. Len(chat.messages) :
              marked[i] = IF i = n THEN [chat.messages[n] EXCEPT !.rated = TRUE]
                          ELSE chat.messages[i]
    <3> HIDE DEF marked
    <3> QED  BY <1>2, <2>1, <2>2, ExceptSeq
  <2>4. \A i \in 1 .. Len(chat.messages) : chat.messages[i] \in ChatMessages
    BY <1>2
  <2> HIDE DEF marked
  <2>5. marked # <<>>
    BY <1>2, <2>2, <2>3
  <2>6. ASSUME NEW i \in 1 .. Len(chat.messages)
        PROVE  /\ marked[i].role = chat.messages[i].role
               /\ marked[i].about = chat.messages[i].about
               /\ marked[i].rated = IF i = n THEN TRUE ELSE chat.messages[i].rated
    BY <2>3, <2>4 DEF ChatMessages
  <2> QED  BY <2>3, <2>5, <2>6
<1>5. entry = [question |-> a, answer |-> a, helpful |-> helpful] /\ entry \in Ratings
  <2>1. QuestionBefore(chat.messages, n) = a
    BY <1>1, <1>2, <1>3, QuestionOfAnswer
  <2> QED  BY <1>3, <2>1 DEF Ratings
<1> HIDE DEF entry, marked, a
<1>6. /\ chat' = [chat EXCEPT !.messages = marked]
      /\ keptChat' = [open |-> chat'.open,
                      messages |-> IF chat'.messages = <<>> THEN keptChat.messages
                                   ELSE chat'.messages]
      /\ UNCHANGED <<questions, requests, files, desk>>
      /\ posted' = posted + 1
    BY DEF SendFeedback, ChatIs, Post, marked
<1>7. PICK w \in Writers :
         /\ writers[w].at = "none"
         /\ writers' = [writers EXCEPT ![w] =
               [at |-> "posted", file |-> "feedback", entry |-> entry, entries |-> Torn]]
    BY DEF SendFeedback, Post, entry, a
<1>8. /\ chat' \in ChatStates /\ chat'.messages = marked /\ chat'.ready
      /\ chat'.typing = chat.typing
      /\ keptChat' = [open |-> chat.open, messages |-> marked]
    BY <1>1, <1>2, <1>4, <1>6 DEF ChatStates
<1>9. SupportTypes'
  <2>1. keptChat' \in [open : BOOLEAN, messages : Seq(ChatMessages)]
    BY <1>2, <1>4, <1>8
  <2>2. [at |-> "posted", file |-> "feedback", entry |-> entry, entries |-> Torn] \in Posts
    BY <1>5 DEF Posts, Torn
  <2>3. writers' \in [Writers -> {NotPosting} \union Posts]
    BY <1>7, <2>2 DEF SupportInv, SupportTypes
  <2>4. posted' \in Nat
    BY <1>6 DEF SupportInv, SupportTypes
  <2> QED  BY <1>6, <1>8, <2>1, <2>3, <2>4 DEF SupportInv, SupportTypes
<1>10. Conversation(marked, questions) /\ Spoken(marked) = Spoken(chat.messages)
    BY <1>1, <1>2, <1>4, MarksAreNotSaid
<1>11. ChatKept'
    BY <1>6, <1>8, <1>10 DEF ChatKept
<1>12. RequestsHold'
  <2>1. chat.messages # <<>> => Len(chat.messages) \in 1 .. Len(chat.messages)
    BY <1>2
  <2> QED  BY <1>4, <1>6, <1>8, <1>10, <2>1 DEF SupportInv, RequestsHold
<1>13. /\ \A q : Marked(q) => Marked(q)'
       /\ \A q : q = a => Marked(q)' /\ ~Marked(q)
  <2>1. DOMAIN chat.messages = 1 .. Len(chat.messages) /\ DOMAIN marked = 1 .. Len(chat.messages)
    BY <1>2, <1>4
  <2>2. ASSUME NEW q, Marked(q)
        PROVE  Marked(q)'
    <3>1. PICK m \in 1 .. Len(chat.messages) :
             /\ chat.messages[m].role = "assistant"
             /\ chat.messages[m].about = q /\ chat.messages[m].rated
      BY <1>1, <2>1, <2>2 DEF Marked
    <3>2. marked[m].role = "assistant" /\ marked[m].about = q /\ marked[m].rated
      BY <1>4, <3>1
    <3> QED  BY <1>8, <2>1, <3>2 DEF Marked
  <2>3. ASSUME NEW q, q = a
        PROVE  Marked(q)'
    <3>1. /\ n \in 1 .. Len(chat.messages) /\ marked[n].role = "assistant"
          /\ marked[n].about = q /\ marked[n].rated
      BY <1>3, <1>4, <2>1, <2>3 DEF a
    <3> QED  BY <1>8, <2>1, <3>1 DEF Marked
  <2>4. ASSUME NEW q, q = a, Marked(q)
        PROVE  FALSE
    <3>1. PICK m \in DOMAIN chat.messages :
             /\ chat.messages[m].role = "assistant"
             /\ chat.messages[m].about = a /\ chat.messages[m].rated
      BY <1>1, <2>4 DEF Marked
    <3>2. m = n
      BY <1>1, <1>2, <1>3, <3>1, AnsweredOnce DEF a
    <3> QED  BY <1>3, <3>1, <3>2
  <2> QED  BY <2>2, <2>3, <2>4
<1>14. FeedbackHolds'
  <2>1. /\ \A v \in Writers : v # w => writers'[v] = writers[v]
        /\ writers'[w] = [at |-> "posted", file |-> "feedback", entry |-> entry, entries |-> Torn]
    BY <1>7 DEF SupportInv, SupportTypes
  <2>2. a \notin AnswersOf(files["feedback"])
    BY <1>13 DEF SupportInv, FeedbackHolds
  <2>3. \A v \in Writers : Posting(v) =>
           a \notin AnswersOf(writers[v].entries) /\ a # writers[v].entry.answer
    BY <1>13 DEF SupportInv, FeedbackHolds, PostHolds
  <2>4. AnswersOf(Torn) = {} /\ TrueEntries(Torn)
    BY DEF AnswersOf, Torn, TrueEntries
  <2>5. Posting(w)' => PostHolds(w)'
    <3>1. AnswersOf(writers'[w].entries) = {} /\ TrueEntries(writers'[w].entries)
      BY <2>1, <2>4
    <3>2. writers'[w].entry.answer = a /\ writers'[w].entry.question = a
      BY <1>5, <2>1
    <3>3. \A v \in Writers : v # w => (Posting(v)' <=> Posting(v))
      BY <2>1 DEF Posting
    <3>4. ASSUME NEW v \in Writers, Posting(v)'
          PROVE  /\ a \notin AnswersOf(writers'[v].entries)
                 /\ v # w => a # writers'[v].entry.answer
      BY <2>1, <2>3, <3>1, <3>3, <3>4
    <3>5. a \notin AnswersOf(files'["feedback"])
      BY <1>6, <2>2
    <3> QED  BY <1>13, <3>1, <3>2, <3>4, <3>5 DEF PostHolds
  <2>6. ASSUME NEW v \in Writers, v # w, Posting(v)'
        PROVE  PostHolds(v)'
    <3>1. writers'[v] = writers[v] /\ Posting(v) /\ PostHolds(v)
      BY <2>1, <2>6 DEF Posting, SupportInv, FeedbackHolds
    <3>2. writers[v].entry.answer # a
      BY <2>3, <3>1
    <3>3. writers'[w].entries = Torn /\ writers'[w].entry.answer = a
      BY <1>5, <2>1
    <3>4. \A u \in Writers : u # w => (Posting(u)' <=> Posting(u)) /\ writers'[u] = writers[u]
      BY <2>1 DEF Posting
    <3> QED  BY <1>6, <1>13, <2>4, <3>1, <3>2, <3>3, <3>4 DEF PostHolds
  <2> QED  BY <1>6, <1>13, <2>5, <2>6 DEF SupportInv, FeedbackHolds
<1> QED  BY <1>9, <1>11, <1>12, <1>14 DEF SupportInv

-------------------------------------------------------------------------------
\* The server, while the chat stays as it is.
LEMMA ChatStays ==
    ASSUME SupportInv, UNCHANGED <<chat, keptChat, questions, requests>>
    PROVE  /\ ChatKept' /\ RequestsHold'
           /\ \A q : Marked(q) => Marked(q)'
           /\ chat' \in ChatStates
           /\ keptChat' \in [open : BOOLEAN, messages : Seq(ChatMessages)]
           /\ questions' \in Nat /\ requests' \subseteq ChatRequests
BY DEF SupportInv, SupportTypes, ChatKept, RequestsHold, Marked

\* A post that is not to the feedback file, or one that is over, is nobody's
\* concern; the others stay as they were.
LEMMA OtherPosts ==
    ASSUME SupportInv, NEW w \in Writers, NEW p, writers' = [writers EXCEPT ![w] = p]
    PROVE  /\ writers'[w] = p
           /\ \A v \in Writers : v # w =>
                 writers'[v] = writers[v] /\ (Posting(v)' <=> Posting(v))
BY DEF SupportInv, SupportTypes, Posting

\* A post comes to nothing, whatever of the file is left.
LEMMA PostGone ==
    ASSUME SupportInv, NEW w \in Writers,
           writers' = [writers EXCEPT ![w] = NotPosting],
           files' \in [{"feedback", "custom"} -> Seq(Ratings)],
           files'["feedback"] \in {files["feedback"], Torn},
           UNCHANGED <<chat, keptChat, questions, requests, posted, desk>>
    PROVE  SupportInv'
<1>1. /\ ChatKept' /\ RequestsHold'
      /\ \A q : Marked(q) => Marked(q)'
      /\ chat' \in ChatStates
      /\ keptChat' \in [open : BOOLEAN, messages : Seq(ChatMessages)]
      /\ questions' \in Nat /\ requests' \subseteq ChatRequests
    BY ChatStays
<1>2. /\ writers'[w] = NotPosting
      /\ \A v \in Writers : v # w =>
            writers'[v] = writers[v] /\ (Posting(v)' <=> Posting(v))
    BY OtherPosts
<1>3. SupportTypes'
    BY <1>1 DEF SupportInv, SupportTypes
<1>4. AnswersOf(Torn) = {} /\ TrueEntries(Torn)
    BY DEF AnswersOf, Torn, TrueEntries
<1>5. ~Posting(w)'
    BY <1>2 DEF Posting, NotPosting
<1>6. ASSUME NEW v \in Writers, Posting(v)'
      PROVE  PostHolds(v)'
  <2>1. v # w /\ writers'[v] = writers[v] /\ PostHolds(v)
    BY <1>2, <1>5, <1>6 DEF SupportInv, FeedbackHolds
  <2>2. writers[v].entry.answer \notin AnswersOf(files'["feedback"])
    BY <1>4, <2>1 DEF PostHolds
  <2>3. \A u \in Writers : Posting(u)' => u # w /\ writers'[u] = writers[u] /\ Posting(u)
    BY <1>2, <1>5
  <2> QED  BY <1>1, <2>1, <2>2, <2>3 DEF PostHolds
<1>7. FeedbackHolds'
  <2>1. TrueEntries(files'["feedback"])
    BY <1>4 DEF SupportInv, FeedbackHolds
  <2>2. \A q \in AnswersOf(files'["feedback"]) : Marked(q)'
    BY <1>1, <1>4 DEF SupportInv, FeedbackHolds
  <2> QED  BY <1>6, <2>1, <2>2 DEF SupportInv, FeedbackHolds
<1> QED  BY <1>1, <1>3, <1>7 DEF SupportInv

LEMMA AddQAStep ==
    ASSUME SupportInv, AddQA
    PROVE  SupportInv'
<1> DEFINE entry == [question |-> NoQuestion, answer |-> NoQuestion, helpful |-> TRUE]
<1>1. UNCHANGED <<chat, keptChat, questions, requests, files, desk>> /\ posted' = posted + 1
    BY DEF AddQA, Post
<1>2. PICK w \in Writers :
         writers' = [writers EXCEPT ![w] =
               [at |-> "posted", file |-> "custom", entry |-> entry, entries |-> Torn]]
    BY DEF AddQA, Post
<1>3. /\ ChatKept' /\ RequestsHold'
      /\ \A q : Marked(q) => Marked(q)'
      /\ chat' \in ChatStates
      /\ keptChat' \in [open : BOOLEAN, messages : Seq(ChatMessages)]
      /\ questions' \in Nat /\ requests' \subseteq ChatRequests
    BY <1>1, ChatStays
<1>4. /\ writers'[w] = [at |-> "posted", file |-> "custom", entry |-> entry, entries |-> Torn]
      /\ \A v \in Writers : v # w =>
            writers'[v] = writers[v] /\ (Posting(v)' <=> Posting(v))
    BY <1>2, OtherPosts
<1>5. SupportTypes'
  <2>1. [at |-> "posted", file |-> "custom", entry |-> entry, entries |-> Torn] \in Posts
    BY DEF Posts, Ratings, Torn, NoQuestion
  <2> HIDE DEF entry
  <2>2. writers' \in [Writers -> {NotPosting} \union Posts]
    BY <1>2, <2>1 DEF SupportInv, SupportTypes
  <2> QED  BY <1>1, <1>3, <2>2 DEF SupportInv, SupportTypes
<1>6. FeedbackHolds'
  <2>1. ~Posting(w)'
    BY <1>4 DEF Posting
  <2>2. ASSUME NEW v \in Writers, Posting(v)'
        PROVE  PostHolds(v)'
    <3>1. v # w /\ writers'[v] = writers[v] /\ PostHolds(v)
      BY <1>4, <2>1, <2>2 DEF SupportInv, FeedbackHolds
    <3>2. \A u \in Writers : Posting(u)' => u # w /\ writers'[u] = writers[u] /\ Posting(u)
      BY <1>4, <2>1
    <3> QED  BY <1>1, <1>3, <3>1, <3>2 DEF PostHolds
  <2> QED  BY <1>1, <1>3, <2>2 DEF SupportInv, FeedbackHolds
<1> QED  BY <1>3, <1>5, <1>6 DEF SupportInv

LEMMA PostReadsStep ==
    ASSUME SupportInv, NEW w \in Writers, PostReads(w)
    PROVE  SupportInv'
<1> DEFINE file == writers[w].file
           p == [writers[w] EXCEPT !.at = "read", !.entries = files[file]]
<1>1. UNCHANGED <<chat, keptChat, questions, requests, posted, files, desk>>
    BY DEF PostReads
<1>2. /\ ChatKept' /\ RequestsHold'
      /\ \A q : Marked(q) => Marked(q)'
      /\ chat' \in ChatStates
      /\ keptChat' \in [open : BOOLEAN, messages : Seq(ChatMessages)]
      /\ questions' \in Nat /\ requests' \subseteq ChatRequests
    BY <1>1, ChatStays
<1>3. writers[w] \in Posts /\ writers[w].at = "posted"
    BY DEF SupportInv, SupportTypes, PostReads, NotPosting
<1>4. /\ p \in Posts /\ p.at = "read" /\ p.file = file /\ p.entry = writers[w].entry
      /\ p.entries = files[file] /\ file \in {"feedback", "custom"}
    BY <1>3 DEF SupportInv, SupportTypes, Posts
<1>5. writers' = [writers EXCEPT ![w] = p]
    BY DEF PostReads, SupportInv, SupportTypes
<1> HIDE DEF p
<1>6. /\ writers'[w] = p
      /\ \A v \in Writers : v # w =>
            writers'[v] = writers[v] /\ (Posting(v)' <=> Posting(v))
    BY <1>5, OtherPosts
<1>7. SupportTypes'
  <2>1. writers' \in [Writers -> {NotPosting} \union Posts]
    BY <1>4, <1>5 DEF SupportInv, SupportTypes
  <2> QED  BY <1>1, <1>2, <2>1 DEF SupportInv, SupportTypes
<1>8. Posting(w)' <=> Posting(w)
    BY <1>3, <1>4, <1>6 DEF Posting
<1>9. ASSUME NEW v \in Writers, Posting(v)'
      PROVE  PostHolds(v)'
  <2>1. Posting(v) /\ PostHolds(v) /\ writers'[v].entry = writers[v].entry
    BY <1>4, <1>6, <1>8, <1>9 DEF SupportInv, FeedbackHolds
  <2>2. /\ TrueEntries(writers'[v].entries)
        /\ \A q \in AnswersOf(writers'[v].entries) : Marked(q)'
    <3>1. CASE v = w
      <4>1. writers'[v].entries = files["feedback"]
        BY <1>3, <1>4, <1>6, <2>1, <3>1 DEF Posting
      <4> QED  BY <1>2, <4>1 DEF SupportInv, FeedbackHolds
    <3>2. CASE v # w
      BY <1>2, <1>6, <2>1, <3>2 DEF PostHolds
    <3> QED  BY <3>1, <3>2
  <2>3. ASSUME NEW u \in Writers, Posting(u)'
        PROVE  /\ writers[v].entry.answer \notin AnswersOf(writers'[u].entries)
               /\ u # v => writers[v].entry.answer # writers'[u].entry.answer
    <3>1. Posting(u) /\ writers'[u].entry = writers[u].entry
      BY <1>4, <1>6, <1>8, <2>3
    <3>2. CASE u = w
      <4>1. writers'[u].entries = files["feedback"]
        BY <1>3, <1>4, <1>6, <3>1, <3>2 DEF Posting
      <4> QED  BY <2>1, <3>1, <4>1 DEF PostHolds
    <3>3. CASE u # w
      BY <1>6, <2>1, <3>1, <3>3 DEF PostHolds
    <3> QED  BY <3>2, <3>3
  <2> QED  BY <1>1, <1>2, <2>1, <2>2, <2>3 DEF PostHolds
<1>10. FeedbackHolds'
    BY <1>1, <1>2, <1>9 DEF SupportInv, FeedbackHolds
<1> QED  BY <1>2, <1>7, <1>10 DEF SupportInv

LEMMA PostOpensStep ==
    ASSUME SupportInv, NEW w \in Writers, PostOpens(w)
    PROVE  SupportInv'
<1> DEFINE file == writers[w].file
           p == [writers[w] EXCEPT !.at = "opened"]
<1>1. UNCHANGED <<chat, keptChat, questions, requests, posted, desk>>
    BY DEF PostOpens
<1>2. /\ ChatKept' /\ RequestsHold'
      /\ \A q : Marked(q) => Marked(q)'
      /\ chat' \in ChatStates
      /\ keptChat' \in [open : BOOLEAN, messages : Seq(ChatMessages)]
      /\ questions' \in Nat /\ requests' \subseteq ChatRequests
    BY <1>1, ChatStays
<1>3. writers[w] \in Posts /\ writers[w].at = "read"
    BY DEF SupportInv, SupportTypes, PostOpens, NotPosting
<1>4. /\ p \in Posts /\ p.at = "opened" /\ p.file = file /\ p.entry = writers[w].entry
      /\ p.entries = writers[w].entries /\ file \in {"feedback", "custom"}
    BY <1>3 DEF Posts
<1>5. writers' = [writers EXCEPT ![w] = p] /\ files' = [files EXCEPT ![file] = Torn]
    BY DEF PostOpens, SupportInv, SupportTypes
<1> HIDE DEF p
<1>6. /\ writers'[w] = p
      /\ \A v \in Writers : v # w =>
            writers'[v] = writers[v] /\ (Posting(v)' <=> Posting(v))
    BY <1>5, OtherPosts
<1>7. files'["feedback"] \in {files["feedback"], Torn}
    BY <1>5 DEF SupportInv, SupportTypes
<1>8. SupportTypes'
  <2>1. writers' \in [Writers -> {NotPosting} \union Posts]
    BY <1>4, <1>5 DEF SupportInv, SupportTypes
  <2>2. files' \in [{"feedback", "custom"} -> Seq(Ratings)]
    BY <1>4, <1>5 DEF SupportInv, SupportTypes, Torn
  <2> QED  BY <1>1, <1>2, <2>1, <2>2 DEF SupportInv, SupportTypes
<1>9. AnswersOf(Torn) = {} /\ TrueEntries(Torn)
    BY DEF AnswersOf, Torn, TrueEntries
<1>10. \A v \in Writers : Posting(v)' =>
          /\ Posting(v) /\ PostHolds(v)
          /\ writers'[v].entry = writers[v].entry /\ writers'[v].entries = writers[v].entries
    BY <1>3, <1>4, <1>6 DEF Posting, SupportInv, FeedbackHolds
<1>11. ASSUME NEW v \in Writers, Posting(v)'
       PROVE  PostHolds(v)'
  <2>1. writers[v].entry.answer \notin AnswersOf(files'["feedback"])
    BY <1>7, <1>9, <1>10, <1>11 DEF PostHolds
  <2> QED  BY <1>2, <1>10, <1>11, <2>1 DEF PostHolds
<1>12. FeedbackHolds'
  <2>1. TrueEntries(files'["feedback"])
    BY <1>7, <1>9 DEF SupportInv, FeedbackHolds
  <2>2. \A q \in AnswersOf(files'["feedback"]) : Marked(q)'
    BY <1>2, <1>7, <1>9 DEF SupportInv, FeedbackHolds
  <2> QED  BY <1>1, <1>11, <2>1, <2>2 DEF SupportInv, FeedbackHolds
<1> QED  BY <1>2, <1>8, <1>12 DEF SupportInv

LEMMA PostWritesStep ==
    ASSUME SupportInv, NEW w \in Writers, PostWrites(w)
    PROVE  SupportInv'
<1> DEFINE file == writers[w].file
           entry == writers[w].entry
           entries == writers[w].entries
           more == Append(entries, entry)
<1>1. /\ UNCHANGED <<chat, keptChat, questions, requests, posted, desk>>
      /\ writers' = [writers EXCEPT ![w] = NotPosting]
      /\ files' = [files EXCEPT ![file] = more]
    BY DEF PostWrites, PostEnds
<1>2. /\ writers[w].at = "opened" /\ entry \in Ratings /\ entries \in Seq(Ratings)
      /\ file \in {"feedback", "custom"}
    BY DEF SupportInv, SupportTypes, PostWrites, NotPosting, Posts
<1>3. more \in Seq(Ratings)
    BY <1>2
<1>4. files' \in [{"feedback", "custom"} -> Seq(Ratings)]
    BY <1>1, <1>2, <1>3 DEF SupportInv, SupportTypes
<1>5. CASE file = "custom"
  <2>1. files'["feedback"] = files["feedback"]
    BY <1>1, <1>5 DEF SupportInv, SupportTypes
  <2> QED  BY <1>1, <1>4, <2>1, PostGone
<1>6. CASE file = "feedback"
  <2>1. Posting(w) /\ PostHolds(w)
    BY <1>2, <1>6 DEF Posting, SupportInv, FeedbackHolds
  <2>2. files'["feedback"] = more
    BY <1>1, <1>6 DEF SupportInv, SupportTypes
  <2> HIDE DEF entries, entry, file
  <2>3. /\ DOMAIN more = 1 .. Len(entries) + 1 /\ DOMAIN entries = 1 .. Len(entries)
        /\ Len(entries) \in Nat
        /\ \A i \in 1 .. Len(entries) : more[i] = entries[i]
        /\ more[Len(entries) + 1] = entry
    BY <1>2
  <2> HIDE DEF more
  <2>4. AnswersOf(more) = AnswersOf(entries) \union {entry.answer}
    <3>1. AnswersOf(more) = {more[i].answer : i \in 1 .. Len(entries) + 1}
      BY <2>3 DEF AnswersOf
    <3>2. AnswersOf(entries) = {entries[i].answer : i \in 1 .. Len(entries)}
      BY <2>3 DEF AnswersOf
    <3>3. 1 .. Len(entries) + 1 = (1 .. Len(entries)) \union {Len(entries) + 1}
      BY <2>3
    <3> QED  BY <2>3, <3>1, <3>2, <3>3
  <2>5. /\ entry.question = entry.answer /\ Marked(entry.answer)
        /\ TrueEntries(entries) /\ \A q \in AnswersOf(entries) : Marked(q)
        /\ entry.answer \notin AnswersOf(entries)
    BY <2>1 DEF PostHolds, entry, entries
  <2>6. TrueEntries(more)
    <3>1. \A i \in 1 .. Len(entries) :
             entries[i].question = entries[i].answer /\ entries[i].answer # entry.answer
      BY <2>3, <2>5 DEF TrueEntries, AnswersOf
    <3>2. \A i \in DOMAIN more : more[i].question = more[i].answer
      BY <2>3, <2>5, <3>1
    <3>3. \A i, j \in DOMAIN more : more[i].answer = more[j].answer => i = j
      <4> SUFFICES ASSUME NEW i \in DOMAIN more, NEW j \in DOMAIN more,
                          more[i].answer = more[j].answer
                   PROVE  i = j
          OBVIOUS
      <4>1. \A l \in DOMAIN more : l \in 1 .. Len(entries) \/ l = Len(entries) + 1
        BY <2>3
      <4>2. \A l, k \in 1 .. Len(entries) : entries[l].answer = entries[k].answer => l = k
        BY <2>3, <2>5 DEF TrueEntries
      <4> QED  BY <2>3, <3>1, <4>1, <4>2
    <3> QED  BY <3>2, <3>3 DEF TrueEntries
  <2>7. /\ writers'[w] = NotPosting
        /\ \A v \in Writers : v # w =>
              writers'[v] = writers[v] /\ (Posting(v)' <=> Posting(v))
    BY <1>1, OtherPosts
  <2>8. ~Posting(w)'
    BY <2>7 DEF Posting, NotPosting
  <2>9. /\ ChatKept' /\ RequestsHold'
        /\ \A q : Marked(q) => Marked(q)'
        /\ chat' \in ChatStates
        /\ keptChat' \in [open : BOOLEAN, messages : Seq(ChatMessages)]
        /\ questions' \in Nat /\ requests' \subseteq ChatRequests
    BY <1>1, ChatStays
  <2>10. SupportTypes'
    BY <1>1, <1>4, <2>9 DEF SupportInv, SupportTypes
  <2>11. ASSUME NEW v \in Writers, Posting(v)'
         PROVE  PostHolds(v)'
    <3>1. v # w /\ writers'[v] = writers[v] /\ Posting(v) /\ PostHolds(v)
      BY <2>7, <2>8, <2>11 DEF SupportInv, FeedbackHolds
    <3>2. writers[v].entry.answer \notin AnswersOf(files'["feedback"])
      BY <2>1, <2>2, <2>4, <3>1 DEF PostHolds, entry, entries
    <3>3. \A u \in Writers : Posting(u)' => u # w /\ writers'[u] = writers[u] /\ Posting(u)
      BY <2>7, <2>8
    <3> QED  BY <2>9, <3>1, <3>2, <3>3 DEF PostHolds
  <2>12. FeedbackHolds'
    <3>1. \A q \in AnswersOf(files'["feedback"]) : Marked(q)'
      BY <2>2, <2>4, <2>5, <2>9
    <3> QED  BY <1>1, <2>2, <2>6, <2>11, <3>1 DEF SupportInv, FeedbackHolds
  <2> QED  BY <2>9, <2>10, <2>12 DEF SupportInv
<1> QED  BY <1>2, <1>5, <1>6

LEMMA PostStopsStep ==
    ASSUME SupportInv, NEW w \in Writers, PostTears(w) \/ PostFails(w)
    PROVE  SupportInv'
<1>1. writers' = [writers EXCEPT ![w] = NotPosting]
      /\ UNCHANGED <<chat, keptChat, questions, requests, posted, desk>>
    BY DEF PostTears, PostFails, PostEnds
<1>2. /\ files' \in [{"feedback", "custom"} -> Seq(Ratings)]
      /\ files'["feedback"] \in {files["feedback"], Torn}
  <2>1. files \in [{"feedback", "custom"} -> Seq(Ratings)] /\ Torn \in Seq(Ratings)
    BY DEF SupportInv, SupportTypes, Torn
  <2>2. CASE PostTears(w)
    <3>1. files' = [files EXCEPT ![writers[w].file] = Torn]
      BY <2>2 DEF PostTears, PostEnds
    <3> QED  BY <2>1, <3>1
  <2>3. CASE PostFails(w)
    BY <2>1, <2>3 DEF PostFails
  <2> QED  BY <2>2, <2>3
<1> QED  BY <1>1, <1>2, PostGone

LEMMA LoadFeedbackStep ==
    ASSUME SupportInv, LoadFeedback
    PROVE  SupportInv'
<1>1. /\ UNCHANGED <<chat, keptChat, questions, requests, writers, posted, files>>
      /\ desk' = files["feedback"]
    BY DEF LoadFeedback
<1>2. /\ ChatKept' /\ RequestsHold'
      /\ \A q : Marked(q) => Marked(q)'
      /\ chat' \in ChatStates
      /\ keptChat' \in [open : BOOLEAN, messages : Seq(ChatMessages)]
      /\ questions' \in Nat /\ requests' \subseteq ChatRequests
    BY <1>1, ChatStays
<1>3. SupportTypes'
    BY <1>1, <1>2 DEF SupportInv, SupportTypes
<1>4. FeedbackHolds'
    BY <1>1, <1>2 DEF SupportInv, FeedbackHolds, PostHolds, Posting
<1> QED  BY <1>2, <1>3, <1>4 DEF SupportInv

LEMMA SupportNext ==
    ASSUME SupportInv, [SupportStep]_supportVars
    PROVE  SupportInv'
<1>1. CASE SupportStep
  <2>1. ASSUME NEW r \in requests, AnswerShown(r)
        PROVE  SupportInv'
    BY <2>1, AnswerShownStep
  <2>2. ASSUME NEW n \in DOMAIN chat.messages, NEW helpful \in BOOLEAN,
               SendFeedback(n, helpful)
        PROVE  SupportInv'
    BY <2>2, SendFeedbackStep
  <2>3. ASSUME NEW w \in Writers,
               \/ PostReads(w) \/ PostOpens(w) \/ PostWrites(w)
               \/ PostTears(w) \/ PostFails(w)
        PROVE  SupportInv'
    BY <2>3, PostReadsStep, PostOpensStep, PostWritesStep, PostStopsStep
  <2> QED  BY <1>1, <2>1, <2>2, <2>3, FrameStep, SendMessageStep, ReloadTabStep, AddQAStep,
              LoadFeedbackStep DEF SupportStep
<1>2. CASE UNCHANGED supportVars
  <2>1. /\ UNCHANGED <<chat, keptChat, questions, requests>>
        /\ UNCHANGED <<writers, posted, files, desk>>
    BY <1>2 DEF supportVars
  <2>2. /\ ChatKept' /\ RequestsHold'
        /\ \A q : Marked(q) => Marked(q)'
        /\ chat' \in ChatStates
        /\ keptChat' \in [open : BOOLEAN, messages : Seq(ChatMessages)]
        /\ questions' \in Nat /\ requests' \subseteq ChatRequests
    BY <2>1, ChatStays
  <2>3. SupportTypes'
    BY <2>1, <2>2 DEF SupportInv, SupportTypes
  <2>4. FeedbackHolds'
    BY <2>1, <2>2, ServerKept DEF SupportInv
  <2> QED  BY <2>2, <2>3, <2>4 DEF SupportInv
<1> QED  BY <1>1, <1>2

LEMMA SupportInvImplies == SupportInv => ConversationsAreTrue
<1> SUFFICES ASSUME SupportInv PROVE ConversationsAreTrue
    OBVIOUS
<1>1. AnswersFollow
  <2>1. CASE chat.ready
    <3>1. Conversation(chat.messages, questions) /\ RequestsHold
      BY <2>1 DEF SupportInv, ChatKept
    <3>2. \A r \in requests : LeadsTo(Handed(r), Spoken(chat.messages))
      BY <3>1 DEF RequestsHold
    <3> QED  BY <3>1, <3>2 DEF Conversation, LeadsTo, Handed, AnswersFollow
  <2>2. CASE ~chat.ready
    BY <2>2 DEF SupportInv, ChatKept, RequestsHold, ChatMounted, AnswersFollow
  <2> QED  BY <2>1, <2>2
<1>2. NothingForgotten
    BY DEF SupportInv, ChatKept, ChatMounted, NothingForgotten
<1>3. FeedbackIsTrue
    BY DEF SupportInv, FeedbackHolds, FeedbackIsTrue
<1> QED  BY <1>1, <1>2, <1>3 DEF ConversationsAreTrue

\* The strengthened invariant of the chat, its posts and the two files.
THEOREM SupportInvariance == SupportSpec => []SupportInv
BY SupportStart, SupportNext, PTL DEF SupportSpec

\* Answers follow their questions, a reload forgets nothing, and feedback is of
\* the question that was answered, once (SupportChat, the feedback route).
THEOREM ConversationsStand == SupportSpec => []ConversationsAreTrue
BY SupportInvariance, SupportInvImplies, PTL


LEMMA CeilEnough ==
    ASSUME NEW a \in Nat, NEW b \in Nat \ {0}
    PROVE  /\ (a + b - 1) \div b \in Nat
           /\ a <= ((a + b - 1) \div b) * b
<1> DEFINE q == (a + b - 1) \div b
           r == (a + b - 1) % b
<1>1. q \in Int /\ r \in 0 .. b - 1 /\ a + b - 1 = b * q + r
    OBVIOUS
<1> HIDE DEF q, r
<1>2. q >= 0
    BY <1>1
<1>3. b * q >= a
    BY <1>1
<1>4. b * q = q * b
    BY <1>1
<1> QED  BY <1>1, <1>2, <1>3, <1>4 DEF q
-------------------------------------------------------------------------------
(***************************************************************************)
(* The rate limiters.                                                      *)
(***************************************************************************)

LimitSpec == LimitsInit /\ [][LimitStep]_limitVars

Grants == [at : Nat, resetAt : Nat, n : Nat]

LimitTypes ==
    /\ limitTime \in Nat
    /\ windows \in [LimitedKeys -> [count : Nat, resetAt : Nat]]
    /\ retries \in [LimitedKeys -> [at : Nat, after : Nat]]
    /\ allowed \in [LimitedKeys -> SUBSET Grants]

\* Each request let through has a place of its own in a window it falls in,
\* and windows do not overlap.
LogHolds(log, time) ==
    /\ \A g \in log :
          /\ g.n \in 1 .. Limit
          /\ g.resetAt <= g.at + WindowMs /\ g.at <= g.resetAt /\ g.at <= time
    /\ \A g, h \in log :
          /\ g.resetAt < h.resetAt => g.resetAt + WindowMs <= h.resetAt
          /\ g.resetAt = h.resetAt /\ g.n = h.n => g = h

\* What is logged of the window is in its count; the windows before are over.
WindowHolds(window, log, time) ==
    IF window = NoWindow THEN \A g \in log : g.resetAt <= time
    ELSE /\ window.count >= 1
         /\ window.resetAt <= time + WindowMs
         /\ \A g \in log :
               \/ g.resetAt = window.resetAt /\ g.n <= window.count
               \/ g.resetAt + WindowMs <= window.resetAt

\* A refusal is of a window that is not over yet, or of an earlier moment.
RetryHolds(retry, window, time) ==
    \/ retry = NotRefused
    \/ /\ retry.at <= time
       /\ retry.at = time => window.resetAt > time
       /\ \/ window.resetAt <= retry.at + retry.after * Second
          \/ retry.at < window.resetAt - WindowMs

KeyHolds(k) ==
    /\ LogHolds(allowed[k], limitTime)
    /\ WindowHolds(windows[k], allowed[k], limitTime)
    /\ k \in LimitKeys => RetryHolds(retries[k], windows[k], limitTime)

LimitInv == LimitTypes /\ \A k \in LimitedKeys : KeyHolds(k)

LEMMA LimitStart == LimitsInit => LimitInv
<1> SUFFICES ASSUME LimitsInit PROVE LimitInv
    OBVIOUS
<1> USE DEF LimitsInit
<1>1. LimitTypes
    BY DEF LimitTypes, NoWindow, NotRefused
<1>2. ASSUME NEW k \in LimitedKeys
      PROVE  KeyHolds(k)
    BY DEF KeyHolds, LogHolds, WindowHolds, RetryHolds
<1> QED  BY <1>1, <1>2 DEF LimitInv

\* One more request in a window that is not over and not full.
LEMMA LogGrows ==
    ASSUME NEW log \in SUBSET Grants, NEW time \in Nat, LogHolds(log, time),
           NEW window \in [count : Nat, resetAt : Nat], window.count \in 1 .. Limit,
           time <= window.resetAt, window.resetAt <= time + WindowMs,
           \A g \in log :
              \/ g.resetAt = window.resetAt /\ g.n < window.count
              \/ g.resetAt + WindowMs <= window.resetAt,
           NEW new, new = [at |-> time, resetAt |-> window.resetAt, n |-> window.count]
    PROVE  /\ log \union {new} \in SUBSET Grants
           /\ LogHolds(log \union {new}, time)
           /\ WindowHolds(window, log \union {new}, time)
<1> USE LimitAssumption
<1>1. /\ new \in Grants /\ new.at = time /\ new.resetAt = window.resetAt
      /\ new.n = window.count /\ window.count \in Nat /\ window.resetAt \in Nat
    BY DEF Grants
<1>2. \A g \in log : g.at \in Nat /\ g.resetAt \in Nat /\ g.n \in Nat
    BY DEF Grants
<1>3. WindowMs \in Nat /\ WindowMs > 0 /\ Limit \in Nat
    OBVIOUS
<1>4. ASSUME NEW g \in log
      PROVE  /\ ~(new.resetAt < g.resetAt)
             /\ g.resetAt < new.resetAt => g.resetAt + WindowMs <= new.resetAt
             /\ g.resetAt = new.resetAt => g.n # new.n
    BY <1>1, <1>2, <1>3
<1>5. LogHolds(log \union {new}, time)
  <2>1. \A g \in log \union {new} :
           /\ g.n \in 1 .. Limit
           /\ g.resetAt <= g.at + WindowMs /\ g.at <= g.resetAt /\ g.at <= time
    BY <1>1, <1>3 DEF LogHolds
  <2>2. \A g, h \in log \union {new} :
           /\ g.resetAt < h.resetAt => g.resetAt + WindowMs <= h.resetAt
           /\ g.resetAt = h.resetAt /\ g.n = h.n => g = h
    BY <1>1, <1>4 DEF LogHolds
  <2> QED  BY <2>1, <2>2 DEF LogHolds
<1>6. WindowHolds(window, log \union {new}, time)
  <2>1. window # NoWindow
    BY DEF NoWindow
  <2> QED  BY <1>1, <1>2, <2>1 DEF WindowHolds
<1> QED  BY <1>1, <1>5, <1>6

LEMMA Granted ==
    ASSUME LimitInv, NEW W \in [LimitedKeys -> [count : Nat, resetAt : Nat]],
           \A j \in LimitedKeys :
              /\ WindowHolds(W[j], allowed[j], limitTime)
              /\ j \in LimitKeys => RetryHolds(retries[j], W[j], limitTime),
           NEW k \in LimitedKeys, NEW window \in [count : Nat, resetAt : Nat],
           window.count \in 1 .. Limit,
           limitTime <= window.resetAt, window.resetAt <= limitTime + WindowMs,
           \A g \in allowed[k] :
              \/ g.resetAt = window.resetAt /\ g.n < window.count
              \/ g.resetAt + WindowMs <= window.resetAt,
           k \in LimitKeys => RetryHolds(retries[k], window, limitTime),
           windows' = [W EXCEPT ![k] = window], LetThrough(k, window)
    PROVE  LimitInv'
<1> DEFINE new == [at |-> limitTime, resetAt |-> window.resetAt, n |-> window.count]
           more == allowed[k] \union {new}
<1>1. /\ limitTime' = limitTime /\ retries' = retries
      /\ allowed' = [allowed EXCEPT ![k] = more]
    BY DEF LetThrough
<1>2. LimitTypes /\ LogHolds(allowed[k], limitTime) /\ allowed[k] \in SUBSET Grants
    BY DEF LimitInv, KeyHolds, LimitTypes
<1> HIDE DEF new
<1>3. /\ more \in SUBSET Grants /\ LogHolds(more, limitTime)
      /\ WindowHolds(window, more, limitTime)
  <2>1. limitTime \in Nat
    BY <1>2 DEF LimitTypes
  <2>2. new = [at |-> limitTime, resetAt |-> window.resetAt, n |-> window.count]
    BY DEF new
  <2> QED  BY <1>2, <2>1, <2>2, LogGrows
<1> HIDE DEF more
<1>4. LimitTypes'
    BY <1>1, <1>2, <1>3 DEF LimitTypes
<1>5. /\ windows'[k] = window /\ allowed'[k] = more
      /\ \A j \in LimitedKeys : j # k => windows'[j] = W[j] /\ allowed'[j] = allowed[j]
    BY <1>1, <1>2 DEF LimitTypes
<1>6. ASSUME NEW j \in LimitedKeys
      PROVE  KeyHolds(j)'
  <2>1. CASE j = k
    BY <1>1, <1>3, <1>5, <2>1 DEF KeyHolds
  <2>2. CASE j # k
    <3>1. LogHolds(allowed[j], limitTime)
      BY DEF LimitInv, KeyHolds
    <3> QED  BY <1>1, <1>5, <2>2, <3>1 DEF KeyHolds
  <2> QED  BY <2>1, <2>2
<1> QED  BY <1>4, <1>6 DEF LimitInv

\* What is swept is over.
LEMMA SweptHolds ==
    ASSUME LimitInv
    PROVE  /\ Swept \in [LimitedKeys -> [count : Nat, resetAt : Nat]]
           /\ \A j \in LimitedKeys :
                 /\ WindowHolds(Swept[j], allowed[j], limitTime)
                 /\ j \in LimitKeys => RetryHolds(retries[j], Swept[j], limitTime)
                 /\ j \in LimitKeys /\ Swept[j] # NoWindow => Swept[j].resetAt > limitTime
<1>1. LimitTypes /\ \A j \in LimitedKeys : KeyHolds(j)
    BY DEF LimitInv
<1>2. Swept \in [LimitedKeys -> [count : Nat, resetAt : Nat]]
    BY <1>1 DEF Swept, LimitTypes, NoWindow
<1>3. ASSUME NEW j \in LimitedKeys
      PROVE  /\ WindowHolds(Swept[j], allowed[j], limitTime)
             /\ j \in LimitKeys => RetryHolds(retries[j], Swept[j], limitTime)
             /\ j \in LimitKeys /\ Swept[j] # NoWindow => Swept[j].resetAt > limitTime
  <2>1. /\ limitTime \in Nat /\ windows[j] \in [count : Nat, resetAt : Nat]
        /\ windows[j].resetAt \in Nat
        /\ retries[j] \in [at : Nat, after : Nat] /\ allowed[j] \in SUBSET Grants
    BY <1>1 DEF LimitTypes
  <2>2. /\ WindowHolds(windows[j], allowed[j], limitTime)
        /\ j \in LimitKeys => RetryHolds(retries[j], windows[j], limitTime)
    BY <1>1 DEF KeyHolds
  <2>3. CASE j \in LimitKeys /\ windows[j].resetAt <= limitTime
    <3>1. Swept[j] = NoWindow
      BY <2>3 DEF Swept
    <3>2. \A g \in allowed[j] : g.resetAt <= limitTime
      <4>1. \A g \in allowed[j] : g.resetAt \in Nat
        BY <2>1 DEF Grants
      <4> QED  BY <2>1, <2>2, <2>3, <4>1, LimitAssumption DEF WindowHolds
    <3>3. RetryHolds(retries[j], NoWindow, limitTime)
      <4>1. CASE retries[j] = NotRefused
        BY <4>1 DEF RetryHolds
      <4>2. CASE retries[j] # NotRefused
        <5>1. /\ retries[j].at \in Nat /\ retries[j].after \in Nat /\ Second \in Nat
              /\ retries[j].at <= limitTime
              /\ retries[j].at # limitTime
          BY <2>1, <2>2, <2>3, <4>2, LimitAssumption DEF RetryHolds
        <5>2. retries[j].after * Second \in Nat
          BY <5>1
        <5> QED  BY <5>1, <5>2 DEF RetryHolds, NoWindow
      <4> QED  BY <4>1, <4>2
    <3> QED  BY <3>1, <3>2, <3>3, <2>3 DEF WindowHolds
  <2>4. CASE ~(j \in LimitKeys /\ windows[j].resetAt <= limitTime)
    <3>1. Swept[j] = windows[j]
      BY <2>4 DEF Swept
    <3> QED  BY <2>1, <2>2, <2>4, <3>1
  <2> QED  BY <2>3, <2>4
<1> QED  BY <1>2, <1>3

\* A window begins after the last one is over.
LEMMA NewWindowHolds ==
    ASSUME NEW log \in SUBSET Grants, NEW window \in [count : Nat, resetAt : Nat],
           NEW retry \in [at : Nat, after : Nat],
           limitTime \in Nat, WindowHolds(window, log, limitTime),
           window = NoWindow \/ window.resetAt <= limitTime
    PROVE  /\ NewWindow \in [count : Nat, resetAt : Nat] /\ NewWindow.count \in 1 .. Limit
           /\ limitTime <= NewWindow.resetAt /\ NewWindow.resetAt <= limitTime + WindowMs
           /\ \A g \in log : g.resetAt + WindowMs <= NewWindow.resetAt
           /\ RetryHolds(retry, window, limitTime) => RetryHolds(retry, NewWindow, limitTime)
<1>1. WindowMs \in Nat /\ WindowMs > 0 /\ Limit \in Nat /\ Limit > 0
    BY LimitAssumption
<1>2. /\ NewWindow \in [count : Nat, resetAt : Nat]
      /\ NewWindow.count = 1 /\ NewWindow.resetAt = limitTime + WindowMs
    BY <1>1 DEF NewWindow
<1>3. ASSUME NEW g \in log
      PROVE  g.resetAt <= limitTime
  <2>1. g.resetAt \in Nat /\ window.resetAt \in Nat
    BY DEF Grants
  <2> QED  BY <1>1, <2>1 DEF WindowHolds
<1>4. \A g \in log : g.resetAt \in Nat
    BY DEF Grants
<1>5. RetryHolds(retry, window, limitTime) => RetryHolds(retry, NewWindow, limitTime)
  <2>1. retry.at \in Nat /\ ~(window.resetAt > limitTime)
    BY DEF NoWindow
  <2> QED  BY <1>1, <1>2, <2>1 DEF RetryHolds
<1> QED  BY <1>1, <1>2, <1>3, <1>4, <1>5

LEMMA CheckRateLimitStep ==
    ASSUME LimitInv, NEW k \in LimitKeys, CheckRateLimit(k)
    PROVE  LimitInv'
<1>1. /\ limitTime \in Nat /\ k \in LimitedKeys /\ allowed[k] \in SUBSET Grants
      /\ retries[k] \in [at : Nat, after : Nat] /\ Swept[k] \in [count : Nat, resetAt : Nat]
    BY SweptHolds DEF LimitInv, LimitTypes, LimitedKeys
<1>2. /\ WindowHolds(Swept[k], allowed[k], limitTime)
      /\ RetryHolds(retries[k], Swept[k], limitTime)
      /\ Swept[k] # NoWindow => Swept[k].resetAt > limitTime
    BY <1>1, SweptHolds
<1>3. CASE WindowOpens(k)
  <2>1. Swept[k] = NoWindow /\ windows' = [Swept EXCEPT ![k] = NewWindow]
        /\ LetThrough(k, NewWindow)
    BY <1>3 DEF WindowOpens
  <2>2. /\ NewWindow \in [count : Nat, resetAt : Nat] /\ NewWindow.count \in 1 .. Limit
        /\ limitTime <= NewWindow.resetAt /\ NewWindow.resetAt <= limitTime + WindowMs
        /\ \A g \in allowed[k] : g.resetAt + WindowMs <= NewWindow.resetAt
        /\ RetryHolds(retries[k], NewWindow, limitTime)
    BY <1>1, <1>2, <2>1, NewWindowHolds
  <2> QED  BY <1>1, <2>1, <2>2, SweptHolds, Granted
<1>4. CASE WindowCounts(k)
  <2> DEFINE next == [Swept[k] EXCEPT !.count = @ + 1]
  <2>1. /\ Swept[k] # NoWindow /\ Swept[k].count < Limit
        /\ windows' = [Swept EXCEPT ![k] = next] /\ LetThrough(k, next)
    BY <1>4 DEF WindowCounts
  <2>2. /\ next \in [count : Nat, resetAt : Nat] /\ next.count = Swept[k].count + 1
        /\ next.resetAt = Swept[k].resetAt
        /\ Swept[k].count \in Nat /\ Swept[k].resetAt \in Nat
    BY <1>1
  <2> HIDE DEF next
  <2>3. next.count \in 1 .. Limit
    BY <2>1, <2>2, LimitAssumption
  <2>4. /\ limitTime <= next.resetAt /\ next.resetAt <= limitTime + WindowMs
        /\ RetryHolds(retries[k], next, limitTime)
    BY <1>1, <1>2, <2>1, <2>2 DEF WindowHolds, RetryHolds
  <2>5. \A g \in allowed[k] :
           \/ g.resetAt = next.resetAt /\ g.n < next.count
           \/ g.resetAt + WindowMs <= next.resetAt
    <3>1. \A g \in allowed[k] : g.n \in Nat
      BY <1>1 DEF Grants
    <3> QED  BY <1>2, <2>1, <2>2, <3>1 DEF WindowHolds
  <2> QED  BY <1>1, <2>1, <2>2, <2>3, <2>4, <2>5, SweptHolds, Granted
<1>5. CASE WindowIsFull(k)
  <2> DEFINE retry == [at |-> limitTime, after |-> RetryAfter(k)]
             left == Swept[k].resetAt - limitTime
  <2>1. /\ Swept[k] # NoWindow /\ windows' = Swept
        /\ retries' = [retries EXCEPT ![k] = retry]
        /\ limitTime' = limitTime /\ allowed' = allowed
    BY <1>5 DEF WindowIsFull
  <2>2. left \in Nat /\ Swept[k].resetAt \in Nat /\ left > 0
    BY <1>1, <1>2, <2>1
  <2>3. RetryAfter(k) = (left + Second - 1) \div Second
    BY DEF RetryAfter
  <2> HIDE DEF left
  <2>4. RetryAfter(k) \in Nat /\ left <= RetryAfter(k) * Second
    BY <2>2, <2>3, CeilEnough, LimitAssumption
  <2>5. retry \in [at : Nat, after : Nat] /\ retry.at = limitTime /\ retry.after = RetryAfter(k)
    BY <1>1, <2>4
  <2> HIDE DEF retry
  <2>6. RetryHolds(retry, Swept[k], limitTime)
    <3>1. RetryAfter(k) * Second \in Nat
      BY <2>4, LimitAssumption
    <3>2. Swept[k].resetAt <= limitTime + RetryAfter(k) * Second
      BY <1>1, <2>2, <2>4, <3>1 DEF left
    <3> QED  BY <1>1, <1>2, <2>1, <2>5, <3>2 DEF RetryHolds
  <2>7. LimitTypes'
    BY <2>1, <2>5, SweptHolds DEF LimitInv, LimitTypes
  <2>8. ASSUME NEW j \in LimitedKeys
        PROVE  KeyHolds(j)'
    <3>1. LogHolds(allowed[j], limitTime)
      BY DEF LimitInv, KeyHolds
    <3>2. retries'[j] = IF j = k THEN retry ELSE retries[j]
      BY <1>1, <2>1 DEF LimitInv, LimitTypes
    <3> QED  BY <2>1, <2>6, <3>1, <3>2, SweptHolds DEF KeyHolds
  <2> QED  BY <2>7, <2>8 DEF LimitInv
<1> QED  BY <1>3, <1>4, <1>5 DEF CheckRateLimit

LEMMA IsRateLimitedStep ==
    ASSUME LimitInv, NEW k \in ChatAddresses, IsRateLimited(k)
    PROVE  LimitInv'
<1>1. /\ limitTime \in Nat /\ k \in LimitedKeys /\ k \notin LimitKeys
      /\ allowed[k] \in SUBSET Grants /\ retries[k] \in [at : Nat, after : Nat]
      /\ windows \in [LimitedKeys -> [count : Nat, resetAt : Nat]]
      /\ windows[k] \in [count : Nat, resetAt : Nat]
    BY LimitAssumption DEF LimitInv, LimitTypes, LimitedKeys
<1>2. \A j \in LimitedKeys :
         /\ WindowHolds(windows[j], allowed[j], limitTime)
         /\ j \in LimitKeys => RetryHolds(retries[j], windows[j], limitTime)
    BY DEF LimitInv, KeyHolds
<1>3. windows[k].count \in Nat /\ windows[k].resetAt \in Nat
    BY <1>1
<1>4. CASE ChatWindowOpens(k)
  <2>1. /\ windows[k] = NoWindow \/ windows[k].resetAt <= limitTime
        /\ windows' = [windows EXCEPT ![k] = NewWindow] /\ LetThrough(k, NewWindow)
    BY <1>1, <1>3, <1>4 DEF ChatWindowOpens, ChatWindowOver
  <2>2. /\ NewWindow \in [count : Nat, resetAt : Nat] /\ NewWindow.count \in 1 .. Limit
        /\ limitTime <= NewWindow.resetAt /\ NewWindow.resetAt <= limitTime + WindowMs
        /\ \A g \in allowed[k] : g.resetAt + WindowMs <= NewWindow.resetAt
    BY <1>1, <1>2, <2>1, NewWindowHolds
  <2> QED  BY <1>1, <1>2, <2>1, <2>2, Granted
<1>5. CASE ChatWindowCounts(k)
  <2> DEFINE more == IF windows[k].count > Limit THEN windows[k].count ELSE windows[k].count + 1
             next == [windows[k] EXCEPT !.count = IF @ > Limit THEN @ ELSE @ + 1]
  <2>1. /\ windows[k] # NoWindow /\ limitTime <= windows[k].resetAt
        /\ windows' = [windows EXCEPT ![k] = next]
        /\ IF next.count > Limit THEN UNCHANGED <<limitTime, retries, allowed>>
           ELSE LetThrough(k, next)
    BY <1>1, <1>3, <1>5 DEF ChatWindowCounts, ChatWindowOver
  <2>2. /\ next \in [count : Nat, resetAt : Nat] /\ next.count = more
        /\ next.resetAt = windows[k].resetAt
    BY <1>1, <1>3, LimitAssumption
  <2> HIDE DEF next
  <2>3. next.count >= 1 /\ windows[k].count <= next.count /\ next.count \in Nat
    BY <1>3, <2>2, LimitAssumption
  <2>4. next.resetAt <= limitTime + WindowMs
    BY <1>1, <1>2, <2>1, <2>2 DEF WindowHolds
  <2>5. \A g \in allowed[k] :
           \/ g.resetAt = next.resetAt /\ g.n <= windows[k].count
           \/ g.resetAt + WindowMs <= next.resetAt
    BY <1>1, <1>2, <2>1, <2>2 DEF WindowHolds
  <2>6. \A g \in allowed[k] : g.n \in Nat
    BY <1>1 DEF Grants
  <2>7. CASE next.count > Limit
    <3>1. LimitTypes'
      BY <1>1, <2>1, <2>2, <2>7 DEF LimitInv, LimitTypes
    <3>2. WindowHolds(next, allowed[k], limitTime)
      <4>1. next # NoWindow
        BY <2>3 DEF NoWindow
      <4> QED  BY <1>3, <2>3, <2>4, <2>5, <2>6, <4>1 DEF WindowHolds
    <3>3. ASSUME NEW j \in LimitedKeys
          PROVE  KeyHolds(j)'
      <4>1. windows'[j] = IF j = k THEN next ELSE windows[j]
        BY <1>1, <2>1
      <4>2. LogHolds(allowed[j], limitTime)
        BY DEF LimitInv, KeyHolds
      <4> QED  BY <1>1, <1>2, <2>1, <2>7, <3>2, <4>1, <4>2 DEF KeyHolds
    <3> QED  BY <3>1, <3>3 DEF LimitInv
  <2>8. CASE ~(next.count > Limit)
    <3>1. next.count \in 1 .. Limit /\ next.count = windows[k].count + 1
      BY <1>3, <2>2, <2>3, <2>8, LimitAssumption
    <3>2. \A g \in allowed[k] :
             \/ g.resetAt = next.resetAt /\ g.n < next.count
             \/ g.resetAt + WindowMs <= next.resetAt
      BY <1>3, <2>5, <2>6, <3>1
    <3> QED  BY <1>1, <1>2, <2>1, <2>2, <2>4, <2>8, <3>1, <3>2, Granted
  <2> QED  BY <2>7, <2>8
<1> QED  BY <1>4, <1>5 DEF IsRateLimited

LEMMA LimitTimeStep ==
    ASSUME LimitInv, LimitTimePasses
    PROVE  LimitInv'
<1>1. limitTime' = limitTime + 1 /\ UNCHANGED <<windows, retries, allowed>>
      /\ limitTime \in Nat
    BY DEF LimitTimePasses, LimitInv, LimitTypes
<1>2. LimitTypes'
    BY <1>1 DEF LimitInv, LimitTypes
<1>3. ASSUME NEW k \in LimitedKeys
      PROVE  KeyHolds(k)'
  <2>1. /\ windows[k].resetAt \in Nat /\ retries[k].at \in Nat
        /\ \A g \in allowed[k] : g.at \in Nat /\ g.resetAt \in Nat
        /\ KeyHolds(k) /\ WindowMs \in Nat
    BY LimitAssumption DEF LimitInv, LimitTypes, Grants
  <2>2. LogHolds(allowed[k], limitTime + 1)
    BY <1>1, <2>1 DEF KeyHolds, LogHolds
  <2>3. WindowHolds(windows[k], allowed[k], limitTime + 1)
    BY <1>1, <2>1 DEF KeyHolds, WindowHolds
  <2>4. k \in LimitKeys => RetryHolds(retries[k], windows[k], limitTime + 1)
    BY <1>1, <2>1 DEF KeyHolds, RetryHolds
  <2> QED  BY <1>1, <2>2, <2>3, <2>4 DEF KeyHolds
<1> QED  BY <1>2, <1>3 DEF LimitInv

LEMMA LimitNext ==
    ASSUME LimitInv, [LimitStep]_limitVars
    PROVE  LimitInv'
<1>1. CASE LimitStep
    BY <1>1, LimitTimeStep, CheckRateLimitStep, IsRateLimitedStep DEF LimitStep
<1>2. CASE UNCHANGED limitVars
  <2>1. UNCHANGED <<limitTime, windows, retries, allowed>>
    BY <1>2 DEF limitVars
  <2> QED  BY <2>1 DEF LimitInv, LimitTypes, KeyHolds
<1> QED  BY <1>1, <1>2

\* No three windows meet a span of their length, and a request has a place of
\* its own in one: the span lets no more through than two windows hold.
LEMMA BurstIsBounded ==
    ASSUME NEW log \in SUBSET Grants, NEW time, LogHolds(log, time), NEW start \in Nat,
           NEW burst, burst = {g \in log : start <= g.at /\ g.at < start + WindowMs}
    PROVE  Cardinality(burst) <= 2 * Limit
<1> DEFINE place == [g \in burst |-> IF g.resetAt < start + WindowMs THEN g.n ELSE Limit + g.n]
<1>1. WindowMs \in Nat /\ WindowMs > 0 /\ Limit \in Nat
    BY LimitAssumption
<1>2. ASSUME NEW g \in burst
      PROVE  /\ g \in log /\ g.n \in 1 .. Limit /\ g.resetAt \in Nat /\ g.at \in Nat
             /\ start <= g.resetAt /\ g.resetAt < start + WindowMs + WindowMs
  <2>1. /\ g \in log /\ g.at \in Nat /\ g.resetAt \in Nat
        /\ start <= g.at /\ g.at < start + WindowMs
    BY DEF Grants
  <2>2. g.n \in 1 .. Limit /\ g.resetAt <= g.at + WindowMs /\ g.at <= g.resetAt
    BY <2>1 DEF LogHolds
  <2> QED  BY <1>1, <2>1, <2>2
<1>3. place \in [burst -> 1 .. 2 * Limit]
    BY <1>1, <1>2
<1>4. ASSUME NEW g \in burst, NEW h \in burst, place[g] = place[h]
      PROVE  g = h
  <2>1. /\ g.n \in 1 .. Limit /\ h.n \in 1 .. Limit
        /\ g.resetAt \in Nat /\ h.resetAt \in Nat
        /\ start <= g.resetAt /\ g.resetAt < start + WindowMs + WindowMs
        /\ start <= h.resetAt /\ h.resetAt < start + WindowMs + WindowMs
        /\ g \in log /\ h \in log
    BY <1>2
  <2>2. /\ place[g] = IF g.resetAt < start + WindowMs THEN g.n ELSE Limit + g.n
        /\ place[h] = IF h.resetAt < start + WindowMs THEN h.n ELSE Limit + h.n
        /\ place[g] = place[h]
    BY <1>4
  <2> HIDE DEF place
  <2>3. g.n = h.n /\ (g.resetAt < start + WindowMs <=> h.resetAt < start + WindowMs)
    <3>1. /\ g.n \in Nat /\ 1 <= g.n /\ g.n <= Limit
          /\ h.n \in Nat /\ 1 <= h.n /\ h.n <= Limit
      BY <1>1, <2>1
    <3>2. CASE g.resetAt < start + WindowMs
      BY <1>1, <2>2, <3>1, <3>2
    <3>3. CASE ~(g.resetAt < start + WindowMs)
      BY <1>1, <2>2, <3>1, <3>3
    <3> QED  BY <3>2, <3>3
  <2>4. /\ g.resetAt < h.resetAt => g.resetAt + WindowMs <= h.resetAt
        /\ h.resetAt < g.resetAt => h.resetAt + WindowMs <= g.resetAt
        /\ g.resetAt = h.resetAt /\ g.n = h.n => g = h
    BY <2>1 DEF LogHolds
  <2> QED  BY <1>1, <2>1, <2>3, <2>4
<1> HIDE DEF place
<1>5. place \in Injection(burst, 1 .. 2 * Limit)
    BY <1>3, <1>4 DEF Injection, IsInjective
<1>6. /\ 2 * Limit \in Int /\ 1 \in Int
      /\ (IF 1 > 2 * Limit THEN 0 ELSE 2 * Limit - 1 + 1) = 2 * Limit
    BY <1>1
<1>7. IsFiniteSet(1 .. 2 * Limit) /\ Cardinality(1 .. 2 * Limit) = 2 * Limit
    BY <1>6, FS_Interval
<1> QED  BY <1>5, <1>7, FS_Injection

LEMMA LimitInvImplies == LimitInv => WithinLimit
<1> SUFFICES ASSUME LimitInv PROVE WithinLimit
    OBVIOUS
<1>1. TwiceTheLimit
  <2>1. ASSUME NEW k \in LimitedKeys, NEW start \in 0 .. MaxTime
        PROVE  Cardinality(During(k, start)) <= 2 * Limit
    <3>1. allowed[k] \in SUBSET Grants /\ LogHolds(allowed[k], limitTime) /\ start \in Nat
      BY DEF LimitInv, LimitTypes, KeyHolds
    <3> QED  BY <3>1, BurstIsBounded DEF During
  <2> QED  BY <2>1 DEF TwiceTheLimit
<1>2. RetryIsEnough
  <2>1. \A k \in LimitKeys : RetryHolds(retries[k], windows[k], limitTime)
    BY DEF LimitInv, KeyHolds, LimitedKeys
  <2> QED  BY <2>1 DEF RetryIsEnough, RetryHolds
<1> QED  BY <1>1, <1>2 DEF WithinLimit

\* The strengthened invariant of the two rate limiters.
THEOREM LimitInvariance == LimitSpec => []LimitInv
BY LimitStart, LimitNext, PTL DEF LimitSpec

\* No span of a window's length lets more than twice the limit through, and
\* Retry-After is long enough (checkRateLimit, isRateLimited).
THEOREM LimitsStand == LimitSpec => []WithinLimit
BY LimitInvariance, LimitInvImplies, PTL

-------------------------------------------------------------------------------
(***************************************************************************)
(* The order of versions.                                                  *)
(***************************************************************************)

Letters == [num : BOOLEAN, at : Int]

FirstApart(a, b, i) ==
    /\ i \in Nat \ {0}
    /\ Letter(a, i) # Letter(b, i)
    /\ \A j \in 1 .. i - 1 : Letter(a, j) = Letter(b, j)

LEMMA LeastOfNaturals ==
    ASSUME NEW S, S \subseteq Nat, S # {}
    PROVE  Min(S) \in S /\ \A y \in S : Min(S) <= y
    BY SomeLeast DEF Min

LEMMA LetterOrder ==
    ASSUME NEW x \in Letters, NEW y \in Letters, x # y
    PROVE  /\ CompareIdentifiers(x, y) \in Int \ {0}
           /\ CompareIdentifiers(x, y) > 0 <=> CompareIdentifiers(y, x) < 0
           /\ \A z \in Letters :
                 z # y /\ CompareIdentifiers(x, y) > 0 /\ CompareIdentifiers(y, z) > 0 =>
                   x # z /\ CompareIdentifiers(x, z) > 0
<1>1. x.num # y.num \/ x.at # y.at
    BY DEF Letters
<1>2. /\ x.num \in BOOLEAN /\ y.num \in BOOLEAN /\ x.at \in Int /\ y.at \in Int
    BY DEF Letters
<1>3. CompareIdentifiers(x, y) \in Int \ {0}
    BY <1>1, <1>2 DEF CompareIdentifiers
<1>4. CompareIdentifiers(x, y) > 0 <=> CompareIdentifiers(y, x) < 0
    BY <1>1, <1>2 DEF CompareIdentifiers
<1>5. ASSUME NEW z \in Letters, z # y,
             CompareIdentifiers(x, y) > 0, CompareIdentifiers(y, z) > 0
      PROVE  x # z /\ CompareIdentifiers(x, z) > 0
  <2>1. z.num # y.num \/ z.at # y.at
    BY <1>5 DEF Letters
  <2>2. z.num \in BOOLEAN /\ z.at \in Int
    BY DEF Letters
  <2> QED  BY <1>1, <1>2, <1>5, <2>1, <2>2 DEF CompareIdentifiers
<1> QED  BY <1>3, <1>4, <1>5

LEMMA LetterType ==
    ASSUME NEW v \in SemanticVersions, NEW i \in Nat \ {0}
    PROVE  Letter(v, i) \in Letters
<1>1. v.core \in [1 .. 3 -> Nat] /\ v.pre \in Seq(Identifiers)
    BY DEF SemanticVersions
<1>2. CASE i <= 3
  <2>1. v.core[i] \in Int
    BY <1>1, <1>2
  <2> QED  BY <1>2, <2>1 DEF Letter, NumberLetter, Letters
<1>3. CASE i = 4
    BY <1>3 DEF Letter, NumberLetter, Letters
<1>4. CASE i > 4
  <2> DEFINE k == i - 4
  <2>1. k \in Nat \ {0} /\ Letter(v, i) = PreLetter(v.pre, k)
    BY <1>4 DEF Letter
  <2> HIDE DEF k
  <2>2. CASE k <= Len(v.pre)
    <3>1. v.pre[k] \in Identifiers
      BY <1>1, <2>1, <2>2
    <3> QED  BY <2>1, <2>2, <3>1 DEF PreLetter, Identifiers, Letters
  <2>3. CASE ~ (k <= Len(v.pre))
    BY <2>1, <2>3 DEF PreLetter, NumberLetter, Letters
  <2> QED  BY <2>2, <2>3
<1> QED  BY <1>2, <1>3, <1>4

LEMMA EndIsLowest ==
    ASSUME NEW x \in Identifiers
    PROVE  LET end == NumberLetter(-1)
           IN  /\ CompareIdentifiers(end, x) \in Int /\ CompareIdentifiers(end, x) < 0
               /\ CompareIdentifiers(x, end) \in Int /\ CompareIdentifiers(x, end) > 0
               /\ end # x
<1>1. x.num \in BOOLEAN /\ x.at \in Nat
    BY DEF Identifiers
<1>2. NumberLetter(-1).num = TRUE /\ NumberLetter(-1).at = -1
    BY DEF NumberLetter
<1>3. NumberLetter(-1) # x
    BY <1>1, <1>2
<1>4. CompareIdentifiers(NumberLetter(-1), x) = IF x.num THEN -1 - x.at ELSE -1
    BY <1>1, <1>2 DEF CompareIdentifiers
<1>5. CompareIdentifiers(x, NumberLetter(-1)) = IF x.num THEN x.at - (-1) ELSE 1
    BY <1>1, <1>2 DEF CompareIdentifiers
<1> QED  BY <1>1, <1>3, <1>4, <1>5

\* What the loop over the identifiers of two prereleases compares.
LEMMA PrereleasesApart ==
    ASSUME NEW p \in Seq(Identifiers), NEW q \in Seq(Identifiers), p # q
    PROVE  \E k \in Nat \ {0} :
              /\ PreLetter(p, k) # PreLetter(q, k)
              /\ \A j \in 1 .. k - 1 : PreLetter(p, j) = PreLetter(q, j)
              /\ LET c == CompareIdentifiers(PreLetter(p, k), PreLetter(q, k))
                     d == ComparePrereleases(p, q)
                 IN  d \in Int /\ (d > 0 <=> c > 0) /\ (d < 0 <=> c < 0)
<1> DEFINE m == Max({Len(p), Len(q)})
           Differ == {i \in 1 .. m : i > Len(p) \/ i > Len(q) \/ p[i] # q[i]}
           k == Min(Differ)
<1>1. Len(p) \in Nat /\ Len(q) \in Nat
    OBVIOUS
<1>2. m \in Nat /\ m >= Len(p) /\ m >= Len(q) /\ m \in {Len(p), Len(q)}
  <2>1. \E n \in {Len(p), Len(q)} : \A l \in {Len(p), Len(q)} : n >= l
    BY <1>1
  <2> QED  BY <1>1, <2>1 DEF Max
<1> HIDE DEF m
<1>3. Differ # {}
  <2>1. CASE Len(p) # Len(q)
    <3>1. m \in Differ
      BY <1>1, <1>2, <2>1
    <3> QED  BY <3>1
  <2>2. CASE Len(p) = Len(q)
    <3>1. PICK i \in 1 .. Len(p) : p[i] # q[i]
      BY <2>2, SeqEqual
    <3> QED  BY <1>1, <1>2, <3>1
  <2> QED  BY <2>1, <2>2
<1>4. k \in Differ /\ \A j \in Differ : k <= j
  <2>1. Differ \subseteq Nat
    BY <1>2
  <2> HIDE DEF Differ
  <2> QED  BY <1>3, <2>1, LeastOfNaturals
<1>5. k \in 1 .. m /\ (k > Len(p) \/ k > Len(q) \/ p[k] # q[k])
    BY <1>4
<1>6. ASSUME NEW j \in 1 .. k - 1
      PROVE  j <= Len(p) /\ j <= Len(q) /\ p[j] = q[j]
    BY <1>1, <1>2, <1>4, <1>5
<1>7. ComparePrereleases(p, q) =
        IF k > Len(p) THEN -1 ELSE IF k > Len(q) THEN 1 ELSE CompareIdentifiers(p[k], q[k])
    BY <1>3 DEF ComparePrereleases, m
<1> HIDE DEF k, Differ
<1>8. \A i \in 1 .. Len(p) : p[i] \in Identifiers
    OBVIOUS
<1>9. \A i \in 1 .. Len(q) : q[i] \in Identifiers
    OBVIOUS
<1>10. \A j \in 1 .. k - 1 : PreLetter(p, j) = PreLetter(q, j)
    BY <1>6 DEF PreLetter
<1>11. CASE k > Len(p)
  <2>1. k \in 1 .. Len(q)
    BY <1>1, <1>2, <1>5, <1>11
  <2>2. PreLetter(p, k) = NumberLetter(-1) /\ PreLetter(q, k) = q[k]
    BY <1>1, <1>11, <2>1 DEF PreLetter
  <2>3. /\ CompareIdentifiers(NumberLetter(-1), q[k]) \in Int
        /\ CompareIdentifiers(NumberLetter(-1), q[k]) < 0
        /\ NumberLetter(-1) # q[k]
    BY <1>9, <2>1, EndIsLowest
  <2> QED  BY <1>5, <1>7, <1>10, <1>11, <2>2, <2>3
<1>12. CASE k > Len(q) /\ ~ (k > Len(p))
  <2>1. k \in 1 .. Len(p)
    BY <1>1, <1>2, <1>5, <1>12
  <2>2. PreLetter(q, k) = NumberLetter(-1) /\ PreLetter(p, k) = p[k]
    BY <1>1, <1>12, <2>1 DEF PreLetter
  <2>3. /\ CompareIdentifiers(p[k], NumberLetter(-1)) \in Int
        /\ CompareIdentifiers(p[k], NumberLetter(-1)) > 0
        /\ NumberLetter(-1) # p[k]
    BY <1>8, <2>1, EndIsLowest
  <2> QED  BY <1>5, <1>7, <1>10, <1>12, <2>2, <2>3
<1>13. CASE ~ (k > Len(p)) /\ ~ (k > Len(q))
  <2>1. k \in 1 .. Len(p) /\ k \in 1 .. Len(q)
    BY <1>1, <1>5, <1>13
  <2>2. PreLetter(p, k) = p[k] /\ PreLetter(q, k) = q[k] /\ p[k] # q[k]
    BY <1>5, <1>13, <2>1 DEF PreLetter
  <2>3. CompareIdentifiers(p[k], q[k]) \in Int
    <3>1. p[k] \in Identifiers /\ q[k] \in Identifiers
      BY <1>8, <1>9, <2>1
    <3>2. p[k].at \in Int /\ q[k].at \in Int
      BY <3>1 DEF Identifiers
    <3> QED  BY <3>2 DEF CompareIdentifiers
  <2> QED  BY <1>5, <1>7, <1>10, <1>13, <2>2, <2>3
<1> QED  BY <1>11, <1>12, <1>13

\* compareSemver tells the first letter in which two versions differ.
LEMMA VersionsApart ==
    ASSUME NEW a \in SemanticVersions, NEW b \in SemanticVersions, a # b
    PROVE  \E i : /\ FirstApart(a, b, i)
                  /\ LET c == CompareIdentifiers(Letter(a, i), Letter(b, i))
                         d == CompareSemver(a, b)
                     IN  d \in Int /\ (d > 0 <=> c > 0) /\ (d < 0 <=> c < 0)
<1> DEFINE Differ == {i \in 1 .. 3 : a.core[i] # b.core[i]}
<1>1. /\ a.core \in [1 .. 3 -> Nat] /\ b.core \in [1 .. 3 -> Nat]
      /\ a.pre \in Seq(Identifiers) /\ b.pre \in Seq(Identifiers)
      /\ a.core # b.core \/ a.pre # b.pre
    BY DEF SemanticVersions
<1>2. CASE Differ # {}
  <2> DEFINE i == Min(Differ)
  <2>1. i \in Differ /\ \A j \in Differ : i <= j
    BY <1>2, LeastOfNaturals
  <2>2. CompareSemver(a, b) = a.core[i] - b.core[i]
    BY <1>2 DEF CompareSemver
  <2>3. i \in 1 .. 3 /\ a.core[i] # b.core[i]
    BY <2>1
  <2>4. \A j \in 1 .. i - 1 : j \in 1 .. 3 /\ a.core[j] = b.core[j]
    BY <2>1, <2>3
  <2> HIDE DEF i, Differ
  <2>5. /\ Letter(a, i) = NumberLetter(a.core[i]) /\ Letter(b, i) = NumberLetter(b.core[i])
        /\ \A j \in 1 .. i - 1 : Letter(a, j) = Letter(b, j)
    BY <2>3, <2>4 DEF Letter
  <2>6. a.core[i] \in Nat /\ b.core[i] \in Nat
    BY <1>1, <2>3
  <2>7. Letter(a, i) # Letter(b, i)
    BY <2>3, <2>5 DEF NumberLetter
  <2>8. CompareIdentifiers(Letter(a, i), Letter(b, i)) = a.core[i] - b.core[i]
    BY <2>5 DEF CompareIdentifiers, NumberLetter
  <2> QED  BY <2>2, <2>3, <2>5, <2>6, <2>7, <2>8 DEF FirstApart
<1>3. CASE Differ = {}
  <2>1. a.core = b.core
    BY <1>1, <1>3
  <2>2. a.pre # b.pre
    BY <1>1, <2>1
  <2>3. \A j \in 1 .. 3 : Letter(a, j) = Letter(b, j)
    BY <2>1 DEF Letter
  <2>4. CompareSemver(a, b) =
          IF a.pre = <<>> \/ b.pre = <<>>
          THEN (IF a.pre = b.pre THEN 0 ELSE IF a.pre # <<>> THEN -1 ELSE 1)
          ELSE ComparePrereleases(a.pre, b.pre)
    BY <1>3 DEF CompareSemver
  <2>5. CASE a.pre = <<>> \/ b.pre = <<>>
    <3>1. /\ Letter(a, 4) = NumberLetter(IF a.pre = <<>> THEN 1 ELSE 0)
          /\ Letter(b, 4) = NumberLetter(IF b.pre = <<>> THEN 1 ELSE 0)
      BY DEF Letter
    <3>2. Letter(a, 4) # Letter(b, 4)
      BY <2>2, <2>5, <3>1 DEF NumberLetter
    <3>3. FirstApart(a, b, 4)
      BY <2>3, <3>2 DEF FirstApart
    <3>4. CompareIdentifiers(Letter(a, 4), Letter(b, 4)) = CompareSemver(a, b)
      BY <2>2, <2>4, <2>5, <3>1 DEF NumberLetter, CompareIdentifiers
    <3>5. CompareSemver(a, b) \in Int
      BY <2>4, <2>5
    <3> QED  BY <3>3, <3>4, <3>5
  <2>6. CASE a.pre # <<>> /\ b.pre # <<>>
    <3>1. PICK k \in Nat \ {0} :
             /\ PreLetter(a.pre, k) # PreLetter(b.pre, k)
             /\ \A j \in 1 .. k - 1 : PreLetter(a.pre, j) = PreLetter(b.pre, j)
             /\ LET c == CompareIdentifiers(PreLetter(a.pre, k), PreLetter(b.pre, k))
                    d == ComparePrereleases(a.pre, b.pre)
                IN  d \in Int /\ (d > 0 <=> c > 0) /\ (d < 0 <=> c < 0)
      BY <1>1, <2>2, PrereleasesApart
    <3> DEFINE i == k + 4
    <3>2. /\ Letter(a, i) = PreLetter(a.pre, k) /\ Letter(b, i) = PreLetter(b.pre, k)
      <4>1. i \in Nat /\ ~ (i <= 3) /\ i # 4 /\ i - 4 = k
        OBVIOUS
      <4> HIDE DEF i
      <4> QED  BY <4>1 DEF Letter
    <3>3. ASSUME NEW j \in 1 .. i - 1
          PROVE  Letter(a, j) = Letter(b, j)
      <4>1. CASE j <= 3
        BY <2>3, <4>1
      <4>2. CASE j = 4
        BY <2>6, <4>2 DEF Letter
      <4>3. CASE j > 4
        <5> DEFINE l == j - 4
        <5>1. l \in 1 .. k - 1 /\ Letter(a, j) = PreLetter(a.pre, l) /\ Letter(b, j) = PreLetter(b.pre, l)
          BY <4>3 DEF Letter
        <5> HIDE DEF l
        <5> QED  BY <3>1, <5>1
      <4> QED  BY <4>1, <4>2, <4>3
    <3>4. FirstApart(a, b, i)
      BY <3>1, <3>2, <3>3 DEF FirstApart
    <3> HIDE DEF i
    <3>5. CompareSemver(a, b) = ComparePrereleases(a.pre, b.pre)
      BY <2>4, <2>6
    <3> QED  BY <3>1, <3>2, <3>4, <3>5
  <2> QED  BY <2>5, <2>6
<1> QED  BY <1>2, <1>3

\* There is one such letter, whatever the order of the two.
LEMMA ApartOnce ==
    ASSUME NEW a, NEW b, NEW i, NEW k, FirstApart(a, b, i), FirstApart(b, a, k)
    PROVE  i = k
<1>1. i \in Nat \ {0} /\ k \in Nat \ {0} /\ ~ (i < k) /\ ~ (k < i)
    BY DEF FirstApart
<1> QED  BY <1>1

\* compareSemver orders the versions: it tells two versions apart whenever
\* they differ, says the opposite of its arguments swapped, and is transitive.
\* The reduce over the rows of a package is the newest because of it.
THEOREM VersionOrder ==
    ASSUME NEW a \in SemanticVersions, NEW b \in SemanticVersions, NEW c \in SemanticVersions
    PROVE  /\ CompareSemver(a, b) = 0 <=> a = b
           /\ CompareSemver(a, b) > 0 <=> CompareSemver(b, a) < 0
           /\ CompareSemver(a, b) > 0 /\ CompareSemver(b, c) > 0 => CompareSemver(a, c) > 0
<1> DEFINE Tells(u, v, i) ==
             /\ FirstApart(u, v, i)
             /\ CompareSemver(u, v) \in Int
             /\ CompareSemver(u, v) > 0 <=> CompareIdentifiers(Letter(u, i), Letter(v, i)) > 0
             /\ CompareSemver(u, v) < 0 <=> CompareIdentifiers(Letter(u, i), Letter(v, i)) < 0
<1>1. \A u, v \in SemanticVersions : u # v => \E i : Tells(u, v, i)
    BY VersionsApart
<1>2. ASSUME NEW u \in SemanticVersions
      PROVE  CompareSemver(u, u) = 0
  <2>1. {i \in 1 .. 3 : u.core[i] # u.core[i]} = {}
    OBVIOUS
  <2>2. ComparePrereleases(u.pre, u.pre) = 0
    <3>1. Len(u.pre) \in Nat
      BY DEF SemanticVersions
    <3>2. Max({Len(u.pre), Len(u.pre)}) = Len(u.pre)
      BY <3>1 DEF Max
    <3>3. {i \in 1 .. Len(u.pre) : i > Len(u.pre) \/ i > Len(u.pre) \/ u.pre[i] # u.pre[i]} = {}
      BY <3>1
    <3> QED  BY <3>2, <3>3 DEF ComparePrereleases
  <2> QED  BY <2>1, <2>2 DEF CompareSemver
<1>3. ASSUME NEW u \in SemanticVersions, NEW v \in SemanticVersions, NEW i, Tells(u, v, i)
      PROVE  /\ Letter(u, i) \in Letters /\ Letter(v, i) \in Letters
             /\ Letter(u, i) # Letter(v, i)
    BY <1>3, LetterType DEF FirstApart
<1>4. ASSUME NEW u \in SemanticVersions, NEW v \in SemanticVersions, u # v
      PROVE  CompareSemver(u, v) # 0
  <2>1. PICK i : Tells(u, v, i)
    BY <1>1, <1>4
  <2>2. CompareIdentifiers(Letter(u, i), Letter(v, i)) \in Int \ {0}
    BY <1>3, <2>1, LetterOrder
  <2> QED  BY <2>1, <2>2
<1>5. ASSUME NEW u \in SemanticVersions, NEW v \in SemanticVersions
      PROVE  CompareSemver(u, v) > 0 <=> CompareSemver(v, u) < 0
  <2>1. CASE u = v
    BY <1>2, <2>1
  <2>2. CASE u # v
    <3>1. PICK i : Tells(u, v, i)
      BY <1>1, <2>2
    <3>2. PICK k : Tells(v, u, k)
      BY <1>1, <2>2
    <3>3. i = k
      BY <3>1, <3>2, ApartOnce
    <3> QED  BY <1>3, <3>1, <3>2, <3>3, LetterOrder
  <2> QED  BY <2>1, <2>2
<1>6. ASSUME CompareSemver(a, b) > 0, CompareSemver(b, c) > 0
      PROVE  CompareSemver(a, c) > 0
  <2>1. a # b /\ b # c
    BY <1>2, <1>6
  <2>2. PICK i : Tells(a, b, i)
    BY <1>1, <2>1
  <2>3. PICK k : Tells(b, c, k)
    BY <1>1, <2>1
  <2>4. /\ i \in Nat \ {0} /\ \A j \in 1 .. i - 1 : Letter(a, j) = Letter(b, j)
        /\ k \in Nat \ {0} /\ \A j \in 1 .. k - 1 : Letter(b, j) = Letter(c, j)
        /\ Letter(a, i) # Letter(b, i) /\ Letter(b, k) # Letter(c, k)
    BY <2>2, <2>3 DEF FirstApart
  <2>5. CompareIdentifiers(Letter(a, i), Letter(b, i)) > 0
        /\ CompareIdentifiers(Letter(b, k), Letter(c, k)) > 0
    BY <1>6, <2>2, <2>3
  <2>6. \E l : FirstApart(a, c, l) /\ CompareIdentifiers(Letter(a, l), Letter(c, l)) > 0
    <3>1. CASE i < k
      <4>1. Letter(b, i) = Letter(c, i) /\ \A j \in 1 .. i - 1 : Letter(a, j) = Letter(c, j)
        BY <2>4, <3>1
      <4> QED  BY <2>4, <2>5, <4>1 DEF FirstApart
    <3>2. CASE k < i
      <4>1. Letter(b, k) = Letter(a, k) /\ \A j \in 1 .. k - 1 : Letter(a, j) = Letter(c, j)
        BY <2>4, <3>2
      <4> QED  BY <2>4, <2>5, <4>1 DEF FirstApart
    <3>3. CASE i = k
      <4>1. \A j \in 1 .. i - 1 : Letter(a, j) = Letter(c, j)
        BY <2>4, <3>3
      <4>2. Letter(a, i) \in Letters /\ Letter(b, i) \in Letters /\ Letter(c, i) \in Letters
        BY <2>4, LetterType
      <4>3. Letter(a, i) # Letter(c, i) /\ CompareIdentifiers(Letter(a, i), Letter(c, i)) > 0
        BY <2>4, <2>5, <3>3, <4>2, LetterOrder
      <4> QED  BY <2>4, <4>1, <4>3 DEF FirstApart
    <3> QED  BY <2>4, <3>1, <3>2, <3>3
  <2>7. PICK l : FirstApart(a, c, l) /\ CompareIdentifiers(Letter(a, l), Letter(c, l)) > 0
    BY <2>6
  <2>8. a # c
    BY <2>7 DEF FirstApart
  <2>9. PICK n : Tells(a, c, n)
    BY <1>1, <2>8
  <2>10. l = n
    <3>1. FirstApart(c, a, n)
      BY <2>9 DEF FirstApart
    <3> QED  BY <2>7, <3>1, ApartOnce
  <2> QED  BY <2>7, <2>9, <2>10
<1> QED  BY <1>2, <1>4, <1>5, <1>6

\* What is older than the newest so far is older than what replaces it.
LEMMA NewerThanNewer ==
    ASSUME NEW a \in SemanticVersions, NEW b \in SemanticVersions, NEW c \in SemanticVersions,
           ~ (CompareSemver(a, b) > 0), CompareSemver(c, b) > 0
    PROVE  ~ (CompareSemver(a, c) > 0)
BY VersionOrder

LEMMA BelowIsLess ==
    ASSUME NEW x \in Letters, NEW y \in Letters
    PROVE  LetterBelow(x, y) <=> x # y /\ CompareIdentifiers(x, y) < 0
<1>1. x # y <=> x.num # y.num \/ x.at # y.at
    BY DEF Letters
<1>2. x.num \in BOOLEAN /\ y.num \in BOOLEAN /\ x.at \in Int /\ y.at \in Int
    BY DEF Letters
<1> QED  BY <1>1, <1>2 DEF LetterBelow, CompareIdentifiers

LEMMA BeyondBoth ==
    ASSUME NEW p \in Nat, NEW q \in Nat, NEW i \in Nat \ {0}
    PROVE  /\ ~ (i <= 4 + p + q) => i - 4 \in Nat \ {0} /\ ~ (i - 4 <= p) /\ ~ (i - 4 <= q)
           /\ i <= 4 + p + q => i \in 1 .. 4 + p + q
OBVIOUS

\* compareSemver is the order of semver.org.
LEMMA OlderIsLess ==
    ASSUME NEW a \in SemanticVersions, NEW b \in SemanticVersions
    PROVE  Older(a, b) <=> CompareSemver(a, b) < 0
<1>0. Len(a.pre) \in Nat /\ Len(b.pre) \in Nat
    BY DEF SemanticVersions
<1> DEFINE Tells(i) ==
             /\ FirstApart(a, b, i)
             /\ CompareSemver(a, b) < 0 <=> CompareIdentifiers(Letter(a, i), Letter(b, i)) < 0
<1>1. a # b => \E i : Tells(i)
    BY VersionsApart
<1>2. ASSUME NEW i \in Nat \ {0}
      PROVE  LetterBelow(Letter(a, i), Letter(b, i)) <=>
                /\ Letter(a, i) # Letter(b, i)
                /\ CompareIdentifiers(Letter(a, i), Letter(b, i)) < 0
    BY LetterType, BelowIsLess
<1>3. ASSUME Older(a, b) PROVE CompareSemver(a, b) < 0
  <2>1. PICK i \in Nat \ {0} : /\ \A j \in 1 .. i - 1 : Letter(a, j) = Letter(b, j)
                               /\ LetterBelow(Letter(a, i), Letter(b, i))
    BY <1>0, <1>3 DEF Older
  <2>2. FirstApart(a, b, i)
    BY <1>2, <2>1 DEF FirstApart
  <2>3. a # b
    BY <2>2 DEF FirstApart
  <2>4. PICK k : Tells(k)
    BY <1>1, <2>3
  <2>5. FirstApart(b, a, k)
    BY <2>4 DEF FirstApart
  <2>6. i = k
    BY <2>2, <2>5, ApartOnce
  <2> QED  BY <1>2, <2>1, <2>4, <2>6
<1>4. ASSUME CompareSemver(a, b) < 0 PROVE Older(a, b)
  <2>1. a # b
    BY <1>4, VersionOrder
  <2>2. PICK i : Tells(i)
    BY <1>1, <2>1
  <2>3. /\ i \in Nat \ {0} /\ Letter(a, i) # Letter(b, i)
        /\ \A j \in 1 .. i - 1 : Letter(a, j) = Letter(b, j)
    BY <2>2 DEF FirstApart
  <2>4. LetterBelow(Letter(a, i), Letter(b, i))
    BY <1>2, <1>4, <2>2, <2>3
  <2>5. CASE ~ (i <= 4 + Len(a.pre) + Len(b.pre))
    <3> DEFINE k == i - 4
    <3>1. k \in Nat \ {0} /\ ~ (k <= Len(a.pre)) /\ ~ (k <= Len(b.pre))
      BY <1>0, <2>3, <2>5, BeyondBoth
    <3>2. Letter(a, i) = PreLetter(a.pre, k) /\ Letter(b, i) = PreLetter(b.pre, k)
      BY <2>3, <3>1 DEF Letter
    <3> HIDE DEF k
    <3> QED  BY <2>3, <3>1, <3>2 DEF PreLetter
  <2>6. CASE i <= 4 + Len(a.pre) + Len(b.pre)
    <3>1. i \in 1 .. 4 + Len(a.pre) + Len(b.pre)
      BY <1>0, <2>3, <2>6, BeyondBoth
    <3>2. \E j \in 1 .. 4 + Len(a.pre) + Len(b.pre) :
             /\ \A l \in 1 .. j - 1 : Letter(a, l) = Letter(b, l)
             /\ LetterBelow(Letter(a, j), Letter(b, j))
      <4> WITNESS i \in 1 .. 4 + Len(a.pre) + Len(b.pre)
      <4> QED  BY <2>3, <2>4
    <3> QED  BY <3>2 DEF Older
  <2> QED  BY <2>5, <2>6
<1> QED  BY <1>3, <1>4

\* The prefixes of a reduce: a function that is its own next step exists.
LEMMA ReduceExists ==
    ASSUME NEW rows, NEW noRow, NEW N \in Nat
    PROVE  \E f : f = [i \in 0 .. N |-> IF i = 0 THEN noRow
                                        ELSE Later(f[i - 1], rows[i], noRow)]
<1> DEFINE Is(f, n) == f = [i \in 0 .. n |-> IF i = 0 THEN noRow
                                             ELSE Later(f[i - 1], rows[i], noRow)]
           T == {n \in Nat : ~ \E f : Is(f, n)}
<1>1. SUFFICES ASSUME T # {} PROVE FALSE
    OBVIOUS
<1>2. PICK k \in T : \A j \in T : k <= j
    BY <1>1, SomeLeast
<1>3. k \in Nat \ {0}
  <2>1. Is([i \in 0 .. 0 |-> noRow], 0)
    OBVIOUS
  <2> QED  BY <1>2, <2>1
<1>4. PICK f : Is(f, k - 1)
  <2>1. k - 1 \in Nat /\ k - 1 \notin T
    <3> HIDE DEF T
    <3> QED  BY <1>2, <1>3
  <2> HIDE DEF Is
  <2> QED  BY <2>1
<1> DEFINE g == [i \in 0 .. k |-> IF i = k THEN Later(f[k - 1], rows[k], noRow) ELSE f[i]]
<1>5. ASSUME NEW i \in 0 .. k
      PROVE  g[i] = IF i = 0 THEN noRow ELSE Later(g[i - 1], rows[i], noRow)
  <2>1. CASE i = k
    BY <1>3, <2>1
  <2>2. CASE i # k
    <3>1. i \in 0 .. k - 1 /\ g[i] = f[i] /\ (i # 0 => g[i - 1] = f[i - 1])
      BY <1>3, <2>2
    <3>2. f[i] = IF i = 0 THEN noRow ELSE Later(f[i - 1], rows[i], noRow)
      BY <1>4, <3>1
    <3> QED  BY <3>1, <3>2
  <2> QED  BY <2>1, <2>2
<1>6. g = [i \in 0 .. k |-> g[i]]
    OBVIOUS
<1> HIDE DEF g
<1>7. Is(g, k)
    BY <1>5, <1>6
<1> QED  BY <1>2, <1>7

\* The reduce over the rows of a package ends at one of them, and none is newer.
LEMMA NewestOfRows ==
    ASSUME NEW rows \in Seq(Rows), rows # <<>>
    PROVE  /\ \E j \in DOMAIN rows : NewestOf(rows, NoRow) = rows[j]
           /\ \A j \in DOMAIN rows :
                 ~ (CompareSemver(rows[j].version, NewestOf(rows, NoRow).version) > 0)
<1> DEFINE N == Len(rows)
           Is(f) == f = [i \in 0 .. N |-> IF i = 0 THEN NoRow
                                          ELSE Later(f[i - 1], rows[i], NoRow)]
           F == CHOOSE f : Is(f)
<1>1. N \in Nat \ {0} /\ DOMAIN rows = 1 .. N
    OBVIOUS
<1>2. Is(F)
    BY <1>1, ReduceExists
<1>3. NewestOf(rows, NoRow) = F[N]
    BY DEF NewestOf
<1> HIDE DEF F
<1>4. F[0] = NoRow /\ \A i \in 1 .. N : F[i] = Later(F[i - 1], rows[i], NoRow)
    BY <1>1, <1>2
<1>5. \A i \in 1 .. N : rows[i] \in Rows /\ rows[i].version \in SemanticVersions
                        /\ rows[i] # NoRow
  <2>1. SUFFICES ASSUME NEW i \in 1 .. N
                 PROVE  rows[i] \in Rows /\ rows[i].version \in SemanticVersions
                        /\ rows[i] # NoRow
    OBVIOUS
  <2>2. rows[i] \in Rows
    BY <1>1
  <2>3. rows[i].version \in SemanticVersions
    BY <2>2 DEF Rows
  <2>4. rows[i].version.core[1] \in Nat
    BY <2>3 DEF SemanticVersions
  <2>5. NoRow.version.core[1] = -1
    BY DEF NoRow
  <2> QED  BY <2>2, <2>3, <2>4, <2>5
<1> DEFINE Newest(i) == /\ \E j \in 1 .. i : F[i] = rows[j]
                        /\ \A j \in 1 .. i : ~ (CompareSemver(rows[j].version, F[i].version) > 0)
           T == {i \in 1 .. N : ~ Newest(i)}
<1>6. T = {}
  <2>1. SUFFICES ASSUME T # {} PROVE FALSE
    OBVIOUS
  <2>2. PICK k \in T : \A j \in T : k <= j
    <3>1. T \subseteq Nat
      BY <1>1
    <3> HIDE DEF T
    <3> QED  BY <2>1, <3>1, SomeLeast
  <2>3. k \in 1 .. N /\ ~ Newest(k) /\ (k > 1 => Newest(k - 1))
    BY <1>1, <2>2
  <2>4. CASE k = 1
    <3>1. F[1] = rows[1]
      BY <1>1, <1>4 DEF Later
    <3>2. ~ (CompareSemver(rows[1].version, rows[1].version) > 0)
      BY <1>1, <1>5, VersionOrder
    <3> QED  BY <2>3, <2>4, <3>1, <3>2
  <2>5. CASE k > 1
    <3>1. PICK j \in 1 .. k - 1 : F[k - 1] = rows[j]
      BY <2>3, <2>5
    <3>2. \A i \in 1 .. k - 1 : ~ (CompareSemver(rows[i].version, rows[j].version) > 0)
      BY <2>3, <2>5, <3>1
    <3>3. j \in 1 .. N /\ \A i \in 1 .. k : i \in 1 .. N
      BY <1>1, <2>3, <3>1
    <3>4. F[k] = IF CompareSemver(rows[k].version, rows[j].version) > 0 THEN rows[k] ELSE rows[j]
      BY <1>4, <1>5, <2>3, <3>1, <3>3 DEF Later
    <3>5. CASE CompareSemver(rows[k].version, rows[j].version) > 0
      <4>1. F[k] = rows[k]
        BY <3>4, <3>5
      <4>2. ~ (CompareSemver(rows[k].version, rows[k].version) > 0)
        BY <1>5, <2>3, VersionOrder
      <4>3. ASSUME NEW i \in 1 .. k - 1
            PROVE  ~ (CompareSemver(rows[i].version, rows[k].version) > 0)
        <5>1. rows[i].version \in SemanticVersions /\ rows[j].version \in SemanticVersions
              /\ rows[k].version \in SemanticVersions
          BY <1>5, <2>3, <3>3
        <5>2. ~ (CompareSemver(rows[i].version, rows[j].version) > 0)
          BY <3>2
        <5> QED  BY <3>5, <5>1, <5>2, NewerThanNewer
      <4> QED  BY <2>3, <4>1, <4>2, <4>3
    <3>6. CASE ~ (CompareSemver(rows[k].version, rows[j].version) > 0)
      <4>1. F[k] = rows[j]
        BY <3>4, <3>6
      <4> QED  BY <2>3, <3>1, <3>2, <3>6, <4>1
    <3> QED  BY <3>5, <3>6
  <2> QED  BY <1>1, <2>3, <2>4, <2>5
<1> QED  BY <1>1, <1>3, <1>6

\* Whatever the order of the imports, a box is shown the newest version of a
\* package and is offered it exactly when it runs an older one, and what it is
\* told of the appliance is one release, which was stable when it asked.
THEOREM OffersCurrent == AdminSpec /\ ReleaseSpec => []OffersAreCurrent
<1>1. AdminInv => CatalogShowsNewest
  <2> SUFFICES ASSUME AdminInv, NEW m \in Models, NEW i \in DOMAIN published[m]
               PROVE  LET installed == published[m][i].version
                      IN  /\ ~ Older(NewestRow(m).version, installed)
                          /\ UpdateAvailable(m, installed) <=>
                               Older(installed, NewestRow(m).version)
    BY DEF CatalogShowsNewest
  <2>1. published[m] \in Seq(Rows) /\ published[m] # <<>>
    BY DEF AdminInv, CatalogTypes
  <2>2. /\ \E j \in DOMAIN published[m] : NewestRow(m) = published[m][j]
        /\ ~ (CompareSemver(published[m][i].version, NewestRow(m).version) > 0)
    BY <2>1, NewestOfRows DEF NewestRow
  <2>3. ASSUME NEW j \in DOMAIN published[m]
        PROVE  published[m][j].version \in SemanticVersions
    <3>1. published[m][j] \in Rows
      BY <2>1
    <3> QED  BY <3>1 DEF Rows
  <2>4. NewestRow(m).version \in SemanticVersions /\ published[m][i].version \in SemanticVersions
    BY <2>2, <2>3
  <2> QED  BY <2>2, <2>4, OlderIsLess, VersionOrder DEF UpdateAvailable
<1> QED  BY <1>1, AdminInvariance, StableRelease, PTL DEF OffersAreCurrent
===============================================================================
