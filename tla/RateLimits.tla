------------------------------- MODULE RateLimits -------------------------------
(***************************************************************************)
(* The two rate limiters of the web application, in the memory of one      *)
(* server: checkRateLimit, which the quote requests' route asks first, and *)
(* the support chat's own isRateLimited.  Both count the requests of a key *)
(* for a window that starts with the first one.  They differ in the moment *)
(* the window is over, in what becomes of the windows of others, and in    *)
(* what a refused request does to the count.                               *)
(***************************************************************************)
EXTENDS Integers, FiniteSets

CONSTANTS
    LimitKeys,      \* of checkRateLimit: a scope and an address
    ChatAddresses,  \* of isRateLimited
    Limit, WindowMs,
    Second,         \* 1000
    MaxTime         \* bound

ASSUME LimitAssumption ==
    /\ LimitKeys \intersect ChatAddresses = {}
    /\ {Limit, WindowMs, Second} \subseteq Nat \ {0}
    /\ MaxTime \in Nat

VARIABLES
    limitTime,  \* Date.now()
    windows,    \* __faivrRateLimits and rateLimitMap
    retries,    \* the Retry-After each key was told last, and when
    allowed     \* the requests let through: when, in which window, as which

limitVars == <<limitTime, windows, retries, allowed>>

LimitedKeys == LimitKeys \union ChatAddresses

NoWindow == [count |-> 0, resetAt |-> 0]
NotRefused == [at |-> 0, after |-> 0]

LimitsInit ==
    /\ limitTime = 1
    /\ windows = [k \in LimitedKeys |-> NoWindow]
    /\ retries = [k \in LimitedKeys |-> NotRefused]
    /\ allowed = [k \in LimitedKeys |-> {}]

LimitTimePasses ==
    /\ limitTime < MaxTime                         \* bound
    /\ limitTime' = limitTime + 1
    /\ UNCHANGED <<windows, retries, allowed>>

LetThrough(k, window) ==
    /\ allowed' = [allowed EXCEPT ![k] = @ \union
                     {[at |-> limitTime, resetAt |-> window.resetAt, n |-> window.count]}]
    /\ UNCHANGED <<limitTime, retries>>

\* Mutated form of NewWindow: the request that opens it is not counted.
NewWindowUncounted == [count |-> 0, resetAt |-> limitTime + WindowMs]

NewWindow == [count |-> 1, resetAt |-> limitTime + WindowMs]

\* The windows of checkRateLimit that are over go, whoever asks.
Swept ==
    [k \in LimitedKeys |->
       IF k \in LimitKeys /\ windows[k].resetAt <= limitTime THEN NoWindow ELSE windows[k]]

WindowOpens(k) ==
    /\ Swept[k] = NoWindow
    /\ windows' = [Swept EXCEPT ![k] = NewWindow]
    /\ LetThrough(k, NewWindow)

WindowCounts(k) ==
    LET next == [Swept[k] EXCEPT !.count = @ + 1]
    IN  /\ Swept[k] # NoWindow /\ Swept[k].count < Limit
        /\ windows' = [Swept EXCEPT ![k] = next]
        /\ LetThrough(k, next)

\* Mutated form of RetryAfter: rounded down.
RetryAfterFloor(k) == (Swept[k].resetAt - limitTime) \div Second

\* Math.ceil((resetAt - now) / 1000)
RetryAfter(k) == (Swept[k].resetAt - limitTime + Second - 1) \div Second

WindowIsFull(k) ==
    /\ Swept[k] # NoWindow /\ Swept[k].count >= Limit
    /\ windows' = Swept
    /\ retries' = [retries EXCEPT ![k] = [at |-> limitTime, after |-> RetryAfter(k)]]
    /\ UNCHANGED <<limitTime, allowed>>

CheckRateLimit(k) == WindowOpens(k) \/ WindowCounts(k) \/ WindowIsFull(k)

ChatWindowOver(k) == windows[k] = NoWindow \/ limitTime > windows[k].resetAt

ChatWindowOpens(k) ==
    /\ ChatWindowOver(k)
    /\ windows' = [windows EXCEPT ![k] = NewWindow]
    /\ LetThrough(k, NewWindow)

\* A count above the limit says no more than the first one above it.
ChatWindowCounts(k) ==
    LET next == [windows[k] EXCEPT !.count = IF @ > Limit THEN @ ELSE @ + 1]
    IN  /\ ~ChatWindowOver(k)
        /\ windows' = [windows EXCEPT ![k] = next]
        /\ IF next.count > Limit THEN UNCHANGED <<limitTime, retries, allowed>>
           ELSE LetThrough(k, next)

IsRateLimited(k) == ChatWindowOpens(k) \/ ChatWindowCounts(k)

LimitStep ==
    \/ LimitTimePasses
    \/ \E k \in LimitKeys : CheckRateLimit(k)
    \/ \E k \in ChatAddresses : IsRateLimited(k)

-------------------------------------------------------------------------------
During(k, start) == {g \in allowed[k] : start <= g.at /\ g.at < start + WindowMs}

\* No span of a window's length lets more than twice the limit of a key
\* through, wherever it starts: a burst at the end of a window and the
\* beginning of the next is all there can be.
TwiceTheLimit ==
    \A k \in LimitedKeys : \A start \in 0 .. MaxTime :
       Cardinality(During(k, start)) <= 2 * Limit

\* Who waits as long as Retry-After says finds the window over, unless others
\* have opened a new one.
RetryIsEnough ==
    \A k \in LimitKeys :
       \/ windows[k].resetAt <= retries[k].at + retries[k].after * Second
       \/ retries[k].at < windows[k].resetAt - WindowMs
       \/ retries[k] = NotRefused

\* What the limiters promise of the requests of a key.
WithinLimit == TwiceTheLimit /\ RetryIsEnough
===============================================================================
