------------------------------ MODULE RateLimiter ------------------------------
(***************************************************************************)
(* internal/middleware/rate_limit.go: a fixed-window counter per client    *)
(* address, in the memory of one process.  Calls of allow run on the       *)
(* goroutines of their requests: each reads the clock, then waits for the  *)
(* mutex, so it decides with a time that others may have overtaken.        *)
(* cleanup runs beside them and forgets addresses that have been silent.   *)
(***************************************************************************)
EXTENDS Integers

CONSTANTS
  Keys,      \* client addresses, as clientIP returns them
  Callers,   \* requests that can be inside allow together
  Limit, Window,
  IdleTTL,   \* 10 * time.Minute
  Period,    \* 5 * time.Minute
  MaxDelay,  \* how long a call waits for the mutex at most
  MaxTime    \* bound: where the clock stops

\* MustLoad refuses a limit below 1.  It does not compare RATE_LIMIT_WINDOW
\* with IdleTTL: that cleanup outlives the windows is up to the operator.
ASSUME LimiterAssumption ==
  /\ Limit \in Nat \ {0} /\ Window \in Nat /\ IdleTTL \in Nat
  /\ Period \in Nat \ {0} /\ MaxDelay \in Nat /\ MaxTime \in Nat
  /\ Window + 2 * MaxDelay <= IdleTTL
  /\ Keys # {}

VARIABLES
  clock,
  visitors,  \* the map; count = 0 stands for a key that is not in it
  call,      \* the calls of allow
  tick,      \* the channel of the ticker: a time, or Empty
  spent      \* history: the last window of each key, and the calls it admitted

vars == <<clock, visitors, call, tick, spent>>

Time == 0..MaxTime
Empty == -1
Unseen == [count |-> 0, resetAt |-> 0, seenAt |-> 0]
Outside == [in |-> FALSE, key |-> CHOOSE k \in Keys : TRUE, now |-> 0]
LongAgo == 0 - (Window + MaxDelay + 1)

\* Every variable has its type.
TypeOK ==
  /\ clock \in Time
  /\ visitors \in [Keys -> [count : 0..Limit, resetAt : Nat, seenAt : Time]]
  /\ call \in [Callers -> [in : BOOLEAN, key : Keys, now : Time]]
  /\ tick \in Time \cup {Empty}
  /\ spent \in [Keys -> [from : LongAgo..MaxTime, admitted : Nat]]

Init ==
  /\ clock = 0
  /\ visitors = [k \in Keys |-> Unseen]
  /\ call = [c \in Callers |-> Outside]
  /\ tick = Empty
  /\ spent = [k \in Keys |-> [from |-> LongAgo, admitted |-> 0]]

Known(k) == visitors[k].count > 0
Inside(c) == call[c].in

-----------------------------------------------------------------------------
\* allow, first line: now := time.Now().
Enter(c, k) ==
  /\ ~Inside(c)
  /\ call' = [call EXCEPT ![c] = [in |-> TRUE, key |-> k, now |-> clock]]
  /\ UNCHANGED <<clock, visitors, tick, spent>>

\* Mutant: the reset time is not looked at.
Opens_Never(k, now) == ~Known(k)
\* No entry, or a time past the reset: a window is opened.
Opens(k, now) == ~Known(k) \/ now > visitors[k].resetAt
Full(k) == visitors[k].count >= Limit

\* A window that forgets nothing, and so runs until its time is over.
Spend(k, now) ==
  spent' = IF now > spent[k].from + Window
           THEN [spent EXCEPT ![k] = [from |-> now, admitted |-> 1]]
           ELSE [spent EXCEPT ![k].admitted = @ + 1]

\* The rest of allow, under the mutex.
Allow(c) ==
  LET k == call[c].key  now == call[c].now IN
  /\ Inside(c)
  /\ \/ /\ Opens(k, now)
        /\ visitors' = [visitors EXCEPT ![k] =
                          [count |-> 1, resetAt |-> now + Window, seenAt |-> now]]
        /\ Spend(k, now)
     \/ /\ ~Opens(k, now) /\ Full(k)
        /\ visitors' = [visitors EXCEPT ![k].seenAt = now]
        /\ UNCHANGED spent
     \/ /\ ~Opens(k, now) /\ ~Full(k)
        /\ visitors' = [visitors EXCEPT ![k].seenAt = now, ![k].count = @ + 1]
        /\ Spend(k, now)
  /\ call' = [call EXCEPT ![c] = Outside]
  /\ UNCHANGED <<clock, tick>>

\* Mutant: a client that was silent between two ticks is forgotten.
Silent_OnePeriod(k, now) == now - visitors[k].seenAt >= Period
Silent(k, now) == now - visitors[k].seenAt > IdleTTL

\* cleanup, with the time the ticker sent.
Cleanup ==
  /\ tick # Empty
  /\ visitors' = [k \in Keys |-> IF Silent(k, tick) THEN Unseen ELSE visitors[k]]
  /\ tick' = Empty
  /\ UNCHANGED <<clock, call, spent>>

\* Time passes; no call waits for more than MaxDelay.  Every Period the ticker
\* sends the time, unless the one before has not been received.
Tick ==
  /\ clock < MaxTime
  /\ \A c \in Callers : Inside(c) => clock < call[c].now + MaxDelay
  /\ clock' = clock + 1
  /\ tick' = IF clock' % Period = 0 /\ tick = Empty THEN clock' ELSE tick
  /\ UNCHANGED <<visitors, call, spent>>

Next ==
  \/ \E c \in Callers, k \in Keys : Enter(c, k)
  \/ \E c \in Callers : Allow(c)
  \/ Cleanup
  \/ Tick

Spec == Init /\ [][Next]_vars

-----------------------------------------------------------------------------
\* No window admits more than Limit requests, although calls decide with
\* times that others have overtaken and cleanup drops counters meanwhile.
AtMostLimit == \A k \in Keys : spent[k].admitted <= Limit

\* A request is refused (429) only while its window is running and spent.
RefusedOnlyAtLimit ==
  [][ \A c \in Callers :
        Inside(c) /\ ~Inside(c)' /\ spent' = spent =>
          LET w == spent[call[c].key] IN
          w.admitted = Limit /\ call[c].now <= w.from + Window ]_vars
=============================================================================
