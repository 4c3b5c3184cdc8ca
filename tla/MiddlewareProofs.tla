--------------------------- MODULE MiddlewareProofs ---------------------------
(***************************************************************************)
(* Two proofs about the middleware.  For any number of clients and         *)
(* requests, every limit and every window that cleanup outlives: a limiter *)
(* keeps its limit.  For any number of requests: what the order of the     *)
(* frames of a chain promises about logs, headers and guards.              *)
(***************************************************************************)
EXTENDS Pipeline, RateLimiter, SequenceTheorems, TLAPS

-----------------------------------------------------------------------------
(***************************************************************************)
(* The limiter (RateLimiter)                                               *)
(***************************************************************************)

\* A known key counts the window that is running; seenAt is at most MaxDelay
\* behind its start, because a call that waited for the mutex writes the time
\* it read before.
Counting(k) ==
  Known(k) => /\ visitors[k].resetAt = spent[k].from + Window
              /\ visitors[k].count = spent[k].admitted
              /\ visitors[k].seenAt >= spent[k].from - MaxDelay

\* When a key is forgotten, its last window is over for whoever is still
\* waiting for the mutex, too.
Over(k) == ~Known(k) => clock > spent[k].from + Window + MaxDelay

\* A call has read the clock at most MaxDelay ago.
Recent(c) == Inside(c) => call[c].now <= clock /\ clock <= call[c].now + MaxDelay

LInv ==
  /\ TypeOK
  /\ \A k \in Keys : Counting(k) /\ Over(k)
  /\ \A k \in Keys : spent[k].from <= clock
  /\ \A c \in Callers : Recent(c)
  /\ tick <= clock
  /\ AtMostLimit

-----------------------------------------------------------------------------
LEMMA InitLInv == Init => LInv
<1> USE LimiterAssumption
<1> SUFFICES ASSUME Init PROVE LInv
  OBVIOUS
<1>1. (CHOOSE k \in Keys : TRUE) \in Keys
  OBVIOUS
<1>a. LongAgo \in Int /\ LongAgo < 0 /\ 0 > LongAgo + Window + MaxDelay
  BY DEF LongAgo
<1>b. /\ clock = 0 /\ tick = Empty
      /\ visitors = [k \in Keys |-> Unseen]
      /\ call = [c \in Callers |-> Outside]
      /\ spent = [k \in Keys |-> [from |-> LongAgo, admitted |-> 0]]
  BY DEF Init
<1>c. LongAgo \in LongAgo..MaxTime /\ 0 \in Time /\ 0 \in 0..Limit
  BY <1>a DEF Time
<1>2. TypeOK
  BY <1>1, <1>b, <1>c DEF TypeOK, Empty, Unseen, Outside
<1>d. \A k \in Keys : spent[k].from = LongAgo /\ visitors[k].count = 0
  BY <1>b DEF Unseen
<1>e. clock = 0
  BY <1>b
<1>3. \A k \in Keys : Counting(k) /\ Over(k)
  <2> TAKE k \in Keys
  <2>1. ~Known(k)
    BY <1>d DEF Known
  <2>2. clock > spent[k].from + Window + MaxDelay
    BY <1>a, <1>d, <1>e, Zenon
  <2> QED
    BY <2>1, <2>2 DEF Counting, Over
<1>4. \A k \in Keys : spent[k].from <= clock
  <2>1. LongAgo <= clock
    BY <1>a, <1>e
  <2> QED
    BY <1>d, <2>1, Zenon
<1>5. \A c \in Callers : Recent(c)
  BY DEF Init, Recent, Inside, Outside
<1>6. tick <= clock /\ AtMostLimit
  BY DEF Init, Empty, AtMostLimit
<1> QED
  BY <1>2, <1>3, <1>4, <1>5, <1>6 DEF LInv

\* What the invariant says of a call that has the mutex: it is either in the
\* running window, or after it and opens the next one.
LEMMA InWindow ==
  ASSUME LInv, NEW c \in Callers, Inside(c)
  PROVE  LET k == call[c].key  now == call[c].now IN
         /\ k \in Keys /\ now \in Time /\ now <= clock /\ clock <= now + MaxDelay
         /\ Opens(k, now) => now > spent[k].from + Window
         /\ ~Opens(k, now) => /\ Known(k)
                              /\ now <= spent[k].from + Window
                              /\ visitors[k].count = spent[k].admitted
                              /\ visitors[k].resetAt = spent[k].from + Window
<1> USE LimiterAssumption
<1> DEFINE k == call[c].key
           now == call[c].now
<1>1. k \in Keys /\ now \in Time
  BY DEF LInv, TypeOK
<1>2. now <= clock /\ clock <= now + MaxDelay
  BY DEF LInv, Recent
<1>3. Counting(k) /\ Over(k)
  BY <1>1 DEF LInv
<1>4. spent[k].from \in Int /\ clock \in Int /\ visitors[k].resetAt \in Int /\ now \in Int
  BY <1>1 DEF LInv, TypeOK, Time, LongAgo
<1>5. ASSUME ~Known(k) PROVE now > spent[k].from + Window
  BY <1>2, <1>3, <1>4, <1>5 DEF Over
<1>6. ASSUME Known(k) PROVE visitors[k].resetAt = spent[k].from + Window
  BY <1>3, <1>6 DEF Counting
<1>7. Opens(k, now) => now > spent[k].from + Window
  BY <1>4, <1>5, <1>6 DEF Opens
<1>8. ~Opens(k, now) => /\ Known(k)
                        /\ now <= spent[k].from + Window
                        /\ visitors[k].count = spent[k].admitted
                        /\ visitors[k].resetAt = spent[k].from + Window
  BY <1>3, <1>4, <1>6 DEF Opens, Counting
<1> QED
  BY <1>1, <1>2, <1>7, <1>8

LEMMA EnterLInv ==
  ASSUME LInv, NEW c \in Callers, NEW k \in Keys, Enter(c, k)
  PROVE  LInv'
<1> USE LimiterAssumption
<1>1. TypeOK'
  BY DEF LInv, TypeOK, Enter, Time
<1>2. \A d \in Callers : Recent(d)'
  BY DEF LInv, TypeOK, Enter, Recent, Inside, Time
<1>3. \A j \in Keys : Counting(j)' /\ Over(j)'
  BY DEF LInv, Enter, Counting, Over, Known
<1> QED
  BY <1>1, <1>2, <1>3 DEF LInv, Enter, AtMostLimit

LEMMA AllowLInv ==
  ASSUME LInv, NEW c \in Callers, Allow(c)
  PROVE  LInv'
<1> USE LimiterAssumption
<1> DEFINE k == call[c].key
           now == call[c].now
<1>1. /\ k \in Keys /\ now \in Time /\ now <= clock /\ clock <= now + MaxDelay
      /\ Opens(k, now) => now > spent[k].from + Window
      /\ ~Opens(k, now) => /\ Known(k)
                           /\ now <= spent[k].from + Window
                           /\ visitors[k].count = spent[k].admitted
                           /\ visitors[k].resetAt = spent[k].from + Window
  BY InWindow DEF Allow
<1>2. /\ clock \in Nat /\ now \in Nat /\ clock \in Time
      /\ visitors \in [Keys -> [count : 0..Limit, resetAt : Nat, seenAt : Time]]
      /\ spent \in [Keys -> [from : LongAgo..MaxTime, admitted : Nat]]
      /\ spent[k].from \in Int /\ spent[k].admitted \in Nat
      /\ spent[k].from <= clock /\ visitors[k].count \in 0..Limit
  BY <1>1 DEF LInv, TypeOK, Time, LongAgo
<1>3. /\ clock' = clock /\ tick' = tick
      /\ \A j \in Keys \ {k} : visitors'[j] = visitors[j] /\ spent'[j] = spent[j]
  BY <1>1, <1>2 DEF Allow, Spend
<1>4. call' \in [Callers -> [in : BOOLEAN, key : Keys, now : Time]]
  <2>1. (CHOOSE j \in Keys : TRUE) \in Keys
    OBVIOUS
  <2> QED
    BY <2>1 DEF LInv, TypeOK, Allow, Outside, Time
<1>5. \A d \in Callers : Recent(d)'
  BY <1>3 DEF LInv, TypeOK, Allow, Outside, Recent, Inside
<1>6. /\ visitors' \in [Keys -> [count : 0..Limit, resetAt : Nat, seenAt : Time]]
      /\ spent' \in [Keys -> [from : LongAgo..MaxTime, admitted : Nat]]
      /\ visitors'[k].count > 0
      /\ visitors'[k].count = spent'[k].admitted
      /\ visitors'[k].resetAt = spent'[k].from + Window
      /\ visitors'[k].seenAt >= spent'[k].from - MaxDelay
      /\ spent'[k].from <= clock
  <2>1. CASE Opens(k, now)
    <3>1. visitors' = [visitors EXCEPT ![k] =
                         [count |-> 1, resetAt |-> now + Window, seenAt |-> now]]
      BY <2>1 DEF Allow
    <3>2. spent' = [spent EXCEPT ![k] = [from |-> now, admitted |-> 1]]
      BY <1>1, <1>2, <2>1 DEF Allow, Spend
    <3> QED
      BY <1>1, <1>2, <3>1, <3>2 DEF Time, LongAgo
  <2>2. CASE ~Opens(k, now) /\ Full(k)
    <3>1. visitors' = [visitors EXCEPT ![k].seenAt = now] /\ spent' = spent
      BY <2>2 DEF Allow
    <3> QED
      BY <1>1, <1>2, <2>2, <3>1 DEF Time, Known
  <2>3. CASE ~Opens(k, now) /\ ~Full(k)
    <3>1. visitors' = [visitors EXCEPT ![k].seenAt = now, ![k].count = @ + 1]
      BY <2>3 DEF Allow
    <3>2. ~(now > spent[k].from + Window) /\ Spend(k, now)
      <4>1. Spend(k, now)
        BY <2>3 DEF Allow
      <4> QED
        BY <1>1, <1>2, <2>3, <4>1
    <3>3. spent' = [spent EXCEPT ![k].admitted = @ + 1]
      BY <3>2 DEF Spend
    <3>4. visitors[k].count + 1 \in 0..Limit
      BY <1>2, <2>3 DEF Full
    <3>5. /\ visitors' \in [Keys -> [count : 0..Limit, resetAt : Nat, seenAt : Time]]
          /\ visitors'[k].count = visitors[k].count + 1
          /\ visitors'[k].resetAt = visitors[k].resetAt
          /\ visitors'[k].seenAt = now
      <4>1. k \in Keys /\ now \in Time
            /\ visitors \in [Keys -> [count : 0..Limit, resetAt : Nat, seenAt : Time]]
        BY <1>1, <1>2
      <4>2. visitors[k] \in [count : 0..Limit, resetAt : Nat, seenAt : Time]
        BY <4>1
      <4>3. visitors' = [visitors EXCEPT ![k] =
                           [visitors[k] EXCEPT !.seenAt = now, !.count = visitors[k].count + 1]]
        BY <3>1, <4>1, <4>2
      <4> HIDE DEF k, now
      <4>4. [visitors[k] EXCEPT !.seenAt = now, !.count = visitors[k].count + 1]
              \in [count : 0..Limit, resetAt : Nat, seenAt : Time]
        BY <3>4, <4>1, <4>2
      <4> QED
        BY <4>1, <4>2, <4>3, <4>4
    <3>6. /\ spent' \in [Keys -> [from : LongAgo..MaxTime, admitted : Nat]]
          /\ spent'[k].admitted = spent[k].admitted + 1
          /\ spent'[k].from = spent[k].from
      BY <1>1, <1>2, <3>3
    <3> HIDE DEF k, now
    <3> QED
      BY <1>1, <1>2, <2>3, <3>4, <3>5, <3>6 DEF Time
  <2> QED
    BY <2>1, <2>2, <2>3
<1>7. \A j \in Keys : Counting(j)' /\ Over(j)'
  <2> TAKE j \in Keys
  <2>1. CASE j = k
    BY <1>6, <2>1 DEF Counting, Over, Known
  <2>2. CASE j # k
    <3>1. Counting(j) /\ Over(j) /\ visitors'[j] = visitors[j] /\ spent'[j] = spent[j]
      BY <1>3, <2>2 DEF LInv
    <3> QED
      BY <1>3, <3>1 DEF Counting, Over, Known
  <2> QED
    BY <2>1, <2>2
<1>8. \A j \in Keys : spent'[j].from <= clock'
  BY <1>3, <1>6 DEF LInv
<1>9. AtMostLimit'
  BY <1>3, <1>6 DEF LInv, AtMostLimit
<1> QED
  BY <1>3, <1>4, <1>5, <1>6, <1>7, <1>8, <1>9 DEF LInv, TypeOK

LEMMA CleanupLInv ==
  ASSUME LInv, Cleanup
  PROVE  LInv'
<1> USE LimiterAssumption
<1>1. tick \in Nat /\ clock \in Nat /\ tick <= clock
  BY DEF LInv, TypeOK, Cleanup, Time, Empty
<1>2. TypeOK'
  BY DEF LInv, TypeOK, Cleanup, Unseen, Time
<1>3. \A k \in Keys : Counting(k)' /\ Over(k)'
  <2> TAKE k \in Keys
  <2>1. Counting(k) /\ Over(k)
    BY DEF LInv
  <2>2. visitors[k].seenAt \in Nat /\ spent[k].from \in Int /\ visitors[k].count \in Nat
    BY DEF LInv, TypeOK, Time, LongAgo
  <2>3. spent' = spent /\ clock' = clock
    BY DEF Cleanup
  <2>4. CASE Silent(k, tick)
    <3>1. visitors'[k].count = 0
      BY <2>4 DEF Cleanup, Unseen
    <3>2. ~Known(k)'
      BY <3>1 DEF Known
    <3>3. clock > spent[k].from + Window + MaxDelay
      <4>1. CASE Known(k)
        BY <1>1, <2>1, <2>2, <2>4, <4>1 DEF Counting, Silent
      <4>2. CASE ~Known(k)
        BY <2>1, <4>2 DEF Over
      <4> QED
        BY <4>1, <4>2
    <3> QED
      BY <2>3, <3>2, <3>3 DEF Counting, Over
  <2>5. CASE ~Silent(k, tick)
    <3>1. visitors'[k] = visitors[k]
      BY <2>5 DEF Cleanup
    <3> QED
      BY <2>1, <2>3, <3>1 DEF Counting, Over, Known
  <2> QED
    BY <2>4, <2>5
<1>4. \A c \in Callers : Recent(c)'
  BY DEF LInv, Cleanup, Recent, Inside
<1>5. tick' <= clock'
  BY <1>1 DEF Cleanup, Empty
<1> QED
  BY <1>2, <1>3, <1>4, <1>5 DEF LInv, Cleanup, AtMostLimit

LEMMA TickLInv ==
  ASSUME LInv, Tick
  PROVE  LInv'
<1> USE LimiterAssumption
<1>1. clock \in Nat /\ clock' = clock + 1 /\ clock' \in Time
  BY DEF LInv, TypeOK, Tick, Time
<1>2. tick' \in Time \cup {Empty} /\ tick' <= clock'
  BY <1>1 DEF LInv, TypeOK, Tick, Time, Empty
<1>3. TypeOK'
  BY <1>1, <1>2 DEF LInv, TypeOK, Tick
<1>4. \A k \in Keys : Counting(k)' /\ Over(k)' /\ spent'[k].from <= clock'
  BY <1>1 DEF LInv, TypeOK, Tick, Counting, Over, Known, LongAgo
<1>5. \A c \in Callers : Recent(c)'
  <2> TAKE c \in Callers
  <2>1. Recent(c) /\ call[c].now \in Nat
    BY DEF LInv, TypeOK, Time
  <2>2. call' = call /\ (Inside(c) => clock < call[c].now + MaxDelay)
    BY DEF Tick
  <2> QED
    BY <1>1, <2>1, <2>2 DEF Recent, Inside
<1> QED
  BY <1>2, <1>3, <1>4, <1>5 DEF LInv, Tick, AtMostLimit

LEMMA NextLInv == LInv /\ [Next]_vars => LInv'
<1> SUFFICES ASSUME LInv, [Next]_vars PROVE LInv'
  OBVIOUS
<1>1. CASE \E c \in Callers, k \in Keys : Enter(c, k)
  BY <1>1, EnterLInv
<1>2. CASE \E c \in Callers : Allow(c)
  BY <1>2, AllowLInv
<1>3. CASE Cleanup
  BY <1>3, CleanupLInv
<1>4. CASE Tick
  BY <1>4, TickLInv
<1>5. CASE UNCHANGED vars
  BY <1>5 DEF vars, LInv, TypeOK, Counting, Over, Known, Recent, Inside, AtMostLimit
<1> QED
  BY <1>1, <1>2, <1>3, <1>4, <1>5 DEF Next

\* The invariant holds in every reachable state.
THEOREM LimiterInvariance == Spec => []LInv
<1> QED
  BY InitLInv, NextLInv, PTL DEF Spec

\* The map, the calls and the ticker keep their types; a counter never exceeds Limit.
THEOREM LimiterTypeCorrect == Spec => []TypeOK
<1>1. LInv => TypeOK
  BY DEF LInv
<1> QED
  BY <1>1, LimiterInvariance, PTL

\* However calls are delayed at the mutex and whenever cleanup runs, a window
\* of a client admits at most Limit requests, provided that cleanup's
\* ten minutes exceed the window by twice the longest delay.
THEOREM AtMostLimitAlways == Spec => []AtMostLimit
<1>1. LInv => AtMostLimit
  BY DEF LInv
<1> QED
  BY <1>1, LimiterInvariance, PTL

\* A call that opens a window, or finds room in one, is accounted for.
LEMMA AdmissionSpends ==
  ASSUME LInv, NEW c \in Callers, Allow(c),
         Opens(call[c].key, call[c].now) \/ ~Full(call[c].key)
  PROVE  spent' # spent
<1> USE LimiterAssumption
<1> DEFINE k == call[c].key
           now == call[c].now
<1>1. /\ k \in Keys /\ now \in Time
      /\ Opens(k, now) => now > spent[k].from + Window
      /\ ~Opens(k, now) => now <= spent[k].from + Window
  BY InWindow DEF Allow
<1>2. /\ spent \in [Keys -> [from : LongAgo..MaxTime, admitted : Nat]]
      /\ spent[k].from \in Int /\ spent[k].admitted \in Nat /\ now \in Nat
  BY <1>1 DEF LInv, TypeOK, Time, LongAgo
<1>3. Spend(k, now)
  BY DEF Allow
<1>4. CASE Opens(k, now)
  <2>1. spent' = [spent EXCEPT ![k] = [from |-> now, admitted |-> 1]]
    BY <1>1, <1>2, <1>3, <1>4 DEF Spend
  <2>2. spent'[k].from = now
    BY <1>1, <1>2, <2>1
  <2> QED
    BY <1>1, <1>2, <1>4, <2>2
<1>5. CASE ~Opens(k, now)
  <2>1. spent' = [spent EXCEPT ![k].admitted = @ + 1]
    BY <1>1, <1>2, <1>3, <1>5 DEF Spend
  <2>2. spent'[k].admitted = spent[k].admitted + 1
    BY <1>1, <1>2, <2>1
  <2> QED
    BY <1>2, <2>2
<1> QED
  BY <1>4, <1>5

LEMMA RefusalStep ==
  ASSUME LInv, [Next]_vars, NEW c \in Callers, Inside(c), ~Inside(c)', spent' = spent
  PROVE  LET w == spent[call[c].key] IN
         w.admitted = Limit /\ call[c].now <= w.from + Window
<1> USE LimiterAssumption
<1> DEFINE k == call[c].key
           now == call[c].now
<1>1. Allow(c)
  <2>1. call' # call
    BY DEF Inside
  <2>2. PICK d \in Callers : Allow(d) \/ \E j \in Keys : Enter(d, j)
    BY <2>1 DEF Next, vars, Cleanup, Tick
  <2>3. d = c
    BY <2>2 DEF Allow, Enter, Inside, LInv, TypeOK
  <2>4. ~\E j \in Keys : Enter(c, j)
    BY DEF Enter
  <2> QED
    BY <2>2, <2>3, <2>4
<1>2. ~Opens(k, now) /\ Full(k)
  BY <1>1, AdmissionSpends
<1>3. /\ k \in Keys /\ now <= spent[k].from + Window
      /\ visitors[k].count = spent[k].admitted
  BY <1>2, InWindow
<1>4. visitors[k].count \in 0..Limit
  BY <1>3 DEF LInv, TypeOK
<1> QED
  BY <1>2, <1>3, <1>4 DEF Full

\* A 429 is only ever answered inside a window that is spent: forgetting and
\* late clocks never refuse a client early.
THEOREM RefusedOnlyAtLimitAlways == Spec => RefusedOnlyAtLimit
<1> DEFINE Denied == \A c \in Callers :
        Inside(c) /\ ~Inside(c)' /\ spent' = spent =>
          LET w == spent[call[c].key] IN
          w.admitted = Limit /\ call[c].now <= w.from + Window
<1>1. LInv /\ [Next]_vars => [Denied]_vars
  BY RefusalStep
<1> QED
  BY <1>1, LimiterInvariance, PTL DEF Spec, RefusedOnlyAtLimit

-----------------------------------------------------------------------------
(***************************************************************************)
(* The chain of frames (Pipeline)                                          *)
(***************************************************************************)

\* The types of a request's fields.
Headers == {"requestID", "security", "cors", "retryAfter"}
Bodies == {"none", "success", "failure", "plain", "mixed"}
Answers == [status : Nat, headers : SUBSET Headers, body : Bodies]
Records == [kind : {"access", "panic"}, status : Nat]
Requests ==
  [kind : Kinds, origin : {"allowed", "other"}, caller : CallerKinds,
   mode : {"idle", "calling", "returning", "panicking", "done"}, depth : 0..10,
   headers : SUBSET Headers, sent : Answers, recorded : Nat,
   deadline : BOOLEAN, user : CallerKinds, log : Seq(Records),
   counted : SUBSET {"global", "auth"}, ran : BOOLEAN, panicked : BOOLEAN]

Frames(q) == Len(Server(q.kind))

\* A browser can read an answer with these headers.
Dressed(q, headers) ==
  {"requestID", "security"} \subseteq headers /\ (q.origin = "allowed" => "cors" \in headers)

\* What the frames above depth have done on the way down, and who has been stopped by them.
WayDown(q) ==
  /\ q.depth < Frames(q)
  /\ q.sent = NotSent /\ q.log = <<>> /\ ~q.ran /\ ~q.panicked
  /\ q.depth >= 1 => "requestID" \in q.headers
  /\ q.depth >= 4 => "security" \in q.headers
  /\ q.depth >= 5 => (q.origin = "allowed" => "cors" \in q.headers)
  /\ q.depth >= 5 => q.kind # "preflight"
  /\ q.depth <= 5 => q.counted = {}
  /\ q.depth >= 6 => "global" \in q.counted
  /\ q.depth >= 7 => q.deadline
  /\ q.depth >= 8 => /\ q.kind = "sensitive" => "auth" \in q.counted
                     /\ q.kind \in {"user", "admin"} => q.user = q.caller
  /\ q.depth >= 9 => (q.kind = "admin" => q.user = "admin")

\* The handler has run behind everything that guards it.
Guarded(q) ==
  /\ "global" \in q.counted /\ q.deadline
  /\ q.kind = "sensitive" => "auth" \in q.counted
  /\ q.kind \in {"user", "admin"} => q.user = q.caller
  /\ q.kind = "admin" => q.user = "admin"

\* Who was turned away, was for a cause.
Caused(q) ==
  /\ q.sent.status = 401 => q.caller \in {"none", "invalid"}
  /\ q.sent.status = 403 => q.caller = "disabled" \/ (q.kind = "admin" /\ q.caller = "user")
  /\ q.kind = "preflight" => q.sent.status = 204 /\ q.counted = {}

\* Nothing has been recorded, but the status that Logger will record is the client's.
NotYetLogged(q) == q.log = <<>> /\ ~q.panicked /\ q.recorded = q.sent.status

\* There is one record, and it is true.
Logged(q) ==
  /\ Len(q.log) = 1
  /\ q.log[1].kind = "panic" <=> q.panicked
  /\ q.log[1].kind = "access" => q.log[1].status = q.sent.status
  /\ q.panicked => \/ q.sent.status = 500 /\ q.sent.body = "failure"
                   \/ q.sent.body = "mixed"

\* Every turning point is inside of CORS; a panic starts in a handler and ends at Recover.
WayBack(q) ==
  /\ q.depth <= Frames(q)
  /\ Dressed(q, q.headers)
  /\ q.sent.status # 0 => Dressed(q, q.sent.headers)
  /\ ~q.ran => Caused(q)
  /\ q.mode = "panicking" => q.depth >= 2 /\ q.log = <<>> /\ q.panicked /\ q.ran
  /\ q.mode # "panicking" => q.sent.status # 0
  /\ q.mode = "returning" /\ q.depth >= 3 => NotYetLogged(q)
  /\ q.mode = "returning" /\ q.depth < 3 => Logged(q)
  /\ q.mode = "done" => Logged(q)
  /\ q.mode = "returning" /\ q.depth = Frames(q) => q.ran \/ q.kind = "unknown"

RequestInv(q) ==
  /\ q \in Requests
  /\ q.mode = "idle" => ~q.ran
  /\ q.mode = "calling" => WayDown(q)
  /\ q.mode \in {"returning", "panicking", "done"} => WayBack(q)
  /\ q.ran => Guarded(q)

PipelineInv == DOMAIN req = Reqs /\ \A r \in Reqs : RequestInv(req[r])

-----------------------------------------------------------------------------
(* The chain *)

FrameNames ==
  {"requestID", "recover", "logger", "securityHeaders", "cors", "rateLimit", "timeout",
   "authRateLimit", "requireAuth", "requireRole", "handler", "readiness", "notFound"}

\* Where a frame can be in a chain.
LEMMA RouteFrames ==
  ASSUME NEW kind \in Kinds
  PROVE  LET route == Route(kind) IN
         /\ route \in Seq(FrameNames) /\ Len(route) \in 1..3
         /\ kind = "probe" => Len(route) = 1 /\ route[1] = "readiness"
         /\ kind \in {"public", "preflight"} => Len(route) = 1 /\ route[1] = "handler"
         /\ kind = "sensitive" => Len(route) = 2 /\ route[1] = "authRateLimit" /\ route[2] = "handler"
         /\ kind = "user" => Len(route) = 2 /\ route[1] = "requireAuth" /\ route[2] = "handler"
         /\ kind = "admin" => /\ Len(route) = 3 /\ route[1] = "requireAuth"
                              /\ route[2] = "requireRole" /\ route[3] = "handler"
         /\ kind = "unknown" => Len(route) = 1 /\ route[1] = "notFound"
  <1> DEFINE auth == <<"requireAuth">>
             both == <<"requireAuth", "requireRole">>
             last == <<"handler">>
  <1>1. /\ auth \in Seq(FrameNames) /\ both \in Seq(FrameNames) /\ last \in Seq(FrameNames)
        /\ <<"authRateLimit", "handler">> \in Seq(FrameNames)
        /\ <<"readiness">> \in Seq(FrameNames) /\ <<"notFound">> \in Seq(FrameNames)
    BY DEF FrameNames
  <1>2. /\ Len(auth) = 1 /\ auth[1] = "requireAuth"
        /\ Len(both) = 2 /\ both[1] = "requireAuth" /\ both[2] = "requireRole"
        /\ Len(last) = 1 /\ last[1] = "handler"
    OBVIOUS
  <1>3. CASE kind = "user"
    <2>1. Route(kind) = auth \o last
      BY <1>3, Zenon DEF Route, Chain
    <2> HIDE DEF auth, last
    <2>2. /\ Route(kind) \in Seq(FrameNames) /\ Len(Route(kind)) = 2
          /\ \A i \in 1..2 : Route(kind)[i] = IF i <= 1 THEN auth[i] ELSE last[i - 1]
      BY <1>1, <1>2, <2>1, ConcatProperties
    <2>3. Route(kind)[1] = "requireAuth" /\ Route(kind)[2] = "handler"
      BY <1>2, <2>2
    <2> QED BY <1>3, <2>2, <2>3
  <1>4. CASE kind = "admin"
    <2>1. Route(kind) = both \o last
      BY <1>4, Zenon DEF Route, Chain, AdminOnly
    <2> HIDE DEF both, last
    <2>2. /\ Route(kind) \in Seq(FrameNames) /\ Len(Route(kind)) = 3
          /\ \A i \in 1..3 : Route(kind)[i] = IF i <= 2 THEN both[i] ELSE last[i - 2]
      BY <1>1, <1>2, <2>1, ConcatProperties
    <2>3. /\ Route(kind)[1] = "requireAuth" /\ Route(kind)[2] = "requireRole"
          /\ Route(kind)[3] = "handler"
      BY <1>2, <2>2
    <2> QED BY <1>4, <2>2, <2>3
  <1>5. CASE kind \in {"probe", "public", "preflight", "sensitive", "unknown"}
    BY <1>1, <1>5 DEF Route
  <1> QED BY <1>3, <1>4, <1>5 DEF Kinds

LEMMA Frame ==
  ASSUME NEW kind \in Kinds
  PROVE  LET server == Server(kind) IN
         /\ Len(server) = 7 + Len(Route(kind))
         /\ server[1] = "requestID" /\ server[2] = "recover" /\ server[3] = "logger"
         /\ server[4] = "securityHeaders" /\ server[5] = "cors" /\ server[6] = "rateLimit"
         /\ server[7] = "timeout"
         /\ \A i \in 8..Len(server) : server[i] = Route(kind)[i - 7]
  <1>1. Root \in Seq(FrameNames) /\ Len(Root) = 7
    BY DEF Root, FrameNames
  <1>2. Server(kind) = Root \o Route(kind)
    BY DEF Server, Chain
  <1>3. Route(kind) \in Seq(FrameNames) /\ Len(Route(kind)) \in 1..3
    BY RouteFrames
  <1>4. /\ Len(Server(kind)) = 7 + Len(Route(kind))
        /\ \A i \in 1..(7 + Len(Route(kind))) :
             Server(kind)[i] = IF i <= 7 THEN Root[i] ELSE Route(kind)[i - 7]
    <2>1. /\ Len(Root \o Route(kind)) = Len(Root) + Len(Route(kind))
          /\ \A i \in 1..(Len(Root) + Len(Route(kind))) :
               (Root \o Route(kind))[i] =
                  IF i <= Len(Root) THEN Root[i] ELSE Route(kind)[i - Len(Root)]
      BY <1>1, <1>3, ConcatProperties
    <2> QED BY <1>1, <1>2, <2>1
  <1>5. \A i \in 1..7 : Server(kind)[i] = Root[i]
    BY <1>3, <1>4
  <1>6. \A i \in 8..Len(Server(kind)) : Server(kind)[i] = Route(kind)[i - 7]
    BY <1>3, <1>4
  <1>7. /\ Root[1] = "requestID" /\ Root[2] = "recover" /\ Root[3] = "logger"
        /\ Root[4] = "securityHeaders" /\ Root[5] = "cors" /\ Root[6] = "rateLimit"
        /\ Root[7] = "timeout"
    BY DEF Root
  <1> HIDE DEF Root
  <1> QED BY <1>4, <1>5, <1>6, <1>7

\* The same, read from the name: where the frame of each name can be.
LEMMA Places ==
  ASSUME NEW kind \in Kinds, NEW i \in 1..Len(Server(kind))
  PROVE  LET name == Server(kind)[i] IN
         /\ name = "requestID" <=> i = 1
         /\ name = "recover" <=> i = 2
         /\ name = "logger" <=> i = 3
         /\ name = "securityHeaders" <=> i = 4
         /\ name = "cors" <=> i = 5
         /\ name = "rateLimit" <=> i = 6
         /\ name = "timeout" <=> i = 7
         /\ name = "readiness" => i = 8 /\ kind = "probe"
         /\ name = "notFound" => i = 8 /\ kind = "unknown"
         /\ name = "authRateLimit" => i = 8 /\ kind = "sensitive"
         /\ name = "requireAuth" => i = 8 /\ kind \in {"user", "admin"}
         /\ name = "requireRole" => i = 9 /\ kind = "admin"
         /\ name = "handler" => /\ i >= 8 /\ i = Len(Server(kind)) /\ kind # "unknown"
                                /\ kind \in {"sensitive", "user", "admin"} => i >= 9
                                /\ kind = "admin" => i >= 10
         /\ i < Len(Server(kind)) <=> name \notin {"readiness", "notFound", "handler"}
  <1> DEFINE name == Server(kind)[i]
             n == Len(Server(kind))
             k == Len(Route(kind))
  <1>1. k \in 1..3 /\ n = 7 + k /\ i \in 1..n
    BY RouteFrames, Frame
  <1>2. CASE i <= 7
    <2>1. i = 1 \/ i = 2 \/ i = 3 \/ i = 4 \/ i = 5 \/ i = 6 \/ i = 7
      BY <1>1, <1>2
    <2>2. /\ i = 1 => name = "requestID"
          /\ i = 2 => name = "recover"
          /\ i = 3 => name = "logger"
          /\ i = 4 => name = "securityHeaders"
          /\ i = 5 => name = "cors"
          /\ i = 6 => name = "rateLimit"
          /\ i = 7 => name = "timeout"
      BY Frame
    <2> HIDE DEF name, n, k
    <2>3. i < n
      BY <1>1, <1>2
    <2>4. /\ name = "requestID" <=> i = 1
          /\ name = "recover" <=> i = 2
          /\ name = "logger" <=> i = 3
          /\ name = "securityHeaders" <=> i = 4
          /\ name = "cors" <=> i = 5
          /\ name = "rateLimit" <=> i = 6
          /\ name = "timeout" <=> i = 7
          /\ name \notin {"readiness", "notFound", "authRateLimit", "requireAuth",
                          "requireRole", "handler"}
      BY <2>1, <2>2
    <2>5. i < n <=> name \notin {"readiness", "notFound", "handler"}
      BY <2>3, <2>4
    <2> QED BY <2>4, <2>5 DEF name, n
  <1>3. CASE i >= 8
    <2> DEFINE j == i - 7
    <2>1. /\ Server(kind)[i] = Route(kind)[j] /\ j \in 1..Len(Route(kind)) /\ i = j + 7
          /\ j = 1 \/ j = 2 \/ j = 3
      BY <1>1, <1>3, Frame
    <2> HIDE DEF j
    <2>2. /\ kind = "probe" => k = 1 /\ j = 1 /\ name = "readiness"
          /\ kind = "unknown" => k = 1 /\ j = 1 /\ name = "notFound"
          /\ kind \in {"public", "preflight"} => k = 1 /\ j = 1 /\ name = "handler"
          /\ kind = "sensitive" => /\ k = 2 /\ j \in 1..2
                                   /\ j = 1 => name = "authRateLimit"
                                   /\ j = 2 => name = "handler"
          /\ kind = "user" => /\ k = 2 /\ j \in 1..2
                              /\ j = 1 => name = "requireAuth"
                              /\ j = 2 => name = "handler"
          /\ kind = "admin" => /\ k = 3 /\ j \in 1..3
                               /\ j = 1 => name = "requireAuth"
                               /\ j = 2 => name = "requireRole"
                               /\ j = 3 => name = "handler"
      BY <1>1, <2>1, RouteFrames
    <2>3. i = j + 7 /\ n = 7 + k /\ j \in 1..3
      BY <1>1, <2>1
    <2> HIDE DEF name, n, k
    <2>4. /\ name \notin {"requestID", "recover", "logger", "securityHeaders", "cors",
                          "rateLimit", "timeout"}
          /\ name = "readiness" => i = 8 /\ kind = "probe"
          /\ name = "notFound" => i = 8 /\ kind = "unknown"
          /\ name = "authRateLimit" => i = 8 /\ kind = "sensitive"
          /\ name = "requireAuth" => i = 8 /\ kind \in {"user", "admin"}
          /\ name = "requireRole" => i = 9 /\ kind = "admin"
          /\ name = "handler" => /\ i >= 8 /\ i = n /\ kind # "unknown"
                                 /\ kind \in {"sensitive", "user", "admin"} => i >= 9
                                 /\ kind = "admin" => i >= 10
          /\ i < n <=> name \notin {"readiness", "notFound", "handler"}
      BY <2>2, <2>3 DEF Kinds
    <2>5. i # 1 /\ i # 2 /\ i # 3 /\ i # 4 /\ i # 5 /\ i # 6 /\ i # 7
      BY <1>3, <2>3
    <2> QED BY <2>4, <2>5 DEF name, n
  <1> QED BY <1>1, <1>2, <1>3

LEMMA FrameCount ==
  ASSUME NEW q \in Requests
  PROVE  q.kind \in Kinds /\ q.depth \in 0..10 /\ Frames(q) \in 8..10
  <1>1. q.kind \in Kinds /\ q.depth \in 0..10
    BY DEF Requests
  <1>2. Len(Server(q.kind)) = 7 + Len(Route(q.kind)) /\ Len(Route(q.kind)) \in 1..3
    BY <1>1, Frame, RouteFrames
  <1> DEFINE n == Len(Server(q.kind))
             k == Len(Route(q.kind))
  <1> HIDE DEF n, k
  <1>3. n \in 8..10
    <2>1. n = 7 + k /\ k \in 1..3
      BY <1>2 DEF n, k
    <2> QED BY <2>1
  <1> QED BY <1>1, <1>3 DEF Frames, n

\* What is written inside of the logger's frame is recorded by it.
LEMMA WithinLogger ==
  ASSUME NEW q \in Requests, q.depth <= Frames(q)
  PROVE  Within(q, "logger") <=> q.depth >= 3
  <1>1. q.kind \in Kinds /\ q.depth \in 0..10 /\ Frames(q) \in 8..10
    BY FrameCount
  <1>2. \A i \in 1..q.depth : Server(q.kind)[i] = "logger" <=> i = 3
    <2> SUFFICES ASSUME NEW i \in 1..q.depth PROVE Server(q.kind)[i] = "logger" <=> i = 3
      OBVIOUS
    <2>1. i \in 1..Frames(q)
      BY <1>1
    <2>2. i \in 1..Len(Server(q.kind))
      BY <2>1 DEF Frames
    <2> QED BY <1>1, <2>2, Places
  <1> QED BY <1>1, <1>2 DEF Within

LEMMA WrittenFields ==
  ASSUME NEW q \in Requests, q.depth <= Frames(q), NEW status \in Nat, NEW body \in Bodies
  PROVE  LET w == Written(q, status, body) IN
         /\ w \in Requests
         /\ w.kind = q.kind /\ w.origin = q.origin /\ w.caller = q.caller /\ w.mode = q.mode
         /\ w.depth = q.depth /\ w.headers = q.headers /\ w.deadline = q.deadline
         /\ w.user = q.user /\ w.log = q.log /\ w.counted = q.counted /\ w.ran = q.ran
         /\ w.panicked = q.panicked
         /\ w.recorded = IF q.depth >= 3 THEN status ELSE q.recorded
         /\ w.sent.status = IF q.sent.status = 0 THEN status ELSE q.sent.status
         /\ w.sent.headers = IF q.sent.status = 0 THEN q.headers ELSE q.sent.headers
         /\ w.sent.body = IF q.sent.status = 0 THEN body ELSE "mixed"
  <1> DEFINE answer == IF q.sent.status = 0
                       THEN [status |-> status, headers |-> q.headers, body |-> body]
                       ELSE [q.sent EXCEPT !.body = "mixed"]
             noted == IF Within(q, "logger") THEN status ELSE q.recorded
  <1>1. answer \in Answers /\ noted \in Nat
    <2>1. q.sent \in Answers /\ q.headers \in SUBSET Headers /\ q.recorded \in Nat
      BY DEF Requests
    <2>2. [q.sent EXCEPT !.body = "mixed"] \in Answers
      BY <2>1 DEF Answers, Bodies
    <2> QED BY <2>1, <2>2 DEF Answers
  <1>2. Written(q, status, body) = [q EXCEPT !.recorded = noted, !.sent = answer]
    BY DEF Written, Requests
  <1>3. noted = IF q.depth >= 3 THEN status ELSE q.recorded
    BY WithinLogger
  <1>4. /\ answer.status = IF q.sent.status = 0 THEN status ELSE q.sent.status
        /\ answer.headers = IF q.sent.status = 0 THEN q.headers ELSE q.sent.headers
        /\ answer.body = IF q.sent.status = 0 THEN body ELSE "mixed"
    <2>1. q.sent \in Answers
      BY DEF Requests
    <2> QED BY <2>1 DEF Answers
  <1> HIDE DEF answer, noted
  <1> QED BY <1>1, <1>2, <1>3, <1>4 DEF Requests

\* The turning point: an answer is written, and its call returns.
LEMMA AnswerInv ==
  ASSUME NEW q \in Requests, NEW status \in Nat \ {0}, NEW body \in Bodies,
         q.depth <= Frames(q), q.depth >= 3, q.sent = NotSent, q.log = <<>>, ~q.panicked,
         Dressed(q, q.headers), q.ran => Guarded(q),
         q.depth = Frames(q) => q.ran \/ q.kind = "unknown",
         ~q.ran => /\ status = 401 => q.caller \in {"none", "invalid"}
                   /\ status = 403 => \/ q.caller = "disabled"
                                      \/ q.kind = "admin" /\ q.caller = "user"
                   /\ q.kind = "preflight" => status = 204 /\ q.counted = {}
  PROVE  RequestInv([Written(q, status, body) EXCEPT !.mode = "returning"])
  <1> DEFINE w == Written(q, status, body)
             a == [w EXCEPT !.mode = "returning"]
  <1>1. /\ w \in Requests
        /\ w.kind = q.kind /\ w.origin = q.origin /\ w.caller = q.caller
        /\ w.depth = q.depth /\ w.headers = q.headers /\ w.deadline = q.deadline
        /\ w.user = q.user /\ w.log = q.log /\ w.counted = q.counted /\ w.ran = q.ran
        /\ w.panicked = q.panicked /\ w.recorded = status
        /\ w.sent.status = status /\ w.sent.headers = q.headers
    <2>1. q.sent.status = 0 /\ status \in Nat
      BY DEF NotSent
    <2> QED BY <2>1, WrittenFields
  <1> HIDE DEF w
  <1>2. /\ a \in Requests /\ a.mode = "returning"
        /\ a.kind = q.kind /\ a.origin = q.origin /\ a.caller = q.caller
        /\ a.depth = q.depth /\ a.headers = q.headers /\ a.deadline = q.deadline
        /\ a.user = q.user /\ a.log = q.log /\ a.counted = q.counted /\ a.ran = q.ran
        /\ a.panicked = q.panicked /\ a.recorded = status
        /\ a.sent.status = status /\ a.sent.headers = q.headers
    BY <1>1 DEF Requests
  <1> HIDE DEF a
  <1>3. Frames(a) = Frames(q) /\ q.depth \in Nat
    <2>1. Frames(a) = Frames(q)
      BY <1>2 DEF Frames
    <2>2. q.depth \in 0..10
      BY FrameCount
    <2> QED BY <2>1, <2>2
  <1>4. WayBack(a)
    BY <1>2, <1>3 DEF WayBack, Dressed, Caused, NotYetLogged
  <1>5. a.ran => Guarded(a)
    BY <1>2 DEF Guarded
  <1>6. RequestInv(a)
    BY <1>2, <1>4, <1>5 DEF RequestInv
  <1> QED BY <1>6 DEF a, w

\* e is the request q in the next frame, but for what the frame sets in the request,
\* in its headers and in its context.
Inner(q, e) ==
  /\ e \in Requests /\ e.depth = q.depth + 1 /\ e.mode = q.mode
  /\ e.kind = q.kind /\ e.origin = q.origin /\ e.caller = q.caller
  /\ e.sent = q.sent /\ e.log = q.log /\ e.ran = q.ran /\ e.panicked = q.panicked

\* A frame is entered that calls the next one: it has to have done its own part.
LEMMA PassedInv ==
  ASSUME NEW q \in Requests, WayDown(q), q.mode = "calling", NEW e, Inner(q, e),
         q.depth + 1 < Frames(q),
         q.headers \subseteq e.headers /\ q.counted \subseteq e.counted,
         q.deadline => e.deadline,
         e.depth = 1 => "requestID" \in e.headers,
         e.depth = 4 => "security" \in e.headers,
         e.depth = 5 => (q.origin = "allowed" => "cors" \in e.headers) /\ q.kind # "preflight",
         e.depth = 6 => "global" \in e.counted,
         e.depth # 6 /\ e.depth # 8 => e.counted = q.counted,
         e.depth = 7 => e.deadline,
         e.depth = 8 => /\ q.kind = "sensitive" => "auth" \in e.counted
                        /\ q.kind \in {"user", "admin"} => e.user = q.caller,
         e.depth # 8 => e.user = q.user,
         e.depth = 9 => (q.kind = "admin" => e.user = "admin")
  PROVE  RequestInv(e)
  <1>1. q.depth \in 0..10 /\ e.depth \in 0..10 /\ Frames(e) = Frames(q) /\ Frames(q) \in 8..10
    BY FrameCount DEF Frames, Inner
  <1>2. /\ e.depth >= 1 => "requestID" \in e.headers
        /\ e.depth >= 4 => "security" \in e.headers
        /\ e.depth >= 5 => (e.origin = "allowed" => "cors" \in e.headers)
        /\ e.depth >= 5 => e.kind # "preflight"
    BY <1>1 DEF WayDown, Inner
  <1>3. /\ e.depth <= 5 => e.counted = {}
        /\ e.depth >= 6 => "global" \in e.counted
        /\ e.depth >= 7 => e.deadline
    BY <1>1 DEF WayDown, Inner
  <1>4. /\ e.depth >= 8 => /\ e.kind = "sensitive" => "auth" \in e.counted
                           /\ e.kind \in {"user", "admin"} => e.user = e.caller
        /\ e.depth >= 9 => (e.kind = "admin" => e.user = "admin")
    BY <1>1 DEF WayDown, Inner
  <1>5. WayDown(e)
    BY <1>1, <1>2, <1>3, <1>4 DEF WayDown, Inner
  <1>6. e \in Requests /\ e.mode = "calling" /\ ~e.ran
    BY DEF WayDown, Inner
  <1> QED BY <1>5, <1>6 DEF RequestInv

-----------------------------------------------------------------------------
(* The steps *)

LEMMA BecomeInv ==
  ASSUME PipelineInv, NEW r \in Reqs, NEW q, RequestInv(q), Become(r, q)
  PROVE  PipelineInv'
  <1>1. req' = [req EXCEPT ![r] = q] /\ DOMAIN req = Reqs
    BY DEF Become, PipelineInv
  <1>2. DOMAIN req' = Reqs /\ \A s \in Reqs : req'[s] = IF s = r THEN q ELSE req[s]
    BY <1>1
  <1>3. \A s \in Reqs : RequestInv(req'[s])
    BY <1>2 DEF PipelineInv
  <1> QED BY <1>2, <1>3 DEF PipelineInv

\* The request q calls the frame name, and e is the same request in that frame.
Calls(q, name) ==
  /\ q \in Requests /\ WayDown(q) /\ q.mode = "calling" /\ ~q.ran
  /\ q.kind \in Kinds /\ q.depth \in 0..9 /\ q.depth < Frames(q)
  /\ q.depth + 1 \in 1..Len(Server(q.kind)) /\ Server(q.kind)[q.depth + 1] = name

Enters(q, e) ==
  /\ Inner(q, e)
  /\ e.headers = q.headers /\ e.counted = q.counted /\ e.deadline = q.deadline
  /\ e.user = q.user
  /\ e.depth <= Frames(e) /\ e.depth <= Frames(q)

LEMMA Calling ==
  ASSUME PipelineInv, NEW r \in Reqs, NEW name, At(r, name)
  PROVE  Calls(req[r], name) /\ Enters(req[r], Entered(r))
  <1> DEFINE q == req[r]
             e == Entered(r)
  <1>1. q \in Requests /\ WayDown(q) /\ q.mode = "calling" /\ Server(q.kind)[q.depth + 1] = name
    BY DEF PipelineInv, RequestInv, At
  <1>2. q.kind \in Kinds /\ q.depth \in 0..10 /\ Frames(q) \in 8..10 /\ q.depth < Frames(q) /\ ~q.ran
    BY <1>1, FrameCount DEF WayDown
  <1>3. e = [q EXCEPT !.depth = q.depth + 1]
    BY DEF Entered
  <1>4. Frames(q) = Len(Server(q.kind))
    BY DEF Frames
  <1> HIDE DEF q, e
  <1>5. q.depth + 1 \in 1..Frames(q) /\ q.depth + 1 \in 0..10 /\ q.depth \in 0..9
    BY <1>2
  <1>6. /\ e \in Requests /\ e.depth = q.depth + 1 /\ e.mode = q.mode
        /\ e.kind = q.kind /\ e.origin = q.origin /\ e.caller = q.caller
        /\ e.sent = q.sent /\ e.log = q.log /\ e.ran = q.ran /\ e.panicked = q.panicked
        /\ e.headers = q.headers /\ e.counted = q.counted /\ e.deadline = q.deadline
        /\ e.user = q.user
    BY <1>1, <1>3, <1>5 DEF Requests
  <1>7. Frames(e) = Frames(q)
    BY <1>6 DEF Frames
  <1>8. e.depth <= Frames(e) /\ e.depth <= Frames(q)
    BY <1>2, <1>6, <1>7
  <1>9. Calls(q, name)
    BY <1>1, <1>2, <1>4, <1>5 DEF Calls
  <1>10. Enters(q, e)
    BY <1>6, <1>8 DEF Enters, Inner
  <1> QED BY <1>9, <1>10 DEF q, e

\* How deep the frame of each name is, and whether it calls another one.
LEMMA DepthOf ==
  ASSUME NEW q, NEW name, Calls(q, name)
  PROVE  /\ name = "requestID" => q.depth = 0
         /\ name = "recover" => q.depth = 1
         /\ name = "logger" => q.depth = 2
         /\ name = "securityHeaders" => q.depth = 3
         /\ name = "cors" => q.depth = 4
         /\ name = "rateLimit" => q.depth = 5
         /\ name = "timeout" => q.depth = 6
         /\ name = "readiness" => q.depth = 7 /\ q.kind = "probe"
         /\ name = "notFound" => q.depth = 7 /\ q.kind = "unknown"
         /\ name = "authRateLimit" => q.depth = 7 /\ q.kind = "sensitive"
         /\ name = "requireAuth" => q.depth = 7 /\ q.kind \in {"user", "admin"}
         /\ name = "requireRole" => q.depth = 8 /\ q.kind = "admin"
         /\ name = "handler" => /\ q.depth >= 7
                                /\ q.kind \in {"sensitive", "user", "admin"} => q.depth >= 8
                                /\ q.kind = "admin" => q.depth >= 9
         /\ name \notin {"readiness", "notFound", "handler"} => q.depth + 1 < Frames(q)
  <1> DEFINE i == q.depth + 1
             n == Len(Server(q.kind))
  <1>1. q.kind \in Kinds /\ q.depth \in 0..9 /\ i \in 1..n /\ Server(q.kind)[i] = name
    BY DEF Calls
  <1>2. n = Frames(q)
    BY DEF Frames
  <1>3. q.depth = i - 1 /\ i \in Int
    BY <1>1
  <1> HIDE DEF i
  <1>4. /\ name = "requestID" <=> i = 1
        /\ name = "recover" <=> i = 2
        /\ name = "logger" <=> i = 3
        /\ name = "securityHeaders" <=> i = 4
        /\ name = "cors" <=> i = 5
        /\ name = "rateLimit" <=> i = 6
        /\ name = "timeout" <=> i = 7
        /\ name = "readiness" => i = 8 /\ q.kind = "probe"
        /\ name = "notFound" => i = 8 /\ q.kind = "unknown"
        /\ name = "authRateLimit" => i = 8 /\ q.kind = "sensitive"
        /\ name = "requireAuth" => i = 8 /\ q.kind \in {"user", "admin"}
        /\ name = "requireRole" => i = 9 /\ q.kind = "admin"
        /\ name = "handler" => /\ i >= 8
                               /\ q.kind \in {"sensitive", "user", "admin"} => i >= 9
                               /\ q.kind = "admin" => i >= 10
        /\ i < n <=> name \notin {"readiness", "notFound", "handler"}
    BY <1>1, Places
  <1> HIDE DEF n
  <1> QED BY <1>2, <1>3, <1>4 DEF i

LEMMA RequestIDInv == ASSUME PipelineInv, NEW r \in Reqs, RequestID(r) PROVE PipelineInv'
  <1> DEFINE q == req[r]
             e == Entered(r)
             p == [e EXCEPT !.headers = e.headers \cup {"requestID"}]
  <1>1. Calls(q, "requestID") /\ Enters(q, e) /\ Become(r, p)
    BY Calling DEF RequestID
  <1> HIDE DEF q, e
  <1>2. q.depth = 0 /\ q.depth + 1 < Frames(q)
    BY <1>1, DepthOf
  <1>3. /\ Inner(q, p) /\ p.headers = q.headers \cup {"requestID"} /\ p.counted = q.counted
        /\ p.deadline = q.deadline /\ p.user = q.user
    BY <1>1 DEF Enters, Inner, Requests, Headers
  <1> HIDE DEF p
  <1>4. RequestInv(p)
    BY <1>1, <1>2, <1>3, PassedInv DEF Calls, Inner
  <1> QED BY <1>1, <1>4, BecomeInv

LEMMA DeferringInv == ASSUME PipelineInv, NEW r \in Reqs, Deferring(r) PROVE PipelineInv'
  <1> DEFINE q == req[r]
             e == Entered(r)
  <1>1. PICK name \in {"recover", "logger"} : At(r, name)
    BY DEF Deferring
  <1>2. Calls(q, name) /\ Enters(q, e) /\ Become(r, e)
    BY <1>1, Calling DEF Deferring
  <1> HIDE DEF q, e
  <1>3. q.depth \in 1..2 /\ q.depth + 1 < Frames(q)
    BY <1>2, DepthOf
  <1>4. RequestInv(e)
    BY <1>2, <1>3, PassedInv DEF Calls, Enters, Inner
  <1> QED BY <1>2, <1>4, BecomeInv

LEMMA SecurityHeadersInv ==
  ASSUME PipelineInv, NEW r \in Reqs, SecurityHeaders(r) PROVE PipelineInv'
  <1> DEFINE q == req[r]
             e == Entered(r)
             p == [e EXCEPT !.headers = e.headers \cup {"security"}]
  <1>1. Calls(q, "securityHeaders") /\ Enters(q, e) /\ Become(r, p)
    BY Calling DEF SecurityHeaders
  <1> HIDE DEF q, e
  <1>2. q.depth = 3 /\ q.depth + 1 < Frames(q)
    BY <1>1, DepthOf
  <1>3. /\ Inner(q, p) /\ p.headers = q.headers \cup {"security"} /\ p.counted = q.counted
        /\ p.deadline = q.deadline /\ p.user = q.user
    BY <1>1 DEF Enters, Inner, Requests, Headers
  <1> HIDE DEF p
  <1>4. RequestInv(p)
    BY <1>1, <1>2, <1>3, PassedInv DEF Calls, Inner
  <1> QED BY <1>1, <1>4, BecomeInv

LEMMA CORSInv == ASSUME PipelineInv, NEW r \in Reqs, CORS(r) PROVE PipelineInv'
  <1> DEFINE q == req[r]
             e == Entered(r)
             more == IF q.origin = "allowed" THEN e.headers \cup {"cors"} ELSE e.headers
             p == [e EXCEPT !.headers = more]
  <1>1. /\ Calls(q, "cors") /\ Enters(q, e)
        /\ Become(r, IF q.kind = "preflight"
                     THEN [Written(p, 204, "none") EXCEPT !.mode = "returning"] ELSE p)
    BY Calling DEF CORS
  <1> HIDE DEF q, e
  <1>2. q.depth = 4 /\ q.depth + 1 < Frames(q)
    BY <1>1, DepthOf
  <1>3. /\ Inner(q, p) /\ q.headers \subseteq p.headers /\ p.counted = q.counted
        /\ q.origin = "allowed" => "cors" \in p.headers
        /\ p.deadline = q.deadline /\ p.user = q.user
    <2>1. more \in SUBSET Headers /\ q.headers \subseteq more /\ (q.origin = "allowed" => "cors" \in more)
      BY <1>1 DEF Enters, Inner, Requests, Headers
    <2> HIDE DEF more
    <2> QED BY <1>1, <2>1 DEF Enters, Inner, Requests
  <1> HIDE DEF p
  <1>4. q.kind # "preflight" => RequestInv(p)
    BY <1>1, <1>2, <1>3, PassedInv DEF Calls, Inner
  <1>5. q.kind = "preflight" => RequestInv([Written(p, 204, "none") EXCEPT !.mode = "returning"])
    <2>1. /\ p \in Requests /\ p.depth <= Frames(p) /\ p.depth >= 3 /\ p.sent = NotSent
          /\ p.log = <<>> /\ ~p.panicked /\ ~p.ran /\ p.counted = {} /\ p.depth # Frames(p)
      <3>1. Frames(p) = Frames(q)
        BY <1>3 DEF Inner, Frames
      <3>2. q.sent = NotSent /\ q.log = <<>> /\ ~q.panicked /\ ~q.ran /\ q.counted = {}
        BY <1>1, <1>2 DEF Calls, WayDown
      <3> QED BY <1>1, <1>2, <1>3, <3>1, <3>2 DEF Inner, Enters
    <2>2. Dressed(p, p.headers)
      BY <1>1, <1>2, <1>3 DEF Dressed, Inner, Calls, WayDown
    <2>3. "none" \in Bodies
      BY DEF Bodies
    <2>4. /\ p.ran => Guarded(p)
          /\ p.depth = Frames(p) => p.ran \/ p.kind = "unknown"
          /\ 204 \in Nat \ {0} /\ 204 # 401 /\ 204 # 403
      BY <2>1
    <2> QED BY <2>1, <2>2, <2>3, <2>4, AnswerInv
  <1> QED BY <1>1, <1>4, <1>5, BecomeInv

\* A limiter that refuses.
LEMMA TooManyInv ==
  ASSUME PipelineInv, NEW r \in Reqs,
         NEW name \in {"rateLimit", "authRateLimit"}, At(r, name), TooMany(r)
  PROVE  PipelineInv'
  <1> DEFINE q == req[r]
             e == Entered(r)
             p == [e EXCEPT !.headers = e.headers \cup {"retryAfter"}]
  <1>1. /\ Calls(q, name) /\ Enters(q, e)
        /\ Become(r, [Written(p, 429, "failure") EXCEPT !.mode = "returning"])
    BY Calling DEF TooMany, Refused
  <1> HIDE DEF q, e
  <1>2. q.depth \in {5, 7} /\ q.depth + 1 < Frames(q)
    BY <1>1, DepthOf
  <1>3. Inner(q, p) /\ q.headers \subseteq p.headers
    BY <1>1 DEF Enters, Inner, Requests, Headers
  <1> HIDE DEF p
  <1>4. /\ p \in Requests /\ p.depth <= Frames(p) /\ p.depth >= 3 /\ p.sent = NotSent
        /\ p.log = <<>> /\ ~p.panicked /\ ~p.ran /\ p.kind # "preflight" /\ p.depth # Frames(p)
    BY <1>1, <1>2, <1>3 DEF Inner, Enters, Calls, WayDown, Frames
  <1>5. Dressed(p, p.headers)
    BY <1>1, <1>2, <1>3 DEF Dressed, Inner, Calls, WayDown
  <1>6. "failure" \in Bodies
    BY DEF Bodies
  <1>7. RequestInv([Written(p, 429, "failure") EXCEPT !.mode = "returning"])
    <2>1. \A status \in Nat \ {0} : status # 401 /\ status # 403 =>
            RequestInv([Written(p, status, "failure") EXCEPT !.mode = "returning"])
      BY <1>4, <1>5, <1>6, AnswerInv
    <2> QED BY <2>1
  <1> QED BY <1>1, <1>7, BecomeInv

\* A limiter that lets the request pass has counted it.
LEMMA AdmitInv ==
  ASSUME PipelineInv, NEW r \in Reqs, NEW name, NEW counter \in {"global", "auth"},
         At(r, name), Admit(r, counter),
         <<name, counter>> \in {<<"rateLimit", "global">>, <<"authRateLimit", "auth">>}
  PROVE  PipelineInv'
  <1> DEFINE q == req[r]
             e == Entered(r)
             p == [e EXCEPT !.counted = e.counted \cup {counter}]
  <1>1. Calls(q, name) /\ Enters(q, e) /\ Become(r, p)
    BY Calling DEF Admit
  <1> HIDE DEF q, e
  <1>2. /\ name = "rateLimit" => q.depth = 5
        /\ name = "authRateLimit" => q.depth = 7 /\ q.kind = "sensitive"
        /\ q.depth + 1 < Frames(q)
    BY <1>1, DepthOf
  <1>3. /\ Inner(q, p) /\ p.headers = q.headers /\ p.counted = q.counted \cup {counter}
        /\ p.deadline = q.deadline /\ p.user = q.user
    BY <1>1 DEF Enters, Inner, Requests
  <1> HIDE DEF p
  <1>4. RequestInv(p)
    BY <1>1, <1>2, <1>3, PassedInv DEF Calls, Inner
  <1> QED BY <1>1, <1>4, BecomeInv

LEMMA TimeoutInv == ASSUME PipelineInv, NEW r \in Reqs, Timeout(r) PROVE PipelineInv'
  <1> DEFINE q == req[r]
             e == Entered(r)
             p == [e EXCEPT !.deadline = TRUE]
  <1>1. Calls(q, "timeout") /\ Enters(q, e) /\ Become(r, p)
    BY Calling DEF Timeout
  <1> HIDE DEF q, e
  <1>2. q.depth = 6 /\ q.depth + 1 < Frames(q)
    BY <1>1, DepthOf
  <1>3. /\ Inner(q, p) /\ p.headers = q.headers /\ p.counted = q.counted
        /\ p.deadline = TRUE /\ p.user = q.user
    BY <1>1 DEF Enters, Inner, Requests
  <1> HIDE DEF p
  <1>4. RequestInv(p)
    BY <1>1, <1>2, <1>3, PassedInv DEF Calls, Inner
  <1> QED BY <1>1, <1>4, BecomeInv

\* A frame below CORS that answers by itself, with what it has in front of it.
LEMMA RefusalInv ==
  ASSUME NEW q, NEW e, NEW name, Calls(q, name), Enters(q, e),
         name \in {"notFound", "requireAuth", "requireRole"},
         NEW status \in Nat \ {0}, NEW body \in Bodies,
         status = 401 => q.caller \in {"none", "invalid"},
         status = 403 => q.caller = "disabled" \/ (q.kind = "admin" /\ q.caller = "user")
  PROVE  RequestInv([Written(e, status, body) EXCEPT !.mode = "returning"])
  <1>1. q.depth >= 7 /\ q.depth \in Nat /\ (q.depth + 1 < Frames(q) \/ name = "notFound")
    BY DepthOf DEF Calls
  <1>2. /\ e \in Requests /\ e.depth <= Frames(e) /\ e.depth >= 3 /\ e.sent = NotSent
        /\ e.log = <<>> /\ ~e.panicked /\ ~e.ran /\ e.kind # "preflight"
        /\ e.caller = q.caller /\ e.kind = q.kind
        /\ e.depth = Frames(e) => e.kind = "unknown"
    <2>1. name = "notFound" => q.kind = "unknown"
      BY DepthOf
    <2>2. Frames(e) = Frames(q)
      BY DEF Enters, Inner, Frames
    <2> QED BY <1>1, <2>1, <2>2 DEF Enters, Inner, Calls, WayDown
  <1>3. Dressed(e, e.headers)
    BY <1>1 DEF Dressed, Enters, Inner, Calls, WayDown
  <1> QED BY <1>2, <1>3, AnswerInv

LEMMA NotFoundInv == ASSUME PipelineInv, NEW r \in Reqs, NotFound(r) PROVE PipelineInv'
  <1>1. /\ Calls(req[r], "notFound") /\ Enters(req[r], Entered(r))
        /\ Become(r, [Written(Entered(r), 404, "plain") EXCEPT !.mode = "returning"])
    BY Calling DEF NotFound
  <1>2. "plain" \in Bodies
    BY DEF Bodies
  <1>3. RequestInv([Written(Entered(r), 404, "plain") EXCEPT !.mode = "returning"])
    BY <1>1, <1>2, RefusalInv
  <1> QED BY <1>1, <1>3, BecomeInv

LEMMA RequireAuthInv == ASSUME PipelineInv, NEW r \in Reqs, RequireAuth(r) PROVE PipelineInv'
  <1> DEFINE q == req[r]
             e == Entered(r)
             p == [e EXCEPT !.user = q.caller]
  <1>1. Calls(q, "requireAuth") /\ Enters(q, e)
    BY Calling DEF RequireAuth
  <1>2. \/ q.caller \in {"none", "invalid"} /\ Become(r, Refused(e, 401))
        \/ q.caller = "disabled" /\ Become(r, Refused(e, 403))
        \/ q.caller \in {"user", "admin"} /\ Become(r, p)
        \/ Become(r, Refused(e, 500))
    BY DEF RequireAuth
  <1> HIDE DEF q, e
  <1>3. "failure" \in Bodies
    BY DEF Bodies
  <1>4. /\ q.caller \in {"none", "invalid"} => RequestInv(Refused(e, 401))
        /\ q.caller = "disabled" => RequestInv(Refused(e, 403))
        /\ RequestInv(Refused(e, 500))
    BY <1>1, <1>3, RefusalInv DEF Refused
  <1>5. RequestInv(p)
    <2>1. q.depth = 7 /\ q.depth + 1 < Frames(q) /\ q.kind \in {"user", "admin"}
      BY <1>1, DepthOf
    <2>2. /\ Inner(q, p) /\ p.headers = q.headers /\ p.counted = q.counted
          /\ p.deadline = q.deadline /\ p.user = q.caller
      <3>1. q.caller \in CallerKinds
        BY <1>1 DEF Calls, Requests
      <3> QED BY <1>1, <3>1 DEF Enters, Inner, Requests
    <2> HIDE DEF p
    <2> QED BY <1>1, <2>1, <2>2, PassedInv DEF Calls, Inner
  <1> HIDE DEF p
  <1> QED BY <1>2, <1>4, <1>5, BecomeInv

LEMMA RequireRoleInv == ASSUME PipelineInv, NEW r \in Reqs, RequireRole(r) PROVE PipelineInv'
  <1> DEFINE q == req[r]
             e == Entered(r)
  <1>1. Calls(q, "requireRole") /\ Enters(q, e)
    BY Calling DEF RequireRole
  <1>2. \/ q.user = "none" /\ Become(r, Refused(e, 401))
        \/ q.user = "user" /\ Become(r, Refused(e, 403))
        \/ q.user = "admin" /\ Become(r, e)
    BY DEF RequireRole
  <1> HIDE DEF q, e
  <1>3. q.depth = 8 /\ q.depth + 1 < Frames(q) /\ q.kind = "admin"
    BY <1>1, DepthOf
  <1>4. q.user = q.caller
    BY <1>1, <1>3 DEF Calls, WayDown
  <1>5. "failure" \in Bodies
    BY DEF Bodies
  <1>6. ASSUME q.user = "none" PROVE RequestInv(Refused(e, 401))
    <2>1. q.caller \in {"none", "invalid"}
      BY <1>4, <1>6
    <2> QED BY <1>1, <1>5, <2>1, RefusalInv DEF Refused
  <1>7. ASSUME q.user = "user" PROVE RequestInv(Refused(e, 403))
    <2>1. q.kind = "admin" /\ q.caller = "user"
      BY <1>3, <1>4, <1>7
    <2> QED BY <1>1, <1>5, <2>1, RefusalInv DEF Refused
  <1>8. q.user = "admin" => RequestInv(e)
    BY <1>1, <1>3, PassedInv DEF Calls, Enters, Inner
  <1> QED BY <1>2, <1>6, <1>7, <1>8, BecomeInv

\* A handler that runs has everything that guards it around it.
LEMMA HandlerRuns ==
  ASSUME NEW q, NEW e, NEW name \in {"handler", "readiness"}, Calls(q, name), Enters(q, e)
  PROVE  LET h == [e EXCEPT !.ran = TRUE] IN
         /\ h \in Requests /\ h.depth <= Frames(h) /\ h.depth >= 8 /\ h.depth \in Nat
         /\ h.sent = NotSent /\ h.log = <<>> /\ ~h.panicked /\ h.ran
         /\ Dressed(h, h.headers) /\ Guarded(h)
  <1> DEFINE h == [e EXCEPT !.ran = TRUE]
  <1>1. /\ q.depth >= 7 /\ q.depth \in Nat
        /\ q.kind \in {"sensitive", "user", "admin"} => q.depth >= 8
        /\ q.kind = "admin" => q.depth >= 9
    BY DepthOf DEF Calls
  <1>2. /\ h \in Requests /\ h.ran /\ h.depth = q.depth + 1
        /\ h.kind = q.kind /\ h.origin = q.origin /\ h.caller = q.caller
        /\ h.sent = q.sent /\ h.log = q.log /\ h.panicked = q.panicked
        /\ h.headers = q.headers /\ h.counted = q.counted /\ h.deadline = q.deadline
        /\ h.user = q.user
    BY DEF Enters, Inner, Requests
  <1> HIDE DEF h
  <1>3. Frames(h) = Frames(q) /\ h.depth <= Frames(q)
    BY <1>2 DEF Frames, Enters, Inner
  <1>4. h.sent = NotSent /\ h.log = <<>> /\ ~h.panicked
    BY <1>2 DEF Calls, WayDown
  <1>5. Dressed(h, h.headers)
    BY <1>1, <1>2 DEF Dressed, Calls, WayDown
  <1>6. Guarded(h)
    BY <1>1, <1>2 DEF Guarded, Calls, WayDown
  <1>7. h.depth >= 8 /\ h.depth \in Nat
    BY <1>1, <1>2
  <1> QED BY <1>2, <1>3, <1>4, <1>5, <1>6, <1>7 DEF h

\* What a handler or the readiness check writes.
LEMMA HandlerWrites ==
  ASSUME PipelineInv, NEW r \in Reqs, NEW name \in {"handler", "readiness"}, At(r, name),
         NEW status \in Nat \ {0}, NEW body \in Bodies
  PROVE  RequestInv([Written(Running(r), status, body) EXCEPT !.mode = "returning"])
  <1> DEFINE h == Running(r)
  <1>1. Calls(req[r], name) /\ Enters(req[r], Entered(r))
    BY Calling
  <1>2. /\ h \in Requests /\ h.depth <= Frames(h) /\ h.depth >= 8 /\ h.depth \in Nat
        /\ h.sent = NotSent /\ h.log = <<>> /\ ~h.panicked /\ h.ran
        /\ Dressed(h, h.headers) /\ Guarded(h)
    BY <1>1, HandlerRuns DEF Running
  <1> HIDE DEF h
  <1>3. h.depth >= 3
    BY <1>2
  <1>4. RequestInv([Written(h, status, body) EXCEPT !.mode = "returning"])
    BY <1>2, <1>3, AnswerInv
  <1> QED BY <1>4 DEF h

LEMMA HandlerInv ==
  ASSUME PipelineInv, NEW r \in Reqs,
         \/ HandlerAnswers(r) \/ Readiness(r)
         \/ \E err \in AppStatuses \cup {Raw} : HandlerFails(r, err)
  PROVE  PipelineInv'
  <1>1. "success" \in Bodies /\ "failure" \in Bodies
    BY DEF Bodies
  <1>2. CASE HandlerAnswers(r)
    <2>1. RequestInv([Written(Running(r), 200, "success") EXCEPT !.mode = "returning"])
      BY <1>1, <1>2, HandlerWrites DEF HandlerAnswers
    <2> QED BY <1>2, <2>1, BecomeInv DEF HandlerAnswers
  <1>3. CASE Readiness(r)
    <2>1. PICK status \in {200, 503} :
            Become(r, [Written(Running(r), status, "success") EXCEPT !.mode = "returning"])
      BY <1>3 DEF Readiness
    <2>2. status \in Nat \ {0} /\ At(r, "readiness")
      BY <1>3 DEF Readiness
    <2>3. RequestInv([Written(Running(r), status, "success") EXCEPT !.mode = "returning"])
      BY <1>1, <2>2, HandlerWrites
    <2> QED BY <2>1, <2>3, BecomeInv
  <1>4. ASSUME NEW err \in AppStatuses \cup {Raw}, HandlerFails(r, err) PROVE PipelineInv'
    <2>1. ErrorStatus(err) \in Nat \ {0}
      BY PipelineAssumption DEF ErrorStatus
    <2>2. RequestInv([Written(Running(r), ErrorStatus(err), "failure") EXCEPT !.mode = "returning"])
      BY <1>1, <1>4, <2>1, HandlerWrites DEF HandlerFails
    <2> QED BY <1>4, <2>2, BecomeInv DEF HandlerFails, Refused
  <1> QED BY <1>2, <1>3, <1>4

-----------------------------------------------------------------------------
(* The way back *)

\* A request on its way back, and the frame it leaves.
LEMMA Leaving ==
  ASSUME PipelineInv, NEW r \in Reqs, req[r].mode \in {"returning", "panicking"}
  PROVE  LET q == req[r] IN
         /\ q \in Requests /\ WayBack(q) /\ (q.ran => Guarded(q))
         /\ q.depth \in 0..10 /\ q.depth <= Frames(q) /\ Frames(q) \in 8..10
         /\ q.depth > 0 =>
              /\ Innermost(r) = "logger" <=> q.depth = 3
              /\ Innermost(r) = "recover" <=> q.depth = 2
              /\ Innermost(r) = "handler" =>
                   q.depth >= 8 /\ q.depth = Frames(q) /\ q.kind # "unknown"
  <1> DEFINE q == req[r]
  <1>1. q \in Requests /\ WayBack(q) /\ (q.ran => Guarded(q))
    BY DEF PipelineInv, RequestInv
  <1>2. Innermost(r) = Server(q.kind)[q.depth]
    BY DEF Innermost
  <1> HIDE DEF q
  <1>3. q.depth \in 0..10 /\ q.depth <= Frames(q) /\ Frames(q) \in 8..10 /\ q.kind \in Kinds
    BY <1>1, FrameCount DEF WayBack
  <1>4. ASSUME q.depth > 0
        PROVE  /\ Innermost(r) = "logger" <=> q.depth = 3
               /\ Innermost(r) = "recover" <=> q.depth = 2
               /\ Innermost(r) = "handler" =>
                    q.depth >= 8 /\ q.depth = Frames(q) /\ q.kind # "unknown"
    <2>1. q.depth \in 1..Len(Server(q.kind)) /\ Frames(q) = Len(Server(q.kind))
      BY <1>3, <1>4 DEF Frames
    <2> QED BY <1>2, <1>3, <2>1, Places
  <1> QED BY <1>1, <1>3, <1>4 DEF q

LEMMA PanicInv == ASSUME PipelineInv, NEW r \in Reqs, Panic(r) PROVE PipelineInv'
  <1>1. CASE At(r, "handler") /\ Become(r, [Running(r) EXCEPT !.mode = "panicking", !.panicked = TRUE])
    <2> DEFINE h == Running(r)
               p == [h EXCEPT !.mode = "panicking", !.panicked = TRUE]
    <2>1. Calls(req[r], "handler") /\ Enters(req[r], Entered(r))
      BY <1>1, Calling
    <2>2. /\ h \in Requests /\ h.depth <= Frames(h) /\ h.depth >= 8 /\ h.depth \in Nat
          /\ h.sent = NotSent /\ h.log = <<>> /\ ~h.panicked /\ h.ran
          /\ Dressed(h, h.headers) /\ Guarded(h)
      BY <2>1, HandlerRuns DEF Running
    <2> HIDE DEF h
    <2>3. /\ p \in Requests /\ p.mode = "panicking" /\ p.panicked /\ p.ran
          /\ p.kind = h.kind /\ p.origin = h.origin /\ p.caller = h.caller /\ p.depth = h.depth
          /\ p.sent = h.sent /\ p.log = h.log /\ p.headers = h.headers
          /\ p.counted = h.counted /\ p.deadline = h.deadline /\ p.user = h.user
      BY <2>2 DEF Requests
    <2> HIDE DEF p
    <2>4. Frames(p) = Frames(h) /\ p.depth >= 2
      BY <2>2, <2>3 DEF Frames
    <2>5. WayBack(p)
      BY <2>2, <2>3, <2>4 DEF WayBack, Dressed, NotSent
    <2>6. Guarded(p)
      BY <2>2, <2>3 DEF Guarded
    <2>7. RequestInv(p)
      BY <2>3, <2>5, <2>6 DEF RequestInv
    <2> QED BY <1>1, <2>7, BecomeInv DEF p, h
  <1>2. CASE /\ req[r].mode = "returning" /\ req[r].depth > 0 /\ Innermost(r) = "handler"
             /\ Become(r, [req[r] EXCEPT !.mode = "panicking", !.panicked = TRUE])
    <2> DEFINE q == req[r]
               p == [q EXCEPT !.mode = "panicking", !.panicked = TRUE]
    <2>1. /\ q \in Requests /\ WayBack(q) /\ (q.ran => Guarded(q)) /\ q.mode = "returning"
          /\ q.depth <= Frames(q) /\ q.depth \in 0..10
          /\ q.depth >= 8 /\ q.depth = Frames(q) /\ q.kind # "unknown"
      BY <1>2, Leaving
    <2>2. Become(r, p)
      BY <1>2
    <2> HIDE DEF q
    <2>3. q.ran /\ q.log = <<>>
      BY <2>1 DEF WayBack, NotYetLogged
    <2>4. /\ p \in Requests /\ p.mode = "panicking" /\ p.panicked /\ p.ran
          /\ p.kind = q.kind /\ p.origin = q.origin /\ p.caller = q.caller /\ p.depth = q.depth
          /\ p.sent = q.sent /\ p.log = q.log /\ p.headers = q.headers
          /\ p.counted = q.counted /\ p.deadline = q.deadline /\ p.user = q.user
      BY <2>1, <2>3 DEF Requests
    <2> HIDE DEF p
    <2>5. Frames(p) = Frames(q) /\ p.depth >= 2
      BY <2>1, <2>4 DEF Frames
    <2>6. WayBack(p)
      BY <2>1, <2>3, <2>4, <2>5 DEF WayBack, Dressed
    <2>7. Guarded(p)
      BY <2>1, <2>3, <2>4 DEF Guarded
    <2>8. RequestInv(p)
      BY <2>4, <2>6, <2>7 DEF RequestInv
    <2> QED BY <2>2, <2>8, BecomeInv
  <1> QED BY <1>1, <1>2 DEF Panic

\* A frame is left.
LEMMA PoppedFields ==
  ASSUME NEW q \in Requests, q.depth > 0
  PROVE  LET p == Popped(q) IN
         /\ p \in Requests /\ p.depth = q.depth - 1 /\ p.mode = q.mode
         /\ p.kind = q.kind /\ p.origin = q.origin /\ p.caller = q.caller
         /\ p.sent = q.sent /\ p.log = q.log /\ p.headers = q.headers
         /\ p.recorded = q.recorded /\ p.ran = q.ran /\ p.panicked = q.panicked
         /\ p.counted = q.counted /\ p.deadline = q.deadline /\ p.user = q.user
         /\ Frames(p) = Frames(q)
  <1> DEFINE p == Popped(q)
  <1>1. q.depth - 1 \in 0..10
    BY FrameCount
  <1>2. /\ p \in Requests /\ p.depth = q.depth - 1 /\ p.mode = q.mode
        /\ p.kind = q.kind /\ p.origin = q.origin /\ p.caller = q.caller
        /\ p.sent = q.sent /\ p.log = q.log /\ p.headers = q.headers
        /\ p.recorded = q.recorded /\ p.ran = q.ran /\ p.panicked = q.panicked
        /\ p.counted = q.counted /\ p.deadline = q.deadline /\ p.user = q.user
    BY <1>1 DEF Popped, Requests
  <1> HIDE DEF p
  <1>3. Frames(p) = Frames(q)
    BY <1>2 DEF Frames
  <1> QED BY <1>2, <1>3 DEF p

\* A request that is on its way back and stays so, one frame further out.
LEMMA PoppedInv ==
  ASSUME NEW q \in Requests, WayBack(q), q.ran => Guarded(q), q.depth > 0,
         \/ q.mode = "returning" /\ q.depth # 3
         \/ q.mode = "panicking" /\ q.depth # 2
  PROVE  RequestInv(Popped(q))
  <1> DEFINE p == Popped(q)
  <1>1. /\ p \in Requests /\ p.depth = q.depth - 1 /\ p.mode = q.mode
        /\ p.kind = q.kind /\ p.origin = q.origin /\ p.caller = q.caller
        /\ p.sent = q.sent /\ p.log = q.log /\ p.headers = q.headers
        /\ p.recorded = q.recorded /\ p.ran = q.ran /\ p.panicked = q.panicked
        /\ p.counted = q.counted /\ p.deadline = q.deadline /\ p.user = q.user
        /\ Frames(p) = Frames(q)
    BY PoppedFields
  <1> HIDE DEF p
  <1>2. q.depth \in 0..10 /\ Frames(q) \in 8..10 /\ q.depth <= Frames(q)
    BY FrameCount DEF WayBack
  <1>3. /\ p.depth <= Frames(p) /\ p.depth # Frames(p)
        /\ q.mode = "panicking" => p.depth >= 2
        /\ q.mode = "returning" /\ p.depth >= 3 => q.depth >= 3
        /\ q.mode = "returning" /\ p.depth < 3 => q.depth < 3
    BY <1>1, <1>2 DEF WayBack
  <1>4. WayBack(p)
    BY <1>1, <1>3 DEF WayBack, Dressed, Caused, NotYetLogged, Logged
  <1>5. p.ran => Guarded(p)
    BY <1>1 DEF Guarded
  <1> QED BY <1>1, <1>4, <1>5 DEF RequestInv, p

LEMMA OneEntry ==
  ASSUME NEW q \in Requests, q.log = <<>>, NEW record \in Records
  PROVE  LET l == [q EXCEPT !.log = Append(q.log, record)] IN
         /\ l \in Requests /\ Len(l.log) = 1 /\ l.log[1] = record
         /\ l.depth = q.depth /\ l.mode = q.mode
         /\ l.kind = q.kind /\ l.origin = q.origin /\ l.caller = q.caller
         /\ l.sent = q.sent /\ l.headers = q.headers
         /\ l.recorded = q.recorded /\ l.ran = q.ran /\ l.panicked = q.panicked
         /\ l.counted = q.counted /\ l.deadline = q.deadline /\ l.user = q.user
         /\ Frames(l) = Frames(q)
  <1> DEFINE log == Append(q.log, record)
             l == [q EXCEPT !.log = log]
  <1>1. log \in Seq(Records) /\ Len(log) = 1 /\ log[1] = record
    <2>1. <<>> \in Seq(Records) /\ Len(<<>>) = 0
      OBVIOUS
    <2> QED BY <2>1, AppendProperties
  <1> HIDE DEF log
  <1>2. /\ l \in Requests /\ l.log = log
        /\ l.depth = q.depth /\ l.mode = q.mode
        /\ l.kind = q.kind /\ l.origin = q.origin /\ l.caller = q.caller
        /\ l.sent = q.sent /\ l.headers = q.headers
        /\ l.recorded = q.recorded /\ l.ran = q.ran /\ l.panicked = q.panicked
        /\ l.counted = q.counted /\ l.deadline = q.deadline /\ l.user = q.user
    BY <1>1 DEF Requests
  <1> HIDE DEF l
  <1>3. Frames(l) = Frames(q)
    BY <1>2 DEF Frames
  <1> QED BY <1>1, <1>2, <1>3 DEF l, log

LEMMA ReturnInv == ASSUME PipelineInv, NEW r \in Reqs, Return(r) PROVE PipelineInv'
  <1> DEFINE q == req[r]
             record == [kind |-> "access",
                        status |-> IF q.recorded = 0 THEN 200 ELSE q.recorded]
             l == [q EXCEPT !.log = Append(q.log, record)]
  <1>1. /\ q \in Requests /\ WayBack(q) /\ (q.ran => Guarded(q)) /\ q.mode = "returning"
        /\ q.depth > 0 /\ q.depth \in 0..10 /\ q.depth <= Frames(q) /\ Frames(q) \in 8..10
        /\ Innermost(r) = "logger" <=> q.depth = 3
    BY Leaving DEF Return
  <1>2. Become(r, IF q.depth = 3 THEN Popped(l) ELSE Popped(q))
    BY <1>1 DEF Return
  <1> HIDE DEF q
  <1>3. q.depth # 3 => RequestInv(Popped(q))
    BY <1>1, PoppedInv
  <1>4. ASSUME q.depth = 3 PROVE RequestInv(Popped(l))
    <2>1. /\ NotYetLogged(q) /\ q.sent.status # 0 /\ Dressed(q, q.headers)
          /\ Dressed(q, q.sent.headers) /\ (~q.ran => Caused(q))
      BY <1>1, <1>4 DEF WayBack
    <2>2. record \in Records /\ record.kind = "access" /\ record.status = q.sent.status
      BY <1>1, <2>1 DEF Records, Requests, NotYetLogged
    <2> HIDE DEF record
    <2>3. /\ l \in Requests /\ Len(l.log) = 1 /\ l.log[1] = record
          /\ l.depth = q.depth /\ l.mode = q.mode
          /\ l.kind = q.kind /\ l.origin = q.origin /\ l.caller = q.caller
          /\ l.sent = q.sent /\ l.headers = q.headers
          /\ l.recorded = q.recorded /\ l.ran = q.ran /\ l.panicked = q.panicked
          /\ l.counted = q.counted /\ l.deadline = q.deadline /\ l.user = q.user
          /\ Frames(l) = Frames(q)
      BY <1>1, <2>1, <2>2, OneEntry DEF NotYetLogged
    <2> HIDE DEF l
    <2> DEFINE p == Popped(l)
    <2>4. /\ p \in Requests /\ p.depth = 2 /\ p.mode = "returning"
          /\ p.kind = q.kind /\ p.origin = q.origin /\ p.caller = q.caller
          /\ p.sent = q.sent /\ p.log = l.log /\ p.headers = q.headers
          /\ p.ran = q.ran /\ p.panicked = q.panicked
          /\ p.counted = q.counted /\ p.deadline = q.deadline /\ p.user = q.user
          /\ Frames(p) = Frames(q)
      <3>1. l.depth > 0 /\ l.depth - 1 = 2
        BY <1>4, <2>3
      <3> QED BY <1>1, <2>3, <3>1, PoppedFields
    <2> HIDE DEF p
    <2>5. Logged(p)
      BY <2>1, <2>2, <2>3, <2>4 DEF Logged, NotYetLogged
    <2>6. WayBack(p)
      BY <1>1, <2>1, <2>4, <2>5 DEF WayBack, Dressed, Caused
    <2>7. p.ran => Guarded(p)
      BY <1>1, <2>4 DEF Guarded
    <2> QED BY <2>4, <2>6, <2>7 DEF RequestInv, p
  <1> QED BY <1>2, <1>3, <1>4, BecomeInv

LEMMA UnwindInv == ASSUME PipelineInv, NEW r \in Reqs, Unwind(r) PROVE PipelineInv'
  <1> DEFINE q == req[r]
             record == [kind |-> "panic", status |-> 500]
             l == [q EXCEPT !.log = Append(q.log, record)]
  <1>1. /\ q \in Requests /\ WayBack(q) /\ (q.ran => Guarded(q)) /\ q.mode = "panicking"
        /\ q.depth > 0 /\ q.depth \in 0..10 /\ q.depth <= Frames(q) /\ Frames(q) \in 8..10
        /\ Innermost(r) = "recover" <=> q.depth = 2
    BY Leaving DEF Unwind
  <1>2. Become(r, IF q.depth = 2 THEN Popped(Refused(l, 500)) ELSE Popped(q))
    BY <1>1 DEF Unwind
  <1> HIDE DEF q
  <1>3. q.depth # 2 => RequestInv(Popped(q))
    BY <1>1, PoppedInv
  <1>4. ASSUME q.depth = 2 PROVE RequestInv(Popped(Refused(l, 500)))
    <2>1. q.log = <<>> /\ q.panicked /\ q.ran /\ Guarded(q) /\ Dressed(q, q.headers)
          /\ (q.sent.status # 0 => Dressed(q, q.sent.headers))
      BY <1>1 DEF WayBack
    <2>2. record \in Records /\ record.kind = "panic"
      BY DEF Records
    <2> HIDE DEF record
    <2>3. /\ l \in Requests /\ Len(l.log) = 1 /\ l.log[1] = record
          /\ l.depth = 2 /\ l.depth <= Frames(l)
          /\ l.kind = q.kind /\ l.origin = q.origin /\ l.caller = q.caller
          /\ l.sent = q.sent /\ l.headers = q.headers /\ l.ran = q.ran /\ l.panicked = q.panicked
          /\ l.counted = q.counted /\ l.deadline = q.deadline /\ l.user = q.user
          /\ Frames(l) = Frames(q)
      <3>1. Frames(l) = Frames(q) /\ l.depth = q.depth
        BY <1>1, <2>1, <2>2, OneEntry
      <3>2. l.depth <= Frames(l)
        BY <1>1, <3>1
      <3> QED BY <1>1, <1>4, <2>1, <2>2, <3>1, <3>2, OneEntry
    <2> HIDE DEF l
    <2> DEFINE w == Written(l, 500, "failure")
               a == [w EXCEPT !.mode = "returning"]
               p == Popped(a)
    <2>4. /\ w \in Requests
          /\ w.kind = q.kind /\ w.origin = q.origin /\ w.caller = q.caller
          /\ w.depth = 2 /\ w.headers = q.headers /\ w.deadline = q.deadline
          /\ w.user = q.user /\ w.log = l.log /\ w.counted = q.counted /\ w.ran = q.ran
          /\ w.panicked = q.panicked
          /\ w.sent.status = IF q.sent.status = 0 THEN 500 ELSE q.sent.status
          /\ w.sent.headers = IF q.sent.status = 0 THEN q.headers ELSE q.sent.headers
          /\ w.sent.body = IF q.sent.status = 0 THEN "failure" ELSE "mixed"
      <3>1. "failure" \in Bodies /\ 500 \in Nat
        BY DEF Bodies
      <3> QED BY <2>3, <3>1, WrittenFields
    <2> HIDE DEF w
    <2>5. /\ a \in Requests /\ a.mode = "returning"
          /\ a.kind = q.kind /\ a.origin = q.origin /\ a.caller = q.caller
          /\ a.depth = 2 /\ a.headers = q.headers /\ a.deadline = q.deadline
          /\ a.user = q.user /\ a.log = l.log /\ a.counted = q.counted /\ a.ran = q.ran
          /\ a.panicked = q.panicked /\ a.sent = w.sent
      BY <2>4 DEF Requests
    <2> HIDE DEF a
    <2>6. /\ p \in Requests /\ p.depth = 1 /\ p.mode = "returning"
          /\ p.kind = q.kind /\ p.origin = q.origin /\ p.caller = q.caller
          /\ p.sent = w.sent /\ p.log = l.log /\ p.headers = q.headers
          /\ p.ran = q.ran /\ p.panicked = q.panicked
          /\ p.counted = q.counted /\ p.deadline = q.deadline /\ p.user = q.user
      <3>1. a.depth > 0 /\ a.depth - 1 = 1
        BY <2>5
      <3> QED BY <2>5, <3>1, PoppedFields
    <2> HIDE DEF p
    <2>7. Logged(p)
      BY <2>1, <2>2, <2>3, <2>4, <2>6 DEF Logged
    <2>8. Frames(p) = Frames(q)
      BY <2>6 DEF Frames
    <2>9. p.sent.status # 0 /\ Dressed(p, p.headers) /\ Dressed(p, p.sent.headers)
      BY <2>1, <2>4, <2>6 DEF Dressed
    <2>10. WayBack(p)
      BY <1>1, <2>1, <2>6, <2>7, <2>8, <2>9 DEF WayBack
    <2>11. Guarded(p)
      BY <2>1, <2>6 DEF Guarded
    <2>12. RequestInv(p)
      BY <2>6, <2>10, <2>11 DEF RequestInv
    <2> QED BY <2>12 DEF p, a, w, Refused
  <1> QED BY <1>2, <1>3, <1>4, BecomeInv

\* Whoever has come back to net/http has an answer, and no panic comes so far.
LEMMA FinishInv == ASSUME PipelineInv, NEW r \in Reqs, Finish(r) PROVE PipelineInv'
  <1> DEFINE q == req[r]
             p == [q EXCEPT !.mode = "done"]
  <1>1. q \in Requests /\ WayBack(q) /\ (q.ran => Guarded(q)) /\ q.depth = 0
    BY Leaving DEF Finish
  <1>2. q.mode = "returning" /\ q.sent.status # 0
    BY <1>1 DEF WayBack, Finish
  <1>3. Become(r, p)
    BY <1>2 DEF Finish
  <1> HIDE DEF q
  <1>4. /\ p \in Requests /\ p.mode = "done" /\ p.depth = 0
        /\ p.kind = q.kind /\ p.origin = q.origin /\ p.caller = q.caller
        /\ p.sent = q.sent /\ p.log = q.log /\ p.headers = q.headers
        /\ p.ran = q.ran /\ p.panicked = q.panicked
        /\ p.counted = q.counted /\ p.deadline = q.deadline /\ p.user = q.user
    BY <1>1 DEF Requests
  <1> HIDE DEF p
  <1>5. Frames(p) = Frames(q)
    BY <1>4 DEF Frames
  <1>6. Logged(p)
    BY <1>1, <1>2, <1>4 DEF WayBack, Logged
  <1>7. WayBack(p)
    BY <1>1, <1>2, <1>4, <1>5, <1>6 DEF WayBack, Dressed, Caused
  <1>8. p.ran => Guarded(p)
    BY <1>1, <1>4 DEF Guarded
  <1>9. RequestInv(p)
    BY <1>4, <1>7, <1>8 DEF RequestInv
  <1> QED BY <1>3, <1>9, BecomeInv

LEMMA NoReqType == NoReq \in Requests /\ Frames(NoReq) \in 8..10
  <1>1. "public" \in Kinds /\ "none" \in CallerKinds /\ "none" \in Bodies /\ 0 \in 0..10
        /\ <<>> \in Seq(Records)
    BY DEF Kinds, CallerKinds, Bodies
  <1>2. NotSent \in Answers
    BY <1>1 DEF NotSent, Answers
  <1>3. NoReq \in Requests
    BY <1>1, <1>2 DEF NoReq, Requests
  <1> QED BY <1>3, FrameCount

LEMMA ArriveInv ==
  ASSUME PipelineInv, NEW r \in Reqs, NEW kind \in Kinds, NEW origin \in {"allowed", "other"},
         NEW caller \in CallerKinds, Arrive(r, kind, origin, caller)
  PROVE  PipelineInv'
  <1> DEFINE p == [NoReq EXCEPT !.kind = kind, !.origin = origin, !.caller = caller,
                                !.mode = "calling"]
  <1>1. /\ p \in Requests /\ p.mode = "calling" /\ p.depth = 0 /\ p.sent = NotSent
        /\ p.log = <<>> /\ ~p.ran /\ ~p.panicked /\ p.counted = {}
    BY NoReqType DEF NoReq, Requests
  <1>2. Become(r, p)
    BY DEF Arrive
  <1> HIDE DEF p
  <1>3. Frames(p) \in 8..10
    BY <1>1, FrameCount
  <1>4. WayDown(p)
    BY <1>1, <1>3 DEF WayDown
  <1>5. RequestInv(p)
    BY <1>1, <1>4 DEF RequestInv
  <1> QED BY <1>2, <1>5, BecomeInv

-----------------------------------------------------------------------------
LEMMA PipelineStep == PipelineInv /\ [PipelineNext]_pipelineVars => PipelineInv'
  <1> SUFFICES ASSUME PipelineInv, [PipelineNext]_pipelineVars PROVE PipelineInv'
    OBVIOUS
  <1>1. CASE NewWindow \/ UNCHANGED pipelineVars
    BY <1>1 DEF NewWindow, pipelineVars, PipelineInv
  <1>2. ASSUME NEW r \in Reqs, Pass(r) PROVE PipelineInv'
    <2>1. CASE RateLimit(r)
      <3>1. At(r, "rateLimit") /\ (Admit(r, "global") \/ TooMany(r))
        BY <2>1 DEF RateLimit
      <3> QED BY <3>1, AdmitInv, TooManyInv
    <2>2. CASE AuthRateLimit(r)
      <3>1. At(r, "authRateLimit") /\ (Admit(r, "auth") \/ TooMany(r))
        BY <2>2 DEF AuthRateLimit
      <3> QED BY <3>1, AdmitInv, TooManyInv
    <2> QED
      BY <1>2, <2>1, <2>2, RequestIDInv, DeferringInv, SecurityHeadersInv, CORSInv, TimeoutInv,
         NotFoundInv, RequireRoleInv, ReturnInv, UnwindInv, FinishInv DEF Pass
  <1>3. ASSUME NEW r \in Reqs, Work(r) PROVE PipelineInv'
    BY <1>3, RequireAuthInv, HandlerInv, PanicInv DEF Work
  <1>4. ASSUME NEW r \in Reqs, NEW kind \in Kinds, NEW origin \in {"allowed", "other"},
               NEW caller \in CallerKinds, Arrive(r, kind, origin, caller)
        PROVE  PipelineInv'
    BY <1>4, ArriveInv
  <1> QED BY <1>1, <1>2, <1>3, <1>4 DEF PipelineNext

\* What is true of a request at each depth of its chain, on the way down and
\* on the way back, for any number of requests, any limit and any statuses of
\* errors.
THEOREM PipelineInvariance == PipelineSpec => []PipelineInv
  <1>1. PipelineInit => PipelineInv
    <2> SUFFICES ASSUME PipelineInit PROVE PipelineInv
      OBVIOUS
    <2>1. req = [r \in Reqs |-> NoReq]
      BY DEF PipelineInit
    <2>2. NoReq.mode = "idle" /\ ~NoReq.ran
      BY DEF NoReq
    <2>3. RequestInv(NoReq)
      BY <2>2, NoReqType DEF RequestInv
    <2> QED BY <2>1, <2>3 DEF PipelineInv
  <1> QED BY <1>1, PipelineStep, PTL DEF PipelineSpec

\* The access log tells the status the client got, for any number of
\* requests, any limits and any statuses of errors.
THEOREM LogTellsAnswerAlways == PipelineSpec => []LogTellsAnswer
  <1>1. PipelineInv => LogTellsAnswer
    <2> SUFFICES ASSUME PipelineInv, NEW r \in Reqs, Done(r), NEW i \in DOMAIN req[r].log,
                        req[r].log[i].kind = "access"
                 PROVE  req[r].log[i].status = req[r].sent.status
      BY DEF LogTellsAnswer
    <2>1. req[r] \in Requests /\ Logged(req[r])
      BY DEF PipelineInv, RequestInv, WayBack, Done
    <2>2. i = 1
      BY <2>1, LenProperties DEF Logged, Requests
    <2> QED BY <2>1, <2>2 DEF Logged
  <1> QED BY <1>1, PipelineInvariance, PTL

\* Every request that was answered left one record in the log: Logger's, or
\* Recover's when a handler panicked; never both and never none.
THEOREM OneRecordAlways == PipelineSpec => []OneRecord
  <1>1. PipelineInv => OneRecord
    BY DEF PipelineInv, RequestInv, WayBack, Logged, Done, OneRecord
  <1> QED BY <1>1, PipelineInvariance, PTL

\* Every answer, those of the limiters, of NotFound and of Recover included, has
\* the request id and the security headers, and the CORS headers when
\* the origin is an allowed one.
THEOREM AnswersDressedAlways == PipelineSpec => []AnswersDressed
  <1>1. PipelineInv => AnswersDressed
    BY DEF PipelineInv, RequestInv, WayBack, Dressed, Done, AnswersDressed
  <1> QED BY <1>1, PipelineInvariance, PTL

\* A handler has only run behind the global limiter, a deadline and all
\* the guards of its route.
THEOREM HandlersGuardedAlways == PipelineSpec => []HandlersGuarded
  <1>1. PipelineInv => HandlersGuarded
    BY DEF PipelineInv, RequestInv, Guarded, HandlersGuarded
  <1> QED BY <1>1, PipelineInvariance, PTL

\* Unless a handler ran, a 401 went to a caller without a valid token, a 403 to a
\* disabled one or to one without the role, and a preflight got its 204 uncounted.
THEOREM RefusedForCauseAlways == PipelineSpec => []RefusedForCause
  <1>1. PipelineInv => RefusedForCause
    BY DEF PipelineInv, RequestInv, WayBack, Caused, Done, RefusedForCause
  <1> QED BY <1>1, PipelineInvariance, PTL
=============================================================================
