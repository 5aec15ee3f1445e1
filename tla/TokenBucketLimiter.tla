------------------------ MODULE TokenBucketLimiter ------------------------
(***************************************************************************)
(* The rate limiter (qfc-policy/src/rate_limit.rs).  try_acquire reads the *)
(* clock, then waits for the map's mutex, then refills and takes a token:  *)
(* two actions, so that concurrent calls can take the mutex in another     *)
(* order than they read the clock in.  The clock never goes back, as the   *)
(* Clock trait demands.                                                    *)
(*                                                                         *)
(* Tokens are counted in the ticks they take to refill, so the code's      *)
(* fractions are integers here; its f64 rounding is left out.              *)
(***************************************************************************)
EXTENDS Integers

CONSTANTS
  Keys,        \* bucket keys
  Tasks,       \* concurrent policy evaluations
  Capacity,    \* [Keys -> tokens of the RateLimit rule]
  Refill,      \* [Keys -> ticks per token, 0 for "never refills"]
  MaxTime      \* bound: the clock stops here

ASSUME LimiterAssumption ==
  /\ Capacity \in [Keys -> Nat]
  /\ Refill \in [Keys -> Nat]
  /\ MaxTime \in Nat

VARIABLES
  now,       \* the clock
  call,      \* [Tasks -> the key and clock reading of its call, or Idle]
  bucket,    \* [Keys -> BucketState, or Absent before the first call]
  born,      \* history: [Keys -> clock reading the bucket was created with]
  granted,   \* history: [Keys -> tokens granted]
  skew,      \* history: [Keys -> how far last_refill was moved back, in all]
  ideal      \* history: [Keys -> tokens of a bucket refilled at every tick]

vars == <<now, call, bucket, born, granted, skew, ideal>>

Idle == [waiting |-> FALSE]
Absent == [exists |-> FALSE]

\* One token, in ticks; a bucket that never refills counts in whole tokens.
Unit(k) == IF Refill[k] = 0 THEN 1 ELSE Refill[k]
Full(k) == Capacity[k] * Unit(k)

AtMost(x, y) == IF x <= y THEN x ELSE y
AtLeast(x, y) == IF x >= y THEN x ELSE y

Calls == {Idle} \cup [waiting : {TRUE}, key : Keys, now_ms : 0 .. MaxTime]
BucketStates == {Absent} \cup [exists : {TRUE}, tokens : Nat, last_refill : 0 .. MaxTime]

TypeOK ==
  /\ now \in 0 .. MaxTime
  /\ call \in [Tasks -> Calls]
  /\ bucket \in [Keys -> BucketStates]
  /\ \A k \in Keys : bucket[k] # Absent => bucket[k].tokens <= Full(k)
  /\ born \in [Keys -> 0 .. MaxTime]
  /\ granted \in [Keys -> Nat]
  /\ skew \in [Keys -> Nat]
  /\ ideal \in [Keys -> Int]

Init ==
  /\ now = 0
  /\ call = [t \in Tasks |-> Idle]
  /\ bucket = [k \in Keys |-> Absent]
  /\ born = [k \in Keys |-> 0]
  /\ granted = [k \in Keys |-> 0]
  /\ skew = [k \in Keys |-> 0]
  /\ ideal = [k \in Keys |-> Full(k)]

\* A capacity of 0 denies at once; otherwise read the clock.
ReadClock(t, k) ==
  /\ call[t] = Idle
  /\ Capacity[k] # 0
  /\ call' = [call EXCEPT ![t] = [waiting |-> TRUE, key |-> k, now_ms |-> now]]
  /\ UNCHANGED <<now, bucket, born, granted, skew, ideal>>

\* The bucket's state when the mutex is taken: a new one is full.
Entry(k, now_ms) ==
  IF bucket[k] = Absent THEN [exists |-> TRUE, tokens |-> Full(k), last_refill |-> now_ms]
                        ELSE bucket[k]

\* Mutant: last_refill is not moved.
RefilledAgain(k, e, now_ms) ==
  IF Refill[k] = 0 THEN e
  ELSE [e EXCEPT !.tokens = AtMost(Full(k), @ + AtLeast(0, now_ms - e.last_refill))]

\* Mutant: only whole tokens are credited.
RefilledWhole(k, e, now_ms) ==
  IF Refill[k] = 0 THEN e
  ELSE LET whole == AtLeast(0, now_ms - e.last_refill) \div Refill[k]
       IN  [e EXCEPT !.tokens = AtMost(Full(k), @ + whole * Refill[k]),
                     !.last_refill = now_ms]

\* The same after the refill since last_refill, which becomes now_ms even when
\* now_ms is the earlier of the two.
Refilled(k, e, now_ms) ==
  IF Refill[k] = 0 THEN e
  ELSE [exists |-> TRUE,
        tokens |-> AtMost(Full(k), e.tokens + AtLeast(0, now_ms - e.last_refill)),
        last_refill |-> now_ms]

\* The mutex is held: refill, and take a token if there is one.
Acquire(t) ==
  /\ call[t] # Idle
  /\ LET k == call[t].key
         e == Entry(k, call[t].now_ms)
         f == Refilled(k, e, call[t].now_ms)
     IN  /\ \/ /\ f.tokens >= Unit(k)
               /\ bucket' = [bucket EXCEPT ![k] = [f EXCEPT !.tokens = @ - Unit(k)]]
               /\ granted' = [granted EXCEPT ![k] = @ + 1]
               /\ ideal' = [ideal EXCEPT ![k] = @ - Unit(k)]
            \/ /\ f.tokens < Unit(k)
               /\ bucket' = [bucket EXCEPT ![k] = f]
               /\ UNCHANGED <<granted, ideal>>
         /\ born' = IF bucket[k] = Absent THEN [born EXCEPT ![k] = e.last_refill] ELSE born
         /\ skew' = [skew EXCEPT ![k] = @ + AtLeast(0, e.last_refill - f.last_refill)]
  /\ call' = [call EXCEPT ![t] = Idle]
  /\ UNCHANGED now

Tick ==
  /\ now < MaxTime
  /\ now' = now + 1
  /\ ideal' = [k \in Keys |->
       IF Refill[k] = 0 THEN ideal[k] ELSE AtMost(Full(k), ideal[k] + 1)]
  /\ UNCHANGED <<call, bucket, born, granted, skew>>

Next ==
  \/ \E t \in Tasks, k \in Keys : ReadClock(t, k)
  \/ \E t \in Tasks : Acquire(t)
  \/ Tick

Spec == Init /\ [][Next]_vars
-----------------------------------------------------------------------------
(* Properties *)

\* Time in which a bucket has been refilling.
Elapsed(k) == IF Refill[k] = 0 \/ bucket[k] = Absent THEN 0 ELSE now - born[k]

\* The budget of a bucket: its capacity and one token per refill period since
\* it was created are never exceeded by more than the time by which calls that
\* took the mutex out of order moved last_refill back.
BudgetUpToSkew ==
  \A k \in Keys : granted[k] * Unit(k) <= Full(k) + Elapsed(k) + skew[k]

\* Nobody is starved: what a call that reads the clock now would find in the
\* bucket is at least what a bucket refilled at every tick holds, in whatever
\* order the calls took the mutex.
NeverStarved ==
  \A k \in Keys : bucket[k] # Absent =>
    LET credit == IF Refill[k] = 0 THEN 0 ELSE now - bucket[k].last_refill
    IN  AtMost(Full(k), bucket[k].tokens + credit) >= ideal[k]
=============================================================================
