--------------------------- MODULE RateLimitProofs ---------------------------
(***************************************************************************)
(* Theorems about the rate limiter (module TokenBucketLimiter), for every  *)
(* capacity, refill period, number of keys and number of concurrent calls. *)
(*                                                                         *)
(* KeyInv(k) is the balance of a bucket: what it granted and what it still *)
(* holds never exceed its capacity, the refill up to last_refill and the   *)
(* refill handed out twice by calls that moved last_refill back.           *)
(***************************************************************************)
EXTENDS TokenBucketLimiter, TLAPS

\* A bucket is born at a clock reading and never gets ahead of the clock; one
\* that does not refill keeps its birth as last_refill.
KeyInv(k) ==
  /\ bucket[k] = Absent => granted[k] = 0
  /\ bucket[k] # Absent =>
       /\ bucket[k].last_refill <= now
       /\ Refill[k] = 0 => bucket[k].last_refill = born[k]
       /\ granted[k] * Unit(k) + bucket[k].tokens
            <= Full(k) + (bucket[k].last_refill - born[k]) + skew[k]
  /\ ideal[k] <= Full(k)

CallsInPast == \A t \in Tasks : call[t] # Idle => call[t].now_ms <= now

Inv == TypeOK /\ CallsInPast /\ (\A k \in Keys : KeyInv(k)) /\ NeverStarved

\* A key's unit and its full bucket, as numbers.
LEMMA Numbers ==
  ASSUME NEW k \in Keys
  PROVE  /\ Capacity[k] \in Nat /\ Refill[k] \in Nat /\ MaxTime \in Nat
         /\ Unit(k) \in Nat \ {0} /\ Full(k) \in Nat
  <1>1. Capacity[k] \in Nat /\ Refill[k] \in Nat /\ MaxTime \in Nat
    BY LimiterAssumption
  <1>2. Unit(k) \in Nat \ {0}
    BY <1>1 DEF Unit
  <1>3. \A a, b \in Nat : a * b \in Nat
    OBVIOUS
  <1> QED
    BY <1>1, <1>2, <1>3 DEF Full

\* One more grant costs one more unit.
LEMMA OneMore ==
  ASSUME NEW g \in Nat, NEW u \in Nat
  PROVE  g * u \in Nat /\ (g + 1) * u = g * u + u
  OBVIOUS

\* A present bucket is a record of numbers.
LEMMA BucketRecord ==
  ASSUME TypeOK, NEW k \in Keys, bucket[k] # Absent
  PROVE  /\ bucket[k] \in [exists : {TRUE}, tokens : Nat, last_refill : 0 .. MaxTime]
         /\ bucket[k].tokens \in Nat /\ bucket[k].tokens <= Full(k)
         /\ bucket[k].last_refill \in 0 .. MaxTime /\ bucket[k].last_refill \in Nat
  <1>1. bucket[k] \in [exists : {TRUE}, tokens : Nat, last_refill : 0 .. MaxTime]
    BY DEF TypeOK, BucketStates
  <1>2. bucket[k].tokens <= Full(k)
    BY DEF TypeOK
  <1> QED
    <2>1. MaxTime \in Nat
      BY LimiterAssumption
    <2>2. bucket[k].tokens \in Nat /\ bucket[k].last_refill \in 0 .. MaxTime
      BY <1>1
    <2>3. bucket[k].last_refill \in Nat
      BY <2>1, <2>2
    <2> QED
      BY <1>1, <1>2, <2>2, <2>3, Zenon

\* A waiting call carries its key and its clock reading.
LEMMA CallRecord ==
  ASSUME TypeOK, NEW t \in Tasks, call[t] # Idle
  PROVE  call[t].key \in Keys /\ call[t].now_ms \in 0 .. MaxTime
  BY DEF TypeOK, Calls

\* Reading the clock touches no bucket.
LEMMA ReadClockInv ==
  ASSUME Inv, NEW t \in Tasks, NEW k \in Keys, ReadClock(t, k)
  PROVE  Inv'
  <1>1. /\ now' = now /\ bucket' = bucket /\ born' = born /\ granted' = granted
        /\ skew' = skew /\ ideal' = ideal
        /\ call' = [call EXCEPT ![t] = [waiting |-> TRUE, key |-> k, now_ms |-> now]]
    BY DEF ReadClock
  <1>2. call \in [Tasks -> Calls] /\ now \in 0 .. MaxTime
    BY DEF Inv, TypeOK
  <1>3. [waiting |-> TRUE, key |-> k, now_ms |-> now] \in Calls
    BY <1>2 DEF Calls
  <1>4. TypeOK'
    BY <1>1, <1>2, <1>3 DEF Inv, TypeOK, Full, Unit
  <1>5. CallsInPast'
    BY <1>1, <1>2, LimiterAssumption DEF Inv, CallsInPast
  <1>6. (\A q \in Keys : KeyInv(q)') /\ NeverStarved'
    BY <1>1 DEF Inv, KeyInv, NeverStarved, Full, Unit, AtMost
  <1> QED
    BY <1>4, <1>5, <1>6 DEF Inv

\* A tick only adds credit.
LEMMA TickInv ==
  ASSUME Inv, Tick
  PROVE  Inv'
  <1>1. /\ now' = now + 1 /\ now < MaxTime /\ call' = call /\ bucket' = bucket
        /\ born' = born /\ granted' = granted /\ skew' = skew
        /\ ideal' = [k \in Keys |->
             IF Refill[k] = 0 THEN ideal[k] ELSE AtMost(Full(k), ideal[k] + 1)]
    BY DEF Tick
  <1>2. /\ now \in 0 .. MaxTime /\ MaxTime \in Nat /\ ideal \in [Keys -> Int]
        /\ call \in [Tasks -> Calls]
    BY LimiterAssumption DEF Inv, TypeOK
  <1>3. \A k \in Keys : /\ ideal'[k] \in Int /\ ideal'[k] <= Full(k)
                        /\ ideal'[k] = IF Refill[k] = 0 THEN ideal[k]
                                       ELSE AtMost(Full(k), ideal[k] + 1)
    BY <1>1, <1>2, Numbers DEF AtMost, Inv, KeyInv
  <1>4. TypeOK'
    BY <1>1, <1>2, <1>3 DEF Inv, TypeOK, Full, Unit
  <1>5. CallsInPast'
    <2> SUFFICES ASSUME NEW t \in Tasks, call[t] # Idle PROVE call[t].now_ms <= now + 1
      BY <1>1 DEF CallsInPast
    <2>1. call[t].now_ms \in 0 .. MaxTime /\ call[t].now_ms <= now
      BY CallRecord DEF Inv, CallsInPast
    <2> QED
      BY <1>2, <2>1
  <1>6. ASSUME NEW k \in Keys
        PROVE  KeyInv(k)'
    <2>1. bucket[k] # Absent => bucket[k].last_refill \in Nat
      BY BucketRecord DEF Inv
    <2>2. /\ KeyInv(k) /\ now \in Nat /\ now' = now + 1 /\ bucket'[k] = bucket[k]
          /\ granted'[k] = granted[k] /\ born'[k] = born[k] /\ skew'[k] = skew[k]
          /\ Unit(k)' = Unit(k) /\ Full(k)' = Full(k) /\ ideal'[k] <= Full(k)
      BY <1>1, <1>2, <1>3 DEF Inv, Full, Unit
    <2> QED
      BY <2>1, <2>2 DEF KeyInv
  <1>7. NeverStarved'
    <2> SUFFICES ASSUME NEW k \in Keys, bucket'[k] # Absent
                 PROVE  AtMost(Full(k), bucket'[k].tokens +
                          (IF Refill[k] = 0 THEN 0 ELSE now' - bucket'[k].last_refill))
                          >= ideal'[k]
      BY DEF NeverStarved, AtMost
    <2>1. /\ bucket'[k] = bucket[k] /\ bucket[k] # Absent
          /\ bucket[k].tokens \in Nat /\ bucket[k].last_refill \in Nat
      BY <1>1, BucketRecord DEF Inv
    <2>2. AtMost(Full(k), bucket[k].tokens +
            (IF Refill[k] = 0 THEN 0 ELSE now - bucket[k].last_refill)) >= ideal[k]
      BY <2>1 DEF Inv, NeverStarved
    <2> QED
      BY <1>1, <1>2, <1>3, <2>1, <2>2, Numbers DEF AtMost
  <1> QED
    BY <1>4, <1>5, <1>6, <1>7 DEF Inv

\* The refilled bucket f of key k, made from the entry e, balances: b is the
\* bucket's birth and s the skew the refill adds.
Balanced(k, e, f, b, s) ==
  /\ k \in Keys /\ b \in 0 .. MaxTime
  /\ e.last_refill \in 0 .. MaxTime
  /\ f \in [exists : {TRUE}, tokens : Nat, last_refill : 0 .. MaxTime]
  /\ f.tokens <= Full(k) /\ f.last_refill <= now
  /\ Refill[k] = 0 => f.last_refill = b
  /\ granted[k] * Unit(k) + f.tokens <= Full(k) + (f.last_refill - b) + skew[k] + s
  /\ AtMost(Full(k), f.tokens +
       (IF Refill[k] = 0 THEN 0 ELSE now - f.last_refill)) >= ideal[k]

\* A clock reading is a number.
LEMMA Between ==
  ASSUME NEW m \in Nat, NEW x \in 0 .. m
  PROVE  x \in Nat
  BY SMT

\* A new bucket owes nothing.
LEMMA NewIsPaid ==
  ASSUME NEW full \in Nat, NEW ms \in Nat, NEW sk \in Nat
  PROVE  0 + full <= full + (ms - ms) + sk
  BY SMT

\* No skew adds nothing.
LEMMA NoSkew ==
  ASSUME NEW x \in Int
  PROVE  x + 0 = x
  BY SMT

\* A refill from et tokens, last touched at el, at the reading ms is a number
\* of tokens within the capacity.
LEMMA RefillStaysWithin ==
  ASSUME NEW full \in Nat, NEW et \in Nat, NEW el \in Nat, NEW ms \in Nat
  PROVE  /\ AtMost(full, et + AtLeast(0, ms - el)) \in Nat
         /\ AtMost(full, et + AtLeast(0, ms - el)) <= full
  BY SMT DEF AtMost, AtLeast

\* What a refill adds is paid for by the time it moves last_refill forward or,
\* when it moves it back, by the skew.
LEMMA RefillIsAccounted ==
  ASSUME NEW full \in Nat, NEW et \in Nat, NEW el \in Nat, NEW ms \in Nat,
         NEW g \in Nat, NEW b \in Nat, NEW sk \in Nat,
         g + et <= full + (el - b) + sk
  PROVE  g + AtMost(full, et + AtLeast(0, ms - el))
           <= full + (ms - b) + sk + AtLeast(0, el - ms)
  BY SMT DEF AtMost, AtLeast

\* A refill at a reading in the past takes no credit away.
LEMMA RefillKeepsCredit ==
  ASSUME NEW full \in Nat, NEW et \in Nat, NEW el \in Nat, NEW ms \in Nat,
         NEW t \in Nat, NEW i \in Int, ms <= t,
         AtMost(full, et + (t - el)) >= i
  PROVE  AtMost(full, AtMost(full, et + AtLeast(0, ms - el)) + (t - ms)) >= i
  BY SMT DEF AtMost, AtLeast

\* The entry e the mutex holder finds for key k balances; b is its birth.
Entered(k, e, b) ==
  /\ e \in [exists : {TRUE}, tokens : Nat, last_refill : 0 .. MaxTime]
  /\ e.tokens <= Full(k) /\ e.last_refill <= now /\ b \in 0 .. MaxTime
  /\ Refill[k] = 0 => e.last_refill = b
  /\ granted[k] * Unit(k) + e.tokens <= Full(k) + (e.last_refill - b) + skew[k]
  /\ AtMost(Full(k), e.tokens +
       (IF Refill[k] = 0 THEN 0 ELSE now - e.last_refill)) >= ideal[k]

\* The history of a key as numbers.
LEMMA KeyNumbers ==
  ASSUME TypeOK, NEW k \in Keys
  PROVE  /\ now \in Nat /\ born[k] \in 0 .. MaxTime /\ granted[k] \in Nat
         /\ skew[k] \in Nat /\ ideal[k] \in Int /\ granted[k] * Unit(k) \in Nat
  <1>1. /\ now \in 0 .. MaxTime /\ born[k] \in 0 .. MaxTime /\ granted[k] \in Nat
        /\ skew[k] \in Nat /\ ideal[k] \in Int
    BY DEF TypeOK
  <1>2. now \in Nat /\ granted[k] * Unit(k) \in Nat
    BY <1>1, Numbers, OneMore, Between
  <1> QED
    BY <1>1, <1>2

\* Both a new bucket and an existing one balance.
LEMMA EntryBalance ==
  ASSUME Inv, NEW k \in Keys, NEW ms \in 0 .. MaxTime, ms <= now,
         NEW e, e = Entry(k, ms),
         NEW b, b = IF bucket[k] = Absent THEN e.last_refill ELSE born[k]
  PROVE  Entered(k, e, b)
  <1>1. /\ now \in Nat /\ skew[k] \in Nat /\ ideal[k] \in Int
        /\ Unit(k) \in Nat \ {0} /\ Full(k) \in Nat /\ Refill[k] \in Nat
        /\ born[k] \in 0 .. MaxTime /\ MaxTime \in Nat
    BY KeyNumbers, Numbers DEF Inv
  <1>2. CASE bucket[k] = Absent
    <2>1. e = [exists |-> TRUE, tokens |-> Full(k), last_refill |-> ms] /\ b = ms
      BY <1>2 DEF Entry
    <2>2. granted[k] = 0 /\ ideal[k] <= Full(k)
      BY <1>2 DEF Inv, KeyInv
    <2>3. granted[k] * Unit(k) = 0
      BY <1>1, <2>2
    <2>4. e.tokens = Full(k) /\ e.last_refill = ms /\ ms \in Nat
      BY <1>1, <2>1, Between
    <2>5. e \in [exists : {TRUE}, tokens : Nat, last_refill : 0 .. MaxTime]
      BY <1>1, <2>1
    <2>6. granted[k] * Unit(k) + e.tokens <= Full(k) + (e.last_refill - b) + skew[k]
      <3>1. 0 + Full(k) <= Full(k) + (ms - ms) + skew[k]
        BY <1>1, <2>4, NewIsPaid
      <3> QED
        BY <2>1, <2>3, <2>4, <3>1
    <2>7. AtMost(Full(k), e.tokens +
            (IF Refill[k] = 0 THEN 0 ELSE now - e.last_refill)) >= ideal[k]
      BY <1>1, <2>2, <2>4 DEF AtMost
    <2> QED
      BY <1>1, <2>1, <2>4, <2>5, <2>6, <2>7 DEF Entered
  <1>3. CASE bucket[k] # Absent
    <2>1. e = bucket[k] /\ b = born[k]
      BY <1>3 DEF Entry
    <2>2. Entered(k, bucket[k], born[k])
      BY <1>1, <1>3, BucketRecord DEF Inv, KeyInv, NeverStarved, Entered
    <2> QED
      BY <2>1, <2>2
  <1> QED
    BY <1>2, <1>3

\* What the refill makes of an entry that balances, balances.
LEMMA RefillOfEntry ==
  ASSUME TypeOK, NEW k \in Keys, NEW ms \in 0 .. MaxTime, ms <= now,
         NEW e, NEW b, Entered(k, e, b),
         NEW f, f = Refilled(k, e, ms),
         NEW s, s = AtLeast(0, e.last_refill - f.last_refill)
  PROVE  Balanced(k, e, f, b, s)
  <1>2. /\ now \in Nat /\ skew[k] \in Nat /\ ideal[k] \in Int /\ MaxTime \in Nat
    BY KeyNumbers, Numbers
  <1>3. Full(k) \in Nat /\ granted[k] * Unit(k) \in Nat /\ Refill[k] \in Nat
    BY KeyNumbers, Numbers
  <1>4. /\ e \in [exists : {TRUE}, tokens : Nat, last_refill : 0 .. MaxTime]
        /\ e.tokens <= Full(k) /\ e.last_refill <= now /\ b \in 0 .. MaxTime
        /\ Refill[k] = 0 => e.last_refill = b
        /\ granted[k] * Unit(k) + e.tokens <= Full(k) + (e.last_refill - b) + skew[k]
        /\ AtMost(Full(k), e.tokens +
             (IF Refill[k] = 0 THEN 0 ELSE now - e.last_refill)) >= ideal[k]
    BY DEF Entered
  <1>n. e.tokens \in Nat /\ e.last_refill \in 0 .. MaxTime
    BY <1>4
  <1>m. e.last_refill \in Nat /\ b \in Nat /\ ms \in Nat
    BY <1>2, <1>4, <1>n, Between
  <1>5. CASE Refill[k] = 0
    <2>1. f = e
      BY <1>5 DEF Refilled
    <2>2. s = 0
      BY <1>m, <2>1 DEF AtLeast
    <2>3. Full(k) + (e.last_refill - b) + skew[k] \in Int
      BY <1>2, <1>3, <1>m
    <2>4. Full(k) + (e.last_refill - b) + skew[k] + s = Full(k) + (e.last_refill - b) + skew[k]
      BY <2>2, <2>3, NoSkew
    <2>5. granted[k] * Unit(k) + f.tokens <= Full(k) + (f.last_refill - b) + skew[k] + s
      BY <1>4, <2>1, <2>4
    <2>6. AtMost(Full(k), f.tokens +
            (IF Refill[k] = 0 THEN 0 ELSE now - f.last_refill)) >= ideal[k]
      BY <1>4, <2>1
    <2> QED
      BY <1>4, <1>n, <2>1, <2>5, <2>6 DEF Balanced
  <1>6. CASE Refill[k] # 0
    <2>1. f = [exists |-> TRUE,
               tokens |-> AtMost(Full(k), e.tokens + AtLeast(0, ms - e.last_refill)),
               last_refill |-> ms]
      BY <1>6 DEF Refilled
    <2>2. /\ f.tokens = AtMost(Full(k), e.tokens + AtLeast(0, ms - e.last_refill))
          /\ f.last_refill = ms
      BY <2>1
    <2>3. f.tokens \in Nat /\ f.tokens <= Full(k)
      <3>1. /\ AtMost(Full(k), e.tokens + AtLeast(0, ms - e.last_refill)) \in Nat
            /\ AtMost(Full(k), e.tokens + AtLeast(0, ms - e.last_refill)) <= Full(k)
        BY <1>3, <1>m, <1>n, RefillStaysWithin, Zenon
      <3> QED
        BY <2>2, <3>1
    <2>4. f \in [exists : {TRUE}, tokens : Nat, last_refill : 0 .. MaxTime]
      <3>1. AtMost(Full(k), e.tokens + AtLeast(0, ms - e.last_refill)) \in Nat
        BY <2>2, <2>3
      <3> QED
        BY <2>1, <3>1
    <2>5. granted[k] * Unit(k) + f.tokens <= Full(k) + (f.last_refill - b) + skew[k] + s
      <3>1. granted[k] * Unit(k) + e.tokens <= Full(k) + (e.last_refill - b) + skew[k]
        BY <1>4
      <3>2. s = AtLeast(0, e.last_refill - ms)
        BY <2>2
      <3> QED
        <4>1. granted[k] * Unit(k) + AtMost(Full(k), e.tokens + AtLeast(0, ms - e.last_refill))
                <= Full(k) + (ms - b) + skew[k] + AtLeast(0, e.last_refill - ms)
          BY <1>2, <1>3, <1>m, <1>n, <3>1, RefillIsAccounted, Zenon
        <4>2. granted[k] * Unit(k) + f.tokens <= Full(k) + (ms - b) + skew[k] + s
          BY <2>2, <3>2, <4>1, Zenon
        <4> QED
          BY <2>2, <4>2, Zenon
    <2>6. AtMost(Full(k), f.tokens + (now - f.last_refill)) >= ideal[k]
      <3>1. AtMost(Full(k), e.tokens + (now - e.last_refill)) >= ideal[k]
        BY SMTT(60), <1>4, <1>6
      <3> QED
        <4>1. AtMost(Full(k), AtMost(Full(k), e.tokens + AtLeast(0, ms - e.last_refill))
                                + (now - ms)) >= ideal[k]
          BY <1>2, <1>3, <1>m, <1>n, <3>1, RefillKeepsCredit, Zenon
        <4> QED
          BY <2>2, <4>1, Zenon
    <2> QED
      BY <1>4, <1>6, <1>n, <2>2, <2>3, <2>4, <2>5, <2>6 DEF Balanced
  <1> QED
    BY <1>5, <1>6

\* What the mutex holder finds and what the refill makes of it balances.
LEMMA RefillBalance ==
  ASSUME Inv, NEW t \in Tasks, call[t] # Idle,
         NEW k, k = call[t].key, NEW e, e = Entry(k, call[t].now_ms),
         NEW f, f = Refilled(k, e, call[t].now_ms),
         NEW b, b = IF bucket[k] = Absent THEN e.last_refill ELSE born[k],
         NEW s, s = AtLeast(0, e.last_refill - f.last_refill)
  PROVE  Balanced(k, e, f, b, s)
  <1>1. k \in Keys /\ call[t].now_ms \in 0 .. MaxTime /\ call[t].now_ms <= now
    BY CallRecord DEF Inv, CallsInPast
  <1>2. Entered(k, e, b)
    BY <1>1, EntryBalance
  <1> QED
    BY <1>1, <1>2, RefillOfEntry DEF Inv

\* The mutex holder's refill and grant keep the balance.
LEMMA AcquireInv ==
  ASSUME Inv, NEW t \in Tasks, Acquire(t)
  PROVE  Inv'
  <1>0. call[t] # Idle /\ call' = [call EXCEPT ![t] = Idle] /\ now' = now
    BY DEF Acquire
  <1>k. PICK k : k = call[t].key
    OBVIOUS
  <1>e. PICK e : e = Entry(k, call[t].now_ms)
    OBVIOUS
  <1>f. PICK f : f = Refilled(k, e, call[t].now_ms)
    OBVIOUS
  <1>b. PICK b : b = IF bucket[k] = Absent THEN e.last_refill ELSE born[k]
    OBVIOUS
  <1>s. PICK s : s = AtLeast(0, e.last_refill - f.last_refill)
    OBVIOUS
  <1>i. Balanced(k, e, f, b, s)
    BY <1>0, <1>k, <1>e, <1>f, <1>b, <1>s, RefillBalance
  <1>1. /\ k \in Keys /\ b \in 0 .. MaxTime /\ e.last_refill \in 0 .. MaxTime
        /\ f \in [exists : {TRUE}, tokens : Nat, last_refill : 0 .. MaxTime]
        /\ f.tokens <= Full(k) /\ f.last_refill <= now
        /\ Refill[k] = 0 => f.last_refill = b
        /\ granted[k] * Unit(k) + f.tokens <= Full(k) + (f.last_refill - b) + skew[k] + s
        /\ AtMost(Full(k), f.tokens +
             (IF Refill[k] = 0 THEN 0 ELSE now - f.last_refill)) >= ideal[k]
    BY <1>i DEF Balanced
  <1>2. /\ call \in [Tasks -> Calls] /\ bucket \in [Keys -> BucketStates]
        /\ born \in [Keys -> 0 .. MaxTime] /\ granted \in [Keys -> Nat]
        /\ skew \in [Keys -> Nat] /\ ideal \in [Keys -> Int] /\ now \in 0 .. MaxTime
        /\ MaxTime \in Nat
    BY LimiterAssumption DEF Inv, TypeOK
  <1>3. Unit(k) \in Nat \ {0} /\ Full(k) \in Nat /\ granted[k] * Unit(k) \in Nat
    BY <1>1, <1>2, Numbers, OneMore
  <1>4. s \in Nat /\ f.tokens \in Nat /\ f.last_refill \in Nat /\ e.last_refill \in Nat
    BY <1>1, <1>2, <1>s DEF AtLeast
  <1>a. /\ \/ /\ f.tokens >= Unit(k)
              /\ bucket' = [bucket EXCEPT ![k] = [f EXCEPT !.tokens = f.tokens - Unit(k)]]
              /\ granted' = [granted EXCEPT ![k] = granted[k] + 1]
              /\ ideal' = [ideal EXCEPT ![k] = ideal[k] - Unit(k)]
           \/ /\ f.tokens < Unit(k)
              /\ bucket' = [bucket EXCEPT ![k] = f]
              /\ granted' = granted /\ ideal' = ideal
        /\ born' = IF bucket[k] = Absent THEN [born EXCEPT ![k] = e.last_refill] ELSE born
        /\ skew' = [skew EXCEPT ![k] = skew[k] + s]
    BY <1>k, <1>e, <1>f, <1>s DEF Acquire
  <1>5. PICK u \in Nat, left \in Nat, n \in Nat :
        /\ bucket' = [bucket EXCEPT ![k] = [f EXCEPT !.tokens = left]]
        /\ granted' = [granted EXCEPT ![k] = n]
        /\ ideal' = [ideal EXCEPT ![k] = ideal[k] - u]
        /\ left + u = f.tokens
        /\ n * Unit(k) = granted[k] * Unit(k) + u
    <2>1. CASE /\ f.tokens >= Unit(k)
               /\ bucket' = [bucket EXCEPT ![k] = [f EXCEPT !.tokens = f.tokens - Unit(k)]]
               /\ granted' = [granted EXCEPT ![k] = granted[k] + 1]
               /\ ideal' = [ideal EXCEPT ![k] = ideal[k] - Unit(k)]
      <3>1. (granted[k] + 1) * Unit(k) = granted[k] * Unit(k) + Unit(k)
        BY <1>1, <1>2, <1>3, OneMore
      <3>2. /\ f.tokens - Unit(k) \in Nat /\ (f.tokens - Unit(k)) + Unit(k) = f.tokens
            /\ granted[k] + 1 \in Nat /\ Unit(k) \in Nat
        BY <1>1, <1>2, <1>3, <1>4, <2>1
      <3> QED
        BY <2>1, <3>1, <3>2
    <2>2. CASE bucket' = [bucket EXCEPT ![k] = f] /\ granted' = granted /\ ideal' = ideal
      <3>1. /\ f = [f EXCEPT !.tokens = f.tokens] /\ granted[k] \in Nat
            /\ ideal[k] - 0 = ideal[k] /\ f.tokens + 0 = f.tokens
            /\ granted[k] * Unit(k) = granted[k] * Unit(k) + 0
        BY <1>1, <1>2, <1>3, <1>4
      <3>2. /\ granted = [granted EXCEPT ![k] = granted[k]]
            /\ ideal = [ideal EXCEPT ![k] = ideal[k] - 0]
        BY <1>1, <1>2, <3>1
      <3>3. bucket' = [bucket EXCEPT ![k] = [f EXCEPT !.tokens = f.tokens]]
        BY <2>2, <3>1
      <3> QED
        BY <1>4, <2>2, <3>1, <3>2, <3>3
    <2> QED
      BY <1>a, <2>1, <2>2
  <1>7. /\ born' \in [Keys -> 0 .. MaxTime] /\ born'[k] = b
        /\ \A q \in Keys \ {k} : born'[q] = born[q]
    BY <1>1, <1>2, <1>a, <1>b
  <1>8. [f EXCEPT !.tokens = left] \in [exists : {TRUE}, tokens : Nat, last_refill : 0 .. MaxTime]
    BY <1>1, <1>5
  <1>9. /\ bucket'[k] # Absent /\ bucket'[k].tokens = left
        /\ bucket'[k].last_refill = f.last_refill
    BY <1>1, <1>2, <1>5, <1>8 DEF Absent
  <1>10. \A q \in Keys \ {k} :
           /\ bucket'[q] = bucket[q] /\ granted'[q] = granted[q]
           /\ ideal'[q] = ideal[q] /\ skew'[q] = skew[q] /\ born'[q] = born[q]
    BY <1>1, <1>2, <1>5, <1>7, <1>a
  <1>11. /\ granted'[k] = n /\ ideal'[k] = ideal[k] - u
         /\ skew'[k] = skew[k] + s
    BY <1>1, <1>2, <1>5, <1>a
  <1>12. TypeOK'
    <2>1. /\ bucket' \in [Keys -> BucketStates] /\ granted' \in [Keys -> Nat]
          /\ skew' \in [Keys -> Nat] /\ ideal' \in [Keys -> Int]
      <3>1. [f EXCEPT !.tokens = left] \in BucketStates
        BY <1>8 DEF BucketStates
      <3>2. skew[k] + s \in Nat /\ ideal[k] - u \in Int
        BY <1>1, <1>2, <1>4
      <3> QED
        BY <1>1, <1>2, <1>5, <1>a, <3>1, <3>2
    <2>2. \A q \in Keys : bucket'[q] # Absent => bucket'[q].tokens <= Full(q)
      <3> SUFFICES ASSUME NEW q \in Keys, bucket'[q] # Absent
                   PROVE  bucket'[q].tokens <= Full(q)
        OBVIOUS
      <3>1. CASE q = k
        BY <1>1, <1>3, <1>4, <1>5, <1>9, <3>1
      <3>2. CASE q # k
        BY <1>10, <3>2 DEF Inv, TypeOK
      <3> QED
        BY <3>1, <3>2
    <2>3. call' \in [Tasks -> Calls]
      BY <1>0, <1>2 DEF Calls
    <2> QED
      BY <1>0, <1>2, <1>7, <2>1, <2>2, <2>3 DEF TypeOK, Full, Unit
  <1>13. CallsInPast'
    BY <1>0, <1>2 DEF Inv, CallsInPast
  <1>14. ASSUME NEW q \in Keys
         PROVE  KeyInv(q)'
    <2>1. CASE q # k
      <3>1. KeyInv(q)
        BY SMTT(60) DEF Inv
      <3> QED
        BY <1>0, <1>10, <2>1, <3>1 DEF KeyInv, Full, Unit
    <2>2. CASE q = k
      <3>1. ideal[k] \in Int /\ ideal[k] <= Full(k)
        BY <1>1, <1>2 DEF Inv, KeyInv
      <3>2. ideal'[k] <= Full(k)
        BY <1>3, <1>5, <1>11, <3>1
      <3>3. b \in Nat /\ skew[k] \in Nat
        BY <1>1, <1>2
      <3>4. granted'[k] * Unit(k) + left <= Full(k) + (f.last_refill - b) + skew'[k]
        BY <1>1, <1>3, <1>4, <1>5, <1>11, <3>3
      <3> QED
        BY <1>0, <1>1, <1>7, <1>9, <2>2, <3>2, <3>4 DEF KeyInv, Full, Unit
    <2> QED
      BY <2>1, <2>2
  <1>15. NeverStarved'
    <2> SUFFICES ASSUME NEW q \in Keys, bucket'[q] # Absent
                 PROVE  AtMost(Full(q), bucket'[q].tokens +
                          (IF Refill[q] = 0 THEN 0 ELSE now' - bucket'[q].last_refill))
                          >= ideal'[q]
      BY DEF NeverStarved, AtMost
    <2>1. CASE q # k
      BY <1>0, <1>10, <2>1 DEF Inv, NeverStarved
    <2>2. CASE q = k
      <3>c. PICK c : c = IF Refill[k] = 0 THEN 0 ELSE now - f.last_refill
        OBVIOUS
      <3>1. c \in Nat /\ ideal[k] \in Int /\ ideal[k] <= Full(k)
        BY <1>1, <1>2, <1>4, <3>c DEF Inv, KeyInv
      <3>2. AtMost(Full(k), f.tokens + c) >= ideal[k]
        BY <1>1, <3>c
      <3>3. AtMost(Full(k), left + c) >= ideal[k] - u
        BY <1>3, <1>4, <1>5, <3>1, <3>2 DEF AtMost
      <3> QED
        BY <1>0, <1>9, <1>11, <2>2, <3>c, <3>3
    <2> QED
      BY <2>1, <2>2
  <1> QED
    BY <1>12, <1>13, <1>14, <1>15 DEF Inv

\* A fresh limiter has no buckets.
LEMMA InitInv ==
  ASSUME Init
  PROVE  Inv
  <1>1. \A k \in Keys : Full(k) \in Nat /\ ideal[k] = Full(k) /\ bucket[k] = Absent
    BY Numbers DEF Init
  <1>2. TypeOK
    BY <1>1, LimiterAssumption DEF Init, TypeOK, Calls, BucketStates
  <1>3. CallsInPast
    BY DEF Init, CallsInPast
  <1>4. \A k \in Keys : KeyInv(k)
    <2> SUFFICES ASSUME NEW k \in Keys PROVE KeyInv(k)
      OBVIOUS
    <2>1. granted[k] = 0 /\ bucket[k] = Absent /\ ideal[k] <= Full(k)
      BY <1>1 DEF Init
    <2> QED
      BY <2>1 DEF KeyInv
  <1> QED
    BY <1>1, <1>2, <1>3, <1>4 DEF Inv, NeverStarved

\* Every step of the limiter preserves the invariant.
LEMMA NextInv ==
  ASSUME Inv, [Next]_vars
  PROVE  Inv'
  <1>1. CASE UNCHANGED vars
    BY <1>1 DEF vars, Inv, TypeOK, CallsInPast, KeyInv, NeverStarved, Full, Unit, AtMost
  <1> QED
    BY <1>1, ReadClockInv, TickInv, AcquireInv DEF Next

\* The invariant holds in every reachable state.
THEOREM LimiterInvariance == Spec => []Inv
  BY InitInv, NextInv, PTL DEF Spec

\* The balance bounds what was granted.
LEMMA BalanceBounds ==
  ASSUME Inv
  PROVE  BudgetUpToSkew
  <1> SUFFICES ASSUME NEW k \in Keys
               PROVE  granted[k] * Unit(k) <= Full(k) + Elapsed(k) + skew[k]
    BY DEF BudgetUpToSkew
  <1>1. /\ granted[k] \in Nat /\ skew[k] \in Nat /\ born[k] \in Nat /\ now \in Nat
        /\ Unit(k) \in Nat /\ Full(k) \in Nat /\ granted[k] * Unit(k) \in Nat
    BY Numbers, OneMore, LimiterAssumption DEF Inv, TypeOK
  <1>2. CASE bucket[k] = Absent
    <2>1. granted[k] * Unit(k) = 0 /\ Elapsed(k) = 0
      BY <1>1, <1>2 DEF Inv, KeyInv, Elapsed
    <2> QED
      BY <1>1, <2>1
  <1>3. CASE bucket[k] # Absent
    <2>1. /\ bucket[k].tokens \in Nat /\ bucket[k].last_refill \in Nat
          /\ bucket[k].last_refill <= now
          /\ Refill[k] = 0 => bucket[k].last_refill = born[k]
          /\ granted[k] * Unit(k) + bucket[k].tokens
               <= Full(k) + (bucket[k].last_refill - born[k]) + skew[k]
      BY <1>3, BucketRecord DEF Inv, KeyInv
    <2> QED
      BY <1>1, <1>3, <2>1 DEF Elapsed
  <1> QED
    BY <1>2, <1>3

\* The limiter stays well typed, and no bucket ever holds more than its capacity.
THEOREM LimiterTypeCorrect == Spec => []TypeOK
  <1>1. Inv => TypeOK
    BY DEF Inv
  <1> QED
    BY <1>1, LimiterInvariance, PTL

\* What a bucket grants stays within its capacity plus one token per refill
\* period, up to the skew, for every rule (rate_limit.rs try_acquire).
THEOREM GrantsAreBounded == Spec => []BudgetUpToSkew
  BY LimiterInvariance, BalanceBounds, PTL

\* No order of clock readings and mutex acquisitions makes a bucket poorer than
\* one refilled at every tick (rate_limit.rs try_acquire).
THEOREM NoStarvation == Spec => []NeverStarved
  <1>1. Inv => NeverStarved
    BY DEF Inv
  <1> QED
    BY <1>1, LimiterInvariance, PTL
=============================================================================
