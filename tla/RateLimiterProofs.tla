--------------------------- MODULE RateLimiterProofs ---------------------------
(***************************************************************************)
(* Proofs about RateLimiter, for any requests, callers, processes, limit   *)
(* and window, and any number of faults.                                   *)
(***************************************************************************)
EXTENDS RateLimiter, FiniteSetTheorems, TLAPS

\* A multiple of a number is small only if the factor is.
LEMMA SmallFactor ==
    ASSUME NEW w \in Nat \ {0}, NEW k \in Int, -w < w * k, w * k <= w
    PROVE  k = 0 \/ k = 1
<1>1. CASE k >= 2
  <2>1. w * k = w + w * (k - 1)
    OBVIOUS
  <2>2. w * (k - 1) >= w
    BY <1>1
  <2> QED
    BY <2>1, <2>2
<1>2. CASE k <= -1
  <2>1. w * k <= -w
    BY <1>2
  <2> QED
    BY <2>1
<1> QED
  BY <1>1, <1>2

\* A window begins at or before each of its moments, less than its length ago,
\* and the next moment is of the same window or begins one.
LEMMA WindowArithmetic ==
    ASSUME NEW t \in Nat
    PROVE  /\ WindowStart(t) \in Nat
           /\ WindowStart(t) <= t /\ t < WindowStart(t) + Window
           /\ WindowStart(t + 1) = WindowStart(t) \/ WindowStart(t + 1) = t + 1
<1>1. Window \in Nat \ {0}
  BY LimiterAssumption
<1>2. /\ t % Window \in 0..(Window - 1) /\ (t + 1) % Window \in 0..(Window - 1)
      /\ t = Window * (t \div Window) + (t % Window)
      /\ t + 1 = Window * ((t + 1) \div Window) + ((t + 1) % Window)
      /\ t \div Window \in Int /\ (t + 1) \div Window \in Int
  BY <1>1
<1> DEFINE k == (t + 1) \div Window - t \div Window
<1>3. t % Window <= t
  BY <1>1, <1>2
<1>4. Window * k = 1 + (t % Window) - ((t + 1) % Window)
  BY <1>1, <1>2
<1>5. k = 0 \/ k = 1
  BY <1>1, <1>2, <1>4, SmallFactor
<1>6. (t + 1) % Window = (t % Window) + 1 \/ (t + 1) % Window = 0
  BY <1>1, <1>2, <1>4, <1>5
<1> QED
  BY <1>1, <1>2, <1>3, <1>6 DEF WindowStart
------------------------------------------------------------------------------
(* Type correctness.                                                       *)

\* The bucket of a request is one of the buckets, and holds a count.
LEMMA BucketType ==
    ASSUME TypeOK, NEW r \in Requests
    PROVE  /\ BucketOf(r) \in Buckets
           /\ BucketOf(r)[2] = WindowStart(read[r])
           /\ bucket[BucketOf(r)].count \in Nat
<1>1. read[r] \in Times
  BY DEF TypeOK
<1>2. BucketOf(r) \in Buckets
  BY <1>1 DEF BucketOf, Buckets, Identities, Windows
<1> QED
  BY <1>2 DEF TypeOK, BucketOf

LEMMA FaultType ==
    ASSUME TypeOK, Fault
    PROVE  faults' \in 0..MaxFaults
BY LimiterAssumption DEF Fault, TypeOK

\* Counting a request sets its bucket and charges the request.
LEMMA IncrementType ==
    ASSUME TypeOK, NEW r \in Requests, NEW n \in Nat \ {0}, Increment(r, n)
    PROVE  /\ bucket' \in [Buckets -> [count : Nat, expires : Nat]]
           /\ charge' \in [Requests -> Charge \cup {None}]
<1>1. BucketOf(r) \in Buckets
  BY BucketType
<1>2. Expiry(now) \in Nat
  BY LimiterAssumption DEF Expiry, TypeOK, Times
<1> QED
  BY <1>1, <1>2 DEF Increment, TypeOK, Charge

\* An answered request has no locals.
LEMMA AnswerType ==
    ASSUME TypeOK, NEW r \in Requests, NEW v \in Verdicts, Answer(r, v)
    PROVE  /\ pc' = [pc EXCEPT ![r] = "answered"]
           /\ pc' \in [Requests -> {"new", "build", "clock", "consume", "answered"}]
           /\ verdict' \in [Requests -> Verdicts \cup {None}]
           /\ process' \in [Requests -> Processes \cup {None}]
           /\ client' \in [Requests -> BOOLEAN \cup {None}]
           /\ read' \in [Requests -> Times]
BY LimiterAssumption DEF Answer, Goto, TypeOK, Times

LEMMA InitType == Init => TypeOK
<1> SUFFICES ASSUME Init
             PROVE  TypeOK
  OBVIOUS
<1>1. Absent \in [count : Nat, expires : Nat]
  BY DEF Absent
<1>2. 0 \in Times /\ 0 \in 0..MaxFaults
  BY LimiterAssumption DEF Times
<1>3. calm \in [Requests -> BOOLEAN]
  BY DEF Init
<1> QED
  BY <1>1, <1>2, <1>3 DEF Init, TypeOK

\* Every step of the clock, Redis, the processes and the requests keeps the
\* types: among the rest, a bucket is only ever counted up.
LEMMA TypeStep == TypeOK /\ [Next]_vars => TypeOK'
<1> SUFFICES ASSUME TypeOK, [Next]_vars
             PROVE  TypeOK'
  OBVIOUS
<1> USE DEF requestVars
<1>1. Absent \in [count : Nat, expires : Nat]
  BY DEF Absent
<1>2. CASE Tick
  <2>1. now' \in Times
    BY <1>2, LimiterAssumption DEF Tick, TypeOK, Times
  <2>2. bucket' \in [Buckets -> [count : Nat, expires : Nat]]
    BY <1>1, <1>2 DEF Tick, TypeOK
  <2> QED
    BY <1>2, <2>1, <2>2 DEF Tick, TypeOK
<1>3. CASE RedisFails
  <2>1. calm' \in [Requests -> BOOLEAN]
    BY <1>3 DEF RedisFails
  <2> QED
    BY <1>3, <2>1, FaultType DEF RedisFails, TypeOK
<1>4. CASE RedisReturns
  <2>1. bucket' \in [Buckets -> [count : Nat, expires : Nat]]
    BY <1>1, <1>4 DEF RedisReturns, TypeOK
  <2>2. wiped' \subseteq Windows
    BY <1>4 DEF RedisReturns, TypeOK, Windows
  <2> QED
    BY <1>4, <2>1, <2>2 DEF RedisReturns, TypeOK
<1>5. ASSUME NEW p \in Processes, Restart(p)
      PROVE  TypeOK'
  BY <1>5, FaultType DEF Restart, TypeOK
<1>6. ASSUME NEW r \in Requests, NEW p \in Processes, Arrive(r, p)
      PROVE  TypeOK'
  BY <1>6 DEF Arrive, GetLimiter, Goto, TypeOK
<1>7. ASSUME NEW r \in Requests, Reject(r) \/ BuildLimiter(r) \/ ReadClock(r)
      PROVE  TypeOK'
  BY <1>7 DEF Reject, BuildLimiter, ReadClock, Goto, TypeOK, Verdicts
<1>8. ASSUME NEW r \in Requests, Consume(r)
      PROVE  TypeOK'
  <2> DEFINE n == bucket[BucketOf(r)].count + 1
  <2>1. n \in Nat \ {0}
    BY BucketType
  <2> HIDE DEF n
  <2>2. Increment(r, n) /\ \E v \in Verdicts : Answer(r, v)
    BY <1>8 DEF Consume, Verdicts, n
  <2> QED
    BY <1>8, <2>1, <2>2, IncrementType, AnswerType DEF Consume, TypeOK
<1>9. ASSUME NEW r \in Requests, ReplyLost(r)
      PROVE  TypeOK'
  <2>1. bucket[BucketOf(r)].count + 1 \in Nat \ {0}
    BY BucketType
  <2>2. "open" \in Verdicts
    BY DEF Verdicts
  <2>3. calm' \in [Requests -> BOOLEAN]
    BY <1>9 DEF ReplyLost, TypeOK
  <2> QED
    BY <1>9, <2>1, <2>2, <2>3, IncrementType, AnswerType, FaultType DEF ReplyLost, TypeOK
<1>10. ASSUME NEW r \in Requests, FailOpen(r)
       PROVE  TypeOK'
  <2>1. "open" \in Verdicts
    BY DEF Verdicts
  <2> QED
    BY <1>10, <2>1, AnswerType DEF FailOpen, TypeOK
<1>11. CASE UNCHANGED vars
  BY <1>11 DEF vars, TypeOK
<1> QED
  BY <1>2, <1>3, <1>4, <1>5, <1>6, <1>7, <1>8, <1>9, <1>10, <1>11 DEF Next

\* The types hold in every reachable state.
THEOREM TypeCorrect == Spec => []TypeOK
BY InitType, TypeStep, PTL DEF Spec
------------------------------------------------------------------------------
(* The invariant.                                                          *)

Charged(r) == charge[r] # None

\* What a verdict says of the number a request drew; and a charge is of a window
\* that has begun.
ChargesOK ==
    \A r \in Requests :
        /\ verdict[r] = "admitted" => Charged(r) /\ charge[r].number <= Limit
        /\ verdict[r] = "denied" => Charged(r) /\ charge[r].number > Limit
        /\ Charged(r) => /\ pc[r] = "answered"
                         /\ charge[r].bucket[2] <= now
                         /\ charge[r].number <= Limit => verdict[r] \in {"admitted", "open"}
        /\ read[r] <= now

\* Request q drew number m of bucket b.
Drew(q, b, m) == Charged(q) /\ charge[q].bucket = b /\ charge[q].number = m

\* A count is reached one request at a time.
NumbersReached ==
    /\ \A b \in Buckets : \A m \in 1..bucket[b].count : \E q \in Requests : Drew(q, b, m)
    /\ \A r \in Requests : Charged(r) =>
         \A m \in 1..charge[r].number : \E q \in Requests : Drew(q, charge[r].bucket, m)

\* While a window lasts, its buckets keep what was counted in them.
WindowCounted ==
    \A r \in Requests :
        Charged(r) /\ charge[r].bucket[2] = WindowStart(now) /\ WindowStart(now) \notin wiped
        => /\ charge[r].number <= bucket[charge[r].bucket].count
           /\ bucket[charge[r].bucket].expires >= WindowStart(now) + Window

\* So no two requests draw the same number in time.
NumbersDistinct ==
    \A q, r \in Requests :
        /\ q # r /\ Charged(q) /\ Charged(r)
        /\ charge[q].prompt /\ charge[r].prompt
        /\ charge[q].bucket = charge[r].bucket /\ charge[r].bucket[2] \notin wiped
        => charge[q].number # charge[r].number

\* WindowLimit alone says nothing of the count in Redis, and does not survive a
\* Consume.
IInv == TypeOK /\ ChargesOK /\ NumbersReached /\ WindowCounted /\ NumbersDistinct

LEMMA InitInv == Init => IInv
<1> SUFFICES ASSUME Init
             PROVE  IInv
  OBVIOUS
<1>1. \A r \in Requests : ~Charged(r) /\ verdict[r] = None /\ read[r] = 0 /\ now = 0
  BY DEF Init, Charged
<1>2. \A b \in Buckets : bucket[b].count = 0
  BY DEF Init, Absent
<1>3. None \notin {"admitted", "denied"}
  BY NoneAssumption DEF Verdicts
<1>4. ChargesOK
  BY <1>1, <1>3 DEF ChargesOK
<1>5. NumbersReached
  BY <1>1, <1>2 DEF NumbersReached
<1> QED
  BY <1>1, <1>4, <1>5, InitType DEF IInv, WindowCounted, NumbersDistinct

------------------------------------------------------------------------------
(* Steps that count nobody.                                                *)

\* Whatever leaves the charges and their verdicts alone, and answers without a
\* count only as "open" or "unauthorized", keeps the verdicts true.
LEMMA Uncharged ==
    ASSUME TypeOK, ChargesOK, NEW s \in Requests, ~Charged(s),
           charge' = charge, now' = now,
           \A r \in Requests \ {s} : UNCHANGED <<pc[r], verdict[r], read[r]>>,
           verdict'[s] \notin {"admitted", "denied"}, read'[s] <= now
    PROVE  ChargesOK'
BY DEF ChargesOK, Charged

LEMMA QuietStep ==
    ASSUME IInv, NEW r \in Requests,
           \/ \E p \in Processes : Arrive(r, p)
           \/ Reject(r) \/ BuildLimiter(r) \/ ReadClock(r) \/ FailOpen(r)
    PROVE  ChargesOK' /\ UNCHANGED <<bucket, charge, now, wiped>>
<1> USE DEF IInv
<1>1. UNCHANGED <<bucket, charge, now, wiped>>
  BY DEF Arrive, GetLimiter, Reject, BuildLimiter, ReadClock, FailOpen
<1>2. pc[r] # "answered"
  BY DEF Arrive, GetLimiter, Reject, BuildLimiter, ReadClock, FailOpen
<1>3. ~Charged(r) /\ verdict[r] \notin {"admitted", "denied"} /\ read[r] <= now
  BY <1>2 DEF ChargesOK
<1>4. \A q \in Requests \ {r} : UNCHANGED <<pc[q], verdict[q], read[q]>>
  BY DEF TypeOK, Arrive, GetLimiter, Reject, BuildLimiter, ReadClock, FailOpen, Answer, Goto
<1>5. verdict'[r] \notin {"admitted", "denied"}
  BY <1>3 DEF TypeOK, Arrive, GetLimiter, Reject, BuildLimiter, ReadClock, FailOpen, Answer
<1>6. now \in Nat
  BY LimiterAssumption DEF TypeOK, Times
<1>7. read'[r] <= now
  BY <1>3, <1>6 DEF TypeOK, Arrive, GetLimiter, Reject, BuildLimiter, ReadClock, FailOpen, Answer
<1> QED
  BY <1>1, <1>3, <1>4, <1>5, <1>7, Uncharged

\* A charge is of a bucket and of a window, and has a number.
LEMMA ChargeType ==
    ASSUME TypeOK
    PROVE  \A r \in Requests : Charged(r) =>
               /\ charge[r].bucket \in Buckets /\ charge[r].number \in Nat \ {0}
               /\ charge[r].bucket[2] \in Nat
<1>1. Windows \subseteq Nat
  BY WindowArithmetic DEF Windows, Times
<1>2. \A b \in Buckets : b[2] \in Nat
  BY <1>1 DEF Buckets
<1>3. \A r \in Requests : Charged(r) => charge[r] \in Charge
  BY DEF TypeOK, Charged
<1> QED
  BY <1>2, <1>3 DEF Charge

\* The clock only expires the buckets of windows that are over.
LEMMA TickStep ==
    ASSUME IInv, Tick
    PROVE  IInv'
<1> USE DEF IInv
<1>1. /\ now \in Nat /\ now' = now + 1 /\ Window \in Nat \ {0}
      /\ bucket' = [b \in Buckets |-> IF bucket[b].expires <= now + 1 THEN Absent ELSE bucket[b]]
      /\ UNCHANGED <<pc, read, verdict, charge, wiped>>
  BY LimiterAssumption DEF Tick, TypeOK, Times, requestVars
<1>2. TypeOK'
  BY TypeStep DEF Next
<1>3. \A r \in Requests : Charged(r) =>
         /\ charge[r].bucket \in Buckets /\ charge[r].number \in Nat \ {0}
         /\ charge[r].bucket[2] <= now /\ charge[r].bucket[2] \in Nat
  BY ChargeType DEF ChargesOK
<1>4. \A r \in Requests : Charged(r)' <=> Charged(r)
  BY <1>1 DEF Charged
<1>5. ChargesOK'
  <2>1. \A r \in Requests : read[r] \in Nat
    BY DEF TypeOK, Times
  <2> QED
    BY <1>1, <1>3, <1>4, <2>1 DEF ChargesOK
<1>6. NumbersReached'
  <2>1. \A q \in Requests : \A b, m : Drew(q, b, m)' <=> Drew(q, b, m)
    BY <1>1, <1>4 DEF Drew
  <2>2. \A b \in Buckets : bucket'[b] = bucket[b] \/ bucket'[b].count = 0
    BY <1>1 DEF Absent
  <2>3. \A b \in Buckets : \A m \in 1..bucket'[b].count : m \in 1..bucket[b].count
    BY <2>2
  <2> QED
    BY <1>1, <1>4, <2>1, <2>3 DEF NumbersReached
<1>7. WindowCounted'
  <2> SUFFICES ASSUME NEW r \in Requests, Charged(r),
                      charge[r].bucket[2] = WindowStart(now'), WindowStart(now') \notin wiped
               PROVE  /\ charge[r].number <= bucket'[charge[r].bucket].count
                      /\ bucket'[charge[r].bucket].expires >= WindowStart(now') + Window
    BY <1>1, <1>4 DEF WindowCounted
  <2>1. WindowStart(now') = WindowStart(now)
    BY <1>1, <1>3, WindowArithmetic
  <2>2. /\ charge[r].number <= bucket[charge[r].bucket].count
        /\ bucket[charge[r].bucket].expires >= WindowStart(now) + Window
    BY <2>1 DEF WindowCounted
  <2>3. now + 1 < WindowStart(now) + Window
    BY <1>1, <2>1, WindowArithmetic
  <2>4. bucket[charge[r].bucket].expires \in Nat /\ WindowStart(now) \in Nat
    BY <1>1, <1>3, WindowArithmetic DEF TypeOK
  <2>5. bucket'[charge[r].bucket] = bucket[charge[r].bucket]
    BY <1>1, <1>3, <2>2, <2>3, <2>4
  <2> QED
    BY <2>1, <2>2, <2>5
<1>8. NumbersDistinct'
  BY <1>1, <1>4 DEF NumbersDistinct
<1> QED
  BY <1>2, <1>5, <1>6, <1>7, <1>8
\* Redis going away, coming back whole or empty, and a restart of a process.
LEMMA RedisStep ==
    ASSUME IInv, RedisFails \/ RedisReturns \/ \E p \in Processes : Restart(p)
    PROVE  IInv'
<1> USE DEF IInv
<1>1. UNCHANGED <<now, pc, read, verdict, charge>>
  BY DEF RedisFails, RedisReturns, Restart, requestVars
<1>2. \/ UNCHANGED <<bucket, wiped>>
      \/ /\ bucket' = [b \in Buckets |-> Absent]
         /\ wiped' = wiped \cup {WindowStart(now)}
  BY DEF RedisFails, RedisReturns, Restart, requestVars
<1>3. TypeOK'
  BY TypeStep DEF Next
<1>4. ChargesOK'
  BY <1>1 DEF ChargesOK, Charged
<1>5. \A q \in Requests : Charged(q)' <=> Charged(q)
  BY <1>1 DEF Charged
<1>6. NumbersReached'
  <2>1. \A q \in Requests : \A b, m : Drew(q, b, m)' <=> Drew(q, b, m)
    BY <1>1, <1>5 DEF Drew
  <2>2. \A b \in Buckets : \A m \in 1..bucket'[b].count : m \in 1..bucket[b].count
    BY <1>2 DEF Absent
  <2> QED
    BY <1>1, <1>5, <2>1, <2>2 DEF NumbersReached
<1>7. WindowCounted'
  BY <1>1, <1>2, <1>5 DEF WindowCounted
<1>8. NumbersDistinct'
  BY <1>1, <1>2, <1>5 DEF NumbersDistinct
<1> QED
  BY <1>3, <1>4, <1>6, <1>7, <1>8

------------------------------------------------------------------------------
(* Steps that count a request.                                             *)

LEMMA CountStep ==
    ASSUME IInv, NEW r \in Requests, Consume(r) \/ ReplyLost(r)
    PROVE  IInv'
<1> USE DEF IInv
<1> DEFINE b == BucketOf(r)
           n == bucket[b].count + 1
<1>1. /\ b \in Buckets /\ bucket[b].count \in Nat /\ n \in Nat \ {0}
      /\ b[2] = WindowStart(read[r]) /\ b[2] \in Nat /\ b[2] <= now
      /\ now \in Nat /\ Window \in Nat \ {0} /\ Limit \in Nat
  <2>1. read[r] \in Nat /\ read[r] <= now /\ now \in Nat
    BY DEF TypeOK, Times, ChargesOK
  <2> QED
    BY <2>1, BucketType, WindowArithmetic, LimiterAssumption
<1> HIDE DEF b, n
<1>2. /\ pc[r] = "consume"
      /\ bucket' = [bucket EXCEPT ![b] = [count |-> n, expires |-> now + Window]]
      /\ charge' = [charge EXCEPT ![r] = [bucket |-> b, number |-> n,
                                          prompt |-> WindowStart(now) = b[2]]]
      /\ UNCHANGED <<now, wiped>>
  BY <1>1 DEF Consume, ReplyLost, Increment, Expiry, b, n
<1>3. \E v \in Verdicts :
        /\ Answer(r, v)
        /\ v = "open" \/ v = IF n <= Limit THEN "admitted" ELSE "denied"
  BY DEF Consume, ReplyLost, Within, Verdicts, b, n
<1>4. ~Charged(r)
  BY <1>2 DEF ChargesOK
<1>5. TypeOK'
  BY TypeStep DEF Next
<1>6. /\ Charged(r)' /\ charge'[r].bucket = b /\ charge'[r].number = n
      /\ charge'[r].prompt <=> WindowStart(now) = b[2]
  <2>1. [bucket |-> b, number |-> n, prompt |-> WindowStart(now) = b[2]] \in Charge
    BY <1>1 DEF Charge
  <2> QED
    BY <1>2, <2>1, NoneAssumption DEF Charged, TypeOK
<1>7. \A q \in Requests \ {r} : charge'[q] = charge[q] /\ (Charged(q)' <=> Charged(q))
  BY <1>2 DEF Charged, TypeOK
<1>8. ChargesOK'
  <2>1. /\ pc'[r] = "answered" /\ read'[r] = 0
        /\ verdict'[r] = "open" \/ verdict'[r] = IF n <= Limit THEN "admitted" ELSE "denied"
    BY <1>3 DEF Answer, Goto, TypeOK
  <2>2. \A q \in Requests \ {r} : UNCHANGED <<pc[q], verdict[q], read[q]>>
    BY <1>3 DEF Answer, Goto, TypeOK
  <2> QED
    BY <1>1, <1>2, <1>6, <1>7, <2>1, <2>2 DEF ChargesOK
<1> DEFINE Draws(q, c, m) ==
               Charged(q)' /\ charge'[q].bucket = c /\ charge'[q].number = m
<1>9. \A q \in Requests : \A c, m : Drew(q, c, m) => Draws(q, c, m)
  BY <1>4, <1>7 DEF Drew
<1>10. NumbersReached'
  <2>1. \A m \in 1..n : \E q \in Requests : Draws(q, b, m)
    <3> SUFFICES ASSUME NEW m \in 1..n
                 PROVE  \E q \in Requests : Draws(q, b, m)
      OBVIOUS
    <3>1. CASE m = n
      BY <1>6, <3>1
    <3>2. CASE m # n
      <4>1. m \in 1..bucket[b].count
        BY <1>1, <3>2 DEF n
      <4>2. \E q \in Requests : Drew(q, b, m)
        BY <1>1, <4>1 DEF NumbersReached
      <4> QED
        BY <1>9, <4>2
    <3> QED
      BY <3>1, <3>2
  <2>2. \A c \in Buckets : \A m \in 1..bucket'[c].count : \E q \in Requests : Draws(q, c, m)
    <3> SUFFICES ASSUME NEW c \in Buckets, NEW m \in 1..bucket'[c].count
                 PROVE  \E q \in Requests : Draws(q, c, m)
      OBVIOUS
    <3>1. CASE c = b
      <4>1. bucket'[c].count = n
        BY <1>1, <1>2, <3>1 DEF TypeOK
      <4> QED
        BY <2>1, <3>1, <4>1
    <3>2. CASE c # b
      <4>1. bucket'[c] = bucket[c]
        BY <1>2, <3>2 DEF TypeOK
      <4>2. \E q \in Requests : Drew(q, c, m)
        BY <4>1 DEF NumbersReached
      <4> QED
        BY <1>9, <4>2
    <3> QED
      BY <3>1, <3>2
  <2>3. \A q \in Requests : Charged(q)' =>
          \A m \in 1..charge'[q].number :
             \E p \in Requests : Draws(p, charge'[q].bucket, m)
    <3> SUFFICES ASSUME NEW q \in Requests, Charged(q)', NEW m \in 1..charge'[q].number
                 PROVE  \E p \in Requests : Draws(p, charge'[q].bucket, m)
      OBVIOUS
    <3>1. CASE q = r
      BY <1>6, <2>1, <3>1
    <3>2. CASE q # r
      <4>1. Charged(q) /\ charge'[q] = charge[q]
        BY <1>7, <3>2
      <4>2. \E p \in Requests : Drew(p, charge[q].bucket, m)
        BY <4>1 DEF NumbersReached
      <4> QED
        BY <1>9, <4>1, <4>2
    <3> QED
      BY <3>1, <3>2
  <2> QED
    BY <2>2, <2>3 DEF NumbersReached, Drew
<1>11. WindowCounted'
  <2> SUFFICES ASSUME NEW q \in Requests, Charged(q)',
                      charge'[q].bucket[2] = WindowStart(now), WindowStart(now) \notin wiped
               PROVE  /\ charge'[q].number <= bucket'[charge'[q].bucket].count
                      /\ bucket'[charge'[q].bucket].expires >= WindowStart(now) + Window
    BY <1>2 DEF WindowCounted
  <2>1. WindowStart(now) \in Nat /\ WindowStart(now) <= now
    BY <1>1, WindowArithmetic
  <2>2. bucket'[b].count = n /\ bucket'[b].expires = now + Window
    BY <1>1, <1>2 DEF TypeOK
  <2>3. CASE q = r
    BY <1>1, <1>6, <2>1, <2>2, <2>3
  <2>4. CASE q # r
    <3>1. /\ charge[q].number <= bucket[charge[q].bucket].count
          /\ bucket[charge[q].bucket].expires >= WindowStart(now) + Window
      BY <1>7, <2>4 DEF WindowCounted
    <3>2. CASE charge[q].bucket = b
      <4>1. charge[q].number \in Nat
        BY <1>7, <2>4, ChargeType
      <4> QED
        BY <1>1, <1>7, <2>1, <2>2, <2>4, <3>1, <3>2, <4>1 DEF n
    <3>3. CASE charge[q].bucket # b
      BY <1>2, <1>7, <2>4, <3>1, <3>3 DEF TypeOK
    <3> QED
      BY <3>2, <3>3
  <2> QED
    BY <2>3, <2>4
<1>12. NumbersDistinct'
  <2>1. ASSUME NEW q \in Requests, q # r, Charged(q),
               charge[q].bucket = b, WindowStart(now) = b[2], b[2] \notin wiped
        PROVE  charge[q].number # n
    <3>1. charge[q].number <= bucket[b].count /\ charge[q].number \in Nat
      BY <2>1, ChargeType DEF WindowCounted
    <3> QED
      BY <1>1, <3>1 DEF n
  <2> QED
    BY <1>2, <1>6, <1>7, <2>1 DEF NumbersDistinct
<1> QED
  BY <1>5, <1>8, <1>10, <1>11, <1>12

------------------------------------------------------------------------------
LEMMA Inductive == IInv /\ [Next]_vars => IInv'
<1> SUFFICES ASSUME IInv, [Next]_vars
             PROVE  IInv'
  OBVIOUS
<1>1. TypeOK'
  BY TypeStep DEF IInv
<1>2. ASSUME ChargesOK', UNCHANGED <<bucket, charge, now, wiped>>
      PROVE  IInv'
  BY <1>1, <1>2
     DEF IInv, NumbersReached, WindowCounted, NumbersDistinct, Drew, Charged
<1>3. ASSUME NEW r \in Requests,
             \/ \E p \in Processes : Arrive(r, p)
             \/ Reject(r) \/ BuildLimiter(r) \/ ReadClock(r) \/ FailOpen(r)
      PROVE  IInv'
  BY <1>2, <1>3, QuietStep
<1>4. ASSUME UNCHANGED vars
      PROVE  IInv'
  <2>1. ChargesOK' /\ UNCHANGED <<bucket, charge, now, wiped>>
    BY <1>4 DEF IInv, ChargesOK, Charged, vars, requestVars
  <2> QED
    BY <1>2, <2>1
<1> QED
  BY <1>3, <1>4, TickStep, RedisStep, CountStep DEF Next

LEMMA Invariant == Spec => []IInv
BY InitInv, Inductive, PTL DEF Spec

\* However many processes, threads and requests there are, at most `Limit'
\* requests of an identity are admitted by their count in one window, if Redis
\* keeps its data in it and they reach Redis within it.
THEOREM Limited == Spec => []WindowLimit
<1>1. IInv => WindowLimit
  <2> SUFFICES ASSUME IInv, NEW b \in Buckets, b[2] \notin wiped
               PROVE  Cardinality({r \in Requests : /\ verdict[r] = "admitted"
                                                    /\ charge[r].prompt
                                                    /\ charge[r].bucket = b}) <= Limit
    BY DEF WindowLimit
  <2> DEFINE S == {r \in Requests : /\ verdict[r] = "admitted"
                                    /\ charge[r].prompt
                                    /\ charge[r].bucket = b}
             number == [r \in S |-> charge[r].number]
  <2>1. \A r \in S : Charged(r) /\ charge[r].number \in 1..Limit
    BY ChargeType, LimiterAssumption DEF IInv, ChargesOK
  <2>2. \A q, r \in S : q # r => charge[q].number # charge[r].number
    BY <2>1 DEF IInv, NumbersDistinct
  <2>3. number \in Injection(S, 1..Limit)
    BY <2>1, <2>2 DEF Injection, IsInjective
  <2>4. IsFiniteSet(1..Limit) /\ Cardinality(1..Limit) = Limit
    BY FS_Interval, LimiterAssumption
  <2> HIDE DEF S, number
  <2>5. Cardinality(S) <= Limit
    BY <2>3, <2>4, FS_Injection
  <2> QED
    BY <2>5 DEF S
<1> QED
  BY <1>1, Invariant, PTL

\* A refused request was preceded by a full budget of requests counted in the
\* same bucket and served, for any limit and whatever was lost on the way.
THEOREM Deserved == Spec => []DeniedAfterBudget
<1>1. IInv => DeniedAfterBudget
  <2> SUFFICES ASSUME IInv, NEW r \in Requests, verdict[r] = "denied"
               PROVE  Cardinality({q \in Requests : /\ verdict[q] \in {"admitted", "open"}
                                                    /\ charge[q] # None
                                                    /\ charge[q].bucket = charge[r].bucket})
                        >= Limit
    BY DEF DeniedAfterBudget
  <2> DEFINE T == {q \in Requests : /\ verdict[q] \in {"admitted", "open"}
                                    /\ charge[q] # None
                                    /\ charge[q].bucket = charge[r].bucket}
             drawer == [m \in 1..Limit |->
                          CHOOSE q \in Requests : Drew(q, charge[r].bucket, m)]
  <2>1. Charged(r) /\ charge[r].number > Limit /\ charge[r].number \in Nat
    BY ChargeType DEF IInv, ChargesOK
  <2>2. \A m \in 1..Limit : \E q \in Requests : Drew(q, charge[r].bucket, m)
    BY <2>1, LimiterAssumption DEF IInv, NumbersReached
  <2>3. \A m \in 1..Limit : drawer[m] \in Requests /\ Drew(drawer[m], charge[r].bucket, m)
    BY <2>2
  <2>4. \A m \in 1..Limit : drawer[m] \in T
    BY <2>3, LimiterAssumption DEF IInv, ChargesOK, Drew, Charged
  <2>5. \A l, m \in 1..Limit : l # m => drawer[l] # drawer[m]
    BY <2>3 DEF Drew
  <2>6. drawer \in Injection(1..Limit, T)
    BY <2>4, <2>5 DEF Injection, IsInjective
  <2>7. IsFiniteSet(T) /\ Cardinality(T) \in Nat
    BY FS_Subset, FS_CardinalityType, LimiterAssumption
  <2>8. Cardinality(1..Limit) = Limit
    BY FS_Interval, LimiterAssumption
  <2> HIDE DEF T, drawer
  <2>9. Limit <= Cardinality(T)
    BY <2>6, <2>7, <2>8, FS_Injection
  <2> QED
    BY <2>7, <2>9, LimiterAssumption DEF T
<1> QED
  BY <1>1, Invariant, PTL
================================================================================
