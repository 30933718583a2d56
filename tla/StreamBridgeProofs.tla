--------------------------- MODULE StreamBridgeProofs ---------------------------
(***************************************************************************)
(* Proofs about StreamBridge, for any finite set of streams, any number of *)
(* threads and streams of any length.                                      *)
(***************************************************************************)
EXTENDS StreamBridge, FiniteSetTheorems, SequenceTheorems, TLAPS

\* What _produce and event_stream have made of one stream: nothing is lost
\* between them, what was yielded is in order, and neither the thread nor the
\* response stops before the end.
StreamOK(s) ==
    /\ received[s] \o queue[s] = Handed(s) \o Ending(s)
    /\ Reader!WellFormed(yielded[s])
    /\ producer[s] = "put" => yielded[s] # <<>>
    /\ producer[s] \in {"stop", "wakeStop", "ended"} => Reader!Complete(yielded[s])
    /\ consumer[s] = "closed" =>
         producer[s] \in {"wakeStop", "ended"} /\ received[s] = yielded[s]

\* The inductive invariant.
StreamsOK == TypeOK /\ \A s \in Streams : StreamOK(s)

Items == Events \cup {Sentinel}

------------------------------------------------------------------------------
(* Type correctness.                                                       *)

\* Streams that hold a thread are a finite set, however many there are.
LEMMA RunningFinite ==
    ASSUME NEW P \in SUBSET Streams
    PROVE  IsFiniteSet(P) /\ Cardinality(P) \in Nat
BY BridgeAssumption, FS_Subset, FS_CardinalityType

\* A step of a stream that takes no thread leaves the pool as it was or fuller.
LEMMA PoolKept ==
    ASSUME TypeOK, NEW s \in Streams, NEW label,
           label \in Running => producer[s] \in Running,
           producer' = [producer EXCEPT ![s] = label]
    PROVE  Cardinality({u \in Streams : producer'[u] \in Running}) <= Threads
<1> DEFINE now == {u \in Streams : producer[u] \in Running}
           next == {u \in Streams : producer'[u] \in Running}
<1>1. next \subseteq now
  BY DEF TypeOK
<1>2. Cardinality(next) <= Cardinality(now)
  BY <1>1, RunningFinite, FS_Subset
<1>3. Cardinality(now) \in Nat /\ Cardinality(next) \in Nat
  BY RunningFinite
<1>4. Cardinality(now) <= Threads
  BY DEF TypeOK
<1> HIDE DEF now, next
<1>5. Cardinality(next) <= Threads
  BY <1>2, <1>3, <1>4, BridgeAssumption
<1> QED
  BY <1>5 DEF next

\* The executor starts one more only below its number of threads.
LEMMA PoolFilled ==
    ASSUME TypeOK, NEW s \in Streams, StartThread(s)
    PROVE  Cardinality({u \in Streams : producer'[u] \in Running}) <= Threads
<1> DEFINE now == {u \in Streams : producer[u] \in Running}
           next == {u \in Streams : producer'[u] \in Running}
<1>1. next = now \cup {s}
  BY DEF StartThread, Produce, TypeOK, Running
<1>2. s \notin now
  BY DEF StartThread, Running
<1>3. IsFiniteSet(now) /\ Cardinality(now) \in Nat
  BY RunningFinite
<1>4. Cardinality(now) < Threads
  BY DEF StartThread
<1> HIDE DEF now, next
<1>5. Cardinality(next) = Cardinality(now) + 1
  BY <1>1, <1>2, <1>3, FS_AddElement
<1>6. Cardinality(next) <= Threads
  BY <1>3, <1>4, <1>5, BridgeAssumption
<1> QED
  BY <1>6 DEF next

\* No event, no item, no thread.
LEMMA InitType == Init => TypeOK
<1> SUFFICES ASSUME Init
             PROVE  TypeOK
  OBVIOUS
<1>1. {u \in Streams : producer[u] \in Running} = {}
  BY DEF Init, Running
<1>2. Cardinality({u \in Streams : producer[u] \in Running}) <= Threads
  BY <1>1, FS_EmptySet, BridgeAssumption
<1>3. /\ producer \in [Streams -> {"submitted", "ended"} \cup Running]
      /\ consumer \in [Streams -> {"look", "register", "wait", "send", "closed", "gone"}]
      /\ getter \in [Streams -> {"none", "waiting", "woken"}]
      /\ late \subseteq Streams
  BY DEF Init
<1>4. /\ yielded \in [Streams -> Seq(Events)]
      /\ queue \in [Streams -> Seq(Events \cup {Sentinel})]
      /\ received \in [Streams -> Seq(Events)]
  BY DEF Init
<1> QED
  BY <1>2, <1>3, <1>4 DEF TypeOK

\* The step of one thread keeps the types.
LEMMA ThreadType ==
    ASSUME TypeOK, NEW s \in Streams, ThreadStep(s),
           producer[s] = "put" => yielded[s] # <<>>
    PROVE  TypeOK'
<1>1. CASE NextEvent(s)
  <2>1. PICK e \in Events : yielded' = [yielded EXCEPT ![s] = Append(@, e)]
    BY <1>1 DEF NextEvent
  <2>2. yielded' \in [Streams -> Seq(Events)]
    BY <2>1 DEF TypeOK
  <2>3. Cardinality({u \in Streams : producer'[u] \in Running}) <= Threads
    BY <1>1, PoolKept DEF NextEvent, Produce, Running
  <2> QED
    BY <1>1, <2>2, <2>3 DEF NextEvent, Produce, TypeOK, Running
<1>2. CASE Exhausted(s)
  <2>1. Cardinality({u \in Streams : producer'[u] \in Running}) <= Threads
    BY <1>2, PoolKept DEF Exhausted, Produce, Running
  <2> QED
    BY <1>2, <2>1 DEF Exhausted, Produce, TypeOK, Running
<1>3. CASE Put(s)
  <2>1. yielded[s][Len(yielded[s])] \in Items
    BY <1>3 DEF Put, TypeOK, Items
  <2>2. queue' \in [Streams -> Seq(Items)]
    BY <1>3, <2>1 DEF Put, TypeOK, Items
  <2>3. Cardinality({u \in Streams : producer'[u] \in Running}) <= Threads
    BY <1>3, PoolKept DEF Put, Produce, Running
  <2> QED
    BY <1>3, <2>2, <2>3 DEF Put, Produce, TypeOK, Running, Items
<1>4. CASE PutSentinel(s)
  <2>1. queue' \in [Streams -> Seq(Items)]
    BY <1>4 DEF PutSentinel, TypeOK, Items
  <2>2. Cardinality({u \in Streams : producer'[u] \in Running}) <= Threads
    BY <1>4, PoolKept DEF PutSentinel, Produce, Running
  <2> QED
    BY <1>4, <2>1, <2>2 DEF PutSentinel, Produce, TypeOK, Running, Items
<1>5. CASE Wake(s)
  <2>1. Cardinality({u \in Streams : producer'[u] \in Running}) <= Threads
    BY <1>5, PoolKept DEF Wake, Produce, Running
  <2> QED
    BY <1>5, <2>1 DEF Wake, WakeGetter, Produce, TypeOK, Running
<1>6. CASE WakeStop(s)
  <2>1. Cardinality({u \in Streams : producer'[u] \in Running}) <= Threads
    BY <1>6, PoolKept DEF WakeStop, Produce, Running
  <2> QED
    BY <1>6, <2>1 DEF WakeStop, WakeGetter, Produce, TypeOK, Running
<1> QED
  BY <1>1, <1>2, <1>3, <1>4, <1>5, <1>6 DEF ThreadStep

\* The step of one coroutine keeps the types.
LEMMA LoopType ==
    ASSUME TypeOK, NEW s \in Streams, LoopStep(s) \/ Disconnect(s)
    PROVE  TypeOK'
<1>1. producer' = producer /\ yielded' = yielded /\ late' = late
  BY DEF LoopStep, LookEmpty, Register, Resume, Take, Sent, Disconnect
<1>2. /\ consumer' \in [Streams -> {"look", "register", "wait", "send", "closed", "gone"}]
      /\ getter' \in [Streams -> {"none", "waiting", "woken"}]
  BY DEF TypeOK, Consume, LoopStep, LookEmpty, Register, Resume, Take, Sent, Disconnect
<1>3. queue' \in [Streams -> Seq(Items)] /\ received' \in [Streams -> Seq(Events)]
  <2>1. CASE Take(s)
    <3>1. Head(queue[s]) \in Items /\ Tail(queue[s]) \in Seq(Items)
      BY <2>1, HeadTailProperties DEF Take, TypeOK, Items
    <3>2. queue' \in [Streams -> Seq(Items)]
      BY <2>1, <3>1 DEF Take, TypeOK, Items
    <3>3. received' \in [Streams -> Seq(Events)]
      <4>1. CASE Head(queue[s]) = Sentinel
        BY <2>1, <4>1 DEF Take, TypeOK
      <4>2. CASE Head(queue[s]) # Sentinel
        <5>1. Head(queue[s]) \in Events
          BY <3>1, <4>2 DEF Items
        <5>2. Append(received[s], Head(queue[s])) \in Seq(Events)
          BY <5>1, AppendProperties DEF TypeOK
        <5>3. received' = [received EXCEPT ![s] = Append(@, Head(queue[s]))]
          BY <2>1, <4>2 DEF Take
        <5> QED
          BY <5>2, <5>3 DEF TypeOK
      <4> QED
        BY <4>1, <4>2
    <3> QED
      BY <3>2, <3>3
  <2>2. CASE ~ Take(s)
    BY <2>2 DEF TypeOK, Items, LoopStep, LookEmpty, Register, Resume, Sent, Disconnect
  <2> QED
    BY <2>1, <2>2
<1> QED
  BY <1>1, <1>2, <1>3 DEF TypeOK, Items

------------------------------------------------------------------------------
(* Facts about sequences.                                                  *)

\* An item put at the end of the queue is put at the end of the stream.
LEMMA PutAtEnd ==
    ASSUME NEW S, NEW r \in Seq(S), NEW q \in Seq(S), NEW x \in S
    PROVE  r \o Append(q, x) = Append(r \o q, x)
<1>1. <<x>> \in Seq(S) /\ r \o q \in Seq(S)
  BY ConcatProperties
<1>2. Append(q, x) = q \o <<x>>
  BY AppendIsConcat
<1>3. r \o (q \o <<x>>) = (r \o q) \o <<x>>
  BY <1>1, ConcatAssociative
<1> DEFINE rq == r \o q
<1>4. Append(rq, x) = rq \o <<x>>
  <2>1. rq \in Seq(S)
    BY <1>1
  <2> HIDE DEF rq
  <2> QED
    BY <2>1, AppendIsConcat
<1> QED
  BY <1>2, <1>3, <1>4

\* Taking the head of the queue to the end of what was received moves nothing.
LEMMA TakenFromHead ==
    ASSUME NEW S, NEW r \in Seq(S), NEW q \in Seq(S), q # <<>>
    PROVE  Append(r, Head(q)) \o Tail(q) = r \o q
<1>1. Head(q) \in S /\ Tail(q) \in Seq(S)
  BY HeadTailProperties
<1>2. <<Head(q)>> \in Seq(S)
  BY <1>1
<1>3. q = <<Head(q)>> \o Tail(q)
  <2>1. Len(q) \in Nat \ {0}
    BY EmptySeq
  <2>2. SubSeq(q, 1, Len(q)) = <<q[1]>> \o SubSeq(q, 1 + 1, Len(q))
    <3> DEFINE n == Len(q)
    <3>1. 1 \in 1..Len(q) /\ n \in 1..Len(q)
      BY <2>1
    <3> HIDE DEF n
    <3>2. SubSeq(q, 1, n) = <<q[1]>> \o SubSeq(q, 1 + 1, n)
      BY <3>1, SubSeqRecursiveFirst
    <3> QED
      BY <3>2 DEF n
  <2>3. SubSeq(q, 1, Len(q)) = q
    BY SubSeqFull
  <2>4. Tail(q) = SubSeq(q, 2, Len(q))
    BY TailIsSubSeq
  <2>5. Head(q) = q[1] /\ 1 + 1 = 2
    OBVIOUS
  <2> QED
    BY <2>2, <2>3, <2>4, <2>5
<1> DEFINE h == Head(q)
           t == Tail(q)
<1>4. h \in S /\ t \in Seq(S) /\ <<h>> \in Seq(S) /\ q = <<h>> \o t
  BY <1>1, <1>2, <1>3
<1> HIDE DEF h, t
<1>5. Append(r, h) = r \o <<h>>
  BY <1>4, AppendIsConcat
<1>6. (r \o <<h>>) \o t = r \o (<<h>> \o t)
  BY <1>4, ConcatAssociative
<1>7. Append(r, h) \o t = r \o q
  BY <1>4, <1>5, <1>6
<1> QED
  BY <1>7 DEF h, t

\* A sequence is what comes before its last element, and that.
LEMMA LastApart ==
    ASSUME NEW S, NEW y \in Seq(S), y # <<>>
    PROVE  /\ SubSeq(y, 1, Len(y) - 1) \in Seq(S)
           /\ Append(SubSeq(y, 1, Len(y) - 1), y[Len(y)]) = y
<1> DEFINE n == Len(y)
           b == SubSeq(y, 1, n - 1)
<1>1. n \in Nat \ {0} /\ n \in 1..Len(y) /\ 1 \in 1..n /\ y[n] \in S
  BY EmptySeq, ElementOfSeq
<1>2. b \in Seq(S)
  <2>1. \A i \in 1..(n - 1) : y[i] \in S
    BY <1>1, ElementOfSeq
  <2>2. \A m \in Int : (\A i \in 1..m : y[i] \in S) => SubSeq(y, 1, m) \in Seq(S)
    BY SubSeqProperties
  <2>3. n - 1 \in Int
    BY <1>1
  <2> HIDE DEF n
  <2> QED
    BY <2>1, <2>2, <2>3
<1>3. SubSeq(y, 1, n) = y
  BY SubSeqFull
<1>4. SubSeq(y, 1, n) = b \o <<y[n]>>
  <2>1. 1 \in 1..Len(y) /\ n \in 1..Len(y)
    BY <1>1
  <2> HIDE DEF n
  <2> QED
    BY <2>1, SubSeqRecursiveSecond
<1>5. Append(b, y[n]) = b \o <<y[n]>>
  <2> HIDE DEF n, b
  <2> QED
    BY <1>1, <1>2, AppendIsConcat
<1> QED
  BY <1>2, <1>3, <1>4, <1>5

\* An element more behind a sequence leaves the sequence.
LEMMA AppendedTo ==
    ASSUME NEW S, NEW y \in Seq(S), NEW e \in S
    PROVE  /\ Append(y, e) # <<>> /\ Len(Append(y, e)) = Len(y) + 1
           /\ SubSeq(Append(y, e), 1, Len(y)) = y
<1> DEFINE z == Append(y, e)
           b == SubSeq(z, 1, Len(z) - 1)
<1>1. /\ z \in Seq(S) /\ z # <<>> /\ Len(z) = Len(y) + 1 /\ z[Len(y) + 1] = e
      /\ Len(y) \in Nat
  BY AppendProperties, LenProperties
<1>2. b \in Seq(S) /\ Append(b, z[Len(z)]) = z
  <2> HIDE DEF z
  <2> QED
    BY <1>1, LastApart
<1>3. Append(b, e) = Append(y, e)
  BY <1>1, <1>2
<1>4. b = y
  <2> HIDE DEF b
  <2> QED
    BY <1>2, <1>3, AppendInjective
<1>5. Len(z) - 1 = Len(y)
  BY <1>1
<1> QED
  BY <1>1, <1>4, <1>5

\* What comes first of a well-formed stream is well-formed.
LEMMA PrefixWellFormed ==
    ASSUME NEW y \in Seq(Events), NEW r \in Seq(Events), Len(r) <= Len(y),
           \A i \in 1..Len(r) : r[i] = y[i],
           Reader!WellFormed(y)
    PROVE  Reader!WellFormed(r)
<1> SUFFICES ASSUME NEW i \in 1..Len(r)
             PROVE  CASE r[i] = "sources" -> i = 1
                      [] r[i] = "token"   -> i > 1 /\ r[i-1] \in {"sources", "token"}
                      [] r[i] = "error"   -> (i > 1 => r[i-1] \in {"sources", "token"})
                      [] r[i] = "done"    -> i > 1 /\ r[1] = "sources" /\ r[i-1] # "done"
  BY DEF Reader!WellFormed
<1>1. /\ Len(r) \in Nat /\ Len(y) \in Nat /\ i \in 1..Len(y)
      /\ r[i] \in Events /\ r[i] = y[i] /\ r[1] = y[1]
      /\ i > 1 => r[i-1] = y[i-1]
  BY LenProperties, ElementOfSeq
<1>2. (CASE y[i] = "sources" -> i = 1
        [] y[i] = "token"   -> i > 1 /\ y[i-1] \in {"sources", "token"}
        [] y[i] = "error"   -> (i > 1 => y[i-1] \in {"sources", "token"})
        [] y[i] = "done"    -> i > 1 /\ y[1] = "sources" /\ y[i-1] # "done")
  BY <1>1 DEF Reader!WellFormed
<1> QED
  BY <1>1, <1>2 DEF Events

\* What was received and what is queued being what was put and perhaps the
\* sentinel, the reader has the first of the events put, and when the sentinel is
\* next it has all of them.
LEMMA SentinelIsLast ==
    ASSUME NEW r \in Seq(Events), NEW q \in Seq(Items), NEW h \in Seq(Events), NEW e,
           e = <<>> \/ e = <<Sentinel>>,
           r \o q = h \o e
    PROVE  /\ Len(r) <= Len(h)
           /\ \A i \in 1..Len(r) : r[i] = h[i]
           /\ q # <<>> /\ Head(q) = Sentinel =>
                e = <<Sentinel>> /\ r = h /\ Tail(q) = <<>>
<1>1. r \in Seq(Items) /\ h \in Seq(Items) /\ e \in Seq(Items)
  <2>1. Events \subseteq Items /\ Sentinel \in Items
    BY DEF Items
  <2>2. r \in Seq(Items) /\ h \in Seq(Items)
    BY <2>1, SeqMonotonic
  <2>3. <<Sentinel>> \in Seq(Items) /\ <<>> \in Seq(Items)
    BY <2>1
  <2> QED
    BY <2>2, <2>3
<1>2. /\ Len(r \o q) = Len(r) + Len(q)
      /\ \A i \in 1..(Len(r) + Len(q)) : (r \o q)[i] = IF i <= Len(r) THEN r[i] ELSE q[i - Len(r)]
  BY <1>1, ConcatProperties
<1>3. /\ Len(h \o e) = Len(h) + Len(e)
      /\ \A i \in 1..(Len(h) + Len(e)) : (h \o e)[i] = IF i <= Len(h) THEN h[i] ELSE e[i - Len(h)]
  BY <1>1, ConcatProperties
<1>4. /\ Len(r) \in Nat /\ Len(q) \in Nat /\ Len(h) \in Nat
      /\ \/ e = <<>> /\ Len(e) = 0
         \/ e = <<Sentinel>> /\ Len(e) = 1 /\ e[1] = Sentinel
  <2>1. Len(<<>>) = 0 /\ Len(<<Sentinel>>) = 1 /\ <<Sentinel>>[1] = Sentinel
    OBVIOUS
  <2> QED
    BY <2>1, LenProperties
<1>5. Len(r) + Len(q) = Len(h) + Len(e)
  BY <1>2, <1>3
<1>6. /\ \A i \in 1..Len(r) : r[i] # Sentinel
      /\ \A i \in 1..Len(h) : h[i] # Sentinel
  <2>1. Sentinel \notin Events
    BY DEF Sentinel, Events
  <2> QED
    BY <2>1, ElementOfSeq
<1>7. Len(r) <= Len(h)
  <2> SUFFICES ASSUME Len(r) > Len(h)
               PROVE  FALSE
    BY <1>4
  <2>1. e[1] = Sentinel /\ Len(e) = 1
    BY <1>4, <1>5
  <2> DEFINE k == Len(h) + 1
  <2>2. k \in 1..Len(r) /\ k \in 1..(Len(r) + Len(q)) /\ k \in 1..(Len(h) + Len(e))
    BY <1>4, <2>1
  <2>3. (r \o q)[k] = r[k]
    BY <1>2, <2>2
  <2>4. (h \o e)[k] = e[1]
    <3>1. ~(k <= Len(h)) /\ k - Len(h) = 1
      BY <1>4
    <3> HIDE DEF k
    <3> QED
      BY <1>3, <2>2, <3>1
  <2> HIDE DEF k
  <2> QED
    BY <1>6, <2>1, <2>2, <2>3, <2>4
<1>8. \A i \in 1..Len(r) : r[i] = h[i]
  <2> TAKE i \in 1..Len(r)
  <2>1. /\ i \in 1..(Len(r) + Len(q)) /\ i <= Len(r)
        /\ i \in 1..(Len(h) + Len(e)) /\ i <= Len(h)
    BY <1>4, <1>5, <1>7
  <2>2. (r \o q)[i] = r[i] /\ (h \o e)[i] = h[i]
    BY <1>2, <1>3, <2>1
  <2> QED
    BY <2>2
<1>9. ASSUME q # <<>>, Head(q) = Sentinel
      PROVE  e = <<Sentinel>> /\ r = h /\ Tail(q) = <<>>
  <2>1. Len(q) >= 1 /\ q[1] = Sentinel
    BY <1>9, EmptySeq
  <2> DEFINE k == Len(r) + 1
  <2>2. /\ k \in 1..(Len(r) + Len(q)) /\ k \in 1..(Len(h) + Len(e))
        /\ ~(k <= Len(r)) /\ k - Len(r) = 1
    BY <1>4, <1>5, <2>1
  <2>3. (r \o q)[k] = Sentinel
    <3> HIDE DEF k
    <3> QED
      BY <1>2, <2>1, <2>2
  <2>4. ~(k <= Len(h))
    <3> SUFFICES ASSUME k <= Len(h)
                 PROVE  FALSE
      OBVIOUS
    <3>1. k \in 1..Len(h)
      BY <1>4
    <3>2. (h \o e)[k] = h[k]
      <4> HIDE DEF k
      <4> QED
        BY <1>3, <2>2
    <3> HIDE DEF k
    <3> QED
      BY <1>6, <2>3, <3>1, <3>2
  <2>5. e = <<Sentinel>> /\ Len(r) = Len(h) /\ Len(q) = 1
    BY <1>4, <1>5, <1>7, <2>1, <2>4
  <2>6. r = h
    BY <1>8, <2>5, SeqEqual
  <2>7. Tail(q) = <<>>
    <3>1. Tail(q) \in Seq(Items) /\ Len(Tail(q)) = 0
      BY <1>9, <2>5, HeadTailProperties
    <3> QED
      BY <3>1, EmptySeq
  <2> QED
    BY <2>5, <2>6, <2>7
<1> QED
  BY <1>7, <1>8, <1>9

------------------------------------------------------------------------------
(* Nothing is lost.                                                        *)

\* What was put is a stream of events, at the front of what was yielded.
LEMMA HandedFirst ==
    ASSUME TypeOK, NEW s \in Streams, StreamOK(s)
    PROVE  /\ Handed(s) \in Seq(Events)
           /\ Len(Handed(s)) <= Len(yielded[s])
           /\ \A i \in 1..Len(Handed(s)) : Handed(s)[i] = yielded[s][i]
<1> DEFINE y == yielded[s]
           b == SubSeq(y, 1, Len(y) - 1)
<1>1. y \in Seq(Events) /\ Len(y) \in Nat
  BY LenProperties DEF TypeOK
<1>2. CASE producer[s] # "put"
  BY <1>1, <1>2 DEF Handed
<1>3. CASE producer[s] = "put"
  <2>1. y # <<>>
    BY <1>3 DEF StreamOK
  <2>2. b \in Seq(Events) /\ Append(b, y[Len(y)]) = y /\ y[Len(y)] \in Events
    <3>1. Len(y) \in 1..Len(y)
      BY <1>1, <2>1, EmptySeq
    <3> HIDE DEF y
    <3> QED
      BY <1>1, <2>1, <3>1, LastApart, ElementOfSeq
  <2>3. /\ Len(b) + 1 = Len(y) /\ Len(b) \in Nat
        /\ \A i \in 1..Len(b) : b[i] = y[i]
    <3> HIDE DEF b
    <3> DEFINE last == y[Len(y)]
    <3>1. /\ Len(Append(b, last)) = Len(b) + 1
          /\ \A i \in 1..Len(b) : Append(b, last)[i] = b[i]
      <4>1. last \in Events
        BY <2>2
      <4> HIDE DEF last
      <4> QED
        BY <2>2, <4>1, AppendProperties
    <3> QED
      BY <2>2, <3>1, LenProperties
  <2>4. Handed(s) = b
    BY <1>3 DEF Handed
  <2> HIDE DEF b, y
  <2>5. /\ Handed(s) \in Seq(Events) /\ Len(Handed(s)) <= Len(y)
        /\ \A i \in 1..Len(Handed(s)) : Handed(s)[i] = y[i]
    BY <1>1, <2>2, <2>3, <2>4
  <2> QED
    BY <2>5 DEF y
<1> QED
  BY <1>2, <1>3

\* A stream whose thread, coroutine, queue and reader did nothing is as it was.
LEMMA StreamFrame ==
    ASSUME NEW u \in Streams, StreamOK(u),
           producer'[u] = producer[u], yielded'[u] = yielded[u], queue'[u] = queue[u],
           consumer'[u] = consumer[u], received'[u] = received[u]
    PROVE  StreamOK(u)'
BY DEF StreamOK, Handed, Ending, Reader!WellFormed, Reader!Complete

\* A thread that only goes on leaves its stream as it was; it stops when the
\* generator is exhausted.
LEMMA StreamGoesOn ==
    ASSUME NEW s \in Streams, StreamOK(s),
           yielded'[s] = yielded[s], queue'[s] = queue[s],
           consumer'[s] = consumer[s], received'[s] = received[s],
           \/ /\ producer[s] \in {"submitted", "pipeline", "wake"}
              /\ producer'[s] \in {"pipeline", "stop"}
              /\ producer'[s] = "stop" => Reader!Complete(yielded[s])
           \/ producer[s] = "wakeStop" /\ producer'[s] = "ended"
    PROVE  StreamOK(s)'
<1>1. Handed(s)' = Handed(s) /\ Ending(s)' = Ending(s)
  BY DEF Handed, Ending
<1>2. (received[s] \o queue[s] = Handed(s) \o Ending(s))'
  BY <1>1 DEF StreamOK
<1>3. Reader!WellFormed(yielded[s])' /\ (producer[s] = "put" => yielded[s] # <<>>)'
  BY DEF StreamOK
<1>4. (producer[s] \in {"stop", "wakeStop", "ended"} => Reader!Complete(yielded[s]))'
  BY DEF StreamOK
<1>5. (consumer[s] = "closed" =>
         producer[s] \in {"wakeStop", "ended"} /\ received[s] = yielded[s])'
  BY DEF StreamOK
<1> QED
  BY <1>2, <1>3, <1>4, <1>5 DEF StreamOK

\* Each step of the thread of s keeps what s is.
LEMMA ThreadKeeps ==
    ASSUME StreamsOK, NEW s \in Streams, StartThread(s) \/ ThreadStep(s)
    PROVE  StreamOK(s)'
<1> DEFINE y == yielded[s]
           q == queue[s]
           r == received[s]
<1>1. /\ y \in Seq(Events) /\ q \in Seq(Items) /\ r \in Seq(Events) /\ r \in Seq(Items)
      /\ Len(y) \in Nat
  <2>1. Events \subseteq Items
    BY DEF Items
  <2> QED
    BY <2>1, SeqMonotonic, LenProperties DEF StreamsOK, TypeOK, Items
<1>2. /\ StreamOK(s) /\ received'[s] = r /\ consumer'[s] = consumer[s]
      /\ consumer[s] = "closed" => producer[s] \in {"wakeStop", "ended"}
  BY DEF StreamsOK, StreamOK, StartThread, ThreadStep, NextEvent, Exhausted, Put, PutSentinel,
         Wake, WakeStop
<1>3. CASE StartThread(s)
  BY <1>2, <1>3, StreamGoesOn DEF StartThread, Produce, StreamsOK, TypeOK
<1>4. CASE NextEvent(s)
  <2>1. PICK e \in Events : /\ yielded'[s] = Append(y, e)
                            /\ Reader!WellFormed(Append(y, e))
    BY <1>4 DEF NextEvent, StreamsOK, TypeOK
  <2>2. producer[s] = "pipeline" /\ producer'[s] = "put" /\ queue'[s] = q
    BY <1>4 DEF NextEvent, Produce, StreamsOK, TypeOK
  <2>3. Append(y, e) # <<>> /\ SubSeq(Append(y, e), 1, Len(Append(y, e)) - 1) = y
    <3> HIDE DEF y
    <3>1. /\ Append(y, e) # <<>> /\ Len(Append(y, e)) = Len(y) + 1
          /\ SubSeq(Append(y, e), 1, Len(y)) = y
      BY <1>1, AppendedTo
    <3>2. Len(Append(y, e)) - 1 = Len(y)
      BY <1>1, <3>1
    <3> QED
      BY <3>1, <3>2
  <2>4. Handed(s)' = y /\ Handed(s) = y /\ Ending(s)' = Ending(s)
    BY <1>2, <2>1, <2>2, <2>3 DEF Handed, Ending
  <2>5. (received[s] \o queue[s] = Handed(s) \o Ending(s))'
    BY <1>2, <2>2, <2>4 DEF StreamOK
  <2>6. Reader!WellFormed(yielded[s])' /\ (yielded[s] # <<>>)'
    BY <2>1, <2>3 DEF Reader!WellFormed
  <2> QED
    BY <1>2, <2>2, <2>5, <2>6 DEF StreamOK
<1>5. CASE Exhausted(s)
  BY <1>2, <1>5, StreamGoesOn DEF Exhausted, Produce, StreamsOK, TypeOK
<1>6. CASE Put(s)
  <2> DEFINE last == y[Len(y)]
             b == SubSeq(y, 1, Len(y) - 1)
  <2>1. /\ producer[s] = "put" /\ producer'[s] = "wake" /\ yielded'[s] = y
        /\ queue'[s] = Append(q, last)
    BY <1>6 DEF Put, Produce, StreamsOK, TypeOK
  <2>2. y # <<>>
    BY <1>2, <2>1 DEF StreamOK
  <2>3. b \in Seq(Events) /\ Append(b, last) = y /\ last \in Items
    <3>1. b \in Seq(Events) /\ Append(b, last) = y /\ Len(y) \in 1..Len(y)
      <4> HIDE DEF y
      <4> QED
        BY <1>1, <2>2, LastApart, EmptySeq
    <3>2. last \in Events
      <4> HIDE DEF y
      <4> QED
        BY <1>1, <3>1, ElementOfSeq
    <3> QED
      BY <3>1, <3>2 DEF Items
  <2>4. r \o q = b
    <3>1. r \o q = b \o <<>>
      BY <1>2, <2>1 DEF StreamOK, Handed, Ending
    <3> HIDE DEF b, r, q
    <3> QED
      BY <2>3, <3>1, ConcatEmptySeq
  <2>5. r \o Append(q, last) = y
    <3> HIDE DEF r, q, y, last
    <3>1. r \o Append(q, last) = Append(r \o q, last)
      BY <1>1, <2>3, PutAtEnd
    <3> QED
      BY <2>3, <2>4, <3>1
  <2>6. y \o <<>> = y
    <3> HIDE DEF y
    <3> QED
      BY <1>1, ConcatEmptySeq
  <2>7. Handed(s)' = y /\ Ending(s)' = <<>>
    BY <2>1 DEF Handed, Ending
  <2>8. (received[s] \o queue[s] = Handed(s) \o Ending(s))'
    BY <1>2, <2>1, <2>5, <2>6, <2>7
  <2> QED
    BY <1>2, <2>1, <2>8 DEF StreamOK, Reader!WellFormed
<1>7. CASE PutSentinel(s)
  <2>1. /\ producer[s] = "stop" /\ producer'[s] = "wakeStop" /\ yielded'[s] = y
        /\ queue'[s] = Append(q, Sentinel)
    BY <1>7 DEF PutSentinel, Produce, StreamsOK, TypeOK
  <2>2. r \o q = y
    <3>1. r \o q = y \o <<>>
      BY <1>2, <2>1 DEF StreamOK, Handed, Ending
    <3> HIDE DEF y, r, q
    <3> QED
      BY <1>1, <3>1, ConcatEmptySeq
  <2>3. Sentinel \in Items
    BY DEF Items
  <2>4. r \o Append(q, Sentinel) = y \o <<Sentinel>>
    <3> HIDE DEF r, q, y
    <3>1. r \o Append(q, Sentinel) = Append(r \o q, Sentinel)
      BY <1>1, <2>3, PutAtEnd
    <3>2. y \in Seq(Items)
      <4>1. Events \subseteq Items
        BY DEF Items
      <4> QED
        BY <1>1, <4>1, SeqMonotonic
    <3>3. Append(y, Sentinel) = y \o <<Sentinel>>
      BY <2>3, <3>2, AppendIsConcat
    <3> QED
      BY <2>2, <3>1, <3>3
  <2>5. consumer[s] # "closed"
    BY <1>2, <2>1
  <2>6. Handed(s)' = y /\ Ending(s)' = <<Sentinel>>
    BY <1>2, <2>1, <2>5 DEF Handed, Ending
  <2>7. (received[s] \o queue[s] = Handed(s) \o Ending(s))'
    BY <1>2, <2>1, <2>4, <2>6
  <2> QED
    BY <1>2, <2>1, <2>5, <2>7 DEF StreamOK, Reader!WellFormed, Reader!Complete
<1>8. CASE Wake(s)
  BY <1>2, <1>8, StreamGoesOn DEF Wake, Produce, StreamsOK, TypeOK
<1>9. CASE WakeStop(s)
  BY <1>2, <1>9, StreamGoesOn DEF WakeStop, Produce, StreamsOK, TypeOK
<1> QED
  BY <1>3, <1>4, <1>5, <1>6, <1>7, <1>8, <1>9 DEF ThreadStep

\* What the reader holds is the first of what was yielded, hence in order.
LEMMA ReceivedFirst ==
    ASSUME TypeOK, NEW s \in Streams, StreamOK(s)
    PROVE  /\ Reader!WellFormed(received[s])
           /\ queue[s] # <<>> /\ Head(queue[s]) = Sentinel =>
                /\ producer[s] \in {"wakeStop", "ended"}
                /\ received[s] = yielded[s] /\ Tail(queue[s]) = <<>>
<1> DEFINE y == yielded[s]
           q == queue[s]
           r == received[s]
           h == Handed(s)
           e == Ending(s)
<1>1. /\ y \in Seq(Events) /\ q \in Seq(Items) /\ r \in Seq(Events)
      /\ r \o q = h \o e /\ (e = <<>> \/ e = <<Sentinel>>)
      /\ e = <<Sentinel>> => producer[s] \in {"wakeStop", "ended"} /\ h = y
  BY DEF TypeOK, Items, StreamOK, Ending, Handed
<1>2. /\ h \in Seq(Events) /\ Len(h) <= Len(y)
      /\ \A i \in 1..Len(h) : h[i] = y[i]
  BY HandedFirst
<1>3. Reader!WellFormed(y)
  BY DEF StreamOK
<1> HIDE DEF y, q, r, h, e
<1>4. /\ Len(r) <= Len(h)
      /\ \A i \in 1..Len(r) : r[i] = h[i]
      /\ q # <<>> /\ Head(q) = Sentinel => e = <<Sentinel>> /\ r = h /\ Tail(q) = <<>>
  BY <1>1, <1>2, SentinelIsLast
<1>5. Len(r) \in Nat /\ Len(h) \in Nat /\ Len(y) \in Nat
  BY <1>1, <1>2, LenProperties
<1>6. Reader!WellFormed(r)
  <2>1. Len(r) <= Len(y) /\ \A i \in 1..Len(r) : r[i] = y[i]
    BY <1>2, <1>4, <1>5
  <2> QED
    BY <1>1, <1>3, <2>1, PrefixWellFormed
<1>7. q # <<>> /\ Head(q) = Sentinel =>
        producer[s] \in {"wakeStop", "ended"} /\ r = y /\ Tail(q) = <<>>
  BY <1>1, <1>4
<1> QED
  BY <1>6, <1>7 DEF r, q, y

\* Each step of the coroutine of s keeps what s is.
LEMMA LoopKeeps ==
    ASSUME StreamsOK, NEW s \in Streams, LoopStep(s) \/ Disconnect(s)
    PROVE  StreamOK(s)'
<1>1. StreamOK(s) /\ TypeOK /\ producer' = producer /\ yielded' = yielded
  BY DEF StreamsOK, LoopStep, LookEmpty, Register, Resume, Take, Sent, Disconnect
<1>2. CASE ~ Take(s)
  <2>1. /\ queue'[s] = queue[s] /\ received'[s] = received[s]
        /\ consumer[s] # "closed" /\ consumer'[s] # "closed"
    BY <1>1, <1>2 DEF LoopStep, LookEmpty, Register, Resume, Sent, Disconnect, Consume, TypeOK
  <2> QED
    BY <1>1, <2>1 DEF StreamOK, Handed, Ending, Reader!WellFormed, Reader!Complete
<1>3. CASE Take(s) /\ Head(queue[s]) = Sentinel
  <2>1. /\ queue'[s] = Tail(queue[s]) /\ received' = received
        /\ queue[s] # <<>> /\ consumer'[s] = "closed"
    BY <1>1, <1>3 DEF Take, Consume, TypeOK
  <2>2. /\ producer[s] \in {"wakeStop", "ended"}
        /\ received[s] = yielded[s] /\ Tail(queue[s]) = <<>>
    BY <1>1, <1>3, <2>1, ReceivedFirst
  <2>3. Handed(s)' = yielded[s] /\ Ending(s)' = <<>>
    BY <1>1, <2>1, <2>2 DEF Handed, Ending
  <2>4. (received[s] \o queue[s] = Handed(s) \o Ending(s))'
    BY <1>1, <2>1, <2>2, <2>3
  <2> QED
    BY <1>1, <2>1, <2>2, <2>4 DEF StreamOK, Reader!WellFormed, Reader!Complete
<1>4. CASE Take(s) /\ Head(queue[s]) # Sentinel
  <2>1. /\ queue'[s] = Tail(queue[s]) /\ received'[s] = Append(received[s], Head(queue[s]))
        /\ queue[s] # <<>> /\ consumer[s] = "look" /\ consumer'[s] = "send"
    BY <1>1, <1>4 DEF Take, Consume, TypeOK
  <2>2. received[s] \in Seq(Items) /\ queue[s] \in Seq(Items)
    <3>1. Events \subseteq Items
      BY DEF Items
    <3> QED
      BY <1>1, <3>1, SeqMonotonic DEF TypeOK, Items
  <2>3. Append(received[s], Head(queue[s])) \o Tail(queue[s]) = received[s] \o queue[s]
    BY <2>1, <2>2, TakenFromHead
  <2>4. Handed(s)' = Handed(s) /\ Ending(s)' = Ending(s)
    BY <1>1, <2>1 DEF Handed, Ending
  <2>5. (received[s] \o queue[s] = Handed(s) \o Ending(s))'
    BY <1>1, <2>1, <2>3, <2>4 DEF StreamOK
  <2> QED
    BY <1>1, <2>1, <2>5 DEF StreamOK, Reader!WellFormed, Reader!Complete
<1> QED
  BY <1>2, <1>3, <1>4

------------------------------------------------------------------------------
(* The theorems.                                                           *)

\* A step of one stream, seen by that stream and by the others.
LEMMA OthersStill ==
    ASSUME TypeOK, NEW s \in Streams,
           StartThread(s) \/ ThreadStep(s) \/ LoopStep(s) \/ Disconnect(s)
    PROVE  \A u \in Streams \ {s} :
             /\ producer'[u] = producer[u] /\ yielded'[u] = yielded[u] /\ queue'[u] = queue[u]
             /\ consumer'[u] = consumer[u] /\ received'[u] = received[u]
<1>1. CASE StartThread(s)
  BY <1>1 DEF TypeOK, StartThread, Produce
<1>2. CASE ThreadStep(s)
  BY <1>2 DEF TypeOK, ThreadStep, NextEvent, Exhausted, Put, PutSentinel, Wake, WakeStop, Produce
<1>3. CASE LoopStep(s) \/ Disconnect(s)
  BY <1>3 DEF TypeOK, LoopStep, LookEmpty, Register, Resume, Take, Sent, Disconnect, Consume
<1> QED
  BY <1>1, <1>2, <1>3

\* Nothing has been yielded, put or received.
LEMMA InitStreams == Init => StreamsOK
<1> SUFFICES ASSUME Init
             PROVE  StreamsOK
  OBVIOUS
<1>1. ASSUME NEW s \in Streams
      PROVE  StreamOK(s)
  <2>1. received[s] = <<>> /\ queue[s] = <<>> /\ yielded[s] = <<>>
    BY DEF Init
  <2>2. producer[s] = "submitted" /\ consumer[s] = "look"
    BY DEF Init
  <2>3. Handed(s) = <<>> /\ Ending(s) = <<>>
    BY <2>1, <2>2 DEF Handed, Ending
  <2>4. Reader!WellFormed(yielded[s])
    BY <2>1 DEF Reader!WellFormed
  <2> QED
    BY <2>1, <2>2, <2>3, <2>4 DEF StreamOK
<1> QED
  BY <1>1, InitType DEF StreamsOK

\* Every step of the executor's threads and of the event loop keeps the
\* invariant.
LEMMA NextStreams == StreamsOK /\ [Next]_vars => StreamsOK'
<1> SUFFICES ASSUME StreamsOK, [Next]_vars
             PROVE  StreamsOK'
  OBVIOUS
<1>0. TypeOK
  BY DEF StreamsOK
<1>1. ASSUME NEW s \in Streams, StartThread(s) \/ ThreadStep(s) \/ LoopStep(s) \/ Disconnect(s)
      PROVE  StreamsOK'
  <2>1. TypeOK'
    <3>1. CASE StartThread(s)
      <4>1. Cardinality({u \in Streams : producer'[u] \in Running}) <= Threads
        BY <1>0, <3>1, PoolFilled
      <4> QED
        BY <1>0, <3>1, <4>1 DEF StartThread, Produce, TypeOK, Running
    <3>2. CASE ThreadStep(s)
      BY <1>0, <3>2, ThreadType DEF StreamsOK, StreamOK
    <3>3. CASE LoopStep(s) \/ Disconnect(s)
      BY <1>0, <3>3, LoopType
    <3> QED
      BY <1>1, <3>1, <3>2, <3>3
  <2>2. StreamOK(s)'
    BY <1>1, ThreadKeeps, LoopKeeps
  <2>3. ASSUME NEW u \in Streams \ {s}
        PROVE  StreamOK(u)'
    BY <1>0, <1>1, OthersStill, StreamFrame DEF StreamsOK
  <2> QED
    BY <2>1, <2>2, <2>3 DEF StreamsOK
<1>2. CASE UNCHANGED vars
  <2>1. TypeOK'
    BY <1>0, <1>2 DEF vars, TypeOK
  <2>2. ASSUME NEW u \in Streams
        PROVE  StreamOK(u)'
    BY <1>2, StreamFrame DEF vars, StreamsOK
  <2> QED
    BY <2>1, <2>2 DEF StreamsOK
<1> QED
  BY <1>1, <1>2 DEF Next

\* The invariant holds in every state.
LEMMA StreamsAlwaysOK == Spec => []StreamsOK
BY InitStreams, NextStreams, PTL DEF Spec

\* Type correctness of the bridge, with no more streams in threads than the
\* executor has.
THEOREM BridgeTypeCorrect == Spec => []TypeOK
<1>1. StreamsOK => TypeOK
  BY DEF StreamsOK
<1> QED
  BY <1>1, StreamsAlwaysOK, PTL

\* The queue that routes.py uses from two threads without a lock loses, doubles
\* and reorders nothing: what the reader got and what is queued are what was put,
\* and the sentinel behind it, for any number of streams of any length.
THEOREM QueueKeepsAll == Spec => []NothingLost
<1>1. StreamsOK => NothingLost
  BY DEF StreamsOK, StreamOK, NothingLost
<1> QED
  BY <1>1, StreamsAlwaysOK, PTL

\* What the reader of /chat/stream sees is a stream as SseStream describes it:
\* each step of the bridge is an event or more for the reader, the end of a
\* complete stream, or nothing.
THEOREM ReaderSeesAStream == Spec => ReaderSeesStream
<1>1. Init => Reader!Init
  BY BridgeAssumption DEF Init, Reader!Init
<1>2. StreamsOK => received[Watched] \in Seq(Events) /\ Reader!WellFormed(received[Watched])
  BY BridgeAssumption, ReceivedFirst DEF StreamsOK, TypeOK
<1>3. StreamsOK' => (received[Watched] \in Seq(Events) /\ Reader!WellFormed(received[Watched]))'
  BY <1>2, PTL
<1>4. ASSUME StreamsOK, [Next]_vars
      PROVE  [Reader!Next]_<<received[Watched], consumer[Watched] = "closed">>
  <2> DEFINE r == received[Watched]
             q == queue[Watched]
  <2>0. /\ Watched \in Streams /\ StreamsOK' /\ TypeOK
        /\ StreamOK(Watched)
    BY <1>4, BridgeAssumption, NextStreams DEF StreamsOK
  <2>1. CASE Take(Watched) /\ Head(q) = Sentinel
    <3>1. /\ received'[Watched] = r /\ q # <<>>
          /\ consumer[Watched] = "look" /\ consumer'[Watched] = "closed"
      BY <2>0, <2>1 DEF Take, Consume, TypeOK
    <3>2. r = yielded[Watched] /\ producer[Watched] \in {"wakeStop", "ended"}
      BY <2>0, <2>1, <3>1, ReceivedFirst
    <3>3. Reader!Complete(r)
      BY <2>0, <3>2 DEF StreamOK
    <3> QED
      BY <3>1, <3>3 DEF Reader!Next, Reader!Complete
  <2>2. CASE Take(Watched) /\ Head(q) # Sentinel
    <3>1. /\ received'[Watched] = Append(r, Head(q)) /\ q # <<>>
          /\ consumer[Watched] = "look" /\ consumer'[Watched] = "send"
      BY <2>0, <2>2 DEF Take, Consume, TypeOK
    <3>2. /\ r \in Seq(Events) /\ Append(r, Head(q)) \in Seq(Events)
          /\ Reader!WellFormed(Append(r, Head(q)))
      <4>1. (received[Watched] \in Seq(Events) /\ Reader!WellFormed(received[Watched]))'
        BY <1>3, <2>0
      <4> QED
        BY <2>0, <3>1, <4>1 DEF TypeOK, Reader!WellFormed
    <3>3. /\ Len(Append(r, Head(q))) > Len(r)
          /\ SubSeq(Append(r, Head(q)), 1, Len(r)) = r
      <4>1. r \in Seq(Items) /\ Head(q) \in Items /\ Len(r) \in Nat
        <5>1. Events \subseteq Items
          BY DEF Items
        <5>2. r \in Seq(Items) /\ q \in Seq(Items)
          BY <2>0, <5>1, SeqMonotonic DEF TypeOK, Items
        <5> HIDE DEF r, q
        <5> QED
          BY <3>1, <5>2, HeadTailProperties, LenProperties
      <4> DEFINE h == Head(q)
      <4>2. h \in Items
        BY <4>1
      <4> HIDE DEF h, r
      <4>3. Len(Append(r, h)) = Len(r) + 1 /\ SubSeq(Append(r, h), 1, Len(r)) = r
        BY <4>1, <4>2, AppendedTo
      <4>4. Len(Append(r, h)) > Len(r)
        BY <4>1, <4>3
      <4> QED
        BY <4>3, <4>4 DEF h
    <3> QED
      BY <3>1, <3>2, <3>3 DEF Reader!Next, Reader!Send, Reader!EventTypes, Events
  <2>3. CASE ~ Take(Watched)
    <3>1. received'[Watched] = r /\ (consumer'[Watched] = "closed" <=> consumer[Watched] = "closed")
      <4>1. ASSUME NEW s \in Streams,
                   StartThread(s) \/ ThreadStep(s) \/ LoopStep(s) \/ Disconnect(s), s # Watched
            PROVE  received'[Watched] = r /\ consumer'[Watched] = consumer[Watched]
        BY <2>0, <4>1, OthersStill
      <4>2. CASE StartThread(Watched) \/ ThreadStep(Watched)
        BY <2>0, <4>2 DEF StartThread, ThreadStep, NextEvent, Exhausted, Put, PutSentinel, Wake, WakeStop
      <4>3. CASE LoopStep(Watched) \/ Disconnect(Watched)
        BY <2>0, <2>3, <4>3 DEF TypeOK, LoopStep, LookEmpty, Register, Resume, Sent, Disconnect, Consume
      <4>4. CASE UNCHANGED vars
        BY <4>4 DEF vars
      <4> QED
        BY <1>4, <4>1, <4>2, <4>3, <4>4 DEF Next
    <3> QED
      BY <3>1
  <2> QED
    BY <2>1, <2>2, <2>3
<1> QED
  BY <1>1, <1>4, StreamsAlwaysOK, PTL DEF Spec, ReaderSeesStream, Reader!Spec

================================================================================
