------------------------------ MODULE StreamBridge ------------------------------
(***************************************************************************)
(* How the events of RAGPipeline.stream reach the reader of                *)
(* POST /chat/stream (src/src/api/routes.py, chat_stream): the pipeline    *)
(* runs as _produce in a thread of the event loop's default executor and   *)
(* hands its events to an asyncio.Queue with put_nowait; the coroutine     *)
(* event_stream takes them with `await queue.get()' until the sentinel.    *)
(*                                                                         *)
(* asyncio.Queue is not made for threads: put_nowait appends the item and  *)
(* then wakes the first waiting getter, and get finds the queue empty and  *)
(* then registers a getter.  The interpreter may switch threads between    *)
(* any two of these steps, so each one is an action here.  (The wake-up    *)
(* does not interrupt the loop's select either; it is seen when the loop   *)
(* next turns, which uvicorn's own timer makes it do.)                     *)
(***************************************************************************)
EXTENDS Naturals, Sequences, FiniteSets

CONSTANTS
    Streams,    \* open requests to /chat/stream in one process
    Threads,    \* threads of the default executor
    MaxEvents,  \* bound on the events of one stream
    Watched     \* any one stream, compared with SseStream

ASSUME BridgeAssumption ==
    /\ IsFiniteSet(Streams)
    /\ Watched \in Streams
    /\ Threads \in Nat \ {0}
    /\ MaxEvents \in Nat \ {0}

VARIABLES
    producer,   \* producer[s]: the step of _produce for s
    yielded,    \* yielded[s]: the events the pipeline has yielded
    queue,      \* queue[s]: the items in the asyncio.Queue of s
    consumer,   \* consumer[s]: the step of event_stream
    getter,     \* getter[s]: the future get waits for
    received,   \* received[s]: what the reader has got
    (* History, read by the properties alone. *)
    late        \* streams whose sentinel came between the look and the wait

vars == <<producer, yielded, queue, consumer, getter, received, late>>

Sentinel == "None"

Events == {"sources", "token", "error", "done"}

\* Reader's view of the stream that is compared with the protocol.
Reader == INSTANCE SseStream WITH
    sent <- received[Watched], ended <- consumer[Watched] = "closed"

\* The steps during which _produce holds a thread.
Running == {"pipeline", "put", "wake", "stop", "wakeStop"}

TypeOK ==
    /\ producer \in [Streams -> {"submitted", "ended"} \cup Running]
    /\ yielded \in [Streams -> Seq(Events)]
    /\ queue \in [Streams -> Seq(Events \cup {Sentinel})]
    /\ consumer \in [Streams -> {"look", "register", "wait", "send", "closed", "gone"}]
    /\ getter \in [Streams -> {"none", "waiting", "woken"}]
    /\ received \in [Streams -> Seq(Events)]
    /\ late \subseteq Streams
    /\ Cardinality({s \in Streams : producer[s] \in Running}) <= Threads

Init ==
    /\ producer = [s \in Streams |-> "submitted"]
    /\ yielded = [s \in Streams |-> <<>>]
    /\ queue = [s \in Streams |-> <<>>]
    /\ consumer = [s \in Streams |-> "look"]
    /\ getter = [s \in Streams |-> "none"]
    /\ received = [s \in Streams |-> <<>>]
    /\ late = {}

Produce(s, label) == producer' = [producer EXCEPT ![s] = label]
Consume(s, label) == consumer' = [consumer EXCEPT ![s] = label]

------------------------------------------------------------------------------
(* The thread.                                                             *)

\* Mutant: a thread for every stream.
StartOwnThread(s) ==
    /\ producer[s] = "submitted"
    /\ Produce(s, "pipeline")
    /\ UNCHANGED <<yielded, queue, consumer, getter, received, late>>

\* loop.run_in_executor: a stream waits until a thread of the pool is free.
StartThread(s) ==
    /\ producer[s] = "submitted"
    /\ Cardinality({u \in Streams : producer[u] \in Running}) < Threads
    /\ Produce(s, "pipeline")
    /\ UNCHANGED <<yielded, queue, consumer, getter, received, late>>

\* The generator yields its next event; an error of the pipeline is one too.
\* The last one within the bound ends the stream.
NextEvent(s) ==
    /\ producer[s] = "pipeline"
    /\ \E e \in Events :
        /\ Len(yielded[s]) < MaxEvents - 1 \/ e \in {"done", "error"}
        /\ Len(yielded[s]) < MaxEvents
        /\ Reader!WellFormed(Append(yielded[s], e))
        /\ yielded' = [yielded EXCEPT ![s] = Append(@, e)]
    /\ Produce(s, "put")
    /\ UNCHANGED <<queue, consumer, getter, received, late>>

\* Mutant: an exception of the pipeline is not reported as an event.
ExhaustedAnyhow(s) ==
    /\ producer[s] = "pipeline"
    /\ Produce(s, "stop")
    /\ UNCHANGED <<yielded, queue, consumer, getter, received, late>>

\* The generator is exhausted, or the error was reported: the finally block.
Exhausted(s) ==
    /\ producer[s] = "pipeline"
    /\ Reader!Complete(yielded[s])
    /\ Produce(s, "stop")
    /\ UNCHANGED <<yielded, queue, consumer, getter, received, late>>

\* Mutant: the queue holds one item, and the thread waits for room.
PutBounded(s) ==
    /\ producer[s] = "put"
    /\ queue[s] = <<>>
    /\ queue' = [queue EXCEPT ![s] = Append(@, yielded[s][Len(yielded[s])])]
    /\ Produce(s, "wake")
    /\ UNCHANGED <<yielded, consumer, getter, received, late>>

\* put_nowait, first: the item.
Put(s) ==
    /\ producer[s] = "put"
    /\ queue' = [queue EXCEPT ![s] = Append(@, yielded[s][Len(yielded[s])])]
    /\ Produce(s, "wake")
    /\ UNCHANGED <<yielded, consumer, getter, received, late>>

PutSentinel(s) ==
    /\ producer[s] = "stop"
    /\ queue' = [queue EXCEPT ![s] = Append(@, Sentinel)]
    /\ Produce(s, "wakeStop")
    /\ UNCHANGED <<yielded, consumer, getter, received, late>>

\* Mutant: nobody is woken.
WakeNobody(s) == UNCHANGED getter

\* put_nowait, second: _wakeup_next resolves the getter that waits, if one does.
WakeGetter(s) == getter' = [getter EXCEPT ![s] = IF @ = "waiting" THEN "woken" ELSE @]

Wake(s) ==
    /\ producer[s] = "wake"
    /\ WakeGetter(s)
    /\ Produce(s, "pipeline")
    /\ UNCHANGED <<yielded, queue, consumer, received, late>>

WakeStop(s) ==
    /\ producer[s] = "wakeStop"
    /\ WakeGetter(s)
    /\ late' = IF consumer[s] = "register" THEN late \cup {s} ELSE late
    /\ Produce(s, "ended")
    /\ UNCHANGED <<yielded, queue, consumer, received>>

------------------------------------------------------------------------------
(* The coroutine.                                                          *)

\* queue.get: while self.empty() ...
LookEmpty(s) ==
    /\ consumer[s] = "look"
    /\ queue[s] = <<>>
    /\ Consume(s, "register")
    /\ UNCHANGED <<producer, yielded, queue, getter, received, late>>

\* ... register a future and await it ...
Register(s) ==
    /\ consumer[s] = "register"
    /\ getter' = [getter EXCEPT ![s] = "waiting"]
    /\ Consume(s, "wait")
    /\ UNCHANGED <<producer, yielded, queue, received, late>>

\* ... until put_nowait has resolved it and the loop has turned.
Resume(s) ==
    /\ consumer[s] = "wait"
    /\ getter[s] = "woken"
    /\ getter' = [getter EXCEPT ![s] = "none"]
    /\ Consume(s, "look")
    /\ UNCHANGED <<producer, yielded, queue, received, late>>

\* Mutant: the newest item is taken.
TakeNewest(s) ==
    /\ consumer[s] = "look"
    /\ queue[s] # <<>>
    /\ LET item == queue[s][Len(queue[s])]
       IN  IF item = Sentinel
           THEN Consume(s, "closed") /\ UNCHANGED received
           ELSE Consume(s, "send") /\ received' = [received EXCEPT ![s] = Append(@, item)]
    /\ queue' = [queue EXCEPT ![s] = SubSeq(@, 1, Len(@) - 1)]
    /\ UNCHANGED <<producer, yielded, getter, late>>

\* get_nowait; the sentinel ends the response, an event is sent to the reader.
Take(s) ==
    /\ consumer[s] = "look"
    /\ queue[s] # <<>>
    /\ queue' = [queue EXCEPT ![s] = Tail(@)]
    /\ IF Head(queue[s]) = Sentinel
       THEN Consume(s, "closed") /\ UNCHANGED received
       ELSE /\ Consume(s, "send")
            /\ received' = [received EXCEPT ![s] = Append(@, Head(queue[s]))]
    /\ UNCHANGED <<producer, yielded, getter, late>>

Sent(s) ==
    /\ consumer[s] = "send"
    /\ Consume(s, "look")
    /\ UNCHANGED <<producer, yielded, queue, getter, received, late>>

\* The reader goes away: the coroutine is cancelled where it awaits, and its
\* getter with it.  Nothing tells the thread.
Disconnect(s) ==
    /\ consumer[s] \in {"wait", "send"}
    /\ Consume(s, "gone")
    /\ getter' = [getter EXCEPT ![s] = "none"]
    /\ UNCHANGED <<producer, yielded, queue, received, late>>

------------------------------------------------------------------------------
ThreadStep(s) ==
    \/ NextEvent(s) \/ Exhausted(s) \/ Put(s) \/ PutSentinel(s) \/ Wake(s) \/ WakeStop(s)

LoopStep(s) == LookEmpty(s) \/ Register(s) \/ Resume(s) \/ Take(s) \/ Sent(s)

Next ==
    \E s \in Streams : StartThread(s) \/ ThreadStep(s) \/ LoopStep(s) \/ Disconnect(s)

Spec == Init /\ [][Next]_vars

\* Threads run, the executor gives a free thread to a stream that waits for one,
\* and the event loop turns.
Fairness ==
    \A s \in Streams :
        SF_vars(StartThread(s)) /\ WF_vars(ThreadStep(s)) /\ WF_vars(LoopStep(s))

FairSpec == Spec /\ Fairness

------------------------------------------------------------------------------
(* Properties.                                                             *)

\* The events that have been put: an event is yielded first.
Handed(s) ==
    IF producer[s] = "put" THEN SubSeq(yielded[s], 1, Len(yielded[s]) - 1) ELSE yielded[s]

\* The sentinel, from when it is put until it closes the response.
Ending(s) ==
    IF producer[s] \in {"wakeStop", "ended"} /\ consumer[s] # "closed"
    THEN <<Sentinel>> ELSE <<>>

\* Every event the pipeline yielded is in the reader's hands, in the queue, or
\* about to be put, once and in order, and the sentinel is behind all of them: the
\* unsynchronised queue loses wake-ups, never items.
NothingLost ==
    \A s \in Streams : received[s] \o queue[s] = Handed(s) \o Ending(s)

\* What a reader sees is a stream in the order the guides describe, and the
\* response is closed only behind its last event.
ReaderSeesStream == Reader!Spec

\* The thread of every stream comes free again, also when the reader went away
\* in the middle: readers that leave cannot use up the executor.
ThreadsComeFree == \A s \in Streams : <>(producer[s] = "ended")

\* A response ends, or its reader leaves, unless the sentinel was put while get
\* was between its look at the queue and its wait.
StreamsCloseUnlessLate ==
    \A s \in Streams : <>(consumer[s] \in {"closed", "gone"} \/ s \in late)

\* Every response ends, or its reader leaves: PROJECT_COMPLETE_GUIDE.md:230 has
\* every stream run to `done', and routes.py:135 relies on the sentinel for it.
StreamsClose ==
    \A s \in Streams : <>(consumer[s] \in {"closed", "gone"})

==============================================================================
