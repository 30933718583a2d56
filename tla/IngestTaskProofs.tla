--------------------------- MODULE IngestTaskProofs ---------------------------
(***************************************************************************)
(* Proofs about IngestTask, for any sets of workers, tenants and files,    *)
(* any number of retries and faults, and both kinds of keyword index: the  *)
(* types and the lock (TypeCorrect, Exclusive), what a completed run       *)
(* leaves in the stores (CompletedStaysIntact), and what is found meanwhile*)
(* (StaysFindable).                                                        *)
(***************************************************************************)
EXTENDS IngestTask, TLAPS

\* What a frame holds at each step of the task: a message while it is being
\* worked on, and the run's document while the run is in the locked section.
FrameOK ==
    \A w \in Workers :
        /\ pc[w] # "idle" => msg[w] \in Message
        /\ Locked(w) => doc[w] \in Doc

\* No two runs share a token, because a token carries the count of its job's
\* runs and no run is ahead of that count ...
TokensDistinct ==
    /\ \A w \in Workers : Locked(w) => doc[w].serial <= serial[doc[w].file]
    /\ \A v, w \in Workers : v # w /\ Locked(v) /\ Locked(w) => doc[v] # doc[w]

\* ... and a run inside the locked section holds its tenant's lock or has seen
\* it time out.
HolderOrLapsed ==
    \A w \in Workers : Locked(w) => lock[doc[w].tenant] = doc[w] \/ doc[w] \in lapsed

\* The inductive invariant: ExclusiveUnlessLapsed alone says nothing of who owns
\* the lock, and does not survive an AcquireLock.
IInv == TypeOK /\ FrameOK /\ TokensDistinct /\ HolderOrLapsed

------------------------------------------------------------------------------
(* The helpers of the actions, by what they return.                        *)

\* A run that gets the lock writes under a document of its own job, one run
\* further than the job's count (tasks.py, ingest_pdf).
LEMMA NewDocType ==
    ASSUME NEW j \in Jobs, serial \in [Jobs -> Nat]
    PROVE  /\ NewDoc(j) \in Doc
           /\ NewDoc(j).tenant = TenantOf[j]
           /\ NewDoc(j).file = j
           /\ NewDoc(j).serial = serial[j] + 1
BY JobsAssumption DEF NewDoc, Doc, Jobs

\* The fault budget is never exceeded.
LEMMA FaultType ==
    ASSUME TypeOK, Fault
    PROVE  faults' \in 0..MaxFaults
BY JobsAssumption DEF Fault, TypeOK

\* What Retry publishes is a message, and only a job with retries left gets one.
LEMMA RetryType ==
    ASSUME TypeOK, NEW w \in Workers, msg[w] \in Message,
           NEW last \in Outcomes, Retry(w, last)
    PROVE  /\ queue' \subseteq Message
           /\ published' \in [Jobs -> Nat]
           /\ outcome' \in [Workers -> Outcomes]
           /\ faults' \in 0..MaxFaults
           /\ lost' \subseteq Jobs
<1>1. CASE RetryPublished(w) \/ RetryRejected(w)
  <2>1. [job |-> JobOf(w), retries |-> msg[w].retries + 1, id |-> published[JobOf(w)] + 1]
           \in Message
    BY <1>1, JobsAssumption
       DEF RetryPublished, RetryRejected, MayRetry, Message, JobOf, TypeOK
  <2>2. JobOf(w) \in Jobs
    BY DEF Message, JobOf
  <2> QED
    BY <1>1, <2>1, <2>2, FaultType
       DEF RetryPublished, RetryRejected, Publish, TypeOK, Outcomes
<1>2. CASE GiveUp(w, last)
  BY <1>2 DEF GiveUp, TypeOK
<1> QED
  BY <1>1, <1>2 DEF Retry

\* The frame of a finished or lost call is empty again.
LEMMA DropFrameType ==
    ASSUME TypeOK, NEW w \in Workers, DropFrame(w)
    PROVE  /\ pc' = [pc EXCEPT ![w] = "idle"]
           /\ pc' \in [Workers -> TryBlock \cup {"idle", "acquire", "except", "release", "report", "ack"}]
           /\ msg' \in [Workers -> Message \cup {None}]
           /\ doc' \in [Workers -> Doc \cup {None}]
           /\ batch' \in [Workers -> Nat \ {0}]
           /\ loaded' \in [Workers -> SUBSET Doc]
           /\ outcome' \in [Workers -> Outcomes]
BY DEF DropFrame, Goto, TypeOK, Outcomes

\* What a failing or dying run adds to the torn sources is its own pair.
LEMMA TearType ==
    ASSUME TypeOK, FrameOK, NEW w \in Workers, Tear(w)
    PROVE  torn' \subseteq Tenants \X Sources
BY DEF Tear, FrameOK, Locked, TryBlock, TypeOK, Doc

------------------------------------------------------------------------------
(* Type correctness.                                                       *)

\* An empty broker, idle workers and empty stores satisfy the invariant.
LEMMA InitInv == Init => IInv
BY JobsAssumption
   DEF Init, IInv, TypeOK, FrameOK, TokensDistinct, HolderOrLapsed, Locked, TryBlock,
       Outcomes

\* Every step of every worker, the uploads and the lock timeouts keep the types.
LEMMA TypeStep == TypeOK /\ FrameOK /\ [Next]_vars => TypeOK'
<1> SUFFICES ASSUME TypeOK, FrameOK, [Next]_vars
             PROVE  TypeOK'
  OBVIOUS
<1> USE DEF outside, brokerVars, storeVars, historyVars, writeHistory
<1>1. ASSUME NEW j \in Jobs, Upload(j)
      PROVE  TypeOK'
  <2>1. [job |-> j, retries |-> 0, id |-> published[j] + 1] \in Message
    BY JobsAssumption DEF TypeOK, Message
  <2> QED
    BY <1>1, <2>1 DEF Upload, Publish, TypeOK, workerVars
<1>2. ASSUME NEW j \in Jobs, UploadFails(j)
      PROVE  TypeOK'
  <2>1. [job |-> j, retries |-> 0, id |-> published[j] + 1] \in Message
    BY JobsAssumption DEF TypeOK, Message
  <2> QED
    BY <1>2, <2>1, FaultType DEF UploadFails, Publish, TypeOK, workerVars
<1>3. ASSUME NEW j \in Jobs, Unstage(j)
      PROVE  TypeOK'
  BY <1>3 DEF Unstage, TypeOK, workerVars
<1>4. ASSUME NEW w \in Workers, Deliver(w) \/ Overtake(w)
      PROVE  TypeOK'
  <2>1. PICK m \in queue : Take(w, m)
    BY <1>4 DEF Deliver, Overtake
  <2>2. faults' \in 0..MaxFaults /\ lost' \subseteq Jobs
    BY <1>4, FaultType DEF Deliver, Overtake, TypeOK, Message
  <2> QED
    BY <2>1, <2>2 DEF Take, Goto, TypeOK
<1>5. ASSUME NEW w \in Workers, TaskStep(w)
      PROVE  TypeOK'
  <2>1. pc[w] # "idle" => msg[w] \in Message /\ JobOf(w) \in Jobs
    BY DEF FrameOK, JobOf, Message
  <2>2. pc[w] \in TryBlock \cup {"release"}
          => doc[w] \in Doc /\ doc[w].source \in Sources /\ doc[w].tenant \in Tenants
    BY DEF FrameOK, Locked, Doc
  <2>3. CASE AcquireLock(w)
    <3>1. JobOf(w) \in Jobs /\ TenantOf[JobOf(w)] \in Tenants
      BY <2>1, <2>3, JobsAssumption DEF AcquireLock
    <3>2. NewDoc(JobOf(w)) \in Doc
      BY <3>1, NewDocType DEF TypeOK
    <3> QED
      BY <2>3, <3>1, <3>2 DEF AcquireLock, SetLock, Goto, TypeOK, TryBlock
  <2>4. CASE LockBusy(w)
    BY <2>1, <2>4, RetryType DEF LockBusy, Goto, TypeOK, Outcomes
  <2>5. CASE LockError(w) \/ LockUnheard(w)
    <3>1. JobOf(w) \in Jobs /\ TenantOf[JobOf(w)] \in Tenants
      BY <2>1, <2>5, JobsAssumption DEF LockError, LockUnheard
    <3>2. NewDoc(JobOf(w)) \in Doc
      BY <3>1, NewDocType DEF TypeOK
    <3>3. faults' \in 0..MaxFaults
      BY <2>5, FaultType DEF LockError, LockUnheard
    <3> QED
      BY <2>5, <3>1, <3>2, <3>3
         DEF LockError, LockUnheard, SetLock, AcquireRaises, Goto, TypeOK, Outcomes
  <2>6. CASE Parse(w)
    BY <2>6 DEF Parse, Goto, TypeOK, TryBlock
  <2>7. CASE DeleteStale(w)
    <3>1. pc[w] = "delete"
      BY <2>7 DEF DeleteStale, BeginReplace
    <3>2. vectors' \subseteq Point
      BY <2>7 DEF DeleteStale, TypeOK, DeleteSource
    <3>3. Rivals(w) \subseteq Doc
      BY DEF Rivals, Writing, FrameOK, Locked, TryBlock
    <3> QED
      BY <2>2, <2>7, <3>1, <3>2, <3>3
         DEF DeleteStale, BeginReplace, Goto, TypeOK, TryBlock
  <2>8. CASE UpsertBatch(w)
    <3>1. doc[w] \in Doc /\ batch[w] \in 1..Batches[doc[w].file]
      BY <2>2, <2>8, StoreAssumption DEF UpsertBatch, TypeOK, TryBlock, Doc
    <3>2. vectors' \subseteq Point
      BY <2>8, <3>1 DEF UpsertBatch, TypeOK, Upsert, Point
    <3> QED
      BY <2>8, <3>2 DEF UpsertBatch, TypeOK
  <2>9. CASE StoreParents(w)
    <3>1. parents' \subseteq Doc
      BY <2>2, <2>9 DEF StoreParents, TypeOK, TryBlock, MSet
    <3> QED
      BY <2>9, <3>1 DEF StoreParents, Goto, TypeOK, TryBlock
  <2>10. CASE PgDelete(w)
    <3>1. keyword' \subseteq Doc
      BY <2>10 DEF PgDelete, TypeOK, DeleteChunksBySource
    <3> QED
      BY <2>10, <3>1 DEF PgDelete, Goto, TypeOK, TryBlock
  <2>11. CASE PgInsert(w)
    <3>1. keyword' \subseteq Doc
      BY <2>2, <2>11 DEF PgInsert, TypeOK, TryBlock, InsertChunks
    <3> QED
      BY <2>11, <3>1 DEF PgInsert, Goto, TypeOK, TryBlock
  <2>12. CASE PickleLoad(w)
    BY <2>12 DEF PickleLoad, Goto, TypeOK, TryBlock
  <2>13. CASE PickleSave(w)
    <3>1. keyword' \subseteq Doc
      BY <2>2, <2>13 DEF PickleSave, TypeOK, TryBlock, RebuildPickle, InsertChunks
    <3> QED
      BY <2>13, <3>1 DEF PickleSave, Goto, TypeOK, TryBlock
  <2>14. CASE Complete(w)
    BY <2>2, <2>14 DEF Complete, Goto, TypeOK, TryBlock, Outcomes
  <2>15. ASSUME Raise(w), faults' \in 0..MaxFaults
         PROVE  TypeOK'
    <3>1. torn' \subseteq Tenants \X Sources
      BY <2>15, TearType DEF Raise
    <3> QED
      BY <2>15, <3>1 DEF Raise, Goto, TypeOK
  <2>16. CASE ParseFails(w)
    BY <2>15, <2>16 DEF ParseFails, TypeOK
  <2>17. CASE HashFails(w)
    BY <2>15, <2>17 DEF HashFails, TypeOK
  <2>18. CASE StepFails(w)
    BY <2>15, <2>18, FaultType DEF StepFails
  <2>19. CASE Release(w)
    <3>1. lock' \in [Tenants -> Doc \cup {None}] /\ faults' \in 0..MaxFaults
      BY <2>19, FaultType DEF Release, Unlock, TypeOK
    <3> QED
      BY <2>19, <3>1 DEF Release, Goto, TypeOK
  <2>20. CASE Report(w) \/ ReportFails(w)
    BY <2>1, <2>20, FaultType DEF Report, ReportFails, Goto, TypeOK
  <2>21. CASE Ack(w)
    BY <2>21, DropFrameType DEF Ack, TypeOK
  <2>22. CASE Except(w)
    BY <2>1, <2>22, RetryType DEF Except, Goto, TypeOK, Outcomes
  <2> QED
    BY <1>5, <2>3, <2>4, <2>5, <2>6, <2>7, <2>8, <2>9, <2>10, <2>11, <2>12, <2>13,
       <2>14, <2>16, <2>17, <2>18, <2>19, <2>20, <2>21, <2>22 DEF TaskStep
<1>6. ASSUME NEW w \in Workers, WorkerLost(w)
      PROVE  TypeOK'
  <2>1. queue' \subseteq Message
    BY <1>6 DEF WorkerLost, FrameOK, TypeOK
  <2>2. torn' \subseteq Tenants \X Sources
    BY <1>6, TearType DEF WorkerLost
  <2> QED
    BY <1>6, <2>1, <2>2, FaultType, DropFrameType DEF WorkerLost, TypeOK
<1>7. ASSUME NEW t \in Tenants, LockExpires(t)
      PROVE  TypeOK'
  BY <1>7, FaultType DEF LockExpires, TypeOK, workerVars
<1>8. CASE UNCHANGED vars
  BY <1>8 DEF vars, TypeOK, workerVars
<1> QED
  BY <1>1, <1>2, <1>3, <1>4, <1>5, <1>6, <1>7, <1>8 DEF Next

\* Every step keeps the frames filled where the next step reads them.
LEMMA FrameStep == TypeOK /\ FrameOK /\ [Next]_vars => FrameOK'
<1> SUFFICES ASSUME TypeOK, FrameOK, [Next]_vars
             PROVE  FrameOK'
  OBVIOUS
<1> USE DEF FrameOK, Locked, TryBlock
<1>1. ASSUME NEW j \in Jobs, Upload(j)
      PROVE  FrameOK'
  BY <1>1 DEF Upload, workerVars
<1>2. ASSUME NEW j \in Jobs, UploadFails(j) \/ Unstage(j)
      PROVE  FrameOK'
  BY <1>2 DEF UploadFails, Unstage, workerVars
<1>3. ASSUME NEW w \in Workers, Deliver(w) \/ Overtake(w)
      PROVE  FrameOK'
  BY <1>3 DEF Deliver, Overtake, Take, Goto, TypeOK
<1>4. ASSUME NEW w \in Workers, TaskStep(w)
      PROVE  FrameOK'
  <2>1. CASE AcquireLock(w)
    <3>1. JobOf(w) \in Jobs
      BY <2>1 DEF AcquireLock, JobOf, Message
    <3>2. NewDoc(JobOf(w)) \in Doc
      BY <3>1, NewDocType DEF TypeOK
    <3> QED
      BY <2>1, <3>2 DEF AcquireLock, Goto, TypeOK
  <2>2. CASE LockBusy(w) \/ LockError(w) \/ LockUnheard(w)
    BY <2>2 DEF LockBusy, LockError, LockUnheard, AcquireRaises, Goto, TypeOK
  <2>3. CASE Parse(w) \/ DeleteStale(w)
    BY <2>3 DEF Parse, DeleteStale, BeginReplace, Goto, TypeOK
  <2>4. CASE UpsertBatch(w) \/ StoreParents(w)
    BY <2>4 DEF UpsertBatch, StoreParents, Goto, TypeOK
  <2>5. CASE PgDelete(w) \/ PgInsert(w)
    BY <2>5 DEF PgDelete, PgInsert, Goto, TypeOK
  <2>6. CASE PickleLoad(w) \/ PickleSave(w)
    BY <2>6 DEF PickleLoad, PickleSave, Goto, TypeOK
  <2>7. CASE Complete(w) \/ ParseFails(w) \/ HashFails(w) \/ StepFails(w)
    BY <2>7 DEF Complete, ParseFails, HashFails, StepFails, Raise, Goto, TypeOK
  <2>8. CASE Except(w) \/ Release(w) \/ Report(w) \/ ReportFails(w)
    BY <2>8 DEF Except, Release, Report, ReportFails, Goto, TypeOK
  <2>9. CASE Ack(w)
    BY <2>9 DEF Ack, DropFrame, Goto, TypeOK
  <2> QED
    BY <1>4, <2>1, <2>2, <2>3, <2>4, <2>5, <2>6, <2>7, <2>8, <2>9 DEF TaskStep
<1>5. ASSUME NEW w \in Workers, WorkerLost(w)
      PROVE  FrameOK'
  BY <1>5 DEF WorkerLost, DropFrame, Goto, TypeOK
<1>6. ASSUME NEW t \in Tenants, LockExpires(t)
      PROVE  FrameOK'
  BY <1>6 DEF LockExpires, workerVars
<1>7. CASE UNCHANGED vars
  BY <1>7 DEF vars, workerVars
<1> QED
  BY <1>1, <1>2, <1>3, <1>4, <1>5, <1>6, <1>7 DEF Next

------------------------------------------------------------------------------
(* The lock.                                                               *)

\* Apart from taking, releasing and losing a lock, no step touches the locks or
\* opens a locked section.
LEMMA LockSteps ==
    ASSUME TypeOK, FrameOK, [Next]_vars
    PROVE  \/ \E w \in Workers : AcquireLock(w)
           \/ \E w \in Workers : LockUnheard(w)
           \/ \E w \in Workers : Release(w)
           \/ \E t \in Tenants : LockExpires(t)
           \/ /\ UNCHANGED <<lock, lapsed, serial>>
              /\ \A v \in Workers : Locked(v)' => Locked(v) /\ doc'[v] = doc[v]
<1> DEFINE Quiet == /\ UNCHANGED <<lock, lapsed, serial>>
                    /\ \A v \in Workers : Locked(v)' => Locked(v) /\ doc'[v] = doc[v]
<1> USE DEF Locked, TryBlock, historyVars, writeHistory
<1>1. ASSUME NEW j \in Jobs, Upload(j) \/ UploadFails(j) \/ Unstage(j)
      PROVE  Quiet
  BY <1>1 DEF Upload, UploadFails, Unstage, workerVars
<1>2. ASSUME NEW w \in Workers, Deliver(w) \/ Overtake(w) \/ WorkerLost(w) \/ Ack(w)
      PROVE  Quiet
  BY <1>2 DEF Deliver, Overtake, Take, WorkerLost, Ack, DropFrame, Goto, TypeOK
<1>3. ASSUME NEW w \in Workers, LockBusy(w) \/ LockError(w) \/ Report(w) \/ ReportFails(w)
      PROVE  Quiet
  BY <1>3 DEF LockBusy, LockError, AcquireRaises, Report, ReportFails, Goto, TypeOK
<1>4. ASSUME NEW w \in Workers,
             Parse(w) \/ DeleteStale(w) \/ UpsertBatch(w) \/ StoreParents(w)
      PROVE  Quiet
  BY <1>4 DEF Parse, DeleteStale, BeginReplace, UpsertBatch, StoreParents, Goto, TypeOK
<1>5. ASSUME NEW w \in Workers,
             PgDelete(w) \/ PgInsert(w) \/ PickleLoad(w) \/ PickleSave(w)
      PROVE  Quiet
  BY <1>5 DEF PgDelete, PgInsert, PickleLoad, PickleSave, Goto, TypeOK
<1>6. ASSUME NEW w \in Workers,
             Complete(w) \/ ParseFails(w) \/ HashFails(w) \/ StepFails(w) \/ Except(w)
      PROVE  Quiet
  BY <1>6 DEF Complete, ParseFails, HashFails, StepFails, Raise, Except, Goto, TypeOK
<1>7. CASE UNCHANGED vars
  BY <1>7 DEF vars, workerVars
<1> HIDE DEF Quiet
<1>8. ASSUME NEW w \in Workers, TaskStep(w)
      PROVE  AcquireLock(w) \/ LockUnheard(w) \/ Release(w) \/ Quiet
  BY <1>2, <1>3, <1>4, <1>5, <1>6, <1>8, Zenon DEF TaskStep
<1>9. ASSUME Next
      PROVE  \/ \E w \in Workers : AcquireLock(w) \/ LockUnheard(w) \/ Release(w)
             \/ \E t \in Tenants : LockExpires(t)
             \/ Quiet
  BY <1>1, <1>2, <1>8, <1>9, Zenon DEF Next
<1> QED
  BY <1>7, <1>9 DEF Quiet

\* A new token differs from every token in use: it is one run further.
LEMMA NewToken ==
    ASSUME TypeOK, FrameOK, TokensDistinct, NEW w \in Workers, AcquireLock(w)
    PROVE  /\ NewDoc(JobOf(w)) \in Doc
           /\ doc' = [doc EXCEPT ![w] = NewDoc(JobOf(w))]
           /\ lock' = [lock EXCEPT ![doc'[w].tenant] = doc'[w]]
           /\ lock[doc'[w].tenant] = None
           /\ doc'[w].serial = serial'[doc'[w].file]
           /\ \A j \in Jobs : serial[j] <= serial'[j]
           /\ \A v \in Workers \ {w} : Locked(v)' =>
                Locked(v) /\ doc'[v] = doc[v] /\ doc[v] # doc'[w]
<1> DEFINE j == JobOf(w)
<1>1. j \in Jobs
  BY DEF AcquireLock, FrameOK, JobOf, Message
<1>2. /\ NewDoc(j) \in Doc
      /\ NewDoc(j).tenant = TenantOf[j]
      /\ NewDoc(j).file = j
      /\ NewDoc(j).serial = serial[j] + 1
  BY <1>1, NewDocType DEF TypeOK
<1>3. /\ doc' = [doc EXCEPT ![w] = NewDoc(j)]
      /\ doc'[w] = NewDoc(j)
      /\ serial' = [serial EXCEPT ![j] = @ + 1]
      /\ serial \in [Jobs -> Nat]
  BY DEF AcquireLock, SetLock, TypeOK
<1>4. doc'[w].serial = serial'[doc'[w].file] /\ \A i \in Jobs : serial[i] <= serial'[i]
  BY <1>1, <1>2, <1>3
<1>5. \A v \in Workers \ {w} : Locked(v)' => Locked(v) /\ doc'[v] = doc[v]
  BY <1>3 DEF AcquireLock, Goto, Locked, TypeOK
<1>6. \A v \in Workers : Locked(v) => doc[v] # NewDoc(j)
  <2> SUFFICES ASSUME NEW v \in Workers, Locked(v), doc[v] = NewDoc(j)
               PROVE  FALSE
    OBVIOUS
  <2>1. doc[v].serial <= serial[doc[v].file]
    BY DEF TokensDistinct
  <2> QED
    BY <1>1, <1>2, <1>3, <2>1
<1> QED
  BY <1>2, <1>3, <1>4, <1>5, <1>6 DEF AcquireLock, SetLock

\* A token that nobody heard of counts too, and belongs to no run.
LEMMA UnheardToken ==
    ASSUME TypeOK, FrameOK, NEW w \in Workers, LockUnheard(w)
    PROVE  /\ UNCHANGED <<doc, lapsed>>
           /\ \A v \in Workers : Locked(v)' => Locked(v)
           /\ \A j \in Jobs : serial[j] <= serial'[j]
           /\ \E t \in Tenants :
                lock[t] = None /\ \A u \in Tenants \ {t} : lock'[u] = lock[u]
<1>1. JobOf(w) \in Jobs
  BY DEF LockUnheard, FrameOK, JobOf, Message
<1>2. /\ lock[TenantOf[JobOf(w)]] = None /\ TenantOf[JobOf(w)] \in Tenants
      /\ \A u \in Tenants \ {TenantOf[JobOf(w)]} : lock'[u] = lock[u]
  BY <1>1, JobsAssumption DEF LockUnheard, SetLock, TypeOK
<1>3. \A j \in Jobs : serial[j] <= serial'[j]
  BY <1>1 DEF LockUnheard, SetLock, TypeOK
<1>4. UNCHANGED <<doc, lapsed>> /\ \A v \in Workers : Locked(v)' => Locked(v)
  BY DEF LockUnheard, AcquireRaises, Goto, Locked, TryBlock, TypeOK, historyVars, writeHistory
<1> QED
  BY <1>2, <1>3, <1>4

\* No step makes two runs share a lock token: only AcquireLock draws one.
LEMMA TokenStep ==
    TypeOK /\ FrameOK /\ TokensDistinct /\ [Next]_vars => TokensDistinct'
<1> SUFFICES ASSUME TypeOK, FrameOK, TokensDistinct, [Next]_vars
             PROVE  TokensDistinct'
  OBVIOUS
<1>1. \A v \in Workers : Locked(v) => doc[v].file \in Jobs /\ doc[v].serial \in Nat
  BY DEF FrameOK, Doc, Jobs
<1>2. serial \in [Jobs -> Nat] /\ serial' \in [Jobs -> Nat]
  BY TypeStep DEF TypeOK
<1>3. ASSUME NEW w \in Workers, AcquireLock(w)
      PROVE  TokensDistinct'
  <2>1. \A v \in Workers : Locked(v)' => doc'[v].serial <= serial'[doc'[v].file]
    <3> SUFFICES ASSUME NEW v \in Workers, Locked(v)'
                 PROVE  doc'[v].serial <= serial'[doc'[v].file]
      OBVIOUS
    <3>1. CASE v = w
      <4>1. doc'[w] \in Doc /\ doc'[w].serial = serial'[doc'[w].file]
        BY <1>3, NewToken DEF TypeOK
      <4> QED
        BY <1>2, <3>1, <4>1 DEF Doc, Jobs
    <3>2. CASE v # w
      <4>1. Locked(v) /\ doc'[v] = doc[v]
        BY <1>3, <3>2, NewToken
      <4>2. doc[v].serial <= serial[doc[v].file]
        BY <4>1 DEF TokensDistinct
      <4>3. serial[doc[v].file] <= serial'[doc[v].file]
        BY <1>1, <1>3, <4>1, NewToken
      <4> QED
        BY <1>1, <1>2, <4>1, <4>2, <4>3
    <3> QED
      BY <3>1, <3>2
  <2>2. \A u, v \in Workers : u # v /\ Locked(u)' /\ Locked(v)' => doc'[u] # doc'[v]
    BY <1>3, NewToken DEF TokensDistinct
  <2> QED
    BY <2>1, <2>2 DEF TokensDistinct, Locked
<1>4. ASSUME NEW w \in Workers, Release(w)
      PROVE  TokensDistinct'
  BY <1>4 DEF Release, Goto, TypeOK, TokensDistinct, Locked
<1>5. ASSUME NEW t \in Tenants, LockExpires(t)
      PROVE  TokensDistinct'
  BY <1>5 DEF LockExpires, workerVars, TokensDistinct, Locked
<1>7. ASSUME NEW w \in Workers, LockUnheard(w)
      PROVE  TokensDistinct'
  <2>1. doc' = doc /\ \A v \in Workers : Locked(v)' => Locked(v)
    BY <1>7, UnheardToken
  <2>2. \A v \in Workers : Locked(v) => doc[v].serial <= serial'[doc[v].file]
    <3> SUFFICES ASSUME NEW v \in Workers, Locked(v)
                 PROVE  doc[v].serial <= serial'[doc[v].file]
      OBVIOUS
    <3>1. doc[v].serial <= serial[doc[v].file]
      BY DEF TokensDistinct
    <3>2. serial[doc[v].file] <= serial'[doc[v].file]
      BY <1>1, <1>7, UnheardToken
    <3> QED
      BY <1>1, <1>2, <3>1, <3>2
  <2> QED
    BY <2>1, <2>2 DEF TokensDistinct
<1>6. ASSUME UNCHANGED <<lock, lapsed, serial>>,
             \A v \in Workers : Locked(v)' => Locked(v) /\ doc'[v] = doc[v]
      PROVE  TokensDistinct'
  BY <1>6 DEF TokensDistinct
<1> QED
  BY <1>3, <1>4, <1>5, <1>6, <1>7, LockSteps

\* A run in the locked section keeps its lock through every step of the others:
\* Release only deletes the token of its own run, and LockExpires records whose
\* token it dropped.
LEMMA HolderStep == IInv /\ [Next]_vars => HolderOrLapsed'
<1> SUFFICES ASSUME IInv, [Next]_vars
             PROVE  HolderOrLapsed'
  OBVIOUS
<1> USE DEF IInv
<1>1. \A v \in Workers : Locked(v) => doc[v] \in Doc /\ doc[v].tenant \in Tenants
  BY DEF FrameOK, Doc
<1>2. ASSUME NEW w \in Workers, AcquireLock(w)
      PROVE  HolderOrLapsed'
  <2> SUFFICES ASSUME NEW v \in Workers, Locked(v)'
               PROVE  lock'[doc'[v].tenant] = doc'[v] \/ doc'[v] \in lapsed'
    BY DEF HolderOrLapsed
  <2>1. lapsed' = lapsed
    BY <1>2 DEF AcquireLock, historyVars, writeHistory
  <2>2. CASE v = w
    BY <1>2, <2>2, NewToken DEF TypeOK, Doc
  <2>3. CASE v # w
    BY <1>1, <1>2, <2>1, <2>3, NewToken, JobsAssumption DEF HolderOrLapsed, TypeOK
  <2> QED
    BY <2>2, <2>3
<1>3. ASSUME NEW w \in Workers, Release(w)
      PROVE  HolderOrLapsed'
  <2>1. Locked(w) /\ ~Locked(w)' /\ doc' = doc /\ lapsed' = lapsed
    BY <1>3 DEF Release, Goto, TypeOK, Locked, TryBlock, historyVars, writeHistory
  <2>2. \A v \in Workers \ {w} : Locked(v)' => Locked(v) /\ doc[v] # doc[w]
    BY <1>3, <2>1 DEF Release, Goto, TypeOK, Locked, TokensDistinct
  <2>3. \A v \in Workers \ {w} : Locked(v) /\ doc[v] # doc[w] /\ lock[doc[v].tenant] = doc[v]
           => lock'[doc[v].tenant] = doc[v]
    BY <1>1, <1>3 DEF Release, Unlock, TypeOK
  <2> QED
    BY <2>1, <2>2, <2>3 DEF HolderOrLapsed
<1>4. ASSUME NEW t \in Tenants, LockExpires(t)
      PROVE  HolderOrLapsed'
  <2>1. doc' = doc /\ pc' = pc /\ lapsed \subseteq lapsed'
    BY <1>4 DEF LockExpires, workerVars
  <2>2. \A v \in Workers : Locked(v) /\ lock[doc[v].tenant] = doc[v]
           => lock'[doc[v].tenant] = doc[v] \/ doc[v] \in lapsed'
    BY <1>1, <1>4 DEF LockExpires, TypeOK
  <2> QED
    BY <2>1, <2>2 DEF HolderOrLapsed, Locked
<1>5. ASSUME UNCHANGED <<lock, lapsed, serial>>,
             \A v \in Workers : Locked(v)' => Locked(v) /\ doc'[v] = doc[v]
      PROVE  HolderOrLapsed'
  BY <1>5 DEF HolderOrLapsed
<1>6. ASSUME NEW w \in Workers, LockUnheard(w)
      PROVE  HolderOrLapsed'
  <2>1. /\ doc' = doc /\ lapsed' = lapsed
        /\ \A v \in Workers : Locked(v)' => Locked(v)
    BY <1>6, UnheardToken
  <2>2. PICK t \in Tenants : lock[t] = None /\ \A u \in Tenants \ {t} : lock'[u] = lock[u]
    BY <1>6, UnheardToken
  <2>3. \A v \in Workers : Locked(v) => lock'[doc[v].tenant] = doc[v] \/ doc[v] \in lapsed
    BY <1>1, <2>2, JobsAssumption DEF HolderOrLapsed
  <2> QED
    BY <2>1, <2>3 DEF HolderOrLapsed
<1> QED
  BY <1>2, <1>3, <1>4, <1>5, <1>6, LockSteps

------------------------------------------------------------------------------
\* The invariant is inductive.
LEMMA Inductive == IInv /\ [Next]_vars => IInv'
BY TypeStep, FrameStep, TokenStep, HolderStep DEF IInv

\* ... and so holds in every state of every behaviour.
LEMMA Invariant == Spec => []IInv
BY InitInv, Inductive, PTL DEF Spec

\* Every variable keeps its type, in every reachable state: among the rest, no
\* message is ever published with more retries than the task may make, and no
\* point is stored outside the batches of its document.
THEOREM TypeCorrect == Spec => []TypeOK
<1>1. IInv => TypeOK
  BY DEF IInv
<1> QED
  BY <1>1, Invariant, PTL

\* Two runs are inside the locked section of one tenant only after the lock of
\* one of them timed out, whatever crashes, failed releases and redeliveries
\* came before.
THEOREM Exclusive == Spec => []ExclusiveUnlessLapsed
<1>1. IInv => ExclusiveUnlessLapsed
  BY DEF IInv, TokensDistinct, HolderOrLapsed, ExclusiveUnlessLapsed
<1> QED
  BY <1>1, Invariant, PTL

------------------------------------------------------------------------------
(* What a completed run of ingest_pdf leaves in the stores, and what is    *)
(* found meanwhile.                                                        *)

\* A run that began to replace its source last, and overlapped with no other.
Sole(d) == writer[d.source] = d /\ d \notin mixed

VectorsOf(s) == {p \in vectors : p.doc.source = s}
PointsUpTo(d, n) == {[doc |-> d, batch |-> i] : i \in 1..n}

RowsOf(rows, d) == {k \in rows : k.source = d.source /\ k.tenant = d.tenant}
RowsOK(rows, d) ==
    RowsOf(rows, d) = InsertChunks({}, d) \/ (~Postgres /\ ~HasChunks(d))

\* Each keyword index has steps of its own.
ModeOK ==
    \A w \in Workers : (pc[w] = "insert" => Postgres) /\ (pc[w] = "save" => ~Postgres)

\* The vectors are upserted from the first batch on.
BatchFirst ==
    \A w \in Workers : pc[w] \in {"idle", "acquire", "parse", "delete"} => batch[w] = 1

\* A completed run does nothing any more, and was one of those counted.
DoneOver ==
    /\ \A w \in Workers : pc[w] \in TryBlock => doc[w] \notin done
    /\ \A d \in done : d \in Doc /\ d.serial <= serial[d.file]

\* Runs that can confuse each other's writes and are both under way are recorded.
RivalsMixed ==
    \A v, w \in Workers :
        v # w /\ pc[v] \in Writing /\ pc[w] \in Writing /\ Conflict(doc[v], doc[w])
        => doc[v] \in mixed /\ doc[w] \in mixed

\* A run under way is the last to have begun on its source, or that one is recorded.
WriterAlone ==
    \A w \in Workers : pc[w] \in Writing =>
        LET d == writer[doc[w].source]
        IN  d = doc[w] \/ d \in mixed

\* How far the stores are when a run that is alone is under way.
Progress ==
    \A w \in Workers : pc[w] \in Writing /\ Sole(doc[w]) =>
        /\ pc[w] = "upsert" =>
             /\ VectorsOf(doc[w].source) = PointsUpTo(doc[w], batch[w] - 1)
             /\ batch[w] - 1 <= Batches[doc[w].file]
        /\ pc[w] # "upsert" =>
             /\ VectorsOf(doc[w].source) = PointsUpTo(doc[w], Batches[doc[w].file])
             /\ doc[w] \in parents
        /\ pc[w] = "insert" => RowsOf(keyword, doc[w]) = {}

\* The runs that have nothing left to write: completed, or about to be.
Settled == done \cup {doc[w] : w \in {u \in Workers : pc[u] = "hash"}}

\* What they wrote is there, and a pickle read before it is replaced has it too.
SettledIntact ==
    \A d \in Settled : Sole(d) =>
        /\ VectorsOf(d.source) = PointsUpTo(d, Batches[d.file])
        /\ d \in parents
        /\ RowsOK(keyword, d)
        /\ \A w \in Workers : pc[w] = "save" => RowsOK(loaded[w], d)

\* Who is under way beside whom, and what the stores hold.
RunsOK == ModeOK /\ DoneOver /\ RivalsMixed /\ WriterAlone
StoresOK == IInv /\ RunsOK /\ BatchFirst /\ Progress /\ SettledIntact

------------------------------------------------------------------------------
(* Which steps matter to the stores.                                       *)

\* A step after which no store, no record of the writers and no run under way
\* has changed, though runs may have ended.
Quiet ==
    /\ UNCHANGED <<setting, storeVars, mixed, writer, done>>
    /\ \A j \in Jobs : serial[j] <= serial'[j]
    /\ \A v \in Workers :
         /\ pc'[v] \in Writing \cup {"hash"} =>
              /\ pc'[v] = pc[v] /\ doc'[v] = doc[v]
              /\ batch'[v] = batch[v] /\ loaded'[v] = loaded[v]
         /\ pc'[v] \in TryBlock => pc[v] \in TryBlock /\ doc'[v] = doc[v]

\* All other steps are these.
WritingStep(w) ==
    \/ UpsertBatch(w) \/ StoreParents(w) \/ PgDelete(w) \/ PgInsert(w)
    \/ PickleLoad(w) \/ PickleSave(w)

LEMMA StoreSteps ==
    ASSUME TypeOK, FrameOK, [Next]_vars
    PROVE  \/ \E w \in Workers : AcquireLock(w) \/ DeleteStale(w) \/ Complete(w)
           \/ \E w \in Workers : WritingStep(w)
           \/ Quiet
<1> USE DEF Quiet, Writing, TryBlock, storeVars, historyVars, writeHistory, outside
<1>0. \A j \in Jobs : serial[j] <= serial[j]
  BY DEF TypeOK
<1>1. ASSUME NEW j \in Jobs, Upload(j) \/ UploadFails(j) \/ Unstage(j)
      PROVE  Quiet
  BY <1>0, <1>1 DEF Upload, UploadFails, Unstage, workerVars
<1>2. ASSUME NEW w \in Workers, Deliver(w) \/ Overtake(w) \/ WorkerLost(w) \/ Ack(w)
      PROVE  Quiet
  BY <1>2 DEF Deliver, Overtake, Take, WorkerLost, Ack, DropFrame, Goto, TypeOK
<1>3. ASSUME NEW w \in Workers,
             LockBusy(w) \/ LockError(w) \/ Report(w) \/ ReportFails(w) \/ Release(w)
      PROVE  Quiet
  BY <1>3 DEF LockBusy, LockError, AcquireRaises, Report, ReportFails, Release, Goto, TypeOK
<1>4. ASSUME NEW w \in Workers,
             Parse(w) \/ ParseFails(w) \/ HashFails(w) \/ StepFails(w) \/ Except(w)
      PROVE  Quiet
  BY <1>4 DEF Parse, ParseFails, HashFails, StepFails, Raise, Except, Goto, TypeOK
<1>9. ASSUME NEW w \in Workers, LockUnheard(w)
      PROVE  Quiet
  <2>1. \A j \in Jobs : serial[j] <= serial'[j]
    BY <1>9, UnheardToken
  <2> QED
    BY <1>9, <2>1 DEF LockUnheard, AcquireRaises, Goto, TypeOK
<1>5. ASSUME NEW t \in Tenants, LockExpires(t)
      PROVE  Quiet
  BY <1>0, <1>5 DEF LockExpires, workerVars
<1>6. CASE UNCHANGED vars
  BY <1>0, <1>6 DEF vars, workerVars
<1> HIDE DEF Quiet, Writing, TryBlock, storeVars, historyVars, writeHistory, outside
<1>7. ASSUME NEW w \in Workers, TaskStep(w)
      PROVE  AcquireLock(w) \/ DeleteStale(w) \/ Complete(w) \/ WritingStep(w) \/ Quiet
  BY <1>2, <1>3, <1>4, <1>7, <1>9, Zenon DEF TaskStep, WritingStep
<1>8. ASSUME Next
      PROVE  \/ \E w \in Workers : AcquireLock(w) \/ DeleteStale(w) \/ Complete(w)
             \/ \E w \in Workers : WritingStep(w)
             \/ Quiet
  BY <1>1, <1>2, <1>5, <1>7, <1>8, Zenon DEF Next
<1> QED
  BY <1>6, <1>8

\* What a step of a run under way leaves alone.
LEMMA WritingFrame ==
    ASSUME TypeOK, NEW w \in Workers, WritingStep(w)
    PROVE  /\ UNCHANGED <<setting, mixed, writer, done, serial, doc>>
           /\ pc[w] \in Writing
           /\ pc'[w] \in Writing \cup {"hash"}
           /\ \A v \in Workers \ {w} :
                pc'[v] = pc[v] /\ batch'[v] = batch[v] /\ loaded'[v] = loaded[v]
           /\ pc'[w] = "insert" => Postgres
           /\ pc'[w] = "save" => pc[w] = "save" \/ ~Postgres
BY DEF WritingStep, UpsertBatch, StoreParents, PgDelete, PgInsert, PickleLoad, PickleSave,
       Writing, Goto, TypeOK, historyVars, writeHistory, outside

------------------------------------------------------------------------------
(* Runs beside runs.                                                       *)

\* Two runs in the try block write different documents, and so does a run under
\* way and a settled one.
LEMMA RunsDiffer ==
    ASSUME TokensDistinct, DoneOver, NEW w \in Workers, pc[w] \in Writing \cup {"delete"}
    PROVE  /\ \A v \in Workers \ {w} : pc[v] \in TryBlock => doc[v] # doc[w]
           /\ doc[w] \notin Settled
BY DEF TokensDistinct, DoneOver, Locked, Settled, Writing, TryBlock

\* Beside a run under way, another one that is alone is one for another source.
LEMMA OtherSource ==
    ASSUME WriterAlone, NEW w \in Workers, pc[w] \in Writing,
           NEW d, Sole(d), d # doc[w]
    PROVE  d.source # doc[w].source
BY DEF WriterAlone, Sole

\* The records of who is under way are kept by every step.
LEMMA RunsStep ==
    ASSUME IInv, RunsOK, [Next]_vars
    PROVE  RunsOK'
<1> USE DEF IInv, RunsOK
<1>0. \A v \in Workers : pc[v] \in TryBlock => doc[v] \in Doc /\ doc[v].source \in Sources
  BY DEF FrameOK, Locked, Doc
<1>1. ASSUME NEW w \in Workers, AcquireLock(w)
      PROVE  RunsOK'
  <2>1. /\ UNCHANGED <<setting, mixed, writer, done>>
        /\ pc' = [pc EXCEPT ![w] = "parse"]
        /\ \A v \in Workers \ {w} : doc'[v] = doc[v]
    BY <1>1 DEF AcquireLock, Goto, TypeOK, outside, historyVars, writeHistory
  <2>2. /\ doc'[w] \in Doc /\ doc'[w] = NewDoc(JobOf(w)) /\ JobOf(w) \in Jobs
        /\ serial' = [serial EXCEPT ![JobOf(w)] = @ + 1]
    <3>1. JobOf(w) \in Jobs
      BY <1>1 DEF AcquireLock, FrameOK, JobOf, Message
    <3>2. NewDoc(JobOf(w)) \in Doc /\ doc' = [doc EXCEPT ![w] = NewDoc(JobOf(w))]
      BY <1>1, NewToken
    <3>3. serial' = [serial EXCEPT ![JobOf(w)] = @ + 1]
      BY <1>1 DEF AcquireLock, SetLock
    <3>4. doc \in [Workers -> Doc \cup {None}]
      BY DEF TypeOK
    <3> QED
      BY <3>1, <3>2, <3>3, <3>4
  <2>3. ModeOK' /\ RivalsMixed' /\ WriterAlone'
    <3>1. \A v \in Workers : pc'[v] \in Writing \cup {"insert", "save"} =>
             pc'[v] = pc[v] /\ v # w /\ doc'[v] = doc[v] /\ pc[v] \in Writing
      BY <2>1 DEF TypeOK, Writing
    <3>2. Postgres' = Postgres
      BY <2>1 DEF Postgres
    <3>3. ModeOK'
      BY <3>1, <3>2 DEF ModeOK
    <3>4. \A d, e : Conflict(d, e)' = Conflict(d, e)
      BY <3>2 DEF Conflict
    <3>5. RivalsMixed'
      BY <2>1, <3>1, <3>2 DEF RivalsMixed, Conflict
    <3>6. WriterAlone'
      BY <2>1, <3>1 DEF WriterAlone
    <3> QED
      BY <3>3, <3>5, <3>6
  <2>4. \A d \in done : d \in Doc /\ d.serial <= serial[d.file] /\ d # doc'[w]
    <3> SUFFICES ASSUME NEW d \in done
                 PROVE  d \in Doc /\ d.serial <= serial[d.file] /\ d # doc'[w]
      OBVIOUS
    <3>1. d \in Doc /\ d.serial <= serial[d.file]
      BY DEF DoneOver
    <3>2. doc'[w].file = JobOf(w) /\ doc'[w].serial = serial[JobOf(w)] + 1
      BY <2>2, NewDocType DEF TypeOK
    <3>3. serial[JobOf(w)] \in Nat
      BY <2>2 DEF TypeOK
    <3> QED
      BY <3>1, <3>2, <3>3
  <2>5. DoneOver'
    <3>1. \A v \in Workers : pc'[v] \in TryBlock => doc'[v] \notin done'
      BY <2>1, <2>4 DEF DoneOver, TypeOK
    <3>2. \A d \in done' : d \in Doc /\ d.serial <= serial'[d.file]
      BY <2>1, <2>2, <2>4 DEF TypeOK, Doc, Jobs
    <3> QED
      BY <3>1, <3>2 DEF DoneOver
  <2> QED
    BY <2>3, <2>5
<1>2. ASSUME NEW w \in Workers, DeleteStale(w)
      PROVE  RunsOK'
  <2>1. /\ UNCHANGED <<setting, doc, done, serial>>
        /\ pc[w] = "delete" /\ pc' = [pc EXCEPT ![w] = "upsert"]
        /\ writer' = [writer EXCEPT ![doc[w].source] = doc[w]]
        /\ mixed' = IF Rivals(w) = {} THEN mixed ELSE mixed \cup Rivals(w) \cup {doc[w]}
    BY <1>2 DEF DeleteStale, BeginReplace, Goto, outside
  <2>2. mixed \subseteq mixed'
    BY <2>1
  <2>3. Postgres' = Postgres
    BY <2>1 DEF Postgres
  <2>4. ModeOK' /\ DoneOver'
    BY <2>1, <2>3 DEF ModeOK, DoneOver, TypeOK, TryBlock
  <2>5. \A v \in Workers \ {w} : pc[v] \in Writing /\ Conflict(doc[v], doc[w]) =>
           doc[v] \in mixed' /\ doc[w] \in mixed'
    BY <2>1 DEF Rivals
  <2>6. RivalsMixed'
    <3>1. \A v \in Workers \ {w} : pc'[v] = pc[v]
      BY <2>1 DEF TypeOK
    <3>2. \A d, e : (Conflict(d, e) => Conflict(e, d)) /\ (Conflict(d, e)' <=> Conflict(d, e))
      BY <2>3 DEF Conflict
    <3> QED
      BY <2>1, <2>2, <2>5, <3>1, <3>2 DEF RivalsMixed
  <2>7. WriterAlone'
    <3> SUFFICES ASSUME NEW v \in Workers, pc'[v] \in Writing
                 PROVE  writer'[doc[v].source] = doc[v] \/ writer'[doc[v].source] \in mixed'
      BY <2>1 DEF WriterAlone
    <3>1. doc[w].source \in Sources
      BY <1>0, <2>1 DEF TryBlock
    <3>2. CASE v = w
      BY <2>1, <3>1, <3>2 DEF TypeOK
    <3>3. CASE v # w
      <4>1. pc[v] \in Writing /\ doc[v].source \in Sources
        BY <1>0, <2>1, <3>3 DEF TypeOK, Writing, TryBlock
      <4>2. CASE doc[v].source = doc[w].source
        <5>1. Conflict(doc[v], doc[w])
          BY <4>2 DEF Conflict
        <5>2. writer'[doc[v].source] = doc[w]
          BY <2>1, <3>1, <4>2 DEF TypeOK
        <5> QED
          BY <2>5, <3>3, <4>1, <5>1, <5>2
      <4>3. CASE doc[v].source # doc[w].source
        BY <2>1, <2>2, <4>1, <4>3 DEF WriterAlone, TypeOK
      <4> QED
        BY <4>2, <4>3
    <3> QED
      BY <3>2, <3>3
  <2> QED
    BY <2>4, <2>6, <2>7
<1>3. ASSUME NEW w \in Workers, Complete(w)
      PROVE  RunsOK'
  <2>1. /\ UNCHANGED <<setting, doc, serial, mixed, writer>>
        /\ pc[w] = "hash" /\ pc' = [pc EXCEPT ![w] = "release"]
        /\ done' = done \cup {doc[w]}
    BY <1>3 DEF Complete, Goto, outside
  <2>2. Postgres' = Postgres
    BY <2>1 DEF Postgres
  <2>3. \A v \in Workers : pc'[v] \in TryBlock \cup Writing => v # w /\ pc'[v] = pc[v]
    BY <2>1 DEF TypeOK, TryBlock, Writing
  <2>4. ModeOK'
    BY <2>2, <2>3 DEF ModeOK, TryBlock
  <2>5. DoneOver'
    <3>1. \A v \in Workers : pc'[v] \in TryBlock => doc[v] \notin done'
      BY <2>1, <2>3 DEF DoneOver, TokensDistinct, Locked, TryBlock
    <3>2. doc[w] \in Doc /\ doc[w].serial <= serial[doc[w].file]
      BY <2>1 DEF FrameOK, TokensDistinct, Locked, TryBlock
    <3> QED
      BY <2>1, <3>1, <3>2 DEF DoneOver
  <2>6. RivalsMixed' /\ WriterAlone'
    BY <2>1, <2>2, <2>3 DEF RivalsMixed, WriterAlone, Conflict
  <2> QED
    BY <2>4, <2>5, <2>6
<1>4. ASSUME NEW w \in Workers, WritingStep(w)
      PROVE  RunsOK'
  <2>1. /\ UNCHANGED <<setting, mixed, writer, done, serial, doc>>
        /\ pc[w] \in Writing
        /\ \A v \in Workers \ {w} : pc'[v] = pc[v]
        /\ pc'[w] = "insert" => Postgres
        /\ pc'[w] = "save" => pc[w] = "save" \/ ~Postgres
    BY <1>4, WritingFrame
  <2>2. Postgres' = Postgres
    BY <2>1 DEF Postgres
  <2>3. \A v \in Workers : /\ pc'[v] \in Writing => pc[v] \in Writing
                           /\ pc'[v] \in TryBlock => pc[v] \in TryBlock
    BY <2>1 DEF Writing, TryBlock
  <2>4. ModeOK'
    BY <2>1, <2>2 DEF ModeOK
  <2>5. DoneOver'
    BY <2>1, <2>3 DEF DoneOver
  <2>6. RivalsMixed' /\ WriterAlone'
    BY <2>1, <2>2, <2>3 DEF RivalsMixed, WriterAlone, Conflict
  <2> QED
    BY <2>4, <2>5, <2>6
<1>5. CASE Quiet
  <2>1. Postgres' = Postgres
    BY <1>5 DEF Quiet, Postgres
  <2>2. ModeOK'
    BY <1>5, <2>1 DEF Quiet, ModeOK, Writing
  <2>3. DoneOver'
    <3>1. \A v \in Workers : pc'[v] \in TryBlock => doc'[v] \notin done'
      BY <1>5 DEF Quiet, DoneOver
    <3>2. \A d \in done : d \in Doc /\ d.serial <= serial'[d.file]
      <4> SUFFICES ASSUME NEW d \in done
                   PROVE  d \in Doc /\ d.serial <= serial'[d.file]
        OBVIOUS
      <4>1. d \in Doc /\ d.serial <= serial[d.file]
        BY DEF DoneOver
      <4>2. d.file \in Jobs /\ d.serial \in Nat /\ serial[d.file] \in Nat /\ serial'[d.file] \in Nat
        BY <4>1, TypeStep DEF TypeOK, Doc, Jobs
      <4>3. serial[d.file] <= serial'[d.file]
        BY <1>5, <4>2 DEF Quiet
      <4> QED
        BY <4>1, <4>2, <4>3
    <3> QED
      BY <1>5, <3>1, <3>2 DEF Quiet, DoneOver
  <2>4. RivalsMixed' /\ WriterAlone'
    BY <1>5, <2>1 DEF Quiet, RivalsMixed, WriterAlone, Conflict
  <2> QED
    BY <2>2, <2>3, <2>4
<1> QED
  BY <1>1, <1>2, <1>3, <1>4, <1>5, StoreSteps

------------------------------------------------------------------------------
(* What the calls to the stores do.                                        *)

\* The points of a source after it was cleared, and after one more batch.
LEMMA ClearedPoints ==
    ASSUME NEW V, NEW s
    PROVE  /\ {p \in DeleteSource(V, s) : p.doc.source = s} = {}
           /\ \A r : r # s => {p \in DeleteSource(V, s) : p.doc.source = r} = {p \in V : p.doc.source = r}
BY DEF DeleteSource

LEMMA UpsertedPoints ==
    ASSUME NEW V, NEW d, NEW n \in Nat \ {0}
    PROVE  /\ {p \in V : p.doc.source = d.source} = PointsUpTo(d, n - 1)
                => {p \in Upsert(V, d, n) : p.doc.source = d.source} = PointsUpTo(d, n)
           /\ \A r : r # d.source =>
                {p \in Upsert(V, d, n) : p.doc.source = r} = {p \in V : p.doc.source = r}
<1> DEFINE x == [doc |-> d, batch |-> n]
<1>1. Upsert(V, d, n) = V \cup {x} /\ x.doc = d
  BY DEF Upsert
<1>2. PointsUpTo(d, n) = PointsUpTo(d, n - 1) \cup {x}
  <2>1. 1..n = (1..(n - 1)) \cup {n}
    OBVIOUS
  <2> QED
    BY <2>1 DEF PointsUpTo
<1>3. {p \in V \cup {x} : p.doc.source = d.source} = {p \in V : p.doc.source = d.source} \cup {x}
  BY <1>1
<1>4. \A r : r # d.source => {p \in V \cup {x} : p.doc.source = r} = {p \in V : p.doc.source = r}
  BY <1>1
<1> QED
  BY <1>1, <1>2, <1>3, <1>4

\* The keyword rows of a document's tenant and source after _pg_upsert's two
\* transactions, and those of other sources.
LEMMA PostgresRows ==
    ASSUME NEW K, NEW d
    PROVE  /\ RowsOf(DeleteChunksBySource(K, d.source, d.tenant), d) = {}
           /\ RowsOf(K, d) = {} => RowsOf(InsertChunks(K, d), d) = InsertChunks({}, d)
           /\ \A e : e.source # d.source =>
                /\ RowsOf(DeleteChunksBySource(K, d.source, d.tenant), e) = RowsOf(K, e)
                /\ RowsOf(InsertChunks(K, d), e) = RowsOf(K, e)
BY DEF RowsOf, DeleteChunksBySource, InsertChunks

\* The same for the pickle: what was read, with the rows of the document alone
\* under its source; a document without chunks may leave the file as it was.
LEMMA PickleRows ==
    ASSUME NEW K, NEW L, NEW d
    PROVE  /\ HasChunks(d) => RowsOf(RebuildPickle(K, L, d), d) = InsertChunks({}, d)
           /\ \A e : e.source # d.source =>
                \/ RowsOf(RebuildPickle(K, L, d), e) = RowsOf(L, e)
                \/ RowsOf(RebuildPickle(K, L, d), e) = RowsOf(K, e)
<1> DEFINE kept == {x \in L : x.source # d.source}
           corpus == InsertChunks(kept, d)
<1>1. RebuildPickle(K, L, d) = IF corpus = {} THEN K ELSE corpus
  BY DEF RebuildPickle
<1>2. \A e : e.source # d.source => RowsOf(corpus, e) = RowsOf(L, e)
  BY DEF RowsOf, InsertChunks
<1>3. HasChunks(d) => corpus # {} /\ RowsOf(corpus, d) = {d} /\ InsertChunks({}, d) = {d}
  BY DEF RowsOf, InsertChunks
<1> QED
  BY <1>1, <1>2, <1>3

------------------------------------------------------------------------------
(* Runs that settle leave exactly what they wrote.                         *)

\* A settled run has a document, and so has a run under way.
LEMMA RunsHaveDocs ==
    ASSUME TypeOK, FrameOK
    PROVE  /\ \A d \in Settled : d \in Doc /\ d.source \in Sources
           /\ \A w \in Workers : pc[w] \in TryBlock => doc[w] \in Doc /\ doc[w].source \in Sources
           /\ Writing \subseteq TryBlock
BY DEF TypeOK, FrameOK, Locked, Settled, Writing, TryBlock, Doc

\* No store changed, nobody began, and nobody settled.
LEMMA StillStores ==
    ASSUME StoresOK,
           UNCHANGED <<setting, vectors, parents, keyword, mixed, writer>>,
           Settled' \subseteq Settled,
           \A v \in Workers : pc'[v] \in Writing =>
                /\ pc'[v] = pc[v] /\ doc'[v] = doc[v]
                /\ batch'[v] = batch[v] /\ loaded'[v] = loaded[v]
    PROVE  Progress' /\ SettledIntact'
<1>1. Progress'
  BY DEF StoresOK, Progress, Sole, VectorsOf, RowsOf, PointsUpTo
<1>2. Postgres' = Postgres
  BY DEF Postgres
<1>3. SettledIntact'
  BY <1>2 DEF StoresOK, SettledIntact, Sole, VectorsOf, RowsOK, RowsOf, Writing
<1> QED
  BY <1>1, <1>3

\* A run begins: its source is cleared, and whoever began on it before is no
\* longer the last.
LEMMA BeginStores ==
    ASSUME StoresOK, NEW w \in Workers, DeleteStale(w)
    PROVE  Progress' /\ SettledIntact'
<1> USE DEF StoresOK, RunsOK, IInv
<1> DEFINE s == doc[w].source
<1>1. /\ UNCHANGED <<setting, doc, done, batch, loaded, parents, keyword>>
      /\ pc[w] = "delete" /\ pc' = [pc EXCEPT ![w] = "upsert"]
      /\ writer' = [writer EXCEPT ![s] = doc[w]]
      /\ mixed \subseteq mixed'
      /\ vectors' = DeleteSource(vectors, s)
  BY DEF DeleteStale, BeginReplace, Goto, outside
<1>2. /\ s \in Sources /\ doc[w] \in Doc /\ batch[w] = 1
      /\ Batches[doc[w].file] \in Nat
  BY <1>1, RunsHaveDocs, StoreAssumption DEF TryBlock, BatchFirst, Doc
<1>3. /\ {p \in vectors' : p.doc.source = s} = {}
      /\ \A r : r # s => {p \in vectors' : p.doc.source = r} = VectorsOf(r)
  BY <1>1, ClearedPoints DEF VectorsOf
<1>4. \A d \in Doc : Sole(d)' /\ d # doc[w] => d.source # s /\ Sole(d)
  BY <1>1, <1>2 DEF Sole, TypeOK, Doc
<1>5. /\ \A v \in Workers \ {w} : pc[v] \in Writing => doc[v] # doc[w] /\ doc[v] \in Doc
      /\ doc[w] \notin Settled
  BY <1>1, RunsDiffer, RunsHaveDocs
<1>6. \A v \in Workers \ {w} : pc'[v] = pc[v]
  BY <1>1 DEF TypeOK
<1>7. Postgres' = Postgres
  BY <1>1 DEF Postgres
<1>8. PointsUpTo(doc[w], batch[w] - 1) = {} /\ batch[w] - 1 <= Batches[doc[w].file]
  BY <1>2 DEF PointsUpTo
<1>9. Progress'
  <2> SUFFICES ASSUME NEW v \in Workers, pc'[v] \in Writing, Sole(doc[v])'
               PROVE  /\ pc'[v] = "upsert" =>
                           /\ VectorsOf(doc[v].source)' = PointsUpTo(doc[v], batch[v] - 1)
                           /\ batch[v] - 1 <= Batches[doc[v].file]
                      /\ pc'[v] # "upsert" =>
                           /\ VectorsOf(doc[v].source)' = PointsUpTo(doc[v], Batches[doc[v].file])
                           /\ doc[v] \in parents'
                      /\ pc'[v] = "insert" => RowsOf(keyword, doc[v])' = {}
    BY <1>1 DEF Progress, PointsUpTo
  <2>1. CASE v = w
    <3>1. pc'[v] = "upsert"
      BY <1>1, <2>1 DEF TypeOK
    <3>2. VectorsOf(doc[v].source)' = {}
      BY <1>1, <1>3, <2>1 DEF VectorsOf
    <3> QED
      BY <1>8, <2>1, <3>1, <3>2
  <2>2. CASE v # w
    <3>1. pc'[v] = pc[v] /\ doc[v] # doc[w] /\ doc[v] \in Doc
      BY <1>5, <1>6, <2>2
    <3>2. doc[v].source # s /\ Sole(doc[v])
      BY <1>1, <1>4, <3>1
    <3>3. VectorsOf(doc[v].source)' = VectorsOf(doc[v].source)
      BY <1>1, <1>3, <3>2 DEF VectorsOf
    <3>4. RowsOf(keyword, doc[v])' = RowsOf(keyword, doc[v])
      BY <1>1 DEF RowsOf
    <3> QED
      BY <1>1, <3>1, <3>2, <3>3, <3>4 DEF Progress
  <2> QED
    BY <2>1, <2>2
<1>10. SettledIntact'
  <2>1. Settled' \subseteq Settled
    BY <1>1, <1>6 DEF Settled, TypeOK
  <2> SUFFICES ASSUME NEW d \in Settled, Sole(d)'
               PROVE  /\ VectorsOf(d.source)' = PointsUpTo(d, Batches[d.file])
                      /\ d \in parents'
                      /\ RowsOK(keyword, d)'
                      /\ \A v \in Workers : pc'[v] = "save" => RowsOK(loaded[v], d)'
    BY <2>1 DEF SettledIntact, PointsUpTo
  <2>2. d.source # s /\ Sole(d)
    BY <1>4, <1>5, RunsHaveDocs
  <2>3. VectorsOf(d.source)' = VectorsOf(d.source)
    BY <1>3, <2>2 DEF VectorsOf
  <2>4. \A v \in Workers : pc'[v] = "save" => pc[v] = "save"
    BY <1>1, <1>6 DEF TypeOK
  <2> QED
    BY <1>1, <1>7, <2>2, <2>3, <2>4 DEF SettledIntact, RowsOK, RowsOf
<1> QED
  BY <1>9, <1>10

\* What is asked of one run under way, and of one settled run.
ProgressOf(w) ==
    /\ pc[w] = "upsert" =>
         /\ VectorsOf(doc[w].source) = PointsUpTo(doc[w], batch[w] - 1)
         /\ batch[w] - 1 <= Batches[doc[w].file]
    /\ pc[w] # "upsert" =>
         /\ VectorsOf(doc[w].source) = PointsUpTo(doc[w], Batches[doc[w].file])
         /\ doc[w] \in parents
    /\ pc[w] = "insert" => RowsOf(keyword, doc[w]) = {}

IntactOf(d) ==
    /\ VectorsOf(d.source) = PointsUpTo(d, Batches[d.file])
    /\ d \in parents
    /\ RowsOK(keyword, d)
    /\ \A w \in Workers : pc[w] = "save" => RowsOK(loaded[w], d)

\* A run under way disturbs nobody who is alone: their sources differ from its own.
LEMMA OthersKept ==
    ASSUME StoresOK, NEW w \in Workers, WritingStep(w),
           \A r : r # doc[w].source => VectorsOf(r)' = VectorsOf(r),
           parents \subseteq parents',
           \A e : e.source # doc[w].source =>
               \/ RowsOf(keyword', e) = RowsOf(keyword, e)
               \/ pc[w] = "save" /\ RowsOf(keyword', e) = RowsOf(loaded[w], e),
           pc'[w] = "save" => loaded'[w] = keyword /\ keyword' = keyword
    PROVE  /\ \A v \in Workers \ {w} : pc'[v] \in Writing /\ Sole(doc[v])' => ProgressOf(v)'
           /\ \A d \in Settled : Sole(d)' => IntactOf(d)'
<1> USE DEF StoresOK, RunsOK, IInv
<1>1. /\ UNCHANGED <<setting, mixed, writer, done, doc>>
      /\ pc[w] \in Writing
      /\ \A v \in Workers \ {w} : pc'[v] = pc[v] /\ batch'[v] = batch[v] /\ loaded'[v] = loaded[v]
  BY WritingFrame
<1>2. \A d : Sole(d)' <=> Sole(d)
  BY <1>1 DEF Sole
<1>3. Postgres' = Postgres
  BY <1>1 DEF Postgres
<1>4. /\ \A v \in Workers \ {w} : pc[v] \in Writing => doc[v] # doc[w]
      /\ doc[w] \notin Settled
  BY <1>1, RunsDiffer, RunsHaveDocs
<1>5. ASSUME NEW v \in Workers \ {w}, pc'[v] \in Writing, Sole(doc[v])'
      PROVE  ProgressOf(v)'
  <2>1. doc[v].source # doc[w].source /\ Sole(doc[v]) /\ pc[v] \in Writing
    BY <1>1, <1>2, <1>4, <1>5, OtherSource
  <2>2. VectorsOf(doc[v].source)' = VectorsOf(doc[v].source)
    BY <1>1, <2>1
  <2>3. pc[v] = "insert" => RowsOf(keyword', doc[v]) = {}
    <3>1. pc[v] = "insert" => pc[w] # "save"
      BY DEF ModeOK
    <3> QED
      BY <2>1, <3>1 DEF Progress
  <2>4. RowsOf(keyword, doc[v])' = RowsOf(keyword', doc[v])
    BY <1>1 DEF RowsOf
  <2> QED
    BY <1>1, <2>1, <2>2, <2>3, <2>4 DEF ProgressOf, Progress, PointsUpTo
<1>6. ASSUME NEW d \in Settled, Sole(d)'
      PROVE  IntactOf(d)'
  <2>1. d.source # doc[w].source /\ Sole(d)
    BY <1>1, <1>2, <1>4, <1>6, OtherSource
  <2>2. VectorsOf(d.source)' = VectorsOf(d.source)
    BY <2>1
  <2>3. IntactOf(d)
    BY <2>1 DEF SettledIntact, IntactOf
  <2>4. \A rows : (RowsOK(rows, d) <=> RowsOf(rows, d) = InsertChunks({}, d) \/ (~Postgres /\ ~HasChunks(d)))
    BY DEF RowsOK
  <2>5. RowsOK(keyword', d)
    <3>1. \/ RowsOf(keyword', d) = RowsOf(keyword, d)
          \/ pc[w] = "save" /\ RowsOf(keyword', d) = RowsOf(loaded[w], d)
      BY <2>1
    <3> QED
      BY <2>3, <2>4, <3>1 DEF IntactOf
  <2>6. ASSUME NEW v \in Workers, pc'[v] = "save"
        PROVE  RowsOK(loaded'[v], d)
    <3>1. CASE v = w
      BY <2>3, <2>6, <3>1 DEF IntactOf
    <3>2. CASE v # w
      BY <1>1, <2>3, <2>6, <3>2 DEF IntactOf
    <3> QED
      BY <3>1, <3>2
  <2>7. RowsOK(keyword, d)' /\ \A v \in Workers : pc'[v] = "save" => RowsOK(loaded[v], d)'
    BY <1>3, <2>5, <2>6 DEF RowsOK, RowsOf
  <2> QED
    BY <2>2, <2>3, <2>7 DEF IntactOf, PointsUpTo
<1> QED
  BY <1>5, <1>6

\* A run under way advances through its own part of the stores, and settles
\* with the last of it written.
LEMMA WritingStores ==
    ASSUME StoresOK, NEW w \in Workers, WritingStep(w)
    PROVE  Progress' /\ SettledIntact'
<1> USE DEF StoresOK, RunsOK, IInv
<1>0. PICK d : d = doc[w]
  OBVIOUS
<1> DEFINE s == d.source
<1>1. /\ UNCHANGED <<setting, mixed, writer, done, doc>>
      /\ pc[w] \in Writing
      /\ \A v \in Workers \ {w} : pc'[v] = pc[v]
  BY WritingFrame
<1>2. /\ d \in Doc /\ s \in Sources /\ Batches[d.file] \in Nat
      /\ batch[w] \in Nat \ {0} /\ Postgres' = Postgres
      /\ Sole(d)' <=> Sole(d)
  BY <1>0, <1>1, RunsHaveDocs, StoreAssumption DEF Doc, TypeOK, Postgres, Sole
<1>3. Sole(d) => ProgressOf(w)
  BY <1>0, <1>1 DEF Progress, ProgressOf
<1>4. SUFFICES
        /\ \A r : r # s => VectorsOf(r)' = VectorsOf(r)
        /\ parents \subseteq parents'
        /\ \A e : e.source # s =>
               \/ RowsOf(keyword', e) = RowsOf(keyword, e)
               \/ pc[w] = "save" /\ RowsOf(keyword', e) = RowsOf(loaded[w], e)
        /\ pc'[w] = "save" => loaded'[w] = keyword /\ keyword' = keyword
        /\ Sole(d) /\ pc'[w] \in Writing => ProgressOf(w)'
        /\ Sole(d) /\ pc'[w] = "hash" => IntactOf(d)'
  <2> SUFFICES ASSUME \A r : r # s => VectorsOf(r)' = VectorsOf(r),
                      parents \subseteq parents',
                      \A e : e.source # s =>
                         \/ RowsOf(keyword', e) = RowsOf(keyword, e)
                         \/ pc[w] = "save" /\ RowsOf(keyword', e) = RowsOf(loaded[w], e),
                      pc'[w] = "save" => loaded'[w] = keyword /\ keyword' = keyword,
                      Sole(d) /\ pc'[w] \in Writing => ProgressOf(w)',
                      Sole(d) /\ pc'[w] = "hash" => IntactOf(d)'
               PROVE  Progress' /\ SettledIntact'
    OBVIOUS
  <2>1. /\ \A v \in Workers \ {w} : pc'[v] \in Writing /\ Sole(doc[v])' => ProgressOf(v)'
        /\ \A e \in Settled : Sole(e)' => IntactOf(e)'
    BY <1>0, OthersKept
  <2>2. \A v \in Workers : pc'[v] \in Writing /\ Sole(doc[v])' => ProgressOf(v)'
    BY <1>0, <1>1, <1>2, <2>1
  <2>3. Settled' \subseteq Settled \cup {d} /\ (d \in Settled' => d \in Settled \/ pc'[w] = "hash")
    BY <1>0, <1>1 DEF Settled
  <2>4. \A e \in Settled' : Sole(e)' => IntactOf(e)'
    BY <1>2, <2>1, <2>3
  <2> QED
    BY <2>2, <2>4 DEF Progress, ProgressOf, SettledIntact, IntactOf

<1>5. CASE UpsertBatch(w)
  <2>1. /\ batch[w] <= Batches[d.file] /\ batch' = [batch EXCEPT ![w] = @ + 1]
        /\ vectors' = Upsert(vectors, d, batch[w])
        /\ pc[w] = "upsert" /\ UNCHANGED <<pc, parents, keyword>>
    BY <1>0, <1>5 DEF UpsertBatch
  <2>2. /\ VectorsOf(s) = PointsUpTo(d, batch[w] - 1) => VectorsOf(s)' = PointsUpTo(d, batch[w])
        /\ \A r : r # s => VectorsOf(r)' = VectorsOf(r)
    BY <1>2, <2>1, UpsertedPoints DEF VectorsOf
  <2>3. batch'[w] - 1 = batch[w]
    BY <1>2, <2>1 DEF TypeOK
  <2>4. Sole(d) => ProgressOf(w)'
    BY <1>0, <1>1, <1>3, <2>1, <2>2, <2>3 DEF ProgressOf, PointsUpTo, VectorsOf
  <2>5. \A e : RowsOf(keyword', e) = RowsOf(keyword, e)
    BY <2>1
  <2> QED
    BY <1>4, <2>1, <2>2, <2>4, <2>5
<1>6. CASE StoreParents(w)
  <2>1. /\ batch[w] > Batches[d.file] /\ parents' = parents \cup {d}
        /\ pc[w] = "upsert" /\ pc'[w] = "keyword" /\ UNCHANGED <<vectors, keyword>>
    BY <1>0, <1>6 DEF StoreParents, MSet, Goto, TypeOK
  <2>2. \A r : VectorsOf(r)' = VectorsOf(r)
    BY <2>1 DEF VectorsOf
  <2>3. Sole(d) => VectorsOf(s) = PointsUpTo(d, batch[w] - 1) /\ batch[w] - 1 = Batches[d.file]
    BY <1>0, <1>2, <1>3, <2>1 DEF ProgressOf
  <2>4. Sole(d) => ProgressOf(w)'
    BY <1>0, <1>1, <2>1, <2>2, <2>3 DEF ProgressOf, PointsUpTo, VectorsOf
  <2>5. \A e : RowsOf(keyword', e) = RowsOf(keyword, e)
    BY <2>1
  <2> QED
    BY <1>4, <2>1, <2>2, <2>4, <2>5
<1>7. CASE PgDelete(w)
  <2>1. /\ keyword' = DeleteChunksBySource(keyword, d.source, d.tenant)
        /\ pc[w] = "keyword" /\ pc'[w] = "insert" /\ UNCHANGED <<vectors, parents>>
    BY <1>0, <1>7 DEF PgDelete, Goto, TypeOK
  <2>2. \A r : VectorsOf(r)' = VectorsOf(r)
    BY <2>1 DEF VectorsOf
  <2>3. RowsOf(keyword', d) = {} /\ \A e : e.source # s => RowsOf(keyword', e) = RowsOf(keyword, e)
    <3> DEFINE left == DeleteChunksBySource(keyword, d.source, d.tenant)
    <3>1. RowsOf(left, d) = {}
      BY DEF RowsOf, DeleteChunksBySource
    <3>3. \A e : e.source # s => RowsOf(left, e) = RowsOf(keyword, e)
      BY DEF RowsOf, DeleteChunksBySource
    <3>2. keyword' = left
      BY <2>1
    <3> HIDE DEF left
    <3> QED
      BY <3>1, <3>2, <3>3
  <2>4. Sole(d) => ProgressOf(w)'
    BY <1>0, <1>1, <1>3, <2>1, <2>2, <2>3 DEF ProgressOf, PointsUpTo, VectorsOf, RowsOf
  <2> QED
    BY <1>4, <2>1, <2>2, <2>3, <2>4
<1>8. CASE PgInsert(w)
  <2>1. /\ keyword' = InsertChunks(keyword, d)
        /\ pc[w] = "insert" /\ pc'[w] = "hash" /\ UNCHANGED <<vectors, parents>>
    BY <1>0, <1>8 DEF PgInsert, Goto, TypeOK
  <2>2. \A r : VectorsOf(r)' = VectorsOf(r)
    BY <2>1 DEF VectorsOf
  <2>3. /\ RowsOf(keyword, d) = {} => RowsOf(keyword', d) = InsertChunks({}, d)
        /\ \A e : e.source # s => RowsOf(keyword', e) = RowsOf(keyword, e)
    BY <2>1, PostgresRows
  <2>4. \A v \in Workers : pc'[v] # "save"
    BY <1>1, <2>1 DEF ModeOK
  <2>5. Sole(d) => IntactOf(d)'
    BY <1>0, <1>1, <1>3, <2>1, <2>2, <2>3, <2>4
       DEF ProgressOf, IntactOf, PointsUpTo, VectorsOf, RowsOK, RowsOf
  <2> QED
    BY <1>4, <2>1, <2>2, <2>3, <2>5 DEF Writing
<1>9. CASE PickleLoad(w)
  <2>1. /\ loaded'[w] = keyword /\ keyword' = keyword
        /\ pc[w] = "keyword" /\ pc'[w] = "save" /\ UNCHANGED <<vectors, parents>>
    BY <1>9 DEF PickleLoad, Goto, TypeOK, storeVars
  <2>2. \A r : VectorsOf(r)' = VectorsOf(r)
    BY <2>1 DEF VectorsOf
  <2>3. Sole(d) => ProgressOf(w)'
    BY <1>0, <1>1, <1>3, <2>1, <2>2 DEF ProgressOf, PointsUpTo, VectorsOf
  <2>4. \A e : RowsOf(keyword', e) = RowsOf(keyword, e)
    BY <2>1
  <2> QED
    BY <1>4, <2>1, <2>2, <2>3, <2>4
<1>10. CASE PickleSave(w)
  <2>1. /\ keyword' = RebuildPickle(keyword, loaded[w], d)
        /\ pc[w] = "save" /\ pc'[w] = "hash" /\ UNCHANGED <<vectors, parents>>
    BY <1>0, <1>10 DEF PickleSave, Goto, TypeOK
  <2>2. \A r : VectorsOf(r)' = VectorsOf(r)
    BY <2>1 DEF VectorsOf
  <2>3. /\ HasChunks(d) => RowsOf(keyword', d) = InsertChunks({}, d)
        /\ \A e : e.source # s =>
             \/ RowsOf(keyword', e) = RowsOf(keyword, e)
             \/ RowsOf(keyword', e) = RowsOf(loaded[w], e)
    BY <2>1, PickleRows
  <2>4. ~Postgres
    BY <2>1 DEF ModeOK
  <2>5. RowsOf(keyword', d) = InsertChunks({}, d) \/ (~Postgres' /\ ~HasChunks(d))
    BY <1>2, <2>3, <2>4
  <2>6. Sole(d) => \A v \in Workers : pc'[v] # "save"
    <3> SUFFICES ASSUME Sole(d), NEW v \in Workers, pc'[v] = "save"
                 PROVE  FALSE
      OBVIOUS
    <3>1. v # w /\ pc[v] = "save"
      BY <1>1, <2>1
    <3>2. doc[w] \in mixed
      BY <1>1, <2>1, <2>4, <3>1 DEF RivalsMixed, Conflict, Writing
    <3> QED
      BY <1>0, <3>2 DEF Sole
  <2>7. Sole(d) => IntactOf(d)'
    BY <1>0, <1>1, <1>3, <2>1, <2>2, <2>5, <2>6
       DEF ProgressOf, IntactOf, PointsUpTo, VectorsOf, RowsOK, RowsOf, HasChunks, InsertChunks
  <2> QED
    BY <1>4, <2>1, <2>2, <2>3, <2>7 DEF Writing
<1> QED
  BY <1>5, <1>6, <1>7, <1>8, <1>9, <1>10 DEF WritingStep

------------------------------------------------------------------------------
(* The theorem.                                                            *)

\* A worker comes to the upserts with its first batch next.
LEMMA BatchStep == TypeOK /\ BatchFirst /\ [Next]_vars => BatchFirst'
<1> SUFFICES ASSUME TypeOK, BatchFirst, [Next]_vars
             PROVE  BatchFirst'
  OBVIOUS
<1> USE DEF BatchFirst, Goto, TypeOK
<1>1. ASSUME NEW j \in Jobs, Upload(j) \/ UploadFails(j) \/ Unstage(j)
      PROVE  BatchFirst'
  BY <1>1 DEF Upload, UploadFails, Unstage, workerVars
<1>2. ASSUME NEW w \in Workers, Deliver(w) \/ Overtake(w) \/ WorkerLost(w) \/ Ack(w)
      PROVE  BatchFirst'
  BY <1>2 DEF Deliver, Overtake, Take, WorkerLost, Ack, DropFrame
<1>3. ASSUME NEW w \in Workers, AcquireLock(w) \/ LockBusy(w) \/ LockError(w) \/ LockUnheard(w)
      PROVE  BatchFirst'
  BY <1>3 DEF AcquireLock, LockBusy, LockError, LockUnheard, AcquireRaises
<1>4. ASSUME NEW w \in Workers,
             Parse(w) \/ ParseFails(w) \/ HashFails(w) \/ StepFails(w) \/ Except(w)
      PROVE  BatchFirst'
  BY <1>4 DEF Parse, ParseFails, HashFails, StepFails, Raise, Except
<1>5. ASSUME NEW w \in Workers,
             DeleteStale(w) \/ Complete(w) \/ Report(w) \/ ReportFails(w) \/ Release(w)
      PROVE  BatchFirst'
  BY <1>5 DEF DeleteStale, BeginReplace, Complete, Report, ReportFails, Release
<1>6. ASSUME NEW w \in Workers, WritingStep(w)
      PROVE  BatchFirst'
  BY <1>6 DEF WritingStep, UpsertBatch, StoreParents, PgDelete, PgInsert, PickleLoad, PickleSave
<1>7. ASSUME NEW t \in Tenants, LockExpires(t)
      PROVE  BatchFirst'
  BY <1>7 DEF LockExpires, workerVars
<1>8. CASE UNCHANGED vars
  BY <1>8 DEF vars, workerVars
<1> HIDE DEF BatchFirst, Goto, TypeOK
<1>9. ASSUME NEW w \in Workers, TaskStep(w)
      PROVE  BatchFirst'
  BY <1>2, <1>3, <1>4, <1>5, <1>6, <1>9, Zenon DEF TaskStep, WritingStep
<1> QED
  BY <1>1, <1>2, <1>7, <1>8, <1>9, Zenon DEF Next

\* Nothing is under way and nothing is stored.
LEMMA InitStores == Init => StoresOK
<1> SUFFICES ASSUME Init
             PROVE  StoresOK
  OBVIOUS
<1>1. IInv
  BY InitInv
<1>2. done = {} /\ \A w \in Workers : pc[w] = "idle" /\ batch[w] = 1
  BY DEF Init
<1>3. Settled = {}
  BY <1>2 DEF Settled
<1>4. RunsOK /\ BatchFirst
  BY <1>2 DEF RunsOK, ModeOK, DoneOver, RivalsMixed, WriterAlone, BatchFirst, Writing, TryBlock
<1>5. Progress /\ SettledIntact
  BY <1>2, <1>3 DEF Progress, SettledIntact, Writing
<1> QED
  BY <1>1, <1>4, <1>5 DEF StoresOK

\* Every step keeps the stores as the runs account for them.
LEMMA StoresStep == StoresOK /\ [Next]_vars => StoresOK'
<1> SUFFICES ASSUME StoresOK, [Next]_vars
             PROVE  StoresOK'
  OBVIOUS
<1>1. IInv' /\ RunsOK' /\ BatchFirst'
  BY Inductive, RunsStep, BatchStep DEF StoresOK, IInv
<1>2. TypeOK /\ FrameOK
  BY DEF StoresOK, IInv
<1>3. ASSUME NEW w \in Workers, AcquireLock(w) \/ Complete(w)
      PROVE  Progress' /\ SettledIntact'
  <2>1. /\ UNCHANGED <<setting, vectors, parents, keyword, mixed, writer>>
        /\ \A v \in Workers \ {w} :
             pc'[v] = pc[v] /\ doc'[v] = doc[v] /\ batch'[v] = batch[v] /\ loaded'[v] = loaded[v]
        /\ pc'[w] \in {"parse", "release"}
        /\ \/ done' = done
           \/ pc[w] = "hash" /\ done' = done \cup {doc[w]}
    <3>1. CASE AcquireLock(w)
      <4>1. /\ UNCHANGED <<setting, vectors, parents, keyword, mixed, writer, done>>
            /\ UNCHANGED <<batch, loaded>>
            /\ pc' = [pc EXCEPT ![w] = "parse"]
        BY <3>1 DEF AcquireLock, Goto, outside, storeVars, historyVars, writeHistory
      <4>2. doc' = [doc EXCEPT ![w] = NewDoc(JobOf(w))]
        BY <3>1 DEF AcquireLock
      <4>3. /\ \A v \in Workers \ {w} : pc'[v] = pc[v]
            /\ pc'[w] = "parse"
        BY <1>2, <4>1 DEF TypeOK
      <4>4. \A v \in Workers \ {w} : doc'[v] = doc[v]
        BY <1>2, <4>2 DEF TypeOK
      <4> QED
        BY <4>1, <4>3, <4>4
    <3>2. CASE Complete(w)
      BY <1>2, <3>2 DEF Complete, Goto, TypeOK, outside, storeVars
    <3> QED
      BY <1>3, <3>1, <3>2
  <2>2. Settled' \subseteq Settled
    BY <2>1 DEF Settled
  <2> QED
    BY <2>1, <2>2, StillStores DEF Writing
<1>4. ASSUME NEW w \in Workers, DeleteStale(w)
      PROVE  Progress' /\ SettledIntact'
  BY <1>4, BeginStores
<1>5. ASSUME NEW w \in Workers, WritingStep(w)
      PROVE  Progress' /\ SettledIntact'
  BY <1>5, WritingStores
<1>6. ASSUME Quiet
      PROVE  Progress' /\ SettledIntact'
  <2>1. Settled' \subseteq Settled
    BY <1>6 DEF Quiet, Settled
  <2> QED
    BY <1>6, <2>1, StillStores DEF Quiet, storeVars
<1>7. Progress' /\ SettledIntact'
  BY <1>2, <1>3, <1>4, <1>5, <1>6, StoreSteps
<1> QED
  BY <1>1, <1>7 DEF StoresOK

\* A run of ingest_pdf that returned "completed", was alone while it wrote and
\* was the last to begin on its source has left exactly its own content in all
\* three stores, after any failures, deaths, timeouts and redeliveries, for any
\* number of workers, tenants and files and either keyword index.
THEOREM CompletedStaysIntact == Spec => []CompletedRunIntact
<1>1. StoresOK => CompletedRunIntact
  <2> SUFFICES ASSUME StoresOK, NEW d \in done, writer[d.source] = d, d \notin mixed
               PROVE  /\ {p \in vectors : p.doc.source = d.source}
                            = {[doc |-> d, batch |-> b] : b \in 1..Batches[d.file]}
                      /\ d \in parents
                      /\ \/ {k \in keyword : k.source = d.source /\ k.tenant = d.tenant}
                               = InsertChunks({}, d)
                         \/ ~Postgres /\ ~HasChunks(d)
    BY DEF CompletedRunIntact
  <2>1. d \in Settled /\ Sole(d)
    BY DEF Settled, Sole
  <2> QED
    BY <2>1 DEF StoresOK, SettledIntact, VectorsOf, PointsUpTo, RowsOK, RowsOf
<1>2. Spec => []StoresOK
  BY InitStores, StoresStep, PTL DEF Spec
<1> QED
  BY <1>1, <1>2, PTL

------------------------------------------------------------------------------
(* What is found meanwhile.                                                *)

\* Every file of the source has chunks; no runs for it overlapped; it has rows.
Chunky(s) == \A j \in Jobs : SourceOf[j] = s => Batches[j] > 0
Unmixed(s) == \A d \in mixed : d.source # s
HasRow(rows, t, s) == \E k \in rows : k.source = s /\ (Postgres => k.tenant = t)

\* The files of which FindableUnlessTorn speaks, from the moment a run settles.
Kept(t, s) ==
    /\ \E d \in Settled : d.tenant = t /\ d.source = s
    /\ Chunky(s) /\ Unmixed(s) /\ <<t, s>> \notin torn

\* Such a file has keyword rows, but for the time between the two transactions of
\* _pg_upsert; and a run that has read the pickle has read them, if it does not
\* replace them.
RowsStay ==
    \A t \in Tenants, s \in Sources : Kept(t, s) =>
        /\ \/ HasRow(keyword, t, s)
           \/ \E w \in Workers : pc[w] = "insert" /\ doc[w].tenant = t /\ doc[w].source = s
        /\ \A w \in Workers : pc[w] = "save" => HasRow(loaded[w], t, s) \/ doc[w].source = s

\* A run writes the source of its job, and is recorded as the writer of that one.
RunsNamed ==
    /\ \A w \in Workers : pc[w] \in TryBlock => doc[w].source = SourceOf[doc[w].file]
    /\ \A s \in Sources : writer[s] # None => writer[s].source = s

FindOK == StoresOK /\ RunsNamed /\ RowsStay

\* A step of a run in the middle of _pg_upsert inserts its rows, or the run is
\* still there afterwards, or it is recorded as torn.
LEMMA InsertLeft ==
    ASSUME TypeOK, [Next]_vars
    PROVE  \/ \E w \in Workers : PgInsert(w)
           \/ /\ torn \subseteq torn'
              /\ \A v \in Workers : pc[v] = "insert" =>
                   \/ pc'[v] = "insert" /\ doc'[v] = doc[v]
                   \/ <<doc[v].tenant, doc[v].source>> \in torn'
<1> DEFINE Left == /\ torn \subseteq torn'
                   /\ \A v \in Workers : pc[v] = "insert" =>
                        \/ pc'[v] = "insert" /\ doc'[v] = doc[v]
                        \/ <<doc[v].tenant, doc[v].source>> \in torn'
<1> USE DEF Goto, TypeOK, historyVars, writeHistory, outside
<1>1. ASSUME NEW j \in Jobs, Upload(j) \/ UploadFails(j) \/ Unstage(j)
      PROVE  Left
  BY <1>1 DEF Upload, UploadFails, Unstage, workerVars
<1>2. ASSUME NEW w \in Workers, Deliver(w) \/ Overtake(w) \/ WorkerLost(w) \/ Ack(w)
      PROVE  Left
  BY <1>2 DEF Deliver, Overtake, Take, WorkerLost, Ack, DropFrame, Tear
<1>3. ASSUME NEW w \in Workers, AcquireLock(w) \/ LockBusy(w) \/ LockError(w) \/ LockUnheard(w)
      PROVE  Left
  BY <1>3 DEF AcquireLock, LockBusy, LockError, LockUnheard, AcquireRaises
<1>4. ASSUME NEW w \in Workers,
             Parse(w) \/ ParseFails(w) \/ HashFails(w) \/ StepFails(w) \/ Except(w)
      PROVE  Left
  BY <1>4 DEF Parse, ParseFails, HashFails, StepFails, Raise, Except, Tear
<1>5. ASSUME NEW w \in Workers,
             DeleteStale(w) \/ Complete(w) \/ Report(w) \/ ReportFails(w) \/ Release(w)
      PROVE  Left
  BY <1>5 DEF DeleteStale, BeginReplace, Complete, Report, ReportFails, Release
<1>6. ASSUME NEW w \in Workers,
             UpsertBatch(w) \/ StoreParents(w) \/ PgDelete(w) \/ PickleLoad(w) \/ PickleSave(w)
      PROVE  Left
  BY <1>6 DEF UpsertBatch, StoreParents, PgDelete, PickleLoad, PickleSave
<1>7. ASSUME NEW t \in Tenants, LockExpires(t)
      PROVE  Left
  BY <1>7 DEF LockExpires, workerVars
<1>8. CASE UNCHANGED vars
  BY <1>8 DEF vars, workerVars
<1> HIDE DEF Left, Goto, TypeOK, historyVars, writeHistory, outside
<1>9. ASSUME NEW w \in Workers, TaskStep(w)
      PROVE  PgInsert(w) \/ Left
  BY <1>2, <1>3, <1>4, <1>5, <1>6, <1>9, Zenon DEF TaskStep
<1>10. ASSUME Next
       PROVE  (\E w \in Workers : PgInsert(w)) \/ Left
  BY <1>1, <1>2, <1>7, <1>9, <1>10, Zenon DEF Next
<1> QED
  BY <1>8, <1>10 DEF Left

\* Runs and writers go by the source of the job.
LEMMA NamedStep ==
    ASSUME IInv, RunsNamed, [Next]_vars
    PROVE  RunsNamed'
<1> USE DEF IInv, RunsNamed
<1>1. ASSUME NEW w \in Workers, AcquireLock(w)
      PROVE  RunsNamed'
  <2>1. /\ writer' = writer /\ pc' = [pc EXCEPT ![w] = "parse"]
        /\ doc' = [doc EXCEPT ![w] = NewDoc(JobOf(w))]
    BY <1>1 DEF AcquireLock, Goto, historyVars, writeHistory
  <2>2. doc'[w].source = SourceOf[doc'[w].file]
    BY <2>1 DEF NewDoc, TypeOK
  <2>3. \A v \in Workers \ {w} : pc'[v] = pc[v] /\ doc'[v] = doc[v]
    BY <2>1 DEF TypeOK
  <2> QED
    BY <2>1, <2>2, <2>3
<1>2. ASSUME NEW w \in Workers, DeleteStale(w)
      PROVE  RunsNamed'
  <2>1. /\ doc' = doc /\ pc[w] = "delete" /\ pc' = [pc EXCEPT ![w] = "upsert"]
        /\ writer' = [writer EXCEPT ![doc[w].source] = doc[w]]
    BY <1>2 DEF DeleteStale, BeginReplace, Goto
  <2> QED
    BY <2>1 DEF TypeOK, TryBlock
<1>3. ASSUME NEW w \in Workers, Complete(w)
      PROVE  RunsNamed'
  BY <1>3 DEF Complete, Goto, TypeOK, TryBlock
<1>4. ASSUME NEW w \in Workers, WritingStep(w)
      PROVE  RunsNamed'
  <2>1. UNCHANGED <<writer, doc>> /\ \A v \in Workers : pc'[v] \in TryBlock => pc[v] \in TryBlock
    BY <1>4, WritingFrame DEF Writing, TryBlock
  <2> QED
    BY <2>1
<1>5. CASE Quiet
  BY <1>5 DEF Quiet
<1> QED
  BY <1>1, <1>2, <1>3, <1>4, <1>5, StoreSteps

\* A step that leaves the keyword index alone, and no run unrecorded that had
\* taken rows out of it.
LEMMA RowsKept ==
    ASSUME RowsStay,
           UNCHANGED <<setting, keyword>>, mixed \subseteq mixed', torn \subseteq torn',
           Settled' \subseteq Settled,
           \A v \in Workers : pc[v] = "insert" =>
               \/ pc'[v] = "insert" /\ doc'[v] = doc[v]
               \/ <<doc[v].tenant, doc[v].source>> \in torn',
           \A v \in Workers : pc'[v] = "save" =>
               pc[v] = "save" /\ doc'[v] = doc[v] /\ loaded'[v] = loaded[v]
    PROVE  RowsStay'
<1> SUFFICES ASSUME NEW t \in Tenants, NEW s \in Sources, Kept(t, s)'
             PROVE  /\ \/ HasRow(keyword, t, s)'
                       \/ \E w \in Workers :
                            pc'[w] = "insert" /\ doc'[w].tenant = t /\ doc'[w].source = s
                    /\ \A w \in Workers :
                         pc'[w] = "save" => HasRow(loaded[w], t, s)' \/ doc'[w].source = s
  BY DEF RowsStay
<1>1. Kept(t, s) /\ <<t, s>> \notin torn'
  BY DEF Kept, Unmixed
<1>2. \A R : HasRow(R, t, s) => \E k \in R : k.source = s /\ (Postgres' => k.tenant = t)
  BY DEF HasRow, Postgres
<1>3. /\ HasRow(keyword, t, s) => HasRow(keyword, t, s)'
      /\ \A v \in Workers : pc'[v] = "save" =>
            (HasRow(loaded[v], t, s) => HasRow(loaded[v], t, s)')
  BY <1>2 DEF HasRow
<1> QED
  BY <1>1, <1>3 DEF RowsStay

\* The rows of a run's source go in the first transaction of _pg_upsert ...
LEMMA RowsGo ==
    ASSUME StoresOK, RowsStay, ModeOK', NEW w \in Workers, PgDelete(w)
    PROVE  RowsStay'
<1> USE DEF StoresOK, IInv
<1>1. /\ UNCHANGED <<setting, mixed, done, torn, doc>>
      /\ pc[w] = "keyword" /\ pc' = [pc EXCEPT ![w] = "insert"]
      /\ keyword' = DeleteChunksBySource(keyword, doc[w].source, doc[w].tenant)
  BY DEF PgDelete, Goto, outside, historyVars, writeHistory
<1>2. Postgres /\ Postgres' /\ pc'[w] = "insert" /\ \A v \in Workers \ {w} : pc'[v] = pc[v]
  BY <1>1 DEF PgDelete, Postgres, TypeOK
<1>3. Settled' \subseteq Settled
  BY <1>1, <1>2 DEF Settled
<1> SUFFICES ASSUME NEW t \in Tenants, NEW s \in Sources, Kept(t, s)'
             PROVE  \/ HasRow(keyword, t, s)'
                    \/ \E v \in Workers :
                         pc'[v] = "insert" /\ doc'[v].tenant = t /\ doc'[v].source = s
  BY <1>2 DEF RowsStay, ModeOK
<1>4. Kept(t, s)
  BY <1>1, <1>3 DEF Kept, Unmixed
<1>5. CASE \E v \in Workers : pc[v] = "insert" /\ doc[v].tenant = t /\ doc[v].source = s
  BY <1>1, <1>2, <1>5
<1>6. CASE HasRow(keyword, t, s)
  <2>1. PICK k \in keyword : k.source = s /\ k.tenant = t
    BY <1>2, <1>6 DEF HasRow
  <2>2. CASE k \in keyword'
    BY <2>1, <2>2 DEF HasRow
  <2>3. CASE k \notin keyword'
    <3>1. doc[w].source = s /\ doc[w].tenant = t
      BY <1>1, <2>1, <2>3 DEF DeleteChunksBySource
    <3> QED
      BY <1>1, <1>2, <3>1
  <2> QED
    BY <2>2, <2>3
<1> QED
  BY <1>4, <1>5, <1>6 DEF RowsStay

\* ... and are there again after the second.
LEMMA RowsCome ==
    ASSUME StoresOK, RunsNamed, RowsStay, ModeOK', NEW w \in Workers, PgInsert(w)
    PROVE  RowsStay'
<1> USE DEF StoresOK, IInv
<1>1. PICK d : d = doc[w]
  OBVIOUS
<1>2. /\ UNCHANGED <<setting, mixed, done, doc>>
      /\ pc[w] = "insert" /\ pc' = [pc EXCEPT ![w] = "hash"]
      /\ keyword' = InsertChunks(keyword, d)
      /\ torn' = torn \ {<<d.tenant, d.source>>}
  BY <1>1 DEF PgInsert, Goto, outside
<1>3. Postgres /\ Postgres' /\ pc'[w] = "hash" /\ \A v \in Workers \ {w} : pc'[v] = pc[v]
  BY <1>2 DEF RunsOK, ModeOK, Postgres, TypeOK
<1>4. d \in Doc /\ d.source = SourceOf[d.file] /\ d.file \in Jobs
  BY <1>1, <1>2, RunsHaveDocs DEF RunsNamed, TryBlock, Doc, Jobs
<1>5. Settled' \subseteq Settled \cup {d}
  BY <1>1, <1>2, <1>3 DEF Settled
<1>6. keyword \subseteq keyword'
  BY <1>2 DEF InsertChunks
<1> SUFFICES ASSUME NEW t \in Tenants, NEW s \in Sources, Kept(t, s)'
             PROVE  \/ HasRow(keyword, t, s)'
                    \/ \E v \in Workers :
                         pc'[v] = "insert" /\ doc'[v].tenant = t /\ doc'[v].source = s
  BY <1>3 DEF RowsStay, ModeOK
<1>7. CASE t = d.tenant /\ s = d.source
  <2>1. HasChunks(d)
    BY <1>4, <1>7 DEF Kept, Chunky, HasChunks
  <2>2. d \in keyword'
    BY <1>2, <2>1 DEF InsertChunks
  <2> QED
    BY <1>7, <2>2 DEF HasRow
<1>8. CASE ~(t = d.tenant /\ s = d.source)
  <2>1. Kept(t, s)
    BY <1>2, <1>5, <1>8 DEF Kept, Unmixed
  <2>2. CASE \E v \in Workers : pc[v] = "insert" /\ doc[v].tenant = t /\ doc[v].source = s
    BY <1>1, <1>2, <1>3, <1>8, <2>2
  <2>3. CASE HasRow(keyword, t, s)
    BY <1>3, <1>6, <2>3 DEF HasRow
  <2> QED
    BY <2>1, <2>2, <2>3 DEF RowsStay
<1> QED
  BY <1>7, <1>8

\* A run that reads the pickle reads the rows that are to stay.
LEMMA RowsRead ==
    ASSUME StoresOK, RowsStay, NEW w \in Workers, PickleLoad(w)
    PROVE  RowsStay'
<1> USE DEF StoresOK, IInv
<1>1. /\ UNCHANGED <<setting, mixed, done, doc, torn, keyword>>
      /\ pc[w] = "keyword" /\ pc' = [pc EXCEPT ![w] = "save"]
      /\ loaded' = [loaded EXCEPT ![w] = keyword]
  BY DEF PickleLoad, Goto, outside, historyVars, writeHistory, storeVars
<1>2. /\ ~Postgres /\ Postgres' = Postgres
      /\ pc'[w] = "save" /\ loaded'[w] = keyword
      /\ \A v \in Workers \ {w} : pc'[v] = pc[v] /\ loaded'[v] = loaded[v]
  BY <1>1 DEF PickleLoad, Postgres, TypeOK
<1>3. Settled' \subseteq Settled
  BY <1>1, <1>2 DEF Settled
<1> SUFFICES ASSUME NEW t \in Tenants, NEW s \in Sources, Kept(t, s)'
             PROVE  /\ HasRow(keyword, t, s)'
                    /\ \A v \in Workers :
                         pc'[v] = "save" => HasRow(loaded[v], t, s)' \/ doc'[v].source = s
  BY DEF RowsStay
<1>4. Kept(t, s)
  BY <1>1, <1>3 DEF Kept, Unmixed
<1>5. HasRow(keyword, t, s)
  BY <1>2, <1>4 DEF RowsStay, RunsOK, ModeOK
<1>6. ASSUME NEW v \in Workers, pc'[v] = "save"
      PROVE  HasRow(loaded[v], t, s)' \/ doc'[v].source = s
  <2>1. CASE v = w
    BY <1>2, <1>5, <2>1 DEF HasRow
  <2>2. CASE v # w
    BY <1>1, <1>2, <1>4, <1>6, <2>2 DEF RowsStay, HasRow
  <2> QED
    BY <2>1, <2>2
<1>7. HasRow(keyword, t, s)'
  BY <1>1, <1>2, <1>5 DEF HasRow
<1> QED
  BY <1>6, <1>7

\* A pickle that is replaced keeps the rows that were read and has the run's own;
\* another run that has read it before is recorded.
LEMMA RowsSaved ==
    ASSUME StoresOK, RunsNamed, RowsStay, NEW w \in Workers, PickleSave(w)
    PROVE  RowsStay'
<1> USE DEF StoresOK, IInv
<1>1. PICK d : d = doc[w]
  OBVIOUS
<1>2. /\ UNCHANGED <<setting, mixed, done, doc, torn>>
      /\ pc[w] = "save" /\ pc' = [pc EXCEPT ![w] = "hash"]
      /\ loaded' = [loaded EXCEPT ![w] = {}]
      /\ keyword' = RebuildPickle(keyword, loaded[w], d)
  BY <1>1 DEF PickleSave, Goto, outside, historyVars, writeHistory
<1>3. /\ ~Postgres /\ Postgres' = Postgres
      /\ pc'[w] = "hash"
      /\ \A v \in Workers \ {w} : pc'[v] = pc[v] /\ loaded'[v] = loaded[v]
  BY <1>2 DEF RunsOK, ModeOK, Postgres, TypeOK
<1>4. d \in Doc /\ d.source = SourceOf[d.file] /\ d.file \in Jobs
  BY <1>1, <1>2, RunsHaveDocs DEF RunsNamed, TryBlock, Doc, Jobs
<1>5. Settled' \subseteq Settled \cup {d}
  BY <1>1, <1>2, <1>3 DEF Settled
<1> DEFINE kept == {x \in loaded[w] : x.source # d.source}
           corpus == InsertChunks(kept, d)
<1>6. /\ corpus # {} => keyword' = corpus
      /\ kept \subseteq corpus
      /\ HasChunks(d) => d \in corpus
  BY <1>2 DEF RebuildPickle, InsertChunks
<1> HIDE DEF corpus
<1> SUFFICES ASSUME NEW t \in Tenants, NEW s \in Sources, Kept(t, s)'
             PROVE  /\ HasRow(keyword, t, s)'
                    /\ \A v \in Workers :
                         pc'[v] = "save" => HasRow(loaded[v], t, s)' \/ doc'[v].source = s
  BY DEF RowsStay
<1>7. s # d.source => Kept(t, s)
  BY <1>2, <1>5 DEF Kept, Unmixed
<1>8. \E k \in keyword' : k.source = s
  <2>1. CASE s = d.source
    <3>1. HasChunks(d)
      BY <1>4, <2>1 DEF Kept, Chunky, HasChunks
    <3> QED
      BY <1>6, <2>1, <3>1
  <2>2. CASE s # d.source
    <3>1. PICK k \in loaded[w] : k.source = s
      BY <1>1, <1>2, <1>7, <2>2 DEF RowsStay, HasRow
    <3>2. k \in kept
      BY <2>2, <3>1
    <3> QED
      BY <1>6, <3>1, <3>2
  <2> QED
    BY <2>1, <2>2
<1>9. HasRow(keyword, t, s)'
  BY <1>3, <1>8 DEF HasRow
<1>10. ASSUME NEW v \in Workers, pc'[v] = "save"
       PROVE  HasRow(loaded[v], t, s)' \/ doc'[v].source = s
  <2>1. v # w /\ pc[v] = "save"
    BY <1>3, <1>10
  <2>2. CASE s # d.source
    BY <1>2, <1>3, <1>7, <2>1, <2>2 DEF RowsStay, HasRow
  <2>3. CASE s = d.source
    <3>1. d \in mixed
      BY <1>1, <1>2, <1>3, <2>1 DEF RunsOK, RivalsMixed, Conflict, Writing
    <3> QED
      BY <1>2, <2>3, <3>1 DEF Kept, Unmixed
  <2> QED
    BY <2>2, <2>3
<1> QED
  BY <1>9, <1>10

\* Every step keeps the rows.
LEMMA FindStep == FindOK /\ [Next]_vars => FindOK'
<1> SUFFICES ASSUME FindOK, [Next]_vars
             PROVE  FindOK'
  OBVIOUS
<1> USE DEF FindOK
<1>1. StoresOK' /\ RunsNamed'
  BY StoresStep, NamedStep DEF StoresOK
<1>2. ModeOK' /\ TypeOK /\ FrameOK
  BY <1>1 DEF StoresOK, RunsOK, IInv
<1>3. ASSUME NEW w \in Workers, WritingStep(w), ~UpsertBatch(w), ~StoreParents(w)
      PROVE  RowsStay'
  BY <1>2, <1>3, RowsGo, RowsCome, RowsRead, RowsSaved DEF WritingStep
<1>4. ASSUME \A w \in Workers : ~PgInsert(w),
             UNCHANGED <<setting, keyword>>, mixed \subseteq mixed', Settled' \subseteq Settled,
             \A v \in Workers : pc'[v] = "save" =>
                 pc[v] = "save" /\ doc'[v] = doc[v] /\ loaded'[v] = loaded[v]
      PROVE  RowsStay'
  <2>1. /\ torn \subseteq torn'
        /\ \A v \in Workers : pc[v] = "insert" =>
              \/ pc'[v] = "insert" /\ doc'[v] = doc[v]
              \/ <<doc[v].tenant, doc[v].source>> \in torn'
    BY <1>2, <1>4, InsertLeft
  <2> QED
    BY <1>4, <2>1, RowsKept
<1>5. ASSUME \A w \in Workers : ~PgInsert(w),
             NEW w \in Workers,
             UpsertBatch(w) \/ StoreParents(w) \/ AcquireLock(w) \/ DeleteStale(w) \/ Complete(w)
      PROVE  RowsStay'
  <2>1. UNCHANGED <<setting, keyword>> /\ mixed \subseteq mixed'
    BY <1>5 DEF UpsertBatch, StoreParents, AcquireLock, DeleteStale, BeginReplace, Complete,
                outside, storeVars, historyVars, writeHistory
  <2>2. /\ \A v \in Workers : pc'[v] \in {"save", "hash"} =>
              pc[v] = pc'[v] /\ doc'[v] = doc[v] /\ loaded'[v] = loaded[v]
        /\ done' = done \/ (done' = done \cup {doc[w]} /\ pc[w] = "hash")
    <3>1. CASE UpsertBatch(w) \/ StoreParents(w)
      BY <1>2, <3>1 DEF UpsertBatch, StoreParents, Goto, TypeOK, historyVars, writeHistory
    <3>2. CASE AcquireLock(w)
      BY <1>2, <3>2 DEF AcquireLock, Goto, TypeOK, historyVars, writeHistory
    <3>3. CASE DeleteStale(w)
      BY <1>2, <3>3 DEF DeleteStale, BeginReplace, Goto, TypeOK
    <3>4. CASE Complete(w)
      BY <1>2, <3>4 DEF Complete, Goto, TypeOK
    <3> QED
      BY <1>5, <3>1, <3>2, <3>3, <3>4
  <2>3. Settled' \subseteq Settled
    BY <2>2 DEF Settled
  <2> QED
    BY <1>4, <1>5, <2>1, <2>2, <2>3
<1>6. ASSUME \A w \in Workers : ~PgInsert(w), Quiet
      PROVE  RowsStay'
  <2>1. /\ UNCHANGED <<setting, keyword, mixed, done>>
        /\ \A v \in Workers : pc'[v] \in {"save", "hash"} =>
              pc[v] = pc'[v] /\ doc'[v] = doc[v] /\ loaded'[v] = loaded[v]
    BY <1>6 DEF Quiet, storeVars, Writing
  <2>2. Settled' \subseteq Settled
    BY <2>1 DEF Settled
  <2> QED
    BY <1>4, <1>6, <2>1, <2>2
<1>7. ASSUME \E w \in Workers : PgInsert(w)
      PROVE  RowsStay'
  BY <1>2, <1>7, RowsCome
<1>8. ASSUME \A w \in Workers : ~PgInsert(w)
      PROVE  RowsStay'
  <2>1. ASSUME NEW w \in Workers, WritingStep(w)
        PROVE  RowsStay'
    BY <1>3, <1>5, <1>8, <2>1
  <2>2. ASSUME NEW w \in Workers, AcquireLock(w) \/ DeleteStale(w) \/ Complete(w)
        PROVE  RowsStay'
    BY <1>5, <1>8, <2>2
  <2>3. Quiet => RowsStay'
    BY <1>6, <1>8
  <2> QED
    BY <1>2, <2>1, <2>2, <2>3, StoreSteps
<1> QED
  <2>1. RowsStay'
    BY <1>7, <1>8
  <2> QED
    BY <1>1, <2>1

\* Once a run completed for a source whose files all have chunks, its tenant
\* finds the document at every moment, through every failed, killed and repeated
\* replacement and whatever other tenants do with a file of the same name, unless
\* runs for the source overlapped or one stopped inside _pg_upsert.
THEOREM StaysFindable == Spec => []FindableUnlessTorn
<1>1. Init => FindOK
  <2> SUFFICES ASSUME Init
               PROVE  RunsNamed /\ RowsStay
    BY InitStores DEF FindOK
  <2>1. /\ done = {} /\ \A w \in Workers : pc[w] = "idle"
        /\ \A s \in Sources : writer[s] = None
    BY DEF Init
  <2>2. Settled = {}
    BY <2>1 DEF Settled
  <2>3. RunsNamed
    BY <2>1 DEF RunsNamed, TryBlock
  <2>4. RowsStay
    BY <2>2 DEF RowsStay, Kept
  <2> QED
    BY <2>3, <2>4
<1>2. FindOK => FindableUnlessTorn
  <2> SUFFICES ASSUME FindOK, NEW t \in Tenants, NEW s \in Sources,
                      \E d \in done : d.tenant = t /\ d.source = s,
                      \A j \in Jobs : SourceOf[j] = s => Batches[j] > 0,
                      \A d \in mixed : d.source # s,
                      <<t, s>> \notin torn
               PROVE  Findable(t, s)
    BY DEF FindableUnlessTorn
  <2> USE DEF FindOK, StoresOK, IInv
  <2>1. Kept(t, s)
    BY DEF Kept, Settled, Chunky, Unmixed
  <2>2. CASE HasRow(keyword, t, s)
    <3>1. PICK k \in keyword : k.source = s /\ (Postgres => k.tenant = t)
      BY <2>2 DEF HasRow
    <3>2. k \in KeywordHits(Postgres, keyword, t)
      BY <3>1 DEF KeywordHits, Visible
    <3> QED
      BY <3>1, <3>2 DEF Findable, Reachable
  <2>3. ASSUME NEW w \in Workers, pc[w] = "insert", doc[w].tenant = t, doc[w].source = s
        PROVE  Findable(t, s)
    <3>1. /\ doc[w] \in Doc /\ doc[w].source = SourceOf[doc[w].file] /\ doc[w].file \in Jobs
          /\ pc[w] \in Writing
      BY <2>3, RunsHaveDocs DEF RunsNamed, TryBlock, Doc, Jobs, Writing
    <3>2. Batches[doc[w].file] > 0 /\ Batches[doc[w].file] \in Nat
      BY <2>3, <3>1, StoreAssumption DEF Jobs
    <3>3. writer[s] = doc[w] \/ writer[s] \in mixed
      BY <2>3, <3>1 DEF RunsOK, WriterAlone
    <3>4. writer[s] \notin mixed
      <4>1. writer[s] \in mixed => writer[s] # None
        BY JobsAssumption DEF TypeOK
      <4> QED
        BY <4>1 DEF RunsNamed
    <3>5. Sole(doc[w])
      BY <2>3, <3>3, <3>4 DEF Sole
    <3>6. /\ VectorsOf(s) = PointsUpTo(doc[w], Batches[doc[w].file])
          /\ doc[w] \in parents
      BY <2>3, <3>1, <3>5 DEF Progress
    <3>7. [doc |-> doc[w], batch |-> 1] \in vectors
      <4>1. [doc |-> doc[w], batch |-> 1] \in PointsUpTo(doc[w], Batches[doc[w].file])
        BY <3>2 DEF PointsUpTo
      <4> QED
        BY <3>6, <4>1 DEF VectorsOf
    <3>8. doc[w] \in DenseHits(Postgres, vectors, parents, t)
      <4> DEFINE p == [doc |-> doc[w], batch |-> 1]
      <4>1. p \in {q \in vectors : Resolves(Postgres, parents, t, q.doc)} /\ p.doc = doc[w]
        BY <2>3, <3>6, <3>7 DEF Resolves, Visible
      <4> HIDE DEF p
      <4> QED
        BY <4>1 DEF DenseHits
    <3> QED
      BY <2>3, <3>8 DEF Findable, Reachable
  <2> QED
    BY <2>1, <2>2, <2>3 DEF RowsStay
<1>3. Spec => []FindOK
  BY <1>1, FindStep, PTL DEF Spec
<1> QED
  BY <1>2, <1>3, PTL

=================================================================================
