------------------------------ MODULE IngestTask ------------------------------
(***************************************************************************)
(* The Celery task ingest_pdf (src/src/ingestion/tasks.py): worker         *)
(* processes take upload jobs from the broker, serialise on a Redis lock   *)
(* per tenant, and replace the document in Qdrant, in the parent store and *)
(* in the keyword index, one store call at a time.                         *)
(*                                                                         *)
(* Every store call is a step of its own, so workers interleave between    *)
(* any two of them, a call may raise (StepFails), the process may die      *)
(* (WorkerLost), the lock may reach its 600 s timeout (LockExpires) while  *)
(* its holder is still running or after it is gone, and the broker, the    *)
(* result backend and the Redis of the lock may fail, or act and not be    *)
(* heard.                                                                  *)
(*                                                                         *)
(* The broker is Celery's on Redis, with task_acks_late and                *)
(* task_reject_on_worker_lost: a message is dropped after the task's       *)
(* result is stored, and put back when its worker dies before that.        *)
(***************************************************************************)
EXTENDS CorpusStore, FiniteSets

CONSTANTS
    Settings,   \* the ways the system may be deployed, and what is uploaded to it
    Workers,    \* worker processes
    TenantOf,   \* the uploading tenant of a job
    SourceOf,   \* its source_name
    Readable,   \* jobs whose staged file parses to a page or more
    MaxRetries, \* max_retries of the task (3 in the code)
    MaxFaults,  \* bound on the faults of a behaviour (see Fault)
    None        \* no lock token, no message, no run

\* POST /documents/upload stages every upload in a file of its own and enqueues
\* one job for it.
Jobs == Files

VARIABLES
    setting,    \* whether DATABASE_URL is set, and the jobs of this behaviour
    staged,     \* staged[j]: what has become of the staged file of job j
    queue,      \* messages at the broker, not yet delivered
    published,  \* published[j]: messages published so far for job j
    status,     \* status[j]: the job's state in the result backend
    lock,       \* lock[t]: the token in ingest_lock_<t>
    pc,         \* pc[w]: the next step of worker w
    msg,        \* msg[w]: the message w works on and has not acknowledged
    doc,        \* doc[w]: what this run of w writes; also its lock token
    batch,      \* batch[w]: the next batch of vectors to upsert
    loaded,     \* loaded[w]: the pickle as w read it
    outcome,    \* outcome[w]: how the task function returned
    serial,     \* serial[j]: runs of job j that got the lock
    vectors, parents, keyword,
    faults,     \* faults so far
    (* History, read by the properties alone. *)
    lapsed,     \* runs whose lock timed out before they released it
    mixed,      \* runs that wrote while another one in conflict was writing
    writer,     \* writer[s]: the last run to begin replacing source s
    done,       \* runs that returned "completed"
    torn,       \* <<tenant, source>> left between the two commits of _pg_upsert
    lost        \* jobs whose retry or whose final state went missing

outside     == <<setting, staged>>
brokerVars  == <<queue, published, status>>
workerVars  == <<pc, msg, doc, batch, loaded, outcome>>
storeVars   == <<vectors, parents, keyword>>
writeHistory == <<lapsed, mixed, writer, done, torn>>
historyVars == <<writeHistory, lost>>
vars == <<outside, brokerVars, lock, workerVars, serial, storeVars, faults, historyVars>>

Postgres == setting.postgres

\* Without DATABASE_URL there are no accounts: every upload is of one tenant.
ASSUME JobsAssumption ==
    /\ Settings \subseteq [postgres : BOOLEAN, jobs : SUBSET Jobs]
    /\ \A c \in Settings : c.postgres \/ \A i, j \in c.jobs : TenantOf[i] = TenantOf[j]
    /\ TenantOf \in [Jobs -> Tenants]
    /\ SourceOf \in [Jobs -> Sources]
    /\ Readable \subseteq Jobs
    /\ MaxRetries \in Nat
    /\ MaxFaults \in Nat
    /\ None \notin Doc

Message == [job : Jobs, retries : 0..MaxRetries, id : Nat]

Outcomes == {"none", "SUCCESS", "RETRY", "REJECTED", "FAILURE", "EXHAUSTED"}

\* The steps inside the try block: the run owns, or owned, the lock.
TryBlock == {"parse", "delete", "upsert", "keyword", "insert", "save", "hash"}

\* The steps of a run that has begun to change the stores and is not done.
Writing == {"upsert", "keyword", "insert", "save"}

\* From acquire to the release in the finally block.
Locked(w) == pc[w] \in TryBlock \cup {"except", "release"}

TypeOK ==
    /\ setting \in Settings
    /\ staged \in [Jobs -> {"none", "kept", "doomed", "gone"}]
    /\ queue \subseteq Message
    /\ published \in [Jobs -> Nat]
    /\ status \in [Jobs -> Outcomes \cup {"PENDING"}]
    /\ lock \in [Tenants -> Doc \cup {None}]
    /\ pc \in [Workers -> TryBlock \cup {"idle", "acquire", "except", "release", "report", "ack"}]
    /\ msg \in [Workers -> Message \cup {None}]
    /\ doc \in [Workers -> Doc \cup {None}]
    /\ batch \in [Workers -> Nat \ {0}]
    /\ loaded \in [Workers -> SUBSET Doc]
    /\ outcome \in [Workers -> Outcomes]
    /\ serial \in [Jobs -> Nat]
    /\ vectors \subseteq Point
    /\ parents \subseteq Doc
    /\ keyword \subseteq Doc
    /\ faults \in 0..MaxFaults
    /\ lapsed \subseteq Doc
    /\ mixed \subseteq Doc
    /\ writer \in [Sources -> Doc \cup {None}]
    /\ done \subseteq Doc
    /\ torn \subseteq Tenants \X Sources
    /\ lost \subseteq Jobs

Init ==
    /\ setting \in Settings
    /\ staged = [j \in Jobs |-> "none"]
    /\ queue = {}
    /\ published = [j \in Jobs |-> 0]
    /\ status = [j \in Jobs |-> "none"]
    /\ lock = [t \in Tenants |-> None]
    /\ pc = [w \in Workers |-> "idle"]
    /\ msg = [w \in Workers |-> None]
    /\ doc = [w \in Workers |-> None]
    /\ batch = [w \in Workers |-> 1]
    /\ loaded = [w \in Workers |-> {}]
    /\ outcome = [w \in Workers |-> "none"]
    /\ serial = [j \in Jobs |-> 0]
    /\ vectors = {}
    /\ parents = {}
    /\ keyword = {}
    /\ faults = 0
    /\ lapsed = {}
    /\ mixed = {}
    /\ writer = [s \in Sources |-> None]
    /\ done = {}
    /\ torn = {}
    /\ lost = {}

\* One more thing goes wrong: a call that raises, a process that dies, a lock
\* that times out under a live run.  The budget only keeps instances small.
Fault == faults < MaxFaults /\ faults' = faults + 1

Goto(w, label) == pc' = [pc EXCEPT ![w] = label]

\* The task call is over: its locals are gone.
DropFrame(w) ==
    /\ msg' = [msg EXCEPT ![w] = None]
    /\ doc' = [doc EXCEPT ![w] = None]
    /\ batch' = [batch EXCEPT ![w] = 1]
    /\ loaded' = [loaded EXCEPT ![w] = {}]
    /\ outcome' = [outcome EXCEPT ![w] = "none"]
    /\ Goto(w, "idle")

JobOf(w) == msg[w].job

------------------------------------------------------------------------------
(* The broker and the result backend.                                      *)

Publish(j, r) ==
    /\ queue' = queue \cup {[job |-> j, retries |-> r, id |-> published[j] + 1]}
    /\ published' = [published EXCEPT ![j] = @ + 1]

\* POST /documents/upload: stage the file and enqueue the task.
Upload(j) ==
    /\ j \in setting.jobs /\ staged[j] = "none"
    /\ staged' = [staged EXCEPT ![j] = "kept"]
    /\ Publish(j, 0)
    /\ status' = [status EXCEPT ![j] = "PENDING"]
    /\ UNCHANGED <<setting, lock, workerVars, serial, storeVars, faults, historyVars>>

\* ingest_pdf.delay raises, and the broker has the message or not: the staged
\* file is about to go.
UploadFails(j) ==
    /\ j \in setting.jobs /\ staged[j] = "none"
    /\ Fault
    /\ staged' = [staged EXCEPT ![j] = "doomed"]
    /\ \/ Publish(j, 0) /\ status' = [status EXCEPT ![j] = "PENDING"]
       \/ UNCHANGED brokerVars
    /\ UNCHANGED <<setting, lock, workerVars, serial, storeVars, historyVars>>

\* os.unlink(tmp_path), and the upload is answered 503.
Unstage(j) ==
    /\ staged[j] = "doomed"
    /\ staged' = [staged EXCEPT ![j] = "gone"]
    /\ UNCHANGED <<setting, brokerVars, lock, workerVars, serial, storeVars, faults,
                   historyVars>>

\* A retry is published with a 30 s countdown, and the attempt that asked for it
\* has only its lock to release and its state to store: that is over first ...
CountdownOver(m) ==
    \A v \in Workers :
        /\ pc[v] \in {"release", "report"}
        /\ outcome[v] \in {"RETRY", "REJECTED"} /\ JobOf(v) = m.job
        => m.retries # msg[v].retries + 1

Take(w, m) ==
    /\ pc[w] = "idle" /\ m \in queue
    /\ queue' = queue \ {m}
    /\ msg' = [msg EXCEPT ![w] = m]
    /\ Goto(w, "acquire")
    /\ UNCHANGED <<outside, published, status, lock, doc, batch, loaded, outcome,
                   serial, storeVars, writeHistory>>

Deliver(w) ==
    /\ \E m \in queue : CountdownOver(m) /\ Take(w, m)
    /\ UNCHANGED <<faults, lost>>

\* ... unless that worker stalls as long: the next attempt then starts beside it,
\* and its RETRY may be stored over the state of the next one.
Overtake(w) ==
    \E m \in queue :
        /\ ~CountdownOver(m) /\ Take(w, m)
        /\ Fault
        /\ lost' = lost \cup {m.job}

\* The state of an attempt goes to the backend, which ignores one that arrives
\* after SUCCESS; an attempt that raised Reject has none.
Report(w) ==
    /\ pc[w] = "report"
    /\ status' = [status EXCEPT ![JobOf(w)] =
                    IF @ = "SUCCESS" \/ outcome[w] = "REJECTED" THEN @ ELSE outcome[w]]
    /\ Goto(w, "ack")
    /\ UNCHANGED <<outside, queue, published, lock, msg, doc, batch, loaded, outcome,
                   serial, storeVars, faults, historyVars>>

\* The backend does not take the state; the message is acknowledged all the same.
ReportFails(w) ==
    /\ pc[w] = "report" /\ outcome[w] # "REJECTED"
    /\ Fault
    /\ lost' = IF outcome[w] = "RETRY" THEN lost ELSE lost \cup {JobOf(w)}
    /\ Goto(w, "ack")
    /\ UNCHANGED <<outside, brokerVars, lock, msg, doc, batch, loaded, outcome,
                   serial, storeVars, writeHistory>>

Ack(w) ==
    /\ pc[w] = "ack"
    /\ DropFrame(w)
    /\ UNCHANGED <<outside, brokerVars, lock, serial, storeVars, faults, historyVars>>

MayRetryOnceMore(r) == r <= MaxRetries  \* mutant

MayRetry(r) == r < MaxRetries

\* self.retry with retries left: publish the next attempt.
RetryPublished(w) ==
    /\ MayRetry(msg[w].retries)
    /\ Publish(JobOf(w), msg[w].retries + 1)
    /\ outcome' = [outcome EXCEPT ![w] = "RETRY"]
    /\ UNCHANGED <<faults, lost>>

\* apply_async raises there: self.retry raises Reject without requeue, whether
\* the broker has the retry or not.
RetryRejected(w) ==
    /\ MayRetry(msg[w].retries)
    /\ Fault
    /\ \/ Publish(JobOf(w), msg[w].retries + 1) /\ UNCHANGED lost
       \/ UNCHANGED <<queue, published>> /\ lost' = lost \cup {JobOf(w)}
    /\ outcome' = [outcome EXCEPT ![w] = "REJECTED"]

\* No retries left: the attempt ends with state `last'.
GiveUp(w, last) ==
    /\ ~MayRetry(msg[w].retries)
    /\ outcome' = [outcome EXCEPT ![w] = last]
    /\ UNCHANGED <<queue, published, faults, lost>>

Retry(w, last) == RetryPublished(w) \/ RetryRejected(w) \/ GiveUp(w, last)

------------------------------------------------------------------------------
(* The tenant lock.                                                        *)

NewDoc(j) == [tenant |-> TenantOf[j], source |-> SourceOf[j],
              file |-> j, serial |-> serial[j] + 1]

\* Redis sets the key for a run of job j.
SetLock(j) ==
    /\ lock[TenantOf[j]] = None
    /\ lock' = [lock EXCEPT ![TenantOf[j]] = NewDoc(j)]
    /\ serial' = [serial EXCEPT ![j] = @ + 1]

AcquireLock(w) ==
    /\ pc[w] = "acquire"
    /\ SetLock(JobOf(w))
    /\ doc' = [doc EXCEPT ![w] = NewDoc(JobOf(w))]
    /\ Goto(w, "parse")
    /\ UNCHANGED <<outside, brokerVars, msg, batch, loaded, outcome, storeVars,
                   faults, historyVars>>

\* Mutant: the attempt reports RETRY and publishes nothing.
LockBusyUnpublished(w) ==
    /\ pc[w] = "acquire"
    /\ lock[TenantOf[JobOf(w)]] # None
    /\ outcome' = [outcome EXCEPT ![w] = "RETRY"]
    /\ Goto(w, "report")
    /\ UNCHANGED <<outside, brokerVars, lock, msg, doc, batch, loaded, serial,
                   storeVars, faults, historyVars>>

\* A busy lock costs one of the job's retries; the last one raises
\* MaxRetriesExceededError, the state EXHAUSTED here (FAILURE in the backend).
LockBusy(w) ==
    /\ pc[w] = "acquire"
    /\ lock[TenantOf[JobOf(w)]] # None
    /\ Retry(w, "EXHAUSTED")
    /\ Goto(w, "report")
    /\ UNCHANGED <<outside, status, lock, msg, doc, batch, loaded, serial, storeVars,
                   writeHistory>>

\* lock.acquire is called before the try: if it raises, nothing retries.
AcquireRaises(w) ==
    /\ outcome' = [outcome EXCEPT ![w] = "FAILURE"]
    /\ Goto(w, "report")

LockError(w) ==
    /\ pc[w] = "acquire"
    /\ Fault
    /\ AcquireRaises(w)
    /\ UNCHANGED <<outside, brokerVars, lock, msg, doc, batch, loaded, serial,
                   storeVars, historyVars>>

\* Redis sets the key and the answer is lost: no run owns it.  The call raises,
\* or the client sends it again, and finds the key set.
LockUnheard(w) ==
    /\ pc[w] = "acquire"
    /\ Fault
    /\ SetLock(JobOf(w))
    /\ AcquireRaises(w) \/ UNCHANGED <<pc, outcome>>
    /\ UNCHANGED <<outside, brokerVars, msg, doc, batch, loaded, storeVars,
                   historyVars>>

\* Mutant: the key is deleted without a look at its token.
UnlockAnyone(t, d) == lock' = [lock EXCEPT ![t] = None]

\* lock.release deletes the key only while it still holds this run's token.
Unlock(t, d) == lock' = [lock EXCEPT ![t] = IF @ = d THEN None ELSE @]

\* The finally block: an error of release is swallowed, the lock then stays.
Release(w) ==
    /\ pc[w] = "release"
    /\ \/ Unlock(doc[w].tenant, doc[w]) /\ UNCHANGED faults
       \/ UNCHANGED lock /\ Fault
    /\ Goto(w, "report")
    /\ UNCHANGED <<outside, brokerVars, msg, doc, batch, loaded, outcome, serial,
                   storeVars, historyVars>>

\* timeout=600: Redis drops the key, whoever holds it.
LockExpires(t) ==
    /\ lock[t] # None
    /\ lock' = [lock EXCEPT ![t] = None]
    /\ IF \E w \in Workers : Locked(w) /\ doc[w] = lock[t]
       THEN Fault /\ lapsed' = lapsed \cup {lock[t]}
       ELSE UNCHANGED <<faults, lapsed>>
    /\ UNCHANGED <<outside, brokerVars, workerVars, serial, storeVars, mixed, writer,
                   done, torn, lost>>

------------------------------------------------------------------------------
(* The try block.                                                          *)

\* Can the staged file of the run be opened?
Staged(w) == staged[JobOf(w)] # "gone"

Parse(w) ==
    /\ pc[w] = "parse"
    /\ Staged(w) /\ JobOf(w) \in Readable
    /\ Goto(w, "delete")
    /\ UNCHANGED <<outside, brokerVars, lock, msg, doc, batch, loaded, outcome,
                   serial, storeVars, faults, historyVars>>

\* Runs whose writes can be confused: the same source in Qdrant, and in
\* pickle mode any two, since each rewrites the whole file.
Conflict(d, e) == d.source = e.source \/ ~Postgres

Rivals(w) ==
    {doc[v] : v \in {u \in Workers \ {w} : pc[u] \in Writing /\ Conflict(doc[u], doc[w])}}

BeginReplace(w) ==
    /\ pc[w] = "delete"
    /\ Goto(w, "upsert")
    /\ writer' = [writer EXCEPT ![doc[w].source] = doc[w]]
    /\ mixed' = IF Rivals(w) = {} THEN mixed ELSE mixed \cup Rivals(w) \cup {doc[w]}
    /\ UNCHANGED <<outside, brokerVars, lock, msg, doc, batch, loaded, outcome,
                   serial, parents, faults, lapsed, done, torn, lost>>

\* Mutant: a retry trusts the attempt before it to have cleaned up.
DeleteStaleOnFirstTry(w) ==
    /\ BeginReplace(w)
    /\ vectors' = IF msg[w].retries = 0 THEN DeleteSource(vectors, doc[w].source)
                                       ELSE vectors
    /\ UNCHANGED keyword

\* Mutant: the keyword rows go with the vectors, before anything new is there.
DeleteStaleEverywhere(w) ==
    /\ BeginReplace(w)
    /\ vectors' = DeleteSource(vectors, doc[w].source)
    /\ keyword' = DeleteChunksBySource(keyword, doc[w].source, doc[w].tenant)

\* delete_source(name).
DeleteStale(w) ==
    /\ BeginReplace(w)
    /\ vectors' = DeleteSource(vectors, doc[w].source)
    /\ UNCHANGED keyword

\* retriever.add_documents, first half: one upsert call to Qdrant per batch.
UpsertBatch(w) ==
    /\ pc[w] = "upsert"
    /\ batch[w] <= Batches[doc[w].file]
    /\ vectors' = Upsert(vectors, doc[w], batch[w])
    /\ batch' = [batch EXCEPT ![w] = @ + 1]
    /\ UNCHANGED <<outside, brokerVars, lock, pc, msg, doc, loaded, outcome, serial,
                   parents, keyword, faults, historyVars>>

\* retriever.add_documents, second half: docstore.mset.
StoreParents(w) ==
    /\ pc[w] = "upsert"
    /\ batch[w] > Batches[doc[w].file]
    /\ parents' = MSet(parents, doc[w])
    /\ Goto(w, "keyword")
    /\ UNCHANGED <<outside, brokerVars, lock, msg, doc, batch, loaded, outcome,
                   serial, vectors, keyword, faults, historyVars>>

\* _pg_upsert, first transaction.
PgDelete(w) ==
    /\ pc[w] = "keyword" /\ Postgres
    /\ keyword' = DeleteChunksBySource(keyword, doc[w].source, doc[w].tenant)
    /\ Goto(w, "insert")
    /\ UNCHANGED <<outside, brokerVars, lock, msg, doc, batch, loaded, outcome,
                   serial, vectors, parents, faults, historyVars>>

\* _pg_upsert, second transaction.
PgInsert(w) ==
    /\ pc[w] = "insert"
    /\ keyword' = InsertChunks(keyword, doc[w])
    /\ torn' = torn \ {<<doc[w].tenant, doc[w].source>>}
    /\ Goto(w, "hash")
    /\ UNCHANGED <<outside, brokerVars, lock, msg, doc, batch, loaded, outcome,
                   serial, vectors, parents, faults, lapsed, mixed, writer, done,
                   lost>>

\* _rebuild_bm25_pickle reads the file ...
PickleLoad(w) ==
    /\ pc[w] = "keyword" /\ ~Postgres
    /\ loaded' = [loaded EXCEPT ![w] = keyword]
    /\ Goto(w, "save")
    /\ UNCHANGED <<outside, brokerVars, lock, msg, doc, batch, outcome, serial,
                   storeVars, faults, historyVars>>

\* ... and later replaces it.
PickleSave(w) ==
    /\ pc[w] = "save"
    /\ keyword' = RebuildPickle(keyword, loaded[w], doc[w])
    /\ loaded' = [loaded EXCEPT ![w] = {}]
    /\ Goto(w, "hash")
    /\ UNCHANGED <<outside, brokerVars, lock, msg, doc, batch, outcome, serial,
                   vectors, parents, faults, historyVars>>

\* _file_hash for the result, then the "completed" summary is returned.
Complete(w) ==
    /\ pc[w] = "hash" /\ Staged(w)
    /\ outcome' = [outcome EXCEPT ![w] = "SUCCESS"]
    /\ done' = done \cup {doc[w]}
    /\ Goto(w, "release")
    /\ UNCHANGED <<outside, brokerVars, lock, msg, doc, batch, loaded, serial,
                   storeVars, faults, lapsed, mixed, writer, torn, lost>>

\* A run that stops where the old keyword rows are gone and the new ones are
\* not there yet.
Tear(w) ==
    torn' = IF pc[w] = "insert" THEN torn \cup {<<doc[w].tenant, doc[w].source>>}
                                ELSE torn

\* A call of the try block raises.
Raise(w) ==
    /\ Goto(w, "except")
    /\ Tear(w)
    /\ loaded' = [loaded EXCEPT ![w] = {}]
    /\ UNCHANGED <<outside, brokerVars, lock, msg, doc, batch, outcome, serial,
                   storeVars, lapsed, mixed, writer, done, lost>>

\* The except block: the task asks to be retried, and the finally block follows.
Except(w) ==
    /\ pc[w] = "except"
    /\ Retry(w, "FAILURE")
    /\ Goto(w, "release")
    /\ UNCHANGED <<outside, status, lock, msg, doc, batch, loaded, serial, storeVars,
                   writeHistory>>

\* No such file, or no page in it.
ParseFails(w) ==
    /\ pc[w] = "parse"
    /\ ~Staged(w) \/ JobOf(w) \notin Readable
    /\ Raise(w)
    /\ UNCHANGED faults

\* The file was removed after it had been parsed: all is stored, and the run fails.
HashFails(w) ==
    /\ pc[w] = "hash" /\ ~Staged(w)
    /\ Raise(w)
    /\ UNCHANGED faults

\* Any other call of the try block raises (a store that does not answer).
StepFails(w) ==
    /\ pc[w] \in TryBlock
    /\ Fault
    /\ Raise(w)

\* The worker process dies: the broker gets the message back, the lock stays.
WorkerLost(w) ==
    /\ pc[w] # "idle"
    /\ Fault
    /\ queue' = queue \cup {msg[w]}
    /\ DropFrame(w)
    /\ Tear(w)
    /\ UNCHANGED <<outside, published, status, lock, serial, storeVars, lapsed, mixed,
                   writer, done, lost>>

------------------------------------------------------------------------------
TaskStep(w) ==
    \/ AcquireLock(w) \/ LockBusy(w) \/ LockError(w) \/ LockUnheard(w)
    \/ Parse(w) \/ DeleteStale(w) \/ UpsertBatch(w) \/ StoreParents(w)
    \/ PgDelete(w) \/ PgInsert(w) \/ PickleLoad(w) \/ PickleSave(w)
    \/ Complete(w) \/ ParseFails(w) \/ HashFails(w) \/ StepFails(w)
    \/ Except(w) \/ Release(w) \/ Report(w) \/ ReportFails(w) \/ Ack(w)

Next ==
    \/ \E j \in Jobs : Upload(j) \/ UploadFails(j) \/ Unstage(j)
    \/ \E w \in Workers : Deliver(w) \/ Overtake(w) \/ TaskStep(w) \/ WorkerLost(w)
    \/ \E t \in Tenants : LockExpires(t)

Spec == Init /\ [][Next]_vars

\* A live worker keeps running its task and keeps polling the broker.
Fairness == \A w \in Workers : WF_vars(Deliver(w)) /\ WF_vars(TaskStep(w))

FairSpec == Spec /\ Fairness

------------------------------------------------------------------------------
(* Properties.                                                             *)

\* Two workers are inside the critical section of one tenant (tasks.py, from
\* acquire to release) only when the lock of one of them reached its timeout:
\* neither a release by a late owner nor a crash lets a second run in.
ExclusiveUnlessLapsed ==
    \A v, w \in Workers :
        v # w /\ Locked(v) /\ Locked(w) /\ doc[v].tenant = doc[w].tenant
        => doc[v] \in lapsed \/ doc[w] \in lapsed

\* A run that returned "completed", wrote alone and was the last to touch its
\* source left exactly its own content behind: all its vectors and no others
\* of the source, its parents, and its keyword rows and no others of its
\* tenant's source, whatever earlier runs failed or died half way.  (In pickle
\* mode a file without chunks may leave the old keyword rows: build_index.)
CompletedRunIntact ==
    \A d \in done :
        writer[d.source] = d /\ d \notin mixed
        => /\ {p \in vectors : p.doc.source = d.source}
                 = {[doc |-> d, batch |-> b] : b \in 1..Batches[d.file]}
           /\ d \in parents
           /\ \/ {k \in keyword : k.source = d.source /\ k.tenant = d.tenant}
                    = InsertChunks({}, d)
              \/ ~Postgres /\ ~HasChunks(d)

\* Some retriever of tenant t still finds a document of source s.
Findable(t, s) ==
    \E d \in Reachable(Postgres, vectors, parents, keyword, t) : d.source = s

\* Once a run completed for a source, the tenant finds the document in at least
\* one index at every moment of every later replacement, failed or not, also
\* while another tenant replaces a file of the same name, as long as no run
\* stopped between the two transactions of _pg_upsert and no two runs for the
\* source overlapped.  The order of the store calls in ingest_pdf is what
\* carries it: vectors and parents are complete before the old rows go.
FindableUnlessTorn ==
    \A t \in Tenants, s \in Sources :
        /\ \E d \in done : d.tenant = t /\ d.source = s
        /\ \A j \in Jobs : SourceOf[j] = s => Batches[j] > 0
        /\ \A d \in mixed : d.source # s
        /\ <<t, s>> \notin torn
        => Findable(t, s)

\* A point leaves Qdrant only on behalf of the tenant it belongs to.
\* vector_store.py says the docstore scoping isolates tenants in the shared
\* collection, and PROJECT_COMPLETE_GUIDE.md that every ingest operation uses
\* the tenant; delete_source filters by file name alone.
VectorsRemovedByOwner ==
    [][\A p \in vectors \ vectors' :
         \E w \in Workers :
            pc[w] = "delete" /\ pc'[w] = "upsert" /\ doc[w].tenant = p.doc.tenant]_vars

\* A job that used up its retries had at least one attempt at its file.
\* tasks.py: "Retry failed tasks up to 3 times"; waiting for the lock of a run
\* that may take 600 s spends the same three retries, 30 s apart.
BusyJobsAreTried ==
    \A j \in Jobs : status[j] = "EXHAUSTED" => serial[j] > 0

\* Every accepted upload comes to rest as a success or a failure, whatever
\* fails, dies or times out on the way and however often it is delivered,
\* unless its retry did not reach the broker, its final state did not reach the
\* backend, or an attempt stalled until the next one had started.
JobsSettle ==
    \A j \in Jobs :
        <>[](status[j] \in {"none", "SUCCESS", "FAILURE", "EXHAUSTED"} \/ j \in lost)

==============================================================================
