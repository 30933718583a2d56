# A verification development for finance-rag

This directory models finance-rag, a multi-tenant question answering service over
uploaded PDF documents, in TLA+. The modules are checked on small instances with TLC,
and theorems about them are proved with TLAPS for every value of the constants.
Paths are relative to the directory that holds `src/` (the repository) and `tla/`.

Run from this directory, for instance

    tlc -workers 2 -config IngestCrashes.cfg MCIngestTask.tla
    tlapm IngestTaskProofs.tla

## 1. The system

A FastAPI process answers questions about a tenant's documents and takes uploads; Celery
workers ingest the uploads; a command-line script ingests a directory. They share three
kinds of stores: Qdrant (vectors of the child chunks), a parent store (Postgres or
pickled files) and a keyword index (Postgres full text or a BM25 pickle). Redis carries
the job queue, the job results, the ingestion locks, the rate-limit counters and the
semantic cache.

| component | code (`src/src/...` unless noted) | state it keeps | operations |
|---|---|---|---|
| Upload route | `api/routes.py:158-207` | staged files | stage a PDF, queue `ingest_pdf`, take the file away when queuing fails |
| Ingestion worker | `ingestion/tasks.py` | message being worked on; lock `ingest_lock_<tenant>` | lock, parse, replace the file in all stores, retry, redeliver after a dead worker |
| Ingestion command | `src/scripts/ingest.py` | manifest (file name -> content hash) | reset, walk the corpus, skip or replace each file, write the keyword index at the end |
| Corpus stores | `retrieval/vector_store.py`, `retrieval/storage.py`, `retrieval/bm25.py`, `db/postgres_store.py`, `db/pg_bm25.py` | points, parents, keyword rows | delete by source, upsert, mset, search |
| Hybrid search | `retrieval/hybrid_search.py` | retrievers, one per process and tenant | fuse vector and keyword hits |
| Reranking and relevance | `llm/reranker.py`, `core/rag_pipeline.py:350-505` | none | resolve parents, deduplicate, order by file name, cut, rerank, keep what is relevant |
| RAG pipeline | `core/rag_pipeline.py` | prompt settings captured when assembled | `run`, `stream` |
| Guards | `core/query_guard.py`, `core/faithfulness_guard.py` | none | block a question, judge an answer |
| Semantic cache | `cache/semantic_cache.py` | `_index_ready` per process; index and entries in Redis | `get`, `set`, `_ensure_index` |
| SSE bridge | `api/routes.py:114-150` | an `asyncio.Queue` per stream | hand events from a thread to the event loop |
| Gateway | `api/deps.py`, `api/jwt_auth.py`, `api/ratelimit.py` | counters per identity and window in Redis; a limiter cached per process | authorize, limit |
| Accounts | `db/tenant_store.py`, `db/user_store.py`, `src/scripts/manage_tenants.py`, admin routes | tenants, users, key hashes | register, sign up, log in, rotate a key, deactivate |
| Prompt building | `core/prompt_builder.py`, `core/prompt_loader.py` | prompt packs | compose the system prompt, scope the cache |
| Parsing | `ingestion/deepdoc_loader.py`, `ingestion/chunker.py` | none | PDF to parents and child chunks |
| Health, settings, observability, model factories, frontend, evaluation | remaining files | none that other parts depend on | |

### How they interact

* Upload -> broker -> worker: a message per upload. `acks_late` and
  `reject_on_worker_lost` mean that a message outlives the worker that held it.
* Worker <-> worker: a Redis lock per tenant with a timeout of 600 s; and, although the
  lock is per tenant, the shared Qdrant collection, which `delete_source` filters by file
  name alone, and the BM25 pickle, which is one file for everyone.
* Worker <-> command: over the same stores, and without a database over the same pickle;
  the command takes no lock.
* Upload route -> worker: besides the message, the staged file, which the route removes
  again when the broker's answer does not come, whether the broker has the message or not.
* Worker/command -> API: through the stores only. Nothing invalidates the cache.
* Request -> cache -> request: an answer written by one request is replayed to others.
* Accounts -> gateway: through the rows of `tenants` and `users`, which `authorize` reads
  on every request; nothing is cached, and no function's transaction spans another's.
* Pipeline thread -> event loop: an `asyncio.Queue` used from two threads.

### What is hard about it, and what makes each part correct

* Ingestion is replacing: the old version goes, the new one comes, in three stores that
  share no transaction. *Correct* means that a completed run leaves exactly its own
  content whatever failed before it, that the document stays findable meanwhile, that two
  runs of one tenant never interleave unless a lock timed out, and that every job settles
  unless its retry or its state goes missing at the broker or the backend.
* The command remembers progress on disk and keyword chunks in memory. *Correct* means
  that a manifest entry is a true promise (the next run skips the file because of it), that
  repeated runs never duplicate keyword rows, and that `--reset` rebuilds everything. The
  first holds with exceptions only, which section 3 names.
* Answers are cached before anybody reads them and the guard speaks after the tokens of
  a stream. *Correct* means that only answers the guard did not reject are replayed, that
  a lost Redis index heals, and that entries stay with their tenant and prompt version.
* A stream crosses threads. *Correct* means no event lost, doubled or reordered, the order
  `sources token* [error] done`, the response closed, and the thread freed.
* The keyword index of a deployment without a database is one file that every saver reads,
  changes and replaces, through one temporary name. *Correct* means that no failed or killed
  save damages it, and that nothing is forgotten by savers that the lock keeps apart.
* Two rankings of one corpus, one of them of everybody's points, are fused, resolved, cut
  and judged by a service that may be away. *Correct* means that only the tenant's own
  passages are cited, that no cut drops the passage the question is about, and that what is
  cited reached the relevance floor, or nothing did and the question names it.
* Requests of one identity are counted by processes that share nothing but Redis, and Redis
  fails and forgets. *Correct* means no more than the budget in a window, and no refusal
  below it.
* Accounts are made by requests that look first and insert later, in separate transactions
  with a slow password hash in between, on tables without a foreign key. *Correct* means
  no user of no tenant, nothing left behind by the loser of a race, a key replaced by its rotation alone, and
  no request served on a credential that had already been revoked when it came.

`PROJECT.json` lists the hazards line by line with the properties that cover each.

## 2. The modules

| module | models | extends / instance |
|---|---|---|
| `CorpusStore` | what the store operations do to points, parents and keyword rows; what a search reaches | constants only |
| `IngestTask` | upload, broker, workers, lock and the task `ingest_pdf` | extends `CorpusStore` |
| `IngestCli` | the command and its manifest, in either deployment | extends `CorpusStore` |
| `AtomicIndex` | the abstract promise of `save_index` | - |
| `IndexFile` | the BM25 pickle, file operation by file operation: workers and the command together | refines `AtomicIndex` |
| `Retrieval` | from a question to the passages its answer may cite | - |
| `SseStream` | the abstract protocol of a stream's events | - |
| `ChatPipeline` | `RAGPipeline.run`/`stream` over the semantic cache, many requests, several processes | refines `SseStream` |
| `StreamBridge` | thread, queue and coroutine of `chat_stream` | refines `SseStream` |
| `RateLimiter` | the fixed-window limiter, its processes and its Redis | - |
| `Accounts` | tenants, users, keys and tokens; the account routes and `authorize` | - |
| `MCIngestTask`, `MCIngestCli`, `MCIndexFile`, `MCRetrieval`, `MCChatPipeline`, `MCRateLimiter`, `MCAccounts` | instances for TLC | |
| `IngestTaskProofs`, `IngestCliProofs`, `IndexFileProofs`, `RetrievalProofs`, `ChatPipelineProofs`, `StreamBridgeProofs`, `RateLimiterProofs`, `AccountsProofs` | theorems | extend their component and `TLAPS` |

Names follow the code where TLA+ allows it. An operator marked "mutant" is a plausible
mistake in the code it stands beside; no specification uses one, and putting it in its
neighbour's place makes a run fail.

### CorpusStore

A document (`Doc`) is a run's version of a file: tenant, source name, file, and a serial
that tells repeated runs apart (they mint fresh UUIDs). A `Point` is a batch of its child
vectors. Texts, scores and embeddings are absent: a search is the set of documents either
side can still reach (`DenseHits`: the point exists and its parent resolves for the
tenant; `KeywordHits`). A file may have no chunks (`Batches = 0`). The pickle's quirk that
an empty index leaves the old file in place (`build_index` returns early) is in
`RebuildPickle`. The pickled parent store's `mset` writes file by file in the code and is
one step here, and so is the pickle's replacement, which `IndexFile` takes apart;
`KeywordHits` is what a freshly started API finds, since the running one keeps the pickle
it loaded.

### IngestTask

One action per store call, so that anything may happen between two of them:

    Upload | UploadFails -> Unstage
    Deliver | Overtake -> AcquireLock | LockBusy | LockError | LockUnheard
      -> Parse | ParseFails
      -> (BeginReplace/DeleteStale) -> UpsertBatch* -> StoreParents
      -> PgDelete -> PgInsert   (Postgres: two transactions of _pg_upsert)
       | PickleLoad -> PickleSave
      -> Complete | HashFails -> (Except ->) Release -> Report | ReportFails -> Ack

`StepFails` raises in any step of the `try` block; `Except` then asks for the retry
*before* `Release`, the `finally`, as the code does. `WorkerLost` kills a process anywhere
and puts its unacknowledged message back. `LockExpires` is the 600 s timeout; it may free a
lock under its running holder (that costs a fault) or after its holder is dead or when
nobody owns it (that does not: it is bound to happen). The release is Redis-side and
compares tokens.

The services around the task fail too. `Retry` is `self.retry`: it publishes the next
attempt (`RetryPublished`), or the broker does not answer and the attempt raises `Reject`
without requeue (`RetryRejected`: the message is dropped, and the retry is queued or is
not), or nothing is left (`GiveUp`). `ReportFails` is a backend that does not take the
state; the message is acknowledged all the same. `LockError` is an acquire that raises
before Redis acts, `LockUnheard` one that Redis applied and nobody heard of: a lock without
an owner stays for its 600 s. A retry has a countdown of 30 s, and normally the attempt that
asked for it is over by then (`CountdownOver`, guard of `Deliver`); `Overtake` is the worker
that stalled for as long, so that the next attempt starts while the old one still holds the
lock or has yet to store its state.

`setting` is chosen once: whether `DATABASE_URL` is set (Postgres or pickle), and which jobs
are uploaded. `staged` is the file under `/tmp` of each upload. `UploadFails` is
`ingest_pdf.delay` that raises: the message is queued or it is not, and the route's `except`
unlinks the file and answers 503 in a later step (`Unstage`), so a worker may be parsing
that very file, may have stored it, and fails in `_file_hash` afterwards (`HashFails`), or
finds no file at all (`ParseFails`). The route's 422 for another extension leaves no state
and is left out. Nobody removes a staged file that a worker has taken.

History variables are read by properties alone: `lapsed` (runs whose lock timed out),
`mixed` (runs of conflicting sources that overlapped), `writer`, `done`, `torn` (a run
stopped between the two commits of `_pg_upsert`), and `lost`: jobs whose retry was neither
queued nor taken back, whose final state the backend did not take, or whose `RETRY` may
be stored over the state of a later attempt. Nothing in the code repairs these three, and
`JobsSettle` exempts them and no other job.

### IngestCli

`Start`, then `Wipe*` in the order of `reset_stores` (the manifest last), `Load` (in
pickle mode the existing corpus), per file `Skip`, `FileFails`, or `BeginIndex`,
`DeleteStale`, `UpsertBatch`, `StoreParents`, `Record` (the manifest is saved after each
file), and at the end `BeginKeyword` with the two Postgres transactions or the pickle
rebuild. `Killed` may strike between any two of these. `Parse` reads ahead (`Lookahead`), and
the hash is taken later, as in the code, so `Edit` can slip in between. One configuration
(embedding model, chunk sizes, target collection) is assumed to stay the same, and only one
command runs at a time, so that the manifest in memory is the saved one. Manifest
keys are paths in the code and names here: the corpus is flat. The variable `setting` is
chosen once: whether `DATABASE_URL` is set, and how far the parser reads ahead.
`WipeDocStore` may leave any of the parents behind: `_rmtree_onerror` (239-250) logs a file
that it cannot delete and the reset goes on, to exit 0 in the end. `IndexFails` raises
anywhere in `index_documents`, also after the parents are stored. `Drift` is
what `--verify` would report: the manifest's chunks against the points in Qdrant and the
rows of the keyword index. It is an operator, as the option only reads; `ResetRebuilds`
says that a reset leaves it nothing to report. A run is asked for a list of different names,
as `_select_pdfs` yields one: a single `--pdf`, or the sorted glob of the directory, which
may be empty: such a run exits 1, and a reset of it has wiped the stores by then (`Exit`).

History: `cut` (sources whose replacement began and was not recorded), `edited` (those of
them that changed on disk since), `raced` (changed between being parsed and being hashed),
`wiped` (points removed by a reset that has not reached the manifest), `stuck` (parents the
last reset could not delete), `last` (the run that just exited by itself).

### AtomicIndex and IndexFile

Without `DATABASE_URL` there are no accounts, hence one tenant, and one lock for all the
workers; the command takes none. A run is

    Begin (takes the lock, or not) -> Load -> SkipSave
                                           |  Open -> DumpFirst -> DumpSecond -> Replace | ReplaceFails

`Open` is `open(path.tmp, "wb")`: it empties the file another saver may still be writing,
since the name is the same for all. A dump is two writes at their own offsets, the fewest
that can mix; `Whole` says that both parts are of one dump, and `load_raw` makes an empty
corpus of anything else. The files have numbers (inodes), so that a handle outlives a
rename, as it does on the file systems the code runs on. `Replace` renames whatever is
under the name by then. `Killed` leaves `path.tmp` and the lock; `StepFails` leaves
`path.tmp`; `LockExpires` frees the lock, also under a run that still holds it.

`overlapped`, `scarred`, `outdated`, `forgotten` and `excused` are history: saves that were
under way together; whether such a save touched the index last; runs that read the index
before another one changed it; whether such a run saved what it had read; and whether a
lock timed out under its holder or the command ran beside a worker.

`AtomicIndex` has an index, the corpora being saved, and three outcomes of a save: it
commits, is abandoned, or, if it overlapped, may leave anything. `IndexFile` implements it
with `index <- Seen`, what a reader sees.

### Retrieval

    SearchKeyword -> SearchDense -> Fuse -> Rerank | RerankFails -> KeepRelevant

A passage stands for a langchain `Document`: a text, a place (file and page), `doc_id`,
the relevance score, and the section it is of. What embeddings, BM25, `ts_rank` and the
reranker make of texts is an input (`Queries`, and the scores `Rerank` chooses). What the code
does with these orders is modelled: the two cuts at k, the tenant's filter after the dense
search of everybody's points, both keyword retrievers with Postgres' fallback on longer
words and file names, weighted reciprocal ranks (over a common denominator), parent
resolution by `doc_id` (which keyword chunks do not carry), deduplication by place and text,
the order by file names, the cut, the reranker's top n, the floor, and what is kept when
nothing reaches it. `ChatPipeline` has one step for all of it.

The code's list operations are one idea here, `Pick(s, I, R)`: the elements of `s` at the
indices `I`, in the order `R` of the indices. A comprehension with a condition (`Filter`)
and the first of each kind (`UniqueBy`) take some indices in their own order; a stable
descending sort (`SortedBy`) takes them all, by key and then by index. `Ordered` says which
index comes n-th: the one with n - 1 before it. Nothing is recursive, so that there is
something to prove; a check at start-up (`ListOperatorsAgree` in `MCRetrieval`) compares
them with the community modules' operators on short lists. The reciprocal ranks are
added as integers: `Denominator` is any number that all the ranks' denominators divide.

### SseStream

The reader's promise: `sources token* [error] done`, or an `error` that ends the stream.
`ChatPipeline` shows that the generator keeps it; `StreamBridge` takes any sequence that
keeps it as what the generator yields, and shows that the reader sees one too.

### ChatPipeline

A request is assembled with some version of its tenant's prompt settings (any version from
the first to the current one: a pipeline is an `lru_cache` entry of its process and
captures the settings once; this over-approximates, since it lets two requests of one
process see different versions), is blocked by the query guard or allowed with or
without the cache, looks it up, retrieves, generates, is judged, stores, replies. `get` and
`set` are split where Redis is called; `_index_ready` is per process and shared by its
threads. `NoSuchIndex` is the one restart of `get`. What an LLM or the reranker says is a
nondeterministic choice. An answer's text is represented by the request that wrote it,
with `kind` (a fact, a denial of coverage, blank after `<thinking>` is stripped) and
`verdict`. Similarity is a constant relation; the same key is nearest. Entries may expire
at any time, and `LoseIndex` is a Redis that restarts empty. A disabled cache is not
modelled separately: every request may bypass it.

### StreamBridge

`_produce` puts items from an executor thread into an `asyncio.Queue` that is not
thread-safe, in two steps (append; wake the waiting getter), while `get` finds the queue
empty and registers its future in two steps. `Disconnect` cancels the coroutine where it
awaits. `put_nowait` from a thread does not interrupt the loop's `select`; the wake-up is
seen at the loop's next turn, which uvicorn's periodic tick brings about.

### RateLimiter

    Arrive (get_rate_limiter) -> BuildLimiter? -> ReadClock -> Consume | ReplyLost | FailOpen
    Reject

INCR and EXPIRE are one transaction of Redis and one step here; the clock is read in an
earlier one, so that `Tick`, `RedisFails`, `RedisReturns` (with its data or with none) may
come between. The bucket of a window is named by the window's start as the clock read it,
and expires a window after it was last touched. A process caches its limiter, and whether
that limiter has a client is decided by one ping; two threads may build one at once
(`lru_cache` does not exclude that), each using its own. Nothing ever reconnects a limiter
without a client. `Restart` empties a process' cache. Requests with bad credentials
are refused before they are counted. Keys share a bucket if their first twelve characters
agree, as in the code. `charge`, `calm` and `wiped` are history.

### Accounts

Each request runs in a thread of its own, and each of its SELECTs and commits is an action
(READ COMMITTED: a statement sees what is committed when it runs):

    SignUp -> CreateTenant? -> CheckTenant -> CheckEmail -> InsertUser -> LoginResponse
    Register -> CreateTenant          AddUser -> CheckTenant -> CheckEmail -> InsertUser
    Login -> ReadUser -> ReadTenant -> LoginResponse
    Call -> AuthorizeKey | AuthorizeToken -> AuthorizeUser -> (RotateKey)
    OperatorRotates -> RotateKey

A request inserts at most one user and makes at most one key, so the row of the user and the
key carry the name of the request. `refused` is every 4xx/5xx answer. Reaching `done` in a
`Call` means that the handler behind `authorize` runs. `SetActive` is the two admin routes
and the script's two commands: one UPDATE. `StatementFails` rolls a session back;
`CommitUnheard` commits and loses the answer. A login may always fail (wrong password) and
a token may always be refused (expired). The code has no operation that deletes a tenant or
a user or deactivates a user, and neither has the model. The admin key of `/auth/register`
and the deployments without a database are left out. Address normalization happens before
the model: an address here is a normalized one.

`valid` (requests whose credential was good at some moment since they came) and `disturbed`
(requests on which the database failed) are history, read by properties alone.

## 3. What is checked

All invariants and properties carry a comment with the code behaviour they are about.

| run | bounds | distinct states | shows |
|---|---|---|---|
| `ingest_crashes` | 2 workers, two versions of one file (1 and 2 batches), 1 retry, 2 faults, on Postgres and on the pickle | 1,763,902 | `TypeOK`, `ExclusiveUnlessLapsed`, `CompletedRunIntact`, `FindableUnlessTorn` |
| `ingest_tenants` | 2 workers, 1 fault, fairness; 2 tenants with the same file name on Postgres; on the pickle a file beside one without chunks, or one that cannot be read | 173,988 | `FindableUnlessTorn` and `CompletedRunIntact` across tenants; `JobsSettle` |
| `ingest_cross_tenant` | 2 tenants, no fault | - | *violated*: `VectorsRemovedByOwner` |
| `index_file` | 2 workers and the command, 4 documents of 2 names, one without chunks, 3 faults | 82,599 | `TypeOK`, `ReadableUnlessScarred`, `NothingForgotten`, `LockSuffices`, `ImplementsAtomicIndex` (refinement) |
| `cli` | 3 runs over a file, all files or none, 2 edits, 2 faults, 2 tenants, one version unreadable; Postgres with lookahead 2, pickle with lookahead 1 | 2,035,152 | `TypeOK`, `EntriesBacked`, `KeywordSingle`, `ResetRebuilds` |
| `cli_resume` | 2 runs, 1 fault | - | *violated*: `ExitMeansSearchable` |
| `search` | 5 sections and 6 chunks of 2 tenants, k = 2 on either side, limits 2 and 4, scores 0..2, floor 1 | 380,688 | `TypeOK`, `OwnPassagesOnly`, `NearestFoundUnlessCrowded`, `NamedSurviveCuts`, `BestAreCited`, `FloorYieldsToNames` |
| `search_sections` | the same | - | *violated*: `SectionsCollapse` |
| `chat` | a plain and a streamed request, 2 processes, 2 similar questions, 1 change of settings, 1 token, 2 faults | 303,979 | `TypeOK`, `ReplaysPassed`, `OutagesHeal`, `StreamWellFormed` (refinement) |
| `stream` | 2 streams, 1 thread, 3 events, fairness | 194,688 | `TypeOK`, `NothingLost`, `ReaderSeesStream` (refinement), `ThreadsComeFree`, `StreamsCloseUnlessLate` |
| `limiter` | 4 requests, one with a wrong key; two keys with the same beginning; 2 processes, limit 1, window 2, time 0 to 3, 1 fault | 1,123,746 | `TypeOK`, `WindowLimit`, `DeniedAfterBudget` |
| `accounts` | 3 requests, 2 tenants, 2 addresses, 2 switches, 1 fault | 145,413 | `TypeOK`, `NoneServedStale`, `AccountsWhole`, `RefusedLeavesNoAccount`, `KeysChangeByRotation` |

Why the bounds are enough for what they show. Two workers and two jobs of one source give
every pairwise overlap; a third worker could only wait or repeat one of the two. Two faults
allow a failure during the recovery from another one. `MaxRetries = 1` distinguishes the
first attempt, a retry and exhaustion. Two batches let a run stop in the middle of an
upsert. In `index_file`, three savers are two that exclude each other and one that nobody
excludes, and three faults are a lock that times out and two failures in what follows.
Three runs of the command are "ran, broke, repaired", and two edits let a file change and
change back, which is what makes a stale manifest entry dangerous. In the search, the other
tenant's section has the text of one's own, one file is indexed twice, one section has two
chunks, and every order of the nearest chunks (but for one chunk that comes last), all
scores and all three deployments are tried, so that both cuts cut and both retrievers
miss. In the chat, a writer and a reader are
all that an entry relates, and two processes are needed for a stale `_index_ready`; two
faults are an index lost once and another failure while it heals. In the bridge,
`MaxEvents = 3` has the shortest complete stream with a token; the lost wake-up needs a
single event. In the limiter, time crosses one boundary, two requests of one key and one of
another compete for a budget of one, and the two processes may each build a limiter. In
`accounts`, three requests are one that made a tenant or a credential and two that race on
it, and two switches are a deactivation and its undoing. Where a property is proved
(section 4), none of these bounds limits it.

The violated runs are disagreements between the code and its documents:

1. `VectorsRemovedByOwner`: one tenant's upload removes another tenant's vectors of a file
   of the same name (`tasks.py:137`, `vector_store.py:154-169`), against
   `vector_store.py:208-210` and `PROJECT_COMPLETE_GUIDE.md:152`. `FindableUnlessTorn` shows
   what is left for the victim: its keyword rows still find the document.
2. `ExitMeansSearchable`: a killed command run loses the keyword chunks of the files it
   already recorded, and a later run exits 0 without them (`ingest.py:418`, `429-433`).
3. `SectionsCollapse`: keyword chunks carry no `doc_id` (`tasks.py:180-183`,
   `ingest.py:170-177`), so a section that both retrievers find goes to the reranker as
   itself and as its chunk (`rag_pipeline.py:395`), against `RAG_PIPELINE.md:316`.

Properties that hold name their exceptions, and each exception is what the code does. TLC
finds a violation when any one of them is left out:

* `JobsSettle` exempts `lost` jobs (see `IngestTask` above): every job whose retries
  the broker took, and whose state the backend took, is settled in the end.
* `EntriesBacked`: an entry that lets the next run skip its file has its points and parents,
  also after a replacement that a kill or an exception stopped half-way. Exempt are
  `wiped` sources (`SkippedAreStored`, below); sources whose replacement stopped half-way
  and whose file was then put back on disk as the entry has it (`ingest.py:399`: vectors
  gone, entry kept); and, for the version alone, files that changed between parse and
  hash (`ingest.py:377`).
* `ResetRebuilds`: parents that could not be deleted stay, without a point or a keyword
  chunk that leads to them, and the run exits 0.

Other statements of the documents that the models refute, which one can see by checking
the named property:

* `FloorDeclines` (`SearchFloor.cfg` with `MCRetrieval`): when no passage reaches the
  relevance floor, those that match the names in the question are cited all the same, up
  to five of them (`rag_pipeline.py:483-493`), so the question is answered from passages below
  the floor. `RAG_PIPELINE.md:232-234`, `341-342` and `354-356` ("if **nothing** clears the
  floor, the pipeline returns a fixed decline message with `sources: []` and **does not call
  the LLM at all**") and `settings.py:172-176` ("if none clear it the service declines to
  answer") say the opposite of this case; `PROJECT_COMPLETE_GUIDE.md:297` describes what the
  code does. `FloorYieldsToNames` is what holds: nothing else below the floor is cited.
* `SkippedAreStored` (`CliSkipped.cfg` with `MCIngestCli`): `--reset` drops the collection first
  and removes the manifest last (`ingest.py:253-278`). Killed in between, it leaves entries,
  and the next run skips their files as unchanged though none of their vectors exist, against
  `ingest.py:92-96`: "Skipping a file is only valid if its vectors actually exist in the
  collection this run targets". `EntriesBacked` is what holds.
* `BusyJobsAreTried` (add it to `IngestCrashes.cfg`): waiting for the tenant's lock spends
  the job's retries (`tasks.py:104`), and a job can use them up without a single attempt at
  its file, though `tasks.py:56` gives failed tasks three. `JobsSettle` is what holds.
* `EntriesNotShared` (`ChatShared.cfg` with `MCChatPipeline`): nothing but the embedding
  model keeps a tenant's cached answers from another tenant (`semantic_cache.py:119-124`),
  against `README.md:121`.
* `StreamsClose` (`StreamSentinel.cfg` with `StreamBridge`): the lost wake-up of the
  sentinel (`routes.py:135`). `StreamsCloseUnlessLate` is what holds.
* `CountedWhileUp` (`LimiterReconnect.cfg` with `MCRateLimiter`): a process that found Redis
  away when it built its limiter never counts again, though `ratelimit.py:78` logs "limits
  disabled until reconnected".

### Fairness

`IngestTask`: weak fairness of each worker's taking a message and of its steps: Celery's
workers poll the broker for ever. A lock is never assumed to come free or to expire: a job
that keeps finding it taken spends its retries, and so settles. Failures, deaths and
uploads are never fair, and neither is the route's removal of a staged file.
`StreamBridge`: weak fairness of each thread's and each coroutine's next step (the
operating system schedules threads, and the event loop runs ready callbacks), and strong
fairness of getting a free thread, because the executor's work queue is first in, first
out. Readers are never forced to leave or to stay. All other modules are checked for safety
only: what they promise is that nothing wrong happens, and nothing in the code waits.

CHECK_DEADLOCK is off everywhere: a finite set of jobs, requests, saves or runs ends.

## 4. What is proved

| theorem | says, for all constants that satisfy the module's ASSUME |
|---|---|
| `IngestTaskProofs!TypeCorrect` | `Spec => []TypeOK` |
| `IngestTaskProofs!Exclusive` | `Spec => []ExclusiveUnlessLapsed` |
| `IngestTaskProofs!CompletedStaysIntact` | `Spec => []CompletedRunIntact` |
| `IngestTaskProofs!StaysFindable` | `Spec => []FindableUnlessTorn` |
| `IngestCliProofs!CliTypeCorrect` | `Spec => []TypeOK` |
| `IngestCliProofs!EntriesStand` | `Spec => []EntriesBacked` |
| `IngestCliProofs!NeverDoubled` | `Spec => []KeywordSingle` |
| `IngestCliProofs!ResetIsClean` | `Spec => []ResetRebuilds` |
| `IndexFileProofs!TypeCorrect` | `Spec => []TypeOK` |
| `IndexFileProofs!Readable` | `Spec => []ReadableUnlessScarred` |
| `IndexFileProofs!LockHolds` | `Spec => []LockSuffices` |
| `IndexFileProofs!Implementation` | `Spec => ImplementsAtomicIndex` (a refinement) |
| `IndexFileProofs!NoneForgotten` | `Spec => []NothingForgotten` |
| `RetrievalProofs!SearchTypeCorrect` | `Spec => []TypeOK` |
| `RetrievalProofs!OwnPassages` | `Spec => []OwnPassagesOnly` |
| `RetrievalProofs!NearestIsFound` | `Spec => []NearestFoundUnlessCrowded` |
| `RetrievalProofs!NamedStay` | `Spec => []NamedSurviveCuts` |
| `RetrievalProofs!BestCited` | `Spec => []BestAreCited` |
| `RetrievalProofs!FloorYields` | `Spec => []FloorYieldsToNames` |
| `ChatPipelineProofs!ChatTypeCorrect` | `Spec => []TypeOK` |
| `ChatPipelineProofs!ReplaysOnlyPassed` | `Spec => []ReplaysPassed` |
| `ChatPipelineProofs!OutagesAlwaysHeal` | `Spec => []OutagesHeal` |
| `ChatPipelineProofs!StreamsWellFormed` | `Spec => StreamWellFormed` (a refinement) |
| `StreamBridgeProofs!BridgeTypeCorrect` | `Spec => []TypeOK` |
| `StreamBridgeProofs!QueueKeepsAll` | `Spec => []NothingLost` |
| `StreamBridgeProofs!ReaderSeesAStream` | `Spec => ReaderSeesStream` (a refinement) |
| `RateLimiterProofs!TypeCorrect` | `Spec => []TypeOK` |
| `RateLimiterProofs!Limited` | `Spec => []WindowLimit` |
| `RateLimiterProofs!Deserved` | `Spec => []DeniedAfterBudget` |
| `AccountsProofs!AccountsTypeCorrect` | `Spec => []TypeOK` |
| `AccountsProofs!StaleNeverServed` | `Spec => []NoneServedStale` |
| `AccountsProofs!AccountsStayWhole` | `Spec => []AccountsWhole` |
| `AccountsProofs!RefusalsAreClean` | `Spec => []RefusedLeavesNoAccount` |
| `AccountsProofs!KeysAreRotated` | `Spec => KeysChangeByRotation` |

*Mutual exclusion of ingestion.* `ExclusiveUnlessLapsed` speaks of two workers and not of
the lock, so it is not inductive: a third state component must say who owns the lock. The
invariant `IInv` adds `FrameOK` (a worker in the locked section has a document),
`TokensDistinct` (no two runs share a token, since the token carries the job's run count
and no run is ahead of it) and `HolderOrLapsed` (a run in the section holds its tenant's
lock or has lapsed). Two unlapsed runs of one tenant would then be the same token.

*A completed run.* `CompletedRunIntact` says nothing of runs under way, so `StoresOK` adds
how far each of them has come: `Progress` gives the vectors, parents and keyword rows of a
run that is alone on its source at each step, `BatchFirst` where it starts, and
`SettledIntact` extends the claim to runs that have written everything but not yet
returned, and to a corpus that another run has loaded from the pickle but not yet saved.
`RunsOK` says who may be under way beside whom: rivals are recorded as such (`RivalsMixed`)
and a run under way is the last writer of its source or knows that one to be recorded
(`WriterAlone`). Most steps leave all of this alone; one lemma treats them together as
`Quiet`, and the six writing steps are taken one by one.

*Findable meanwhile.* During a later replacement the points are gone for a while, and what
finds the document is its keyword rows. `FindOK` adds to `StoresOK` that a run under way is
for the source of its job and recorded under that one (`RunsNamed`), and that the rows of a completed source stay, in
the index or in the corpus about to replace it, until rows of a later run take their place
(`RowsStay`). On Postgres there are two transactions in between, which is what `torn`
records.

*The command.* `EntriesBacked` and `KeywordSingle` relate the manifest and the keyword index
to what the walk has done so far. `CliInv` adds what each phase has left behind:
`ReplacedSoFar` (while a source is replaced its entry does not count, and its points are
those of the batches done), `EntriesOK` (an entry is backed until its source is replaced or
wiped, and from then on it is of another version than the file on disk, unless somebody puts
that version back), `FreshOK` (the chunks gathered are of one document per source, of
files the walk has passed, and their old rows are to be deleted or have been) and `FrameOK`,
where it matters that the names of a run differ: a name taken twice would put its chunks into
the index twice.

*A reset.* `ResetRebuilds` speaks of the moment a run has exited and of all four stores at
once. `ResetInv` says what the run has reached while it is under way and nothing has failed:
`WipedSoFar`, which stores are empty after each step of the wipe (the parents but for
`stuck`; `StuckOK` says that these are of earlier runs, so that none is taken for a new one), and `BuiltSoFar`, that
documents, points and entries are those of the files behind the walk and of the one it is at,
and that these and the files ahead make up the selection. From there no file is
skipped (`NoneSkipped`: an entry would have to be of a file behind the walk). That
`--verify` finds equal numbers is about three counts of the same chunks: by entry, by
keyword document, by point. `SumCounts` turns a sum over a finite set into the cardinality
of its numbered units, and `Tally` maps both sets of units onto the points.

*The pickle's file.* `FileInv` keeps the two directory entries apart (`FilesApart`: a save
that nobody overlaps has `path.tmp`, and the parts it has dumped, to itself) and knows which
saves overlap (`OverlapsKnown`); a reader then finds a whole dump unless an overlapped save
was the last to touch the file. The refinement goes through the file operations: all but
`Replace` are invisible to a reader or are the end of a save, and an overlapped save may
write through a handle that by now is the index. `OneAtATime` says that, until a lock lapses or the command comes beside a worker, one saver is
active at a time and a worker among them holds the lock, which gives `LockSuffices`.
`AllCovered`, that the index and every corpus read from it cover what is done, gives
`NothingForgotten`.

*Retrieval.* A question goes through five steps, each a computation on lists, so the
inductive invariant `Computed` only says which list each stage has and of which it was
computed; the rest is what those computations do. `OrderedIsOrder` is the root: the
indices of a finite set under a strict total order are enumerated once each and in that
order (the number of predecessors is one-to-one by counting, hence onto). From it follow
`Kept` (a filter keeps exactly what passes, in order), `SortedIsSorted` (a sort keeps
every element, with falling keys), and `EarlierOrders`. Where an induction over the naturals is needed, for the
sum of shares and the lengths of lists, `ByInduction` takes it from the well-foundedness of
`<` as a fact about sets, since induction rules with an operator parameter cannot be used.
On this rest the steps: what the dense search sees of everybody's points
(`NearestSectionsFirst`, `DenseHitsSeen`), that fusion and resolution lose no text
(`FusedKeepsTexts`, `FoundKeepsTexts`), that the candidates are a best-named part of what
was found (`CandidatesAreNamed`), and what scores and floor leave (`RerankedFacts`,
`ScoredAreCited`, `UnscoredAreCited`).

*The cache.* `CacheInv` says that entries and replays refer to finished requests that used
the cache, state a fact and were not rejected, and that a request is judged only when it
reaches the guard. The argument rests on one frame lemma, `CacheFrame`: a request that is
not finished occurs in no entry and no replay, so its own steps cannot spoil either.

*Healing.* `HealInv` says that a request whose lookup has started over, undisturbed, finds
the index, or finds the flag of its process consistent with it. `HealFrame` carries it
across the steps of all other requests: they create the index, and set a flag only when
there is one.

*The generator's stream.* `WhatIsSaid` lists all that a step of a stream yields: nothing, the
sources, a token, or one of the endings. `EventsOK` knows what was said before: nothing until
the sources are out, then sources and tokens only. Each ending after such a text is
well-formed and complete (`TextGoesOn`), and nobody else's step touches the stream.

*The bridge.* `StreamOK` says that what was received followed by what is queued is what was
handed over followed by the sentinel, once the thread has put it. The reader's sequence is
then a prefix of what the generator yielded, and a prefix of a well-formed stream is
well-formed; the response closes on the sentinel, which is behind everything else.

*The limiter.* No two prompt requests of a bucket draw the same number (`NumbersDistinct`),
so those admitted are at most as many as there are numbers up to the limit. That rests on
`WindowCounted`: while a window lasts, its buckets keep what was counted in them and do not
expire before its end (`WindowArithmetic`). `NumbersReached`, that every number up to a count
was drawn by some request, gives `DeniedAfterBudget`; `ChargesOK` ties verdicts to numbers.

*Accounts.* The properties need what earlier steps found out; that an address is registered
once is the unique column itself (`schema.py:73`), a guard of `InsertUser`, and is not
claimed. `AccountsWhole` holds because a
request that is past `CheckTenant` names a tenant that exists (`Checked`) and nothing
deletes one; a token names a whole account because a request past the insert or the look
at the address holds a row that is there (`Housed`, `TokenInv`); a refusal is clean
because only the insert itself writes the row and nothing can refuse after it but the
database (`Written`). `ValidInv` ties every step past a credential's check to the moment
at which the check read it good: `Watch` has recorded the request before the check is
made, so a check that succeeds only has to be shown to agree with what was recorded.
`KindInv` says which kinds of request reach which step.

The assumptions are those in the modules' ASSUME clauses: constants have their types,
`None` is no value of the kinds it stands in for, a selection has no name twice, and
`Denominator` is a multiple of the ranks' denominators.

Only model-checked: liveness (`JobsSettle`, `ThreadsComeFree`, `StreamsCloseUnlessLate`).
Liveness under fairness and ENABLED are beyond the proof system used here.
Every leaf of the proofs is found within half of the default time (`tlapm --stretch 0.5`).

## 5. Not modelled

* A tenant that a refused sign-up has created stays, in the code and in the model; no
  property says more about it than that no account is left.
* The command beside a worker over Postgres and Qdrant. They share no lock; over the pickle
  this is `IndexFile`, over the other stores it is what `mixed` excludes between workers.
* The manifest is not keyed by tenant (`ingest.py:388`): `IngestCli` has the tenant in the
  run and no claim that a second tenant's files are indexed.
* Staged uploads stay after a worker took them (`routes.py:181`): one goes only
  by `Unstage`, as in the code.
* Prompt settings are captured when a pipeline is assembled (`rag_pipeline.py:126`):
  `ChatPipeline` allows every version up to the current one and claims nothing about age.
* An answer cached from a corpus that has changed since (`rag_pipeline.py:216`): the chat
  abstracts from the corpus; nothing in the code invalidates entries on ingestion.
* The caching of retrievers in a running API (`hybrid_search.py:57`): a search is one of a
  freshly started process. `ensure_collection`, prefetching and batch sizes.
* Files of the pickled parent store one by one: `mset` is one step. A parent file that a
  reset cannot delete stays (`stuck`), and that the run exits 0 over it is in the model.
* Small simplifications, none of which a property depends on unless said: the fallback
  queries of `PostgresBM25Retriever` have one order and limit together (`PostgresHits`); a
  cache write is not both applied and unheard (`SetFails`); a limiter's INCR and its answer
  are one step, so that `DeniedAfterBudget` says nothing of a process that dies between
  them (`Consume`), and only an idle process restarts (`Restart`); the limiter's 429 between
  the tenant's row and the handler (`deps.py:185`) is left out of `Accounts`; so is the
  `InvalidStateError` of waking a future that was cancelled in the same moment
  (`WakeGetter`, `Disconnect`), whose reader is gone.
* Splitting of texts into chunks, prompt texts, the scores of models. When a token expires is
  arbitrary: it may be refused at any time.
* Health probes, settings validation, logging, metrics, model factories, frontend, evaluation
  and deployment scripts: stateless, or pure input and output.

## 6. Plan

Done, in the order of what matters most to a user: the worker with its upload route, the
command, the keyword pickle they share, retrieval, the chat with its cache, the stream, the
limiter, the accounts; their runs; and a theorem for every safety property of a passing
run. The hazards of `PROJECT.json` without a property say why none covers them.

Next:

1. The command and the worker over one Postgres and Qdrant corpus, without a common lock.
2. The cache beside ingestion: which corpus a replayed answer was made from.
3. Retrievers cached per process and tenant.
