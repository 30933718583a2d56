------------------------------- MODULE IndexFile -------------------------------
(***************************************************************************)
(* The BM25 pickle of a deployment without DATABASE_URL, one file          *)
(* operation at a time: load_raw and save_index (src/src/retrieval/bm25.py)*)
(* as the Celery task (tasks.py, _rebuild_bm25_pickle) and the ingestion   *)
(* command (scripts/ingest.py, rebuild_bm25) use them.                     *)
(*                                                                         *)
(* Both read the file, add what they ingested and save the whole corpus    *)
(* again.  A worker does it under the tenant's Redis lock; the command     *)
(* reads when it starts, saves when it ends, and takes no lock.  A save    *)
(* opens path.tmp, dumps into it and renames it: the name is the same for  *)
(* every saver, so a second one opens, and truncates, the file the first   *)
(* is still writing.  The dump is two writes here, each at its own offset: *)
(* enough for two dumps to mix.                                            *)
(* Without DATABASE_URL there are no accounts (api/deps.py), hence one     *)
(* tenant, and one lock for all workers.                                   *)
(***************************************************************************)
EXTENDS Naturals, FiniteSets

CONSTANTS
    Savers,     \* the worker processes and the command
    Locking,    \* the savers that take the lock: the workers
    Docs,       \* what is ingested: versions of files
    SourceOf,   \* SourceOf[d]: the file name of d
    Chunked,    \* the documents that yield chunks
    Batches,    \* Batches[s]: the sets of documents a run of s may ingest
    MaxFaults,  \* bound on the faults of a behaviour
    Unreadable, \* what a reader makes of a damaged file
    None        \* no file, no handle, no holder, no save

\* A part of a dump: who wrote it, and of which corpus.
Dumped == [by : Savers, corpus : SUBSET Docs]

ASSUME IndexAssumption ==
    /\ Locking \subseteq Savers
    /\ Chunked \subseteq Docs
    /\ Batches \in [Savers -> SUBSET SUBSET Docs]
    /\ MaxFaults \in Nat
    /\ IsFiniteSet(Savers)
    /\ None \notin Savers \cup Nat /\ None # Unreadable
    /\ \A c \in SUBSET Docs : c # None /\ c # Unreadable
    /\ None \notin Dumped

VARIABLES
    content,    \* content[f]: the two parts of the open or named file f
    path, tmp,  \* the files under the two names
    lock,       \* the holder of ingest_lock_<tenant>
    pc,         \* pc[s]: the next step of s
    batch,      \* batch[s]: the documents of its run
    loaded,     \* loaded[s]: the corpus it read
    handle,     \* handle[s]: the file it has open
    done,       \* documents of the runs that completed
    faults,     \* faults so far
    (* History, read by the properties alone. *)
    overlapped, \* saves under way that overlapped with another one
    scarred,    \* whether such a save was the last to touch the index
    outdated,   \* runs that read the index before another one changed it, or
                \* while it was scarred
    forgotten,  \* whether such a run was saved
    excused     \* whether a lock timed out under its holder, or the command ran
                \* beside a worker

fileVars    == <<content, path, tmp>>
saverVars   == <<pc, batch, loaded, handle>>
historyVars == <<overlapped, scarred, outdated, forgotten, excused>>
vars == <<fileVars, lock, saverVars, done, faults, historyVars>>

\* Enough files for the two names and a handle of every saver.
Inodes == 1..(Cardinality(Savers) + 2)

\* A part of a file.
Part == Dumped \cup {None}

Dumping == {"first", "second", "replace"}

TypeOK ==
    /\ content \in [Inodes -> [1..2 -> Part]]
    /\ path \in Inodes \cup {None} /\ tmp \in Inodes \cup {None}
    /\ lock \in Savers \cup {None}
    /\ pc \in [Savers -> {"idle", "load", "open"} \cup Dumping]
    /\ batch \in [Savers -> SUBSET Docs]
    /\ loaded \in [Savers -> SUBSET Docs]
    /\ handle \in [Savers -> Inodes \cup {None}]
    /\ done \subseteq Docs
    /\ faults \in 0..MaxFaults
    /\ overlapped \subseteq Savers /\ outdated \subseteq Savers
    /\ scarred \in BOOLEAN /\ forgotten \in BOOLEAN /\ excused \in BOOLEAN
    /\ \A s \in Savers : handle[s] # None <=> pc[s] \in {"first", "second"}

Empty == [i \in 1..2 |-> None]

Init ==
    /\ content = [f \in Inodes |-> Empty]
    /\ path = None /\ tmp = None
    /\ lock = None
    /\ pc = [s \in Savers |-> "idle"]
    /\ batch = [s \in Savers |-> {}]
    /\ loaded = [s \in Savers |-> {}]
    /\ handle = [s \in Savers |-> None]
    /\ done = {}
    /\ faults = 0
    /\ overlapped = {} /\ outdated = {}
    /\ scarred = FALSE /\ forgotten = FALSE /\ excused = FALSE

Fault == faults < MaxFaults /\ faults' = faults + 1

Goto(s, label) == pc' = [pc EXCEPT ![s] = label]

------------------------------------------------------------------------------
(* Reading.                                                                *)

Whole(f) == content[f][1] # None /\ content[f][1] = content[f][2]

\* What a reader sees: a file that mixes two dumps, or ends too soon, does not
\* unpickle.
Seen == IF path = None THEN None
        ELSE IF Whole(path) THEN content[path][1].corpus ELSE Unreadable

\* load_raw: no chunks if there is no file, and none if it cannot be read.
LoadRaw == IF Seen = None \/ Seen = Unreadable THEN {} ELSE Seen

------------------------------------------------------------------------------
(* One run.                                                                *)

\* A run begins that has not been done and is not being done.
Start(s, b) ==
    /\ pc[s] = "idle"
    /\ b \in Batches[s] /\ b \cap done = {}
    /\ \A u \in Savers : b \cap batch[u] = {}
    /\ batch' = [batch EXCEPT ![s] = b]
    /\ Goto(s, "load")
    /\ excused' = (excused \/ \E u \in Savers : pc[u] # "idle" /\ ~{s, u} \subseteq Locking)
    /\ UNCHANGED <<fileVars, loaded, handle, done, faults, overlapped, scarred, outdated,
                   forgotten>>

\* Mutant: the task does not wait for the lock.
BeginUnlocked(s, b) == Start(s, b) /\ UNCHANGED lock

\* A worker first takes the lock of the tenant.
Begin(s, b) ==
    /\ Start(s, b)
    /\ IF s \in Locking THEN lock = None /\ lock' = s ELSE UNCHANGED lock

Load(s) ==
    /\ pc[s] = "load"
    /\ loaded' = [loaded EXCEPT ![s] = LoadRaw]
    /\ Goto(s, "open")
    /\ outdated' = IF scarred THEN outdated \cup {s} ELSE outdated
    /\ UNCHANGED <<fileVars, lock, batch, handle, done, faults, overlapped, scarred, forgotten,
                   excused>>

\* Mutant: only the new chunks.
KeepNothing(s) == batch[s] \cap Chunked

\* The chunks read, less those of the sources of the run, plus the new ones.
NewCorpus(s) ==
    {d \in loaded[s] : SourceOf[d] \notin {SourceOf[e] : e \in batch[s]}}
        \cup (batch[s] \cap Chunked)

\* The run is over, and its locals and its lock are gone.
DropFrame(s) ==
    /\ batch' = [batch EXCEPT ![s] = {}]
    /\ loaded' = [loaded EXCEPT ![s] = {}]
    /\ handle' = [handle EXCEPT ![s] = None]
    /\ Goto(s, "idle")
    /\ overlapped' = overlapped \ {s}

Unlock(s) == lock' = IF lock = s THEN None ELSE lock

\* Mutant: an index that would be empty is removed.
RemoveEmpty(s) ==
    /\ pc[s] = "open" /\ NewCorpus(s) = {}
    /\ path' = None
    /\ done' = done \cup batch[s]
    /\ DropFrame(s)
    /\ Unlock(s)
    /\ outdated' = outdated \ {s}
    /\ UNCHANGED <<content, tmp, faults, scarred, forgotten, excused>>

\* Nothing to index: nothing is saved, and an old index stays.
SkipSave(s) ==
    /\ pc[s] = "open" /\ NewCorpus(s) = {}
    /\ done' = done \cup batch[s]
    /\ DropFrame(s)
    /\ Unlock(s)
    /\ outdated' = outdated \ {s}
    /\ UNCHANGED <<fileVars, faults, scarred, forgotten, excused>>

Free == Inodes \ ({path, tmp} \cup {handle[u] : u \in Savers})

Rivals(s) == {u \in Savers \ {s} : pc[u] \in Dumping}

\* Mutant: the dump goes straight into the index.
OpenIndex(s) ==
    /\ pc[s] = "open" /\ NewCorpus(s) # {}
    /\ LET f == IF path = None THEN CHOOSE g \in Free : TRUE ELSE path
       IN  /\ path' = f
           /\ handle' = [handle EXCEPT ![s] = f]
           /\ content' = [content EXCEPT ![f] = Empty]
    /\ overlapped' = IF Rivals(s) = {} THEN overlapped ELSE overlapped \cup Rivals(s) \cup {s}
    /\ Goto(s, "first")
    /\ UNCHANGED <<tmp, lock, batch, loaded, done, faults, scarred, outdated, forgotten,
                   excused>>

\* open(path.tmp, "wb"): the file of that name, if there is one, is emptied.
Open(s) ==
    /\ pc[s] = "open" /\ NewCorpus(s) # {}
    /\ LET f == IF tmp = None THEN CHOOSE g \in Free : TRUE ELSE tmp
       IN  /\ tmp' = f
           /\ handle' = [handle EXCEPT ![s] = f]
           /\ content' = [content EXCEPT ![f] = Empty]
    /\ overlapped' = IF Rivals(s) = {} THEN overlapped ELSE overlapped \cup Rivals(s) \cup {s}
    /\ Goto(s, "first")
    /\ UNCHANGED <<path, lock, batch, loaded, done, faults, scarred, outdated, forgotten,
                   excused>>

Dump(s, i, label, next) ==
    /\ pc[s] = label
    /\ content' = [content EXCEPT ![handle[s]][i] = [by |-> s, corpus |-> NewCorpus(s)]]
    /\ Goto(s, next)
    /\ scarred' = (scarred \/ (s \in overlapped /\ handle[s] = path))
    /\ UNCHANGED <<path, tmp, lock, batch, loaded, done, faults, overlapped, outdated, forgotten,
                   excused>>

DumpFirst(s) == Dump(s, 1, "first", "second") /\ UNCHANGED handle

\* Mutant: the file is renamed inside the with block.
DumpSecondOpen(s) == Dump(s, 2, "second", "replace") /\ UNCHANGED handle

\* The second part ends the with block: the handle is closed.
DumpSecond(s) == Dump(s, 2, "second", "replace") /\ handle' = [handle EXCEPT ![s] = None]

Others(s) == {u \in Savers \ {s} : pc[u] \in {"open"} \cup Dumping}

\* os.replace(path.tmp, path), whoever filled the file of that name.
Replace(s) ==
    /\ pc[s] = "replace" /\ tmp # None
    /\ path' = tmp /\ tmp' = None
    /\ done' = done \cup batch[s]
    /\ DropFrame(s)
    /\ Unlock(s)
    /\ scarred' = (s \in overlapped)
    /\ forgotten' = (forgotten \/ s \in outdated)
    /\ outdated' = (outdated \ {s}) \cup Others(s)
    /\ UNCHANGED <<content, faults, excused>>

\* The run raises, and is tried again as another one.
Fail(s) ==
    /\ DropFrame(s)
    /\ Unlock(s)
    /\ outdated' = outdated \ {s}
    /\ UNCHANGED <<fileVars, done, scarred, forgotten, excused>>

\* Another saver renamed the file: FileNotFoundError.
ReplaceFails(s) ==
    /\ pc[s] = "replace" /\ tmp = None
    /\ Fail(s)
    /\ UNCHANGED faults

StepFails(s) == pc[s] # "idle" /\ Fault /\ Fail(s)

\* The process dies: its lock stays until it times out, and path.tmp for good.
Killed(s) ==
    /\ pc[s] # "idle" /\ Fault
    /\ DropFrame(s)
    /\ outdated' = outdated \ {s}
    /\ UNCHANGED <<fileVars, lock, done, scarred, forgotten, excused>>

\* timeout=600, whether the holder still runs or not.
LockExpires ==
    /\ lock # None
    /\ lock' = None
    /\ IF pc[lock] = "idle" THEN UNCHANGED <<faults, excused>> ELSE Fault /\ excused' = TRUE
    /\ UNCHANGED <<fileVars, saverVars, done, overlapped, scarred, outdated, forgotten>>

------------------------------------------------------------------------------
Next ==
    \/ \E s \in Savers : \E b \in Batches[s] : Begin(s, b)
    \/ \E s \in Savers :
        \/ Load(s) \/ SkipSave(s) \/ Open(s) \/ DumpFirst(s) \/ DumpSecond(s)
        \/ Replace(s) \/ ReplaceFails(s) \/ StepFails(s) \/ Killed(s)
    \/ LockExpires

Spec == Init /\ [][Next]_vars

------------------------------------------------------------------------------
(* Properties.                                                             *)

\* The index can be read after every step of every save, failed or killed ones
\* included, unless saves overlapped and no other one came after them; then
\* load_raw makes an empty corpus of it, and the next run keeps nothing else.
ReadableUnlessScarred == Seen = Unreadable => scarred

\* Every file a run completed for stays in the index, in that version or
\* another, unless one of its versions has no chunks, or a run read the index,
\* another one saved it, and the first one then saved what it had read.
NothingForgotten ==
    forgotten \/ scarred \/
        \A d \in done : \E e \in LoadRaw \cup (done \ Chunked) : SourceOf[e] = SourceOf[d]

\* That takes a lock that timed out under its holder, or the command beside a
\* worker: with workers alone the tenant's lock spans the read, the dump and
\* the rename, whatever fails or dies in between.
LockSuffices == forgotten \/ scarred => excused

\* The corpora being saved.
Saves == [s \in Savers |-> IF pc[s] \in Dumping THEN NewCorpus(s) ELSE None]

\* save_index is atomic, as AtomicIndex says, to savers that do not overlap.
Atomic == INSTANCE AtomicIndex WITH
    Corpora <- SUBSET Docs,
    index   <- Seen,
    saving  <- Saves

ImplementsAtomicIndex == Atomic!Spec

================================================================================
