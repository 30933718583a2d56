------------------------------- MODULE IngestCli -------------------------------
(***************************************************************************)
(* The synchronous ingestion command (src/scripts/ingest.py): one process  *)
(* walks the PDFs of the corpus directory, skips those whose content hash  *)
(* is in the manifest, replaces the others in Qdrant and the parent store, *)
(* records each in the manifest as it goes, and writes the keyword index   *)
(* once, when the walk is over.                                            *)
(*                                                                         *)
(* The stores and the manifest outlive the process; everything it gathers  *)
(* for the keyword index is in memory and dies with it (Killed).  Between  *)
(* runs, and during them, files change on disk (Edit).                     *)
(***************************************************************************)
EXTENDS CorpusStore, Sequences, FiniteSets, FiniteSetsExt

CONSTANTS
    SourceOf,   \* the file name a version of a file is stored under
    Readable,   \* versions that parse
    Settings,   \* the ways the command may be deployed
    Selections, \* the lists of names a run may be asked for: one, or those of a directory
    MaxRuns, MaxEdits, MaxFaults,   \* bounds on a behaviour
    None        \* no entry, no run

\* What the manifest says of a file: the version, and its chunks (counted in
\* batches).
Entry == [file : Files, chunks : Nat]

ASSUME CliAssumption ==
    /\ SourceOf \in [Files -> Sources]
    /\ Readable \subseteq Files
    /\ Settings \subseteq [postgres : BOOLEAN, lookahead : Nat \ {0}]
    /\ Selections \subseteq {names \in Seq(Sources) : IsInjective(names)}
    /\ {MaxRuns, MaxEdits, MaxFaults} \subseteq Nat
    /\ None \notin Files \cup Entry

VARIABLES
    setting,    \* whether DATABASE_URL is set, and how many files are parsed ahead:
                \* one, or 2 * concurrency with --concurrency
    disk,       \* disk[s]: the version of s in the corpus directory
    manifest,   \* manifest[s]: the version whose hash is recorded for s, and its chunks
    vectors, parents, keyword,
    phase,      \* where the process is
    run,        \* its arguments: tenant, reset, files
    todo,       \* names still to walk
    parsed,     \* parsed[s]: the version the parser read
    digest,     \* the version that was hashed for the file being indexed
    doc, batch, \* what is being written, and the next batch of vectors
    loaded,     \* existing_corpus
    fresh,      \* new_chunks
    replaced,   \* replaced_sources
    failed,     \* whether a file failed
    runs, edits, faults, serial,
    (* History, read by the properties alone. *)
    cut,        \* sources whose replacement began and was not recorded
    edited,     \* those of them that changed on disk since it began
    raced,      \* sources that changed between being parsed and being hashed
    wiped,      \* sources whose points a reset removed, under entries it left or may leave
    stuck,      \* parents that the last reset could not delete
    last        \* the run that just ended by itself, with its exit status

outside     == <<setting, disk>>
storeVars   == <<manifest, vectors, parents, keyword>>
walkVars    == <<run, todo, parsed, digest, doc, batch, loaded, fresh, replaced, failed>>
countVars   == <<runs, edits, faults, serial>>
historyVars == <<cut, edited, raced, wiped, stuck, last>>
vars == <<outside, storeVars, phase, walkVars, countVars, historyVars>>

Postgres  == setting.postgres
Lookahead == setting.lookahead

Wiping  == {"wipe_vectors", "wipe_rows", "wipe_docstore", "wipe_pickle", "wipe_manifest"}
Walking == {"next", "delete", "upsert", "save"}
Run == [tenant : Tenants, reset : BOOLEAN, files : Selections]

TypeOK ==
    /\ setting \in Settings
    /\ disk \in [Sources -> Files] /\ \A s \in Sources : SourceOf[disk[s]] = s
    /\ manifest \in [Sources -> Entry \cup {None}]
    /\ vectors \subseteq Point /\ parents \subseteq Doc /\ keyword \subseteq Doc
    /\ phase \in {"idle", "load", "keyword"} \cup Wiping \cup Walking
    /\ run \in Run \cup {None}
    /\ todo \in Seq(Sources)
    /\ parsed \in [Sources -> Files \cup {None}]
    /\ digest \in Files \cup {None}
    /\ doc \in Doc \cup {None} /\ batch \in Nat
    /\ loaded \subseteq Doc /\ fresh \subseteq Doc /\ replaced \subseteq Sources
    /\ failed \in BOOLEAN
    /\ runs \in 0..MaxRuns /\ edits \in 0..MaxEdits /\ faults \in 0..MaxFaults
    /\ serial \in [Files -> Nat]
    /\ cut \subseteq Sources /\ edited \subseteq Sources
    /\ raced \subseteq Sources /\ wiped \subseteq Sources /\ stuck \subseteq Doc
    /\ last \in [run : Run, ok : BOOLEAN] \cup {None}

Init ==
    /\ setting \in Settings
    /\ disk \in [Sources -> Files] /\ \A s \in Sources : SourceOf[disk[s]] = s
    /\ manifest = [s \in Sources |-> None]
    /\ vectors = {} /\ parents = {} /\ keyword = {}
    /\ phase = "idle" /\ run = None
    /\ todo = <<>> /\ parsed = [s \in Sources |-> None] /\ digest = None
    /\ doc = None /\ batch = 1 /\ loaded = {} /\ fresh = {} /\ replaced = {}
    /\ failed = FALSE
    /\ runs = 0 /\ edits = 0 /\ faults = 0 /\ serial = [f \in Files |-> 0]
    /\ cut = {} /\ edited = {} /\ raced = {} /\ wiped = {} /\ stuck = {} /\ last = None

Fault == faults < MaxFaults /\ faults' = faults + 1

\* A file is written over, or put back as it was.
Edit(s) ==
    /\ edits < MaxEdits
    /\ edits' = edits + 1
    /\ \E f \in Files \ {disk[s]} : SourceOf[f] = s /\ disk' = [disk EXCEPT ![s] = f]
    /\ edited' = edited \cup ({s} \cap cut)
    /\ last' = None
    /\ UNCHANGED <<setting, storeVars, phase, walkVars, runs, faults, serial, cut, raced,
                   wiped, stuck>>

------------------------------------------------------------------------------
(* Start and end of a run.                                                 *)

Start(t, reset, files) ==
    /\ phase = "idle" /\ runs < MaxRuns
    /\ runs' = runs + 1
    /\ run' = [tenant |-> t, reset |-> reset, files |-> files]
    /\ todo' = files
    /\ phase' = IF reset THEN "wipe_vectors" ELSE "load"
    /\ last' = None
    /\ UNCHANGED <<outside, storeVars, parsed, digest, doc, batch, loaded, fresh, replaced,
                   failed, edits, faults, serial, cut, edited, raced, wiped, stuck>>

\* All the process held in memory is gone.
EndProcess ==
    /\ phase' = "idle" /\ run' = None
    /\ todo' = <<>> /\ parsed' = [s \in Sources |-> None] /\ digest' = None
    /\ doc' = None /\ batch' = 1 /\ loaded' = {} /\ fresh' = {} /\ replaced' = {}
    /\ failed' = FALSE

\* A run over no file at all exits 1 (ingest.py:355-357), though a reset of it
\* has wiped the stores by then.
Exit == EndProcess /\ last' = [run |-> run, ok |-> ~failed /\ run.files # <<>>]

\* The process is killed, or a call outside the per-file try block raises: the
\* stores stay as they are.
Killed ==
    /\ phase # "idle"
    /\ Fault
    /\ EndProcess
    /\ UNCHANGED <<outside, storeVars, runs, edits, serial, historyVars>>

\* ensure_collection, then the manifest and the pickle are read.
Load ==
    /\ phase = "load"
    /\ phase' = "next"
    /\ loaded' = IF Postgres THEN {} ELSE keyword
    /\ UNCHANGED <<outside, storeVars, run, todo, parsed, digest, doc, batch, fresh,
                   replaced, failed, countVars, historyVars>>

------------------------------------------------------------------------------
(* reset_stores, one store after the other.                                *)

WipeVectors ==
    /\ phase = "wipe_vectors"
    /\ vectors' = {}
    /\ wiped' = Sources
    /\ phase' = IF Postgres THEN "wipe_rows" ELSE "wipe_docstore"
    /\ UNCHANGED <<outside, manifest, parents, keyword, walkVars, countVars, cut, edited, raced,
                   stuck, last>>

\* Mutant: only the rows of the tenant the run is for.
WipeTenantRows ==
    /\ phase = "wipe_rows"
    /\ keyword' = {d \in keyword : d.tenant # run.tenant}
    /\ parents' = {d \in parents : d.tenant # run.tenant}
    /\ stuck' = {}
    /\ phase' = "wipe_manifest"
    /\ UNCHANGED <<outside, manifest, vectors, walkVars, countVars, cut, edited, raced, wiped,
                   last>>

\* Both tables in one transaction.
WipeRows ==
    /\ phase = "wipe_rows"
    /\ keyword' = {} /\ parents' = {} /\ stuck' = {}
    /\ phase' = "wipe_manifest"
    /\ UNCHANGED <<outside, manifest, vectors, walkVars, countVars, cut, edited, raced, wiped,
                   last>>

\* rmtree deletes the parents' files one by one.  One that cannot be deleted is
\* logged by _rmtree_onerror and left, and the reset goes on; a document some
\* of whose files stay counts as staying.
WipeDocStore ==
    /\ phase = "wipe_docstore"
    /\ \/ stuck' = {} /\ UNCHANGED faults
       \/ Fault /\ stuck' \in (SUBSET parents) \ {{}}
    /\ parents' = stuck'
    /\ phase' = "wipe_pickle"
    /\ UNCHANGED <<outside, manifest, vectors, keyword, walkVars, runs, edits, serial, cut,
                   edited, raced, wiped, last>>

\* Mutant: the pickle is left for rebuild_bm25 to replace.
WipeNoPickle ==
    /\ phase = "wipe_pickle"
    /\ phase' = "wipe_manifest"
    /\ UNCHANGED <<outside, storeVars, walkVars, countVars, historyVars>>

WipePickle ==
    /\ phase = "wipe_pickle"
    /\ keyword' = {}
    /\ phase' = "wipe_manifest"
    /\ UNCHANGED <<outside, manifest, vectors, parents, walkVars, countVars, historyVars>>

\* Mutant: the manifest survives the reset.
WipeNoManifest ==
    /\ phase = "wipe_manifest"
    /\ cut' = {} /\ edited' = {} /\ raced' = {} /\ wiped' = {}
    /\ phase' = "load"
    /\ UNCHANGED <<outside, storeVars, walkVars, countVars, stuck, last>>

WipeManifest ==
    /\ phase = "wipe_manifest"
    /\ manifest' = [s \in Sources |-> None]
    /\ cut' = {} /\ edited' = {} /\ raced' = {} /\ wiped' = {}
    /\ phase' = "load"
    /\ UNCHANGED <<outside, vectors, parents, keyword, walkVars, countVars, stuck, last>>

------------------------------------------------------------------------------
(* The walk.                                                               *)

\* With --concurrency the thread pool reads files while earlier ones are
\* indexed; without it the generator parses a file when it is asked for.
Parse(i) ==
    /\ IF Lookahead = 1 THEN phase = "next" ELSE phase \in Walking
    /\ i \in 1..Lookahead /\ i <= Len(todo)
    /\ parsed[todo[i]] = None
    /\ parsed' = [parsed EXCEPT ![todo[i]] = disk[todo[i]]]
    /\ UNCHANGED <<outside, storeVars, phase, run, todo, digest, doc, batch, loaded, fresh,
                   replaced, failed, countVars, historyVars>>

\* The walk moves on to the next file.
NextFile ==
    /\ phase' = "next"
    /\ todo' = Tail(todo)
    /\ parsed' = [parsed EXCEPT ![Head(todo)] = None]
    /\ digest' = None /\ doc' = None /\ batch' = 1

AtFile(s) == phase = "next" /\ todo # <<>> /\ s = Head(todo) /\ parsed[s] # None

Unchanged(s) == manifest[s] # None /\ manifest[s].file = disk[s]

Skip ==
    /\ \E s \in Sources : AtFile(s) /\ Unchanged(s)
    /\ NextFile
    /\ UNCHANGED <<outside, storeVars, run, loaded, fresh, replaced, failed, countVars,
                   historyVars>>

\* The file could not be hashed, or not be parsed.
FileFails ==
    /\ \E s \in Sources :
        /\ AtFile(s)
        /\ \/ Fault
           \/ ~Unchanged(s) /\ parsed[s] \notin Readable /\ UNCHANGED faults
    /\ NextFile
    /\ failed' = TRUE
    /\ UNCHANGED <<outside, storeVars, run, loaded, fresh, replaced, runs, edits, serial,
                   historyVars>>

BeginIndex ==
    /\ \E s \in Sources :
        /\ AtFile(s) /\ ~Unchanged(s) /\ parsed[s] \in Readable
        /\ digest' = disk[s]
        /\ doc' = [tenant |-> run.tenant, source |-> s, file |-> parsed[s],
                   serial |-> serial[parsed[s]] + 1]
        /\ serial' = [serial EXCEPT ![parsed[s]] = @ + 1]
        /\ cut' = cut \cup {s} /\ edited' = edited \ {s}
    /\ phase' = "delete"
    /\ UNCHANGED <<outside, storeVars, run, todo, parsed, batch, loaded, fresh, replaced,
                   failed, runs, edits, faults, raced, wiped, stuck, last>>

\* Mutant: the chunks of the version before stay.
KeepStale ==
    /\ phase = "delete"
    /\ phase' = "upsert"
    /\ UNCHANGED <<outside, storeVars, walkVars, countVars, historyVars>>

\* index_documents: delete_source, the batches of add_documents, its parents.
DeleteStale ==
    /\ phase = "delete"
    /\ vectors' = DeleteSource(vectors, doc.source)
    /\ phase' = "upsert"
    /\ UNCHANGED <<outside, manifest, parents, keyword, walkVars, countVars, historyVars>>

HasBatchOffByOne == batch <= Batches[doc.file] + 1  \* mutant

HasBatch == batch <= Batches[doc.file]

UpsertBatch ==
    /\ phase = "upsert" /\ HasBatch
    /\ vectors' = Upsert(vectors, doc, batch)
    /\ batch' = batch + 1
    /\ UNCHANGED <<outside, manifest, parents, keyword, phase, run, todo, parsed, digest,
                   doc, loaded, fresh, replaced, failed, countVars, historyVars>>

StoreParents ==
    /\ phase = "upsert" /\ ~HasBatch
    /\ parents' = MSet(parents, doc)
    /\ phase' = "save"
    /\ UNCHANGED <<outside, manifest, vectors, keyword, walkVars, countVars, historyVars>>

\* The children join new_chunks, and the entry is saved.
Record ==
    /\ phase = "save"
    /\ manifest' = [manifest EXCEPT ![doc.source] = [file |-> digest, chunks |-> Batches[doc.file]]]
    /\ fresh' = fresh \cup {doc}
    /\ replaced' = replaced \cup {doc.source}
    /\ NextFile
    /\ cut' = cut \ {doc.source} /\ edited' = edited \ {doc.source}
    /\ wiped' = wiped \ {doc.source}
    /\ raced' = IF digest = doc.file THEN raced \ {doc.source}
                                     ELSE raced \cup {doc.source}
    /\ UNCHANGED <<outside, vectors, parents, keyword, run, loaded, failed, countVars, stuck, last>>

\* index_documents raises, at a call that did nothing or one whose answer was
\* lost, or where it splits the pages again once all is stored: the file is
\* counted as failed and the walk goes on.
IndexFails ==
    /\ phase \in {"delete", "upsert", "save"}
    /\ Fault
    /\ NextFile
    /\ failed' = TRUE
    /\ UNCHANGED <<outside, storeVars, run, loaded, fresh, replaced, runs, edits, serial,
                   historyVars>>

------------------------------------------------------------------------------
(* The keyword index, once the walk is over.                               *)

WalkOver == phase = "next" /\ todo = <<>>

NothingNew ==
    /\ WalkOver /\ replaced = {}
    /\ Exit
    /\ UNCHANGED <<outside, storeVars, countVars, cut, edited, raced, wiped, stuck>>

BeginKeyword ==
    /\ WalkOver /\ replaced # {}
    /\ phase' = "keyword"
    /\ UNCHANGED <<outside, storeVars, walkVars, countVars, historyVars>>

\* Mutant: the stale rows stay.
KeywordKeep(s) ==
    /\ phase = "keyword" /\ Postgres
    /\ s \in replaced
    /\ replaced' = replaced \ {s}
    /\ UNCHANGED <<outside, storeVars, phase, run, todo, parsed, digest, doc, batch, loaded,
                   fresh, failed, countVars, historyVars>>

\* write_postgres_fts: a transaction per replaced source, in no fixed order ...
KeywordDelete(s) ==
    /\ phase = "keyword" /\ Postgres
    /\ s \in replaced
    /\ keyword' = DeleteChunksBySource(keyword, s, run.tenant)
    /\ replaced' = replaced \ {s}
    /\ UNCHANGED <<outside, manifest, vectors, parents, phase, run, todo, parsed, digest,
                   doc, batch, loaded, fresh, failed, countVars, historyVars>>

\* ... then one for all the new chunks.
KeywordInsert ==
    /\ phase = "keyword" /\ Postgres
    /\ replaced = {}
    /\ keyword' = keyword \cup {d \in fresh : HasChunks(d)}
    /\ Exit
    /\ UNCHANGED <<outside, manifest, vectors, parents, countVars, cut, edited, raced, wiped,
                   stuck>>

\* Mutant: the new chunks are appended.
AppendBm25 ==
    /\ phase = "keyword" /\ ~Postgres
    /\ keyword' = loaded \cup {d \in fresh : HasChunks(d)}
    /\ Exit
    /\ UNCHANGED <<outside, manifest, vectors, parents, countVars, cut, edited, raced, wiped,
                   stuck>>

\* rebuild_bm25: the pickle as it was read when the run began, less the
\* replaced sources, plus the new chunks; an empty corpus writes nothing.
RebuildBm25 ==
    /\ phase = "keyword" /\ ~Postgres
    /\ LET corpus == {d \in loaded : d.source \notin replaced}
                       \cup {d \in fresh : HasChunks(d)}
       IN  keyword' = IF corpus = {} THEN keyword ELSE corpus
    /\ Exit
    /\ UNCHANGED <<outside, manifest, vectors, parents, countVars, cut, edited, raced, wiped,
                   stuck>>

------------------------------------------------------------------------------
(* --verify, which only reads: the manifest, the points of the collection  *)
(* and those of the tenant, and its keyword chunks, by their numbers.      *)

Drift(t) ==
    LET entries   == {s \in Sources : manifest[s] # None}
        expected  == SumFunction([s \in entries |-> manifest[s].chunks])
        ofTenant  == {p \in vectors : p.doc.tenant = t}
        keywords  == SumFunction([d \in KeywordHits(Postgres, keyword, t) |-> Batches[d.file]])
    IN  \/ entries = {}
        \/ expected > 0 /\ Cardinality(vectors) # expected
        \/ Cardinality(ofTenant) # keywords

------------------------------------------------------------------------------
Next ==
    \/ \E s \in Sources : Edit(s) \/ KeywordDelete(s)
    \/ \E t \in Tenants, reset \in BOOLEAN, files \in Selections : Start(t, reset, files)
    \/ \E i \in 1..Lookahead : Parse(i)
    \/ WipeVectors \/ WipeRows \/ WipeDocStore \/ WipePickle \/ WipeManifest
    \/ Load \/ Skip \/ FileFails \/ BeginIndex \/ DeleteStale \/ UpsertBatch
    \/ StoreParents \/ Record \/ IndexFails \/ NothingNew \/ BeginKeyword
    \/ KeywordInsert \/ RebuildBm25 \/ Killed

Spec == Init /\ [][Next]_vars

------------------------------------------------------------------------------
(* Properties.                                                             *)

VectorsOf(s) == {p \in vectors : p.doc.source = s}

AllPoints(d) == {[doc |-> d, batch |-> b] : b \in 1..Batches[d.file]}

\* The manifest entry of s has the points and the parents of its very version.
Backed(s) ==
    \E d \in parents :
        /\ d.source = s
        /\ s \notin raced => d.file = manifest[s].file
        /\ VectorsOf(s) = AllPoints(d)

\* An entry that lets the next run skip its file is backed, whatever runs,
\* failures and kills came before, in the middle of a replacement too: what a
\* replacement leaves half done has an entry the next run does not trust.  There
\* are three exceptions: the reset that was killed on its way to the manifest
\* (refuted by itself, SkippedAreStored); the file that was put back on disk as
\* it was, after its replacement had begun; and, for the version alone, the one
\* that changed between being parsed and being hashed.  (ingest.py: "Skipping a
\* file is only valid if its vectors actually exist"; the entry is saved only
\* after index_documents returned.)
EntriesBacked ==
    \A s \in Sources : Unchanged(s) /\ s \notin wiped \cup edited => Backed(s)

\* manifest_target: "Skipping a file is only valid if its vectors actually exist
\* in the collection this run targets".  A file the walk is about to skip has
\* vectors, if its entry counts any.
SkippedAreStored ==
    \A s \in Sources :
        AtFile(s) /\ Unchanged(s) /\ manifest[s].chunks > 0 => VectorsOf(s) # {}

\* Re-ingestion stays idempotent: the keyword index never holds two versions of
\* a source for one tenant, nor the same one twice, however the runs that wrote
\* it failed, died and repeated each other.
KeywordSingle ==
    \A d, e \in keyword : d.source = e.source /\ d.tenant = e.tenant => d = e

\* A --reset run that exits 0 leaves what it indexed, complete in all the stores,
\* whatever state it found, and nothing else but parents it could not delete, to
\* which no point and no keyword chunk leads: the "clean rebuild" that verify
\* tells the operator to make, and then verify is content.
ResetRebuilds ==
    last # None /\ last.ok /\ last.run.reset =>
        LET names == {last.run.files[i] : i \in DOMAIN last.run.files}
            built == parents \ stuck
        IN  /\ \A d \in built : d.tenant = last.run.tenant
            /\ {d.source : d \in built} = names
            /\ vectors = UNION {AllPoints(d) : d \in built}
            /\ keyword = {d \in built : HasChunks(d)}
            /\ \A d \in built : d.source \notin raced => manifest[d.source].file = d.file
            /\ ~Drift(last.run.tenant)

\* A run that exits 0 has all its files in the keyword index.  README.md: "an
\* interrupted run resumes where it stopped"; the entries are saved file by
\* file, the keyword index once at the end.
ExitMeansSearchable ==
    last # None /\ last.ok =>
        \A i \in DOMAIN last.run.files :
            LET s == last.run.files[i]
            IN  Batches[disk[s]] > 0
                => \E d \in KeywordHits(Postgres, keyword, last.run.tenant) : d.source = s

==============================================================================
