--------------------------- MODULE IngestCliProofs ---------------------------
(***************************************************************************)
(* Proofs about IngestCli, for any tenants, files and lists of names, any  *)
(* number of runs, edits, kills and failures, on Postgres and on the       *)
(* pickle, however many files are parsed ahead.                            *)
(***************************************************************************)
EXTENDS IngestCli, FiniteSetTheorems, FunctionTheorems, WellFoundedInduction, TLAPS

\* Of one file name and tenant: versions that must not be in the index together.
SameFile(d, e) == d.source = e.source /\ d.tenant = e.tenant

\* The process has locals only while it lives, and a file being indexed is the
\* next one of the walk.
FrameOK ==
    /\ phase # "idle" => run \in Run
    /\ phase \in {"delete", "upsert", "save"} =>
         /\ doc \in Doc /\ doc.tenant = run.tenant
         /\ todo # <<>> /\ doc.source = Head(todo)
         /\ digest \in Files
    /\ phase \notin {"upsert", "save"} => batch = 1
    /\ phase \in {"idle", "load"} \cup Wiping => fresh = {}
    /\ IsInjective(todo)

\* While a source is replaced, what the manifest says of it does not count, and
\* its points are those of the batches done so far.
ReplacedSoFar ==
    /\ phase \in Wiping \ {"wipe_vectors"} => wiped = Sources
    /\ phase \in {"delete", "upsert", "save"} => doc.source \in cut
    /\ phase \in {"upsert", "save"} =>
         /\ VectorsOf(doc.source) = {[doc |-> doc, batch |-> n] : n \in 1..(batch - 1)}
         /\ batch \in 1..(Batches[doc.file] + 1)
    /\ phase = "save" => doc \in parents /\ batch = Batches[doc.file] + 1

\* The chunks gathered for the keyword index are of one document per source, of
\* the run's tenant, of files the walk has left behind; and what the keyword
\* index held of these sources is to be deleted, or has been.
FreshOK ==
    /\ \A d, e \in fresh : SameFile(d, e) => d = e
    /\ \A d \in fresh :
         /\ d.tenant = run.tenant
         /\ \/ d.source \in replaced
            \/ phase = "keyword" /\ Postgres /\ \A k \in keyword : ~SameFile(d, k)
         /\ \A i \in DOMAIN todo : todo[i] # d.source
    /\ \A d, e \in loaded : SameFile(d, e) => d = e

\* An entry is backed from its making to the next replacement of its source or
\* the next reset; from then on it is of another version than the file on disk,
\* as long as nobody puts that version back.
EntriesOK ==
    \A s \in Sources : manifest[s] # None =>
        /\ s \notin cut \cup wiped => Backed(s)
        /\ s \in cut /\ s \notin wiped \cup edited => manifest[s].file # disk[s]

\* What a reset could not delete is of runs before, and taken for nothing new.
StuckOK ==
    /\ \A d \in parents \cup stuck : d.serial <= serial[d.file]
    /\ phase \in {"delete", "upsert", "save"} => doc.serial <= serial[doc.file] /\ doc \notin stuck
    /\ \A d \in fresh : d \notin stuck

\* The inductive invariant.
CliInv ==
    TypeOK /\ FrameOK /\ ReplacedSoFar /\ FreshOK /\ EntriesOK /\ StuckOK /\ KeywordSingle

------------------------------------------------------------------------------
(* Type correctness.                                                       *)

LEMMA FaultType ==
    ASSUME TypeOK, Fault
    PROVE  faults' \in 0..MaxFaults
BY CliAssumption DEF Fault, TypeOK

\* A walk that moves on keeps a list of names.
LEMMA NextFileType ==
    ASSUME TypeOK, FrameOK, todo # <<>>, NextFile
    PROVE  /\ phase' = "next" /\ todo' \in Seq(Sources)
           /\ parsed' \in [Sources -> Files \cup {None}]
           /\ digest' \in Files \cup {None} /\ doc' \in Doc \cup {None} /\ batch' \in Nat
           /\ IsInjective(todo')
           /\ \A i \in DOMAIN todo' : todo'[i] # Head(todo) /\ i + 1 \in DOMAIN todo
                                      /\ todo'[i] = todo[i + 1]
<1>1. todo \in Seq(Sources) /\ todo' = Tail(todo) /\ IsInjective(todo)
  BY DEF NextFile, TypeOK, FrameOK
<1>2. /\ Tail(todo) \in Seq(Sources) /\ 1 \in DOMAIN todo /\ Head(todo) = todo[1]
      /\ \A i \in DOMAIN Tail(todo) :
           i + 1 \in DOMAIN todo /\ Tail(todo)[i] = todo[i + 1] /\ i # 0 /\ i \in Nat
  BY <1>1
<1>3. \A i, j \in DOMAIN todo : todo[i] = todo[j] => i = j
  BY <1>1 DEF IsInjective
<1>4. \A i, j \in DOMAIN Tail(todo) : Tail(todo)[i] = Tail(todo)[j] => i = j
  <2> SUFFICES ASSUME NEW i \in DOMAIN Tail(todo), NEW j \in DOMAIN Tail(todo),
                      Tail(todo)[i] = Tail(todo)[j]
               PROVE  i = j
    OBVIOUS
  <2>1. i + 1 = j + 1
    BY <1>2, <1>3
  <2> QED
    BY <1>2, <2>1
<1>5. \A i \in DOMAIN Tail(todo) : Tail(todo)[i] # Head(todo)
  <2> SUFFICES ASSUME NEW i \in DOMAIN Tail(todo), Tail(todo)[i] = Head(todo)
               PROVE  FALSE
    OBVIOUS
  <2>1. i + 1 = 1
    BY <1>2, <1>3
  <2> QED
    BY <1>2, <2>1
<1>6. IsInjective(todo')
  BY <1>1, <1>4 DEF IsInjective
<1>7. /\ phase' = "next" /\ digest' = None /\ doc' = None /\ batch' = 1
      /\ parsed' \in [Sources -> Files \cup {None}]
  BY DEF NextFile, TypeOK
<1> QED
  BY <1>1, <1>2, <1>5, <1>6, <1>7

\* What the end of the process leaves.
LEMMA EndType ==
    ASSUME EndProcess
    PROVE  /\ phase' = "idle" /\ run' = None /\ todo' = <<>> /\ todo' \in Seq(Sources)
           /\ parsed' \in [Sources -> Files \cup {None}]
           /\ digest' = None /\ doc' = None /\ batch' = 1
           /\ loaded' = {} /\ fresh' = {} /\ replaced' = {} /\ failed' = FALSE
           /\ IsInjective(todo')
BY DEF EndProcess, IsInjective

\* The file being indexed, when there is one.
LEMMA DocType ==
    ASSUME TypeOK, FrameOK, phase \in {"delete", "upsert", "save"}
    PROVE  /\ doc \in Doc /\ doc.source \in Sources /\ doc.file \in Files
           /\ Batches[doc.file] \in Nat /\ digest \in Files /\ run \in Run
           /\ todo # <<>> /\ doc.source = Head(todo)
BY StoreAssumption DEF TypeOK, FrameOK, Doc

\* The steps of a process at its start and its end, and what happens around it.
LEMMA OuterType ==
    ASSUME TypeOK, FrameOK,
           \/ \E s \in Sources : Edit(s) \/ KeywordDelete(s)
           \/ \E t \in Tenants, reset \in BOOLEAN, files \in Selections : Start(t, reset, files)
           \/ Load \/ NothingNew \/ BeginKeyword \/ KeywordInsert \/ RebuildBm25 \/ Killed
    PROVE  TypeOK'
<1>1. ASSUME NEW s \in Sources, Edit(s)
      PROVE  TypeOK'
  <2>0. PICK f \in Files : SourceOf[f] = s /\ disk' = [disk EXCEPT ![s] = f]
    BY <1>1 DEF Edit
  <2>1. disk' \in [Sources -> Files] /\ \A x \in Sources : SourceOf[disk'[x]] = x
    BY <2>0 DEF TypeOK
  <2>2. edits' \in 0..MaxEdits
    <3>1. MaxEdits \in Nat
      BY CliAssumption
    <3>2. edits < MaxEdits /\ edits' = edits + 1 /\ edits \in 0..MaxEdits
      BY <1>1 DEF Edit, TypeOK
    <3> QED
      BY <3>1, <3>2
  <2> QED
    BY <1>1, <2>1, <2>2 DEF Edit, TypeOK, storeVars, walkVars
<1>2. ASSUME NEW s \in Sources, KeywordDelete(s)
      PROVE  TypeOK'
  BY <1>2 DEF KeywordDelete, TypeOK, DeleteChunksBySource, outside, countVars, historyVars
<1>3. ASSUME NEW t \in Tenants, NEW reset \in BOOLEAN, NEW files \in Selections,
             Start(t, reset, files)
      PROVE  TypeOK'
  <2>1. run' \in Run /\ todo' \in Seq(Sources) /\ runs' \in 0..MaxRuns
    BY <1>3, CliAssumption DEF Start, Run, TypeOK
  <2> QED
    BY <1>3, <2>1 DEF Start, TypeOK, Wiping, outside, storeVars
<1>4. CASE Load
  BY <1>4 DEF Load, TypeOK, Walking, outside, storeVars, countVars, historyVars
<1>5. CASE BeginKeyword
  BY <1>5 DEF BeginKeyword, TypeOK, outside, storeVars, walkVars, countVars, historyVars
<1>6. CASE Killed
  BY <1>6, EndType, FaultType DEF Killed, TypeOK, outside, storeVars, historyVars
<1>7. CASE NothingNew \/ KeywordInsert \/ RebuildBm25
  <2>1. /\ EndProcess /\ last' = [run |-> run, ok |-> ~failed /\ run.files # <<>>]
        /\ UNCHANGED <<setting, disk, manifest, vectors, parents, countVars, cut, edited, raced,
                       wiped, stuck>>
    BY <1>7 DEF NothingNew, KeywordInsert, RebuildBm25, Exit, outside, storeVars
  <2>2. run \in Run
    BY <1>7 DEF NothingNew, KeywordInsert, RebuildBm25, WalkOver, FrameOK
  <2>3. keyword' \subseteq Doc
    BY <1>7 DEF NothingNew, KeywordInsert, RebuildBm25, TypeOK, storeVars
  <2>4. last' \in [run : Run, ok : BOOLEAN]
    BY <2>1, <2>2 DEF TypeOK
  <2> QED
    BY <2>1, <2>3, <2>4, EndType DEF TypeOK, countVars
<1> QED
  BY <1>1, <1>2, <1>3, <1>4, <1>5, <1>6, <1>7

\* The walk and the reset.
LEMMA WalkType ==
    ASSUME TypeOK, FrameOK, ReplacedSoFar,
           \/ \E i \in 1..Lookahead : Parse(i)
           \/ WipeVectors \/ WipeRows \/ WipeDocStore \/ WipePickle \/ WipeManifest
           \/ Skip \/ FileFails \/ BeginIndex \/ DeleteStale \/ UpsertBatch
           \/ StoreParents \/ Record \/ IndexFails
    PROVE  TypeOK'
<1>1. ASSUME NEW i \in 1..Lookahead, Parse(i)
      PROVE  TypeOK'
  <2>1. todo[i] \in Sources
    BY <1>1, CliAssumption DEF Parse, TypeOK, Lookahead
  <2> QED
    BY <1>1, <2>1 DEF Parse, TypeOK, outside, storeVars, countVars, historyVars
<1>2. CASE WipeVectors \/ WipeRows \/ WipePickle
  BY <1>2 DEF WipeVectors, WipeRows, WipePickle, TypeOK, Wiping, outside, walkVars, countVars,
              historyVars
<1>11. CASE WipeDocStore
  <2>1. stuck' \subseteq parents /\ parents' = stuck' /\ faults' \in 0..MaxFaults
    BY <1>11, FaultType DEF WipeDocStore, TypeOK
  <2> QED
    BY <1>11, <2>1 DEF WipeDocStore, TypeOK, Wiping, outside, walkVars
<1>3. CASE WipeManifest
  BY <1>3 DEF WipeManifest, TypeOK, outside, walkVars, countVars
<1>4. CASE Skip \/ FileFails
  <2>1. /\ NextFile /\ todo # <<>>
        /\ UNCHANGED <<outside, storeVars, run, loaded, fresh, replaced, historyVars>>
        /\ UNCHANGED <<runs, edits, serial>>
        /\ failed' \in BOOLEAN /\ faults' \in 0..MaxFaults
    BY <1>4, FaultType DEF Skip, FileFails, AtFile, TypeOK, countVars
  <2> QED
    BY <2>1, NextFileType DEF TypeOK, Walking, outside, storeVars, historyVars
<1>5. CASE BeginIndex
  <2>1. PICK s \in Sources :
          /\ parsed[s] \in Files /\ digest' = disk[s]
          /\ doc' = [tenant |-> run.tenant, source |-> s, file |-> parsed[s],
                     serial |-> serial[parsed[s]] + 1]
          /\ serial' = [serial EXCEPT ![parsed[s]] = @ + 1]
    BY <1>5, CliAssumption DEF BeginIndex
  <2>2. run.tenant \in Tenants
    BY <1>5, <2>1 DEF BeginIndex, AtFile, FrameOK, Run
  <2>3. doc' \in Doc /\ digest' \in Files /\ serial' \in [Files -> Nat]
    BY <2>1, <2>2 DEF Doc, TypeOK
  <2> QED
    BY <1>5, <2>3 DEF BeginIndex, TypeOK, Walking, outside, storeVars, historyVars
<1>6. CASE DeleteStale
  <2>1. doc.source \in Sources
    BY <1>6, DocType DEF DeleteStale
  <2> QED
    BY <1>6, <2>1 DEF DeleteStale, DeleteSource, TypeOK, Walking, outside, walkVars, countVars,
                      historyVars
<1>7. CASE UpsertBatch
  <2>1. batch \in 1..Batches[doc.file]
    BY <1>7, DocType DEF UpsertBatch, HasBatch, ReplacedSoFar
  <2>2. [doc |-> doc, batch |-> batch] \in Point
    BY <1>7, <2>1, DocType DEF UpsertBatch, Point
  <2>3. batch' \in Nat /\ vectors' \subseteq Point
    <3>1. batch' = batch + 1 /\ vectors' = vectors \cup {[doc |-> doc, batch |-> batch]}
      BY <1>7 DEF UpsertBatch, Upsert
    <3>2. batch \in Nat /\ vectors \subseteq Point
      BY DEF TypeOK
    <3> QED
      BY <2>2, <3>1, <3>2
  <2> QED
    BY <1>7, <2>3 DEF UpsertBatch, TypeOK, outside, countVars, historyVars
<1>8. CASE StoreParents
  BY <1>8, DocType DEF StoreParents, MSet, TypeOK, Walking, outside, walkVars, countVars,
                       historyVars
<1>9. CASE Record
  <2>1. /\ doc \in Doc /\ doc.source \in Sources /\ digest \in Files /\ todo # <<>>
        /\ Batches[doc.file] \in Nat
    BY <1>9, DocType DEF Record
  <2>2. [file |-> digest, chunks |-> Batches[doc.file]] \in Entry
    BY <2>1 DEF Entry
  <2>3. /\ manifest' \in [Sources -> Entry \cup {None}]
        /\ fresh' \subseteq Doc /\ replaced' \subseteq Sources
        /\ cut' \subseteq Sources /\ edited' \subseteq Sources
        /\ raced' \subseteq Sources /\ wiped' \subseteq Sources
    BY <1>9, <2>1, <2>2 DEF Record, TypeOK
  <2> QED
    BY <1>9, <2>1, <2>3, NextFileType DEF Record, TypeOK, Walking, outside, countVars
<1>10. CASE IndexFails
  <2>1. NextFile /\ todo # <<>>
    BY <1>10, DocType DEF IndexFails
  <2> QED
    BY <1>10, <2>1, NextFileType, FaultType DEF IndexFails, TypeOK, Walking, outside, storeVars,
                                                historyVars
<1> QED
  BY <1>1, <1>2, <1>3, <1>4, <1>5, <1>6, <1>7, <1>8, <1>9, <1>10, <1>11

\* Every step keeps the types.
LEMMA TypeStep == TypeOK /\ FrameOK /\ ReplacedSoFar /\ [Next]_vars => TypeOK'
<1> SUFFICES ASSUME TypeOK, FrameOK, ReplacedSoFar, [Next]_vars
             PROVE  TypeOK'
  OBVIOUS
<1>1. CASE UNCHANGED vars
  BY <1>1 DEF TypeOK, vars, outside, storeVars, walkVars, countVars, historyVars
<1> QED
  BY <1>1, OuterType, WalkType DEF Next

------------------------------------------------------------------------------
(* The walk.                                                               *)

\* A file that is left behind, done or failed.
LEMMA LeaveFile ==
    ASSUME TypeOK, FrameOK, Skip \/ FileFails \/ Record \/ IndexFails
    PROVE  /\ NextFile /\ todo # <<>> /\ phase \in Walking /\ phase' = "next"
           /\ UNCHANGED <<run, loaded>>
BY DocType DEF Skip, FileFails, Record, IndexFails, AtFile, NextFile, Walking

\* The frame of the process is kept.
LEMMA FrameStep == CliInv /\ [Next]_vars => FrameOK'
<1> SUFFICES ASSUME CliInv, [Next]_vars
             PROVE  FrameOK'
  OBVIOUS
<1> USE DEF CliInv
<1>1. ASSUME \/ UNCHANGED vars \/ \E s \in Sources : Edit(s) \/ KeywordDelete(s)
             \/ \E i \in 1..Lookahead : Parse(i)
      PROVE  FrameOK'
  <2>1. UNCHANGED <<phase, run, doc, todo, digest, batch, fresh>>
    BY <1>1 DEF Edit, KeywordDelete, Parse, vars, walkVars
  <2> QED
    BY <2>1 DEF FrameOK
<1>2. ASSUME NEW t \in Tenants, NEW reset \in BOOLEAN, NEW files \in Selections,
             Start(t, reset, files)
      PROVE  FrameOK'
  <2>1. /\ run' \in Run /\ IsInjective(todo') /\ phase' \in {"wipe_vectors", "load"}
        /\ UNCHANGED <<batch, fresh>> /\ phase = "idle"
    BY <1>2, CliAssumption DEF Start, Run
  <2> QED
    BY <2>1 DEF FrameOK, Wiping
<1>3. CASE WipeVectors \/ WipeRows \/ WipeDocStore \/ WipePickle \/ WipeManifest
  <2>1. /\ phase \in Wiping /\ phase' \in Wiping \cup {"load"}
        /\ UNCHANGED <<run, todo, batch, fresh>>
    BY <1>3 DEF WipeVectors, WipeRows, WipeDocStore, WipePickle, WipeManifest, walkVars, Wiping
  <2> QED
    BY <2>1 DEF FrameOK, Wiping
<1>4. CASE Load \/ BeginKeyword
  <2>1. /\ phase \in {"load", "next"} /\ phase' \in {"next", "keyword"}
        /\ UNCHANGED <<run, todo, batch>>
    BY <1>4 DEF Load, BeginKeyword, WalkOver, walkVars
  <2> QED
    BY <2>1 DEF FrameOK, Wiping
<1>5. CASE Skip \/ FileFails \/ Record \/ IndexFails
  <2>1. phase \in Walking /\ NextFile /\ todo # <<>> /\ phase' = "next" /\ run' = run
    BY <1>5, LeaveFile
  <2>2. IsInjective(todo') /\ batch' = 1
    BY <2>1, NextFileType DEF NextFile
  <2> QED
    BY <2>1, <2>2 DEF FrameOK, Walking, Wiping
<1>6. CASE BeginIndex
  <2>1. PICK s \in Sources :
          /\ AtFile(s) /\ parsed[s] \in Readable
          /\ digest' = disk[s]
          /\ doc' = [tenant |-> run.tenant, source |-> s, file |-> parsed[s],
                     serial |-> serial[parsed[s]] + 1]
    BY <1>6 DEF BeginIndex
  <2>2. phase = "next" /\ todo # <<>> /\ s = Head(todo) /\ parsed[s] \in Files /\ run.tenant \in Tenants
    BY <2>1, CliAssumption DEF AtFile, FrameOK, Run
  <2>3. /\ doc' \in Doc /\ doc'.tenant = run.tenant /\ doc'.source = Head(todo)
        /\ digest' \in Files
    BY <2>1, <2>2 DEF Doc, TypeOK
  <2>4. phase' = "delete" /\ UNCHANGED <<run, todo, batch>>
    BY <1>6 DEF BeginIndex
  <2> QED
    BY <2>2, <2>3, <2>4 DEF FrameOK, Wiping
<1>7. CASE DeleteStale \/ UpsertBatch \/ StoreParents
  <2>1. /\ phase \in {"delete", "upsert"} /\ phase' \in {"upsert", "save"}
        /\ UNCHANGED <<run, todo, doc, digest>>
    BY <1>7 DEF DeleteStale, UpsertBatch, StoreParents, walkVars
  <2> QED
    BY <2>1 DEF FrameOK, Wiping
<1>8. CASE NothingNew \/ KeywordInsert \/ RebuildBm25 \/ Killed
  <2>1. EndProcess
    BY <1>8 DEF NothingNew, KeywordInsert, RebuildBm25, Killed, Exit
  <2> QED
    BY <2>1, EndType DEF FrameOK
<1> QED
  BY <1>1, <1>2, <1>3, <1>4, <1>5, <1>6, <1>7, <1>8 DEF Next

------------------------------------------------------------------------------
(* What a manifest entry stands on.                                        *)

\* An entry of a source that nothing is done to stays backed.
LEMMA BackedStill ==
    ASSUME NEW s \in Sources, Backed(s),
           manifest'[s] = manifest[s], s \in raced' <=> s \in raced,
           parents \subseteq parents', VectorsOf(s)' = VectorsOf(s)
    PROVE  Backed(s)'
BY DEF Backed, AllPoints

\* What concerns entries, while none is made, withdrawn or replaced.
BackingStill ==
    /\ manifest' = manifest /\ vectors' = vectors /\ parents' = parents
    /\ cut' = cut /\ raced' = raced /\ wiped' = wiped
    /\ \A s \in Sources : s \in cut /\ s \notin edited' => s \notin edited /\ disk'[s] = disk[s]

LEMMA BackingKept == EntriesOK /\ BackingStill => EntriesOK'
<1> SUFFICES ASSUME EntriesOK, BackingStill, NEW s \in Sources, manifest'[s] # None
             PROVE  /\ s \notin cut' \cup wiped' => Backed(s)'
                    /\ s \in cut' /\ s \notin wiped' \cup edited' => manifest'[s].file # disk'[s]
  BY DEF EntriesOK
<1>1. UNCHANGED <<manifest, vectors, parents, cut, raced, wiped>>
  BY DEF BackingStill
<1>2. VectorsOf(s)' = VectorsOf(s)
  BY <1>1 DEF VectorsOf
<1>3. s \notin cut' \cup wiped' => Backed(s)'
  BY <1>1, <1>2, BackedStill DEF EntriesOK
<1>4. s \in cut' /\ s \notin wiped' \cup edited' => manifest'[s].file # disk'[s]
  BY <1>1 DEF EntriesOK, BackingStill
<1> QED
  BY <1>3, <1>4

\* An entry of a source other than the one at work.
LEMMA OthersKept ==
    ASSUME EntriesOK, NEW s \in Sources, manifest'[s] # None, manifest'[s] = manifest[s],
           s \in cut' <=> s \in cut, s \in edited' <=> s \in edited, s \in raced' <=> s \in raced,
           s \in wiped' <=> s \in wiped, disk' = disk,
           parents \subseteq parents', VectorsOf(s)' = VectorsOf(s)
    PROVE  /\ s \notin cut' \cup wiped' => Backed(s)'
           /\ s \in cut' /\ s \notin wiped' \cup edited' => manifest'[s].file # disk'[s]
BY BackedStill DEF EntriesOK

\* The steps on the points and parents of a source whose replacement has begun.
LEMMA CutKept ==
    ASSUME EntriesOK, NEW x \in cut, UNCHANGED <<manifest, cut, edited, raced, wiped, disk>>,
           parents \subseteq parents', \A s \in Sources \ {x} : VectorsOf(s)' = VectorsOf(s)
    PROVE  EntriesOK'
<1> SUFFICES ASSUME NEW s \in Sources, manifest'[s] # None
             PROVE  /\ s \notin cut' \cup wiped' => Backed(s)'
                    /\ s \in cut' /\ s \notin wiped' \cup edited' => manifest'[s].file # disk'[s]
  BY DEF EntriesOK
<1>1. CASE s = x
  BY <1>1 DEF EntriesOK
<1>2. CASE s # x
  BY <1>2, OthersKept
<1> QED
  BY <1>1, <1>2

\* A replacement is recorded in `cut' from its first step to the entry, and is
\* as far as its batches say; entries that count are backed.
LEMMA BackedStep == CliInv /\ [Next]_vars => ReplacedSoFar' /\ EntriesOK'
<1> SUFFICES ASSUME CliInv, [Next]_vars
             PROVE  ReplacedSoFar' /\ EntriesOK'
  OBVIOUS
<1>0. TypeOK /\ FrameOK /\ ReplacedSoFar /\ EntriesOK
  BY DEF CliInv
<1>1. ASSUME \/ UNCHANGED vars \/ \E s \in Sources : Edit(s) \/ KeywordDelete(s)
             \/ \E i \in 1..Lookahead : Parse(i)
      PROVE  ReplacedSoFar' /\ EntriesOK'
  <2>1. /\ UNCHANGED <<phase, doc, batch, manifest, vectors, parents, cut, raced, wiped>>
    BY <1>1 DEF Edit, KeywordDelete, Parse, vars, walkVars, storeVars, historyVars
  <2>2. ASSUME NEW s \in Sources, s \in cut, s \notin edited'
        PROVE  s \notin edited /\ disk'[s] = disk[s]
    <3>1. CASE \E x \in Sources : Edit(x)
      <4>1. PICK x \in Sources : Edit(x)
        BY <3>1
      <4>2. /\ edited' = edited \cup ({x} \cap cut)
            /\ \E f \in Files : disk' = [disk EXCEPT ![x] = f]
        BY <4>1 DEF Edit
      <4> QED
        BY <1>0, <2>2, <4>2 DEF TypeOK
    <3>2. CASE UNCHANGED <<edited, disk>>
      BY <2>2, <3>2
    <3>3. (\E x \in Sources : Edit(x)) \/ UNCHANGED <<edited, disk>>
      BY <1>1 DEF KeywordDelete, Parse, vars, outside, historyVars
    <3> QED
      BY <3>1, <3>2, <3>3
  <2>3. BackingStill
    BY <2>1, <2>2 DEF BackingStill
  <2> QED
    BY <1>0, <2>1, <2>3, BackingKept DEF ReplacedSoFar, VectorsOf
<1>2. ASSUME \/ \E t \in Tenants, reset \in BOOLEAN, files \in Selections : Start(t, reset, files)
             \/ Load \/ BeginKeyword \/ Skip \/ FileFails \/ IndexFails
             \/ NothingNew \/ KeywordInsert \/ RebuildBm25 \/ Killed
      PROVE  ReplacedSoFar' /\ EntriesOK'
  <2>1. UNCHANGED <<manifest, vectors, parents, cut, edited, raced, wiped, disk>>
    BY <1>2 DEF Start, Load, BeginKeyword, Skip, FileFails, IndexFails, NothingNew,
                KeywordInsert, RebuildBm25, Killed, outside, storeVars, historyVars, walkVars
  <2>2. phase' \in {"idle", "load", "next", "keyword", "wipe_vectors"}
    BY <1>2 DEF Start, Load, BeginKeyword, Skip, FileFails, IndexFails, NothingNew,
                KeywordInsert, RebuildBm25, Killed, NextFile, Exit, EndProcess
  <2>3. BackingStill
    BY <2>1 DEF BackingStill
  <2> QED
    BY <1>0, <2>2, <2>3, BackingKept DEF ReplacedSoFar, Wiping
<1>3. CASE WipeVectors \/ WipeRows \/ WipeDocStore \/ WipePickle
  <2>1. /\ wiped' = Sources /\ phase' \in {"wipe_rows", "wipe_docstore", "wipe_pickle", "wipe_manifest"}
    BY <1>0, <1>3 DEF WipeVectors, WipeRows, WipeDocStore, WipePickle, ReplacedSoFar, Wiping,
                      historyVars
  <2> QED
    BY <2>1 DEF ReplacedSoFar, EntriesOK
<1>4. CASE WipeManifest
  <2>1. (\A s \in Sources : manifest'[s] = None) /\ phase' = "load"
    BY <1>4 DEF WipeManifest
  <2> QED
    BY <2>1 DEF ReplacedSoFar, EntriesOK, Wiping
<1>9. CASE BeginIndex
  <2>1. PICK s \in Sources :
          /\ ~ Unchanged(s) /\ doc'.source = s
          /\ cut' = cut \cup {s} /\ edited' = edited \ {s}
    BY <1>9 DEF BeginIndex
  <2>2. phase' = "delete" /\ UNCHANGED <<manifest, vectors, parents, raced, wiped, disk>>
    BY <1>9 DEF BeginIndex, outside, storeVars
  <2>3. ASSUME NEW x \in Sources, manifest'[x] # None
        PROVE  /\ x \notin cut' \cup wiped' => Backed(x)'
               /\ x \in cut' /\ x \notin wiped' \cup edited' => manifest'[x].file # disk'[x]
    <3>1. CASE x = s
      BY <2>1, <2>2, <2>3, <3>1 DEF Unchanged
    <3>2. CASE x # s
      <4>1. VectorsOf(x)' = VectorsOf(x)
        BY <2>2 DEF VectorsOf
      <4> QED
        BY <1>0, <2>1, <2>2, <2>3, <3>2, <4>1, OthersKept
    <3> QED
      BY <3>1, <3>2
  <2>4. EntriesOK'
    BY <2>3 DEF EntriesOK
  <2> QED
    BY <2>1, <2>2, <2>4 DEF ReplacedSoFar, Wiping
<1>5. CASE DeleteStale
  <2>1. /\ doc.source \in cut /\ batch = 1 /\ Batches[doc.file] \in Nat
        /\ vectors' = {p \in vectors : p.doc.source # doc.source} /\ phase' = "upsert"
        /\ UNCHANGED <<manifest, parents, doc, batch, cut, edited, raced, wiped, disk>>
    BY <1>0, <1>5, DocType DEF DeleteStale, DeleteSource, FrameOK, ReplacedSoFar, outside, walkVars,
                               historyVars
  <2>2. VectorsOf(doc.source)' = {[doc |-> doc, batch |-> n] : n \in 1..(batch - 1)}
    BY <2>1 DEF VectorsOf
  <2>3. \A s \in Sources \ {doc.source} : VectorsOf(s)' = VectorsOf(s)
    BY <2>1 DEF VectorsOf
  <2>4. EntriesOK'
    BY <1>0, <2>1, <2>3, CutKept
  <2> QED
    BY <2>1, <2>2, <2>4 DEF ReplacedSoFar, Wiping
<1>6. CASE UpsertBatch
  <2>1. /\ doc \in Doc /\ doc.source \in Sources /\ Batches[doc.file] \in Nat
        /\ batch \in 1..Batches[doc.file] /\ doc.source \in cut
        /\ VectorsOf(doc.source) = {[doc |-> doc, batch |-> n] : n \in 1..(batch - 1)}
        /\ vectors' = vectors \cup {[doc |-> doc, batch |-> batch]} /\ batch' = batch + 1
        /\ phase = "upsert"
        /\ UNCHANGED <<manifest, parents, doc, phase, cut, edited, raced, wiped, disk>>
    BY <1>0, <1>6, DocType DEF UpsertBatch, HasBatch, Upsert, ReplacedSoFar, outside, historyVars
  <2>2. VectorsOf(doc.source)' = {[doc |-> doc, batch |-> n] : n \in 1..(batch' - 1)}
    <3>1. VectorsOf(doc.source)' = VectorsOf(doc.source) \cup {[doc |-> doc, batch |-> batch]}
      BY <2>1 DEF VectorsOf
    <3>2. 1..(batch' - 1) = 1..(batch - 1) \cup {batch}
      BY <2>1
    <3> QED
      BY <2>1, <3>1, <3>2
  <2>3. \A s \in Sources \ {doc.source} : VectorsOf(s)' = VectorsOf(s)
    BY <2>1 DEF VectorsOf
  <2>4. EntriesOK'
    BY <1>0, <2>1, <2>3, CutKept
  <2> QED
    BY <2>1, <2>2, <2>4 DEF ReplacedSoFar, Wiping
<1>7. CASE StoreParents
  <2>1. /\ Batches[doc.file] \in Nat /\ batch \in 1..(Batches[doc.file] + 1)
        /\ batch > Batches[doc.file] /\ doc.source \in cut
        /\ phase = "upsert" /\ phase' = "save" /\ parents' = parents \cup {doc}
        /\ UNCHANGED <<manifest, vectors, doc, batch, cut, edited, raced, wiped, disk>>
    BY <1>0, <1>7, DocType DEF StoreParents, HasBatch, MSet, ReplacedSoFar, outside, walkVars,
                               historyVars
  <2>2. \A s \in Sources : VectorsOf(s)' = VectorsOf(s)
    BY <2>1 DEF VectorsOf
  <2>3. EntriesOK'
    BY <1>0, <2>1, <2>2, CutKept
  <2>4. VectorsOf(doc.source)' = {[doc |-> doc, batch |-> n] : n \in 1..(batch - 1)}
    BY <1>0, <2>1 DEF ReplacedSoFar, VectorsOf
  <2> QED
    BY <2>1, <2>3, <2>4 DEF ReplacedSoFar, Wiping
<1>8. CASE Record
  <2>1. /\ doc \in parents /\ doc.source \in Sources /\ Batches[doc.file] \in Nat
        /\ VectorsOf(doc.source) = {[doc |-> doc, batch |-> n] : n \in 1..(batch - 1)}
        /\ batch = Batches[doc.file] + 1
        /\ manifest' = [manifest EXCEPT ![doc.source] =
                           [file |-> digest, chunks |-> Batches[doc.file]]]
        /\ cut' = cut \ {doc.source} /\ edited' = edited \ {doc.source}
        /\ wiped' = wiped \ {doc.source}
        /\ raced' = IF digest = doc.file THEN raced \ {doc.source} ELSE raced \cup {doc.source}
        /\ phase' = "next" /\ UNCHANGED <<vectors, parents, disk>>
    BY <1>0, <1>8, DocType DEF Record, ReplacedSoFar, NextFile, outside
  <2>2. \A s \in Sources : s = doc.source => VectorsOf(s)' = AllPoints(doc)
    BY <2>1 DEF VectorsOf, AllPoints
  <2>3. manifest'[doc.source].file = digest
    BY <1>0, <2>1 DEF TypeOK
  <2>4. doc.source \notin raced' => doc.file = manifest'[doc.source].file
    BY <2>1, <2>3
  <2>5. ASSUME NEW s \in Sources, manifest'[s] # None
        PROVE  /\ s \notin cut' \cup wiped' => Backed(s)'
               /\ s \in cut' /\ s \notin wiped' \cup edited' => manifest'[s].file # disk'[s]
    <3>1. CASE s = doc.source
      <4>1. PICK d : d = doc /\ d \in parents'
        BY <2>1
      <4>2. d.source = s /\ (s \notin raced' => d.file = manifest'[s].file) /\ VectorsOf(s)' = AllPoints(d)
        BY <2>2, <2>4, <3>1, <4>1
      <4>3. Backed(s)'
        BY <4>1, <4>2 DEF Backed, AllPoints
      <4> QED
        BY <2>1, <3>1, <4>3
    <3>2. CASE s # doc.source
      <4>1. /\ manifest'[s] = manifest[s] /\ (s \in raced' <=> s \in raced)
            /\ VectorsOf(s)' = VectorsOf(s)
        BY <1>0, <2>1, <3>2 DEF TypeOK, VectorsOf
      <4> QED
        BY <1>0, <2>1, <2>5, <3>2, <4>1, OthersKept
    <3> QED
      BY <3>1, <3>2
  <2>6. EntriesOK'
    BY <2>5 DEF EntriesOK
  <2> QED
    BY <2>1, <2>6 DEF ReplacedSoFar, Wiping
<1> QED
  BY <1>1, <1>2, <1>3, <1>4, <1>5, <1>6, <1>7, <1>8, <1>9 DEF Next

\* Serial numbers only grow, and a document gets one that no parent has.
LEMMA StuckStep == CliInv /\ [Next]_vars => StuckOK'
<1> SUFFICES ASSUME CliInv, [Next]_vars
             PROVE  StuckOK'
  OBVIOUS
<1>0. TypeOK /\ FrameOK /\ StuckOK
  BY DEF CliInv
<1>1. CASE BeginIndex
  <2>1. PICK s \in Sources :
          /\ AtFile(s) /\ parsed[s] \in Readable
          /\ doc' = [tenant |-> run.tenant, source |-> s, file |-> parsed[s],
                     serial |-> serial[parsed[s]] + 1]
          /\ serial' = [serial EXCEPT ![parsed[s]] = @ + 1]
    BY <1>1 DEF BeginIndex
  <2>2. PICK f \in Files : f = parsed[s] /\ doc'.file = f /\ doc'.serial = serial[f] + 1
    BY <2>1, CliAssumption
  <2>3. /\ serial'[f] = serial[f] + 1 /\ \A g \in Files : serial[g] <= serial'[g] /\ serial[g] \in Nat
        /\ serial'[f] \in Nat
    BY <1>0, <2>1, <2>2 DEF TypeOK
  <2>4. UNCHANGED <<parents, stuck, fresh>>
    BY <1>1 DEF BeginIndex, storeVars
  <2>5. \A d \in parents \cup stuck : d.file \in Files /\ d.serial \in Nat
    BY <1>0 DEF TypeOK, Doc
  <2>6. \A d \in parents \cup stuck : d.serial <= serial'[d.file]
    <3> SUFFICES ASSUME NEW d \in parents \cup stuck
                 PROVE  d.serial <= serial'[d.file]
      OBVIOUS
    <3>1. d.serial <= serial[d.file] /\ serial[d.file] <= serial'[d.file] /\ serial[d.file] \in Nat
      BY <1>0, <2>3, <2>5 DEF StuckOK
    <3>2. serial'[d.file] \in Nat
      BY <1>0, <2>1, <2>2, <2>3, <2>5 DEF TypeOK
    <3> QED
      BY <2>5, <3>1, <3>2
  <2>7. doc' \notin stuck
    <3> SUFFICES ASSUME doc' \in stuck
                 PROVE  FALSE
      OBVIOUS
    <3>1. doc'.serial <= serial[doc'.file]
      BY <1>0 DEF StuckOK
    <3> QED
      BY <2>2, <2>3, <3>1
  <2>8. doc'.serial <= serial'[doc'.file]
    BY <2>2, <2>3
  <2> QED
    BY <1>0, <2>4, <2>6, <2>7, <2>8 DEF StuckOK
<1>2. CASE WipeVectors \/ WipeRows \/ WipeDocStore \/ WipePickle \/ WipeManifest
  <2>1. /\ phase' \notin {"delete", "upsert", "save"} /\ fresh' = {} /\ serial' = serial
        /\ parents' \subseteq parents /\ stuck' \subseteq parents \cup stuck
    BY <1>0, <1>2 DEF WipeVectors, WipeRows, WipeDocStore, WipePickle, WipeManifest, FrameOK, Wiping,
                      walkVars, countVars, historyVars
  <2> QED
    BY <1>0, <2>1 DEF StuckOK
<1>3. CASE StoreParents \/ Record
  <2>1. /\ doc.serial <= serial[doc.file] /\ doc \notin stuck /\ UNCHANGED <<serial, stuck>>
        /\ parents' \subseteq parents \cup {doc} /\ fresh' \subseteq fresh \cup {doc}
        /\ phase' \in {"delete", "upsert", "save"} => doc' = doc
    BY <1>0, <1>3 DEF StoreParents, Record, MSet, StuckOK, NextFile, walkVars, countVars, historyVars
  <2> QED
    BY <1>0, <2>1 DEF StuckOK
<1>4. ASSUME \/ UNCHANGED vars \/ \E s \in Sources : Edit(s) \/ KeywordDelete(s)
             \/ \E t \in Tenants, reset \in BOOLEAN, files \in Selections : Start(t, reset, files)
             \/ \E i \in 1..Lookahead : Parse(i)
             \/ Load \/ Skip \/ FileFails \/ DeleteStale \/ UpsertBatch \/ IndexFails
             \/ NothingNew \/ BeginKeyword \/ KeywordInsert \/ RebuildBm25 \/ Killed
      PROVE  StuckOK'
  <2>1. /\ UNCHANGED <<parents, stuck, serial>> /\ (fresh' = fresh \/ fresh' = {})
        /\ phase' \in {"delete", "upsert", "save"} =>
             doc' = doc /\ phase \in {"delete", "upsert", "save"}
    BY <1>4 DEF Edit, KeywordDelete, Start, Parse, Load, Skip, FileFails, DeleteStale, UpsertBatch,
                IndexFails, NothingNew, BeginKeyword, KeywordInsert, RebuildBm25, Killed, Exit,
                EndProcess, NextFile, vars, storeVars, walkVars, countVars, historyVars
  <2> QED
    BY <1>0, <2>1 DEF StuckOK
<1> QED
  BY <1>1, <1>2, <1>3, <1>4 DEF Next

------------------------------------------------------------------------------
(* The keyword index.                                                      *)

\* Nothing is gathered, or it was gathered before.
GatheringStill == UNCHANGED <<setting, run, loaded, fresh, replaced, keyword>>

\* Until the keyword index is written, all that was gathered is to be replaced.
LEMMA GatheredReplaced ==
    ASSUME FreshOK, phase # "keyword"
    PROVE  \A d \in fresh : d.source \in replaced
BY DEF FreshOK

LEMMA FreshStep == CliInv /\ [Next]_vars => FreshOK'
<1> SUFFICES ASSUME CliInv, [Next]_vars
             PROVE  FreshOK'
  OBVIOUS
<1>0. TypeOK /\ FrameOK /\ FreshOK /\ KeywordSingle
  BY DEF CliInv
<1>1. ASSUME \/ UNCHANGED vars \/ \E s \in Sources : Edit(s)
             \/ \E i \in 1..Lookahead : Parse(i)
      PROVE  FreshOK'
  <2>1. GatheringStill /\ UNCHANGED <<phase, todo>>
    BY <1>1 DEF Edit, Parse, vars, outside, storeVars, walkVars, GatheringStill
  <2> QED
    BY <1>0, <2>1 DEF FreshOK, GatheringStill, Postgres
<1>2. ASSUME NEW s \in Sources, KeywordDelete(s)
      PROVE  FreshOK'
  <2>1. /\ phase = "keyword" /\ Postgres
        /\ keyword' = {k \in keyword : k.source # s \/ k.tenant # run.tenant}
        /\ replaced' = replaced \ {s}
        /\ UNCHANGED <<setting, phase, run, todo, loaded, fresh>>
    BY <1>2 DEF KeywordDelete, DeleteChunksBySource, outside
  <2>2. \A d \in fresh : d.source \notin replaced' => \A k \in keyword' : ~SameFile(d, k)
    BY <1>0, <2>1 DEF FreshOK, SameFile
  <2> QED
    BY <1>0, <2>1, <2>2 DEF FreshOK, Postgres
<1>3. ASSUME \/ \E t \in Tenants, reset \in BOOLEAN, files \in Selections : Start(t, reset, files)
             \/ WipeVectors \/ WipeRows \/ WipeDocStore \/ WipePickle \/ WipeManifest
      PROVE  FreshOK'
  <2>1. phase \in {"idle"} \cup Wiping /\ UNCHANGED <<fresh, loaded>>
    BY <1>3 DEF Start, WipeVectors, WipeRows, WipeDocStore, WipePickle, WipeManifest, walkVars,
                Wiping
  <2>2. fresh' = {}
    BY <1>0, <2>1 DEF FrameOK
  <2> QED
    BY <1>0, <2>1, <2>2 DEF FreshOK
<1>4. CASE Load
  <2>1. fresh' = {} /\ (loaded' = {} \/ loaded' = keyword)
    BY <1>0, <1>4 DEF Load, FrameOK
  <2> QED
    BY <1>0, <2>1 DEF FreshOK, KeywordSingle, SameFile
<1>5. CASE BeginKeyword \/ BeginIndex \/ DeleteStale \/ UpsertBatch \/ StoreParents
  <2>1. phase # "keyword" /\ UNCHANGED <<run, todo, loaded, fresh, replaced>>
    BY <1>5 DEF BeginKeyword, BeginIndex, DeleteStale, UpsertBatch, StoreParents, WalkOver, AtFile,
                walkVars
  <2> QED
    BY <1>0, <2>1, GatheredReplaced DEF FreshOK
<1>6. CASE Skip \/ FileFails \/ IndexFails
  <2>1. /\ phase # "keyword" /\ NextFile /\ todo # <<>>
        /\ UNCHANGED <<run, loaded, fresh, replaced>>
    BY <1>0, <1>6, LeaveFile DEF Walking, Skip, FileFails, IndexFails
  <2>2. \A d \in fresh, i \in DOMAIN todo' : todo'[i] # d.source
    BY <1>0, <2>1, NextFileType DEF FreshOK
  <2> QED
    BY <1>0, <2>1, <2>2, GatheredReplaced DEF FreshOK
<1>7. CASE Record
  <2>1. /\ phase # "keyword" /\ NextFile /\ todo # <<>> /\ UNCHANGED <<run, loaded>>
        /\ fresh' = fresh \cup {doc} /\ replaced' = replaced \cup {doc.source}
        /\ doc.tenant = run.tenant /\ doc.source = Head(todo)
    BY <1>0, <1>7, LeaveFile DEF Record, Walking, FrameOK
  <2>2. 1 \in DOMAIN todo /\ todo[1] = doc.source
    BY <1>0, <2>1 DEF TypeOK
  <2>3. \A d \in fresh : d.source # doc.source
    BY <1>0, <2>2 DEF FreshOK
  <2>4. \A d \in fresh', i \in DOMAIN todo' : todo'[i] # d.source
    BY <1>0, <2>1, NextFileType DEF FreshOK
  <2>5. \A d, e \in fresh' : SameFile(d, e) => d = e
    BY <1>0, <2>1, <2>3 DEF FreshOK, SameFile
  <2>6. \A d \in fresh' : d.tenant = run'.tenant /\ d.source \in replaced'
    BY <1>0, <2>1, GatheredReplaced DEF FreshOK
  <2> QED
    BY <1>0, <2>1, <2>4, <2>5, <2>6 DEF FreshOK
<1>8. CASE NothingNew \/ KeywordInsert \/ RebuildBm25 \/ Killed
  <2>1. fresh' = {} /\ loaded' = {}
    BY <1>8, EndType DEF NothingNew, KeywordInsert, RebuildBm25, Killed, Exit
  <2> QED
    BY <2>1 DEF FreshOK
<1> QED
  BY <1>1, <1>2, <1>3, <1>4, <1>5, <1>6, <1>7, <1>8 DEF Next

\* What a run gathered names no file twice, and what it finds of these files is
\* gone before it is written.
LEMMA KeywordStep == CliInv /\ [Next]_vars => KeywordSingle'
<1> SUFFICES ASSUME CliInv, [Next]_vars
             PROVE  KeywordSingle'
  OBVIOUS
<1>0. FreshOK /\ KeywordSingle
  BY DEF CliInv
<1>1. CASE KeywordInsert
  <2>1. /\ replaced = {} /\ keyword' = keyword \cup {d \in fresh : HasChunks(d)}
    BY <1>1 DEF KeywordInsert
  <2>2. \A d \in fresh, k \in keyword : ~SameFile(d, k)
    BY <1>0, <2>1 DEF FreshOK
  <2>3. \A d, e \in fresh : SameFile(d, e) => d = e
    BY <1>0 DEF FreshOK
  <2> QED
    BY <1>0, <2>1, <2>2, <2>3 DEF KeywordSingle, SameFile
<1>2. CASE RebuildBm25
  <2> DEFINE corpus == {d \in loaded : d.source \notin replaced} \cup {d \in fresh : HasChunks(d)}
  <2>1. ~Postgres /\ (keyword' = keyword \/ keyword' = corpus)
    BY <1>2 DEF RebuildBm25
  <2>2. \A d \in fresh : d.source \in replaced
    BY <1>0, <2>1 DEF FreshOK
  <2>3. \A d, e \in fresh : SameFile(d, e) => d = e
    BY <1>0 DEF FreshOK
  <2>4. \A d, e \in loaded : SameFile(d, e) => d = e
    BY <1>0 DEF FreshOK
  <2>5. \A d, e \in corpus : SameFile(d, e) => d = e
    BY <2>2, <2>3, <2>4 DEF SameFile
  <2> QED
    BY <1>0, <2>1, <2>5 DEF KeywordSingle, SameFile
<1>3. CASE ~KeywordInsert /\ ~RebuildBm25
  <2>1. keyword' \subseteq keyword
    BY <1>3 DEF Next, vars, storeVars, Edit, KeywordDelete, DeleteChunksBySource, Start, Parse,
                WipeVectors, WipeRows, WipeDocStore, WipePickle, WipeManifest, Load, Skip,
                FileFails, BeginIndex, DeleteStale, UpsertBatch, StoreParents, Record, IndexFails,
                NothingNew, BeginKeyword, Killed
  <2> QED
    BY <1>0, <2>1 DEF KeywordSingle
<1> QED
  BY <1>1, <1>2, <1>3

------------------------------------------------------------------------------
(* The theorems.                                                           *)

\* No document, no process, no entry.
LEMMA InitInv == Init => CliInv
<1> SUFFICES ASSUME Init
             PROVE  CliInv
  OBVIOUS
<1>1. TypeOK
  <2>1. runs \in 0..MaxRuns /\ edits \in 0..MaxEdits /\ faults \in 0..MaxFaults
    BY CliAssumption DEF Init
  <2>2. /\ manifest \in [Sources -> Entry \cup {None}] /\ serial \in [Files -> Nat]
        /\ parsed \in [Sources -> Files \cup {None}] /\ todo \in Seq(Sources)
    BY DEF Init
  <2> QED
    BY <2>1, <2>2 DEF Init, TypeOK
<1>2. FrameOK
  BY DEF Init, FrameOK, IsInjective
<1>3. ReplacedSoFar /\ FreshOK /\ EntriesOK /\ StuckOK /\ KeywordSingle
  BY DEF Init, ReplacedSoFar, FreshOK, EntriesOK, StuckOK, KeywordSingle, Wiping
<1> QED
  BY <1>1, <1>2, <1>3 DEF CliInv

\* The invariant holds in every state.
LEMMA CliInvariant == Spec => []CliInv
<1>1. CliInv /\ [Next]_vars => CliInv'
  BY TypeStep, FrameStep, BackedStep, StuckStep, FreshStep, KeywordStep DEF CliInv
<1> QED
  BY <1>1, InitInv, PTL DEF Spec

\* The types hold in every reachable state of the command.
THEOREM CliTypeCorrect == Spec => []TypeOK
<1>1. CliInv => TypeOK
  BY DEF CliInv
<1> QED
  BY <1>1, CliInvariant, PTL

\* No failure or kill of a replacement leaves an entry that the next run trusts
\* and that nothing backs, for any corpus, selections and number of runs: while the
\* version is half replaced, its entry is of another file than the one on disk.
\* The exceptions are those of EntriesBacked: a reset that was killed, and a file
\* put back.
THEOREM EntriesStand == Spec => []EntriesBacked
<1>1. CliInv => EntriesBacked
  BY DEF CliInv, EntriesOK, EntriesBacked, Unchanged
<1> QED
  BY <1>1, CliInvariant, PTL

\* Re-ingestion never doubles a file in the keyword index, for any corpus and
\* however many runs, kills and failures came before, in either deployment.
THEOREM NeverDoubled == Spec => []KeywordSingle
<1>1. CliInv => KeywordSingle
  BY DEF CliInv
<1> QED
  BY <1>1, CliInvariant, PTL

------------------------------------------------------------------------------
(* What --verify adds up.                                                  *)

\* Induction, by the least counterexample.
LEMMA ByInduction ==
    ASSUME NEW T, 0 \in T, \A n \in Nat : n \in T => n + 1 \in T
    PROVE  \A n \in Nat : n \in T
<1> SUFFICES ASSUME Nat \ T # {}
             PROVE  FALSE
  OBVIOUS
<1>1. PICK n \in Nat \ T : \A m \in Nat \ T : ~ (<<m, n>> \in OpToRel(<, Nat))
  BY NatLessThanWellFounded, WFMin
<1>2. OpToRel(<, Nat) = {p \in Nat \X Nat : p[1] < p[2]}
  BY DEF OpToRel
<1>3. n # 0 /\ n - 1 \in Nat
  OBVIOUS
<1>4. n - 1 \in T
  <2> SUFFICES ASSUME n - 1 \notin T
               PROVE  FALSE
    OBVIOUS
  <2>1. ~ (<<n - 1, n>> \in {p \in Nat \X Nat : p[1] < p[2]})
    BY <1>1, <1>2, <1>3
  <2> QED
    BY <1>3, <2>1
<1> QED
  BY <1>3, <1>4

\* f[x] numbers for each x of s.
Numbered(f, s) == {p \in s \X Nat : p[2] \in 1..f[p[1]]}

LEMMA NumberedOne ==
    ASSUME NEW f, NEW s, NEW x \in s, f[x] \in Nat
    PROVE  /\ Numbered(f, s) = Numbered(f, s \ {x}) \cup Numbered(f, {x})
           /\ Numbered(f, s \ {x}) \cap Numbered(f, {x}) = {}
           /\ IsFiniteSet(Numbered(f, {x})) /\ Cardinality(Numbered(f, {x})) = f[x]
<1>1. /\ Numbered(f, s) = Numbered(f, s \ {x}) \cup Numbered(f, {x})
      /\ Numbered(f, s \ {x}) \cap Numbered(f, {x}) = {}
  BY DEF Numbered
<1> DEFINE g == [n \in 1..f[x] |-> <<x, n>>]
<1>2. f[x] \in Nat /\ 1 \in Int /\ f[x] \in Int
  OBVIOUS
<1>3. IsFiniteSet(1..f[x]) /\ Cardinality(1..f[x]) = f[x]
  <2>1. /\ IsFiniteSet(1..f[x])
        /\ Cardinality(1..f[x]) = IF 1 > f[x] THEN 0 ELSE f[x] - 1 + 1
    BY <1>2, FS_Interval
  <2>2. (IF 1 > f[x] THEN 0 ELSE f[x] - 1 + 1) = f[x]
    BY <1>2
  <2> QED
    BY <2>1, <2>2
<1>4. g \in [1..f[x] -> Numbered(f, {x})]
  BY <1>2 DEF Numbered
<1>5. g \in Surjection(1..f[x], Numbered(f, {x})) /\ g \in Injection(1..f[x], Numbered(f, {x}))
  <2>1. \A p \in Numbered(f, {x}) : \E n \in 1..f[x] : g[n] = p
    BY DEF Numbered
  <2>2. \A m, n \in 1..f[x] : g[m] = g[n] => m = n
    OBVIOUS
  <2> HIDE DEF g
  <2> QED
    BY <1>4, <2>1, <2>2, Fun_IsInj, Fun_IsSurj
<1>6. IsFiniteSet(Numbered(f, {x})) /\ Cardinality(Numbered(f, {x})) = f[x]
  <2> HIDE DEF g
  <2> QED
    BY <1>3, <1>5, FS_Surjection
<1> QED
  BY <1>1, <1>6

\* A sum over a finite set counts the numbers.
LEMMA SumCounts ==
    ASSUME NEW S, IsFiniteSet(S), NEW f \in [S -> Nat]
    PROVE  IsFiniteSet(Numbered(f, S)) /\ SumFunction(f) = Cardinality(Numbered(f, S))
<1> DEFINE pick(s) == CHOOSE x \in s : TRUE
           count == [s \in SUBSET S |-> Cardinality(Numbered(f, s))]
           IsSum(g) == g = [s \in SUBSET S |->
                              IF s = {} THEN 0 ELSE f[pick(s)] + g[s \ {pick(s)}]]
           sum == CHOOSE g : IsSum(g)
           T == {n \in Nat : \A s \in SUBSET S : Cardinality(s) = n => IsFiniteSet(Numbered(f, s))}
           U == {n \in Nat : \A s \in SUBSET S : Cardinality(s) = n => sum[s] = count[s]}
<1>1. \A s \in SUBSET S : IsFiniteSet(s) /\ Cardinality(s) \in Nat
  BY FS_Subset, FS_CardinalityType
<1>2. \A s \in SUBSET S : (Cardinality(s) = 0) <=> (s = {})
  BY <1>1, FS_EmptySet
<1>3. \A s \in SUBSET S : s # {} => pick(s) \in s
  OBVIOUS
<1> HIDE DEF pick
<1>4. \A s \in SUBSET S : s # {} =>
        s \ {pick(s)} \in SUBSET S /\ Cardinality(s) = Cardinality(s \ {pick(s)}) + 1
  <2> SUFFICES ASSUME NEW s \in SUBSET S, s # {}
               PROVE  s \ {pick(s)} \in SUBSET S /\ Cardinality(s) = Cardinality(s \ {pick(s)}) + 1
    OBVIOUS
  <2>1. pick(s) \in s /\ IsFiniteSet(s) /\ Cardinality(s) \in Nat
    BY <1>1, <1>3
  <2>2. Cardinality(s \ {pick(s)}) = Cardinality(s) - 1
    BY <2>1, FS_RemoveElement
  <2> QED
    BY <2>1, <2>2
<1>5. Numbered(f, {}) = {}
  BY DEF Numbered
<1>6. IsFiniteSet({}) /\ Cardinality({}) = 0
  BY FS_EmptySet
<1>7. 0 \in T
  BY <1>2, <1>5, <1>6
<1>8. ASSUME NEW n \in Nat, n \in T
      PROVE  n + 1 \in T
  <2> SUFFICES ASSUME NEW s \in SUBSET S, Cardinality(s) = n + 1
               PROVE  IsFiniteSet(Numbered(f, s))
    OBVIOUS
  <2>1. s # {}
    BY <1>6
  <2>2. Cardinality(s \ {pick(s)}) = n /\ s \ {pick(s)} \in SUBSET S /\ pick(s) \in s
    BY <1>1, <1>3, <1>4, <2>1
  <2>3. IsFiniteSet(Numbered(f, s \ {pick(s)}))
    BY <1>8, <2>2
  <2>4. PICK x : x = pick(s) /\ x \in s /\ f[x] \in Nat
    BY <2>2
  <2>5. Numbered(f, s) = Numbered(f, s \ {x}) \cup Numbered(f, {x}) /\ IsFiniteSet(Numbered(f, {x}))
    BY <2>4, NumberedOne
  <2> QED
    <3>1. IsFiniteSet(Numbered(f, s \ {x}))
      BY <2>3, <2>4
    <3>2. IsFiniteSet(Numbered(f, s \ {x}) \cup Numbered(f, {x}))
      BY <2>5, <3>1, FS_Union
    <3> QED
      BY <2>5, <3>2
<1>9. \A n \in Nat : n \in T
  <2> HIDE DEF T
  <2> QED
    BY <1>7, <1>8, ByInduction
<1>10. \A s \in SUBSET S : IsFiniteSet(Numbered(f, s))
  BY <1>1, <1>9
<1>11. \A s \in SUBSET S : s # {} => count[s] = f[pick(s)] + count[s \ {pick(s)}]
  <2> SUFFICES ASSUME NEW s \in SUBSET S, s # {}
               PROVE  count[s] = f[pick(s)] + count[s \ {pick(s)}]
    OBVIOUS
  <2>1. pick(s) \in s /\ s \ {pick(s)} \in SUBSET S /\ f[pick(s)] \in Nat
    BY <1>3
  <2> DEFINE A == Numbered(f, s \ {pick(s)})
             B == Numbered(f, {pick(s)})
  <2>2. /\ Numbered(f, s) = A \cup B /\ A \cap B = {}
        /\ IsFiniteSet(B) /\ Cardinality(B) = f[pick(s)]
    <3>1. PICK x : x = pick(s) /\ x \in s /\ f[x] \in Nat
      BY <2>1
    <3>2. /\ Numbered(f, s) = Numbered(f, s \ {x}) \cup Numbered(f, {x})
          /\ Numbered(f, s \ {x}) \cap Numbered(f, {x}) = {}
          /\ IsFiniteSet(Numbered(f, {x})) /\ Cardinality(Numbered(f, {x})) = f[x]
      BY <3>1, NumberedOne
    <3> QED
      BY <3>1, <3>2
  <2>3. IsFiniteSet(A)
    BY <1>10, <2>1
  <2>4. count[s] = Cardinality(Numbered(f, s)) /\ count[s \ {pick(s)}] = Cardinality(A)
    BY <2>1
  <2> HIDE DEF A, B, count
  <2>5. Cardinality(A \cup B) = Cardinality(A) + Cardinality(B) - Cardinality(A \cap B)
    BY <2>2, <2>3, FS_Union
  <2>6. Cardinality(A) \in Nat /\ Cardinality(A \cap B) = 0
    BY <1>6, <2>2, <2>3, FS_CardinalityType
  <2> QED
    BY <2>1, <2>2, <2>4, <2>5, <2>6
<1>12. count[{}] = 0
  BY <1>5, <1>6
<1>13. IsSum(count)
  <2>1. \A s \in SUBSET S : count[s] = IF s = {} THEN 0 ELSE f[pick(s)] + count[s \ {pick(s)}]
    BY <1>11, <1>12
  <2> QED
    BY <2>1
<1>14. IsSum(sum)
  <2> HIDE DEF IsSum, count
  <2> QED
    BY <1>13
<1> HIDE DEF sum, count
<1>15. sum[{}] = 0 /\ \A s \in SUBSET S : s # {} => sum[s] = f[pick(s)] + sum[s \ {pick(s)}]
  BY <1>14
<1>16. 0 \in U
  BY <1>2, <1>12, <1>15
<1>17. ASSUME NEW n \in Nat, n \in U
       PROVE  n + 1 \in U
  <2> SUFFICES ASSUME NEW s \in SUBSET S, Cardinality(s) = n + 1
               PROVE  sum[s] = count[s]
    OBVIOUS
  <2>1. s # {}
    BY <1>6
  <2>2. Cardinality(s \ {pick(s)}) = n /\ s \ {pick(s)} \in SUBSET S
    BY <1>1, <1>4, <2>1
  <2>3. sum[s \ {pick(s)}] = count[s \ {pick(s)}]
    BY <1>17, <2>2
  <2> QED
    BY <1>11, <1>15, <2>1, <2>3
<1>18. \A n \in Nat : n \in U
  <2> HIDE DEF U
  <2> QED
    BY <1>16, <1>17, ByInduction
<1>19. sum[S] = count[S]
  BY <1>1, <1>18
<1>20. SumFunction(f) = sum[S]
  BY DEF SumFunction, SumFunctionOnSet, FoldFunctionOnSet, MapThenFoldSet, sum, pick
<1> QED
  BY <1>10, <1>19, <1>20 DEF count

LEMMA Counted ==
    ASSUME NEW S, IsFiniteSet(S), NEW f \in [S -> Nat], NEW points,
           NEW h \in [Numbered(f, S) -> points],
           \A p, q \in Numbered(f, S) : h[p] = h[q] => p = q,
           \A x \in points : \E p \in Numbered(f, S) : h[p] = x
    PROVE  SumFunction(f) = Cardinality(points)
<1>1. IsFiniteSet(Numbered(f, S)) /\ SumFunction(f) = Cardinality(Numbered(f, S))
  BY SumCounts
<1>2. h \in Injection(Numbered(f, S), points) /\ h \in Surjection(Numbered(f, S), points)
  BY Fun_IsInj, Fun_IsSurj
<1>3. Cardinality(points) = Cardinality(Numbered(f, S))
  BY <1>1, <1>2, FS_Surjection
<1> QED
  BY <1>1, <1>3

\* The chunks of the entries, and those in the keyword index, against the points.
LEMMA Tally ==
    ASSUME NEW built, IsFiniteSet(built), built \subseteq Doc,
           \A d, e \in built : d.source = e.source => d = e,
           NEW names, names = {d.source : d \in built}, NEW chunks \in [names -> Nat],
           \A d \in built : chunks[d.source] = Batches[d.file],
           NEW points, points = UNION {AllPoints(d) : d \in built},
           NEW indexed, indexed = {d \in built : HasChunks(d)}
    PROVE  /\ SumFunction(chunks) = Cardinality(points)
           /\ SumFunction([d \in indexed |-> Batches[d.file]]) = Cardinality(points)
<1>1. \A d \in built : Batches[d.file] \in Nat
  BY StoreAssumption DEF Doc
<1>2. \A x \in points : \E d \in built : \E n \in 1..Batches[d.file] : x = [doc |-> d, batch |-> n]
  BY DEF AllPoints
<1>3. \A d \in built : \A n \in 1..Batches[d.file] : [doc |-> d, batch |-> n] \in points
  BY DEF AllPoints
<1>4. SumFunction(chunks) = Cardinality(points)
  <2> DEFINE docOf(s) == CHOOSE d \in built : d.source = s
             h == [p \in Numbered(chunks, names) |-> [doc |-> docOf(p[1]), batch |-> p[2]]]
             g == [d \in built |-> d.source]
  <2>1. \A s \in names : docOf(s) \in built /\ docOf(s).source = s
    OBVIOUS
  <2>2. \A d \in built : docOf(d.source) = d /\ d.source \in names
    BY <2>1
  <2> HIDE DEF docOf
  <2>3. IsFiniteSet(names)
    <3>1. g \in [built -> names] /\ \A s \in names : \E d \in built : g[d] = s
      OBVIOUS
    <3>2. g \in Surjection(built, names)
      <4> HIDE DEF g
      <4> QED
        BY <3>1, Fun_IsSurj
    <3> HIDE DEF g
    <3> QED
      BY <3>2, FS_Surjection
  <2>4. \A s \in names : chunks[s] = Batches[docOf(s).file] /\ chunks[s] \in Nat
    BY <1>1, <2>1
  <2>5. chunks \in [names -> Nat]
    OBVIOUS
  <2>6. \A p \in Numbered(chunks, names) :
          /\ p = <<p[1], p[2]>> /\ p[1] \in names /\ p[2] \in 1..chunks[p[1]]
          /\ h[p] = [doc |-> docOf(p[1]), batch |-> p[2]]
    BY DEF Numbered
  <2>7. \A s \in names : \A n \in 1..chunks[s] : <<s, n>> \in Numbered(chunks, names)
    BY <2>4 DEF Numbered
  <2>8. h \in [Numbered(chunks, names) -> points]
    BY <1>3, <2>1, <2>4, <2>6
  <2>9. ASSUME NEW p \in Numbered(chunks, names), NEW q \in Numbered(chunks, names), h[p] = h[q]
        PROVE  p = q
    <3>1. docOf(p[1]) = docOf(q[1]) /\ p[2] = q[2]
      BY <2>6, <2>9
    <3> QED
      BY <2>1, <2>6, <3>1
  <2>10. ASSUME NEW x \in points
         PROVE  \E p \in Numbered(chunks, names) : h[p] = x
    <3>1. PICK d \in built : \E n \in 1..Batches[d.file] : x = [doc |-> d, batch |-> n]
      BY <1>2
    <3>2. PICK n \in 1..Batches[d.file] : x = [doc |-> d, batch |-> n]
      BY <3>1
    <3>3. <<d.source, n>> \in Numbered(chunks, names)
      BY <2>2, <2>7
    <3>4. h[<<d.source, n>>] = [doc |-> docOf(d.source), batch |-> n]
      BY <3>3
    <3> QED
      BY <2>2, <3>2, <3>3, <3>4
  <2> HIDE DEF h
  <2> QED
    BY <2>3, <2>5, <2>8, <2>9, <2>10, Counted
<1>5. SumFunction([d \in indexed |-> Batches[d.file]]) = Cardinality(points)
  <2> DEFINE f == [d \in indexed |-> Batches[d.file]]
             h == [p \in Numbered(f, indexed) |-> [doc |-> p[1], batch |-> p[2]]]
  <2>1. IsFiniteSet(indexed)
    BY FS_Subset
  <2>2. f \in [indexed -> Nat] /\ \A d \in indexed : f[d] = Batches[d.file]
    BY <1>1
  <2> HIDE DEF f
  <2>3. \A p \in Numbered(f, indexed) :
          /\ p = <<p[1], p[2]>> /\ p[1] \in indexed /\ p[2] \in 1..f[p[1]]
          /\ h[p] = [doc |-> p[1], batch |-> p[2]]
    BY DEF Numbered
  <2>4. \A d \in indexed : \A n \in 1..f[d] : <<d, n>> \in Numbered(f, indexed)
    BY <2>2 DEF Numbered
  <2>5. h \in [Numbered(f, indexed) -> points]
    BY <1>3, <2>2, <2>3
  <2>6. ASSUME NEW p \in Numbered(f, indexed), NEW q \in Numbered(f, indexed), h[p] = h[q]
        PROVE  p = q
    BY <2>3, <2>6
  <2>7. ASSUME NEW x \in points
        PROVE  \E p \in Numbered(f, indexed) : h[p] = x
    <3>1. PICK d \in built : \E n \in 1..Batches[d.file] : x = [doc |-> d, batch |-> n]
      BY <1>2
    <3>2. PICK n \in 1..Batches[d.file] : x = [doc |-> d, batch |-> n]
      BY <3>1
    <3>3. d \in indexed
      BY <1>1, <3>2 DEF HasChunks
    <3>4. <<d, n>> \in Numbered(f, indexed)
      BY <2>2, <2>4, <3>3
    <3> QED
      BY <3>2, <3>4
  <2> HIDE DEF h
  <2>8. SumFunction(f) = Cardinality(points)
    BY <2>1, <2>2, <2>5, <2>6, <2>7, Counted
  <2> QED
    BY <2>8 DEF f
<1> QED
  BY <1>4, <1>5
------------------------------------------------------------------------------
(* A reset.                                                                *)

\* The stores that are wiped, one after the other.
WipedSoFar ==
    /\ phase \in {"wipe_rows", "wipe_docstore", "wipe_pickle", "wipe_manifest", "load"} => vectors = {}
    /\ phase \in {"wipe_pickle", "wipe_manifest", "load"} => parents = stuck
    /\ phase \in {"wipe_manifest", "load"} => keyword = {}
    /\ phase = "load" => \A s \in Sources : manifest[s] = None

\* What the walk has built from nothing: the documents it gathered and the one
\* it is at are all there is, but for undeleted parents, and the names ahead of it complete the selection.
BuiltSoFar ==
    phase \in Walking \cup {"keyword"} =>
        /\ loaded = {} /\ keyword = {}
        /\ \A d \in Doc : d \in parents <=> d \in fresh \/ (phase = "save" /\ d = doc) \/ d \in stuck
        /\ \A p \in Point :
             p \in vectors
             <=> p.doc \in fresh \/ (phase \in {"upsert", "save"} /\ p.doc = doc /\ p.batch < batch)
        /\ \A s \in Sources : manifest[s] # None => \E d \in fresh : d.source = s
        /\ \A d \in fresh :
             /\ manifest[d.source] # None
             /\ manifest[d.source].chunks = Batches[d.file]
             /\ d.source \notin raced => manifest[d.source].file = d.file
        /\ \A s \in Sources :
             (\E i \in DOMAIN run.files : run.files[i] = s)
             <=> (\E i \in DOMAIN todo : todo[i] = s) \/ (\E d \in fresh : d.source = s)
        /\ phase = "keyword" => todo = <<>>

Rebuilding == phase # "idle" /\ run.reset /\ ~failed

ResetInv ==
    /\ Rebuilding => WipedSoFar /\ BuiltSoFar
    /\ phase \in Wiping \cup {"load"} => todo = run.files
    /\ last # None => phase = "idle"
    /\ ResetRebuilds

\* The steps of the wipe.
LEMMA WipeStep ==
    ASSUME CliInv, ResetInv, Rebuilding',
           \/ \E t \in Tenants, reset \in BOOLEAN, files \in Selections : Start(t, reset, files)
           \/ WipeVectors \/ WipeRows \/ WipeDocStore \/ WipePickle \/ WipeManifest
    PROVE  WipedSoFar' /\ BuiltSoFar'
<1>1. CASE \E t \in Tenants, reset \in BOOLEAN, files \in Selections : Start(t, reset, files)
  <2>1. phase' = "wipe_vectors"
    BY <1>1 DEF Start, Rebuilding
  <2> QED
    BY <2>1 DEF WipedSoFar, BuiltSoFar, Walking
<1>2. CASE WipeVectors \/ WipeRows \/ WipeDocStore \/ WipePickle \/ WipeManifest
  <2>1. WipedSoFar
    BY <1>2 DEF WipeVectors, WipeRows, WipeDocStore, WipePickle, WipeManifest, walkVars,
                ResetInv, Rebuilding
  <2>2. phase' \in {"wipe_rows", "wipe_docstore", "wipe_pickle", "wipe_manifest", "load"}
    BY <1>2 DEF WipeVectors, WipeRows, WipeDocStore, WipePickle, WipeManifest
  <2>3. BuiltSoFar'
    BY <2>2 DEF BuiltSoFar, Walking
  <2>4. WipedSoFar'
    BY <1>2, <2>1 DEF WipeVectors, WipeRows, WipeDocStore, WipePickle, WipeManifest, WipedSoFar,
                           historyVars
  <2> QED
    BY <2>3, <2>4
<1> QED
  BY <1>1, <1>2

\* The walk begins with nothing there.
LEMMA LoadStep ==
    ASSUME CliInv, ResetInv, Rebuilding', Load
    PROVE  WipedSoFar' /\ BuiltSoFar'
<1>1. /\ vectors = {} /\ parents = stuck /\ keyword = {} /\ \A s \in Sources : manifest[s] = None
      /\ todo = run.files /\ fresh = {}
  BY DEF Load, ResetInv, Rebuilding, WipedSoFar, CliInv, FrameOK
<1>2. /\ loaded' = {} /\ phase' = "next" /\ fresh' = {}
      /\ UNCHANGED <<vectors, parents, keyword, manifest, run, todo, stuck>>
  BY <1>1 DEF Load, storeVars, historyVars
<1>3. WipedSoFar'
  BY <1>2 DEF WipedSoFar
<1>4. BuiltSoFar'
  BY <1>1, <1>2 DEF BuiltSoFar
<1> QED
  BY <1>3, <1>4

\* No file is skipped: the entries are of files the walk has left behind.
LEMMA NoneSkipped ==
    ASSUME CliInv, Rebuilding, BuiltSoFar
    PROVE  ~ Skip
<1> SUFFICES ASSUME Skip
             PROVE  FALSE
  OBVIOUS
<1>1. PICK s \in Sources : phase = "next" /\ todo # <<>> /\ s = Head(todo) /\ manifest[s] # None
  BY DEF Skip, AtFile, Unchanged
<1>2. PICK d \in fresh : d.source = s
  BY <1>1 DEF BuiltSoFar, Walking
<1>3. 1 \in DOMAIN todo /\ todo[1] = s
  BY <1>1 DEF CliInv, TypeOK
<1> QED
  BY <1>2, <1>3 DEF CliInv, FreshOK

\* A point is a batch of a document.
LEMMA PointType ==
    ASSUME NEW p \in Point
    PROVE  /\ p.doc \in Doc /\ p.doc.source \in Sources /\ p.doc.file \in Files
           /\ p.batch \in 1..Batches[p.doc.file] /\ Batches[p.doc.file] \in Nat /\ p.batch \in Nat
           /\ p = [doc |-> p.doc, batch |-> p.batch]
<1>1. p.doc \in Doc /\ p.batch \in Nat /\ p = [doc |-> p.doc, batch |-> p.batch]
      /\ p.batch \in 1..Batches[p.doc.file]
  BY DEF Point
<1> QED
  BY <1>1, StoreAssumption DEF Doc

\* The steps around the file the walk is at.
LEMMA FileStep ==
    ASSUME CliInv, Rebuilding, BuiltSoFar, BeginIndex \/ DeleteStale \/ UpsertBatch \/ StoreParents
    PROVE  BuiltSoFar'
<1>1. CASE BeginIndex
  <2>1. phase = "next" /\ phase' = "delete"
        /\ UNCHANGED <<vectors, parents, keyword, manifest, run, todo, loaded, fresh, raced, stuck>>
    BY <1>1 DEF BeginIndex, AtFile, storeVars, historyVars
  <2> QED
    BY <2>1 DEF BuiltSoFar, Walking
<1>2. CASE DeleteStale
  <2>1. /\ phase = "delete" /\ phase' = "upsert"
        /\ vectors' = {p \in vectors : p.doc.source # doc.source}
        /\ UNCHANGED <<parents, keyword, manifest, run, todo, loaded, fresh, raced, stuck, doc, batch>>
    BY <1>2 DEF DeleteStale, DeleteSource, walkVars, historyVars
  <2>2. \A d \in fresh : d.source # doc.source
    <3>1. 1 \in DOMAIN todo /\ todo[1] = doc.source
      BY <2>1 DEF CliInv, TypeOK, FrameOK
    <3> QED
      BY <3>1 DEF CliInv, FreshOK
  <2>3. batch = 1
    BY <2>1 DEF CliInv, FrameOK
  <2>4. \A p \in Point :
         p \in vectors'
         <=> p.doc \in fresh' \/ (phase' \in {"upsert", "save"} /\ p.doc = doc' /\ p.batch < batch')
    <3> SUFFICES ASSUME NEW p \in Point
                 PROVE  p \in vectors' <=> p.doc \in fresh \/ (p.doc = doc /\ p.batch < 1)
      BY <2>1, <2>3
    <3>1. ~ (p.batch < 1)
      BY PointType
    <3>2. p \in vectors <=> p.doc \in fresh
      BY <2>1 DEF BuiltSoFar, Walking
    <3> QED
      BY <2>1, <2>2, <3>1, <3>2
  <2> QED
    BY <2>1, <2>4 DEF BuiltSoFar, Walking
<1>3. CASE UpsertBatch
  <2>1. /\ phase = "upsert" /\ phase' = "upsert"
        /\ vectors' = vectors \cup {[doc |-> doc, batch |-> batch]} /\ batch' = batch + 1
        /\ UNCHANGED <<parents, keyword, manifest, run, todo, loaded, fresh, raced, stuck, doc>>
    BY <1>3 DEF UpsertBatch, Upsert, historyVars
  <2>2. batch \in Nat
    BY DEF CliInv, TypeOK
  <2>3. \A p \in Point :
         p \in vectors'
         <=> p.doc \in fresh' \/ (phase' \in {"upsert", "save"} /\ p.doc = doc' /\ p.batch < batch')
    <3> SUFFICES ASSUME NEW p \in Point
                 PROVE  p \in vectors' <=> p.doc \in fresh \/ (p.doc = doc /\ p.batch < batch + 1)
      BY <2>1
    <3>1. p.batch \in Nat /\ p = [doc |-> p.doc, batch |-> p.batch]
      BY PointType
    <3>2. p \in vectors <=> p.doc \in fresh \/ (p.doc = doc /\ p.batch < batch)
      BY <2>1 DEF BuiltSoFar, Walking
    <3>3. p = [doc |-> doc, batch |-> batch] <=> p.doc = doc /\ p.batch = batch
      BY <3>1
    <3>4. p.batch < batch + 1 <=> p.batch < batch \/ p.batch = batch
      BY <2>2, <3>1
    <3> QED
      BY <2>1, <3>2, <3>3, <3>4
  <2> QED
    BY <2>1, <2>3 DEF BuiltSoFar, Walking
<1>4. CASE StoreParents
  <2>1. /\ phase = "upsert" /\ phase' = "save" /\ parents' = parents \cup {doc}
        /\ UNCHANGED <<vectors, keyword, manifest, run, todo, loaded, fresh, raced, stuck, doc, batch>>
    BY <1>4 DEF StoreParents, MSet, walkVars, historyVars
  <2> QED
    BY <2>1 DEF BuiltSoFar, Walking
<1> QED
  BY <1>1, <1>2, <1>3, <1>4

\* A file that is done moves from the names ahead to the documents gathered.
LEMMA RecordStep ==
    ASSUME CliInv, Rebuilding, BuiltSoFar, Record
    PROVE  BuiltSoFar'
<1>1. /\ phase = "save" /\ phase' = "next" /\ NextFile /\ todo # <<>>
      /\ manifest' = [manifest EXCEPT ![doc.source] = [file |-> digest, chunks |-> Batches[doc.file]]]
      /\ fresh' = fresh \cup {doc}
      /\ raced' = IF digest = doc.file THEN raced \ {doc.source} ELSE raced \cup {doc.source}
      /\ UNCHANGED <<vectors, parents, keyword, run, loaded, stuck>>
  BY DocType DEF Record, NextFile, CliInv
<1>2. /\ doc.source \in Sources /\ doc.source = Head(todo) /\ Batches[doc.file] \in Nat
      /\ batch = Batches[doc.file] + 1 /\ doc \in Doc
  BY <1>1, DocType DEF CliInv, ReplacedSoFar
<1>3. 1 \in DOMAIN todo /\ todo[1] = doc.source /\ todo \in Seq(Sources)
  BY <1>1, <1>2 DEF CliInv, TypeOK
<1>4. \A d \in fresh : d.source # doc.source /\ d.source \in Sources
  BY <1>3 DEF CliInv, FreshOK, TypeOK, Doc
<1>5. loaded' = {} /\ keyword' = {} /\ \A d \in Doc : d \in parents' <=> d \in fresh' \/ d \in stuck'
  BY <1>1 DEF BuiltSoFar, Walking
<1>6. \A p \in Point : p \in vectors' <=> p.doc \in fresh'
  <2> SUFFICES ASSUME NEW p \in Point
               PROVE  p \in vectors' <=> p.doc \in fresh'
    OBVIOUS
  <2>1. p \in vectors <=> p.doc \in fresh \/ (p.doc = doc /\ p.batch < batch)
    BY <1>1 DEF BuiltSoFar, Walking
  <2>2. p.doc = doc => p.batch < batch
    BY <1>2, PointType
  <2> QED
    BY <1>1, <2>1, <2>2
<1>7. /\ manifest'[doc.source] = [file |-> digest, chunks |-> Batches[doc.file]]
      /\ \A s \in Sources : s # doc.source => manifest'[s] = manifest[s]
  BY <1>1, <1>2 DEF CliInv, TypeOK
<1>8. manifest'[doc.source] # None
  <2>1. [file |-> digest, chunks |-> Batches[doc.file]] \in Entry
    BY <1>1, <1>2, DocType DEF CliInv, Entry
  <2> QED
    BY <1>7, <2>1, CliAssumption
<1>9. \A s \in Sources : manifest'[s] # None => \E d \in fresh' : d.source = s
  BY <1>1, <1>7 DEF BuiltSoFar, Walking
<1>10. ASSUME NEW d \in fresh'
       PROVE  /\ manifest'[d.source] # None
              /\ manifest'[d.source].chunks = Batches[d.file]
              /\ d.source \notin raced' => manifest'[d.source].file = d.file
  <2>1. CASE d = doc
    BY <1>1, <1>7, <1>8, <2>1
  <2>2. CASE d \in fresh
    <3>1. /\ manifest[d.source] # None
          /\ manifest[d.source].chunks = Batches[d.file]
          /\ d.source \notin raced => manifest[d.source].file = d.file
      BY <1>1, <2>2 DEF BuiltSoFar, Walking
    <3>2. manifest'[d.source] = manifest[d.source] /\ (d.source \notin raced' => d.source \notin raced)
      BY <1>1, <1>4, <1>7, <2>2
    <3> QED
      BY <3>1, <3>2
  <2> QED
    BY <1>1, <2>1, <2>2
<1>11. \A s \in Sources :
         (\E i \in DOMAIN run'.files : run'.files[i] = s)
         <=> (\E i \in DOMAIN todo' : todo'[i] = s) \/ (\E d \in fresh' : d.source = s)
  <2>1. todo' = Tail(todo)
    BY <1>1 DEF NextFile
  <2> SUFFICES ASSUME NEW s \in Sources
               PROVE  (\E i \in DOMAIN run'.files : run'.files[i] = s)
                      <=> (\E i \in DOMAIN todo' : todo'[i] = s) \/ (\E d \in fresh' : d.source = s)
    OBVIOUS
  <2>2. (\E i \in DOMAIN todo : todo[i] = s) <=> s = doc.source \/ (\E i \in DOMAIN todo' : todo'[i] = s)
    <3>1. \A i \in DOMAIN todo' : i + 1 \in DOMAIN todo /\ todo'[i] = todo[i + 1]
      BY <1>3, <2>1
    <3>2. \A i \in DOMAIN todo : i # 1 => i - 1 \in DOMAIN todo' /\ todo'[i - 1] = todo[i]
      BY <1>1, <1>3, <2>1
    <3> QED
      BY <1>3, <3>1, <3>2
  <2>3. (\E i \in DOMAIN run.files : run.files[i] = s)
        <=> (\E i \in DOMAIN todo : todo[i] = s) \/ (\E d \in fresh : d.source = s)
    BY <1>1 DEF BuiltSoFar, Walking
  <2>4. (\E d \in fresh' : d.source = s) <=> s = doc.source \/ (\E d \in fresh : d.source = s)
    BY <1>1
  <2> QED
    BY <1>1, <2>2, <2>3, <2>4
<1> QED
  BY <1>1, <1>5, <1>6, <1>9, <1>10, <1>11 DEF BuiltSoFar, Walking
\* What a rebuild leaves when it ends.
LEMMA Rebuilt ==
    ASSUME CliInv, BuiltSoFar, phase \in {"next", "keyword"}, todo = <<>>, Exit,
           UNCHANGED <<setting, manifest, vectors, parents, raced, stuck>>,
           run.reset /\ ~failed => keyword' = {d \in fresh : HasChunks(d)}
    PROVE  ResetRebuilds'
<1>1. last' = [run |-> run, ok |-> ~failed /\ run.files # <<>>]
  BY DEF Exit
<1>2. CASE ~ (run.reset /\ ~failed /\ run.files # <<>>)
  BY <1>1, <1>2 DEF ResetRebuilds
<1>3. CASE run.reset /\ ~failed /\ run.files # <<>>
  <2> DEFINE names == {run.files[i] : i \in DOMAIN run.files}
             entries == {s \in Sources : manifest[s] # None}
             chunks == [s \in entries |-> manifest[s].chunks]
             points == UNION {AllPoints(d) : d \in fresh}
             indexed == {d \in fresh : HasChunks(d)}
  <2>1. PICK t : t = run.tenant
    OBVIOUS
  <2>2. /\ fresh \subseteq Doc /\ parents \subseteq Doc /\ vectors \subseteq Point
        /\ \A d \in fresh : d.tenant = t
        /\ \A d, e \in fresh : d.source = e.source => d = e
        /\ \A d \in fresh : d.source \in Sources
    BY <2>1 DEF CliInv, TypeOK, FreshOK, SameFile, Doc
  <2>3. /\ \A d \in Doc : d \in parents <=> d \in fresh \/ d \in stuck
        /\ \A d \in fresh : d \notin stuck
        /\ \A p \in Point : p \in vectors <=> p.doc \in fresh
        /\ \A s \in Sources : manifest[s] # None => \E d \in fresh : d.source = s
        /\ \A d \in fresh : /\ manifest[d.source] # None
                            /\ manifest[d.source].chunks = Batches[d.file]
                            /\ d.source \notin raced => manifest[d.source].file = d.file
        /\ \A s \in Sources :
             (\E i \in DOMAIN run.files : run.files[i] = s) <=> (\E d \in fresh : d.source = s)
    BY DEF BuiltSoFar, Walking, CliInv, StuckOK
  <2>4. parents \ stuck = fresh /\ keyword' = indexed
    BY <1>3, <2>2, <2>3
  <2>5. run.files \in Seq(Sources)
    BY CliAssumption DEF CliInv, FrameOK, Run
  <2>6. names = {d.source : d \in fresh} /\ entries = names
    BY <2>2, <2>3, <2>5
  <2>7. vectors = points
    <3>1. \A p \in vectors : p \in AllPoints(p.doc) /\ p.doc \in fresh
      BY <2>2, <2>3, PointType DEF AllPoints
    <3>2. ASSUME NEW d \in fresh, NEW p \in AllPoints(d)
          PROVE  p \in vectors
      <4>1. PICK n \in 1..Batches[d.file] : p = [doc |-> d, batch |-> n]
        BY DEF AllPoints
      <4>2. p \in Point
        BY <2>2, <4>1, DocType DEF Point
      <4> QED
        BY <2>3, <4>1, <4>2
    <3> QED
      BY <3>1, <3>2
  <2>8. IsFiniteSet(names)
    <3> DEFINE g == [i \in 1..Len(run.files) |-> run.files[i]]
    <3>1. Len(run.files) \in Int /\ 1 \in Int /\ DOMAIN run.files = 1..Len(run.files)
      BY <2>5
    <3>2. IsFiniteSet(1..Len(run.files))
      BY <3>1, FS_Interval
    <3>3. g \in [1..Len(run.files) -> names] /\ \A s \in names : \E i \in 1..Len(run.files) : g[i] = s
      BY <3>1
    <3> HIDE DEF g, names
    <3>4. g \in Surjection(1..Len(run.files), names)
      BY <3>3, Fun_IsSurj
    <3> QED
      BY <3>2, <3>4, FS_Surjection
  <2>9. IsFiniteSet(fresh)
    <3> DEFINE g == [d \in fresh |-> d.source]
    <3>1. g \in [fresh -> names] /\ \A d, e \in fresh : g[d] = g[e] => d = e
      BY <2>2, <2>6
    <3> HIDE DEF g, names
    <3> QED
      BY <2>8, <3>1, Fun_IsInj, FS_Injection
  <2>10. chunks \in [names -> Nat] /\ \A d \in fresh : chunks[d.source] = Batches[d.file]
    <3>1. \A d \in fresh : Batches[d.file] \in Nat
      BY <2>2, StoreAssumption DEF Doc
    <3>2. \A d \in fresh : d.source \in entries
      BY <2>6
    <3>3. \A s \in entries : \E d \in fresh : d.source = s
      BY <2>6
    <3>4. \A s \in entries : manifest[s].chunks \in Nat
      BY <2>3, <3>1, <3>3
    <3>5. chunks \in [entries -> Nat]
      BY <3>4
    <3> QED
      BY <2>3, <2>6, <3>2, <3>5
  <2>11. /\ SumFunction(chunks) = Cardinality(points)
         /\ SumFunction([d \in indexed |-> Batches[d.file]]) = Cardinality(points)
    <3>1. PICK c : c = chunks
      OBVIOUS
    <3>2. PICK ps : ps = points
      OBVIOUS
    <3>3. PICK ix : ix = indexed
      OBVIOUS
    <3>4. PICK ns : ns = names
      OBVIOUS
    <3>5. c \in [ns -> Nat] /\ \A d \in fresh : c[d.source] = Batches[d.file]
      BY <2>10, <3>1, <3>4
    <3>6. ns = {d.source : d \in fresh}
      BY <2>6, <3>4
    <3>7. ps = UNION {AllPoints(d) : d \in fresh} /\ ix = {d \in fresh : HasChunks(d)}
      BY <3>2, <3>3
    <3>8. SumFunction(c) = Cardinality(ps) /\ SumFunction([d \in ix |-> Batches[d.file]]) = Cardinality(ps)
      BY <2>2, <2>9, <3>5, <3>6, <3>7, Tally
    <3> QED
      BY <3>1, <3>2, <3>3, <3>8
  <2>12. KeywordHits(Postgres', keyword', t) = indexed
    BY <2>2, <2>4 DEF KeywordHits, Visible
  <2>13. {p \in vectors : p.doc.tenant = t} = vectors
    BY <2>2, <2>3
  <2>14. entries # {}
    BY <1>3, <2>5, <2>6
  <2>15. ~ Drift(t)'
    <3>1. Cardinality(vectors) = SumFunction(chunks)
          /\ Cardinality({p \in vectors : p.doc.tenant = t}) = SumFunction([d \in indexed |-> Batches[d.file]])
      BY <2>7, <2>11, <2>13
    <3>2. Drift(t)' <=> \/ entries = {}
                        \/ SumFunction(chunks) > 0 /\ Cardinality(vectors) # SumFunction(chunks)
                        \/ Cardinality({p \in vectors : p.doc.tenant = t})
                             # SumFunction([d \in KeywordHits(Postgres', keyword', t) |-> Batches[d.file]])
      BY DEF Drift
    <3> QED
      BY <2>12, <2>14, <3>1, <3>2
  <2>17. /\ \A d \in parents \ stuck : d.tenant = t
         /\ {d.source : d \in parents \ stuck} = names
         /\ vectors = UNION {AllPoints(d) : d \in parents \ stuck}
         /\ keyword' = {d \in parents \ stuck : HasChunks(d)}
         /\ \A d \in parents \ stuck : d.source \notin raced => manifest[d.source].file = d.file
    BY <2>2, <2>3, <2>4, <2>6, <2>7
  <2>18. last'.run = run /\ last'.run.tenant = t
    BY <1>1, <2>1
  <2> HIDE DEF points, indexed, chunks, entries
  <2>19. Drift(last.run.tenant)' <=> Drift(t)'
    BY <2>18 DEF Drift
  <2> QED
    BY <2>15, <2>17, <2>18, <2>19 DEF ResetRebuilds
<1> QED
  BY <1>2, <1>3

LEMMA ResetStep == CliInv /\ ResetInv /\ [Next]_vars => ResetInv'
<1> SUFFICES ASSUME CliInv, ResetInv, [Next]_vars
             PROVE  ResetInv'
  OBVIOUS
<1>1. Rebuilding' => WipedSoFar' /\ BuiltSoFar'
  <2> SUFFICES ASSUME Rebuilding'
               PROVE  WipedSoFar' /\ BuiltSoFar'
    OBVIOUS
  <2>1. ASSUME \/ UNCHANGED vars \/ \E s \in Sources : Edit(s)
               \/ \E i \in 1..Lookahead : Parse(i)
        PROVE  WipedSoFar' /\ BuiltSoFar'
    <3>1. UNCHANGED <<phase, run, failed, vectors, parents, keyword, manifest, loaded, fresh, doc,
                      batch, raced, stuck, todo>>
      BY <2>1 DEF Edit, Parse, vars, storeVars, walkVars, historyVars
    <3>2. WipedSoFar /\ BuiltSoFar
      BY <3>1 DEF ResetInv, Rebuilding
    <3> QED
      BY <3>1, <3>2 DEF WipedSoFar, BuiltSoFar
  <2>2. ASSUME \/ \E t \in Tenants, reset \in BOOLEAN, files \in Selections : Start(t, reset, files)
               \/ WipeVectors \/ WipeRows \/ WipeDocStore \/ WipePickle \/ WipeManifest \/ Load
        PROVE  WipedSoFar' /\ BuiltSoFar'
    BY <2>2, WipeStep, LoadStep
  <2>3. CASE BeginIndex \/ DeleteStale \/ UpsertBatch \/ StoreParents \/ Record
    <3>1. Rebuilding
      BY <2>3, LeaveFile DEF Rebuilding, BeginIndex, AtFile, DeleteStale, UpsertBatch, StoreParents,
                             Record, walkVars
    <3>2. BuiltSoFar'
      BY <2>3, <3>1, FileStep, RecordStep DEF ResetInv
    <3>3. phase' \in Walking
      BY <2>3 DEF BeginIndex, DeleteStale, UpsertBatch, StoreParents, Record, NextFile, Walking
    <3> QED
      BY <3>2, <3>3 DEF WipedSoFar, Walking
  <2>4. ASSUME Skip \/ FileFails \/ IndexFails
        PROVE  FALSE
    <3>1. ~ (FileFails \/ IndexFails)
      BY DEF FileFails, IndexFails, Rebuilding
    <3>2. Rebuilding
      BY <2>4, <3>1 DEF Skip, AtFile, Rebuilding
    <3> QED
      BY <2>4, <3>1, <3>2, NoneSkipped DEF ResetInv
  <2>5. ASSUME BeginKeyword \/ \E s \in Sources : KeywordDelete(s)
        PROVE  WipedSoFar' /\ BuiltSoFar'
    <3>1. /\ phase \in {"next", "keyword"} /\ phase' = "keyword"
          /\ phase = "next" => todo = <<>>
          /\ keyword' \subseteq keyword
          /\ UNCHANGED <<run, failed, vectors, parents, manifest, loaded, fresh, raced, stuck, todo>>
      BY <2>5 DEF BeginKeyword, WalkOver, KeywordDelete, DeleteChunksBySource, storeVars, walkVars,
                  historyVars
    <3>2. BuiltSoFar
      BY <3>1 DEF ResetInv, Rebuilding
    <3> QED
      BY <3>1, <3>2 DEF WipedSoFar, BuiltSoFar, Walking
  <2>6. ASSUME NothingNew \/ KeywordInsert \/ RebuildBm25 \/ Killed
        PROVE  FALSE
    BY <2>6 DEF NothingNew, KeywordInsert, RebuildBm25, Killed, Exit, EndProcess, Rebuilding
  <2> QED
    BY <2>1, <2>2, <2>3, <2>4, <2>5, <2>6 DEF Next
<1>2. phase' \in Wiping \cup {"load"} => todo' = run'.files
  <2>1. ASSUME NEW t \in Tenants, NEW reset \in BOOLEAN, NEW files \in Selections,
               Start(t, reset, files)
        PROVE  todo' = run'.files
    BY <2>1 DEF Start
  <2>2. CASE WipeVectors \/ WipeRows \/ WipeDocStore \/ WipePickle \/ WipeManifest
    BY <2>2 DEF WipeVectors, WipeRows, WipeDocStore, WipePickle, WipeManifest, walkVars, ResetInv,
                Wiping
  <2>3. ASSUME \/ UNCHANGED vars \/ \E s \in Sources : Edit(s) \/ KeywordDelete(s)
               \/ \E i \in 1..Lookahead : Parse(i)
        PROVE  phase' \in Wiping \cup {"load"} => todo' = run'.files
    BY <2>3 DEF Edit, KeywordDelete, Parse, vars, walkVars, ResetInv
  <2>4. CASE \/ Load \/ Skip \/ FileFails \/ BeginIndex \/ DeleteStale \/ UpsertBatch
             \/ StoreParents \/ Record \/ IndexFails \/ NothingNew \/ BeginKeyword
             \/ KeywordInsert \/ RebuildBm25 \/ Killed
    <3>1. phase' \notin Wiping \cup {"load"}
      BY <2>4 DEF Load, Skip, FileFails, BeginIndex, DeleteStale, UpsertBatch, StoreParents, Record,
                  IndexFails, NothingNew, BeginKeyword, KeywordInsert, RebuildBm25, Killed, Exit,
                  EndProcess, NextFile, Wiping
    <3> QED
      BY <3>1
  <2> QED
    BY <2>1, <2>2, <2>3, <2>4 DEF Next
<1>3. (last' # None => phase' = "idle") /\ ResetRebuilds'
  <2>1. ASSUME NothingNew \/ KeywordInsert \/ RebuildBm25
        PROVE  phase' = "idle" /\ ResetRebuilds'
    <3>1. /\ Exit /\ phase \in {"next", "keyword"}
          /\ UNCHANGED <<setting, manifest, vectors, parents, raced, stuck>>
      BY <2>1 DEF NothingNew, KeywordInsert, RebuildBm25, WalkOver, outside, storeVars
    <3>2. phase' = "idle" /\ last' = [run |-> run, ok |-> ~failed /\ run.files # <<>>]
      BY <3>1 DEF Exit, EndProcess
    <3>3. CASE ~ (run.reset /\ ~failed)
      BY <3>2, <3>3 DEF ResetRebuilds
    <3>4. CASE run.reset /\ ~failed
      <4>1. BuiltSoFar
        BY <3>1, <3>4 DEF ResetInv, Rebuilding
      <4>2. todo = <<>> /\ keyword = {} /\ loaded = {}
        BY <2>1, <3>1, <4>1 DEF NothingNew, KeywordInsert, RebuildBm25, WalkOver, BuiltSoFar, Walking
      <4>3. keyword' = {d \in fresh : HasChunks(d)}
        <5>1. CASE NothingNew
          BY <4>2, <5>1, GatheredReplaced DEF NothingNew, WalkOver, CliInv, storeVars
        <5>2. CASE KeywordInsert
          BY <4>2, <5>2 DEF KeywordInsert
        <5>3. CASE RebuildBm25
          BY <4>2, <5>3 DEF RebuildBm25
        <5> QED
          BY <2>1, <5>1, <5>2, <5>3
      <4> QED
        BY <3>1, <3>2, <4>1, <4>2, <4>3, Rebuilt
    <3> QED
      BY <3>2, <3>3, <3>4
  <2>2. CASE UNCHANGED vars
    <3>1. UNCHANGED <<last, phase, setting, parents, vectors, keyword, manifest, raced, stuck>>
      BY <2>2 DEF vars, outside, storeVars, historyVars
    <3>2. ~ Drift(last.run.tenant) => ~ Drift(last.run.tenant)'
      BY <3>1 DEF Drift, Postgres
    <3>3. ResetRebuilds => ResetRebuilds'
      BY <3>1, <3>2 DEF ResetRebuilds
    <3> QED
      BY <3>1, <3>3 DEF ResetInv
  <2>3. ASSUME \/ \E s \in Sources : Edit(s) \/ KeywordDelete(s)
               \/ \E t \in Tenants, reset \in BOOLEAN, files \in Selections : Start(t, reset, files)
               \/ \E i \in 1..Lookahead : Parse(i)
               \/ WipeVectors \/ WipeRows \/ WipeDocStore \/ WipePickle \/ WipeManifest
               \/ Load \/ Skip \/ FileFails \/ BeginIndex \/ DeleteStale \/ UpsertBatch
               \/ StoreParents \/ Record \/ IndexFails \/ BeginKeyword \/ Killed
        PROVE  last' = None
    <3>1. CASE \E s \in Sources : Edit(s)
      BY <3>1 DEF Edit
    <3>2. CASE \E t \in Tenants, reset \in BOOLEAN, files \in Selections : Start(t, reset, files)
      BY <3>2 DEF Start
    <3>3. ASSUME \/ \E s \in Sources : KeywordDelete(s)
                 \/ \E i \in 1..Lookahead : Parse(i)
                 \/ WipeVectors \/ WipeRows \/ WipeDocStore \/ WipePickle \/ WipeManifest
                 \/ Load \/ Skip \/ FileFails \/ BeginIndex \/ DeleteStale \/ UpsertBatch
                 \/ StoreParents \/ Record \/ IndexFails \/ BeginKeyword \/ Killed
          PROVE  phase # "idle" /\ UNCHANGED last
      BY <3>3 DEF KeywordDelete, Parse, WipeVectors, WipeRows, WipeDocStore, WipePickle, WipeManifest,
                  Load, Skip, FileFails, BeginIndex, DeleteStale, UpsertBatch, StoreParents, Record,
                  IndexFails, BeginKeyword, Killed, AtFile, WalkOver, Walking, historyVars
    <3> QED
      BY <2>3, <3>1, <3>2, <3>3 DEF ResetInv
  <2> QED
    BY <2>1, <2>2, <2>3 DEF Next, ResetRebuilds
<1> QED
  BY <1>1, <1>2, <1>3 DEF ResetInv

\* A reset that exits 0 leaves the documents of its run, whole in all the stores,
\* and nothing else; --verify then finds the numbers it expects.
THEOREM ResetIsClean == Spec => []ResetRebuilds
<1>1. Init => ResetInv
  BY DEF Init, ResetInv, Rebuilding, ResetRebuilds, Wiping
<1>2. ResetInv => ResetRebuilds
  BY DEF ResetInv
<1> QED
  BY <1>1, <1>2, ResetStep, CliInvariant, PTL DEF Spec

==============================================================================
