---------------------------- MODULE IndexFileProofs ----------------------------
(***************************************************************************)
(* Proofs about IndexFile, for any savers, documents and runs, and any     *)
(* number of faults.                                                       *)
(***************************************************************************)
EXTENDS IndexFile, FiniteSetTheorems, TLAPS

Active(s) == pc[s] # "idle"

\* A save that no other one has overlapped with so far.
Alone(s) == pc[s] \in Dumping /\ s \notin overlapped

Mine(s) == [by |-> s, corpus |-> NewCorpus(s)]

\* The overlapped saves are under way, and beside one that is not overlapped
\* there is no other.
OverlapsKnown ==
    /\ \A s \in overlapped : pc[s] \in Dumping
    /\ \A s, u \in Savers : Alone(s) /\ u # s => pc[u] \notin Dumping

\* The two names are of different files, a handle on the index is an overlapped
\* save's, and path.tmp is all its own to a save that is not overlapped.
FilesApart ==
    /\ path # None => path # tmp
    /\ \A s \in Savers : handle[s] # None /\ handle[s] = path => s \in overlapped
    /\ \A s \in Savers : Alone(s) =>
         /\ tmp # None
         /\ pc[s] \in {"first", "second"} => handle[s] = tmp
         /\ pc[s] \in {"second", "replace"} => content[tmp][1] = Mine(s)
         /\ pc[s] = "replace" => content[tmp][2] = Mine(s)

\* The index is one whole dump unless a save that was overlapped touched it last.
WholeUnlessScarred == path # None => scarred \/ Whole(path)

\* The inductive invariant of the file operations.
FileInv == TypeOK /\ OverlapsKnown /\ FilesApart /\ WholeUnlessScarred

------------------------------------------------------------------------------
(* Helpers.                                                                *)

\* A file is left for every save that has to create path.tmp.
LEMMA FreeInode ==
    ASSUME TypeOK, tmp = None
    PROVE  Free # {}
<1> DEFINE held == {handle[u] : u \in Savers}
<1>1. IsFiniteSet(Savers) /\ Cardinality(Savers) \in Nat
  BY IndexAssumption, FS_CardinalityType
<1>2. IsFiniteSet(held) /\ Cardinality(held) <= Cardinality(Savers)
  <2>1. handle \in Surjection(Savers, held)
    BY DEF TypeOK, Surjection
  <2> QED
    BY <1>1, <2>1, FS_Surjection
<1>3. IsFiniteSet(held \cup {path}) /\ Cardinality(held \cup {path}) <= Cardinality(Savers) + 1
  <2>1. Cardinality(held) \in Nat
    BY <1>2, FS_CardinalityType
  <2>2. IsFiniteSet(held \cup {path})
        /\ Cardinality(held \cup {path}) = IF path \in held THEN Cardinality(held) ELSE Cardinality(held) + 1
    BY <1>2, FS_AddElement
  <2> QED
    BY <1>1, <1>2, <2>1, <2>2
<1>4. IsFiniteSet(Inodes) /\ Cardinality(Inodes) = Cardinality(Savers) + 2
  <2>1. PICK n \in Nat : n = Cardinality(Savers) + 2
    BY <1>1
  <2>2. IsFiniteSet(1..n) /\ Cardinality(1..n) = IF 1 > n THEN 0 ELSE n - 1 + 1
    BY FS_Interval
  <2> QED
    BY <1>1, <2>1, <2>2 DEF Inodes
<1>5. ~(Inodes \subseteq held \cup {path})
  BY <1>1, <1>3, <1>4, FS_Subset, FS_CardinalityType
<1>6. None \notin Inodes
  BY <1>1, IndexAssumption DEF Inodes
<1> QED
  BY <1>5, <1>6 DEF Free

\* The file a save opens is path.tmp, or a new one nobody else has open.
LEMMA OpenedFile ==
    ASSUME TypeOK
    PROVE  LET f == IF tmp = None THEN CHOOSE g \in Free : TRUE ELSE tmp
           IN  /\ f \in Inodes /\ f # None
               /\ f = tmp \/ f \in Free
<1>1. None \notin Inodes
  BY IndexAssumption, FS_CardinalityType DEF Inodes
<1>2. Free \subseteq Inodes
  BY DEF Free
<1>3. tmp = None => (CHOOSE g \in Free : TRUE) \in Free
  BY FreeInode
<1> QED
  BY <1>1, <1>2, <1>3 DEF TypeOK

\* What a reader sees is a corpus, a damaged file or nothing, and what load_raw
\* makes of it and a run saves is a corpus.
LEMMA CorpusType ==
    ASSUME TypeOK
    PROVE  /\ LoadRaw \in SUBSET Docs
           /\ path # None => Seen = Unreadable \/ Seen \in SUBSET Docs
           /\ \A s \in Savers : NewCorpus(s) \in SUBSET Docs
           /\ \A s \in Savers : Mine(s) \in Part /\ Mine(s) # None
<1>1. \A f \in Inodes : content[f][1] \in Part
  BY DEF TypeOK
<1>2. path # None /\ Whole(path) => content[path][1].corpus \in SUBSET Docs
  BY <1>1 DEF TypeOK, Whole, Part, Dumped
<1>3. \A s \in Savers : NewCorpus(s) \in SUBSET Docs
  BY DEF TypeOK, NewCorpus
<1>4. \A s \in Savers : Mine(s) \in Part /\ Mine(s) # None
  BY <1>3, IndexAssumption DEF Mine, Part, Dumped
<1> QED
  BY <1>2, <1>3, <1>4 DEF LoadRaw, Seen
------------------------------------------------------------------------------
(* Type correctness.                                                       *)

\* No file and no saver satisfy the invariant.
LEMMA InitInv == Init => FileInv
<1> SUFFICES ASSUME Init
             PROVE  FileInv
  OBVIOUS
<1>1. Empty \in [1..2 -> Part]
  BY DEF Empty, Part
<1>2. TypeOK
  <2>1. content \in [Inodes -> [1..2 -> Part]] /\ faults \in 0..MaxFaults
    BY <1>1, IndexAssumption DEF Init
  <2>2. /\ pc \in [Savers -> {"idle", "load", "open"} \cup Dumping]
        /\ \A s \in Savers : handle[s] # None <=> pc[s] \in {"first", "second"}
    BY DEF Init
  <2>3. /\ batch \in [Savers -> SUBSET Docs] /\ loaded \in [Savers -> SUBSET Docs]
        /\ handle \in [Savers -> Inodes \cup {None}]
    BY DEF Init
  <2>4. scarred \in BOOLEAN /\ forgotten \in BOOLEAN /\ excused \in BOOLEAN
    BY DEF Init
  <2> QED
    BY <2>1, <2>2, <2>3, <2>4 DEF Init, TypeOK
<1> QED
  BY <1>2 DEF Init, FileInv, OverlapsKnown, FilesApart, WholeUnlessScarred, Alone, Dumping

\* The locals of a finished, failed or killed run are gone.
LEMMA DropFrameType ==
    ASSUME TypeOK, NEW s \in Savers, DropFrame(s)
    PROVE  /\ pc' = [pc EXCEPT ![s] = "idle"]
           /\ pc' \in [Savers -> {"idle", "load", "open"} \cup Dumping]
           /\ batch' \in [Savers -> SUBSET Docs]
           /\ loaded' \in [Savers -> SUBSET Docs]
           /\ handle' \in [Savers -> Inodes \cup {None}]
           /\ overlapped' \subseteq Savers
           /\ \A u \in Savers : handle'[u] # None <=> pc'[u] \in {"first", "second"}
BY DEF DropFrame, Goto, TypeOK

LEMMA FaultType ==
    ASSUME TypeOK, Fault
    PROVE  faults' \in 0..MaxFaults
BY IndexAssumption DEF Fault, TypeOK

\* Every file operation, failure, kill and timeout keeps the types; among the
\* rest, a handle is open exactly while its run dumps.
LEMMA TypeStep == TypeOK /\ [Next]_vars => TypeOK'
<1> SUFFICES ASSUME TypeOK, [Next]_vars
             PROVE  TypeOK'
  OBVIOUS
<1>1. ASSUME NEW s \in Savers, NEW b \in Batches[s], Begin(s, b)
      PROVE  TypeOK'
  <2>1. b \subseteq Docs
    BY IndexAssumption
  <2>2. lock' \in Savers \cup {None}
    BY <1>1 DEF Begin, TypeOK
  <2> QED
    BY <1>1, <2>1, <2>2 DEF Begin, Start, Goto, TypeOK, fileVars, Dumping
<1>2. ASSUME NEW s \in Savers, Load(s)
      PROVE  TypeOK'
  BY <1>2, CorpusType DEF Load, Goto, TypeOK, fileVars, Dumping
<1>3. ASSUME NEW s \in Savers, SkipSave(s)
      PROVE  TypeOK'
  BY <1>3, DropFrameType DEF SkipSave, Unlock, TypeOK, fileVars
<1>4. ASSUME NEW s \in Savers, Open(s)
      PROVE  TypeOK'
  <2> DEFINE f == IF tmp = None THEN CHOOSE g \in Free : TRUE ELSE tmp
  <2>1. f \in Inodes /\ f # None
    BY OpenedFile
  <2>2. Empty \in [1..2 -> Part]
    BY DEF Empty, Part
  <2>3. Rivals(s) \subseteq Savers
    BY DEF Rivals
  <2> HIDE DEF f
  <2>4. /\ tmp' = f /\ handle' = [handle EXCEPT ![s] = f]
        /\ content' = [content EXCEPT ![f] = Empty]
    BY <1>4 DEF Open, f
  <2>5. overlapped' \subseteq Savers
    BY <1>4, <2>3 DEF Open, TypeOK
  <2>6. /\ content' \in [Inodes -> [1..2 -> Part]]
        /\ tmp' \in Inodes \cup {None}
        /\ handle' \in [Savers -> Inodes \cup {None}]
    BY <2>1, <2>2, <2>4 DEF TypeOK
  <2>7. /\ pc[s] = "open" /\ pc' = [pc EXCEPT ![s] = "first"]
        /\ \A u \in Savers : handle'[u] # None <=> pc'[u] \in {"first", "second"}
    BY <1>4, <2>1, <2>4 DEF Open, Goto, TypeOK
  <2> QED
    BY <1>4, <2>5, <2>6, <2>7 DEF Open, TypeOK, Dumping
<1>5. ASSUME NEW s \in Savers, DumpFirst(s) \/ DumpSecond(s)
      PROVE  TypeOK'
  <2>1. handle[s] \in Inodes
    BY <1>5 DEF DumpFirst, DumpSecond, Dump, TypeOK
  <2>2. Mine(s) \in Part
    BY CorpusType
  <2>3. content' \in [Inodes -> [1..2 -> Part]]
    BY <1>5, <2>1, <2>2 DEF DumpFirst, DumpSecond, Dump, TypeOK, Mine
  <2>4. scarred' \in BOOLEAN
    BY <1>5 DEF DumpFirst, DumpSecond, Dump, TypeOK
  <2> QED
    BY <1>5, <2>3, <2>4 DEF DumpFirst, DumpSecond, Dump, Goto, TypeOK, Dumping
<1>6. ASSUME NEW s \in Savers, Replace(s)
      PROVE  TypeOK'
  <2>1. /\ scarred' \in BOOLEAN /\ forgotten' \in BOOLEAN
        /\ outdated' \subseteq Savers
    BY <1>6 DEF Replace, TypeOK, Others
  <2>2. lock' \in Savers \cup {None} /\ done' \subseteq Docs
    BY <1>6 DEF Replace, Unlock, TypeOK
  <2> QED
    BY <1>6, <2>1, <2>2, DropFrameType DEF Replace, TypeOK
<1>7. ASSUME NEW s \in Savers, Fail(s), faults' \in 0..MaxFaults
      PROVE  TypeOK'
  BY <1>7, DropFrameType DEF Fail, Unlock, TypeOK, fileVars
<1>8. ASSUME NEW s \in Savers, ReplaceFails(s) \/ StepFails(s)
      PROVE  TypeOK'
  BY <1>7, <1>8, FaultType DEF ReplaceFails, StepFails, TypeOK
<1>9. ASSUME NEW s \in Savers, Killed(s)
      PROVE  TypeOK'
  BY <1>9, DropFrameType, FaultType DEF Killed, TypeOK, fileVars
<1>10. CASE LockExpires
  <2>1. faults' \in 0..MaxFaults /\ excused' \in BOOLEAN
    BY <1>10, FaultType DEF LockExpires, TypeOK
  <2> QED
    BY <1>10, <2>1 DEF LockExpires, TypeOK, fileVars, saverVars
<1>11. CASE UNCHANGED vars
  BY <1>11 DEF vars, fileVars, saverVars, historyVars, TypeOK
<1> QED
  BY <1>1, <1>2, <1>3, <1>4, <1>5, <1>6, <1>8, <1>9, <1>10, <1>11 DEF Next
------------------------------------------------------------------------------
(* The file.                                                               *)

\* A step of s that touches no file, and after which s is not saving, breaks
\* nothing for the others.
LEMMA OutOfTheWay ==
    ASSUME FileInv, NEW s \in Savers,
           UNCHANGED <<content, path, tmp, scarred>>,
           pc'[s] \notin Dumping, handle'[s] = None, overlapped' = overlapped \ {s},
           \A u \in Savers \ {s} : /\ pc'[u] = pc[u] /\ handle'[u] = handle[u]
                                   /\ batch'[u] = batch[u] /\ loaded'[u] = loaded[u]
    PROVE  OverlapsKnown' /\ FilesApart' /\ WholeUnlessScarred'
<1>1. overlapped \subseteq Savers
  BY DEF FileInv, TypeOK
<1>2. OverlapsKnown'
  BY <1>1 DEF FileInv, OverlapsKnown, Alone
<1>3. \A u \in Savers \ {s} : Mine(u)' = Mine(u)
  BY DEF Mine, NewCorpus
<1>4. FilesApart'
  BY <1>3 DEF FileInv, FilesApart, Alone
<1>5. WholeUnlessScarred'
  BY DEF FileInv, WholeUnlessScarred, Whole
<1> QED
  BY <1>2, <1>4, <1>5

\* open(path.tmp, "wb") empties a file that is not the index, and overlaps with
\* every save that is under way.
LEMMA OpenStep ==
    ASSUME FileInv, NEW s \in Savers, Open(s)
    PROVE  OverlapsKnown' /\ FilesApart' /\ WholeUnlessScarred'
<1> DEFINE f == IF tmp = None THEN CHOOSE g \in Free : TRUE ELSE tmp
<1>1. /\ f \in Inodes /\ f # None
      /\ f = tmp \/ f \in Free
  BY OpenedFile DEF FileInv
<1>2. f # path
  BY <1>1 DEF FileInv, FilesApart, Free
<1> HIDE DEF f
<1>3. /\ tmp' = f /\ path' = path
      /\ handle' = [handle EXCEPT ![s] = f]
      /\ content' = [content EXCEPT ![f] = Empty]
      /\ pc[s] = "open" /\ pc' = [pc EXCEPT ![s] = "first"]
      /\ overlapped' = IF Rivals(s) = {} THEN overlapped ELSE overlapped \cup Rivals(s) \cup {s}
      /\ UNCHANGED <<batch, loaded, scarred>>
  BY DEF Open, Goto, f
<1>4. s \notin overlapped /\ overlapped \subseteq Savers
  BY <1>3 DEF FileInv, OverlapsKnown, TypeOK, Dumping
<1>5. pc \in [Savers -> {"idle", "load", "open"} \cup Dumping]
  BY DEF FileInv, TypeOK
<1>6. \A u \in Savers : Alone(u)' => u = s /\ Rivals(s) = {}
  BY <1>3, <1>5 DEF Alone, Rivals, Dumping
<1>7. OverlapsKnown'
  <2>1. \A u \in overlapped' : pc'[u] \in Dumping
    BY <1>3, <1>4, <1>5 DEF FileInv, OverlapsKnown, Rivals, Dumping
  <2>2. \A u, v \in Savers : Alone(u)' /\ v # u => pc'[v] \notin Dumping
    BY <1>3, <1>5, <1>6 DEF Rivals
  <2> QED
    BY <2>1, <2>2 DEF OverlapsKnown, Alone
<1>8. FilesApart'
  <2>1. path' # None => path' # tmp'
    BY <1>2, <1>3
  <2>2. \A u \in Savers : handle'[u] # None /\ handle'[u] = path' => u \in overlapped'
    BY <1>2, <1>3 DEF FileInv, FilesApart, TypeOK
  <2>3. \A u \in Savers : Alone(u)' =>
          tmp' # None /\ handle'[u] = tmp' /\ pc'[u] = "first"
    BY <1>1, <1>3, <1>5, <1>6 DEF FileInv, TypeOK
  <2> QED
    BY <2>1, <2>2, <2>3 DEF FilesApart, Alone
<1>9. WholeUnlessScarred'
  BY <1>2, <1>3 DEF FileInv, WholeUnlessScarred, Whole, TypeOK
<1> QED
  BY <1>7, <1>8, <1>9

\* A part of a dump goes into path.tmp, or into a file that is scarred by it.
LEMMA DumpStep ==
    ASSUME FileInv, NEW s \in Savers, DumpFirst(s) \/ DumpSecond(s)
    PROVE  OverlapsKnown' /\ FilesApart' /\ WholeUnlessScarred'
<1>1. PICK i \in 1..2 :
        /\ content' = [content EXCEPT ![handle[s]][i] = Mine(s)]
        /\ i = 1 => /\ pc[s] = "first" /\ pc' = [pc EXCEPT ![s] = "second"]
                    /\ handle' = handle
        /\ i = 2 => /\ pc[s] = "second" /\ pc' = [pc EXCEPT ![s] = "replace"]
                    /\ handle' = [handle EXCEPT ![s] = None]
        /\ scarred' = (scarred \/ (s \in overlapped /\ handle[s] = path))
        /\ UNCHANGED <<path, tmp, batch, loaded, overlapped>>
  BY DEF DumpFirst, DumpSecond, Dump, Goto, Mine
<1>2. /\ content \in [Inodes -> [1..2 -> Part]]
      /\ handle[s] \in Inodes /\ handle[s] # None
      /\ pc \in [Savers -> {"idle", "load", "open"} \cup Dumping]
      /\ handle \in [Savers -> Inodes \cup {None}]
      /\ overlapped \subseteq Savers
  BY <1>1 DEF FileInv, TypeOK
<1>3. \A u \in Savers : (pc'[u] \in Dumping <=> pc[u] \in Dumping) /\ Mine(u)' = Mine(u)
  BY <1>1, <1>2 DEF Dumping, Mine, NewCorpus
<1>4. OverlapsKnown'
  BY <1>1, <1>2, <1>3 DEF FileInv, OverlapsKnown, Alone
<1>5. \A u \in Savers : Alone(u)' => u = s /\ Alone(s)
  BY <1>1, <1>2, <1>3 DEF FileInv, OverlapsKnown, Alone, Dumping
<1>6. FilesApart'
  <2>1. path' # None => path' # tmp'
    BY <1>1 DEF FileInv, FilesApart
  <2>2. \A u \in Savers : handle'[u] # None /\ handle'[u] = path' => u \in overlapped'
    BY <1>1, <1>2 DEF FileInv, FilesApart
  <2>3. Alone(s) => /\ tmp' # None
                    /\ pc'[s] \in {"first", "second"} => handle'[s] = tmp'
                    /\ pc'[s] \in {"second", "replace"} => content'[tmp'][1] = Mine(s)'
                    /\ pc'[s] = "replace" => content'[tmp'][2] = Mine(s)'
    BY <1>1, <1>2, <1>3 DEF FileInv, FilesApart
  <2> QED
    BY <1>5, <2>1, <2>2, <2>3 DEF FilesApart
<1>7. WholeUnlessScarred'
  <2>1. CASE handle[s] = path
    BY <1>1, <1>2, <2>1 DEF FileInv, FilesApart, WholeUnlessScarred
  <2>2. CASE handle[s] # path
    BY <1>1, <1>2, <2>2 DEF FileInv, WholeUnlessScarred, Whole, TypeOK
  <2> QED
    BY <2>1, <2>2
<1> QED
  BY <1>4, <1>6, <1>7

\* os.replace brings a whole dump to the name of the index, unless the save was
\* overlapped.
LEMMA ReplaceStep ==
    ASSUME FileInv, NEW s \in Savers, Replace(s)
    PROVE  OverlapsKnown' /\ FilesApart' /\ WholeUnlessScarred'
<1>1. /\ pc[s] = "replace" /\ tmp # None
      /\ path' = tmp /\ tmp' = None
      /\ pc' = [pc EXCEPT ![s] = "idle"]
      /\ batch' = [batch EXCEPT ![s] = {}] /\ loaded' = [loaded EXCEPT ![s] = {}]
      /\ handle' = [handle EXCEPT ![s] = None]
      /\ overlapped' = overlapped \ {s}
      /\ scarred' = (s \in overlapped)
      /\ content' = content
  BY DEF Replace, DropFrame, Goto
<1>2. /\ pc \in [Savers -> {"idle", "load", "open"} \cup Dumping]
      /\ handle \in [Savers -> Inodes \cup {None}]
      /\ overlapped \subseteq Savers
      /\ \A u \in Savers : handle[u] # None <=> pc[u] \in {"first", "second"}
  BY DEF FileInv, TypeOK
<1>3. \A u \in Savers \ {s} : pc[u] \in Dumping => u \in overlapped
  BY <1>1 DEF FileInv, OverlapsKnown, Alone, Dumping
<1>4. OverlapsKnown'
  BY <1>1, <1>2, <1>3 DEF FileInv, OverlapsKnown, Alone, Dumping
<1>5. \A u \in Savers : ~Alone(u)'
  BY <1>1, <1>2, <1>3 DEF Alone, Dumping
<1>6. \A u \in Savers : handle'[u] # None => u \in overlapped'
  BY <1>1, <1>2, <1>3 DEF Dumping
<1>7. FilesApart'
  BY <1>1, <1>5, <1>6 DEF FilesApart
<1>8. WholeUnlessScarred'
  <2>1. s \notin overlapped => content[tmp][1] = Mine(s) /\ content[tmp][2] = Mine(s)
    BY <1>1 DEF FileInv, FilesApart, Alone, Dumping
  <2>2. Mine(s) # None
    BY CorpusType DEF FileInv
  <2> QED
    BY <1>1, <2>1, <2>2 DEF WholeUnlessScarred, Whole
<1> QED
  BY <1>4, <1>7, <1>8

\* The invariant of the file operations is inductive.
LEMMA FileStep == FileInv /\ [Next]_vars => FileInv'
<1> SUFFICES ASSUME FileInv, [Next]_vars
             PROVE  FileInv'
  OBVIOUS
<1> DEFINE Kept == OverlapsKnown' /\ FilesApart' /\ WholeUnlessScarred'
<1>1. /\ pc \in [Savers -> {"idle", "load", "open"} \cup Dumping]
      /\ \A s \in Savers : handle[s] # None <=> pc[s] \in {"first", "second"}
      /\ \A s \in overlapped : pc[s] \in Dumping
      /\ batch \in [Savers -> SUBSET Docs] /\ loaded \in [Savers -> SUBSET Docs]
      /\ handle \in [Savers -> Inodes \cup {None}]
  BY DEF FileInv, TypeOK, OverlapsKnown
<1>2. ASSUME NEW s \in Savers, NEW b \in Batches[s], Begin(s, b)
      PROVE  Kept
  <2>1. /\ pc[s] = "idle" /\ pc' = [pc EXCEPT ![s] = "load"]
        /\ batch' = [batch EXCEPT ![s] = b]
        /\ UNCHANGED <<content, path, tmp, scarred, handle, loaded, overlapped>>
    BY <1>2 DEF Begin, Start, Goto, fileVars
  <2>2. overlapped' = overlapped \ {s} /\ handle'[s] = None /\ pc'[s] \notin Dumping
    BY <1>1, <2>1 DEF Dumping
  <2> QED
    BY <1>1, <2>1, <2>2, OutOfTheWay
<1>3. ASSUME NEW s \in Savers, Load(s)
      PROVE  Kept
  <2>1. /\ pc[s] = "load" /\ pc' = [pc EXCEPT ![s] = "open"]
        /\ loaded' = [loaded EXCEPT ![s] = LoadRaw]
        /\ UNCHANGED <<content, path, tmp, scarred, handle, batch, overlapped>>
    BY <1>3 DEF Load, Goto, fileVars
  <2>2. overlapped' = overlapped \ {s} /\ handle'[s] = None /\ pc'[s] \notin Dumping
    BY <1>1, <2>1 DEF Dumping
  <2> QED
    BY <1>1, <2>1, <2>2, OutOfTheWay
<1>4. ASSUME NEW s \in Savers,
             SkipSave(s) \/ ReplaceFails(s) \/ StepFails(s) \/ Killed(s)
      PROVE  Kept
  <2>1. DropFrame(s) /\ UNCHANGED <<content, path, tmp, scarred>>
    BY <1>4 DEF SkipSave, ReplaceFails, StepFails, Fail, Killed, fileVars
  <2>2. /\ pc'[s] = "idle" /\ handle'[s] = None /\ overlapped' = overlapped \ {s}
        /\ \A u \in Savers \ {s} : /\ pc'[u] = pc[u] /\ handle'[u] = handle[u]
                                   /\ batch'[u] = batch[u] /\ loaded'[u] = loaded[u]
    BY <1>1, <2>1 DEF DropFrame, Goto
  <2> QED
    BY <2>1, <2>2, OutOfTheWay DEF Dumping
<1>5. ASSUME NEW s \in Savers, Open(s) \/ DumpFirst(s) \/ DumpSecond(s) \/ Replace(s)
      PROVE  Kept
  BY <1>5, OpenStep, DumpStep, ReplaceStep
<1>6. ASSUME LockExpires \/ UNCHANGED vars
      PROVE  Kept
  <2>1. UNCHANGED <<content, path, tmp, scarred, pc, handle, batch, loaded, overlapped>>
    BY <1>6 DEF LockExpires, vars, fileVars, saverVars, historyVars
  <2>2. \A u \in Savers : Mine(u)' = Mine(u) /\ (Alone(u)' <=> Alone(u))
    BY <2>1 DEF Mine, NewCorpus, Alone
  <2>3. OverlapsKnown' /\ FilesApart'
    BY <2>1, <2>2 DEF FileInv, OverlapsKnown, FilesApart
  <2>4. WholeUnlessScarred'
    BY <2>1 DEF FileInv, WholeUnlessScarred, Whole
  <2> QED
    BY <2>3, <2>4 DEF Kept
<1> HIDE DEF Kept
<1>7. Next => Kept
  BY <1>2, <1>3, <1>4, <1>5, <1>6, Zenon DEF Next
<1> QED
  BY <1>6, <1>7, TypeStep DEF FileInv, Kept
LEMMA FileInvariant == Spec => []FileInv
BY InitInv, FileStep, PTL DEF Spec

\* The types hold in every reachable state, whoever fails, dies or overlaps.
THEOREM TypeCorrect == Spec => []TypeOK
<1>1. FileInv => TypeOK
  BY DEF FileInv
<1> QED
  BY <1>1, FileInvariant, PTL

\* A reader of the index gets a damaged file only after saves overlapped, for
\* any number of savers: a failed or killed save never leaves one behind.
THEOREM Readable == Spec => []ReadableUnlessScarred
<1>1. FileInv => ReadableUnlessScarred
  <2> SUFFICES ASSUME FileInv, Seen = Unreadable, ~scarred
               PROVE  FALSE
    BY DEF ReadableUnlessScarred
  <2>1. path # None
    BY IndexAssumption DEF Seen
  <2>2. Whole(path) /\ content[path][1] \in Part /\ content[path][1] # None
    BY <2>1 DEF FileInv, WholeUnlessScarred, TypeOK, Whole
  <2>3. Seen \in SUBSET Docs
    BY <2>1, <2>2 DEF Seen, Part, Dumped
  <2> QED
    BY <2>3, IndexAssumption
<1> QED
  BY <1>1, FileInvariant, PTL

------------------------------------------------------------------------------
(* The lock.                                                               *)

\* Until it is excused, one run is active at a time, a worker's under the lock,
\* so no save overlaps and none is out of date.
OneAtATime ==
    ~excused =>
        /\ \A s, u \in Savers : Active(s) /\ Active(u) => s = u
        /\ \A s \in Locking : Active(s) => lock = s
        /\ overlapped = {} /\ outdated = {}
        /\ ~scarred /\ ~forgotten

LEMMA OneAtATimeStep == TypeOK /\ OneAtATime /\ [Next]_vars => OneAtATime'
<1> SUFFICES ASSUME TypeOK, OneAtATime, [Next]_vars, ~excused'
             PROVE  OneAtATime'
  BY DEF OneAtATime
<1>1. /\ pc \in [Savers -> {"idle", "load", "open"} \cup Dumping]
      /\ lock \in Savers \cup {None} /\ None \notin Savers /\ Locking \subseteq Savers
      /\ "idle" \notin Dumping
  BY IndexAssumption DEF TypeOK, Dumping
<1>2. ~excused
  <2>1. ASSUME NEW s \in Savers, NEW b \in Batches[s], Begin(s, b), excused
        PROVE  FALSE
    BY <2>1 DEF Begin, Start
  <2>2. ASSUME NEW s \in Savers,
               \/ Load(s) \/ SkipSave(s) \/ Open(s) \/ DumpFirst(s) \/ DumpSecond(s)
               \/ Replace(s) \/ ReplaceFails(s) \/ StepFails(s) \/ Killed(s)
        PROVE  excused' = excused
    BY <2>2 DEF Load, SkipSave, Open, DumpFirst, DumpSecond, Dump, Replace, ReplaceFails,
                StepFails, Killed, Fail
  <2>3. LockExpires \/ UNCHANGED vars => ~excused
    BY DEF LockExpires, vars, historyVars
  <2> QED
    BY <2>1, <2>2, <2>3 DEF Next
<1>3. /\ \A s, u \in Savers : Active(s) /\ Active(u) => s = u
      /\ \A s \in Locking : Active(s) => lock = s
      /\ overlapped = {} /\ outdated = {} /\ ~scarred /\ ~forgotten
  BY <1>2 DEF OneAtATime
<1>4. ASSUME NEW s \in Savers, NEW b \in Batches[s], Begin(s, b)
      PROVE  OneAtATime'
  <2>1. /\ pc[s] = "idle" /\ pc' = [pc EXCEPT ![s] = "load"]
        /\ \A u \in Savers : Active(u) => {s, u} \subseteq Locking
        /\ IF s \in Locking THEN lock = None /\ lock' = s ELSE lock' = lock
        /\ UNCHANGED <<overlapped, outdated, scarred, forgotten>>
    BY <1>4 DEF Begin, Start, Goto, Active
  <2>2. \A u \in Savers : ~Active(u)
    BY <1>1, <1>3, <2>1
  <2>3. \A u \in Savers : Active(u)' => u = s
    BY <1>1, <2>1, <2>2 DEF Active
  <2> QED
    BY <1>1, <1>3, <2>1, <2>3 DEF OneAtATime
<1>5. ASSUME NEW s \in Savers,
             Load(s) \/ Open(s) \/ DumpFirst(s) \/ DumpSecond(s)
      PROVE  OneAtATime'
  <2>1. Active(s) /\ lock' = lock
    BY <1>1, <1>5 DEF Load, Open, DumpFirst, DumpSecond, Dump, Active
  <2>2. \A u \in Savers : Active(u)' => Active(u)
    BY <1>1, <1>5, <2>1 DEF Load, Open, DumpFirst, DumpSecond, Dump, Goto, Active
  <2>3. Rivals(s) = {}
    BY <1>1, <1>3, <2>1 DEF Rivals, Active
  <2>4. overlapped' = {} /\ outdated' = {}
    BY <1>3, <1>5, <2>3 DEF Load, Open, DumpFirst, DumpSecond, Dump
  <2>5. ~scarred' /\ ~forgotten'
    <3>1. s \notin overlapped
      BY <1>3
    <3>2. Load(s) \/ Open(s) => (scarred' <=> scarred)
      BY DEF Load, Open
    <3>3. DumpFirst(s) \/ DumpSecond(s) =>
            (scarred' <=> scarred \/ (s \in overlapped /\ handle[s] = path))
      BY DEF DumpFirst, DumpSecond, Dump
    <3>4. forgotten' <=> forgotten
      BY <1>5 DEF Load, Open, DumpFirst, DumpSecond, Dump
    <3> QED
      BY <1>3, <1>5, <3>1, <3>2, <3>3, <3>4, Zenon
  <2> QED
    BY <1>1, <1>3, <2>1, <2>2, <2>4, <2>5 DEF OneAtATime
<1>6. ASSUME NEW s \in Savers,
             \/ SkipSave(s) \/ Replace(s) \/ ReplaceFails(s) \/ StepFails(s) \/ Killed(s)
      PROVE  OneAtATime'
  <2>1. Active(s) /\ DropFrame(s)
    BY <1>6 DEF SkipSave, Replace, ReplaceFails, StepFails, Fail, Killed, Active
  <2>2. \A u \in Savers : ~Active(u)'
    BY <1>1, <1>3, <2>1 DEF DropFrame, Goto, Active
  <2>3. Others(s) = {}
    BY <1>1, <1>3, <2>1 DEF Others, Active
  <2>4. overlapped' = {} /\ outdated' = {}
    BY <1>3, <1>6, <2>1, <2>3
       DEF SkipSave, Replace, ReplaceFails, StepFails, Fail, Killed, DropFrame
  <2>5. ~scarred' /\ ~forgotten'
    <3>1. s \notin overlapped /\ s \notin outdated
      BY <1>3
    <3>2. \/ (scarred' <=> scarred) /\ (forgotten' <=> forgotten)
          \/ Replace(s)
      BY <1>6 DEF SkipSave, ReplaceFails, StepFails, Fail, Killed
    <3>3. Replace(s) => /\ scarred' <=> s \in overlapped
                        /\ forgotten' <=> forgotten \/ s \in outdated
      BY DEF Replace
    <3> QED
      BY <1>3, <3>1, <3>2, <3>3, Zenon
  <2> QED
    BY <1>1, <2>2, <2>4, <2>5 DEF OneAtATime
<1>7. CASE LockExpires
  <2>1. pc[lock] = "idle" /\ lock \in Savers /\ lock' = None
    BY <1>1, <1>7 DEF LockExpires
  <2>2. UNCHANGED <<pc, overlapped, outdated, scarred, forgotten>>
    BY <1>7 DEF LockExpires, saverVars
  <2> QED
    BY <1>1, <1>3, <2>1, <2>2 DEF OneAtATime, Active
<1>8. CASE UNCHANGED vars
  BY <1>3, <1>8 DEF vars, saverVars, historyVars, OneAtATime, Active
<1> QED
  BY <1>4, <1>5, <1>6, <1>7, <1>8 DEF Next

\* Only a lock that timed out under its holder, or the command beside a worker,
\* makes a file forgotten or the index scarred: among any number of workers the
\* tenant's lock suffices, whatever fails or dies.
THEOREM LockHolds == Spec => []LockSuffices
<1>1. Init => OneAtATime
  BY IndexAssumption DEF Init, OneAtATime, Active
<1>2. OneAtATime => LockSuffices
  BY DEF OneAtATime, LockSuffices
<1> QED
  BY <1>1, <1>2, OneAtATimeStep, TypeCorrect, PTL DEF Spec
------------------------------------------------------------------------------
(* The index.                                                              *)

\* Opening path.tmp does not show in the index.
LEMMA OpenUnseen ==
    ASSUME FileInv, NEW s \in Savers, Open(s)
    PROVE  Seen' = Seen
<1> DEFINE f == IF tmp = None THEN CHOOSE g \in Free : TRUE ELSE tmp
<1>1. f = tmp \/ f \in Free
  BY OpenedFile DEF FileInv
<1>2. path # None => f # path
  BY <1>1 DEF FileInv, FilesApart, Free
<1> HIDE DEF f
<1>3. path' = path /\ content' = [content EXCEPT ![f] = Empty]
  BY DEF Open, f
<1> QED
  BY <1>2, <1>3 DEF FileInv, TypeOK, Seen, Whole

\* Writing a part shows only where the save scars the index.
LEMMA DumpUnseen ==
    ASSUME FileInv, NEW s \in Savers, DumpFirst(s) \/ DumpSecond(s)
    PROVE  Seen' = Seen \/ (s \in overlapped /\ handle[s] = path /\ path # None /\ scarred')
<1>1. PICK i \in 1..2 :
        content' = [content EXCEPT ![handle[s]][i] = Mine(s)] /\ path' = path
  BY DEF DumpFirst, DumpSecond, Dump, Mine
<1>2. scarred' <=> scarred \/ (s \in overlapped /\ handle[s] = path)
  BY DEF DumpFirst, DumpSecond, Dump
<1>3. handle[s] \in Inodes /\ handle[s] # None
  BY DEF DumpFirst, DumpSecond, Dump, FileInv, TypeOK
<1>4. CASE handle[s] = path
  BY <1>2, <1>3, <1>4 DEF FileInv, FilesApart
<1>5. CASE handle[s] # path
  BY <1>1, <1>3, <1>5 DEF FileInv, TypeOK, Seen, Whole
<1> QED
  BY <1>4, <1>5

\* No step but a rename, and a write of an overlapped save, is seen by a reader.
LEMMA SeenStep ==
    ASSUME FileInv, [Next]_vars
    PROVE  \/ Seen' = Seen
           \/ \E s \in Savers : Replace(s)
           \/ \E s \in Savers : /\ DumpFirst(s) \/ DumpSecond(s)
                                /\ s \in overlapped /\ handle[s] = path /\ path # None
<1> DEFINE Marked(s) == s \in overlapped /\ handle[s] = path /\ path # None
<1>1. ASSUME path' = path, path # None => content'[path] = content[path]
      PROVE  Seen' = Seen
  BY <1>1 DEF Seen, Whole
<1>2. ASSUME NEW s \in Savers, Open(s)
      PROVE  Seen' = Seen
  BY <1>2, OpenUnseen
<1>3. ASSUME NEW s \in Savers, DumpFirst(s) \/ DumpSecond(s)
      PROVE  Seen' = Seen \/ Marked(s)
  BY <1>3, DumpUnseen
<1>4. ASSUME NEW s \in Savers, NEW b \in Batches[s], Begin(s, b)
      PROVE  Seen' = Seen
  BY <1>1, <1>4 DEF Begin, Start, fileVars
<1>5. ASSUME NEW s \in Savers,
             Load(s) \/ SkipSave(s) \/ ReplaceFails(s) \/ StepFails(s) \/ Killed(s)
      PROVE  Seen' = Seen
  BY <1>1, <1>5 DEF Load, SkipSave, ReplaceFails, StepFails, Fail, Killed, fileVars
<1>6. ASSUME LockExpires \/ UNCHANGED vars
      PROVE  Seen' = Seen
  BY <1>1, <1>6 DEF LockExpires, vars, fileVars
<1> QED
  BY <1>2, <1>3, <1>4, <1>5, <1>6 DEF Next

\* A save that was not overlapped puts its own corpus into the index, and any
\* save leaves there a corpus or a damaged file.
LEMMA SeenReplaced ==
    ASSUME FileInv, NEW s \in Savers, Replace(s)
    PROVE  /\ Seen' = Unreadable \/ Seen' \in SUBSET Docs
           /\ s \notin overlapped => Seen' = NewCorpus(s)
<1>1. pc[s] = "replace" /\ tmp # None /\ path' = tmp /\ content' = content
  BY DEF Replace
<1>2. tmp \in Inodes /\ content[tmp] \in [1..2 -> Part]
  BY <1>1 DEF FileInv, TypeOK
<1>3. Seen' = Unreadable \/ Seen' \in SUBSET Docs
  BY <1>1, <1>2 DEF Seen, Whole, Part, Dumped
<1>4. s \notin overlapped => content[tmp][1] = Mine(s) /\ content[tmp][2] = Mine(s)
  BY <1>1 DEF FileInv, FilesApart, Alone, Dumping
<1>5. Mine(s) # None /\ Mine(s).corpus = NewCorpus(s)
  BY CorpusType DEF FileInv, Mine
<1> QED
  BY <1>1, <1>3, <1>4, <1>5 DEF Seen, Whole

------------------------------------------------------------------------------
(* save_index implements AtomicIndex.                                      *)

LEMMA SavesStep ==
    ASSUME FileInv, [Next]_vars
    PROVE  \/ UNCHANGED <<Saves, overlapped>>
           \/ \E s \in Savers : Open(s)
           \/ \E s \in Savers : /\ pc[s] \in Dumping
                                /\ Saves' = [Saves EXCEPT ![s] = None]
                                /\ overlapped' = overlapped \ {s}
                                /\ Replace(s) \/ Seen' = Seen
<1>1. /\ pc \in [Savers -> {"idle", "load", "open"} \cup Dumping]
      /\ \A s \in overlapped : pc[s] \in Dumping
      /\ batch \in [Savers -> SUBSET Docs] /\ loaded \in [Savers -> SUBSET Docs]
      /\ {"idle", "load", "open"} \cap Dumping = {}
      /\ {"first", "second", "replace"} \subseteq Dumping
  BY DEF FileInv, TypeOK, OverlapsKnown, Dumping
<1>2. ASSUME \A u \in Savers :
                /\ pc'[u] \in Dumping <=> pc[u] \in Dumping
                /\ pc[u] \in Dumping => batch'[u] = batch[u] /\ loaded'[u] = loaded[u]
      PROVE  Saves' = Saves
  BY <1>2 DEF Saves, NewCorpus
<1>3. ASSUME NEW s \in Savers, NEW b \in Batches[s], Begin(s, b)
      PROVE  UNCHANGED <<Saves, overlapped>>
  BY <1>1, <1>2, <1>3 DEF Begin, Start, Goto
<1>4. ASSUME NEW s \in Savers, Load(s)
      PROVE  UNCHANGED <<Saves, overlapped>>
  BY <1>1, <1>2, <1>4 DEF Load, Goto
<1>5. ASSUME NEW s \in Savers, DumpFirst(s) \/ DumpSecond(s)
      PROVE  UNCHANGED <<Saves, overlapped>>
  BY <1>1, <1>2, <1>5 DEF DumpFirst, DumpSecond, Dump, Goto
<1>6. ASSUME LockExpires \/ UNCHANGED vars
      PROVE  UNCHANGED <<Saves, overlapped>>
  BY <1>2, <1>6 DEF LockExpires, vars, saverVars, historyVars
<1>7. ASSUME NEW s \in Savers, DropFrame(s), pc[s] \notin Dumping
      PROVE  UNCHANGED <<Saves, overlapped>>
  BY <1>1, <1>2, <1>7 DEF DropFrame, Goto
<1>8. ASSUME NEW s \in Savers, DropFrame(s)
      PROVE  Saves' = [Saves EXCEPT ![s] = None] /\ overlapped' = overlapped \ {s}
  BY <1>1, <1>8 DEF DropFrame, Goto, Saves, NewCorpus
<1>9. ASSUME NEW s \in Savers,
             SkipSave(s) \/ Replace(s) \/ ReplaceFails(s) \/ StepFails(s) \/ Killed(s)
      PROVE  DropFrame(s) /\ (Replace(s) \/ Seen' = Seen)
  BY <1>9 DEF SkipSave, Replace, ReplaceFails, StepFails, Fail, Killed, fileVars, Seen, Whole
<1> QED
  BY <1>3, <1>4, <1>5, <1>6, <1>7, <1>8, <1>9 DEF Next

\* Every step is one of AtomicIndex or none.
LEMMA AtomicStep ==
    ASSUME FileInv, [Next]_vars
    PROVE  [Atomic!Next]_(Atomic!vars)
<1> USE DEF Atomic!vars
<1>1. \A s \in Savers : (Saves[s] # None <=> pc[s] \in Dumping)
  BY CorpusType, IndexAssumption DEF FileInv, Saves
<1>2. Atomic!Saving = {s \in Savers : pc[s] \in Dumping}
  BY <1>1 DEF Atomic!Saving
<1>3. \A s \in overlapped : s \in Savers /\ pc[s] \in Dumping
  BY DEF FileInv, TypeOK, OverlapsKnown
<1>4. ASSUME NEW s \in Savers, Open(s)
      PROVE  Atomic!Begin(s)
  <2>1. /\ pc[s] = "open" /\ pc' = [pc EXCEPT ![s] = "first"]
        /\ overlapped' = IF Rivals(s) = {} THEN overlapped ELSE overlapped \cup Rivals(s) \cup {s}
        /\ UNCHANGED <<batch, loaded>>
    BY <1>4 DEF Open, Goto
  <2>2. Seen' = Seen
    BY <1>4, OpenUnseen
  <2>3. Saves[s] = None
    BY <1>1, <2>1 DEF Dumping
  <2>4. Saves' = [Saves EXCEPT ![s] = NewCorpus(s)] /\ NewCorpus(s) \in SUBSET Docs
    BY <2>1, CorpusType DEF Saves, NewCorpus, Dumping, FileInv, TypeOK
  <2>5. Rivals(s) = Atomic!Saving
    BY <1>2, <2>1 DEF Rivals, Dumping
  <2>6. overlapped' = IF Atomic!Saving = {} THEN {} ELSE overlapped \cup Atomic!Saving \cup {s}
    BY <1>2, <1>3, <2>1, <2>5
  <2> QED
    BY <2>2, <2>3, <2>4, <2>6 DEF Atomic!Begin
<1>5. ASSUME NEW s \in Savers, Replace(s), Saves' = [Saves EXCEPT ![s] = None],
             overlapped' = overlapped \ {s}, pc[s] \in Dumping
      PROVE  Atomic!Commit(s) \/ Atomic!Garble(s)
  <2>1. Atomic!End(s)
    BY <1>1, <1>5 DEF Atomic!End
  <2>2. /\ Seen' = Unreadable \/ Seen' \in SUBSET Docs
        /\ s \notin overlapped => Seen' = Saves[s]
    BY <1>5, SeenReplaced DEF Saves
  <2> QED
    BY <2>1, <2>2 DEF Atomic!Commit, Atomic!Garble
<1>6. ASSUME NEW s \in Savers, pc[s] \in Dumping, Saves' = [Saves EXCEPT ![s] = None],
             overlapped' = overlapped \ {s}, Seen' = Seen
      PROVE  Atomic!Abandon(s)
  BY <1>1, <1>6 DEF Atomic!Abandon, Atomic!End
<1>7. ASSUME UNCHANGED <<Saves, overlapped>>,
             NEW s \in Savers, DumpFirst(s) \/ DumpSecond(s), s \in overlapped, path # None
      PROVE  Atomic!Garble(s)
  <2>1. path' # None
    BY <1>7 DEF DumpFirst, DumpSecond, Dump
  <2>2. TypeOK'
    BY TypeStep DEF FileInv
  <2>3. (path # None => Seen = Unreadable \/ Seen \in SUBSET Docs)'
    BY <2>2, CorpusType, PTL
  <2> QED
    BY <1>7, <2>1, <2>3 DEF Atomic!Garble
<1>8. ASSUME UNCHANGED <<Saves, overlapped>>, NEW s \in Savers, Replace(s)
      PROVE  FALSE
  <2>1. pc[s] \in Dumping /\ pc'[s] \notin Dumping
    BY <1>8 DEF Replace, DropFrame, Goto, Dumping, FileInv, TypeOK
  <2>2. Saves[s] # None /\ Saves'[s] = None
    BY <1>1, <2>1 DEF Saves
  <2> QED
    BY <1>8, <2>2
<1>9. ASSUME UNCHANGED <<Saves, overlapped>>
      PROVE  [Atomic!Next]_(Atomic!vars)
  BY <1>7, <1>8, <1>9, SeenStep DEF Atomic!Next
<1> QED
  BY <1>4, <1>5, <1>6, <1>9, SavesStep DEF Atomic!Next

\* save_index does what AtomicIndex says, for any number of savers, with or
\* without the lock: its readers see a complete corpus replaced by another at
\* the rename, and anything else only where saves overlapped.
THEOREM Implementation == Spec => ImplementsAtomicIndex
<1>1. Init => Atomic!Init
  BY DEF Init, Atomic!Init, Seen, Saves, Dumping
<1>2. FileInv /\ [Next]_vars => [Atomic!Next]_(Atomic!vars)
  BY AtomicStep
<1> QED
  BY <1>1, <1>2, FileInvariant, PTL DEF Spec, ImplementsAtomicIndex, Atomic!Spec
------------------------------------------------------------------------------
(* What the index holds.                                                   *)

\* The corpus holds, or has no need to hold, a version of every file of docs.
Covers(corpus, docs) ==
    \A d \in docs : \E e \in corpus \cup (docs \ Chunked) : SourceOf[e] = SourceOf[d]

\* The index covers what is done; so does what a run read of it, until another
\* run saves.
AllCovered ==
    /\ forgotten \/ scarred \/ Covers(LoadRaw, done)
    /\ \A s \in Savers :
         pc[s] \in {"open"} \cup Dumping =>
            forgotten \/ s \in outdated \/ Covers(loaded[s], done)

\* What a run saves covers its own documents beside those it read.
LEMMA CoversNew ==
    ASSUME NEW s \in Savers, Covers(loaded[s], done)
    PROVE  Covers(NewCorpus(s), done \cup batch[s])
<1> SUFFICES ASSUME NEW d \in done \cup batch[s]
             PROVE  \E e \in NewCorpus(s) \cup ((done \cup batch[s]) \ Chunked) :
                        SourceOf[e] = SourceOf[d]
  BY DEF Covers
<1>1. CASE \E b \in batch[s] : SourceOf[b] = SourceOf[d]
  BY <1>1 DEF NewCorpus
<1>2. CASE ~ \E b \in batch[s] : SourceOf[b] = SourceOf[d]
  <2>1. PICK e \in loaded[s] \cup (done \ Chunked) : SourceOf[e] = SourceOf[d]
    BY <1>2 DEF Covers
  <2>2. e \in loaded[s] => e \in NewCorpus(s)
    BY <1>2, <2>1 DEF NewCorpus
  <2> QED
    BY <2>1, <2>2
<1> QED
  BY <1>1, <1>2

\* A run with nothing to save leaves nothing to cover.
LEMMA CoversSkipped ==
    ASSUME NEW s \in Savers, NewCorpus(s) = {}, NEW C, Covers(C, done)
    PROVE  Covers(C, done \cup batch[s])
BY DEF Covers, NewCorpus

LEMMA AllCoveredStep == FileInv /\ AllCovered /\ [Next]_vars => AllCovered'
<1> SUFFICES ASSUME FileInv, AllCovered, [Next]_vars
             PROVE  AllCovered'
  OBVIOUS
<1> DEFINE Current(s) == forgotten \/ s \in outdated \/ Covers(loaded[s], done)
<1>1. /\ pc \in [Savers -> {"idle", "load", "open"} \cup Dumping]
      /\ loaded \in [Savers -> SUBSET Docs]
      /\ {"idle", "load", "open"} \cap Dumping = {}
      /\ {"first", "second", "replace"} \subseteq Dumping
  BY DEF FileInv, TypeOK, Dumping
<1>2. /\ forgotten \/ scarred \/ Covers(LoadRaw, done)
      /\ \A s \in Savers : pc[s] \in {"open"} \cup Dumping => Current(s)
  BY DEF AllCovered
<1>3. ASSUME Seen' = Seen
      PROVE  LoadRaw' = LoadRaw
  BY <1>3 DEF LoadRaw
<1>4. ASSUME NEW s \in Savers, NEW b \in Batches[s], Begin(s, b)
      PROVE  AllCovered'
  <2>1. UNCHANGED <<done, loaded, outdated>> /\ (forgotten' <=> forgotten) /\ (scarred' <=> scarred)
    BY <1>4 DEF Begin, Start
  <2>2. Seen' = Seen
    BY <1>4 DEF Begin, Start, fileVars, Seen, Whole
  <2>3. \A u \in Savers : pc'[u] \in {"open"} \cup Dumping => pc[u] \in {"open"} \cup Dumping
    BY <1>1, <1>4 DEF Begin, Start, Goto
  <2> QED
    BY <1>2, <1>3, <2>1, <2>2, <2>3 DEF AllCovered
<1>5. ASSUME NEW s \in Savers, Load(s)
      PROVE  AllCovered'
  <2>1. /\ done' = done /\ (forgotten' <=> forgotten) /\ (scarred' <=> scarred)
        /\ loaded' = [loaded EXCEPT ![s] = LoadRaw]
        /\ outdated' = IF scarred THEN outdated \cup {s} ELSE outdated
    BY <1>5 DEF Load
  <2>2. Seen' = Seen
    BY <1>5 DEF Load, fileVars, Seen, Whole
  <2>3. \A u \in Savers \ {s} :
            pc'[u] \in {"open"} \cup Dumping => pc[u] \in {"open"} \cup Dumping
    BY <1>1, <1>5 DEF Load, Goto
  <2>4. forgotten' \/ s \in outdated' \/ Covers(loaded'[s], done')
    BY <1>1, <1>2, <2>1
  <2>5. \A u \in Savers \ {s} : Current(u) => Current(u)'
    BY <1>1, <2>1
  <2> QED
    BY <1>2, <1>3, <2>1, <2>2, <2>3, <2>4, <2>5 DEF AllCovered
<1>6. ASSUME NEW s \in Savers, SkipSave(s)
      PROVE  AllCovered'
  <2>1. /\ done' = done \cup batch[s] /\ NewCorpus(s) = {}
        /\ (forgotten' <=> forgotten) /\ (scarred' <=> scarred)
        /\ loaded' = [loaded EXCEPT ![s] = {}] /\ outdated' = outdated \ {s}
        /\ pc' = [pc EXCEPT ![s] = "idle"]
    BY <1>6 DEF SkipSave, DropFrame, Goto
  <2>2. Seen' = Seen
    BY <1>6 DEF SkipSave, fileVars, Seen, Whole
  <2>3. \A C : Covers(C, done) => Covers(C, done')
    BY <2>1, CoversSkipped
  <2>4. \A u \in Savers : pc'[u] \in {"open"} \cup Dumping =>
            u # s /\ pc[u] \in {"open"} \cup Dumping
    BY <1>1, <2>1
  <2>5. \A u \in Savers \ {s} : Current(u) => Current(u)'
    BY <1>1, <2>1, <2>3
  <2> QED
    BY <1>2, <1>3, <2>1, <2>2, <2>3, <2>4, <2>5 DEF AllCovered
<1>7. ASSUME NEW s \in Savers, Open(s) \/ DumpFirst(s) \/ DumpSecond(s)
      PROVE  AllCovered'
  <2>1. UNCHANGED <<done, loaded, outdated>> /\ (forgotten' <=> forgotten)
    BY <1>7 DEF Open, DumpFirst, DumpSecond, Dump
  <2>2. (scarred => scarred') /\ (Seen' = Seen \/ scarred')
    <3>1. CASE Open(s)
      <4>1. scarred' <=> scarred
        BY <3>1 DEF Open
      <4> QED
        BY <3>1, <4>1, OpenUnseen
    <3>2. CASE DumpFirst(s) \/ DumpSecond(s)
      <4>1. scarred => scarred'
        BY <3>2 DEF DumpFirst, DumpSecond, Dump
      <4> QED
        BY <3>2, <4>1, DumpUnseen
    <3> QED
      BY <1>7, <3>1, <3>2
  <2>3. \A u \in Savers : pc'[u] \in {"open"} \cup Dumping => pc[u] \in {"open"} \cup Dumping
    BY <1>1, <1>7 DEF Open, DumpFirst, DumpSecond, Dump, Goto
  <2> QED
    BY <1>2, <1>3, <2>1, <2>2, <2>3 DEF AllCovered
<1>8. ASSUME NEW s \in Savers, Replace(s)
      PROVE  AllCovered'
  <2>1. /\ pc[s] = "replace" /\ pc' = [pc EXCEPT ![s] = "idle"]
        /\ done' = done \cup batch[s]
        /\ scarred' <=> s \in overlapped
        /\ forgotten' <=> forgotten \/ s \in outdated
        /\ outdated' = (outdated \ {s}) \cup Others(s)
    BY <1>8 DEF Replace, DropFrame, Goto
  <2>2. \A u \in Savers : pc'[u] \in {"open"} \cup Dumping => u \in outdated'
    BY <1>1, <2>1 DEF Others
  <2>3. ASSUME ~forgotten', ~scarred'
        PROVE  Covers(LoadRaw', done')
    <3>1. Covers(loaded[s], done)
      BY <1>1, <1>2, <2>1, <2>3
    <3>2. Covers(NewCorpus(s), done')
      BY <2>1, <3>1, CoversNew
    <3>3. Seen' = NewCorpus(s)
      BY <1>8, <2>1, <2>3, SeenReplaced
    <3>4. LoadRaw' = NewCorpus(s)
      BY <3>3, CorpusType, IndexAssumption DEF LoadRaw, FileInv
    <3> QED
      BY <3>2, <3>4
  <2> QED
    BY <2>2, <2>3 DEF AllCovered
<1>9. ASSUME NEW s \in Savers, ReplaceFails(s) \/ StepFails(s) \/ Killed(s)
      PROVE  AllCovered'
  <2>1. /\ DropFrame(s) /\ done' = done /\ outdated' = outdated \ {s}
        /\ (forgotten' <=> forgotten) /\ (scarred' <=> scarred)
    BY <1>9 DEF ReplaceFails, StepFails, Fail, Killed
  <2>2. Seen' = Seen
    BY <1>9 DEF ReplaceFails, StepFails, Fail, Killed, fileVars, Seen, Whole
  <2>3. \A u \in Savers : pc'[u] \in {"open"} \cup Dumping =>
            u # s /\ pc[u] \in {"open"} \cup Dumping
    BY <1>1, <2>1 DEF DropFrame, Goto
  <2>4. \A u \in Savers \ {s} : Current(u) => Current(u)'
    BY <1>1, <2>1 DEF DropFrame
  <2> QED
    BY <1>2, <1>3, <2>1, <2>2, <2>3, <2>4 DEF AllCovered
<1>10. CASE LockExpires \/ UNCHANGED vars
  <2>1. UNCHANGED <<pc, done, loaded, outdated>> /\ (forgotten' <=> forgotten) /\ (scarred' <=> scarred)
    BY <1>10 DEF LockExpires, vars, saverVars, historyVars
  <2>2. Seen' = Seen
    BY <1>10 DEF LockExpires, vars, fileVars, Seen, Whole
  <2> QED
    BY <1>2, <1>3, <2>1, <2>2 DEF AllCovered
<1> QED
  BY <1>4, <1>5, <1>6, <1>7, <1>8, <1>9, <1>10 DEF Next

\* No run drops the files of another one from the index unless it saved what it
\* had read before that one saved: not by failing, not by finding nothing to
\* index, and not by being killed with path.tmp half written.
THEOREM NoneForgotten == Spec => []NothingForgotten
<1>1. Init => AllCovered
  BY DEF Init, AllCovered, Covers, Dumping
<1>2. AllCovered => NothingForgotten
  BY DEF AllCovered, Covers, NothingForgotten
<1> QED
  BY <1>1, <1>2, AllCoveredStep, FileInvariant, PTL DEF Spec
================================================================================
