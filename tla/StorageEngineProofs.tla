------------------------ MODULE StorageEngineProofs ------------------------
(***************************************************************************)
(* Proofs about StorageEngine, for every set of threads, every set of      *)
(* names, every number of records and every number of calls.  Types hold   *)
(* under every workload; what the engine promises holds where MOVE and     *)
(* DELETE come alone and files can be written, in any mixture with crashes *)
(* of the process.                                                         *)
(***************************************************************************)
EXTENDS StorageEngine, ArrayFacts

-----------------------------------------------------------------------------
(* The inductive invariant, first part: what a thread's locals are at each *)
(* place of its call.                                                      *)

UndoLeft == {<<"undo">>, <<"meta", "undo">>, <<"content", "meta", "undo">>}
ContentLeft == {<<"content", "meta">>, <<"content", "meta", "undo">>}
MoveLeft == {<<>>, <<"meta", "undo">>, <<"undo">>}
SaveLeft == UndoLeft \cup ContentLeft \cup {<<>>, <<"meta">>}

\* The places where a call knows its record, and where it has a checkpoint.
WithFile == {"loadundo", "lock", "save", "checkpoint", "relabelled"}
PastSnapshot == {"find", "load", "loadundo", "lock", "save", "checkpoint"}

ShapeOf(k, c) ==
    /\ k = "idle" <=> c.op = "none"
    /\ k = "idle" => c = NoCall
    /\ k # "idle" => c.path \in Paths
    /\ k \in {"rename", "relabel", "relabelled"} <=> c.op = "MOVE"
    /\ c.op = "MOVE" => c.dest \in Paths
    /\ k \in {"delete", "unlink"} <=> c.op = "DELETE"
    /\ k = "snapshot" => c.op = "REVERT"
    /\ k = "checkpoint" => c.op = "CHECKPOINT"
    /\ k \in PastSnapshot /\ c.op = "REVERT" => c.snapshot # {}
    /\ k \in WithFile => c.file \in Addresses
    /\ k = "save" => c.todo \in SaveLeft
    /\ k = "rename" => c.todo \in MoveLeft
    /\ k = "unlink" => c.todo \in UndoLeft \cup {<<>>}
    /\ k \notin {"save", "rename", "unlink"} => c.todo = <<>>

CallShape == \A t \in Threads : ShapeOf(pc[t], call[t])

\* Who reads files into a new record, or has found the record to relabel, holds
\* files_mutex, and an address is free for the new record.
FilesHeld ==
    \A t \in Threads : pc[t] \in {"load", "loadundo", "relabelled"} => files_mutex = t

Room == \A t \in Threads : pc[t] = "load" => Len(files) < MaxRecords

\* There are texts left for the calls that will make one.
Making ==
    {t \in Threads : /\ call[t].op \in {"WRITE", "IMPORT"}
                     /\ pc[t] \in {"find", "load", "loadundo", "lock"}}

TextsLeft ==
    /\ 1 <= nextText /\ nextText + Cardinality(Making) <= calls + 1
    /\ calls <= MaxCalls

TInv == TypeOK /\ CallShape /\ FilesHeld /\ Room /\ TextsLeft

-----------------------------------------------------------------------------
(* What the operators give.                                                *)

Live == Range(files)
IsNamed(p) == \E a \in Live : heap[a].filename = p

\* The record a name leads to is in the array and has the name.
LEMMA Finding ==
  ASSUME TypeOK, NEW p
  PROVE  /\ Named(p) # {} <=> IsNamed(p)
         /\ Named(p) # {} => /\ FindFile(p) \in Live /\ FindFile(p) \in Addresses
                             /\ heap[FindFile(p)].filename = p
  <1>1. DOMAIN files \subseteq Nat /\ \A i \in DOMAIN files : files[i] \in Addresses
    BY DEF TypeOK
  <1>2. Named(p) # {} <=> IsNamed(p)
    BY DEF Named, IsNamed, Live, Range
  <1>3. ASSUME Named(p) # {}
        PROVE  /\ FindFile(p) \in Live /\ FindFile(p) \in Addresses
               /\ heap[FindFile(p)].filename = p
    <2>1. Named(p) \in SUBSET Nat
      BY <1>1 DEF Named
    <2>2. \E i \in Named(p) : \A j \in Named(p) : i <= j
      BY <1>3, <2>1, LeastNat
    <2> DEFINE first == CHOOSE i \in Named(p) : \A j \in Named(p) : i <= j
    <2>3. first \in Named(p)
      BY <2>2
    <2>4. FindFile(p) = files[first]
      BY DEF FindFile
    <2> HIDE DEF first
    <2>5. first \in DOMAIN files /\ heap[files[first]].filename = p
      BY <2>3 DEF Named
    <2>6. QED BY <1>1, <2>4, <2>5 DEF Live, Range
  <1>4. QED BY <1>2, <1>3

\* The first n numbers are n.
LEMMA UpTo ==
  ASSUME NEW n \in Nat
  PROVE  IsFiniteSet(1..n) /\ Cardinality(1..n) = n
  <1>1. Cardinality(1..n) = IF 1 > n THEN 0 ELSE n - 1 + 1
    BY FS_Interval
  <1>2. IsFiniteSet(1..n)
    BY FS_Interval
  <1>3. QED BY <1>1, <1>2

\* As long as the array has room there is a free address.
LEMMA FreeAddress ==
  ASSUME TypeOK, Len(files) < MaxRecords
  PROVE  /\ (CHOOSE x \in Addresses : x \notin Range(files)) \in Addresses
         /\ (CHOOSE x \in Addresses : x \notin Range(files)) \notin Range(files)
  <1>1. \E x \in Addresses : x \notin Range(files)
    <2>1. SUFFICES ASSUME Addresses \subseteq Range(files) PROVE FALSE
      OBVIOUS
    <2> DEFINE n == Len(files)
    <2>2. n \in Nat /\ MaxRecords \in Nat /\ DOMAIN files = 1..n
      BY EngineAssumption DEF TypeOK
    <2>3. IsFiniteSet(1..n) /\ Cardinality(1..n) = n
      BY <2>2, UpTo
    <2>4. IsFiniteSet(Addresses) /\ Cardinality(Addresses) = MaxRecords
      BY <2>2, UpTo DEF Addresses
    <2>5. Range(files) = {files[i] : i \in 1..n}
      BY <2>2 DEF Range
    <2> HIDE DEF n
    <2>6. IsFiniteSet(Range(files)) /\ Cardinality(Range(files)) <= n
      <3> DEFINE f == [i \in 1..n |-> files[i]]
      <3>1. f \in Surjection(1..n, Range(files))
        BY <2>5 DEF Surjection
      <3> HIDE DEF f
      <3>2. QED BY <2>3, <3>1, FS_Surjection, FS_SurjCardinalityBound
    <2>7. Cardinality(Addresses) <= Cardinality(Range(files))
      BY <2>1, <2>6, FS_Subset
    <2>8. Cardinality(Range(files)) \in Nat
      BY <2>6, FS_CardinalityType
    <2>9. QED BY <2>2, <2>4, <2>6, <2>7, <2>8 DEF n
  <1>2. QED BY <1>1

\* The only member of a set is a member.
LEMMA TheIn ==
  ASSUME NEW S, S # {}
  PROVE  The(S) \in S
  BY DEF The

\* The lists of files that a call has yet to write, rename or unlink.
LEMMA Lists ==
  /\ SaveLeft \cup MoveLeft \subseteq Seq(Parts)
  /\ ContentLeft \cup UndoLeft \cup {<<>>, <<"meta">>} \subseteq SaveLeft
  /\ {<<>>, <<"meta", "undo">>, <<"undo">>} \subseteq MoveLeft
  /\ <<"content", "meta">> \in ContentLeft \ UndoLeft
  /\ <<"content", "meta", "undo">> \in ContentLeft \cap UndoLeft
  /\ {<<"meta", "undo">>, <<"undo">>} \subseteq UndoLeft \ ContentLeft
  /\ {<<>>, <<"meta">>} \cap (ContentLeft \cup UndoLeft) = {}
  /\ \A s \in SaveLeft : s # <<>> =>
        /\ Head(s) \in Parts /\ Tail(s) \in SaveLeft /\ Tail(s) \notin ContentLeft
        /\ Head(s) = "content" <=> s \in ContentLeft
        /\ Head(s) = "undo" => s \in UndoLeft /\ Tail(s) = <<>>
        /\ Head(s) # "undo" => (s \in UndoLeft <=> Tail(s) \in UndoLeft)
  /\ \A s \in UndoLeft : Tail(s) \in UndoLeft \cup {<<>>}
  BY DEF SaveLeft, MoveLeft, UndoLeft, ContentLeft, Parts

\* A call goes on with another list.
LEMMA ListShape ==
  ASSUME NEW c \in Call, NEW k, NEW k2, NEW l \in Seq(Parts), ShapeOf(k, c),
         \/ k \in {"lock", "save", "checkpoint"} /\ k2 = "save" /\ l \in SaveLeft
         \/ k = "rename" /\ k2 = "rename" /\ l \in MoveLeft
         \/ k = "rename" /\ k2 = "relabel" /\ l = <<>>
         \/ k \in {"delete", "unlink"} /\ k2 = "unlink" /\ l \in UndoLeft \cup {<<>>}
  PROVE  [c EXCEPT !.todo = l] \in Call /\ ShapeOf(k2, [c EXCEPT !.todo = l]) /\ k2 \in PCs
  BY DEF ShapeOf, Call, PCs, PastSnapshot, WithFile


\* A step of t changes the locals of t alone, and keeps their shape.
Advances(t) ==
    /\ pc' = [pc EXCEPT ![t] = pc'[t]] /\ call' = [call EXCEPT ![t] = call'[t]]
    /\ pc'[t] \in PCs /\ call'[t] \in Call /\ ShapeOf(pc'[t], call'[t])

\* A step along the list of files that are still to be written, renamed or
\* unlinked keeps the shape of the locals.
LEMMA ListStep ==
  ASSUME TypeOK, CallShape, NEW t \in Threads, NEW k, NEW l \in Seq(Parts),
         \/ pc[t] \in {"lock", "save", "checkpoint"} /\ k = "save" /\ l \in SaveLeft
         \/ pc[t] = "rename" /\ k = "rename" /\ l \in MoveLeft
         \/ pc[t] = "rename" /\ k = "relabel" /\ l = <<>>
         \/ pc[t] \in {"delete", "unlink"} /\ k = "unlink" /\ l \in UndoLeft \cup {<<>>},
         pc' = [pc EXCEPT ![t] = k], call' = [call EXCEPT ![t].todo = l]
  PROVE  Advances(t)
  <1>1. call[t] \in Call /\ ShapeOf(pc[t], call[t])
    BY DEF TypeOK, CallShape
  <1>2. /\ pc'[t] = k /\ pc' = [pc EXCEPT ![t] = k]
        /\ call'[t] = [call[t] EXCEPT !.todo = l]
        /\ call' = [call EXCEPT ![t] = call'[t]]
    BY DEF TypeOK
  <1>3. [call[t] EXCEPT !.todo = l] \in Call /\ ShapeOf(k, [call[t] EXCEPT !.todo = l]) /\ k \in PCs
    BY <1>1, ListShape
  <1>4. QED BY <1>2, <1>3 DEF Advances

\* Every step of a call changes its own place and its own locals only, and
\* gives them the shape of the new place.
LEMMA ShapeStep ==
  ASSUME TypeOK, CallShape, Room, NEW t \in Threads, ThreadStep(t)
  PROVE  Advances(t)
  <1> DEFINE c == call[t]
  <1>1. /\ c \in Call /\ pc[t] \in PCs /\ ShapeOf(pc[t], c)
    BY DEF TypeOK, CallShape
  <1>0. <<>> \in SaveLeft
    BY Lists
  <1>2. /\ pc \in [Threads -> PCs] /\ call \in [Threads -> Call]
        /\ \A p \in Paths : checkpoints[p] \subseteq Texts
    BY DEF TypeOK
  <1>3. CASE ReadSnapshot(t)
    BY <1>1, <1>2, <1>3
    DEF ReadSnapshot, Goto, Advances, ShapeOf, Call, NoCall, PCs, PastSnapshot, WithFile
  <1>4. CASE NoSnapshot(t)
    BY <1>1, <1>2, <1>4
    DEF NoSnapshot, Goto, Return, Advances, ShapeOf, Call, NoCall, PCs, PastSnapshot, WithFile
  <1>5. CASE Found(t)
    BY <1>1, <1>2, <1>5, Finding
    DEF Found, Goto, Advances, ShapeOf, Call, NoCall, PCs, PastSnapshot, WithFile
  <1>6. CASE NotFound(t)
    BY <1>1, <1>2, <1>6
    DEF NotFound, Goto, Advances, ShapeOf, Call, NoCall, PCs, PastSnapshot, WithFile
  <1>7. CASE LoadContent(t)
    BY <1>1, <1>2, <1>7, FreeAddress
    DEF LoadContent, Goto, Room, Advances, ShapeOf, Call, NoCall, PCs, PastSnapshot, WithFile
  <1>8. CASE LoadUndo(t)
    BY <1>1, <1>2, <1>8
    DEF LoadUndo, Goto, Advances, ShapeOf, Call, NoCall, PCs, PastSnapshot, WithFile
  <1>9. CASE CreateFile(t)
    <2> DEFINE l == <<"content", "meta">>
    <2>1. l \in Seq(Parts) /\ l \in SaveLeft
      BY Lists
    <2>2. /\ pc[t] = "lock" /\ pc' = [pc EXCEPT ![t] = "save"]
          /\ call' = [call EXCEPT ![t].todo = l]
      BY <1>2, <1>9 DEF CreateFile, Enter, Goto
    <2> HIDE DEF l
    <2>3. QED BY <2>1, <2>2, ListStep
  <1>10. CASE ReadFile(t)
    <2> DEFINE l == <<"meta">>
    <2>1. l \in Seq(Parts) /\ l \in SaveLeft
      BY Lists
    <2>2. /\ pc[t] = "lock" /\ pc' = [pc EXCEPT ![t] = "save"]
          /\ call' = [call EXCEPT ![t].todo = l]
      BY <1>2, <1>10 DEF ReadFile, Enter, Goto
    <2> HIDE DEF l
    <2>3. QED BY <2>1, <2>2, ListStep
  <1>11. CASE Write(t)
    <2> DEFINE l == <<"content", "meta", "undo">>
    <2>1. l \in Seq(Parts) /\ l \in SaveLeft
      BY Lists
    <2>2. /\ pc[t] = "lock" /\ pc' = [pc EXCEPT ![t] = "save"]
          /\ call' = [call EXCEPT ![t].todo = l]
      BY <1>2, <1>11 DEF Write, Enter, Goto
    <2> HIDE DEF l
    <2>3. QED BY <2>1, <2>2, ListStep
  <1>12. CASE UndoFile(t)
    <2> DEFINE l == <<"content", "meta", "undo">>
    <2>1. l \in Seq(Parts) /\ l \in SaveLeft
      BY Lists
    <2>2. /\ pc[t] = "lock" /\ pc' = [pc EXCEPT ![t] = "save"]
          /\ call' = [call EXCEPT ![t].todo = l]
      BY <1>2, <1>12 DEF UndoFile, Enter, Goto
    <2> HIDE DEF l
    <2>3. QED BY <2>1, <2>2, ListStep
  <1>13. CASE RevertCheckpoint(t)
    <2> DEFINE l == <<"content", "meta", "undo">>
    <2>1. l \in Seq(Parts) /\ l \in SaveLeft
      BY Lists
    <2>2. /\ pc[t] = "lock" /\ pc' = [pc EXCEPT ![t] = "save"]
          /\ call' = [call EXCEPT ![t].todo = l]
      BY <1>2, <1>13 DEF RevertCheckpoint, Enter, Goto
    <2> HIDE DEF l
    <2>3. QED BY <2>1, <2>2, ListStep
  <1>14. CASE ImportFile(t)
    <2> DEFINE l == <<"content", "meta">>
    <2>1. l \in Seq(Parts) /\ l \in SaveLeft
      BY Lists
    <2>2. /\ pc[t] = "lock" /\ pc' = [pc EXCEPT ![t] = "save"]
          /\ call' = [call EXCEPT ![t].todo = l]
      BY <1>2, <1>14 DEF ImportFile, Enter, Goto
    <2> HIDE DEF l
    <2>3. QED BY <2>1, <2>2, ListStep
  <1>15. CASE Checkpoint(t)
    BY <1>1, <1>2, <1>15
    DEF Checkpoint, Goto, Advances, ShapeOf, Call, NoCall, PCs, PastSnapshot, WithFile
  <1>16. CASE SaveCheckpoint(t)
    BY <1>1, <1>2, <1>16, <1>0
    DEF SaveCheckpoint, Goto, Advances, ShapeOf, Call, NoCall, PCs, PastSnapshot, WithFile
  <1>17. CASE CheckpointFailed(t)
    BY <1>1, <1>2, <1>17, <1>0
    DEF CheckpointFailed, Goto, Advances, ShapeOf, Call, NoCall, PCs, PastSnapshot, WithFile
  <1>18. CASE Refused(t)
    BY <1>1, <1>2, <1>18
    DEF Refused, Return, Goto, Advances, ShapeOf, Call, NoCall, PCs, PastSnapshot, WithFile
  <1>19. CASE Save(t)
    <2> DEFINE l == Tail(c.todo)
    <2>1. l \in Seq(Parts) /\ l \in SaveLeft
      BY <1>1, <1>19, Lists DEF ShapeOf, Save
    <2>2. /\ pc[t] = "save" /\ pc' = [pc EXCEPT ![t] = "save"]
          /\ call' = [call EXCEPT ![t].todo = l]
      BY <1>2, <1>19 DEF Save
    <2> HIDE DEF l
    <2>3. QED BY <2>1, <2>2, ListStep
  <1>20. CASE SaveFailed(t)
    <2> DEFINE l == IF c.op \in {"CREATE", "IMPORT"} THEN <<>> ELSE Tail(c.todo)
    <2>1. l \in Seq(Parts) /\ l \in SaveLeft
      BY <1>1, <1>20, Lists DEF ShapeOf, SaveFailed
    <2>2. /\ pc[t] = "save" /\ pc' = [pc EXCEPT ![t] = "save"]
          /\ call' = [call EXCEPT ![t].todo = l]
      BY <1>2, <1>20 DEF SaveFailed
    <2> HIDE DEF l
    <2>3. QED BY <2>1, <2>2, ListStep
  <1>21. CASE Release(t)
    BY <1>1, <1>2, <1>21
    DEF Release, Return, Goto, Advances, ShapeOf, Call, NoCall, PCs, PastSnapshot, WithFile
  <1>22. CASE RenameContent(t)
    <2> DEFINE l == <<"meta", "undo">>
    <2>1. l \in Seq(Parts) /\ l \in MoveLeft
      BY Lists
    <2>2. /\ pc[t] = "rename" /\ pc' = [pc EXCEPT ![t] = "rename"]
          /\ call' = [call EXCEPT ![t].todo = l]
      BY <1>2, <1>22 DEF RenameContent, Renamed, Goto
    <2> HIDE DEF l
    <2>3. QED BY <2>1, <2>2, ListStep
  <1>23. CASE RenameFailed(t)
    BY <1>1, <1>2, <1>23
    DEF RenameFailed, Return, Goto, Advances, ShapeOf, Call, NoCall, PCs, PastSnapshot, WithFile
  <1>24. CASE RenameMeta(t)
    <2> DEFINE l == <<"undo">>
    <2>1. l \in Seq(Parts) /\ l \in MoveLeft
      BY Lists
    <2>2. /\ pc[t] = "rename" /\ pc' = [pc EXCEPT ![t] = "rename"]
          /\ call' = [call EXCEPT ![t].todo = l]
      BY <1>2, <1>24 DEF RenameMeta, Renamed, Goto
    <2> HIDE DEF l
    <2>3. QED BY <2>1, <2>2, ListStep
  <1>25. CASE RenameUndo(t)
    <2> DEFINE l == <<>>
    <2>1. l \in Seq(Parts) /\ l \in MoveLeft
      BY Lists
    <2>2. /\ pc[t] = "rename" /\ pc' = [pc EXCEPT ![t] = "relabel"]
          /\ call' = [call EXCEPT ![t].todo = l]
      BY <1>2, <1>25 DEF RenameUndo, Renamed, Goto
    <2> HIDE DEF l
    <2>3. QED BY <2>1, <2>2, ListStep DEF l
  <1>26. CASE RelabelFind(t)
    BY <1>1, <1>2, <1>26, Finding
    DEF RelabelFind, Goto, Advances, ShapeOf, Call, NoCall, PCs, PastSnapshot, WithFile
  <1>27. CASE RelabelNone(t)
    BY <1>1, <1>2, <1>27
    DEF RelabelNone, Return, Goto, Advances, ShapeOf, Call, NoCall, PCs, PastSnapshot, WithFile
  <1>28. CASE Relabel(t)
    BY <1>1, <1>2, <1>28
    DEF Relabel, Return, Goto, Advances, ShapeOf, Call, NoCall, PCs, PastSnapshot, WithFile
  <1>29. CASE DeleteNotFound(t)
    BY <1>1, <1>2, <1>29
    DEF DeleteNotFound, Return, Goto, Advances, ShapeOf, Call, NoCall, PCs, PastSnapshot,
       WithFile
  <1>30. CASE DeleteRecord(t)
    <2> DEFINE l == <<"content", "meta", "undo">>
    <2>1. l \in Seq(Parts) /\ l \in UndoLeft
      BY Lists
    <2>2. /\ pc[t] = "delete" /\ pc' = [pc EXCEPT ![t] = "unlink"]
          /\ call' = [call EXCEPT ![t].todo = l]
      BY <1>2, <1>30 DEF DeleteRecord, Goto
    <2> HIDE DEF l
    <2>3. QED BY <2>1, <2>2, ListStep
  <1>31. CASE Unlink(t)
    <2> DEFINE l == Tail(c.todo)
    <2>1. l \in Seq(Parts) /\ l \in UndoLeft \cup {<<>>}
      BY <1>1, <1>31, Lists DEF ShapeOf, Unlink
    <2>2. /\ pc[t] = "unlink" /\ pc' = [pc EXCEPT ![t] = "unlink"]
          /\ call' = [call EXCEPT ![t].todo = l]
      BY <1>2, <1>31 DEF Unlink
    <2> HIDE DEF l
    <2>3. QED BY <2>1, <2>2, ListStep
  <1>32. CASE Deleted(t)
    BY <1>1, <1>2, <1>32
    DEF Deleted, Return, Goto, Advances, ShapeOf, Call, NoCall, PCs, PastSnapshot, WithFile
  <1>33. QED BY <1>3, <1>4, <1>5, <1>6, <1>7, <1>8, <1>9, <1>10, <1>11, <1>12, <1>13, <1>14,
                <1>15, <1>16, <1>17, <1>18, <1>19, <1>20, <1>21, <1>22, <1>23, <1>24, <1>25,
                              <1>26, <1>27, <1>28, <1>29, <1>30, <1>31, <1>32 DEF ThreadStep

\* The locals of an idle thread.
LEMMA NoCallType == NoCall \in Call
  <1>1. <<>> \in Seq(Parts) /\ {} \in SUBSET Texts
    BY Lists
  <1>2. QED BY <1>1 DEF NoCall, Call, NoAddress

\* A new call starts from an idle thread and touches neither memory, mutexes
\* nor disk.
LEMMA StartStep ==
  ASSUME TypeOK, CallShape, NEW t \in Threads, NewCall(t)
  PROVE  /\ Advances(t) /\ pc[t] = "idle" /\ pc'[t] \in {"find", "snapshot", "rename", "delete"}
         /\ call'[t].snapshot = {} /\ answer' = [answer EXCEPT ![t] = NoAnswer]
         /\ calls' = calls + 1 /\ calls < MaxCalls
         /\ UNCHANGED <<memoryVars, mutexVars, diskVars, nextText>>
  <1>1. PICK p \in Paths :
           \/ \E op \in Opcodes : StartOnFile(t, op, p)
           \/ StartRevert(t, p) \/ StartDelete(t, p)
           \/ \E q \in Paths : StartMove(t, p, q)
    BY DEF NewCall
  <1>2. PICK op \in Opcodes, q \in Paths \cup {NoPath}, k \in PCs :
           /\ Start(t, op, p, q, k)
           /\ \/ op \in {"CREATE", "READ", "WRITE", "UNDO", "CHECKPOINT", "IMPORT"} /\ k = "find"
              \/ op = "REVERT" /\ k = "snapshot"
              \/ op = "DELETE" /\ k = "delete"
              \/ op = "MOVE" /\ k = "rename" /\ q \in Paths
    BY <1>1 DEF StartOnFile, StartRevert, StartDelete, StartMove, Start, MayStart, PCs
  <1> DEFINE c == [NoCall EXCEPT !.op = op, !.path = p, !.dest = q]
  <1>3. /\ c \in Call /\ c.op = op /\ c.path = p /\ c.dest = q
        /\ c.todo = <<>> /\ c.file = NoAddress /\ c.snapshot = {}
    <2>1. NoCall \in Call
      BY NoCallType
    <2>2. QED BY <2>1 DEF Call, NoCall
  <1>4. /\ pc[t] = "idle" /\ pc' = [pc EXCEPT ![t] = k] /\ pc'[t] = k
        /\ call' = [call EXCEPT ![t] = c] /\ call'[t] = c
    BY <1>2 DEF Start, Goto, TypeOK
  <1>5. ShapeOf(k, c) /\ k \in PCs
    <2>1. <<>> \in MoveLeft
      BY Lists
    <2>2. QED BY <1>2, <1>3, <2>1 DEF ShapeOf, PCs, PastSnapshot, WithFile
  <1>6. Advances(t)
    BY <1>3, <1>4, <1>5 DEF Advances
  <1>7. QED BY <1>2, <1>3, <1>4, <1>6 DEF Start, MayStart

\* A file takes the place of another.
LEMMA DiskType ==
  ASSUME NEW d \in [Paths -> OnDisk], NEW p, NEW part \in Parts, NEW v \in SUBSET Texts
  PROVE  [d EXCEPT ![p][part] = v] \in [Paths -> OnDisk]
  <1>1. ASSUME NEW r \in OnDisk PROVE [r EXCEPT ![part] = v] \in OnDisk
    <2>1. CASE part = "content"
      BY <2>1 DEF OnDisk
    <2>2. CASE part = "meta"
      BY <2>2 DEF OnDisk
    <2>3. CASE part = "undo"
      BY <2>3 DEF OnDisk
    <2>4. QED BY <2>1, <2>2, <2>3 DEF Parts
  <1>2. QED BY <1>1

\* A file of a record on disk is one text or absent.
LEMMA PartType ==
  ASSUME NEW r \in OnDisk, NEW part \in Parts
  PROVE  r[part] \in SUBSET Texts
  <1>1. r.content \in SUBSET Texts /\ r.meta \in SUBSET Texts /\ r.undo \in SUBSET Texts
    BY DEF OnDisk
  <1>2. QED BY <1>1 DEF Parts

\* rename keeps the types of the disk.
LEMMA RenameType ==
  ASSUME disk \in [Paths -> OnDisk], NEW p \in Paths, NEW q \in Paths, NEW part \in Parts
  PROVE  RenamePart(p, q, part) \in [Paths -> OnDisk]
  <1> DEFINE d == [disk EXCEPT ![q][part] = disk[p][part]]
  <1>1. disk[p][part] \in SUBSET Texts
    BY PartType
  <1>2. d \in [Paths -> OnDisk]
    BY <1>1, DiskType
  <1>3. {} \in SUBSET Texts
    OBVIOUS
  <1>4. [d EXCEPT ![p][part] = {}] \in [Paths -> OnDisk]
    <2> HIDE DEF d
    <2>1. QED BY <1>2, <1>3, DiskType
  <1>5. QED BY <1>4 DEF RenamePart

\* A thread that has to make a text finds one.
LEMMA TextLeft ==
  ASSUME TypeOK, TextsLeft, NEW t \in Making
  PROVE  nextText \in Texts /\ nextText # Empty /\ IsFiniteSet(Making)
  <1>1. IsFiniteSet(Making)
    BY EngineAssumption, FS_Subset DEF Making
  <1>2. Cardinality(Making) \in Nat /\ Cardinality(Making) # 0
    BY <1>1, FS_CardinalityType, FS_EmptySet
  <1>3. nextText \in Nat /\ calls \in Nat /\ MaxCalls \in Nat
    BY EngineAssumption DEF TypeOK
  <1>4. QED BY <1>1, <1>2, <1>3 DEF TextsLeft, Texts, Empty

\* New text in a record keeps the types of the heap.
LEMMA SetContentType ==
  ASSUME heap \in [Addresses -> Record], NEW t,
         NEW v \in Texts, NEW u \in SUBSET Texts, SetContent(t, v, u)
  PROVE  heap' \in [Addresses -> Record]
  BY DEF SetContent, Record

\* What a step of a call does to the rest of the state keeps its types.
DataOK ==
    /\ files \in Seq(Addresses) /\ heap \in [Addresses -> Record]
    /\ files_mutex \in Threads \cup {NoThread}
    /\ file_mutex \in [Addresses -> Threads \cup {NoThread}]
    /\ disk \in [Paths -> OnDisk] /\ checkpoints \in [Paths -> SUBSET Texts]
    /\ answer \in [Threads -> Texts \cup {NoAnswer}]
    /\ nextText \in Nat /\ calls \in Nat

\* Every step of a call keeps the types of memory, mutexes and disk.
LEMMA DataStep ==
  ASSUME TInv, NEW t \in Threads, ThreadStep(t)
  PROVE  DataOK'
  <1> DEFINE c == call[t]
  <1>1. c \in Call /\ pc[t] \in PCs /\ ShapeOf(pc[t], c)
    BY DEF TInv, TypeOK, CallShape
  <1>2. DataOK
    BY DEF TInv, TypeOK, DataOK
  <1>3. c.file \in Addresses => heap[c.file] \in Record
    BY <1>2 DEF DataOK
  <1>4. Empty \in Texts
    BY EngineAssumption DEF Empty, Texts
  <1>5. CASE ReadSnapshot(t)
    BY <1>2, <1>5 DEF ReadSnapshot, memoryVars, mutexVars, diskVars, DataOK
  <1>6. CASE NoSnapshot(t)
    BY <1>2, <1>6 DEF NoSnapshot, memoryVars, mutexVars, diskVars, DataOK
  <1>7. CASE Found(t)
    BY <1>2, <1>7 DEF Found, memoryVars, mutexVars, diskVars, DataOK
  <1>8. CASE NotFound(t)
    BY <1>2, <1>8 DEF NotFound, memoryVars, mutexVars, diskVars, DataOK
  <1>9. CASE LoadContent(t)
    <2> DEFINE a == CHOOSE x \in Addresses : x \notin Range(files)
               content == IF disk[c.path].content = {} THEN Empty ELSE The(disk[c.path].content)
    <2>1. c.path \in Paths /\ pc[t] = "load"
      BY <1>1, <1>9 DEF LoadContent, Goto, ShapeOf
    <2>2. disk[c.path].content \subseteq Texts
      BY <1>2, <2>1 DEF DataOK, OnDisk
    <2>3. content \in Texts /\ {} \in SUBSET Texts
      BY <1>4, <2>2, TheIn
    <2>4. heap' = [heap EXCEPT ![a] = [filename |-> c.path, content |-> content, undo |-> {}]]
      BY <1>9 DEF LoadContent
    <2> HIDE DEF a, content
    <2>5. heap' \in [Addresses -> Record]
      BY <1>2, <2>1, <2>3, <2>4 DEF DataOK, Record
    <2>6. QED BY <1>2, <2>5, <1>9 DEF LoadContent, mutexVars, diskVars, DataOK
  <1>10. CASE LoadUndo(t)
    <2>1. c.file \in Addresses /\ disk[c.path].undo \in SUBSET Texts
      BY <1>1, <1>2, <1>10 DEF LoadUndo, Goto, ShapeOf, WithFile, DataOK, OnDisk
    <2>2. heap' \in [Addresses -> Record]
      BY <1>2, <2>1, <1>10 DEF LoadUndo, DataOK, Record
    <2>3. QED BY <1>2, <2>1, <2>2, <1>10 DEF LoadUndo, diskVars, DataOK
  <1>11. CASE CreateFile(t)
    BY <1>2, <1>11 DEF CreateFile, Enter, memoryVars, mutexVars, diskVars, DataOK
  <1>12. CASE ReadFile(t)
    BY <1>1, <1>2, <1>3, <1>12 DEF ReadFile, Enter, Goto, memoryVars, mutexVars, diskVars,
       DataOK, Content, Record, ShapeOf, WithFile
  <1>13. CASE Write(t)
    <2>1. Content(t) \in Texts /\ t \in Making
      BY <1>1, <1>3, <1>13 DEF Write, Enter, Goto, Content, Making, ShapeOf, WithFile, Record
    <2>2. nextText \in Texts
      BY <2>1, TextLeft DEF TInv
    <2>3. heap' \in [Addresses -> Record]
      BY <1>2, <2>1, <2>2, <1>13, SetContentType DEF Write, DataOK
    <2>4. nextText' \in Nat
      BY <1>2, <1>13 DEF Write, DataOK
    <2>5. QED BY <1>2, <2>3, <2>4, <1>13 DEF Write, Enter, diskVars, DataOK
  <1>14. CASE UndoFile(t)
    <2>1. Content(t) \in Texts /\ Undo(t) \in SUBSET Texts
      BY <1>1, <1>3, <1>14 DEF UndoFile, Enter, Goto, Content, Undo, ShapeOf, WithFile, Record
    <2>2. The(Undo(t)) \in Texts
      BY <2>1, <1>14, TheIn DEF UndoFile
    <2> DEFINE v == The(Undo(t))
               u == {Content(t)}
    <2>3. v \in Texts /\ u \in SUBSET Texts /\ SetContent(t, v, u)
      BY <2>1, <2>2, <1>14 DEF UndoFile
    <2> HIDE DEF u, v
    <2>4. heap' \in [Addresses -> Record]
      BY <1>2, <2>3, SetContentType DEF DataOK
    <2>5. QED BY <1>2, <2>4, <1>14 DEF UndoFile, Enter, diskVars, DataOK
  <1>15. CASE RevertCheckpoint(t)
    <2>1. Content(t) \in Texts /\ c.snapshot \in SUBSET Texts /\ c.snapshot # {}
      BY <1>1, <1>3, <1>15
      DEF RevertCheckpoint, Enter, Goto, Content, ShapeOf, WithFile, PastSnapshot, Record, Call
    <2>2. The(c.snapshot) \in Texts
      BY <2>1, TheIn
    <2> DEFINE v == The(c.snapshot)
               u == {Content(t)}
    <2>3. v \in Texts /\ u \in SUBSET Texts /\ SetContent(t, v, u)
      BY <2>1, <2>2, <1>15 DEF RevertCheckpoint
    <2> HIDE DEF u, v
    <2>4. heap' \in [Addresses -> Record]
      BY <1>2, <2>3, SetContentType DEF DataOK
    <2>5. QED BY <1>2, <2>4, <1>15 DEF RevertCheckpoint, Enter, diskVars, DataOK
  <1>16. CASE ImportFile(t)
    <2>1. Undo(t) \in SUBSET Texts /\ t \in Making
      BY <1>1, <1>3, <1>16 DEF ImportFile, Enter, Goto, Undo, Making, ShapeOf, WithFile, Record
    <2>2. nextText \in Texts
      BY <2>1, TextLeft DEF TInv
    <2>3. heap' \in [Addresses -> Record]
      BY <1>2, <2>1, <2>2, <1>16, SetContentType DEF ImportFile, DataOK
    <2>4. nextText' \in Nat
      BY <1>2, <1>16 DEF ImportFile, DataOK
    <2>5. QED BY <1>2, <2>3, <2>4, <1>16 DEF ImportFile, Enter, diskVars, DataOK
  <1>17. CASE Checkpoint(t)
    BY <1>2, <1>17 DEF Checkpoint, memoryVars, mutexVars, diskVars, DataOK
  <1>18. CASE SaveCheckpoint(t)
    <2>1. Content(t) \in Texts
      BY <1>1, <1>3, <1>18 DEF SaveCheckpoint, Goto, Content, ShapeOf, WithFile, Record
    <2>2. QED BY <1>2, <2>1, <1>18 DEF SaveCheckpoint, memoryVars, mutexVars, DataOK
  <1>19. CASE CheckpointFailed(t)
    BY <1>2, <1>19 DEF CheckpointFailed, memoryVars, mutexVars, diskVars, DataOK
  <1>20. CASE Refused(t)
    BY <1>2, <1>20 DEF Refused, memoryVars, mutexVars, diskVars, DataOK
  <1>21. CASE Save(t)
    <2> DEFINE r == heap[c.file]
               part == Head(c.todo)
               v == SavedPart(part, r, disk[r.filename])
    <2>1. part \in Parts /\ c.file \in Addresses
      BY <1>1, <1>21, Lists DEF Save, ShapeOf, WithFile
    <2>2. v \in SUBSET Texts
      BY <1>3, <2>1 DEF SavedPart, Record
    <2>3. disk' = [disk EXCEPT ![r.filename][part] = v]
      BY <1>21 DEF Save
    <2> HIDE DEF r, part, v
    <2>4. disk' \in [Paths -> OnDisk]
      BY <1>2, <2>1, <2>2, <2>3, DiskType DEF DataOK
    <2>5. QED BY <1>2, <2>4, <1>21 DEF Save, memoryVars, mutexVars, DataOK
  <1>22. CASE SaveFailed(t)
    BY <1>2, <1>22 DEF SaveFailed, memoryVars, mutexVars, diskVars, DataOK
  <1>23. CASE Release(t)
    BY <1>2, <1>23 DEF Release, memoryVars, mutexVars, diskVars, DataOK
  <1>24. CASE RenameContent(t)
    <2>1. /\ c.path \in Paths /\ c.dest \in Paths /\ "content" \in Parts
          /\ disk' = RenamePart(c.path, c.dest, "content")
      BY <1>1, <1>24 DEF RenameContent, Renamed, Goto, ShapeOf, Parts
    <2>2. disk' \in [Paths -> OnDisk]
      BY <1>2, <2>1, RenameType DEF DataOK
    <2>3. QED BY <1>2, <2>2, <1>24 DEF RenameContent, Renamed, memoryVars, mutexVars, DataOK
  <1>25. CASE RenameFailed(t)
    BY <1>2, <1>25 DEF RenameFailed, memoryVars, mutexVars, diskVars, DataOK
  <1>26. CASE RenameMeta(t)
    <2>1. /\ c.path \in Paths /\ c.dest \in Paths /\ "meta" \in Parts
          /\ disk' = RenamePart(c.path, c.dest, "meta")
      BY <1>1, <1>26 DEF RenameMeta, Renamed, Goto, ShapeOf, Parts
    <2>2. disk' \in [Paths -> OnDisk]
      BY <1>2, <2>1, RenameType DEF DataOK
    <2>3. QED BY <1>2, <2>2, <1>26 DEF RenameMeta, Renamed, memoryVars, mutexVars, DataOK
  <1>27. CASE RenameUndo(t)
    <2>1. /\ c.path \in Paths /\ c.dest \in Paths /\ "undo" \in Parts
          /\ disk' = RenamePart(c.path, c.dest, "undo")
      BY <1>1, <1>27 DEF RenameUndo, Renamed, Goto, ShapeOf, Parts
    <2>2. disk' \in [Paths -> OnDisk]
      BY <1>2, <2>1, RenameType DEF DataOK
    <2>3. QED BY <1>2, <2>2, <1>27 DEF RenameUndo, Renamed, memoryVars, mutexVars, DataOK
  <1>28. CASE RelabelFind(t)
    BY <1>2, <1>28 DEF RelabelFind, memoryVars, mutexVars, diskVars, DataOK
  <1>29. CASE RelabelNone(t)
    BY <1>2, <1>29 DEF RelabelNone, memoryVars, mutexVars, diskVars, DataOK
  <1>30. CASE Relabel(t)
    BY <1>1, <1>2, <1>3, <1>30 DEF Relabel, Return, Goto, memoryVars, mutexVars, diskVars,
       DataOK, Record, ShapeOf, WithFile
  <1>31. CASE DeleteNotFound(t)
    BY <1>2, <1>31 DEF DeleteNotFound, memoryVars, mutexVars, diskVars, DataOK
  <1>32. CASE DeleteRecord(t)
    <2>1. FindFile(c.path) \in Addresses
      BY <1>32, Finding DEF DeleteRecord, TInv
    <2>2. files' \in Seq(Addresses)
      BY <1>2, <1>32, KeptProperties DEF DeleteRecord, DataOK
    <2>3. NoRecord \in Record
      BY <1>4 DEF NoRecord, Record
    <2>4. heap' \in [Addresses -> Record]
      BY <1>2, <2>3, <1>32 DEF DeleteRecord, DataOK
    <2>5. QED BY <1>2, <2>2, <2>4, <1>32 DEF DeleteRecord, mutexVars, diskVars, DataOK
  <1>33. CASE Unlink(t)
    <2> DEFINE part == Head(c.todo)
    <2>1. part \in Parts /\ {} \in SUBSET Texts
      BY <1>1, <1>33, Lists DEF Unlink, ShapeOf
    <2>2. disk' = [disk EXCEPT ![c.path][part] = {}]
      BY <1>33 DEF Unlink
    <2> HIDE DEF part
    <2>3. disk' \in [Paths -> OnDisk]
      BY <1>2, <2>1, <2>2, DiskType DEF DataOK
    <2>4. QED BY <1>2, <2>3, <1>33 DEF Unlink, memoryVars, mutexVars, DataOK
  <1>34. CASE Deleted(t)
    BY <1>2, <1>34 DEF Deleted, memoryVars, mutexVars, diskVars, DataOK
  <1>35. QED BY <1>5, <1>6, <1>7, <1>8, <1>9, <1>10, <1>11, <1>12, <1>13, <1>14, <1>15, <1>16,
                <1>17, <1>18, <1>19, <1>20, <1>21, <1>22, <1>23, <1>24, <1>25, <1>26, <1>27,
                              <1>28, <1>29, <1>30, <1>31, <1>32, <1>33, <1>34 DEF ThreadStep

\* Who holds files_mutex and how much room there is, after a step of a call.
LEMMA HoldStep ==
  ASSUME TInv, NEW t \in Threads, ThreadStep(t), Advances(t)
  PROVE  FilesHeld' /\ Room'
  <1>1. /\ FilesHeld /\ Room /\ pc \in [Threads -> PCs]
        /\ files \in Seq(Addresses) /\ files_mutex \in Threads \cup {NoThread}
        /\ pc' = [pc EXCEPT ![t] = pc'[t]]
    BY DEF TInv, TypeOK, Advances
  <1>2. NoThread \notin Threads /\ MaxRecords \in Nat
    BY EngineAssumption
  <1>3. CASE ReadSnapshot(t)
    BY <1>1, <1>2, <1>3 DEF ReadSnapshot, Goto, FilesHeld, Room, memoryVars, mutexVars
  <1>4. CASE NoSnapshot(t)
    BY <1>1, <1>2, <1>4 DEF NoSnapshot, Goto, Return, FilesHeld, Room, memoryVars, mutexVars
  <1>5. CASE Found(t)
    BY <1>1, <1>2, <1>5 DEF Found, Goto, FilesHeld, Room, memoryVars, mutexVars
  <1>6. CASE NotFound(t)
    BY <1>1, <1>2, <1>6 DEF NotFound, Goto, FilesHeld, Room, memoryVars, mutexVars
  <1>7. CASE LoadContent(t)
    BY <1>1, <1>2, <1>7 DEF LoadContent, Goto, FilesHeld, Room, memoryVars, mutexVars
  <1>8. CASE LoadUndo(t)
    BY <1>1, <1>8 DEF LoadUndo, Goto, FilesHeld, Room
  <1>9. CASE CreateFile(t)
    BY <1>1, <1>2, <1>9 DEF CreateFile, Enter, Goto, FilesHeld, Room, memoryVars, mutexVars
  <1>10. CASE ReadFile(t)
    BY <1>1, <1>2, <1>10 DEF ReadFile, Enter, Goto, FilesHeld, Room, memoryVars, mutexVars
  <1>11. CASE Write(t)
    BY <1>1, <1>2, <1>11 DEF Write, Enter, Goto, FilesHeld, Room, memoryVars, mutexVars
  <1>12. CASE UndoFile(t)
    BY <1>1, <1>2, <1>12 DEF UndoFile, Enter, Goto, FilesHeld, Room, memoryVars, mutexVars
  <1>13. CASE RevertCheckpoint(t)
    BY <1>1, <1>2, <1>13 DEF RevertCheckpoint, Enter, Goto, FilesHeld, Room, memoryVars,
       mutexVars
  <1>14. CASE ImportFile(t)
    BY <1>1, <1>2, <1>14 DEF ImportFile, Enter, Goto, FilesHeld, Room, memoryVars, mutexVars
  <1>15. CASE Checkpoint(t)
    BY <1>1, <1>2, <1>15 DEF Checkpoint, Goto, FilesHeld, Room, memoryVars, mutexVars
  <1>16. CASE SaveCheckpoint(t)
    BY <1>1, <1>2, <1>16 DEF SaveCheckpoint, Goto, FilesHeld, Room, memoryVars, mutexVars
  <1>17. CASE CheckpointFailed(t)
    BY <1>1, <1>2, <1>17 DEF CheckpointFailed, Goto, FilesHeld, Room, memoryVars, mutexVars
  <1>18. CASE Refused(t)
    BY <1>1, <1>2, <1>18 DEF Refused, Return, Goto, FilesHeld, Room, memoryVars, mutexVars
  <1>19. CASE Save(t)
    BY <1>1, <1>2, <1>19 DEF Save, FilesHeld, Room, memoryVars, mutexVars
  <1>20. CASE SaveFailed(t)
    BY <1>1, <1>2, <1>20 DEF SaveFailed, FilesHeld, Room, memoryVars, mutexVars
  <1>21. CASE Release(t)
    BY <1>1, <1>2, <1>21 DEF Release, Return, Goto, FilesHeld, Room, memoryVars, mutexVars
  <1>22. CASE RenameContent(t)
    BY <1>1, <1>2, <1>22 DEF RenameContent, Renamed, Goto, FilesHeld, Room, memoryVars,
       mutexVars
  <1>23. CASE RenameFailed(t)
    BY <1>1, <1>2, <1>23 DEF RenameFailed, Return, Goto, FilesHeld, Room, memoryVars, mutexVars
  <1>24. CASE RenameMeta(t)
    BY <1>1, <1>2, <1>24 DEF RenameMeta, Renamed, Goto, FilesHeld, Room, memoryVars, mutexVars
  <1>25. CASE RenameUndo(t)
    BY <1>1, <1>2, <1>25 DEF RenameUndo, Renamed, Goto, FilesHeld, Room, memoryVars, mutexVars
  <1>26. CASE RelabelFind(t)
    BY <1>1, <1>2, <1>26 DEF RelabelFind, Goto, FilesHeld, Room, memoryVars, mutexVars
  <1>27. CASE RelabelNone(t)
    BY <1>1, <1>2, <1>27 DEF RelabelNone, Return, Goto, FilesHeld, Room, memoryVars, mutexVars
  <1>28. CASE Relabel(t)
    BY <1>1, <1>2, <1>28 DEF Relabel, Return, Goto, FilesHeld, Room, memoryVars, mutexVars
  <1>29. CASE DeleteNotFound(t)
    BY <1>1, <1>2, <1>29 DEF DeleteNotFound, Return, Goto, FilesHeld, Room, memoryVars,
       mutexVars
  <1>30. CASE DeleteRecord(t)
    <2>1. Len(files') <= Len(files) /\ Len(files') \in Nat /\ Len(files) \in Nat
      <3>1. files' \in Seq(Addresses) /\ Len(files') <= Len(files)
        BY <1>1, <1>30, KeptProperties DEF DeleteRecord
      <3>2. QED BY <1>1, <3>1
    <2>2. FilesHeld'
      BY <1>1, <1>30 DEF DeleteRecord, Goto, FilesHeld, mutexVars
    <2>3. ASSUME NEW u \in Threads, pc'[u] = "load" PROVE Len(files') < MaxRecords
      <3>1. pc[u] = "load"
        BY <1>1, <2>3, <1>30 DEF DeleteRecord, Goto
      <3>2. QED BY <1>1, <1>2, <2>1, <3>1 DEF Room
    <2>4. QED BY <2>2, <2>3 DEF Room
  <1>31. CASE Unlink(t)
    BY <1>1, <1>2, <1>31 DEF Unlink, FilesHeld, Room, memoryVars, mutexVars
  <1>32. CASE Deleted(t)
    BY <1>1, <1>2, <1>32 DEF Deleted, Return, Goto, FilesHeld, Room, memoryVars, mutexVars
  <1>33. QED BY <1>3, <1>4, <1>5, <1>6, <1>7, <1>8, <1>9, <1>10, <1>11, <1>12, <1>13, <1>14,
                <1>15, <1>16, <1>17, <1>18, <1>19, <1>20, <1>21, <1>22, <1>23, <1>24, <1>25,
                              <1>26, <1>27, <1>28, <1>29, <1>30, <1>31, <1>32 DEF ThreadStep

\* Fewer threads have a text to make, except for one that makes it now.
LEMMA MakingStep ==
  ASSUME TInv, NEW t \in Threads, ThreadStep(t), Advances(t)
  PROVE  /\ calls' = calls
         /\ \/ nextText' = nextText /\ Making' \subseteq Making
            \/ nextText' = nextText + 1 /\ t \in Making /\ Making' \subseteq Making \ {t}
  <1>1. /\ pc \in [Threads -> PCs] /\ call \in [Threads -> Call] /\ ShapeOf(pc[t], call[t])
        /\ pc' = [pc EXCEPT ![t] = pc'[t]] /\ call' = [call EXCEPT ![t] = call'[t]]
    BY DEF TInv, TypeOK, CallShape, Advances
  <1>2. \A u \in Threads \ {t} : u \in Making' <=> u \in Making
    BY <1>1 DEF Making
  <1>3. t \in Making <=> call[t].op \in {"WRITE", "IMPORT"} /\ pc[t] \in {"find", "load", "loadundo", "lock"}
    BY DEF Making
  <1>4. t \in Making' <=> call'[t].op \in {"WRITE", "IMPORT"} /\ pc'[t] \in {"find", "load", "loadundo", "lock"}
    BY DEF Making
  <1>5. Making \subseteq Threads /\ Making' \subseteq Threads
    BY DEF Making
  <1> DEFINE Same == calls' = calls /\ nextText' = nextText /\ (t \in Making' => t \in Making)
             Made == calls' = calls /\ nextText' = nextText + 1 /\ t \in Making /\ t \notin Making'
  <1>6. CASE ReadSnapshot(t)
    <2>1. Same
      BY <1>1, <1>3, <1>4, <1>6 DEF ReadSnapshot, Goto, NoCall, ShapeOf
    <2>2. QED BY <1>2, <1>5, <2>1
  <1>7. CASE NoSnapshot(t)
    <2>1. Same
      BY <1>1, <1>3, <1>4, <1>7 DEF NoSnapshot, Goto, Return, NoCall
    <2>2. QED BY <1>2, <1>5, <2>1
  <1>8. CASE Found(t)
    <2>1. Same
      BY <1>1, <1>3, <1>4, <1>8 DEF Found, Goto, NoCall
    <2>2. QED BY <1>2, <1>5, <2>1
  <1>9. CASE NotFound(t)
    <2>1. Same
      BY <1>1, <1>3, <1>4, <1>9 DEF NotFound, Goto, NoCall
    <2>2. QED BY <1>2, <1>5, <2>1
  <1>10. CASE LoadContent(t)
    <2>1. Same
      BY <1>1, <1>3, <1>4, <1>10 DEF LoadContent, Goto, NoCall
    <2>2. QED BY <1>2, <1>5, <2>1
  <1>11. CASE LoadUndo(t)
    <2>1. Same
      BY <1>1, <1>3, <1>4, <1>11 DEF LoadUndo, Goto, NoCall
    <2>2. QED BY <1>2, <1>5, <2>1
  <1>12. CASE CreateFile(t)
    <2>1. Same
      BY <1>1, <1>3, <1>4, <1>12 DEF CreateFile, Enter, Goto, NoCall
    <2>2. QED BY <1>2, <1>5, <2>1
  <1>13. CASE ReadFile(t)
    <2>1. Same
      BY <1>1, <1>3, <1>4, <1>13 DEF ReadFile, Enter, Goto, NoCall
    <2>2. QED BY <1>2, <1>5, <2>1
  <1>14. CASE Write(t)
    <2>1. Made
      BY <1>1, <1>3, <1>4, <1>14 DEF Write, Enter, Goto, NoCall
    <2>2. QED BY <1>2, <1>5, <2>1
  <1>15. CASE UndoFile(t)
    <2>1. Same
      BY <1>1, <1>3, <1>4, <1>15 DEF UndoFile, Enter, Goto, NoCall, ShapeOf
    <2>2. QED BY <1>2, <1>5, <2>1
  <1>16. CASE RevertCheckpoint(t)
    <2>1. Same
      BY <1>1, <1>3, <1>4, <1>16 DEF RevertCheckpoint, Enter, Goto, NoCall, ShapeOf
    <2>2. QED BY <1>2, <1>5, <2>1
  <1>17. CASE ImportFile(t)
    <2>1. Made
      BY <1>1, <1>3, <1>4, <1>17 DEF ImportFile, Enter, Goto, NoCall
    <2>2. QED BY <1>2, <1>5, <2>1
  <1>18. CASE Checkpoint(t)
    <2>1. Same
      BY <1>1, <1>3, <1>4, <1>18 DEF Checkpoint, Goto, NoCall
    <2>2. QED BY <1>2, <1>5, <2>1
  <1>19. CASE SaveCheckpoint(t)
    <2>1. Same
      BY <1>1, <1>3, <1>4, <1>19 DEF SaveCheckpoint, Goto, NoCall
    <2>2. QED BY <1>2, <1>5, <2>1
  <1>20. CASE CheckpointFailed(t)
    <2>1. Same
      BY <1>1, <1>3, <1>4, <1>20 DEF CheckpointFailed, Goto, NoCall
    <2>2. QED BY <1>2, <1>5, <2>1
  <1>21. CASE Refused(t)
    <2>1. Same
      BY <1>1, <1>3, <1>4, <1>21 DEF Refused, Return, Goto, NoCall
    <2>2. QED BY <1>2, <1>5, <2>1
  <1>22. CASE Save(t)
    <2>1. Same
      BY <1>1, <1>3, <1>4, <1>22 DEF Save, NoCall
    <2>2. QED BY <1>2, <1>5, <2>1
  <1>23. CASE SaveFailed(t)
    <2>1. Same
      BY <1>1, <1>3, <1>4, <1>23 DEF SaveFailed, NoCall
    <2>2. QED BY <1>2, <1>5, <2>1
  <1>24. CASE Release(t)
    <2>1. Same
      BY <1>1, <1>3, <1>4, <1>24 DEF Release, Return, Goto, NoCall
    <2>2. QED BY <1>2, <1>5, <2>1
  <1>25. CASE RenameContent(t)
    <2>1. Same
      BY <1>1, <1>3, <1>4, <1>25 DEF RenameContent, Renamed, Goto, NoCall
    <2>2. QED BY <1>2, <1>5, <2>1
  <1>26. CASE RenameFailed(t)
    <2>1. Same
      BY <1>1, <1>3, <1>4, <1>26 DEF RenameFailed, Return, Goto, NoCall
    <2>2. QED BY <1>2, <1>5, <2>1
  <1>27. CASE RenameMeta(t)
    <2>1. Same
      BY <1>1, <1>3, <1>4, <1>27 DEF RenameMeta, Renamed, Goto, NoCall
    <2>2. QED BY <1>2, <1>5, <2>1
  <1>28. CASE RenameUndo(t)
    <2>1. Same
      BY <1>1, <1>3, <1>4, <1>28 DEF RenameUndo, Renamed, Goto, NoCall
    <2>2. QED BY <1>2, <1>5, <2>1
  <1>29. CASE RelabelFind(t)
    <2>1. Same
      BY <1>1, <1>3, <1>4, <1>29 DEF RelabelFind, Goto, NoCall
    <2>2. QED BY <1>2, <1>5, <2>1
  <1>30. CASE RelabelNone(t)
    <2>1. Same
      BY <1>1, <1>3, <1>4, <1>30 DEF RelabelNone, Return, Goto, NoCall
    <2>2. QED BY <1>2, <1>5, <2>1
  <1>31. CASE Relabel(t)
    <2>1. Same
      BY <1>1, <1>3, <1>4, <1>31 DEF Relabel, Return, Goto, NoCall
    <2>2. QED BY <1>2, <1>5, <2>1
  <1>32. CASE DeleteNotFound(t)
    <2>1. Same
      BY <1>1, <1>3, <1>4, <1>32 DEF DeleteNotFound, Return, Goto, NoCall
    <2>2. QED BY <1>2, <1>5, <2>1
  <1>33. CASE DeleteRecord(t)
    <2>1. Same
      BY <1>1, <1>3, <1>4, <1>33 DEF DeleteRecord, Goto, NoCall
    <2>2. QED BY <1>2, <1>5, <2>1
  <1>34. CASE Unlink(t)
    <2>1. Same
      BY <1>1, <1>3, <1>4, <1>34 DEF Unlink, NoCall
    <2>2. QED BY <1>2, <1>5, <2>1
  <1>35. CASE Deleted(t)
    <2>1. Same
      BY <1>1, <1>3, <1>4, <1>35 DEF Deleted, Return, Goto, NoCall
    <2>2. QED BY <1>2, <1>5, <2>1
  <1>36. QED BY <1>6, <1>7, <1>8, <1>9, <1>10, <1>11, <1>12, <1>13, <1>14, <1>15, <1>16, <1>17,
                <1>18, <1>19, <1>20, <1>21, <1>22, <1>23, <1>24, <1>25, <1>26, <1>27, <1>28,
                              <1>29, <1>30, <1>31, <1>32, <1>33, <1>34, <1>35 DEF ThreadStep

\* There is a new text for each call that makes one: a call makes at most one.
LEMMA TextsStep ==
  ASSUME TypeOK, TextsLeft, nextText' \in Nat, calls' \in Nat,
         \/ /\ calls' = calls
            /\ \/ nextText' = nextText /\ Making' \subseteq Making
               \/ \E t \in Making : nextText' = nextText + 1 /\ Making' \subseteq Making \ {t}
         \/ /\ calls' = calls + 1 /\ calls < MaxCalls /\ nextText' = nextText
            /\ \E t \in Threads : Making' \subseteq Making \cup {t}
  PROVE  TextsLeft'
  <1>1. IsFiniteSet(Making)
    BY EngineAssumption, FS_Subset DEF Making
  <1>2. Cardinality(Making) \in Nat /\ nextText \in Nat /\ calls \in Nat /\ MaxCalls \in Nat
    BY <1>1, FS_CardinalityType, EngineAssumption DEF TypeOK
  <1>3. ASSUME NEW S, IsFiniteSet(S), Making' \subseteq S
        PROVE  Cardinality(Making') <= Cardinality(S) /\ Cardinality(Making') \in Nat
    BY <1>3, FS_Subset, FS_CardinalityType
  <1>4. CASE calls' = calls /\ nextText' = nextText /\ Making' \subseteq Making
    BY <1>1, <1>2, <1>3, <1>4 DEF TextsLeft
  <1>5. CASE calls' = calls /\ \E t \in Making : nextText' = nextText + 1 /\ Making' \subseteq Making \ {t}
    <2>1. PICK t \in Making : nextText' = nextText + 1 /\ Making' \subseteq Making \ {t}
      BY <1>5
    <2>2. IsFiniteSet(Making \ {t}) /\ Cardinality(Making \ {t}) = Cardinality(Making) - 1
      BY <1>1, FS_RemoveElement
    <2>3. Cardinality(Making') <= Cardinality(Making \ {t}) /\ Cardinality(Making') \in Nat
      BY <1>3, <2>1, <2>2
    <2>4. QED BY <1>2, <1>5, <2>1, <2>2, <2>3 DEF TextsLeft
  <1>6. CASE /\ calls' = calls + 1 /\ calls < MaxCalls /\ nextText' = nextText
             /\ \E t \in Threads : Making' \subseteq Making \cup {t}
    <2>1. PICK t \in Threads : Making' \subseteq Making \cup {t}
      BY <1>6
    <2>2. IsFiniteSet(Making \cup {t}) /\ Cardinality(Making \cup {t}) <= Cardinality(Making) + 1
          /\ Cardinality(Making \cup {t}) \in Nat
      <3>1. IsFiniteSet(Making \cup {t})
            /\ (Cardinality(Making \cup {t}) = IF t \in Making THEN Cardinality(Making)
                                               ELSE Cardinality(Making) + 1)
        BY <1>1, FS_AddElement
      <3>2. QED BY <1>2, <3>1
    <2>3. Cardinality(Making') <= Cardinality(Making \cup {t}) /\ Cardinality(Making') \in Nat
      BY <1>3, <2>1, <2>2
    <2>4. QED BY <1>2, <1>6, <2>2, <2>3 DEF TextsLeft
  <1>7. QED BY <1>4, <1>5, <1>6

\* Every step keeps types and shapes, crashes included.
LEMMA TypeStep ==
  ASSUME TInv, [Next]_vars
  PROVE  TInv'
  <1>1. ASSUME NEW t \in Threads, Advances(t), DataOK' PROVE TypeOK' /\ CallShape'
    <2>1. /\ pc \in [Threads -> PCs] /\ call \in [Threads -> Call]
          /\ \A u \in Threads : ShapeOf(pc[u], call[u])
      BY DEF TInv, TypeOK, CallShape
    <2>2. /\ pc' \in [Threads -> PCs] /\ call' \in [Threads -> Call]
          /\ \A u \in Threads : ShapeOf(pc'[u], call'[u])
      BY <1>1, <2>1 DEF Advances
    <2>3. QED BY <1>1, <2>2 DEF TypeOK, CallShape, DataOK
  <1>2. ASSUME NEW t \in Threads, ThreadStep(t) PROVE TInv'
    <2>1. Advances(t)
      BY <1>2, ShapeStep DEF TInv
    <2>2. DataOK'
      BY <1>2, DataStep
    <2>3. TypeOK' /\ CallShape'
      BY <1>1, <2>1, <2>2
    <2>4. FilesHeld' /\ Room'
      BY <1>2, <2>1, HoldStep
    <2>5. TextsLeft'
      BY <1>2, <2>1, <2>2, MakingStep, TextsStep DEF TInv, DataOK
    <2>6. QED BY <2>3, <2>4, <2>5 DEF TInv
  <1>3. ASSUME NEW t \in Threads, NewCall(t) PROVE TInv'
    <2>1. /\ Advances(t) /\ pc[t] = "idle" /\ pc'[t] \in {"find", "snapshot", "rename", "delete"}
          /\ answer' = [answer EXCEPT ![t] = NoAnswer]
          /\ calls' = calls + 1 /\ calls < MaxCalls
          /\ UNCHANGED <<memoryVars, mutexVars, diskVars, nextText>>
      BY <1>3, StartStep DEF TInv
    <2>2. /\ pc \in [Threads -> PCs] /\ call \in [Threads -> Call]
          /\ pc' = [pc EXCEPT ![t] = pc'[t]] /\ call' = [call EXCEPT ![t] = call'[t]]
      BY <2>1 DEF TInv, TypeOK, Advances
    <2>3. DataOK'
      BY <2>1 DEF TInv, TypeOK, DataOK, memoryVars, mutexVars, diskVars
    <2>4. TypeOK' /\ CallShape'
      BY <1>1, <2>1, <2>3
    <2>5. FilesHeld' /\ Room'
      BY <2>1, <2>2 DEF TInv, FilesHeld, Room, memoryVars, mutexVars
    <2>6. Making' \subseteq Making \cup {t}
      BY <2>2 DEF Making
    <2>7. TextsLeft'
      BY <2>1, <2>3, <2>6, TextsStep DEF TInv, DataOK
    <2>8. QED BY <2>4, <2>5, <2>7 DEF TInv
  <1>4. CASE Crash
    <2>1. DataOK'
      <3>1. <<>> \in Seq(Addresses) /\ NoRecord \in Record
        BY EngineAssumption DEF NoRecord, Record, Texts, Empty
      <3>2. QED BY <1>4, <3>1 DEF Crash, TInv, TypeOK, DataOK, diskVars
    <2>2. \A u \in Threads : pc'[u] = "idle" /\ call'[u] = NoCall
      BY <1>4 DEF Crash
    <2>3. ShapeOf("idle", NoCall)
      BY DEF ShapeOf, NoCall, PastSnapshot, WithFile
    <2>4. pc' \in [Threads -> PCs] /\ call' \in [Threads -> Call]
      BY <1>4, NoCallType DEF Crash, PCs
    <2>5. TypeOK' /\ CallShape'
      BY <2>1, <2>2, <2>3, <2>4 DEF TypeOK, CallShape, DataOK
    <2>6. FilesHeld' /\ Room'
      BY <2>2 DEF FilesHeld, Room
    <2>7. Making' \subseteq Making /\ calls' = calls /\ nextText' = nextText
      BY <1>4, <2>2 DEF Making, Crash
    <2>8. TextsLeft'
      BY <2>1, <2>7, TextsStep DEF TInv, DataOK
    <2>9. QED BY <2>5, <2>6, <2>8 DEF TInv
  <1>5. CASE UNCHANGED vars
    BY <1>5 DEF vars, TInv, TypeOK, CallShape, FilesHeld, Room, TextsLeft, Making
  <1>6. QED BY <1>2, <1>3, <1>4, <1>5 DEF Next

\* Types and shapes hold before the first step.
LEMMA TypeInit ==
  ASSUME Init
  PROVE  TInv
  <1>1. <<>> \in Seq(Addresses) /\ NoRecord \in Record /\ NotOnDisk \in OnDisk
    BY EngineAssumption DEF NoRecord, Record, Texts, Empty, NotOnDisk, OnDisk
  <1>2. \A u \in Threads : pc[u] = "idle" /\ call[u] = NoCall
    BY DEF Init
  <1>3. ShapeOf("idle", NoCall)
    BY DEF ShapeOf, NoCall, PastSnapshot, WithFile
  <1>4. TypeOK
    BY <1>1, NoCallType DEF Init, TypeOK, PCs
  <1>5. CallShape /\ FilesHeld /\ Room
    BY <1>2, <1>3 DEF CallShape, FilesHeld, Room
  <1>6. Making = {}
    BY <1>2 DEF Making
  <1>7. TextsLeft
    BY <1>6, FS_EmptySet, EngineAssumption DEF Init, TextsLeft
  <1>8. QED BY <1>4, <1>5, <1>7 DEF TInv

\* Under every workload, crashes and failing files included, every variable
\* keeps its type: no call uses a record it has not got, finds no address for a
\* record that has room, or reads a checkpoint that is not there.
THEOREM TypeCorrect == Spec => []TypeOK
  <1>1. Init => TInv
    BY TypeInit
  <1>2. TInv /\ [Next]_vars => TInv'
    BY TypeStep
  <1>3. TInv => TypeOK
    BY DEF TInv
  <1>4. QED BY <1>1, <1>2, <1>3, PTL DEF Spec

-----------------------------------------------------------------------------
(* The inductive invariant, second part, of the workloads where MOVE and   *)
(* DELETE come alone and no file fails to be written.                      *)

Calm == Orderly /\ "IOERR" \notin Opcodes

FileHeld ==
    \A t \in Threads : pc[t] \in {"save", "checkpoint"} => file_mutex[call[t].file] = t

MoverAlone ==
    \A t, u \in Threads : call[t].op \in Movers /\ t # u => pc[u] = "idle"

\* A call goes on with what it was called with, or it is over.
Continues(t) ==
    /\ pc[t] # "idle"
    /\ \/ pc'[t] = "idle" /\ call'[t] = NoCall
       \/ /\ pc'[t] # "idle" /\ call'[t].op = call[t].op
          /\ call'[t].path = call[t].path /\ call'[t].dest = call[t].dest

\* A step goes on with the call's arguments or ends the call.
LEMMA ContinueStep ==
  ASSUME TypeOK, NEW t \in Threads, ThreadStep(t)
  PROVE  Continues(t)
  <1>1. pc \in [Threads -> PCs] /\ call \in [Threads -> Call] /\ call[t] \in Call
    BY DEF TypeOK
  <1>2. CASE ReadSnapshot(t)
    BY <1>1, <1>2 DEF ReadSnapshot, Goto, Continues, Call
  <1>3. CASE NoSnapshot(t)
    BY <1>1, <1>3 DEF NoSnapshot, Goto, Return, Continues, Call
  <1>4. CASE Found(t)
    BY <1>1, <1>4 DEF Found, Goto, Continues, Call
  <1>5. CASE NotFound(t)
    BY <1>1, <1>5 DEF NotFound, Goto, Continues, Call
  <1>6. CASE LoadContent(t)
    BY <1>1, <1>6 DEF LoadContent, Goto, Continues, Call
  <1>7. CASE LoadUndo(t)
    BY <1>1, <1>7 DEF LoadUndo, Goto, Continues, Call
  <1>8. CASE CreateFile(t)
    BY <1>1, <1>8 DEF CreateFile, Enter, Goto, Continues, Call
  <1>9. CASE ReadFile(t)
    BY <1>1, <1>9 DEF ReadFile, Enter, Goto, Continues, Call
  <1>10. CASE Write(t)
    BY <1>1, <1>10 DEF Write, Enter, Goto, Continues, Call
  <1>11. CASE UndoFile(t)
    BY <1>1, <1>11 DEF UndoFile, Enter, Goto, Continues, Call
  <1>12. CASE RevertCheckpoint(t)
    BY <1>1, <1>12 DEF RevertCheckpoint, Enter, Goto, Continues, Call
  <1>13. CASE ImportFile(t)
    BY <1>1, <1>13 DEF ImportFile, Enter, Goto, Continues, Call
  <1>14. CASE Checkpoint(t)
    BY <1>1, <1>14 DEF Checkpoint, Goto, Continues, Call
  <1>15. CASE SaveCheckpoint(t)
    BY <1>1, <1>15 DEF SaveCheckpoint, Goto, Continues, Call
  <1>16. CASE CheckpointFailed(t)
    BY <1>1, <1>16 DEF CheckpointFailed, Goto, Continues, Call
  <1>17. CASE Refused(t)
    BY <1>1, <1>17 DEF Refused, Return, Goto, Continues, Call
  <1>18. CASE Save(t)
    BY <1>1, <1>18 DEF Save, Continues, Call
  <1>19. CASE SaveFailed(t)
    BY <1>1, <1>19 DEF SaveFailed, Continues, Call
  <1>20. CASE Release(t)
    BY <1>1, <1>20 DEF Release, Return, Goto, Continues, Call
  <1>21. CASE RenameContent(t)
    BY <1>1, <1>21 DEF RenameContent, Renamed, Goto, Continues, Call
  <1>22. CASE RenameFailed(t)
    BY <1>1, <1>22 DEF RenameFailed, Return, Goto, Continues, Call
  <1>23. CASE RenameMeta(t)
    BY <1>1, <1>23 DEF RenameMeta, Renamed, Goto, Continues, Call
  <1>24. CASE RenameUndo(t)
    BY <1>1, <1>24 DEF RenameUndo, Renamed, Goto, Continues, Call
  <1>25. CASE RelabelFind(t)
    BY <1>1, <1>25 DEF RelabelFind, Goto, Continues, Call
  <1>26. CASE RelabelNone(t)
    BY <1>1, <1>26 DEF RelabelNone, Return, Goto, Continues, Call
  <1>27. CASE Relabel(t)
    BY <1>1, <1>27 DEF Relabel, Return, Goto, Continues, Call
  <1>28. CASE DeleteNotFound(t)
    BY <1>1, <1>28 DEF DeleteNotFound, Return, Goto, Continues, Call
  <1>29. CASE DeleteRecord(t)
    BY <1>1, <1>29 DEF DeleteRecord, Goto, Continues, Call
  <1>30. CASE Unlink(t)
    BY <1>1, <1>30 DEF Unlink, Continues, Call
  <1>31. CASE Deleted(t)
    BY <1>1, <1>31 DEF Deleted, Return, Goto, Continues, Call
  <1>32. QED BY <1>2, <1>3, <1>4, <1>5, <1>6, <1>7, <1>8, <1>9, <1>10, <1>11, <1>12, <1>13,
                <1>14, <1>15, <1>16, <1>17, <1>18, <1>19, <1>20, <1>21, <1>22, <1>23, <1>24,
                              <1>25, <1>26, <1>27, <1>28, <1>29, <1>30, <1>31 DEF ThreadStep

\* Who saves a record holds its file_mutex, after every step.
LEMMA FileHeldStep ==
  ASSUME TInv, FileHeld, NEW t \in Threads, ThreadStep(t), Advances(t)
  PROVE  FileHeld'
  <1>1. /\ pc \in [Threads -> PCs] /\ call \in [Threads -> Call] /\ call[t] \in Call
        /\ pc' = [pc EXCEPT ![t] = pc'[t]] /\ call' = [call EXCEPT ![t] = call'[t]]
        /\ file_mutex \in [Addresses -> Threads \cup {NoThread}]
        /\ pc[t] \in {"save", "checkpoint", "lock"} => call[t].file \in Addresses
    BY DEF TInv, TypeOK, Advances, CallShape, ShapeOf, WithFile
  <1>2. NoThread \notin Threads
    BY EngineAssumption
  <1>3. CASE ReadSnapshot(t)
    BY <1>1, <1>2, <1>3 DEF ReadSnapshot, Goto, FileHeld, mutexVars, Call
  <1>4. CASE NoSnapshot(t)
    BY <1>1, <1>2, <1>4 DEF NoSnapshot, Goto, Return, FileHeld, mutexVars, Call
  <1>5. CASE Found(t)
    BY <1>1, <1>2, <1>5 DEF Found, Goto, FileHeld, mutexVars, Call
  <1>6. CASE NotFound(t)
    BY <1>1, <1>2, <1>6 DEF NotFound, Goto, FileHeld, mutexVars, Call
  <1>7. CASE LoadContent(t)
    BY <1>1, <1>2, <1>7 DEF LoadContent, Goto, FileHeld, mutexVars, Call
  <1>8. CASE LoadUndo(t)
    BY <1>1, <1>2, <1>8 DEF LoadUndo, Goto, FileHeld, mutexVars, Call
  <1>9. CASE CreateFile(t)
    BY <1>1, <1>2, <1>9 DEF CreateFile, Enter, Goto, FileHeld, mutexVars, Call
  <1>10. CASE ReadFile(t)
    BY <1>1, <1>2, <1>10 DEF ReadFile, Enter, Goto, FileHeld, mutexVars, Call
  <1>11. CASE Write(t)
    BY <1>1, <1>2, <1>11 DEF Write, Enter, Goto, FileHeld, mutexVars, Call
  <1>12. CASE UndoFile(t)
    BY <1>1, <1>2, <1>12 DEF UndoFile, Enter, Goto, FileHeld, mutexVars, Call
  <1>13. CASE RevertCheckpoint(t)
    BY <1>1, <1>2, <1>13 DEF RevertCheckpoint, Enter, Goto, FileHeld, mutexVars, Call
  <1>14. CASE ImportFile(t)
    BY <1>1, <1>2, <1>14 DEF ImportFile, Enter, Goto, FileHeld, mutexVars, Call
  <1>15. CASE Checkpoint(t)
    BY <1>1, <1>2, <1>15 DEF Checkpoint, Goto, FileHeld, mutexVars, Call
  <1>16. CASE SaveCheckpoint(t)
    BY <1>1, <1>2, <1>16 DEF SaveCheckpoint, Goto, FileHeld, mutexVars, Call
  <1>17. CASE CheckpointFailed(t)
    BY <1>1, <1>2, <1>17 DEF CheckpointFailed, Goto, FileHeld, mutexVars, Call
  <1>18. CASE Refused(t)
    BY <1>1, <1>2, <1>18 DEF Refused, Return, Goto, FileHeld, mutexVars, Call
  <1>19. CASE Save(t)
    BY <1>1, <1>2, <1>19 DEF Save, FileHeld, mutexVars, Call
  <1>20. CASE SaveFailed(t)
    BY <1>1, <1>2, <1>20 DEF SaveFailed, FileHeld, mutexVars, Call
  <1>21. CASE Release(t)
    BY <1>1, <1>2, <1>21 DEF Release, Return, Goto, FileHeld, mutexVars, Call
  <1>22. CASE RenameContent(t)
    BY <1>1, <1>2, <1>22 DEF RenameContent, Renamed, Goto, FileHeld, mutexVars, Call
  <1>23. CASE RenameFailed(t)
    BY <1>1, <1>2, <1>23 DEF RenameFailed, Return, Goto, FileHeld, mutexVars, Call
  <1>24. CASE RenameMeta(t)
    BY <1>1, <1>2, <1>24 DEF RenameMeta, Renamed, Goto, FileHeld, mutexVars, Call
  <1>25. CASE RenameUndo(t)
    BY <1>1, <1>2, <1>25 DEF RenameUndo, Renamed, Goto, FileHeld, mutexVars, Call
  <1>26. CASE RelabelFind(t)
    BY <1>1, <1>2, <1>26 DEF RelabelFind, Goto, FileHeld, mutexVars, Call
  <1>27. CASE RelabelNone(t)
    BY <1>1, <1>2, <1>27 DEF RelabelNone, Return, Goto, FileHeld, mutexVars, Call
  <1>28. CASE Relabel(t)
    BY <1>1, <1>2, <1>28 DEF Relabel, Return, Goto, FileHeld, mutexVars, Call
  <1>29. CASE DeleteNotFound(t)
    BY <1>1, <1>2, <1>29 DEF DeleteNotFound, Return, Goto, FileHeld, mutexVars, Call
  <1>30. CASE DeleteRecord(t)
    BY <1>1, <1>2, <1>30 DEF DeleteRecord, Goto, FileHeld, mutexVars, Call
  <1>31. CASE Unlink(t)
    BY <1>1, <1>2, <1>31 DEF Unlink, FileHeld, mutexVars, Call
  <1>32. CASE Deleted(t)
    BY <1>1, <1>2, <1>32 DEF Deleted, Return, Goto, FileHeld, mutexVars, Call
  <1>33. QED BY <1>3, <1>4, <1>5, <1>6, <1>7, <1>8, <1>9, <1>10, <1>11, <1>12, <1>13, <1>14,
                <1>15, <1>16, <1>17, <1>18, <1>19, <1>20, <1>21, <1>22, <1>23, <1>24, <1>25,
                              <1>26, <1>27, <1>28, <1>29, <1>30, <1>31, <1>32 DEF ThreadStep

\* Records in the array have different names.
Names ==
    /\ \A a \in Live : heap[a].filename \in Paths
    /\ \A a, b \in Live : heap[a].filename = heap[b].filename => a = b

\* What is on disk under p, as a reader sees it.
TextIs(p, v) ==
    \/ disk[p].content = {v}
    \/ disk[p].content = {} /\ v = Empty

\* The record of a call is in the array and has the name of the call.
Held(t) ==
    pc[t] \in {"lock", "save", "checkpoint", "relabelled"}
      => call[t].file \in Live /\ heap[call[t].file].filename = call[t].path

\* A new record is made where there is none of the name, from what is on disk;
\* after DELETE has taken the record away there is none either.
Loading(t) ==
    /\ pc[t] \in {"load", "loadundo", "unlink"} => ~ IsNamed(call[t].path)
    /\ pc[t] = "loadundo" => /\ call[t].file \notin Live
                             /\ heap[call[t].file].filename = call[t].path
                             /\ TextIs(call[t].path, heap[call[t].file].content)

\* The content, and the snapshot, of a record is under the record's name, unless
\* a call has yet to write it or MOVE has already moved it.
ContentMoved(t) ==
    \/ pc[t] = "rename" /\ call[t].todo # <<>>
    \/ pc[t] \in {"relabel", "relabelled"}

UndoMoved(t) == pc[t] \in {"relabel", "relabelled"}

ContentUnsaved(t, a) ==
    \/ pc[t] = "save" /\ call[t].file = a /\ call[t].todo \in ContentLeft
    \/ ContentMoved(t) /\ call[t].path = heap[a].filename

UndoUnsaved(t, a) ==
    \/ pc[t] = "save" /\ call[t].file = a /\ call[t].todo \in UndoLeft
    \/ UndoMoved(t) /\ call[t].path = heap[a].filename

ContentSaved ==
    \A a \in Live : (\A t \in Threads : ~ ContentUnsaved(t, a))
                      => TextIs(heap[a].filename, heap[a].content)

UndoSaved ==
    \A a \in Live : (\A t \in Threads : ~ UndoUnsaved(t, a))
                      => disk[heap[a].filename].undo = heap[a].undo

\* MOVE goes to a free name; what it has moved is there, and only there.
Moving(t) ==
    call[t].op = "MOVE" =>
        /\ call[t].path # call[t].dest /\ ~ IsNamed(call[t].dest)
        /\ ~ ContentMoved(t) => disk[call[t].dest].content = {}
        /\ ~ UndoMoved(t) => disk[call[t].dest].undo = {}
        /\ ContentMoved(t) => disk[call[t].path].content = {}
        /\ \A a \in Live : heap[a].filename = call[t].path =>
              /\ ContentMoved(t) => TextIs(call[t].dest, heap[a].content)
              /\ UndoMoved(t) => disk[call[t].dest].undo = heap[a].undo

\* There is one text under a name, or none.
OneText == \A p \in Paths : \E v \in Texts : TextIs(p, v)

MInv ==
    /\ OneText /\ Names /\ ContentSaved /\ UndoSaved
    /\ \A t \in Threads : Held(t) /\ Loading(t) /\ Moving(t)

OInv == TInv /\ FileHeld /\ MoverAlone /\ MInv

\* Facts that every step below starts from.
LEMMA Ground ==
  ASSUME OInv
  PROVE  /\ pc \in [Threads -> PCs] /\ call \in [Threads -> Call]
         /\ heap \in [Addresses -> Record] /\ disk \in [Paths -> OnDisk]
         /\ Live \subseteq Addresses
         /\ \A u \in Threads : call[u] \in Call /\ ShapeOf(pc[u], call[u])
         /\ \A a \in Live : heap[a] \in Record /\ heap[a].filename \in Paths
  <1>1. Live \subseteq Addresses
    BY DEF Live, Range, OInv, TInv, TypeOK
  <1>2. QED BY <1>1 DEF OInv, MInv, Names, TInv, TypeOK, CallShape

\* Neither the records nor the files that matter change.
SameMemory ==
    /\ files' = files /\ heap' = heap
    /\ \A p \in Paths : disk'[p].content = disk[p].content /\ disk'[p].undo = disk[p].undo

\* A step that leaves memory alone keeps the agreement of memory and disk, if
\* what it takes off its list is on disk.
LEMMA MemoryFrame ==
  ASSUME OInv, NEW t \in Threads, Advances(t), SameMemory,
         Held(t)', Loading(t)', Moving(t)',
         \A a \in Live :
            /\ ContentUnsaved(t, a) =>
                  ContentUnsaved(t, a)' \/ TextIs(heap[a].filename, heap[a].content)
            /\ UndoUnsaved(t, a) =>
                  UndoUnsaved(t, a)' \/ disk[heap[a].filename].undo = heap[a].undo
  PROVE  MInv'
  <1>1. /\ \A u \in Threads \ {t} : pc'[u] = pc[u] /\ call'[u] = call[u]
        /\ Live' = Live /\ heap' = heap
    BY Ground DEF Advances, SameMemory, Live
  <1>2. \A u \in Threads : call[u] \in Call /\ ShapeOf(pc[u], call[u])
    BY Ground
  <1>3. \A a \in Live : heap[a].filename \in Paths
    BY Ground
  <1>4. \A p \in Paths : \A v : TextIs(p, v)' <=> TextIs(p, v)
    BY DEF TextIs, SameMemory
  <1>5. \A p : IsNamed(p)' <=> IsNamed(p)
    BY <1>1 DEF IsNamed
  <1>6. Names'
    BY <1>1 DEF OInv, MInv, Names
  <1>7. ContentSaved'
    <2>1. SUFFICES ASSUME NEW a \in Live, \A u \in Threads : ~ ContentUnsaved(u, a)'
                   PROVE  TextIs(heap[a].filename, heap[a].content)
      BY <1>1, <1>3, <1>4 DEF ContentSaved
    <2>2. ASSUME NEW u \in Threads \ {t} PROVE ~ ContentUnsaved(u, a)
      BY <1>1, <2>1 DEF ContentUnsaved, ContentMoved
    <2>3. QED BY <2>1, <2>2 DEF OInv, MInv, ContentSaved
  <1>8. UndoSaved'
    <2>1. SUFFICES ASSUME NEW a \in Live, \A u \in Threads : ~ UndoUnsaved(u, a)'
                   PROVE  disk[heap[a].filename].undo = heap[a].undo
      BY <1>1, <1>3 DEF UndoSaved, SameMemory
    <2>2. ASSUME NEW u \in Threads \ {t} PROVE ~ UndoUnsaved(u, a)
      BY <1>1, <2>1 DEF UndoUnsaved, UndoMoved
    <2>3. QED BY <2>1, <2>2 DEF OInv, MInv, UndoSaved
  <1>9. ASSUME NEW u \in Threads \ {t} PROVE Held(u)' /\ Loading(u)' /\ Moving(u)'
    <2>1. Held(u) /\ Loading(u) /\ Moving(u)
      BY DEF OInv, MInv
    <2>2. Held(u)'
      BY <1>1, <2>1 DEF Held
    <2>3. Loading(u)'
      <3>1. pc[u] = "loadundo" => call[u].path \in Paths
        BY <1>2 DEF ShapeOf
      <3>2. QED BY <1>1, <1>4, <1>5, <2>1, <3>1 DEF Loading
    <2>4. Moving(u)'
      <3>1. call[u].op = "MOVE" => call[u].path \in Paths /\ call[u].dest \in Paths
        BY <1>2 DEF ShapeOf
      <3>2. (ContentMoved(u)' <=> ContentMoved(u)) /\ (UndoMoved(u)' <=> UndoMoved(u))
        BY <1>1 DEF ContentMoved, UndoMoved
      <3>3. QED BY <1>1, <1>4, <1>5, <2>1, <3>1, <3>2 DEF Moving, SameMemory
    <2>5. QED BY <2>2, <2>3, <2>4
  <1>10. OneText'
    BY <1>4 DEF OInv, MInv, OneText
  <1>11. QED BY <1>6, <1>7, <1>8, <1>9, <1>10 DEF MInv

\* MOVE takes the metadata along.
LEMMA MetaRenamed ==
  ASSUME NEW p \in Paths, NEW q \in Paths, disk \in [Paths -> OnDisk],
         disk' = RenamePart(p, q, "meta")
  PROVE  \A x \in Paths : disk'[x].content = disk[x].content /\ disk'[x].undo = disk[x].undo
  BY DEF RenamePart, OnDisk

\* The steps that change neither records nor their files.
LEMMA QuietStep ==
  ASSUME Calm, OInv, NEW t \in Threads, Advances(t), Continues(t),
         \/ ReadSnapshot(t) \/ NoSnapshot(t) \/ Found(t) \/ NotFound(t)
         \/ CreateFile(t) \/ ReadFile(t) \/ Checkpoint(t) \/ SaveCheckpoint(t)
         \/ Refused(t) \/ Release(t)
         \/ RenameFailed(t) \/ RenameMeta(t) \/ RelabelFind(t) \/ RelabelNone(t)
         \/ DeleteNotFound(t) \/ Deleted(t)
  PROVE  MInv'
  <1>1. /\ pc \in [Threads -> PCs] /\ call \in [Threads -> Call]
        /\ call[t] \in Call /\ ShapeOf(pc[t], call[t])
        /\ call'[t] \in Call /\ ShapeOf(pc'[t], call'[t])
    BY Ground DEF Advances
  <1>2. Held(t) /\ Loading(t) /\ Moving(t) /\ TypeOK
    BY DEF OInv, MInv, TInv
  <1>3. SameMemory
    <2>1. CASE RenameMeta(t)
      BY <2>1, <1>1, Ground, MetaRenamed
      DEF RenameMeta, Renamed, Goto, ShapeOf, SameMemory, memoryVars
    <2>2. CASE ~ RenameMeta(t)
      BY <2>2 DEF ReadSnapshot, NoSnapshot, Found, NotFound, CreateFile, ReadFile, Enter,
         Checkpoint, SaveCheckpoint, Refused, Release, RenameFailed, RelabelFind,
         RelabelNone, DeleteNotFound, Deleted, SameMemory, memoryVars, diskVars
    <2>3. QED BY <2>1, <2>2
  <1>4. /\ Live' = Live /\ heap' = heap
        /\ \A p : IsNamed(p)' <=> IsNamed(p)
        /\ \A p \in Paths : \A v : TextIs(p, v)' <=> TextIs(p, v)
    BY <1>3 DEF Live, IsNamed, TextIs, SameMemory
  <1>5. <<>> \notin ContentLeft \cup UndoLeft /\ <<"undo">> # <<>> /\ <<"meta", "undo">> # <<>>
    BY Lists
  <1> DEFINE Local ==
        /\ Held(t)' /\ Loading(t)' /\ Moving(t)'
        /\ \A a \in Live :
            /\ ContentUnsaved(t, a) =>
                  ContentUnsaved(t, a)' \/ TextIs(heap[a].filename, heap[a].content)
            /\ UndoUnsaved(t, a) =>
                  UndoUnsaved(t, a)' \/ disk[heap[a].filename].undo = heap[a].undo
  <1>6. SUFFICES Local
    BY <1>3, MemoryFrame
  <1> USE DEF Held, Loading, Moving, ContentUnsaved, UndoUnsaved, ContentMoved, UndoMoved
  <1>7. CASE ReadSnapshot(t)
    BY <1>1, <1>2, <1>4, <1>5, <1>7 DEF ReadSnapshot, Goto, NoCall, ShapeOf, Call
  <1>8. CASE NoSnapshot(t)
    BY <1>1, <1>2, <1>4, <1>5, <1>8 DEF NoSnapshot, Goto, Return, NoCall, ShapeOf, Call
  <1>9. CASE Found(t)
    BY <1>1, <1>2, <1>4, <1>5, <1>9, Finding DEF Found, Goto, NoCall, ShapeOf, Call
  <1>10. CASE NotFound(t)
    BY <1>1, <1>2, <1>4, <1>5, <1>10, Finding DEF NotFound, Goto, NoCall, ShapeOf, Call
  <1>11. CASE CreateFile(t)
    BY <1>1, <1>2, <1>4, <1>5, <1>11 DEF CreateFile, Enter, Goto, NoCall, ShapeOf, Call
  <1>12. CASE ReadFile(t)
    BY <1>1, <1>2, <1>4, <1>5, <1>12 DEF ReadFile, Enter, Goto, NoCall, ShapeOf, Call
  <1>13. CASE Checkpoint(t)
    BY <1>1, <1>2, <1>4, <1>5, <1>13 DEF Checkpoint, Goto, NoCall, ShapeOf, Call
  <1>14. CASE SaveCheckpoint(t)
    BY <1>1, <1>2, <1>4, <1>5, <1>14 DEF SaveCheckpoint, Goto, NoCall, ShapeOf, Call
  <1>15. CASE Refused(t)
    BY <1>1, <1>2, <1>4, <1>5, <1>15 DEF Refused, Return, Goto, NoCall, ShapeOf, Call
  <1>16. CASE Release(t)
    BY <1>1, <1>2, <1>4, <1>5, <1>16 DEF Release, Return, Goto, NoCall, ShapeOf, Call
  <1>17. CASE RenameFailed(t)
    BY <1>1, <1>2, <1>4, <1>5, <1>17 DEF RenameFailed, Return, Goto, NoCall, ShapeOf, Call
  <1>18. CASE RenameMeta(t)
    <2>1. /\ pc[t] = "rename" /\ pc'[t] = "rename" /\ call[t].op = "MOVE"
          /\ call[t].todo # <<>> /\ call'[t].todo # <<>>
          /\ call'[t].op = call[t].op /\ call'[t].path = call[t].path
          /\ call'[t].dest = call[t].dest
          /\ call[t].path \in Paths /\ call[t].dest \in Paths
      BY <1>1, <1>5, <1>18 DEF RenameMeta, Renamed, Goto, ShapeOf, Call
    <2>2. QED BY <1>2, <1>3, <1>4, <2>1 DEF SameMemory
  <1>19. CASE RelabelFind(t)
    <2>1. /\ pc[t] = "relabel" /\ pc'[t] = "relabelled" /\ call[t].op = "MOVE"
          /\ call'[t].op = call[t].op /\ call'[t].path = call[t].path
          /\ call'[t].dest = call[t].dest /\ call'[t].file = FindFile(call[t].path)
          /\ call[t].path \in Paths /\ call[t].dest \in Paths /\ Named(call[t].path) # {}
      BY <1>1, <1>19 DEF RelabelFind, Goto, ShapeOf, Call
    <2>2. QED BY <1>2, <1>3, <1>4, <2>1, Finding DEF SameMemory
  <1>20. CASE RelabelNone(t)
    <2>1. \A a \in Live : heap[a].filename # call[t].path
      BY <1>2, <1>20, Finding DEF RelabelNone, IsNamed
    <2>2. pc[t] = "relabel" /\ pc'[t] = "idle" /\ call'[t] = NoCall
      BY <1>1, <1>20 DEF RelabelNone, Return, Goto
    <2>3. QED BY <1>4, <2>1, <2>2 DEF NoCall
  <1>21. CASE DeleteNotFound(t)
    BY <1>1, <1>2, <1>4, <1>5, <1>21 DEF DeleteNotFound, Return, Goto, NoCall, ShapeOf, Call
  <1>22. CASE Deleted(t)
    BY <1>1, <1>2, <1>4, <1>5, <1>22 DEF Deleted, Return, Goto, NoCall, ShapeOf, Call
  <1>23. QED BY <1>7, <1>8, <1>9, <1>10, <1>11, <1>12, <1>13, <1>14, <1>15, <1>16, <1>17,
                <1>18, <1>19, <1>20, <1>21, <1>22

\* Beside a call that is neither MOVE nor DELETE there is no such call.
LEMMA NoMover ==
  ASSUME OInv, NEW t \in Threads, pc[t] # "idle", call[t].op \notin Movers
  PROVE  \A u \in Threads :
            /\ call[u].op \notin Movers
            /\ pc[u] \notin {"rename", "relabel", "relabelled", "delete", "unlink"}
            /\ ~ ContentMoved(u) /\ ~ UndoMoved(u) /\ Moving(u)
  <1>1. \A u \in Threads : call[u].op \notin Movers
    BY DEF OInv, MoverAlone
  <1>2. \A u \in Threads : ShapeOf(pc[u], call[u])
    BY Ground
  <1>3. \A u \in Threads :
           /\ pc[u] \notin {"rename", "relabel", "relabelled", "delete", "unlink"}
           /\ call[u].op # "MOVE"
    BY <1>1, <1>2 DEF ShapeOf, Movers
  <1>4. QED BY <1>1, <1>3 DEF ContentMoved, UndoMoved, Moving

\* MOVE and DELETE run alone.
LEMMA Alone ==
  ASSUME OInv, NEW t \in Threads, call[t].op \in Movers
  PROVE  \A u \in Threads \ {t} :
            pc[u] = "idle" /\ call[u] = NoCall /\ ~ ContentMoved(u) /\ ~ UndoMoved(u)
  <1>1. \A u \in Threads \ {t} : pc[u] = "idle" /\ ShapeOf(pc[u], call[u])
    BY Ground DEF OInv, MoverAlone
  <1>2. QED BY <1>1 DEF ShapeOf, ContentMoved, UndoMoved

\* A new record is read in; nobody can find it yet.
LEMMA LoadContentStep ==
  ASSUME Calm, OInv, NEW t \in Threads, Advances(t), LoadContent(t)
  PROVE  MInv'
  <1> DEFINE a == CHOOSE x \in Addresses : x \notin Range(files)
             p == call[t].path
             content == IF disk[p].content = {} THEN Empty ELSE The(disk[p].content)
  <1>1. /\ pc[t] = "load" /\ pc'[t] = "loadundo" /\ p \in Paths /\ call[t].op \notin Movers
        /\ call'[t].file = a /\ call'[t].path = p /\ call'[t].op = call[t].op
        /\ heap' = [heap EXCEPT ![a] = [filename |-> p, content |-> content, undo |-> {}]]
        /\ files' = files /\ disk' = disk
        /\ \A u \in Threads \ {t} : pc'[u] = pc[u] /\ call'[u] = call[u]
    BY Ground DEF LoadContent, Goto, Advances, ShapeOf, diskVars, Movers, Call
  <1>2. a \in Addresses /\ a \notin Live
    BY <1>1, FreeAddress DEF OInv, TInv, Room, Live
  <1>3. TextIs(p, content)
    <2>1. PICK v \in Texts : TextIs(p, v)
      BY <1>1 DEF OInv, MInv, OneText
    <2>2. QED BY <2>1 DEF TextIs, The
  <1> HIDE DEF a, content
  <1>4. /\ heap'[a].filename = p /\ heap'[a].content = content
        /\ \A b \in Addresses \ {a} : heap'[b] = heap[b]
        /\ \A b \in Live : heap'[b] = heap[b] /\ b # a
        /\ Live' = Live
    BY <1>1, <1>2, Ground DEF Live
  <1>5. /\ \A q : IsNamed(q)' <=> IsNamed(q)
        /\ \A q, v : TextIs(q, v)' <=> TextIs(q, v)
    BY <1>1, <1>4 DEF IsNamed, TextIs
  <1>6. \A u \in Threads : /\ call[u].op # "MOVE" /\ pc[u] \notin {"rename", "relabel", "relabelled"}
                           /\ u # t => pc[u] # "loadundo"
    BY <1>1, NoMover DEF OInv, TInv, FilesHeld, Movers
  <1>7. Names' /\ OneText'
    BY <1>4, <1>5 DEF OInv, MInv, Names, OneText
  <1>8. \A b \in Live : \A u \in Threads :
           /\ ContentUnsaved(u, b)' <=> ContentUnsaved(u, b)
           /\ UndoUnsaved(u, b)' <=> UndoUnsaved(u, b)
    BY <1>1, <1>4, <1>6 DEF ContentUnsaved, UndoUnsaved, ContentMoved, UndoMoved
  <1>9. ContentSaved' /\ UndoSaved'
    BY <1>1, <1>4, <1>5, <1>8 DEF OInv, MInv, ContentSaved, UndoSaved
  <1>10. ASSUME NEW u \in Threads PROVE Held(u)' /\ Loading(u)' /\ Moving(u)'
    <2>1. Held(u) /\ Loading(u) /\ Loading(t)
      BY DEF OInv, MInv
    <2>2. CASE u = t
      BY <1>1, <1>2, <1>3, <1>4, <1>5, <1>6, <2>1, <2>2 DEF Held, Loading, Moving
    <2>3. CASE u # t
      BY <1>1, <1>4, <1>5, <1>6, <2>1, <2>3 DEF Held, Loading, Moving
    <2>4. QED BY <2>2, <2>3
  <1>11. QED BY <1>7, <1>9, <1>10 DEF MInv

\* The members of a sequence with one more at its end.
LEMMA AppendRange ==
  ASSUME NEW S, NEW s \in Seq(S), NEW e \in S
  PROVE  Range(Append(s, e)) = Range(s) \cup {e}
  <1>1. /\ DOMAIN s = 1..Len(s) /\ Len(s) \in Nat
        /\ DOMAIN Append(s, e) = 1..(Len(s) + 1)
        /\ Append(s, e)[Len(s) + 1] = e
        /\ \A i \in 1..Len(s) : Append(s, e)[i] = s[i]
    OBVIOUS
  <1>2. ASSUME NEW x PROVE x \in Range(Append(s, e)) <=> x \in Range(s) \cup {e}
    <2>1. x \in Range(Append(s, e)) => x \in Range(s) \cup {e}
      BY <1>1 DEF Range
    <2>2. x \in Range(s) => x \in Range(Append(s, e))
      BY <1>1 DEF Range
    <2>3. e \in Range(Append(s, e))
      BY <1>1 DEF Range
    <2>4. QED BY <2>1, <2>2, <2>3
  <1>3. QED BY <1>2

\* The new record enters the array with the text and the snapshot on disk.
LEMMA LoadUndoStep ==
  ASSUME Calm, OInv, NEW t \in Threads, Advances(t), LoadUndo(t)
  PROVE  MInv'
  <1> DEFINE a == call[t].file
             p == call[t].path
  <1>1. /\ pc[t] = "loadundo" /\ pc'[t] = "lock" /\ p \in Paths /\ call[t].op \notin Movers
        /\ call' = call /\ a \in Addresses
        /\ heap' = [heap EXCEPT ![a].undo = disk[p].undo]
        /\ files' = Append(files, a) /\ disk' = disk
        /\ \A u \in Threads \ {t} : pc'[u] = pc[u]
    BY Ground DEF LoadUndo, Goto, Advances, ShapeOf, WithFile, diskVars, Movers
  <1>2. /\ a \notin Live /\ heap[a].filename = p /\ TextIs(p, heap[a].content) /\ ~ IsNamed(p)
    BY <1>1 DEF OInv, MInv, Loading
  <1>3. Live' = Live \cup {a}
    <2>1. files \in Seq(Addresses)
      BY DEF OInv, TInv, TypeOK
    <2>2. Range(Append(files, a)) = Range(files) \cup {a}
      BY <1>1, <2>1, AppendRange
    <2>3. QED BY <1>1, <2>2 DEF Live
  <1> HIDE DEF a
  <1>4. /\ heap'[a].filename = p /\ heap'[a].content = heap[a].content
        /\ heap'[a].undo = disk[p].undo
        /\ \A b \in Live : heap'[b] = heap[b] /\ b # a
    BY <1>1, <1>2, Ground DEF Record
  <1>5. \A q, v : TextIs(q, v)' <=> TextIs(q, v)
    BY <1>1 DEF TextIs
  <1>6. \A q : IsNamed(q)' <=> IsNamed(q) \/ q = p
    BY <1>3, <1>4 DEF IsNamed
  <1>7. \A u \in Threads :
           /\ call[u].op # "MOVE" /\ pc[u] \notin {"rename", "relabel", "relabelled", "unlink"}
           /\ u # t => pc[u] \notin {"load", "loadundo"}
    BY <1>1, NoMover DEF OInv, TInv, FilesHeld, Movers
  <1>8. Names' /\ OneText'
    BY <1>1, <1>2, <1>3, <1>4, <1>5 DEF OInv, MInv, Names, OneText, IsNamed
  <1>9. \A b \in Live : \A u \in Threads :
           /\ ContentUnsaved(u, b) => ContentUnsaved(u, b)'
           /\ UndoUnsaved(u, b) => UndoUnsaved(u, b)'
    BY <1>1, <1>4, <1>7 DEF ContentUnsaved, UndoUnsaved, ContentMoved, UndoMoved
  <1>10. ContentSaved' /\ UndoSaved'
    BY <1>1, <1>2, <1>3, <1>4, <1>5, <1>9 DEF OInv, MInv, ContentSaved, UndoSaved
  <1>11. ASSUME NEW u \in Threads PROVE Held(u)' /\ Loading(u)' /\ Moving(u)'
    <2>1. Held(u)
      BY DEF OInv, MInv
    <2>2. CASE u = t
      BY <1>1, <1>3, <1>4, <1>7, <2>2 DEF Held, Loading, Moving, a
    <2>3. CASE u # t
      BY <1>1, <1>3, <1>4, <1>7, <2>1, <2>3 DEF Held, Loading, Moving
    <2>4. QED BY <2>2, <2>3
  <1>12. QED BY <1>8, <1>10, <1>11 DEF MInv

\* WRITE, UNDO, REVERT and IMPORT change the record of the call, and have its
\* content to write, and its snapshot if that has changed.
LEMMA EditStep ==
  ASSUME Calm, OInv, NEW t \in Threads, Advances(t), NEW op, op \notin Movers,
         NEW l \in ContentLeft, Enter(t, op, l),
         NEW v, NEW u, SetContent(t, v, u), l \in UndoLeft \/ u = Undo(t)
  PROVE  MInv'
  <1>0. PICK a \in Addresses : a = call[t].file /\ a \in Live
    BY Ground DEF Enter, Goto, ShapeOf, WithFile, OInv, MInv, Held
  <1>1. /\ pc[t] = "lock" /\ pc'[t] = "save" /\ call[t].op \notin Movers
        /\ call'[t].todo = l /\ call'[t].file = a /\ call'[t].path = call[t].path
        /\ call'[t].op = call[t].op
        /\ files' = files /\ disk' = disk
        /\ heap' = [heap EXCEPT ![a].content = v, ![a].undo = u]
        /\ \A w \in Threads \ {t} : pc'[w] = pc[w] /\ call'[w] = call[w]
    BY <1>0, Ground DEF Enter, Goto, Advances, ShapeOf, WithFile, diskVars, OInv, MInv, Held,
       SetContent, Call
  <1>2. /\ heap'[a].filename = heap[a].filename /\ heap'[a].undo = u
        /\ \A b \in Addresses \ {a} : heap'[b] = heap[b]
        /\ \A b \in Addresses : heap'[b].filename = heap[b].filename
        /\ Live' = Live
    BY <1>1, Ground DEF Record, Live
  <1>3. /\ \A q : IsNamed(q)' <=> IsNamed(q)
        /\ \A q, x : TextIs(q, x)' <=> TextIs(q, x)
    BY <1>1, <1>2, Ground DEF IsNamed, TextIs
  <1>4. \A w \in Threads :
           /\ call[w].op # "MOVE" /\ pc[w] \notin {"rename", "relabel", "relabelled", "unlink"}
    BY <1>1, NoMover DEF Movers
  <1>5. Names' /\ OneText'
    BY <1>2, <1>3, Ground DEF OInv, MInv, Names, OneText
  <1>6. \A b \in Live : \A w \in Threads :
           /\ ContentUnsaved(w, b) => ContentUnsaved(w, b)'
           /\ UndoUnsaved(w, b) => UndoUnsaved(w, b)'
    BY <1>1, <1>2, <1>4 DEF ContentUnsaved, UndoUnsaved, ContentMoved, UndoMoved
  <1>7. ContentUnsaved(t, a)' /\ (l \in UndoLeft => UndoUnsaved(t, a)')
    BY <1>1 DEF ContentUnsaved, UndoUnsaved
  <1>8. ContentSaved'
    <2>1. SUFFICES ASSUME NEW b \in Live, \A w \in Threads : ~ ContentUnsaved(w, b)'
                   PROVE  TextIs(heap'[b].filename, heap'[b].content)
      BY <1>2, <1>3 DEF ContentSaved
    <2>2. b # a /\ b \in Addresses /\ \A w \in Threads : ~ ContentUnsaved(w, b)
      BY <1>6, <1>7, <2>1, Ground
    <2>3. TextIs(heap[b].filename, heap[b].content)
      BY <2>2 DEF OInv, MInv, ContentSaved
    <2>4. QED BY <1>2, <2>2, <2>3
  <1>9. UndoSaved'
    <2>1. SUFFICES ASSUME NEW b \in Live, \A w \in Threads : ~ UndoUnsaved(w, b)'
                   PROVE  disk[heap'[b].filename].undo = heap'[b].undo
      BY <1>1, <1>2 DEF UndoSaved
    <2>2. b \in Addresses /\ \A w \in Threads : ~ UndoUnsaved(w, b)
      BY <1>6, <2>1, Ground
    <2>3. disk[heap[b].filename].undo = heap[b].undo
      BY <2>2 DEF OInv, MInv, UndoSaved
    <2>4. b = a => u = heap[a].undo
      BY <1>0, <1>7, <2>1 DEF Undo
    <2>5. QED BY <1>2, <2>2, <2>3, <2>4
  <1>10. ASSUME NEW w \in Threads PROVE Held(w)' /\ Loading(w)' /\ Moving(w)'
    <2>1. Held(w) /\ Loading(w) /\ Held(t)
      BY DEF OInv, MInv
    <2>2. CASE w = t
      BY <1>0, <1>1, <1>2, <1>4, <2>1, <2>2 DEF Held, Loading, Moving
    <2>3. CASE w # t
      <3>1. Held(w)' /\ Moving(w)'
        BY <1>1, <1>2, <1>4, <2>1, <2>3, Ground DEF Held, Moving
      <3>2. pc[w] = "loadundo" => call[w].file # a /\ call[w].file \in Addresses
        BY <1>0, <1>1, <2>1, Ground DEF Loading, ShapeOf, WithFile
      <3>3. Loading(w)'
        <4>1. pc'[w] = pc[w] /\ call'[w] = call[w]
          BY <1>1, <2>3
        <4>2. pc[w] = "loadundo" => heap'[call[w].file] = heap[call[w].file]
          BY <1>2, <3>2
        <4>3. QED BY <1>2, <1>3, <2>1, <4>1, <4>2 DEF Loading
      <3>4. QED BY <3>1, <3>3
    <2>4. QED BY <2>2, <2>3
  <1>11. QED BY <1>5, <1>8, <1>9, <1>10 DEF MInv

\* One file of one name is replaced.
Replaced(d, e, p, part, v) == e = [d EXCEPT ![p][part] = v]

\* What atomic_write changes: one file of one record.
LEMMA DiskReplaced ==
  ASSUME NEW d \in [Paths -> OnDisk], NEW p \in Paths, NEW part \in Parts, NEW v,
         NEW e, Replaced(d, e, p, part, v)
  PROVE  /\ \A q \in Paths \ {p} : e[q] = d[q]
         /\ part = "content" => e[p].content = v /\ e[p].undo = d[p].undo
         /\ part = "meta" => e[p].content = d[p].content /\ e[p].undo = d[p].undo
         /\ part = "undo" => e[p].content = d[p].content /\ e[p].undo = v
  <1>1. d[p] \in OnDisk /\ \A q \in Paths \ {p} : e[q] = d[q]
    BY DEF Replaced
  <1>2. e[p] = [d[p] EXCEPT ![part] = v]
    BY DEF Replaced
  <1>3. CASE part = "content"
    BY <1>1, <1>2, <1>3 DEF OnDisk
  <1>4. CASE part = "meta"
    BY <1>1, <1>2, <1>4 DEF OnDisk
  <1>5. CASE part = "undo"
    BY <1>1, <1>2, <1>5 DEF OnDisk
  <1>6. QED BY <1>1, <1>3, <1>4, <1>5 DEF Parts

\* Writing the next file of a record keeps the agreement of memory and disk.
LEMMA SaveStep ==
  ASSUME Calm, OInv, NEW t \in Threads, Advances(t), Save(t)
  PROVE  MInv'
  <1>0. PICK a \in Addresses : a = call[t].file /\ a \in Live
    BY Ground DEF Save, ShapeOf, WithFile, OInv, MInv, Held
  <1>1. PICK p \in Paths, part \in Parts :
           /\ p = heap[a].filename /\ p = call[t].path /\ part = Head(call[t].todo)
    BY <1>0, Ground, Lists DEF Save, ShapeOf, OInv, MInv, Held
  <1>2. /\ pc[t] = "save" /\ pc' = pc /\ call[t].op \notin Movers
        /\ call[t].todo # <<>> /\ call[t].todo \in SaveLeft
        /\ call'[t].todo = Tail(call[t].todo) /\ call'[t].file = a
        /\ call'[t].path = p /\ call'[t].op = call[t].op
        /\ files' = files /\ heap' = heap
        /\ disk' = [disk EXCEPT ![p][part] = SavedPart(part, heap[a], disk[p])]
        /\ \A w \in Threads \ {t} : call'[w] = call[w]
    BY <1>0, <1>1, Ground DEF Save, Advances, ShapeOf, memoryVars, Movers, Call
  <1>3. /\ \A q \in Paths \ {p} : disk'[q] = disk[q]
        /\ part = "content" => disk'[p].content = {heap[a].content} /\ disk'[p].undo = disk[p].undo
        /\ part = "meta" => disk'[p].content = disk[p].content /\ disk'[p].undo = disk[p].undo
        /\ part = "undo" => disk'[p].content = disk[p].content /\ disk'[p].undo = heap[a].undo
    <2> DEFINE v == SavedPart(part, heap[a], disk[p])
    <2>1. v = IF part = "undo" THEN heap[a].undo ELSE {heap[a].content}
      BY DEF SavedPart
    <2>2. disk \in [Paths -> OnDisk] /\ Replaced(disk, disk', p, part, v)
      BY <1>2, Ground DEF Replaced
    <2> HIDE DEF v
    <2>3. QED BY <2>1, <2>2, DiskReplaced
  <1>4. Live' = Live /\ \A q : IsNamed(q)' <=> IsNamed(q)
    BY <1>2 DEF Live, IsNamed
  <1>5. \A b \in Live \ {a} : heap[b].filename \in Paths \ {p}
    BY <1>0, <1>1, Ground DEF OInv, MInv, Names
  <1>6. \A q \in Paths \ {p} : \A v : TextIs(q, v)' <=> TextIs(q, v)
    BY <1>3 DEF TextIs
  <1>7. /\ part = "content" => TextIs(p, heap[a].content)'
        /\ part # "content" => \A v : TextIs(p, v)' <=> TextIs(p, v)
    BY <1>2, <1>3 DEF TextIs, Parts
  <1>8. \A w \in Threads :
           /\ call[w].op # "MOVE" /\ pc[w] \notin {"rename", "relabel", "relabelled", "unlink"}
           /\ w # t => ~ (pc[w] = "save" /\ call[w].file = a)
    BY <1>0, <1>2, NoMover DEF Movers, OInv, FileHeld
  <1>9. /\ Tail(call[t].todo) \notin ContentLeft
        /\ part # "content" => call[t].todo \notin ContentLeft
        /\ part # "undo" => (call[t].todo \in UndoLeft <=> Tail(call[t].todo) \in UndoLeft)
    BY <1>1, <1>2, Lists
  <1>10. Names' /\ OneText'
    <2>1. heap[a].content \in Texts
      BY Ground DEF Record
    <2>2. Names'
      BY <1>2, <1>4 DEF OInv, MInv, Names
    <2>3. ASSUME NEW q \in Paths PROVE \E v \in Texts : TextIs(q, v)'
      <3>1. PICK v \in Texts : TextIs(q, v)
        BY DEF OInv, MInv, OneText
      <3>2. q # p \/ part # "content" => TextIs(q, v)'
        BY <1>6, <1>7, <3>1
      <3>3. q = p /\ part = "content" => disk'[q].content = {heap[a].content}
        BY <1>3
      <3>4. QED BY <2>1, <3>2, <3>3 DEF TextIs
    <2>4. QED BY <2>2, <2>3 DEF OneText
  <1>11. ContentSaved'
    <2>1. SUFFICES ASSUME NEW b \in Live, \A w \in Threads : ~ ContentUnsaved(w, b)'
                   PROVE  TextIs(heap[b].filename, heap[b].content)'
      BY <1>4 DEF ContentSaved
    <2>2. CASE b = a
      <3>1. part # "content" => \A w \in Threads : ~ ContentUnsaved(w, a)
        BY <1>0, <1>2, <1>8, <1>9 DEF ContentUnsaved, ContentMoved
      <3>2. QED BY <1>0, <1>1, <1>2, <1>7, <2>2, <3>1 DEF OInv, MInv, ContentSaved
    <2>3. CASE b # a
      <3>1. \A w \in Threads : ~ ContentUnsaved(w, b)
        BY <1>0, <1>2, <1>8, <2>1, <2>3 DEF ContentUnsaved, ContentMoved
      <3>2. QED BY <1>2, <1>5, <1>6, <2>3, <3>1 DEF OInv, MInv, ContentSaved
    <2>4. QED BY <2>2, <2>3
  <1>12. UndoSaved'
    <2>1. SUFFICES ASSUME NEW b \in Live, \A w \in Threads : ~ UndoUnsaved(w, b)'
                   PROVE  disk'[heap[b].filename].undo = heap[b].undo
      BY <1>2, <1>4 DEF UndoSaved
    <2>2. CASE b = a
      <3>1. part # "undo" => \A w \in Threads : ~ UndoUnsaved(w, a)
        BY <1>0, <1>2, <1>8, <1>9, <2>1, <2>2 DEF UndoUnsaved, UndoMoved
      <3>2. part # "undo" => disk[p].undo = heap[a].undo
        BY <1>0, <1>1, <3>1 DEF OInv, MInv, UndoSaved
      <3>3. QED BY <1>1, <1>3, <2>2, <3>2 DEF Parts
    <2>3. CASE b # a
      <3>1. \A w \in Threads : ~ UndoUnsaved(w, b)
        BY <1>0, <1>2, <1>8, <2>1, <2>3 DEF UndoUnsaved, UndoMoved
      <3>2. QED BY <1>3, <1>5, <2>3, <3>1 DEF OInv, MInv, UndoSaved
    <2>4. QED BY <2>2, <2>3
  <1>13. ASSUME NEW w \in Threads PROVE Held(w)' /\ Loading(w)' /\ Moving(w)'
    <2>1. Held(w) /\ Loading(w) /\ Held(t)
      BY DEF OInv, MInv
    <2>2. CASE w = t
      BY <1>0, <1>1, <1>2, <1>4, <1>8, <2>2 DEF Held, Loading, Moving
    <2>3. CASE w # t
      <3>1. Held(w)' /\ Moving(w)'
        BY <1>2, <1>4, <1>8, <2>1, <2>3 DEF Held, Moving
      <3>2. pc[w] = "loadundo" => call[w].path \in Paths /\ call[w].path # p
        BY <1>0, <1>1, <2>1, Ground DEF Loading, IsNamed, ShapeOf
      <3>3. Loading(w)'
        BY <1>2, <1>4, <1>6, <2>1, <2>3, <3>2 DEF Loading
      <3>4. QED BY <3>1, <3>3
    <2>4. QED BY <2>2, <2>3
  <1>14. QED BY <1>10, <1>11, <1>12, <1>13 DEF MInv

\* What rename changes: one file of two records.
LEMMA DiskRenamed ==
  ASSUME disk \in [Paths -> OnDisk], NEW p \in Paths, NEW q \in Paths, p # q,
         NEW part \in Parts, disk[q][part] = {},
         disk' = RenamePart(p, q, part)
  PROVE  /\ \A x \in Paths \ {p, q} : disk'[x] = disk[x]
         /\ part = "content" => /\ disk'[p].content = {} /\ disk'[q].content = disk[p].content
                                /\ disk'[p].undo = disk[p].undo /\ disk'[q].undo = disk[q].undo
         /\ part = "undo" => /\ disk'[p].undo = {} /\ disk'[q].undo = disk[p].undo
                             /\ disk'[p].content = disk[p].content
                             /\ disk'[q].content = disk[q].content
  <1>1. CASE disk[p][part] = {}
    <2>1. disk' = disk
      BY <1>1 DEF RenamePart
    <2>2. QED BY <1>1, <2>1
  <1>2. CASE disk[p][part] # {}
    <2> DEFINE v == disk[p][part]
               none == {}
               d == [disk EXCEPT ![q][part] = v]
    <2>1. d \in [Paths -> OnDisk]
      BY PartType, DiskType
    <2>2. Replaced(disk, d, q, part, v)
      BY DEF Replaced
    <2>3. Replaced(d, disk', p, part, none)
      BY <1>2 DEF RenamePart, Replaced
    <2> HIDE DEF d, v, none
    <2>4. /\ \A x \in Paths \ {q} : d[x] = disk[x]
          /\ part = "content" => d[q].content = v /\ d[q].undo = disk[q].undo
          /\ part = "undo" => d[q].content = disk[q].content /\ d[q].undo = v
      BY <2>2, DiskReplaced
    <2>5. /\ \A x \in Paths \ {p} : disk'[x] = d[x]
          /\ part = "content" => disk'[p].content = none /\ disk'[p].undo = d[p].undo
          /\ part = "undo" => disk'[p].content = d[p].content /\ disk'[p].undo = none
      BY <2>1, <2>3, DiskReplaced
    <2>6. QED BY <2>4, <2>5 DEF v, none
  <1>3. QED BY <1>1, <1>2

\* A step of MOVE or DELETE: the other threads are idle.
LEMMA MoverFrame ==
  ASSUME OInv, NEW t \in Threads, Advances(t), call[t].op \in Movers
  PROVE  /\ \A u \in Threads \ {t} :
               /\ pc[u] = "idle" /\ Held(u)' /\ Loading(u)' /\ Moving(u)'
               /\ \A a : ~ ContentUnsaved(u, a) /\ ~ UndoUnsaved(u, a)
               /\ pc'[u] = "idle"
         /\ pc[t] # "save" /\ pc[t] # "loadundo"
  <1>1. \A u \in Threads \ {t} :
           /\ pc[u] = "idle" /\ call[u] = NoCall /\ pc'[u] = "idle" /\ call'[u] = NoCall
           /\ ~ ContentMoved(u) /\ ~ UndoMoved(u)
    BY Alone, Ground DEF Advances
  <1>2. ShapeOf(pc[t], call[t])
    BY Ground
  <1>3. pc[t] # "save" /\ pc[t] # "loadundo"
    BY <1>2 DEF ShapeOf, Movers
  <1>4. QED BY <1>1, <1>3 DEF Held, Loading, Moving, ContentUnsaved, UndoUnsaved, NoCall

\* The text's rename in a MOVE keeps the agreement: the record is unloaded, or
\* is relabelled before the next call.
LEMMA RenameContentStep ==
  ASSUME Calm, OInv, NEW t \in Threads, Advances(t), RenameContent(t)
  PROVE  MInv'
  <1>1. PICK p \in Paths, q \in Paths : p = call[t].path /\ q = call[t].dest /\ call[t].op = "MOVE"
    BY Ground DEF RenameContent, Renamed, Goto, ShapeOf
  <1>2. /\ pc[t] = "rename" /\ pc'[t] = "rename" /\ call[t].todo = <<>>
        /\ call'[t].todo # <<>> /\ call'[t].op = "MOVE"
        /\ call'[t].path = p /\ call'[t].dest = q
        /\ files' = files /\ heap' = heap /\ disk[p].content # {}
        /\ disk' = RenamePart(p, q, "content")
    BY <1>1, Ground DEF RenameContent, Renamed, Goto, Advances, memoryVars, Call
  <1>3. p # q /\ ~ IsNamed(q) /\ disk[q].content = {} /\ disk[q].undo = {}
    BY <1>1, <1>2 DEF OInv, MInv, Moving, ContentMoved, UndoMoved
  <1>4. /\ \A x \in Paths \ {p, q} : disk'[x] = disk[x]
        /\ disk'[p].content = {} /\ disk'[q].content = disk[p].content
        /\ disk'[p].undo = disk[p].undo /\ disk'[q].undo = disk[q].undo
    BY <1>2, <1>3, Ground, DiskRenamed DEF Parts
  <1>5. Live' = Live /\ \A x : IsNamed(x)' <=> IsNamed(x)
    BY <1>2 DEF Live, IsNamed
  <1>6. /\ \A x \in Paths \ {p, q} : \A v : TextIs(x, v)' <=> TextIs(x, v)
        /\ \A v : TextIs(q, v)' <=> TextIs(p, v)
        /\ TextIs(p, Empty)'
    BY <1>2, <1>4 DEF TextIs
  <1>7. /\ \A u \in Threads \ {t} : Held(u)' /\ Loading(u)' /\ Moving(u)'
        /\ \A a \in Live : \A u \in Threads : ~ ContentUnsaved(u, a) /\ ~ UndoUnsaved(u, a)
    BY <1>1, <1>2, MoverFrame DEF ContentUnsaved, UndoUnsaved, ContentMoved, UndoMoved, Movers
  <1>8. \A a \in Live : /\ TextIs(heap[a].filename, heap[a].content)
                        /\ disk[heap[a].filename].undo = heap[a].undo
                        /\ heap[a].filename \in Paths /\ heap[a].filename # q
    BY <1>3, <1>7, Ground DEF OInv, MInv, ContentSaved, UndoSaved, IsNamed
  <1>9. Names'
    BY <1>2, <1>5 DEF OInv, MInv, Names
  <1>10. OneText'
    <2>1. Empty \in Texts
      BY EngineAssumption DEF Empty, Texts
    <2>2. QED BY <1>6, <2>1 DEF OInv, MInv, OneText
  <1>11. ContentSaved'
    <2>1. \A a \in Live : heap[a].filename = p => ContentUnsaved(t, a)'
      BY <1>2 DEF ContentUnsaved, ContentMoved
    <2>2. QED BY <1>2, <1>5, <1>6, <1>8, <2>1 DEF ContentSaved
  <1>12. UndoSaved'
    BY <1>2, <1>4, <1>5, <1>8 DEF UndoSaved
  <1>13. Held(t)' /\ Loading(t)'
    BY <1>2 DEF Held, Loading
  <1>14. Moving(t)'
    BY <1>2, <1>3, <1>4, <1>5, <1>6, <1>8 DEF Moving, ContentMoved, UndoMoved
  <1>15. QED BY <1>7, <1>9, <1>10, <1>11, <1>12, <1>13, <1>14 DEF MInv

\* The snapshot's rename in a MOVE keeps the agreement.
LEMMA RenameUndoStep ==
  ASSUME Calm, OInv, NEW t \in Threads, Advances(t), RenameUndo(t)
  PROVE  MInv'
  <1>1. PICK p \in Paths, q \in Paths : p = call[t].path /\ q = call[t].dest /\ call[t].op = "MOVE"
    BY Ground DEF RenameUndo, Renamed, Goto, ShapeOf
  <1>2. /\ pc[t] = "rename" /\ pc'[t] = "relabel" /\ call[t].todo # <<>>
        /\ call'[t].op = "MOVE" /\ call'[t].path = p /\ call'[t].dest = q
        /\ files' = files /\ heap' = heap
        /\ disk' = RenamePart(p, q, "undo")
    BY <1>1, Ground DEF RenameUndo, Renamed, Goto, Advances, memoryVars, Call
  <1>3. /\ p # q /\ ~ IsNamed(q) /\ disk[q].undo = {} /\ disk[p].content = {}
        /\ \A a \in Live : heap[a].filename = p => TextIs(q, heap[a].content)
    BY <1>1, <1>2 DEF OInv, MInv, Moving, ContentMoved, UndoMoved
  <1>4. /\ \A x \in Paths \ {p, q} : disk'[x] = disk[x]
        /\ disk'[p].undo = {} /\ disk'[q].undo = disk[p].undo
        /\ disk'[p].content = disk[p].content /\ disk'[q].content = disk[q].content
    BY <1>2, <1>3, Ground, DiskRenamed DEF Parts
  <1>5. Live' = Live /\ \A x : IsNamed(x)' <=> IsNamed(x)
    BY <1>2 DEF Live, IsNamed
  <1>6. \A x \in Paths : \A v : TextIs(x, v)' <=> TextIs(x, v)
    BY <1>4 DEF TextIs
  <1>7. /\ \A u \in Threads \ {t} : Held(u)' /\ Loading(u)' /\ Moving(u)'
        /\ \A a \in Live : \A u \in Threads :
              /\ ContentUnsaved(u, a) => heap[a].filename = p
              /\ ~ UndoUnsaved(u, a)
        /\ \A a \in Live : heap[a].filename = p => ContentUnsaved(t, a)' /\ UndoUnsaved(t, a)'
    BY <1>1, <1>2, MoverFrame DEF ContentUnsaved, UndoUnsaved, ContentMoved, UndoMoved, Movers
  <1>8. \A a \in Live : /\ heap[a].filename # p => TextIs(heap[a].filename, heap[a].content)
                        /\ disk[heap[a].filename].undo = heap[a].undo
                        /\ heap[a].filename \in Paths /\ heap[a].filename # q
    BY <1>3, <1>7, Ground DEF OInv, MInv, ContentSaved, UndoSaved, IsNamed
  <1>9. Names' /\ OneText'
    BY <1>2, <1>5, <1>6 DEF OInv, MInv, Names, OneText
  <1>10. ContentSaved'
    BY <1>2, <1>5, <1>6, <1>7, <1>8 DEF ContentSaved
  <1>11. UndoSaved'
    BY <1>2, <1>4, <1>5, <1>7, <1>8 DEF UndoSaved
  <1>12. Held(t)' /\ Loading(t)'
    BY <1>2 DEF Held, Loading
  <1>13. Moving(t)'
    BY <1>2, <1>3, <1>4, <1>5, <1>6, <1>8 DEF Moving, ContentMoved, UndoMoved
  <1>14. QED BY <1>7, <1>9, <1>10, <1>11, <1>12, <1>13 DEF MInv

\* A MOVE gives its record the name under which the files now are.
LEMMA RelabelStep ==
  ASSUME Calm, OInv, NEW t \in Threads, Advances(t), Relabel(t)
  PROVE  MInv'
  <1>1. PICK p \in Paths, q \in Paths, a \in Addresses :
           /\ p = call[t].path /\ q = call[t].dest /\ call[t].op = "MOVE"
           /\ a = call[t].file /\ a \in Live /\ heap[a].filename = p
    BY Ground DEF Relabel, Return, Goto, ShapeOf, WithFile, OInv, MInv, Held
  <1>2. /\ pc[t] = "relabelled" /\ pc'[t] = "idle" /\ call'[t] = NoCall
        /\ files' = files /\ disk' = disk
        /\ heap' = [heap EXCEPT ![a].filename = q]
    BY <1>1, Ground DEF Relabel, Return, Goto, Advances, diskVars
  <1>3. /\ p # q /\ ~ IsNamed(q) /\ TextIs(q, heap[a].content) /\ disk[q].undo = heap[a].undo
    BY <1>1, <1>2 DEF OInv, MInv, Moving, ContentMoved, UndoMoved
  <1>4. /\ heap'[a].filename = q /\ heap'[a].content = heap[a].content
        /\ heap'[a].undo = heap[a].undo
        /\ \A b \in Live \ {a} : heap'[b] = heap[b] /\ heap[b].filename \notin {p, q}
        /\ Live' = Live
    <2>1. \A b \in Live \ {a} : heap[b].filename \notin {p, q}
      BY <1>1, <1>3 DEF OInv, MInv, Names, IsNamed
    <2>2. Live' = Live
      BY <1>2 DEF Live
    <2>3. QED BY <1>1, <1>2, <2>1, <2>2, Ground DEF Record
  <1>5. \A x, v : TextIs(x, v)' <=> TextIs(x, v)
    BY <1>2 DEF TextIs
  <1>6. /\ \A u \in Threads \ {t} : Held(u)' /\ Loading(u)' /\ Moving(u)'
        /\ \A b \in Live \ {a} : \A u \in Threads : ~ ContentUnsaved(u, b) /\ ~ UndoUnsaved(u, b)
    BY <1>1, <1>2, <1>4, MoverFrame
    DEF ContentUnsaved, UndoUnsaved, ContentMoved, UndoMoved, Movers
  <1>7. Names' /\ OneText'
    BY <1>4, <1>5 DEF OInv, MInv, Names, OneText
  <1>8. ContentSaved'
    BY <1>3, <1>4, <1>5, <1>6 DEF OInv, MInv, ContentSaved
  <1>9. UndoSaved'
    BY <1>2, <1>3, <1>4, <1>6 DEF OInv, MInv, UndoSaved
  <1>10. Held(t)' /\ Loading(t)' /\ Moving(t)'
    BY <1>2 DEF Held, Loading, Moving, NoCall
  <1>11. QED BY <1>6, <1>7, <1>8, <1>9, <1>10 DEF MInv

\* A DELETE takes the record out of the array before its files go.
LEMMA DeleteRecordStep ==
  ASSUME Calm, OInv, NEW t \in Threads, Advances(t), DeleteRecord(t)
  PROVE  MInv'
  <1>1. PICK p \in Paths, a \in Addresses :
           /\ p = call[t].path /\ call[t].op = "DELETE"
           /\ a = FindFile(call[t].path) /\ a \in Live /\ heap[a].filename = p
    BY Ground, Finding DEF DeleteRecord, Goto, ShapeOf, OInv, TInv
  <1>2. /\ pc[t] = "delete" /\ pc'[t] = "unlink" /\ call'[t].op = "DELETE"
        /\ call'[t].path = p
        /\ files' = Kept(files, Addresses \ {a}) /\ disk' = disk
        /\ heap' = [heap EXCEPT ![a] = NoRecord]
    BY <1>1, Ground DEF DeleteRecord, Goto, Advances, diskVars, Call
  <1>3. Live' = Live \ {a}
    <2>1. files \in Seq(Addresses)
      BY DEF OInv, TInv, TypeOK
    <2>2. Range(files') = Range(files) \cap (Addresses \ {a})
      BY <1>2, <2>1, KeptProperties
    <2>3. QED BY <2>2, Ground DEF Live
  <1>4. /\ \A b \in Live \ {a} : heap'[b] = heap[b] /\ heap[b].filename # p
    <2>1. \A b \in Live \ {a} : heap[b].filename # p
      BY <1>1 DEF OInv, MInv, Names
    <2>2. QED BY <1>1, <1>2, <2>1, Ground
  <1>5. \A x, v : TextIs(x, v)' <=> TextIs(x, v)
    BY <1>2 DEF TextIs
  <1>6. /\ \A u \in Threads \ {t} : Held(u)' /\ Loading(u)' /\ Moving(u)'
        /\ \A b \in Live : \A u \in Threads : ~ ContentUnsaved(u, b) /\ ~ UndoUnsaved(u, b)
    BY <1>1, <1>2, MoverFrame
    DEF ContentUnsaved, UndoUnsaved, ContentMoved, UndoMoved, Movers
  <1>7. Names' /\ OneText'
    BY <1>3, <1>4, <1>5 DEF OInv, MInv, Names, OneText
  <1>8. ContentSaved' /\ UndoSaved'
    BY <1>2, <1>3, <1>4, <1>5, <1>6 DEF OInv, MInv, ContentSaved, UndoSaved
  <1>9. Held(t)' /\ Loading(t)' /\ Moving(t)'
    BY <1>2, <1>3, <1>4 DEF Held, Loading, Moving, IsNamed
  <1>10. QED BY <1>6, <1>7, <1>8, <1>9 DEF MInv

\* A DELETE unlinks files that no record in memory is of.
LEMMA UnlinkStep ==
  ASSUME Calm, OInv, NEW t \in Threads, Advances(t), Unlink(t)
  PROVE  MInv'
  <1>1. PICK p \in Paths, part \in Parts :
           p = call[t].path /\ part = Head(call[t].todo) /\ call[t].op = "DELETE"
    BY Ground, Lists DEF Unlink, ShapeOf
  <1> DEFINE none == {}
  <1>2. /\ pc[t] = "unlink" /\ pc'[t] = "unlink" /\ call'[t].op = "DELETE"
        /\ call'[t].path = p /\ files' = files /\ heap' = heap
        /\ Replaced(disk, disk', p, part, none)
    BY <1>1, Ground DEF Unlink, Advances, memoryVars, Call, Replaced
  <1> HIDE DEF none
  <1>3. /\ \A q \in Paths \ {p} : disk'[q] = disk[q]
        /\ disk'[p].content \in {disk[p].content, {}}
    BY <1>2, Ground, DiskReplaced DEF Parts, none
  <1>4. Live' = Live /\ \A x : IsNamed(x)' <=> IsNamed(x)
    BY <1>2 DEF Live, IsNamed
  <1>5. /\ \A u \in Threads \ {t} : Held(u)' /\ Loading(u)' /\ Moving(u)'
        /\ \A b \in Live : \A u \in Threads : ~ ContentUnsaved(u, b) /\ ~ UndoUnsaved(u, b)
    BY <1>1, <1>2, MoverFrame
    DEF ContentUnsaved, UndoUnsaved, ContentMoved, UndoMoved, Movers
  <1>6. ~ IsNamed(p) /\ \A b \in Live : heap[b].filename \in Paths \ {p}
    BY <1>1, <1>2, Ground DEF OInv, MInv, Loading, IsNamed
  <1>7. \A q \in Paths \ {p} : \A v : TextIs(q, v)' <=> TextIs(q, v)
    BY <1>3 DEF TextIs
  <1>8. Names'
    BY <1>2, <1>4 DEF OInv, MInv, Names
  <1>9. OneText'
    <2>1. Empty \in Texts
      BY EngineAssumption DEF Empty, Texts
    <2>2. \E v \in Texts : TextIs(p, v)'
      BY <1>3, <2>1 DEF OInv, MInv, OneText, TextIs
    <2>3. QED BY <1>7, <2>2 DEF OInv, MInv, OneText
  <1>10. ContentSaved' /\ UndoSaved'
    BY <1>2, <1>3, <1>4, <1>5, <1>6, <1>7 DEF OInv, MInv, ContentSaved, UndoSaved
  <1>11. Held(t)' /\ Loading(t)' /\ Moving(t)'
    BY <1>2, <1>4, <1>6 DEF Held, Loading, Moving
  <1>12. QED BY <1>5, <1>8, <1>9, <1>10, <1>11 DEF MInv

\* A call begins: MOVE and DELETE alone, MOVE with a free name.
LEMMA NewCallStep ==
  ASSUME Calm, OInv, NEW t \in Threads, NewCall(t), Advances(t)
  PROVE  FileHeld' /\ MoverAlone' /\ MInv'
  <1>1. /\ pc[t] = "idle" /\ pc'[t] \in {"find", "snapshot", "rename", "delete"}
        /\ UNCHANGED <<memoryVars, mutexVars, diskVars>>
    BY StartStep DEF OInv, TInv
  <1>2. /\ SameMemory /\ file_mutex' = file_mutex /\ disk' = disk
        /\ \A u \in Threads \ {t} : pc'[u] = pc[u] /\ call'[u] = call[u]
    BY <1>1, Ground DEF SameMemory, memoryVars, diskVars, mutexVars, Advances
  <1>3. FileHeld'
    BY <1>1, <1>2 DEF OInv, FileHeld
  <1>4. PICK op \in Opcodes, p \in Paths, q \in Paths \cup {NoPath}, k \in PCs :
           /\ Start(t, op, p, q, k)
           /\ op = "MOVE" => /\ disk[p].content # {} /\ disk[q] = NotOnDisk
                             /\ \A a \in Range(files) : heap[a].filename # q
    BY DEF NewCall, StartOnFile, StartRevert, StartDelete, StartMove, Start, MayStart, Calm, PCs
  <1>5. call'[t].op = op /\ call'[t].path = p /\ call'[t].dest = q /\ call'[t].todo = <<>>
    <2>1. call'[t] = [NoCall EXCEPT !.op = op, !.path = p, !.dest = q]
      BY <1>4, Ground DEF Start
    <2>2. QED BY <2>1 DEF NoCall
  <1>6. \A u \in Threads : IF op \in Movers THEN pc[u] = "idle" ELSE call[u].op \notin Movers
    BY <1>4 DEF Start, MayStart, Calm
  <1>7. MoverAlone'
    <2>1. SUFFICES ASSUME NEW w \in Threads, NEW u \in Threads, call'[w].op \in Movers, w # u
                   PROVE  pc'[u] = "idle"
      BY DEF MoverAlone
    <2>2. CASE w = t
      BY <1>2, <1>5, <1>6, <2>1, <2>2
    <2>3. CASE w # t
      <3>1. call[w].op \in Movers
        BY <1>2, <2>1, <2>3
      <3>2. op \in Movers /\ pc[w] = "idle"
        BY <1>6, <3>1
      <3>3. FALSE
        BY <3>1, <3>2, Ground DEF ShapeOf, NoCall, Movers
      <3>4. QED BY <3>3
    <2>4. QED BY <2>2, <2>3
  <1>8. Held(t)' /\ Loading(t)'
    BY <1>1 DEF Held, Loading
  <1>9. Moving(t)'
    <2>1. SUFFICES ASSUME op = "MOVE" PROVE Moving(t)'
      BY <1>5 DEF Moving
    <2>2. disk[q].content = {} /\ disk[q].undo = {} /\ disk[p].content # {}
      BY <1>4, <2>1 DEF NotOnDisk
    <2>3. ~ IsNamed(q)'
      BY <1>2, <1>4, <2>1 DEF IsNamed, Live, SameMemory
    <2>4. ~ ContentMoved(t)' /\ ~ UndoMoved(t)'
      BY <1>1, <1>5 DEF ContentMoved, UndoMoved
    <2>5. QED BY <1>2, <1>5, <2>2, <2>3, <2>4 DEF Moving
  <1>10. \A a \in Live : ~ ContentUnsaved(t, a) /\ ~ UndoUnsaved(t, a)
    BY <1>1 DEF ContentUnsaved, UndoUnsaved, ContentMoved, UndoMoved
  <1>11. MInv'
    BY <1>2, <1>8, <1>9, <1>10, MemoryFrame
  <1>12. QED BY <1>3, <1>7, <1>11

\* Every step of a call keeps the agreement of memory and disk.
LEMMA MemoryStep ==
  ASSUME Calm, OInv, NEW t \in Threads, ThreadStep(t), Advances(t), Continues(t)
  PROVE  MInv'
  <1>1. ASSUME NEW op \in {"WRITE", "UNDO", "REVERT", "IMPORT"}, NEW v, NEW u,
               NEW l \in ContentLeft, Enter(t, op, l), SetContent(t, v, u),
               l \in UndoLeft \/ u = Undo(t)
        PROVE  MInv'
    BY <1>1, EditStep DEF Movers
  <1>2. CASE Write(t)
    BY <1>1, <1>2, Lists DEF Write
  <1>3. CASE UndoFile(t)
    BY <1>1, <1>3, Lists DEF UndoFile
  <1>4. CASE RevertCheckpoint(t)
    BY <1>1, <1>4, Lists DEF RevertCheckpoint
  <1>5. CASE ImportFile(t)
    BY <1>1, <1>5, Lists DEF ImportFile
  <1>6. CASE CheckpointFailed(t) \/ SaveFailed(t)
    BY <1>6 DEF CheckpointFailed, SaveFailed, Calm
  <1>7. QED BY <1>2, <1>3, <1>4, <1>5, <1>6, QuietStep, LoadContentStep, LoadUndoStep, SaveStep,
               RenameContentStep, RenameUndoStep, RelabelStep, DeleteRecordStep, UnlinkStep
            DEF ThreadStep

\* Beside a MOVE or a DELETE no other call goes on.
LEMMA AloneStep ==
  ASSUME OInv, NEW t \in Threads, Advances(t), Continues(t)
  PROVE  MoverAlone'
  <1>1. /\ \A u \in Threads \ {t} : pc'[u] = pc[u] /\ call'[u] = call[u]
        /\ pc[t] # "idle"
        /\ call'[t].op \in Movers => call[t].op \in Movers
    BY Ground DEF Advances, Continues, NoCall, Movers
  <1>2. QED BY <1>1 DEF OInv, MoverAlone

\* After a crash the memory is empty and agrees with every disk.
LEMMA CrashMemory ==
  ASSUME OInv, Crash
  PROVE  FileHeld' /\ MoverAlone' /\ MInv'
  <1>1. /\ \A u \in Threads : pc'[u] = "idle" /\ call'[u] = NoCall
        /\ disk' = disk /\ files' = <<>>
    BY DEF Crash, diskVars
  <1>2. Live' = {}
    BY <1>1 DEF Live, Range
  <1>3. FileHeld' /\ MoverAlone'
    BY <1>1 DEF FileHeld, MoverAlone
  <1>4. OneText'
    BY <1>1 DEF OInv, MInv, OneText, TextIs
  <1>5. Names' /\ ContentSaved' /\ UndoSaved'
    BY <1>2 DEF Names, ContentSaved, UndoSaved
  <1>6. \A u \in Threads : Held(u)' /\ Loading(u)' /\ Moving(u)'
    BY <1>1 DEF Held, Loading, Moving, NoCall
  <1>7. QED BY <1>3, <1>4, <1>5, <1>6 DEF MInv

\* Every step keeps the second part of the invariant.
LEMMA OrderlyStep ==
  ASSUME Calm, OInv, [Next]_vars
  PROVE  OInv'
  <1>1. TInv'
    BY TypeStep DEF OInv
  <1>2. ASSUME NEW t \in Threads, ThreadStep(t) PROVE OInv'
    <2>1. Advances(t) /\ Continues(t)
      BY <1>2, ShapeStep, ContinueStep DEF OInv, TInv
    <2>2. FileHeld'
      BY <1>2, <2>1, FileHeldStep DEF OInv
    <2>3. MoverAlone' /\ MInv'
      BY <1>2, <2>1, AloneStep, MemoryStep
    <2>4. QED BY <1>1, <2>2, <2>3 DEF OInv
  <1>3. ASSUME NEW t \in Threads, NewCall(t) PROVE OInv'
    BY <1>1, <1>3, StartStep, NewCallStep DEF OInv, TInv
  <1>4. CASE Crash
    BY <1>1, <1>4, CrashMemory DEF OInv
  <1>5. CASE UNCHANGED vars
    <2>1. FileHeld' /\ MoverAlone'
      BY <1>5 DEF vars, OInv, FileHeld, MoverAlone
    <2>2. MInv'
      <3>1. /\ pc' = pc /\ call' = call /\ heap' = heap /\ disk' = disk /\ Live' = Live
        BY <1>5 DEF vars, Live
      <3>2. Names' /\ OneText'
        BY <3>1 DEF OInv, MInv, Names, OneText, TextIs
      <3>3. ContentSaved' /\ UndoSaved'
        BY <3>1 DEF OInv, MInv, ContentSaved, UndoSaved, ContentUnsaved, UndoUnsaved,
           ContentMoved, UndoMoved, TextIs
      <3>4. ASSUME NEW u \in Threads PROVE Held(u)' /\ Loading(u)' /\ Moving(u)'
        <4>1. Held(u) /\ Loading(u) /\ Moving(u)
          BY DEF OInv, MInv
        <4>2. QED BY <3>1, <4>1
                  DEF Held, Loading, Moving, ContentMoved, UndoMoved, TextIs, IsNamed
      <3>5. QED BY <3>2, <3>3, <3>4 DEF MInv
    <2>3. QED BY <1>1, <2>1, <2>2 DEF OInv
  <1>6. QED BY <1>2, <1>3, <1>4, <1>5 DEF Next

\* The second part of the invariant holds before the first step.
LEMMA OrderlyInit ==
  ASSUME Init
  PROVE  OInv
  <1>1. TInv
    BY TypeInit
  <1>2. /\ \A u \in Threads : pc[u] = "idle" /\ call[u] = NoCall
        /\ \A p \in Paths : disk[p].content = {}
        /\ files = <<>>
    BY DEF Init, NotOnDisk
  <1>3. Live = {}
    BY <1>2 DEF Live, Range
  <1>4. FileHeld /\ MoverAlone
    BY <1>2 DEF FileHeld, MoverAlone
  <1>5. OneText
    BY <1>2, EngineAssumption DEF OneText, TextIs, Empty, Texts
  <1>6. Names /\ ContentSaved /\ UndoSaved
    BY <1>3 DEF Names, ContentSaved, UndoSaved
  <1>7. \A u \in Threads : Held(u) /\ Loading(u) /\ Moving(u)
    BY <1>2 DEF Held, Loading, Moving, NoCall
  <1>8. QED BY <1>1, <1>4, <1>5, <1>6, <1>7 DEF OInv, MInv

\* While no call is in its section and no MOVE or DELETE is under way, a record
\* in memory has the text and the snapshot that a restart of the process would
\* read from the disk, whatever calls there were and wherever the process died.
THEOREM MemoryHolds == Calm => (Spec => []MemoryOnDisk)
  <1>1. SUFFICES ASSUME Calm PROVE Spec => []MemoryOnDisk
    OBVIOUS
  <1>2. Init => OInv
    BY OrderlyInit
  <1>3. OInv /\ [Next]_vars => OInv'
    BY <1>1, OrderlyStep
  <1>4. OInv => MemoryOnDisk
    <2>1. SUFFICES ASSUME OInv, NEW i \in DOMAIN files, file_mutex[files[i]] = NoThread,
                          \A t \in Threads : call[t].op \notin Movers
                   PROVE  /\ disk[heap[files[i]].filename].undo = heap[files[i]].undo
                          /\ TextIs(heap[files[i]].filename, heap[files[i]].content)
      BY DEF MemoryOnDisk, TextIs
    <2>2. files[i] \in Live
      BY DEF Live, Range
    <2>3. \A t \in Threads : ~ ContentUnsaved(t, files[i]) /\ ~ UndoUnsaved(t, files[i])
      <3>1. NoThread \notin Threads
        BY EngineAssumption
      <3>2. \A t \in Threads : ~ (pc[t] = "save" /\ call[t].file = files[i])
        BY <2>1, <3>1 DEF OInv, FileHeld
      <3>3. \A t \in Threads : ~ ContentMoved(t) /\ ~ UndoMoved(t)
        BY <2>1, Ground DEF ContentMoved, UndoMoved, ShapeOf, Movers
      <3>4. QED BY <3>2, <3>3 DEF ContentUnsaved, UndoUnsaved
    <2>4. QED BY <2>1, <2>2, <2>3 DEF OInv, MInv, ContentSaved, UndoSaved
  <1>5. QED BY <1>2, <1>3, <1>4, PTL DEF Spec

-----------------------------------------------------------------------------
(* The inductive invariant, third part: what makes a step of the engine a  *)
(* step of FileStore.                                                      *)

\* The text v is somewhere else than in the content of the record at b.
Occurs(v, b) ==
    \/ \E a \in Addresses : (a # b /\ v = heap[a].content) \/ v \in heap[a].undo
    \/ \E p \in Paths : v \in disk[p].content \/ v \in disk[p].undo \/ v \in checkpoints[p]

Older == \A v : Occurs(v, NoAddress) => v \in Nat /\ v < nextText

\* The text that WRITE or IMPORT has yet to write is new.
Unstored(t) ==
    pc[t] = "save" /\ call[t].op \in {"WRITE", "IMPORT"} /\ call[t].todo \in ContentLeft
      => /\ heap[call[t].file].content # Empty
         /\ ~ Occurs(heap[call[t].file].content, call[t].file)

\* What a call has yet to write follows from what is on disk.
Replacing(t) ==
    pc[t] = "save" =>
        LET r == heap[call[t].file]
            p == call[t].path
            op == call[t].op
        IN  /\ call[t].todo \in UndoLeft =>
                 /\ op \in {"WRITE", "UNDO", "REVERT"}
                 /\ \E v \in Texts : /\ r.undo = {v}
                                     /\ call[t].todo \in ContentLeft => TextIs(p, v)
            /\ call[t].todo \in ContentLeft =>
                 /\ op \in {"CREATE", "WRITE", "UNDO", "REVERT", "IMPORT"}
                 /\ op \in {"CREATE", "IMPORT"} <=> call[t].todo \notin UndoLeft
                 /\ op = "CREATE" => r.content = Empty /\ TextIs(p, Empty)
                 /\ op = "UNDO" => r.content \in disk[p].undo
                 /\ op = "REVERT" => r.content \in checkpoints[p]

\* The checkpoint REVERT has read is still there, the tag CHECKPOINT found free
\* is still free, and who has not entered a section has no answer.
Tagging(t) ==
    /\ pc[t] # "idle" => call[t].snapshot \subseteq checkpoints[call[t].path]
    /\ pc[t] = "checkpoint" => checkpoints[call[t].path] = {}
    /\ pc[t] \in {"snapshot", "find", "load", "loadundo", "lock"} => answer[t] = NoAnswer

\* DELETE unlinks the content first.
Unlinking(t) ==
    pc[t] = "unlink" /\ call[t].todo \notin ContentLeft => disk[call[t].path].content = {}

RInv ==
    /\ OInv /\ Older
    /\ \A t \in Threads : Unstored(t) /\ Replacing(t) /\ Tagging(t) /\ Unlinking(t)


\* A text found after a step was there before it, is the empty one, or is new.
Origin(v, b) ==
    Occurs(v, b) \/ v = Empty \/ (v = nextText /\ nextText' = nextText + 1)

\* A step that changes one record brings no text from elsewhere, if that
\* record's texts were there.
LEMMA RecordOrigin ==
  ASSUME NEW a \in Addresses, NEW b, NEW v, disk' = disk, checkpoints' = checkpoints,
         \A x \in Addresses \ {a} : heap'[x] = heap[x],
         Origin(heap'[a].content, b), \A w \in heap'[a].undo : Origin(w, b), Occurs(v, b)'
  PROVE  Origin(v, b)
  <1>1. CASE \E x \in Addresses : (x # b /\ v = heap'[x].content) \/ v \in heap'[x].undo
    BY <1>1 DEF Origin, Occurs
  <1>2. CASE \E p \in Paths : v \in disk'[p].content \/ v \in disk'[p].undo \/ v \in checkpoints'[p]
    BY <1>2 DEF Origin, Occurs
  <1>3. QED BY <1>1, <1>2 DEF Occurs

\* A step that changes the disk brings no text from elsewhere, if it writes
\* what was there.
LEMMA DiskOrigin ==
  ASSUME NEW b, NEW v, heap' = heap, Occurs(v, b)',
         \A p \in Paths : \A w : w \in disk'[p].content \/ w \in disk'[p].undo \/ w \in checkpoints'[p]
                             => Occurs(w, b)
  PROVE  Origin(v, b)
  BY DEF Origin, Occurs

\* An edit of a record brings its new text and puts the old one in the
\* snapshot.
LEMMA EditOrigin ==
  ASSUME RInv, NEW t \in Threads, NEW b, b = NoAddress \/ (b \in Live /\ file_mutex[b] \notin {NoThread, t}),
         NEW op, NEW l, Enter(t, op, l), NEW c, NEW u, SetContent(t, c, u),
         Origin(c, b), u = {Content(t)} \/ u = Undo(t), NEW v, Occurs(v, b)'
  PROVE  Origin(v, b)
  <1>1. OInv /\ heap \in [Addresses -> Record]
    BY Ground DEF RInv
  <1>2. PICK a \in Addresses : a = call[t].file /\ a # b
    <2>1. call[t].file \in Addresses /\ file_mutex[call[t].file] = NoThread
      BY <1>1, Ground DEF Enter, Goto, ShapeOf, WithFile
    <2>2. NoAddress \notin Addresses
      BY DEF NoAddress, Addresses
    <2>3. QED BY <2>1, <2>2
  <1>3. /\ heap' = [heap EXCEPT ![a].content = c, ![a].undo = u]
        /\ disk' = disk /\ checkpoints' = checkpoints
    BY <1>2 DEF SetContent, Enter, diskVars
  <1>4. /\ \A x \in Addresses \ {a} : heap'[x] = heap[x]
        /\ heap'[a].content = c /\ heap'[a].undo = u
    BY <1>1, <1>3 DEF Record
  <1>5. \A w \in u : Origin(w, b)
    BY <1>2 DEF Origin, Occurs, Content, Undo
  <1>6. QED BY <1>3, <1>4, <1>5, RecordOrigin

\* No step brings a text that was nowhere and is not the next new one.
LEMMA OriginStep ==
  ASSUME Calm, RInv, NEW t \in Threads, ThreadStep(t), Advances(t),
         NEW b, b = NoAddress \/ (b \in Live /\ file_mutex[b] \notin {NoThread, t}),
         NEW v, Occurs(v, b)'
  PROVE  Origin(v, b)
  <1>1. /\ heap \in [Addresses -> Record] /\ disk \in [Paths -> OnDisk]
        /\ checkpoints \in [Paths -> SUBSET Texts] /\ OInv /\ TypeOK
    BY DEF RInv, OInv, TInv, TypeOK
  <1>2. call[t] \in Call /\ ShapeOf(pc[t], call[t])
    BY <1>1, Ground
  <1>3. Tagging(t) /\ Held(t) /\ Loading(t)
    BY DEF RInv, OInv, MInv
  <1>4. NoAddress \notin Addresses
    BY DEF NoAddress, Addresses
  <1>5. CASE ReadSnapshot(t)
    BY <1>5 DEF ReadSnapshot, memoryVars, diskVars, Occurs, Origin
  <1>6. CASE NoSnapshot(t)
    BY <1>6 DEF NoSnapshot, memoryVars, diskVars, Occurs, Origin
  <1>7. CASE Found(t)
    BY <1>7 DEF Found, memoryVars, diskVars, Occurs, Origin
  <1>8. CASE NotFound(t)
    BY <1>8 DEF NotFound, memoryVars, diskVars, Occurs, Origin
  <1>9. CASE LoadContent(t)
    <2> DEFINE a == CHOOSE x \in Addresses : x \notin Range(files)
               p == call[t].path
               content == IF disk[p].content = {} THEN Empty ELSE The(disk[p].content)
    <2>1. a \in Addresses
      BY <1>1, <1>9, FreeAddress DEF LoadContent, Goto, OInv, TInv, Room
    <2>2. /\ heap' = [heap EXCEPT ![a] = [filename |-> p, content |-> content, undo |-> {}]]
          /\ disk' = disk /\ checkpoints' = checkpoints /\ p \in Paths
      BY <1>2, <1>9 DEF LoadContent, Goto, ShapeOf, diskVars
    <2>3. Origin(content, b)
      BY <2>2, TheIn DEF Origin, Occurs
    <2> HIDE DEF a, content
    <2>4. PICK x \in Addresses : x = a
      BY <2>1
    <2>5. /\ \A y \in Addresses \ {x} : heap'[y] = heap[y]
          /\ heap'[x].content = content /\ heap'[x].undo = {}
      BY <1>1, <2>2, <2>4
    <2>6. QED BY <2>2, <2>3, <2>5, RecordOrigin
  <1>10. CASE LoadUndo(t)
    BY <1>1, <1>2, <1>3, <1>4, <1>10 DEF LoadUndo, Goto, memoryVars, diskVars, Occurs, Origin,
       ShapeOf, WithFile
  <1>11. CASE CreateFile(t)
    BY <1>11 DEF CreateFile, Enter, memoryVars, diskVars, Occurs, Origin
  <1>12. CASE ReadFile(t)
    BY <1>12 DEF ReadFile, Enter, memoryVars, diskVars, Occurs, Origin
  <1>13. CASE Write(t)
    <2>1. Origin(nextText, b)
      BY <1>13 DEF Write, Origin
    <2>2. QED BY <2>1, <1>13, EditOrigin DEF Write
  <1>14. CASE UndoFile(t)
    <2>1. The(Undo(t)) \in Undo(t) /\ call[t].file \in Addresses
      BY <1>2, <1>14, TheIn DEF UndoFile, Enter, Goto, ShapeOf, WithFile
    <2>2. Origin(The(Undo(t)), b)
      BY <2>1 DEF Origin, Occurs, Undo
    <2>3. QED BY <2>2, <1>14, EditOrigin DEF UndoFile
  <1>15. CASE RevertCheckpoint(t)
    <2>1. /\ The(call[t].snapshot) \in call[t].snapshot /\ call[t].path \in Paths
          /\ call[t].snapshot \subseteq checkpoints[call[t].path]
      BY <1>2, <1>3, <1>15, TheIn DEF RevertCheckpoint, Enter, Goto, ShapeOf, PastSnapshot,
         Tagging
    <2>2. Origin(The(call[t].snapshot), b)
      BY <2>1 DEF Origin, Occurs
    <2>3. QED BY <2>2, <1>15, EditOrigin DEF RevertCheckpoint
  <1>16. CASE ImportFile(t)
    <2>1. Origin(nextText, b)
      BY <1>16 DEF ImportFile, Origin
    <2>2. QED BY <2>1, <1>16, EditOrigin DEF ImportFile
  <1>17. CASE Checkpoint(t)
    BY <1>17 DEF Checkpoint, memoryVars, diskVars, Occurs, Origin
  <1>18. CASE SaveCheckpoint(t)
    <2>1. /\ call[t].file \in Addresses /\ call[t].file # b /\ heap' = heap /\ disk' = disk
          /\ checkpoints' = [checkpoints EXCEPT ![call[t].path] = {Content(t)}]
      BY <1>1, <1>2, <1>4, <1>18 DEF SaveCheckpoint, Goto, ShapeOf, WithFile, memoryVars, OInv,
         FileHeld
    <2>2. \A p \in Paths : \A w \in checkpoints'[p] : Occurs(w, b)
      BY <1>1, <2>1 DEF Occurs, Content
    <2>3. QED BY <2>1, <2>2, DiskOrigin DEF Occurs
  <1>19. CASE CheckpointFailed(t)
    BY <1>19 DEF CheckpointFailed, memoryVars, diskVars, Occurs, Origin
  <1>20. CASE Refused(t)
    BY <1>20 DEF Refused, memoryVars, diskVars, Occurs, Origin
  <1>21. CASE Save(t)
    <2>1. PICK a \in Addresses, p \in Paths, part \in Parts :
             /\ a = call[t].file /\ p = heap[a].filename /\ a # b
             /\ part = Head(call[t].todo)
      <3>1. call[t].file \in Addresses /\ call[t].file # b
        BY <1>1, <1>2, <1>4, <1>21 DEF Save, ShapeOf, WithFile, OInv, FileHeld
      <3>2. heap[call[t].file].filename \in Paths
        BY <1>1, <1>3, <1>21, Ground DEF Save, Held
      <3>3. Head(call[t].todo) \in Parts
        BY <1>2, <1>21, Lists DEF Save, ShapeOf
      <3>4. QED BY <3>1, <3>2, <3>3
    <2> DEFINE x == SavedPart(part, heap[a], disk[p])
    <2>2. /\ Replaced(disk, disk', p, part, x)
          /\ heap' = heap /\ checkpoints' = checkpoints
      BY <2>1, <1>21 DEF Save, memoryVars, Replaced
    <2>3. \A w \in x : Occurs(w, b)
      BY <2>1 DEF SavedPart, Occurs
    <2> HIDE DEF x
    <2>4. \A q \in Paths : /\ disk'[q].content \in {disk[q].content, x}
                           /\ disk'[q].undo \in {disk[q].undo, x}
      BY <1>1, <2>1, <2>2, DiskReplaced DEF Parts
    <2>5. QED BY <2>2, <2>3, <2>4, DiskOrigin DEF Occurs
  <1>22. CASE SaveFailed(t)
    BY <1>22 DEF SaveFailed, memoryVars, diskVars, Occurs, Origin
  <1>23. CASE Release(t)
    BY <1>23 DEF Release, memoryVars, diskVars, Occurs, Origin
  <1>24. CASE RenameContent(t)
    <2>1. PICK p \in Paths, q \in Paths :
             /\ p # q /\ disk[q].content = {} /\ disk' = RenamePart(p, q, "content")
             /\ heap' = heap /\ checkpoints' = checkpoints
      <3>1. /\ call[t].path \in Paths /\ call[t].dest \in Paths /\ call[t].op = "MOVE"
            /\ disk' = RenamePart(call[t].path, call[t].dest, "content")
            /\ heap' = heap /\ checkpoints' = checkpoints
        BY <1>2, <1>24 DEF RenameContent, Renamed, Goto, ShapeOf, memoryVars
      <3>2. call[t].path # call[t].dest /\ disk[call[t].dest].content = {}
        BY <1>1, <3>1, <1>24 DEF RenameContent, Renamed, Goto, OInv, MInv, Moving,
           ContentMoved, UndoMoved
      <3>3. QED BY <3>1, <3>2
    <2>2. /\ \A x \in Paths \ {p, q} : disk'[x] = disk[x]
          /\ \A x \in {p, q} : /\ disk'[x].content \in {disk[p].content, disk[q].content, {}}
                                /\ disk'[x].undo \in {disk[p].undo, disk[q].undo, {}}
      BY <1>1, <2>1, DiskRenamed DEF Parts
    <2>3. \A x \in Paths : \A w : w \in disk'[x].content \/ w \in disk'[x].undo => Occurs(w, b)
      BY <2>2 DEF Occurs
    <2>4. QED BY <2>1, <2>3, DiskOrigin DEF Occurs
  <1>25. CASE RenameFailed(t)
    BY <1>25 DEF RenameFailed, memoryVars, diskVars, Occurs, Origin
  <1>26. CASE RenameMeta(t)
    <2>1. PICK p \in Paths, q \in Paths :
             /\ disk' = RenamePart(p, q, "meta") /\ heap' = heap /\ checkpoints' = checkpoints
      BY <1>2, <1>26 DEF RenameMeta, Renamed, Goto, ShapeOf, memoryVars
    <2>2. \A x \in Paths : disk'[x].content = disk[x].content /\ disk'[x].undo = disk[x].undo
      BY <1>1, <2>1, MetaRenamed
    <2>3. QED BY <2>1, <2>2, DiskOrigin DEF Occurs
  <1>27. CASE RenameUndo(t)
    <2>1. PICK p \in Paths, q \in Paths :
             /\ p # q /\ disk[q].undo = {} /\ disk' = RenamePart(p, q, "undo")
             /\ heap' = heap /\ checkpoints' = checkpoints
      <3>1. /\ call[t].path \in Paths /\ call[t].dest \in Paths /\ call[t].op = "MOVE"
            /\ disk' = RenamePart(call[t].path, call[t].dest, "undo")
            /\ heap' = heap /\ checkpoints' = checkpoints
        BY <1>2, <1>27 DEF RenameUndo, Renamed, Goto, ShapeOf, memoryVars
      <3>2. call[t].path # call[t].dest /\ disk[call[t].dest].undo = {}
        BY <1>1, <3>1, <1>27 DEF RenameUndo, Renamed, Goto, OInv, MInv, Moving, ContentMoved,
           UndoMoved
      <3>3. QED BY <3>1, <3>2
    <2>2. /\ \A x \in Paths \ {p, q} : disk'[x] = disk[x]
          /\ \A x \in {p, q} : /\ disk'[x].content \in {disk[p].content, disk[q].content, {}}
                                /\ disk'[x].undo \in {disk[p].undo, disk[q].undo, {}}
      BY <1>1, <2>1, DiskRenamed DEF Parts
    <2>3. \A x \in Paths : \A w : w \in disk'[x].content \/ w \in disk'[x].undo => Occurs(w, b)
      BY <2>2 DEF Occurs
    <2>4. QED BY <2>1, <2>3, DiskOrigin DEF Occurs
  <1>28. CASE RelabelFind(t)
    BY <1>28 DEF RelabelFind, memoryVars, diskVars, Occurs, Origin
  <1>29. CASE RelabelNone(t)
    BY <1>29 DEF RelabelNone, memoryVars, diskVars, Occurs, Origin
  <1>30. CASE Relabel(t)
    BY <1>1, <1>2, <1>3, <1>4, <1>30 DEF Relabel, Return, Goto, memoryVars, diskVars, Occurs,
       Origin, ShapeOf, WithFile
  <1>31. CASE DeleteNotFound(t)
    BY <1>31 DEF DeleteNotFound, memoryVars, diskVars, Occurs, Origin
  <1>32. CASE DeleteRecord(t)
    <2>1. PICK a \in Addresses : a = FindFile(call[t].path)
      BY <1>1, <1>32, Finding DEF DeleteRecord
    <2>2. /\ heap' = [heap EXCEPT ![a] = NoRecord]
          /\ disk' = disk /\ checkpoints' = checkpoints
      BY <2>1, <1>32 DEF DeleteRecord, diskVars
    <2>3. /\ \A y \in Addresses \ {a} : heap'[y] = heap[y]
          /\ heap'[a].content = Empty /\ heap'[a].undo = {}
      BY <1>1, <2>2 DEF NoRecord
    <2>4. Origin(Empty, b)
      BY DEF Origin
    <2>5. QED BY <2>2, <2>3, <2>4, RecordOrigin
  <1>33. CASE Unlink(t)
    <2>1. PICK p \in Paths, part \in Parts : p = call[t].path /\ part = Head(call[t].todo)
      BY <1>2, <1>33, Lists DEF Unlink, ShapeOf
    <2> DEFINE none == {}
    <2>2. /\ Replaced(disk, disk', p, part, none)
          /\ heap' = heap /\ checkpoints' = checkpoints
      BY <2>1, <1>33 DEF Unlink, memoryVars, Replaced
    <2> HIDE DEF none
    <2>3. \A q \in Paths : /\ disk'[q].content \in {disk[q].content, none}
                           /\ disk'[q].undo \in {disk[q].undo, none}
      BY <1>1, <2>1, <2>2, DiskReplaced DEF Parts
    <2>4. QED BY <2>2, <2>3, DiskOrigin DEF Occurs, none
  <1>34. CASE Deleted(t)
    BY <1>34 DEF Deleted, memoryVars, diskVars, Occurs, Origin
  <1>35. QED BY <1>5, <1>6, <1>7, <1>8, <1>9, <1>10, <1>11, <1>12, <1>13, <1>14, <1>15, <1>16,
                <1>17, <1>18, <1>19, <1>20, <1>21, <1>22, <1>23, <1>24, <1>25, <1>26, <1>27,
                              <1>28, <1>29, <1>30, <1>31, <1>32, <1>33, <1>34 DEF ThreadStep


\* Nobody touches the record, the files or the tag of a call in its section.
LEMMA SectionFrame ==
  ASSUME Calm, RInv, NEW t \in Threads, ThreadStep(t), Advances(t),
         NEW u \in Threads, u # t, pc[u] \in {"save", "checkpoint"},
         NEW b, b = call[u].file, NEW p, p = call[u].path
  PROVE  /\ pc'[u] = pc[u] /\ call'[u] = call[u]
         /\ b \in Live /\ b \in Addresses /\ file_mutex[b] = u /\ heap[b].filename = p /\ p \in Paths
         /\ heap'[b] = heap[b] /\ checkpoints'[p] = checkpoints[p]
         /\ disk'[p].content = disk[p].content /\ disk'[p].undo = disk[p].undo
  <1>1. /\ OInv /\ TypeOK /\ heap \in [Addresses -> Record] /\ disk \in [Paths -> OnDisk]
        /\ checkpoints \in [Paths -> SUBSET Texts]
        /\ call[t] \in Call /\ ShapeOf(pc[t], call[t])
    BY Ground DEF RInv, OInv, TInv, TypeOK
  <1>2. /\ pc'[u] = pc[u] /\ call'[u] = call[u]
        /\ b \in Live /\ b \in Addresses /\ file_mutex[b] = u /\ heap[b].filename = p /\ p \in Paths
    <2>1. pc'[u] = pc[u] /\ call'[u] = call[u]
      BY <1>1, Ground DEF Advances
    <2>2. b \in Live /\ heap[b].filename = p /\ file_mutex[b] = u
      BY <1>1 DEF OInv, MInv, Held, FileHeld
    <2>3. QED BY <1>1, <2>1, <2>2, Ground
  <1>3. call[t].op \notin Movers /\ u \in Threads /\ u # NoThread
    BY <1>1, EngineAssumption DEF OInv, MoverAlone
  <1>4. pc[t] \in {"lock", "save", "checkpoint"} =>
           /\ call[t].file \in Live /\ heap[call[t].file].filename = call[t].path
           /\ call[t].file \in Addresses
    BY <1>1, Ground DEF OInv, MInv, Held
  <1>5. pc[t] \in {"save", "checkpoint"} =>
           /\ call[t].file # b /\ call[t].path # p
    <2>1. pc[t] \in {"save", "checkpoint"} => file_mutex[call[t].file] = t
      BY <1>1 DEF OInv, FileHeld
    <2>2. pc[t] \in {"save", "checkpoint"} => call[t].file # b
      BY <1>2, <1>3, <2>1
    <2>3. QED BY <1>1, <1>2, <1>4, <2>2 DEF OInv, MInv, Names
  <1> DEFINE Goal == /\ heap'[b] = heap[b] /\ checkpoints'[p] = checkpoints[p]
                     /\ disk'[p].content = disk[p].content /\ disk'[p].undo = disk[p].undo
  <1>6. ASSUME NEW op, NEW l, Enter(t, op, l), NEW x, NEW y, SetContent(t, x, y) PROVE Goal
    <2>1. call[t].file # b /\ call[t].file \in Addresses
      BY <1>2, <1>3, <1>4, <1>6 DEF Enter, Goto
    <2>2. QED BY <1>1, <1>2, <1>6, <2>1 DEF Enter, SetContent, diskVars
  <1>7. CASE LoadContent(t)
    <2>1. (CHOOSE x \in Addresses : x \notin Range(files)) \notin Live
      BY <1>1, <1>7, FreeAddress DEF LoadContent, Goto, OInv, TInv, Room, Live
    <2>2. QED BY <1>1, <1>2, <1>7, <2>1 DEF LoadContent, diskVars
  <1>8. CASE LoadUndo(t)
    <2>1. call[t].file \notin Live
      BY <1>1, <1>8 DEF LoadUndo, Goto, OInv, MInv, Loading
    <2>2. QED BY <1>1, <1>2, <1>8, <2>1 DEF LoadUndo, diskVars
  <1>9. CASE Save(t)
    <2> DEFINE q == heap[call[t].file].filename
               part == Head(call[t].todo)
               v == SavedPart(part, heap[call[t].file], disk[q])
    <2>1. q \in Paths \ {p} /\ part \in Parts
      BY <1>1, <1>4, <1>5, <1>9, Lists, Ground DEF Save, ShapeOf
    <2>2. disk' = [disk EXCEPT ![q][part] = v] /\ heap' = heap /\ checkpoints' = checkpoints
      BY <1>9 DEF Save, memoryVars
    <2> HIDE DEF q, v, part
    <2>3. QED BY <1>1, <1>2, <2>1, <2>2
  <1>10. CASE SaveCheckpoint(t)
    <2>1. call[t].path # p
      BY <1>5, <1>10 DEF SaveCheckpoint, Goto
    <2>2. QED BY <1>1, <1>2, <1>10, <2>1 DEF SaveCheckpoint, memoryVars
  <1>11. CASE Write(t) \/ UndoFile(t) \/ RevertCheckpoint(t) \/ ImportFile(t)
    <2>1. CASE Write(t) BY <1>2, <1>6, <2>1 DEF Write
    <2>2. CASE UndoFile(t) BY <1>2, <1>6, <2>2 DEF UndoFile
    <2>3. CASE RevertCheckpoint(t) BY <1>2, <1>6, <2>3 DEF RevertCheckpoint
    <2>4. CASE ImportFile(t) BY <1>2, <1>6, <2>4 DEF ImportFile
    <2>5. QED BY <1>11, <2>1, <2>2, <2>3, <2>4
  <1>12. CASE \/ ReadSnapshot(t) \/ NoSnapshot(t) \/ Found(t) \/ NotFound(t) \/ CreateFile(t)
              \/ ReadFile(t) \/ Checkpoint(t) \/ CheckpointFailed(t) \/ Refused(t)
              \/ SaveFailed(t) \/ Release(t)
    <2>1. heap' = heap /\ disk' = disk /\ checkpoints' = checkpoints
      <3>1. CASE ReadSnapshot(t) BY <3>1 DEF ReadSnapshot, memoryVars, diskVars
      <3>2. CASE NoSnapshot(t) BY <3>2 DEF NoSnapshot, memoryVars, diskVars
      <3>3. CASE Found(t) BY <3>3 DEF Found, memoryVars, diskVars
      <3>4. CASE NotFound(t) BY <3>4 DEF NotFound, memoryVars, diskVars
      <3>5. CASE CreateFile(t) BY <3>5 DEF CreateFile, Enter, memoryVars, diskVars
      <3>6. CASE ReadFile(t) BY <3>6 DEF ReadFile, Enter, memoryVars, diskVars
      <3>7. CASE Checkpoint(t) BY <3>7 DEF Checkpoint, memoryVars, diskVars
      <3>8. CASE CheckpointFailed(t) BY <3>8 DEF CheckpointFailed, memoryVars, diskVars
      <3>9. CASE Refused(t) BY <3>9 DEF Refused, memoryVars, diskVars
      <3>10. CASE SaveFailed(t) BY <3>10 DEF SaveFailed, memoryVars, diskVars
      <3>11. CASE Release(t) BY <3>11 DEF Release, memoryVars, diskVars
      <3>12. QED BY <1>12, <3>1, <3>2, <3>3, <3>4, <3>5, <3>6, <3>7, <3>8, <3>9, <3>10, <3>11
    <2>2. QED BY <1>2, <2>1
  <1>13. CASE \/ RenameContent(t) \/ RenameFailed(t) \/ RenameMeta(t) \/ RenameUndo(t)
              \/ RelabelFind(t) \/ RelabelNone(t) \/ Relabel(t)
              \/ DeleteNotFound(t) \/ DeleteRecord(t) \/ Unlink(t) \/ Deleted(t)
    <2>1. pc[t] \in {"rename", "relabel", "relabelled", "delete", "unlink"}
      BY <1>13 DEF RenameContent, RenameFailed, RenameMeta, RenameUndo, RelabelFind,
         RelabelNone,
         Relabel, DeleteNotFound, DeleteRecord, Unlink, Deleted, Renamed, Return, Goto
    <2>2. QED BY <1>1, <1>3, <2>1 DEF ShapeOf, Movers
  <1>14. QED BY <1>2, <1>7, <1>8, <1>9, <1>10, <1>11, <1>12, <1>13 DEF ThreadStep

\* Every text that is anywhere has been made, after every step.
LEMMA OlderStep ==
  ASSUME Calm, RInv, NEW t \in Threads, ThreadStep(t), Advances(t)
  PROVE  Older'
  <1>1. nextText \in Nat /\ 1 <= nextText /\ (nextText' = nextText \/ nextText' = nextText + 1)
    <2>1. TInv
      BY DEF RInv, OInv
    <2>2. QED BY <2>1, MakingStep DEF TInv, TypeOK, TextsLeft
  <1>0. NoAddress' = NoAddress
    BY DEF NoAddress
  <1>2. SUFFICES ASSUME NEW v, Occurs(v, NoAddress)' PROVE v \in Nat /\ v < nextText'
    BY <1>0 DEF Older
  <1>3. Origin(v, NoAddress)
    BY <1>2, OriginStep
  <1>4. QED BY <1>1, <1>3 DEF Origin, RInv, Older, Empty

\* The ways into a section and through it, where every file can be written.
LEMMA SectionSteps ==
  ASSUME Calm, TypeOK, NEW t \in Threads, ThreadStep(t), pc'[t] = "save"
  PROVE  \/ CreateFile(t) \/ ReadFile(t) \/ Write(t) \/ UndoFile(t) \/ RevertCheckpoint(t)
         \/ ImportFile(t) \/ SaveCheckpoint(t) \/ Save(t)
  <1>1. \A k, l : Goto(t, k, l) => l = "save"
    BY DEF TypeOK, Goto
  <1>2. \A k : ~ Return(t, k)
    BY <1>1 DEF Return
  <1>3. ~ (ReadSnapshot(t) \/ Found(t) \/ NotFound(t) \/ LoadContent(t) \/ LoadUndo(t)
           \/ Checkpoint(t) \/ RelabelFind(t) \/ DeleteRecord(t))
    BY <1>1 DEF ReadSnapshot, Found, NotFound, LoadContent, LoadUndo, Checkpoint, RelabelFind,
       DeleteRecord
  <1>4. ~ (NoSnapshot(t) \/ Refused(t) \/ Release(t) \/ RenameFailed(t) \/ RelabelNone(t)
           \/ Relabel(t) \/ DeleteNotFound(t) \/ Deleted(t))
    BY <1>2 DEF NoSnapshot, Refused, Release, RenameFailed, RelabelNone, Relabel,
       DeleteNotFound,
       Deleted
  <1>5. ~ (RenameContent(t) \/ RenameMeta(t) \/ RenameUndo(t))
    BY <1>1 DEF RenameContent, RenameMeta, RenameUndo, Renamed
  <1>6. ~ (CheckpointFailed(t) \/ SaveFailed(t) \/ Unlink(t))
    BY DEF CheckpointFailed, SaveFailed, Unlink, Calm
  <1>7. QED BY <1>3, <1>4, <1>5, <1>6 DEF ThreadStep

\* Who finds file_mutex free finds the record as it is on disk.
LEMMA Settled ==
  ASSUME OInv, NEW t \in Threads, pc[t] = "lock", file_mutex[call[t].file] = NoThread
  PROVE  /\ call[t].file \in Addresses /\ call[t].path \in Paths
         /\ call[t].file \in Live
         /\ heap[call[t].file].filename = call[t].path
         /\ heap[call[t].file] \in Record
         /\ TextIs(call[t].path, heap[call[t].file].content)
         /\ disk[call[t].path].undo = heap[call[t].file].undo
  <1>1. PICK a \in Live : a = call[t].file
    BY DEF OInv, MInv, Held
  <1>2. /\ a \in Addresses /\ call[t].path \in Paths /\ heap[a].filename = call[t].path
        /\ heap[a] \in Record
    BY <1>1, Ground DEF OInv, MInv, Held
  <1>3. call[t].op \notin Movers
    BY Ground DEF ShapeOf, Movers
  <1>4. \A u \in Threads : pc[u] = "save" => call[u].file # a
    BY <1>1, EngineAssumption DEF OInv, FileHeld
  <1>5. \A u \in Threads : ~ ContentUnsaved(u, a) /\ ~ UndoUnsaved(u, a)
    BY <1>3, <1>4, NoMover DEF ContentUnsaved, UndoUnsaved
  <1>6. QED BY <1>1, <1>2, <1>5 DEF OInv, MInv, ContentSaved, UndoSaved

\* A text that nobody has written stays one.
LEMMA UnstoredStep ==
  ASSUME Calm, RInv, NEW t \in Threads, ThreadStep(t), Advances(t), NEW u \in Threads
  PROVE  Unstored(u)'
  <1>0. /\ OInv /\ TypeOK /\ heap \in [Addresses -> Record] /\ NoAddress \notin Addresses
        /\ pc \in [Threads -> PCs] /\ call \in [Threads -> Call]
        /\ ShapeOf(pc[t], call[t]) /\ call[t] \in Call
        /\ nextText \in Nat /\ 1 <= nextText
    BY Ground DEF RInv, OInv, TInv, TypeOK, TextsLeft, NoAddress, Addresses
  <1>1. SUFFICES ASSUME pc'[u] = "save", call'[u].op \in {"WRITE", "IMPORT"},
                        call'[u].todo \in ContentLeft,
                        NEW b, b = call'[u].file, NEW v, v = heap'[b].content
                 PROVE  v # Empty /\ ~ Occurs(v, b)'
    <2>1. (call[u].todo \in ContentLeft)' <=> call'[u].todo \in ContentLeft
      BY DEF ContentLeft
    <2>2. Empty' = Empty
      BY DEF Empty
    <2>3. QED BY <2>1, <2>2 DEF Unstored
  <1>2. CASE u # t
    <2>1. pc[u] = "save" /\ call'[u] = call[u]
      BY <1>0, <1>1, <1>2 DEF Advances
    <2>2. b \in Addresses /\ b = call[u].file
      BY <1>0, <1>1, <2>1, Ground DEF ShapeOf, WithFile
    <2>3. b \in Live /\ file_mutex[b] = u /\ heap'[b] = heap[b]
      <3>1. PICK p : p = call[u].path
        OBVIOUS
      <3>2. QED BY <1>2, <2>1, <2>2, <3>1, SectionFrame
    <2>4. file_mutex[b] \notin {NoThread, t}
      BY <1>2, <2>3, EngineAssumption
    <2>5. v # Empty /\ ~ Occurs(v, b) /\ v = heap[b].content
      BY <1>1, <2>1, <2>2, <2>3 DEF RInv, Unstored
    <2>6. v < nextText /\ v \in Nat
      <3>1. Occurs(v, NoAddress)
        BY <1>0, <2>2, <2>5 DEF Occurs
      <3>2. QED BY <3>1 DEF RInv, Older
    <2>7. SUFFICES ASSUME Occurs(v, b)' PROVE FALSE
      BY <2>5
    <2>8. Origin(v, b)
      BY <2>3, <2>4, <2>7, OriginStep
    <2>9. QED BY <1>0, <2>5, <2>6, <2>8 DEF Origin
  <1>3. CASE u = t
    <2>1. Write(t) \/ ImportFile(t)
      <3>1. call[t].op \in {"WRITE", "IMPORT"}
        <4>1. Continues(t)
          BY <1>0, ContinueStep DEF OInv, TInv
        <4>2. QED BY <1>1, <1>3, <4>1 DEF Continues
      <3>2. ~ SaveCheckpoint(t)
        BY <1>0, <3>1 DEF SaveCheckpoint, Goto, ShapeOf
      <3>3. ~ (CreateFile(t) \/ ReadFile(t) \/ UndoFile(t) \/ RevertCheckpoint(t))
        BY <3>1 DEF CreateFile, ReadFile, UndoFile, RevertCheckpoint, Enter
      <3>4. ~ Save(t)
        <4>1. SUFFICES ASSUME Save(t) PROVE FALSE
          OBVIOUS
        <4>2. call'[t].todo = Tail(call[t].todo) /\ call[t].todo \in SaveLeft /\ call[t].todo # <<>>
          BY <1>0, <4>1 DEF Save, ShapeOf
        <4>3. Tail(call[t].todo) \notin ContentLeft
          BY <4>2, Lists
        <4>4. QED BY <1>1, <1>3, <4>2, <4>3
      <3>5. QED BY <1>0, <1>1, <1>3, <3>2, <3>3, <3>4, SectionSteps
    <2>2. PICK a \in Addresses : a = call[t].file
      BY <1>0, <2>1 DEF Write, ImportFile, Enter, Goto, ShapeOf, WithFile
    <2>3. /\ heap'[a].content = nextText /\ \A w \in heap'[a].undo : Occurs(w, NoAddress)
          /\ \A x \in Addresses \ {a} : heap'[x] = heap[x]
          /\ call'[t].file = a
      <3>1. PICK l, n : /\ heap' = [heap EXCEPT ![a].content = nextText, ![a].undo = n]
                        /\ n = {heap[a].content} \/ n = heap[a].undo
                        /\ call' = [call EXCEPT ![t].todo = l]
        BY <2>1, <2>2 DEF Write, ImportFile, SetContent, Content, Undo, Enter
      <3>2. \A w \in n : Occurs(w, NoAddress)
        BY <1>0, <3>1 DEF Occurs
      <3>3. QED BY <1>0, <2>2, <3>1, <3>2 DEF Record, Call
    <2>4. disk' = disk /\ checkpoints' = checkpoints
      BY <2>1 DEF Write, ImportFile, Enter, diskVars
    <2>5. ~ Occurs(nextText, NoAddress)
      BY <1>0 DEF RInv, Older
    <2>6. b = a /\ v = nextText
      BY <1>1, <1>3, <2>3
    <2>7. ~ Occurs(v, b)'
      <3>1. \A x \in Addresses : x # b => v # heap'[x].content
        BY <1>0, <2>3, <2>5, <2>6 DEF Occurs
      <3>2. \A x \in Addresses : v \notin heap'[x].undo
        BY <2>3, <2>5, <2>6 DEF Occurs
      <3>3. \A p \in Paths : v \notin disk'[p].content /\ v \notin disk'[p].undo
                             /\ v \notin checkpoints'[p]
        BY <2>4, <2>5, <2>6 DEF Occurs
      <3>4. QED BY <3>1, <3>2, <3>3 DEF Occurs
    <2>8. QED BY <1>0, <2>6, <2>7 DEF Empty
  <1>4. QED BY <1>2, <1>3

\* What a call has yet to write goes on following from what is on disk.
LEMMA ReplacingStep ==
  ASSUME Calm, RInv, NEW t \in Threads, ThreadStep(t), Advances(t), NEW u \in Threads
  PROVE  Replacing(u)'
  <1>0. /\ OInv /\ TypeOK /\ heap \in [Addresses -> Record]
        /\ pc \in [Threads -> PCs] /\ call \in [Threads -> Call]
        /\ ShapeOf(pc[t], call[t]) /\ call[t] \in Call
    BY Ground DEF RInv, OInv, TInv, TypeOK
  <1>1. SUFFICES ASSUME pc'[u] = "save", NEW c, c = call'[u], NEW r, r = heap'[c.file]
                 PROVE  /\ c.todo \in UndoLeft =>
                             /\ c.op \in {"WRITE", "UNDO", "REVERT"}
                             /\ \E v \in Texts : /\ r.undo = {v}
                                                 /\ c.todo \in ContentLeft => TextIs(c.path, v)'
                        /\ c.todo \in ContentLeft =>
                             /\ c.op \in {"CREATE", "WRITE", "UNDO", "REVERT", "IMPORT"}
                             /\ c.op \in {"CREATE", "IMPORT"} <=> c.todo \notin UndoLeft
                             /\ c.op = "CREATE" => r.content = Empty /\ TextIs(c.path, Empty)'
                             /\ c.op = "UNDO" => r.content \in disk'[c.path].undo
                             /\ c.op = "REVERT" => r.content \in checkpoints'[c.path]
    <2>1. UndoLeft' = UndoLeft /\ ContentLeft' = ContentLeft /\ Texts' = Texts /\ Empty' = Empty
      BY DEF UndoLeft, ContentLeft, Texts, Empty
    <2>2. QED BY <2>1 DEF Replacing
  <1>2. CASE u # t
    <2>1. pc[u] = "save" /\ call[u] = c
      BY <1>0, <1>1, <1>2 DEF Advances
    <2>2. PICK b, p : b = c.file /\ p = c.path
      OBVIOUS
    <2>3. /\ heap'[b] = heap[b] /\ checkpoints'[p] = checkpoints[p]
          /\ disk'[p].content = disk[p].content /\ disk'[p].undo = disk[p].undo
      BY <1>2, <2>1, <2>2, SectionFrame
    <2>4. \A v : TextIs(p, v)' <=> TextIs(p, v)
      BY <2>3 DEF TextIs, Empty
    <2>5. r = heap[b]
      BY <1>1, <2>2, <2>3
    <2>6. Replacing(u)
      BY DEF RInv
    <2>7. Empty' = Empty
      BY DEF Empty
    <2>8. QED BY <2>1, <2>2, <2>3, <2>4, <2>5, <2>6, <2>7 DEF Replacing
  <1>3. CASE u = t
    <2>0. c = call'[t] /\ pc'[t] = "save"
      BY <1>1, <1>3
    <2>1. CASE Save(t)
      <3>1. /\ call[t].todo \in SaveLeft /\ call[t].todo # <<>> /\ pc[t] = "save"
            /\ c = [call[t] EXCEPT !.todo = Tail(call[t].todo)] /\ heap' = heap
        BY <1>0, <2>0, <2>1 DEF Save, ShapeOf, memoryVars
      <3>2. /\ c.todo = Tail(call[t].todo) /\ c.op = call[t].op /\ c.file = call[t].file
            /\ r = heap[call[t].file]
        BY <1>0, <1>1, <3>1 DEF Call
      <3>3. /\ Tail(call[t].todo) \notin ContentLeft
            /\ Tail(call[t].todo) \in UndoLeft => call[t].todo \in UndoLeft
        BY <3>1, Lists
      <3>4. Replacing(t)
        BY DEF RInv
      <3>5. QED BY <3>1, <3>2, <3>3, <3>4 DEF Replacing
    <2>2. CASE SaveCheckpoint(t) \/ ReadFile(t)
      <3>1. c.todo \in {<<>>, <<"meta">>}
        BY <1>0, <2>0, <2>2 DEF SaveCheckpoint, ReadFile, Enter, Goto, ShapeOf, Call
      <3>2. QED BY <3>1, Lists
    <2>3. PICK p, a, v, n : /\ p = call[t].path /\ a = call[t].file
                            /\ v = heap[a].content /\ n = heap[a].undo
      OBVIOUS
    <2>4. ASSUME NEW op, NEW l, Enter(t, op, l)
          PROVE  /\ c.op = op /\ c.todo = l /\ c.path = p /\ c.file = a
                 /\ a \in Addresses /\ v \in Texts
                 /\ TextIs(p, v)' /\ disk'[p].undo = n /\ checkpoints' = checkpoints
      <3>1. /\ a \in Addresses /\ heap[a] \in Record
            /\ TextIs(p, v) /\ disk[p].undo = n
        BY <1>0, <2>3, <2>4, Settled DEF Enter, Goto
      <3>2. disk' = disk /\ checkpoints' = checkpoints
        BY <2>4 DEF Enter, diskVars
      <3>3. c.op = op /\ c.todo = l /\ c.path = p /\ c.file = a
        BY <1>0, <2>0, <2>3, <2>4 DEF Enter, Call
      <3>4. v \in Texts
        BY <2>3, <3>1 DEF Record
      <3>5. TextIs(p, v)'
        BY <3>1, <3>2 DEF TextIs, Empty
      <3>6. QED BY <3>1, <3>2, <3>3, <3>4, <3>5
    <2>5. CASE CreateFile(t)
      <3>1. /\ c.op = "CREATE" /\ c.todo = <<"content", "meta">> /\ c.path = p /\ c.file = a
            /\ TextIs(p, v)'
        BY <2>4, <2>5 DEF CreateFile
      <3>2. v = Empty /\ r.content = Empty
        BY <1>1, <2>3, <2>5, <3>1 DEF CreateFile, Content
      <3>3. c.todo \notin UndoLeft
        BY <3>1, Lists
      <3>4. TextIs(c.path, Empty)'
        BY <3>1, <3>2 DEF TextIs, Empty
      <3>5. QED BY <3>1, <3>2, <3>3, <3>4
    <2>6. CASE ImportFile(t)
      <3>1. c.op = "IMPORT" /\ c.todo = <<"content", "meta">>
        BY <2>4, <2>6 DEF ImportFile
      <3>2. c.todo \notin UndoLeft
        BY <3>1, Lists
      <3>3. QED BY <3>1, <3>2
    <2>7. ASSUME NEW op \in {"WRITE", "UNDO", "REVERT"}, Enter(t, op, <<"content", "meta", "undo">>),
                 NEW w, SetContent(t, w, {Content(t)}),
                 op = "UNDO" => w \in n, op = "REVERT" => w \in checkpoints[p]
          PROVE  /\ c.op \in {"WRITE", "UNDO", "REVERT"} /\ c.todo \in UndoLeft
                 /\ \E x \in Texts : r.undo = {x} /\ TextIs(c.path, x)'
                 /\ c.op = "UNDO" => r.content \in disk'[c.path].undo
                 /\ c.op = "REVERT" => r.content \in checkpoints'[c.path]
      <3>1. /\ c.op = op /\ c.todo = <<"content", "meta", "undo">> /\ c.path = p /\ c.file = a
            /\ a \in Addresses /\ v \in Texts
            /\ TextIs(p, v)' /\ disk'[p].undo = n /\ checkpoints' = checkpoints
        BY <2>4, <2>7
      <3>2. r.content = w /\ r.undo = {v}
        BY <1>0, <1>1, <2>3, <2>7, <3>1 DEF SetContent, Content, Record
      <3>3. <<"content", "meta", "undo">> \in UndoLeft
        BY Lists
      <3>4. \E x \in Texts : r.undo = {x} /\ TextIs(c.path, x)'
        BY <3>1, <3>2
      <3>5. QED BY <2>7, <3>1, <3>2, <3>3, <3>4
    <2>8. CASE Write(t)
      BY <2>7, <2>8 DEF Write
    <2>9. CASE UndoFile(t)
      <3>1. The(Undo(t)) \in n
        BY <2>3, <2>9, TheIn DEF UndoFile, Undo
      <3>2. QED BY <2>7, <2>9, <3>1 DEF UndoFile
    <2>10. CASE RevertCheckpoint(t)
      <3>1. The(call[t].snapshot) \in checkpoints[p]
        <4>1. pc[t] = "lock" /\ call[t].op = "REVERT"
          BY <2>10 DEF RevertCheckpoint, Enter, Goto
        <4>2. call[t].snapshot # {}
          BY <1>0, <4>1 DEF ShapeOf, PastSnapshot
        <4>3. call[t].snapshot \subseteq checkpoints[p]
          BY <2>3, <4>1 DEF RInv, Tagging
        <4>4. QED BY <4>2, <4>3, TheIn
      <3>2. QED BY <2>7, <2>10, <3>1 DEF RevertCheckpoint
    <2>11. QED BY <1>0, <2>0, <2>1, <2>2, <2>5, <2>6, <2>8, <2>9, <2>10, SectionSteps
  <1>4. QED BY <1>2, <1>3

\* No step takes a checkpoint away.
LEMMA CheckpointsKept ==
  ASSUME Calm, RInv, NEW t \in Threads, ThreadStep(t)
  PROVE  \A p \in Paths : checkpoints[p] \subseteq checkpoints'[p]
  <1>1. CASE SaveCheckpoint(t)
    <2>1. checkpoints[call[t].path] = {} /\ checkpoints \in [Paths -> SUBSET Texts]
      BY <1>1 DEF SaveCheckpoint, Goto, RInv, Tagging, OInv, TInv, TypeOK
    <2>2. QED BY <1>1, <2>1 DEF SaveCheckpoint
  <1>2. CASE ~ SaveCheckpoint(t)
    <2>1. checkpoints' = checkpoints
      <3>1. CASE ReadSnapshot(t) BY <3>1 DEF ReadSnapshot, diskVars
      <3>2. CASE NoSnapshot(t) BY <3>2 DEF NoSnapshot, diskVars
      <3>3. CASE Found(t) BY <3>3 DEF Found, diskVars
      <3>4. CASE NotFound(t) BY <3>4 DEF NotFound, diskVars
      <3>5. CASE LoadContent(t) BY <3>5 DEF LoadContent, diskVars
      <3>6. CASE LoadUndo(t) BY <3>6 DEF LoadUndo, diskVars
      <3>7. CASE CreateFile(t) BY <3>7 DEF CreateFile, Enter, diskVars
      <3>8. CASE ReadFile(t) BY <3>8 DEF ReadFile, Enter, diskVars
      <3>9. CASE Write(t) BY <3>9 DEF Write, Enter, diskVars
      <3>10. CASE UndoFile(t) BY <3>10 DEF UndoFile, Enter, diskVars
      <3>11. CASE RevertCheckpoint(t) BY <3>11 DEF RevertCheckpoint, Enter, diskVars
      <3>12. CASE ImportFile(t) BY <3>12 DEF ImportFile, Enter, diskVars
      <3>13. CASE Checkpoint(t) BY <3>13 DEF Checkpoint, diskVars
      <3>14. CASE CheckpointFailed(t) BY <3>14 DEF CheckpointFailed, diskVars
      <3>15. CASE Refused(t) BY <3>15 DEF Refused, diskVars
      <3>16. CASE Save(t) BY <3>16 DEF Save, diskVars
      <3>17. CASE SaveFailed(t) BY <3>17 DEF SaveFailed, diskVars
      <3>18. CASE Release(t) BY <3>18 DEF Release, diskVars
      <3>19. CASE RenameContent(t) BY <3>19 DEF RenameContent, Renamed, diskVars
      <3>20. CASE RenameFailed(t) BY <3>20 DEF RenameFailed, diskVars
      <3>21. CASE RenameMeta(t) BY <3>21 DEF RenameMeta, Renamed, diskVars
      <3>22. CASE RenameUndo(t) BY <3>22 DEF RenameUndo, Renamed, diskVars
      <3>23. CASE RelabelFind(t) BY <3>23 DEF RelabelFind, diskVars
      <3>24. CASE RelabelNone(t) BY <3>24 DEF RelabelNone, diskVars
      <3>25. CASE Relabel(t) BY <3>25 DEF Relabel, diskVars
      <3>26. CASE DeleteNotFound(t) BY <3>26 DEF DeleteNotFound, diskVars
      <3>27. CASE DeleteRecord(t) BY <3>27 DEF DeleteRecord, diskVars
      <3>28. CASE Unlink(t) BY <3>28 DEF Unlink, diskVars
      <3>29. CASE Deleted(t) BY <3>29 DEF Deleted, diskVars
      <3>30. QED BY <1>2, <3>1, <3>2, <3>3, <3>4, <3>5, <3>6, <3>7, <3>8, <3>9, <3>10, <3>11,
                    <3>12, <3>13, <3>14, <3>15, <3>16, <3>17, <3>18, <3>19, <3>20, <3>21,
                                  <3>22, <3>23, <3>24, <3>25, <3>26, <3>27, <3>28,
                                                <3>29 DEF ThreadStep
    <2>2. QED BY <2>1
  <1>3. QED BY <1>1, <1>2

\* What a step of t does to the checkpoint and to the answer of t.
LEMMA AnswerStep ==
  ASSUME Calm, RInv, NEW t \in Threads, ThreadStep(t)
  PROVE  /\ pc'[t] # "idle" => \/ call'[t].snapshot = call[t].snapshot
                               \/ call'[t].snapshot = checkpoints[call[t].path]
         /\ pc'[t] = "checkpoint" => checkpoints'[call[t].path] = {}
         /\ pc'[t] # "save" => answer' = answer
         /\ \A u \in Threads \ {t} : answer'[u] = answer[u]
         /\ pc'[t] \in {"find", "load", "loadundo", "lock"} => pc[t] \in {"snapshot", "find", "load", "loadundo"}
         /\ pc'[t] # "snapshot"
  <1>1. /\ pc \in [Threads -> PCs] /\ call \in [Threads -> Call] /\ call[t] \in Call
        /\ answer \in [Threads -> Texts \cup {NoAnswer}]
    BY DEF RInv, OInv, TInv, TypeOK
  <1>2. CASE ReadSnapshot(t)
    BY <1>1, <1>2 DEF ReadSnapshot, Goto, Call
  <1>3. CASE NoSnapshot(t)
    BY <1>1, <1>3 DEF NoSnapshot, Return, Goto, Call
  <1>4. CASE Found(t)
    BY <1>1, <1>4 DEF Found, Goto, Call
  <1>5. CASE NotFound(t)
    BY <1>1, <1>5 DEF NotFound, Goto, Call
  <1>6. CASE LoadContent(t)
    BY <1>1, <1>6 DEF LoadContent, Goto, Call
  <1>7. CASE LoadUndo(t)
    BY <1>1, <1>7 DEF LoadUndo, Goto, Call
  <1>8. CASE CreateFile(t)
    BY <1>1, <1>8 DEF CreateFile, Enter, Goto, Call
  <1>9. CASE ReadFile(t)
    BY <1>1, <1>9 DEF ReadFile, Enter, Goto, Call
  <1>10. CASE Write(t)
    BY <1>1, <1>10 DEF Write, Enter, Goto, Call
  <1>11. CASE UndoFile(t)
    BY <1>1, <1>11 DEF UndoFile, Enter, Goto, Call
  <1>12. CASE RevertCheckpoint(t)
    BY <1>1, <1>12 DEF RevertCheckpoint, Enter, Goto, Call
  <1>13. CASE ImportFile(t)
    BY <1>1, <1>13 DEF ImportFile, Enter, Goto, Call
  <1>14. CASE Checkpoint(t)
    BY <1>1, <1>14 DEF Checkpoint, Goto, Call, diskVars
  <1>15. CASE SaveCheckpoint(t)
    BY <1>1, <1>15 DEF SaveCheckpoint, Goto, Call
  <1>16. CASE CheckpointFailed(t)
    BY <1>1, <1>16 DEF CheckpointFailed, Goto, Call
  <1>17. CASE Refused(t)
    BY <1>1, <1>17 DEF Refused, Return, Goto, Call
  <1>18. CASE Save(t)
    BY <1>1, <1>18 DEF Save, Goto, Call
  <1>19. CASE SaveFailed(t)
    BY <1>1, <1>19 DEF SaveFailed, Goto, Call
  <1>20. CASE Release(t)
    BY <1>1, <1>20 DEF Release, Return, Goto, Call
  <1>21. CASE RenameContent(t)
    BY <1>1, <1>21 DEF RenameContent, Renamed, Goto, Call
  <1>22. CASE RenameFailed(t)
    BY <1>1, <1>22 DEF RenameFailed, Return, Goto, Call
  <1>23. CASE RenameMeta(t)
    BY <1>1, <1>23 DEF RenameMeta, Renamed, Goto, Call
  <1>24. CASE RenameUndo(t)
    BY <1>1, <1>24 DEF RenameUndo, Renamed, Goto, Call
  <1>25. CASE RelabelFind(t)
    BY <1>1, <1>25 DEF RelabelFind, Goto, Call
  <1>26. CASE RelabelNone(t)
    BY <1>1, <1>26 DEF RelabelNone, Return, Goto, Call
  <1>27. CASE Relabel(t)
    BY <1>1, <1>27 DEF Relabel, Return, Goto, Call
  <1>28. CASE DeleteNotFound(t)
    BY <1>1, <1>28 DEF DeleteNotFound, Return, Goto, Call
  <1>29. CASE DeleteRecord(t)
    BY <1>1, <1>29 DEF DeleteRecord, Goto, Call
  <1>30. CASE Unlink(t)
    BY <1>1, <1>30 DEF Unlink, Goto, Call
  <1>31. CASE Deleted(t)
    BY <1>1, <1>31 DEF Deleted, Return, Goto, Call
  <1>32. QED BY <1>2, <1>3, <1>4, <1>5, <1>6, <1>7, <1>8, <1>9, <1>10, <1>11, <1>12, <1>13,
                <1>14, <1>15, <1>16, <1>17, <1>18, <1>19, <1>20, <1>21, <1>22, <1>23, <1>24,
                              <1>25, <1>26, <1>27, <1>28, <1>29, <1>30, <1>31 DEF ThreadStep

\* A checkpoint that was read stays and a tag that was found free stays free,
\* after every step.
LEMMA TaggingStep ==
  ASSUME Calm, RInv, NEW t \in Threads, ThreadStep(t), Advances(t), NEW u \in Threads
  PROVE  Tagging(u)'
  <1>0. /\ OInv /\ TypeOK /\ pc \in [Threads -> PCs] /\ call \in [Threads -> Call]
        /\ ShapeOf(pc[t], call[t]) /\ ShapeOf(pc[u], call[u])
    BY Ground DEF RInv, OInv, TInv
  <1>1. \A p \in Paths : checkpoints[p] \subseteq checkpoints'[p]
    BY CheckpointsKept
  <1>2. CASE u # t
    <2>1. pc'[u] = pc[u] /\ call'[u] = call[u] /\ answer'[u] = answer[u]
      BY <1>0, <1>2, AnswerStep DEF Advances
    <2>2. pc[u] = "checkpoint" => checkpoints'[call[u].path] = checkpoints[call[u].path]
      <3>1. PICK b, p : b = call[u].file /\ p = call[u].path
        OBVIOUS
      <3>2. QED BY <1>2, <3>1, SectionFrame
    <2>3. pc[u] # "idle" => call[u].path \in Paths
      BY <1>0 DEF ShapeOf
    <2>4. QED BY <1>1, <2>1, <2>2, <2>3 DEF RInv, Tagging, NoAnswer
  <1>3. CASE u = t
    <2>1. pc'[t] # "idle" => call'[t].path = call[t].path /\ pc[t] # "idle"
      BY <1>0, ContinueStep DEF Continues
    <2>2. pc[t] # "idle" => call[t].path \in Paths
      BY <1>0 DEF ShapeOf
    <2>3. Tagging(t)
      BY DEF RInv
    <2>4. pc'[t] # "idle" => call'[t].snapshot \subseteq checkpoints'[call'[t].path]
      BY <1>1, <2>1, <2>2, <2>3, AnswerStep DEF Tagging
    <2>5. pc'[t] = "checkpoint" => checkpoints'[call'[t].path] = {}
      BY <2>1, AnswerStep
    <2>6. pc'[t] \in {"snapshot", "find", "load", "loadundo", "lock"} => answer'[t] = NoAnswer
      BY <2>3, AnswerStep DEF Tagging
    <2>7. QED BY <1>3, <2>4, <2>5, <2>6 DEF Tagging, NoAnswer
  <1>4. QED BY <1>2, <1>3

\* A DELETE that has unlinked the text finds no text, after every step.
LEMMA UnlinkingStep ==
  ASSUME Calm, RInv, NEW t \in Threads, ThreadStep(t), Advances(t), NEW u \in Threads
  PROVE  Unlinking(u)'
  <1>0. /\ OInv /\ TypeOK /\ pc \in [Threads -> PCs] /\ call \in [Threads -> Call]
        /\ ShapeOf(pc[t], call[t]) /\ ShapeOf(pc[u], call[u]) /\ call[t] \in Call
        /\ disk \in [Paths -> OnDisk] /\ Continues(t)
    BY Ground, ContinueStep DEF RInv, OInv, TInv
  <1>1. SUFFICES ASSUME pc'[u] = "unlink", call'[u].todo \notin ContentLeft
                 PROVE  disk'[call'[u].path].content = {}
    <2>1. ContentLeft' = ContentLeft
      BY DEF ContentLeft
    <2>2. QED BY <2>1 DEF Unlinking
  <1>2. u = t
    <2>1. SUFFICES ASSUME u # t PROVE FALSE
      OBVIOUS
    <2>2. pc[u] = "unlink"
      BY <1>0, <1>1, <2>1 DEF Advances
    <2>3. call[u].op \in Movers
      BY <1>0, <2>2 DEF ShapeOf, Movers
    <2>4. pc[t] = "idle"
      BY <1>0, <2>1, <2>3 DEF OInv, MoverAlone
    <2>5. QED BY <1>0, <2>4 DEF Continues
  <1>3. DeleteRecord(t) \/ Unlink(t)
    <2>1. \A k, l : Goto(t, k, l) => l = "unlink"
      BY <1>0, <1>1, <1>2 DEF Goto
    <2>2. \A k : ~ Return(t, k)
      BY <2>1 DEF Return
    <2>3. ~ (ReadSnapshot(t) \/ Found(t) \/ NotFound(t) \/ LoadContent(t) \/ LoadUndo(t)
             \/ Checkpoint(t) \/ RelabelFind(t) \/ SaveCheckpoint(t) \/ CheckpointFailed(t))
      BY <2>1 DEF ReadSnapshot, Found, NotFound, LoadContent, LoadUndo, Checkpoint, RelabelFind,
         SaveCheckpoint, CheckpointFailed
    <2>4. ~ (NoSnapshot(t) \/ Refused(t) \/ Release(t) \/ RenameFailed(t) \/ RelabelNone(t)
             \/ Relabel(t) \/ DeleteNotFound(t) \/ Deleted(t))
      BY <2>2 DEF NoSnapshot, Refused, Release, RenameFailed, RelabelNone, Relabel,
         DeleteNotFound,
         Deleted
    <2>5. ~ (RenameContent(t) \/ RenameMeta(t) \/ RenameUndo(t))
      BY <2>1 DEF RenameContent, RenameMeta, RenameUndo, Renamed
    <2>6. ~ (CreateFile(t) \/ ReadFile(t) \/ Write(t) \/ UndoFile(t) \/ RevertCheckpoint(t) \/ ImportFile(t))
      BY <2>1 DEF CreateFile, ReadFile, Write, UndoFile, RevertCheckpoint, ImportFile, Enter
    <2>7. ~ (Save(t) \/ SaveFailed(t))
      BY <1>1, <1>2 DEF Save, SaveFailed
    <2>8. QED BY <2>3, <2>4, <2>5, <2>6, <2>7 DEF ThreadStep
  <1>4. CASE DeleteRecord(t)
    <2>1. call'[t].todo = <<"content", "meta", "undo">>
      BY <1>0, <1>4 DEF DeleteRecord, Call
    <2>2. QED BY <1>1, <1>2, <2>1, Lists
  <1>5. CASE Unlink(t)
    <2>1. PICK p \in Paths, part \in Parts : p = call[t].path /\ part = Head(call[t].todo)
      BY <1>0, <1>5, Lists DEF Unlink, ShapeOf
    <2>2. /\ pc[t] = "unlink" /\ call[t].todo \in SaveLeft /\ call[t].todo # <<>>
          /\ call'[t].path = p
      BY <1>0, <1>1, <1>2, <1>5, <2>1, Lists DEF Unlink, ShapeOf, Continues
    <2> DEFINE none == {}
    <2>3. Replaced(disk, disk', p, part, none)
      BY <2>1, <1>5 DEF Unlink, Replaced
    <2> HIDE DEF none
    <2>4. CASE part = "content"
      <3>1. disk'[p].content = none
        BY <1>0, <2>1, <2>3, <2>4, DiskReplaced DEF Parts
      <3>2. QED BY <1>2, <2>2, <3>1 DEF none
    <2>5. CASE part # "content"
      <3>1. disk'[p].content = disk[p].content
        BY <1>0, <2>1, <2>3, <2>5, DiskReplaced DEF Parts
      <3>2. call[t].todo \notin ContentLeft
        BY <2>1, <2>2, <2>5, Lists
      <3>3. disk[p].content = {}
        BY <2>1, <2>2, <3>2 DEF RInv, Unlinking
      <3>4. QED BY <1>2, <2>2, <3>1, <3>3
    <2>6. QED BY <2>4, <2>5
  <1>6. QED BY <1>3, <1>4, <1>5

\* Where nothing that matters changes, nothing that is said of it changes.
LEMMA RefineFrame ==
  ASSUME heap' = heap, disk' = disk, checkpoints' = checkpoints, nextText' = nextText
  PROVE  /\ Older => Older'
         /\ \A u \in Threads :
               pc'[u] = pc[u] /\ call'[u] = call[u] /\ answer'[u] = answer[u]
                 => /\ Unstored(u) => Unstored(u)'
                    /\ Replacing(u) => Replacing(u)'
                    /\ Tagging(u) => Tagging(u)'
                    /\ Unlinking(u) => Unlinking(u)'
  <1>1. \A v, b : Occurs(v, b)' <=> Occurs(v, b)
    BY DEF Occurs
  <1>2. \A p, v : TextIs(p, v)' <=> TextIs(p, v)
    BY DEF TextIs, Empty
  <1>3. /\ NoAddress' = NoAddress /\ Empty' = Empty /\ NoAnswer' = NoAnswer /\ Texts' = Texts
        /\ ContentLeft' = ContentLeft /\ UndoLeft' = UndoLeft
    BY DEF NoAddress, Empty, NoAnswer, Texts, ContentLeft, UndoLeft
  <1>4. Older => Older'
    BY <1>1, <1>3 DEF Older
  <1>5. SUFFICES ASSUME NEW u \in Threads,
                        pc'[u] = pc[u], call'[u] = call[u], answer'[u] = answer[u]
                 PROVE  /\ Unstored(u) => Unstored(u)'
                        /\ Replacing(u) => Replacing(u)'
                        /\ Tagging(u) => Tagging(u)'
                        /\ Unlinking(u) => Unlinking(u)'
    BY <1>4
  <1>6. Unstored(u) => Unstored(u)'
    BY <1>1, <1>3, <1>5 DEF Unstored
  <1>7. Replacing(u) => Replacing(u)'
    BY <1>2, <1>3, <1>5 DEF Replacing
  <1>8. Tagging(u) => Tagging(u)'
    BY <1>3, <1>5 DEF Tagging
  <1>9. Unlinking(u) => Unlinking(u)'
    BY <1>3, <1>5 DEF Unlinking
  <1>10. QED BY <1>6, <1>7, <1>8, <1>9

\* Every step keeps the third part of the invariant.
LEMMA RefineStep ==
  ASSUME Calm, RInv, [Next]_vars
  PROVE  RInv'
  <1>0. /\ OInv /\ TypeOK /\ CallShape /\ Room /\ nextText \in Nat /\ 1 <= nextText
        /\ answer \in [Threads -> Texts \cup {NoAnswer}]
    BY DEF RInv, OInv, TInv, TypeOK, TextsLeft
  <1>1. OInv'
    BY OrderlyStep DEF RInv
  <1>2. ASSUME NEW t \in Threads, ThreadStep(t) PROVE RInv'
    <2>1. Advances(t)
      BY <1>0, <1>2, ShapeStep
    <2>2. Older'
      BY <1>2, <2>1, OlderStep
    <2>3. \A u \in Threads : Unstored(u)' /\ Replacing(u)' /\ Tagging(u)' /\ Unlinking(u)'
      BY <1>2, <2>1, UnstoredStep, ReplacingStep, TaggingStep, UnlinkingStep
    <2>4. QED BY <1>1, <2>2, <2>3 DEF RInv
  <1>3. ASSUME NEW t \in Threads, NewCall(t) PROVE RInv'
    <2>1. /\ Advances(t) /\ pc'[t] \in {"find", "snapshot", "rename", "delete"}
          /\ answer' = [answer EXCEPT ![t] = NoAnswer]
          /\ heap' = heap /\ disk' = disk /\ checkpoints' = checkpoints /\ nextText' = nextText
      BY <1>0, <1>3, StartStep DEF memoryVars, diskVars
    <2>2. \A u \in Threads \ {t} : pc'[u] = pc[u] /\ call'[u] = call[u] /\ answer'[u] = answer[u]
      BY <1>0, <2>1, Ground DEF Advances
    <2>3. call'[t].snapshot = {}
      BY <1>0, <1>3, StartStep
    <2>4. Unstored(t)' /\ Replacing(t)' /\ Unlinking(t)'
      BY <2>1 DEF Unstored, Replacing, Unlinking
    <2>5. Tagging(t)'
      BY <1>0, <2>1, <2>3 DEF Tagging, NoAnswer
    <2>6. QED BY <1>1, <2>1, <2>2, <2>4, <2>5, RefineFrame DEF RInv
  <1>4. CASE Crash
    <2>1. /\ \A u \in Threads : pc'[u] = "idle" /\ call'[u] = NoCall
          /\ disk' = disk /\ checkpoints' = checkpoints /\ nextText' = nextText
          /\ \A a \in Addresses : heap'[a] = NoRecord
      BY <1>4 DEF Crash, diskVars
    <2>2. \A v : Occurs(v, NoAddress)' => Occurs(v, NoAddress) \/ v = Empty
      BY <2>1 DEF Occurs, NoRecord, NoAddress
    <2>3. NoAddress' = NoAddress
      BY DEF NoAddress
    <2>4. Older'
      BY <1>0, <2>1, <2>2, <2>3 DEF Older, RInv, Empty
    <2>5. \A u \in Threads : Unstored(u)' /\ Replacing(u)' /\ Tagging(u)' /\ Unlinking(u)'
      BY <2>1 DEF Unstored, Replacing, Unlinking, Tagging
    <2>6. QED BY <1>1, <2>4, <2>5 DEF RInv
  <1>5. CASE UNCHANGED vars
    <2>1. /\ heap' = heap /\ disk' = disk /\ checkpoints' = checkpoints /\ nextText' = nextText
          /\ pc' = pc /\ call' = call /\ answer' = answer
      BY <1>5 DEF vars
    <2>2. QED BY <1>1, <2>1, RefineFrame DEF RInv
  <1>6. QED BY <1>2, <1>3, <1>4, <1>5 DEF Next

\* The third part of the invariant holds before the first step.
LEMMA RefineInit ==
  ASSUME Init
  PROVE  RInv
  <1>1. OInv
    BY OrderlyInit
  <1>2. /\ \A u \in Threads : pc[u] = "idle"
        /\ \A p \in Paths : disk[p] = NotOnDisk /\ checkpoints[p] = {}
        /\ \A a \in Addresses : heap[a] = NoRecord
        /\ nextText = 1
    BY DEF Init
  <1>3. \A v : Occurs(v, NoAddress) => v = Empty
    BY <1>2 DEF Occurs, NotOnDisk, NoRecord
  <1>4. Older
    BY <1>2, <1>3 DEF Older, Empty
  <1>5. \A u \in Threads : Unstored(u) /\ Replacing(u) /\ Tagging(u) /\ Unlinking(u)
    BY <1>2 DEF Unstored, Replacing, Unlinking, Tagging
  <1>6. QED BY <1>1, <1>4, <1>5 DEF RInv

-----------------------------------------------------------------------------
(* The steps of the engine are steps of the store.                         *)

\* Steps that leave the names other than p alone.
OthersSame(p) ==
    \A q \in Paths \ {p} : /\ disk'[q].content = disk[q].content /\ disk'[q].undo = disk[q].undo
                           /\ HalfChanged(q)' = HalfChanged(q)

TextSame(p) == disk'[p].content = disk[p].content
UndoSame(p) == disk'[p].undo = disk[p].undo
HalfSame(p) == HalfChanged(p)' = HalfChanged(p)

\* A name reads as the text that TextIs finds under it.
LEMMA TextRead ==
  ASSUME NEW p \in Paths, NEW v, TextIs(p, v)
  PROVE  Store!TextOf(p) = {v}
  BY DEF Store!TextOf, TextIs

\* Where texts, snapshots, half changes, checkpoints and answers stay, the
\* store stutters.
LEMMA StoreStutter ==
  ASSUME \A p \in Paths : TextSame(p) /\ UndoSame(p) /\ HalfSame(p),
         checkpoints' = checkpoints, answer' = answer
  PROVE  UNCHANGED Store!storeVars
  BY DEF Store!storeVars, TextSame, UndoSame, HalfSame

\* A file that appears with the empty text: Create, in the store.
LEMMA StoreCreate ==
  ASSUME NEW p \in Paths, OthersSame(p), TextIs(p, Empty), disk'[p].content = {Empty},
         UndoSame(p), HalfSame(p), checkpoints' = checkpoints, answer' = answer
  PROVE  Store!StoreNext
  <1>1. Store!TextOf(p) = {Empty}
    BY TextRead
  <1>2. Store!Create(p)
    BY <1>1 DEF Store!Create, OthersSame, UndoSame, HalfSame
  <1>3. QED BY <1>2 DEF Store!StoreNext

\* A new text that replaces another one, before its snapshot is there: Change,
\* in the store.
LEMMA StoreChange ==
  ASSUME NEW p \in Paths, NEW v \in Texts, NEW w, OthersSame(p),
         ~ Store!Stored(v) \/ v \in disk[p].undo \/ v \in checkpoints[p],
         TextIs(p, w), disk'[p].content = {v},
         UndoSame(p), HalfChanged(p) = {}, HalfChanged(p)' = {w},
         checkpoints' = checkpoints, answer' = answer
  PROVE  Store!StoreNext
  <1>1. Store!TextOf(p) = {w}
    BY TextRead
  <1>2. Store!Change(p, v)
    BY <1>1 DEF Store!Change, OthersSame, UndoSame, HalfSame
  <1>3. QED BY <1>2 DEF Store!StoreNext

\* The snapshot of a change becomes durable: the second half of a change, in
\* the store.
LEMMA StoreSnapshot ==
  ASSUME NEW p \in Paths, OthersSame(p), TextSame(p), HalfChanged(p) # {},
         disk'[p].undo = HalfChanged(p), HalfChanged(p)' = {},
         checkpoints' = checkpoints, answer' = answer
  PROVE  Store!StoreNext
  <1>1. Store!Snapshot(p)
    BY DEF Store!Snapshot, OthersSame, TextSame
  <1>2. QED BY <1>1 DEF Store!StoreNext

\* A text that comes from another server, in the store.
LEMMA StoreImport ==
  ASSUME NEW p \in Paths, NEW v \in Texts, OthersSame(p), ~ Store!Stored(v),
         disk'[p].content = {v}, UndoSame(p), HalfSame(p),
         checkpoints' = checkpoints, answer' = answer
  PROVE  Store!StoreNext
  <1>1. Store!Import(p, v)
    BY DEF Store!Import, OthersSame, UndoSame, HalfSame
  <1>2. QED BY <1>1 DEF Store!StoreNext

\* The text of a file becomes its checkpoint, in the store.
LEMMA StoreCheckpoint ==
  ASSUME NEW p \in Paths, NEW v, \A q \in Paths : TextSame(q) /\ UndoSame(q) /\ HalfSame(q),
         checkpoints[p] = {}, HalfChanged(p) = {}, TextIs(p, v),
         checkpoints' = [checkpoints EXCEPT ![p] = {v}], answer' = answer
  PROVE  Store!StoreNext
  <1>1. Store!TextOf(p) = {v}
    BY TextRead
  <1>2. Store!Checkpoint(p)
    BY <1>1 DEF Store!Checkpoint, TextSame, UndoSame, HalfSame
  <1>3. QED BY <1>2 DEF Store!StoreNext

\* A reader gets the text of the file, in the store.
LEMMA StoreRead ==
  ASSUME NEW p \in Paths, NEW r \in Threads, NEW v,
         \A q \in Paths : TextSame(q) /\ UndoSame(q) /\ HalfSame(q),
         answer[r] = NoAnswer, HalfChanged(p) = {}, TextIs(p, v),
         answer' = [answer EXCEPT ![r] = v], checkpoints' = checkpoints
  PROVE  Store!StoreNext
  <1>1. Store!TextOf(p) = {v}
    BY TextRead
  <1>2. (CHOOSE x \in Store!TextOf(p) : TRUE) = v
    BY <1>1
  <1>3. Store!Read(r, p)
    BY <1>2 DEF Store!Read, TextSame, UndoSame, HalfSame
  <1>4. QED BY <1>3 DEF Store!StoreNext

\* A thread that calls again has no answer yet, in the store.
LEMMA StoreAsk ==
  ASSUME NEW r \in Threads, \A q \in Paths : TextSame(q) /\ UndoSame(q) /\ HalfSame(q),
         answer' = [answer EXCEPT ![r] = NoAnswer], checkpoints' = checkpoints
  PROVE  Store!StoreNext
  <1>1. Store!Ask(r)
    BY DEF Store!Ask, TextSame, UndoSame, HalfSame
  <1>2. QED BY <1>1 DEF Store!StoreNext

\* The text goes to the new name, in the store.
LEMMA StoreMoveText ==
  ASSUME NEW p \in Paths, NEW q \in Paths, p # q, disk[p].content # {}, disk[q].content = {},
         disk'[p].content = {}, disk'[q].content = disk[p].content,
         \A x \in Paths \ {p, q} : TextSame(x), \A x \in Paths : UndoSame(x) /\ HalfSame(x),
         checkpoints' = checkpoints, answer' = answer
  PROVE  Store!StoreNext
  <1>1. Store!MoveText(p, q)
    BY DEF Store!MoveText, TextSame, UndoSame, HalfSame
  <1>2. QED BY <1>1 DEF Store!StoreNext

\* The snapshot follows the text, in the store.
LEMMA StoreMoveUndo ==
  ASSUME NEW p \in Paths, NEW q \in Paths, p # q, disk[p].content = {}, disk[p].undo # {},
         disk'[p].undo = {}, disk'[q].undo = disk[p].undo,
         \A x \in Paths \ {p, q} : UndoSame(x), \A x \in Paths : TextSame(x) /\ HalfSame(x),
         checkpoints' = checkpoints, answer' = answer
  PROVE  Store!StoreNext
  <1>1. Store!MoveUndo(p, q)
    BY DEF Store!MoveUndo, TextSame, UndoSame, HalfSame
  <1>2. QED BY <1>1 DEF Store!StoreNext

\* The text goes, and after it the snapshot, in the store.
LEMMA StoreDrop ==
  ASSUME NEW p \in Paths, OthersSame(p), HalfSame(p), checkpoints' = checkpoints, answer' = answer,
         \/ disk'[p].content = {} /\ UndoSame(p)
         \/ disk[p].content = {} /\ disk'[p].undo = {} /\ TextSame(p)
  PROVE  Store!StoreNext
  <1>1. CASE disk'[p].content = {} /\ UndoSame(p)
    <2>1. Store!DropText(p)
      BY <1>1 DEF Store!DropText, OthersSame, UndoSame, HalfSame
    <2>2. QED BY <2>1 DEF Store!StoreNext
  <1>2. CASE disk[p].content = {} /\ disk'[p].undo = {} /\ TextSame(p)
    <2>1. Store!DropUndo(p)
      BY <1>2 DEF Store!DropUndo, OthersSame, TextSame, HalfSame
    <2>2. QED BY <2>1 DEF Store!StoreNext
  <1>3. QED BY <1>1, <1>2

\* A call is between the text and the snapshot of its change of p.
HalfLists == {<<"meta", "undo">>, <<"undo">>}

Half(u, p) ==
    /\ pc[u] = "save" /\ call[u].op \in {"WRITE", "UNDO", "REVERT"}
    /\ call[u].todo \in HalfLists
    /\ heap[call[u].file].filename = p

\* What HalfChanged holds, before and after a step: the snapshots that calls
\* have still to write.
LEMMA HalfMembers ==
  ASSUME NEW p, NEW x
  PROVE  /\ x \in HalfChanged(p)
              <=> \E u \in Threads : Half(u, p) /\ x \in heap[call[u].file].undo
         /\ x \in HalfChanged(p)'
              <=> \E u \in Threads : Half(u, p)' /\ x \in heap'[call'[u].file].undo
  BY DEF HalfChanged, Half, HalfLists

\* Only the thread that steps may begin or end a change.
LEMMA HalfFrame ==
  ASSUME Calm, RInv, NEW t \in Threads, ThreadStep(t), Advances(t),
         NEW u \in Threads, u # t, NEW p
  PROVE  /\ Half(u, p)' <=> Half(u, p)
         /\ Half(u, p) => heap'[call'[u].file].undo = heap[call[u].file].undo
  <1>1. pc'[u] = pc[u] /\ call'[u] = call[u]
    BY Ground DEF Advances, RInv
  <1>2. HalfLists' = HalfLists
    BY DEF HalfLists
  <1>3. pc[u] = "save" => heap'[call[u].file] = heap[call[u].file]
    <2>1. PICK b, q : b = call[u].file /\ q = call[u].path
      OBVIOUS
    <2>2. QED BY <2>1, SectionFrame
  <1>4. QED BY <1>1, <1>2, <1>3 DEF Half

\* One call at a time changes a file.
LEMMA HalfAlone ==
  ASSUME OInv, NEW t \in Threads, pc[t] \in {"save", "checkpoint"},
         NEW p, p = heap[call[t].file].filename, NEW u \in Threads, u # t
  PROVE  ~ Half(u, p)
  <1>1. SUFFICES ASSUME Half(u, p) PROVE FALSE
    OBVIOUS
  <1>2. /\ call[t].file \in Live /\ call[u].file \in Live
        /\ file_mutex[call[t].file] = t /\ file_mutex[call[u].file] = u
    BY <1>1 DEF Half, OInv, MInv, Held, FileHeld
  <1>3. call[t].file = call[u].file
    BY <1>1, <1>2 DEF Half, OInv, MInv, Names
  <1>4. QED BY <1>2, <1>3

\* Nobody is in a section of the file whose mutex is free.
LEMMA HalfFree ==
  ASSUME OInv, NEW t \in Threads, pc[t] = "lock", file_mutex[call[t].file] = NoThread,
         NEW p, p = call[t].path
  PROVE  HalfChanged(p) = {}
  <1>1. \A u \in Threads : ~ Half(u, p)
    <2>1. SUFFICES ASSUME NEW u \in Threads, Half(u, p) PROVE FALSE
      OBVIOUS
    <2>2. /\ call[t].file \in Live /\ call[u].file \in Live /\ file_mutex[call[u].file] = u
          /\ heap[call[t].file].filename = p
      BY <2>1 DEF Half, OInv, MInv, Held, FileHeld
    <2>3. call[t].file = call[u].file
      BY <2>1, <2>2 DEF Half, OInv, MInv, Names
    <2>4. QED BY <2>2, <2>3, EngineAssumption
  <1>2. QED BY <1>1, HalfMembers

\* Only Save begins or ends a change.
LEMMA HalfQuiet ==
  ASSUME Calm, RInv, NEW t \in Threads, ThreadStep(t), Advances(t), ~ Save(t), NEW p
  PROVE  HalfSame(p)
  <1>0. /\ OInv /\ TypeOK /\ pc \in [Threads -> PCs] /\ call \in [Threads -> Call]
        /\ call[t] \in Call /\ ShapeOf(pc[t], call[t])
    BY Ground DEF RInv, OInv, TInv
  <1>1. ~ Half(t, p)
    <2>1. SUFFICES ASSUME pc[t] = "save", call[t].todo # <<>> PROVE FALSE
      BY DEF Half, HalfLists
    <2>2. Save(t)
      <3>1. \A k, l : Goto(t, k, l) => k = "save"
        BY <2>1 DEF Goto
      <3>2. \A k : Return(t, k) => k = "save"
        BY <3>1 DEF Return
      <3>3. ~ (ReadSnapshot(t) \/ Found(t) \/ NotFound(t) \/ LoadContent(t) \/ LoadUndo(t)
               \/ Checkpoint(t) \/ RelabelFind(t) \/ SaveCheckpoint(t) \/ CheckpointFailed(t)
               \/ DeleteRecord(t))
        BY <3>1 DEF ReadSnapshot, Found, NotFound, LoadContent, LoadUndo, Checkpoint,
           RelabelFind,
           SaveCheckpoint, CheckpointFailed, DeleteRecord
      <3>4. ~ (NoSnapshot(t) \/ Refused(t) \/ RenameFailed(t) \/ RelabelNone(t)
               \/ Relabel(t) \/ DeleteNotFound(t) \/ Deleted(t))
        BY <3>2 DEF NoSnapshot, Refused, RenameFailed, RelabelNone, Relabel, DeleteNotFound,
           Deleted
      <3>5. ~ (RenameContent(t) \/ RenameMeta(t) \/ RenameUndo(t))
        BY <3>1 DEF RenameContent, RenameMeta, RenameUndo, Renamed
      <3>6. ~ (CreateFile(t) \/ ReadFile(t) \/ Write(t) \/ UndoFile(t) \/ RevertCheckpoint(t) \/ ImportFile(t))
        BY <3>1 DEF CreateFile, ReadFile, Write, UndoFile, RevertCheckpoint, ImportFile, Enter
      <3>7. ~ (SaveFailed(t) \/ Unlink(t) \/ Release(t))
        BY <2>1 DEF SaveFailed, Unlink, Release, Calm
      <3>8. QED BY <3>3, <3>4, <3>5, <3>6, <3>7 DEF ThreadStep
    <2>3. QED BY <2>2
  <1>2. ~ Half(t, p)'
    <2>1. SUFFICES ASSUME pc'[t] = "save" PROVE call'[t].todo \notin HalfLists
      <3>1. HalfLists' = HalfLists
        BY DEF HalfLists
      <3>2. QED BY <3>1 DEF Half
    <2>2. call'[t].todo \in {<<>>, <<"meta">>, <<"content", "meta">>, <<"content", "meta", "undo">>}
      <3>1. CASE SaveCheckpoint(t)
        BY <1>0, <3>1 DEF SaveCheckpoint, Goto, ShapeOf
      <3>2. ASSUME NEW op, NEW l, Enter(t, op, l) PROVE call'[t].todo = l
        BY <1>0, <3>2 DEF Enter, Call
      <3>3. CASE CreateFile(t) \/ ReadFile(t)
        BY <3>2, <3>3 DEF CreateFile, ReadFile
      <3>4. CASE Write(t) \/ UndoFile(t)
        BY <3>2, <3>4 DEF Write, UndoFile
      <3>5. CASE RevertCheckpoint(t) \/ ImportFile(t)
        BY <3>2, <3>5 DEF RevertCheckpoint, ImportFile
      <3>6. QED BY <1>0, <2>1, <3>1, <3>3, <3>4, <3>5, SectionSteps
    <2>3. QED BY <2>2 DEF HalfLists
  <1>3. \A u \in Threads \ {t} :
           /\ Half(u, p)' <=> Half(u, p)
           /\ Half(u, p) => heap'[call'[u].file].undo = heap[call[u].file].undo
    BY HalfFrame
  <1>4. \A x : x \in HalfChanged(p)' <=> x \in HalfChanged(p)
    BY <1>1, <1>2, <1>3, HalfMembers
  <1>5. QED BY <1>4 DEF HalfSame

\* Which files are left when a change is half done: the text is written and its
\* snapshot is not.
LEMMA HalfListFacts ==
  ASSUME NEW s \in SaveLeft, s # <<>>
  PROVE
     /\ Head(s) = "content" => /\ s \in ContentLeft /\ s \notin HalfLists
                               /\ Tail(s) \in HalfLists <=> s \in UndoLeft
     /\ Head(s) = "meta" => (s \in HalfLists <=> Tail(s) \in HalfLists)
     /\ Head(s) = "undo" => s \in HalfLists /\ s \in UndoLeft /\ Tail(s) \notin HalfLists
     /\ s \in HalfLists \/ Tail(s) \in HalfLists => s \in UndoLeft
  <1>1. CASE s = <<"content", "meta">>
    BY <1>1 DEF SaveLeft, UndoLeft, ContentLeft, HalfLists
  <1>2. CASE s = <<"content", "meta", "undo">>
    BY <1>2 DEF SaveLeft, UndoLeft, ContentLeft, HalfLists
  <1>3. CASE s = <<"meta", "undo">>
    BY <1>3 DEF SaveLeft, UndoLeft, ContentLeft, HalfLists
  <1>4. CASE s = <<"meta">>
    BY <1>4 DEF SaveLeft, UndoLeft, ContentLeft, HalfLists
  <1>5. CASE s = <<"undo">>
    BY <1>5 DEF SaveLeft, UndoLeft, ContentLeft, HalfLists
  <1>6. QED BY <1>1, <1>2, <1>3, <1>4, <1>5 DEF SaveLeft, UndoLeft, ContentLeft

\* A text that does not occur is not stored.
LEMMA NotStored ==
  ASSUME OInv, NEW b, NEW v, ~ Occurs(v, b)
  PROVE  ~ Store!Stored(v)
  <1>1. SUFFICES ASSUME NEW p \in Paths, v \in HalfChanged(p) PROVE FALSE
    BY DEF Store!Stored, Occurs
  <1>2. PICK u \in Threads : Half(u, p) /\ v \in heap[call[u].file].undo
    BY <1>1, HalfMembers
  <1>3. call[u].file \in Addresses
    BY <1>2, Ground DEF Half, ShapeOf, WithFile
  <1>4. QED BY <1>2, <1>3 DEF Occurs

\* Writing one file of a record is a change, its snapshot, a creation, an
\* import or nothing, to the store.
LEMMA SaveRefines ==
  ASSUME Calm, RInv, NEW t \in Threads, Save(t), Advances(t)
  PROVE  Store!StoreNext \/ UNCHANGED Store!storeVars
  <1>0. /\ OInv /\ TypeOK /\ pc \in [Threads -> PCs] /\ call \in [Threads -> Call]
        /\ call[t] \in Call /\ ShapeOf(pc[t], call[t]) /\ pc[t] = "save"
        /\ disk \in [Paths -> OnDisk] /\ heap \in [Addresses -> Record]
        /\ ThreadStep(t) /\ Replacing(t) /\ Unstored(t)
    BY Ground DEF RInv, OInv, TInv, Save, ThreadStep
  <1>1. PICK a \in Addresses, p \in Paths, part \in Parts, s \in SaveLeft, op \in Opcodes :
           /\ a = call[t].file /\ p = heap[a].filename /\ p = call[t].path
           /\ s = call[t].todo /\ s # <<>> /\ part = Head(s) /\ op = call[t].op
    <2>1. call[t].file \in Addresses /\ call[t].todo \in SaveLeft /\ call[t].todo # <<>>
      BY <1>0 DEF Save, ShapeOf, WithFile
    <2>2. heap[call[t].file].filename = call[t].path /\ call[t].path \in Paths
      BY <1>0, Ground DEF ShapeOf, OInv, MInv, Held
    <2>3. Head(call[t].todo) \in Parts
      BY <2>1, Lists
    <2>4. call[t].op \in Opcodes
      BY <1>0 DEF ShapeOf, Call
    <2>5. QED BY <2>1, <2>2, <2>3, <2>4
  <1> DEFINE x == SavedPart(part, heap[a], disk[p])
  <1>2. /\ Replaced(disk, disk', p, part, x)
        /\ heap' = heap /\ checkpoints' = checkpoints /\ answer' = answer
        /\ pc'[t] = "save" /\ call'[t].op = op /\ call'[t].file = a /\ call'[t].todo = Tail(s)
    BY <1>0, <1>1 DEF Save, memoryVars, Replaced, Call
  <1>3. /\ part = "undo" => x = heap[a].undo
        /\ part # "undo" => x = {heap[a].content}
    BY DEF SavedPart
  <1> HIDE DEF x
  <1>4. /\ \A q \in Paths \ {p} : disk'[q] = disk[q]
        /\ part = "content" => disk'[p].content = x /\ UndoSame(p)
        /\ part = "meta" => TextSame(p) /\ UndoSame(p)
        /\ part = "undo" => TextSame(p) /\ disk'[p].undo = x
    BY <1>0, <1>2, DiskReplaced DEF TextSame, UndoSame
  <1> DEFINE Changes == op \in {"WRITE", "UNDO", "REVERT"}
  <1>5. \A q : /\ Half(t, q) <=> Changes /\ s \in HalfLists /\ q = p
               /\ Half(t, q)' <=> Changes /\ Tail(s) \in HalfLists /\ q = p
    <2>1. HalfLists' = HalfLists
      BY DEF HalfLists
    <2>2. QED BY <1>0, <1>1, <1>2, <2>1 DEF Half
  <1>6. \A q : \A u \in Threads \ {t} :
           /\ Half(u, q)' <=> Half(u, q)
           /\ Half(u, q) => heap'[call'[u].file].undo = heap[call[u].file].undo
    BY <1>0, HalfFrame
  <1>7. \A u \in Threads \ {t} : ~ Half(u, p)
    BY <1>0, <1>1, HalfAlone
  <1>8. \A q : q # p => HalfSame(q)
    <2>1. SUFFICES ASSUME NEW q, q # p PROVE HalfSame(q)
      OBVIOUS
    <2>2. ~ Half(t, q) /\ ~ Half(t, q)'
      BY <1>5, <2>1
    <2>3. \A y : y \in HalfChanged(q)' <=> y \in HalfChanged(q)
      BY <1>6, <2>2, HalfMembers
    <2>4. QED BY <2>3 DEF HalfSame
  <1>9. OthersSame(p)
    BY <1>4, <1>8 DEF OthersSame, HalfSame
  <1>10. /\ Changes /\ s \in HalfLists => HalfChanged(p) = heap[a].undo
         /\ ~ (Changes /\ s \in HalfLists) => HalfChanged(p) = {}
    <2>1. \A y : y \in HalfChanged(p) <=> Changes /\ s \in HalfLists /\ y \in heap[a].undo
      BY <1>1, <1>5, <1>7, HalfMembers
    <2>2. QED BY <2>1
  <1>11. /\ Changes /\ Tail(s) \in HalfLists => HalfChanged(p)' = heap[a].undo
         /\ ~ (Changes /\ Tail(s) \in HalfLists) => HalfChanged(p)' = {}
    <2>1. \A y : y \in HalfChanged(p)' <=> Changes /\ Tail(s) \in HalfLists /\ y \in heap[a].undo
      BY <1>2, <1>5, <1>6, <1>7, HalfMembers
    <2>2. QED BY <2>1
  <1>12. CASE part = "content"
    <2>1. s \in ContentLeft /\ s \notin HalfLists /\ (Tail(s) \in HalfLists <=> s \in UndoLeft)
      BY <1>1, <1>12, HalfListFacts
    <2>2. /\ op \in {"CREATE", "WRITE", "UNDO", "REVERT", "IMPORT"}
          /\ op \in {"CREATE", "IMPORT"} <=> s \notin UndoLeft
          /\ op = "CREATE" => heap[a].content = Empty /\ TextIs(p, Empty)
          /\ op = "UNDO" => heap[a].content \in disk[p].undo
          /\ op = "REVERT" => heap[a].content \in checkpoints[p]
      BY <1>0, <1>1, <2>1 DEF Replacing
    <2>3. PICK v \in Texts : v = heap[a].content /\ disk'[p].content = {v}
      BY <1>0, <1>3, <1>4, <1>12 DEF Record
    <2>4. HalfChanged(p) = {} /\ UndoSame(p)
      BY <1>4, <1>10, <1>12, <2>1
    <2>5. op \in {"WRITE", "IMPORT"} => ~ Store!Stored(v)
      <3>1. op \in {"WRITE", "IMPORT"} => ~ Occurs(v, a)
        BY <1>0, <1>1, <2>1, <2>3 DEF Unstored
      <3>2. QED BY <1>0, <3>1, NotStored
    <2>6. CASE op \in {"CREATE", "IMPORT"}
      <3>1. HalfSame(p)
        BY <1>11, <2>4, <2>6 DEF HalfSame
      <3>2. CASE op = "CREATE"
        <4>1. v = Empty /\ TextIs(p, Empty)
          BY <2>2, <2>3, <3>2
        <4>2. QED BY <1>2, <1>9, <2>3, <2>4, <3>1, <4>1, StoreCreate
      <3>3. CASE op = "IMPORT"
        BY <1>2, <1>9, <2>3, <2>4, <2>5, <3>1, <3>3, StoreImport
      <3>4. QED BY <2>6, <3>2, <3>3
    <2>7. CASE Changes
      <3>1. s \in UndoLeft
        BY <2>2, <2>7
      <3>2. PICK w \in Texts : heap[a].undo = {w} /\ TextIs(p, w)
        BY <1>0, <1>1, <2>1, <3>1 DEF Replacing
      <3>3. HalfChanged(p)' = {w}
        BY <1>11, <2>1, <2>7, <3>1, <3>2
      <3>4. ~ Store!Stored(v) \/ v \in disk[p].undo \/ v \in checkpoints[p]
        BY <2>2, <2>3, <2>5, <2>7
      <3>5. QED BY <1>2, <1>9, <2>3, <2>4, <3>2, <3>3, <3>4, StoreChange
    <2>8. QED BY <2>2, <2>6, <2>7
  <1>13. CASE part = "meta"
    <2>1. s \in HalfLists <=> Tail(s) \in HalfLists
      BY <1>1, <1>13, HalfListFacts
    <2>2. HalfSame(p)
      BY <1>10, <1>11, <2>1 DEF HalfSame
    <2>3. \A q \in Paths : TextSame(q) /\ UndoSame(q) /\ HalfSame(q)
      BY <1>4, <1>8, <1>13, <2>2 DEF TextSame, UndoSame
    <2>4. QED BY <1>2, <2>3, StoreStutter
  <1>14. CASE part = "undo"
    <2>1. s \in HalfLists /\ s \in UndoLeft /\ Tail(s) \notin HalfLists
      BY <1>1, <1>14, HalfListFacts
    <2>2. Changes /\ \E w \in Texts : heap[a].undo = {w}
      BY <1>0, <1>1, <2>1 DEF Replacing
    <2>3. HalfChanged(p) = heap[a].undo /\ HalfChanged(p)' = {} /\ HalfChanged(p) # {}
      BY <1>10, <1>11, <2>1, <2>2
    <2>4. QED BY <1>2, <1>3, <1>4, <1>9, <1>14, <2>3, StoreSnapshot
  <1>15. QED BY <1>12, <1>13, <1>14 DEF Parts

\* A step that changes nothing on disk and gives no answer does not show.
LEMMA QuietRefines ==
  ASSUME Calm, RInv, NEW t \in Threads, ThreadStep(t), Advances(t), ~ Save(t),
         disk' = disk, checkpoints' = checkpoints, answer' = answer
  PROVE  UNCHANGED Store!storeVars
  <1>1. \A p \in Paths : TextSame(p) /\ UndoSame(p) /\ HalfSame(p)
    BY HalfQuiet DEF TextSame, UndoSame
  <1>2. QED BY <1>1, StoreStutter

\* A READ answers with the text of the store.
LEMMA ReadRefines ==
  ASSUME Calm, RInv, NEW t \in Threads, ReadFile(t), Advances(t)
  PROVE  Store!StoreNext
  <1>1. /\ OInv /\ ThreadStep(t) /\ ~ Save(t) /\ pc[t] = "lock"
        /\ file_mutex[call[t].file] = NoThread
    BY DEF RInv, ThreadStep, Save, ReadFile, Enter, Goto
  <1>2. PICK p \in Paths, v \in Texts : /\ p = call[t].path /\ v = Content(t) /\ TextIs(p, v)
    BY <1>1, Settled DEF Content, Record
  <1>3. HalfChanged(p) = {}
    BY <1>1, <1>2, HalfFree
  <1>4. \A q \in Paths : TextSame(q) /\ UndoSame(q) /\ HalfSame(q)
    BY <1>1, HalfQuiet DEF TextSame, UndoSame, ReadFile, Enter, diskVars
  <1>5. answer[t] = NoAnswer
    BY <1>1 DEF RInv, Tagging
  <1>6. answer' = [answer EXCEPT ![t] = v] /\ checkpoints' = checkpoints
    BY <1>2 DEF ReadFile, Enter, diskVars
  <1>7. QED BY <1>2, <1>3, <1>4, <1>5, <1>6, StoreRead

\* A checkpoint is taken of the text of the store.
LEMMA CheckpointRefines ==
  ASSUME Calm, RInv, NEW t \in Threads, SaveCheckpoint(t), Advances(t)
  PROVE  Store!StoreNext
  <1>1. /\ OInv /\ ThreadStep(t) /\ ~ Save(t) /\ pc[t] = "checkpoint"
        /\ ShapeOf(pc[t], call[t]) /\ heap \in [Addresses -> Record]
    BY Ground DEF RInv, ThreadStep, Save, SaveCheckpoint, Goto
  <1>2. PICK a \in Live, p \in Paths, v \in Texts :
           a = call[t].file /\ p = call[t].path /\ heap[a].filename = p /\ v = heap[a].content
    <2>1. /\ call[t].file \in Live /\ heap[call[t].file].filename = call[t].path
          /\ call[t].path \in Paths
      BY <1>1 DEF OInv, MInv, Held, ShapeOf
    <2>2. heap[call[t].file].content \in Texts
      BY <1>1, <2>1, Ground DEF Record
    <2>3. QED BY <2>1, <2>2
  <1>3. TextIs(p, v)
    <2>1. call[t].op \notin Movers
      BY <1>1 DEF ShapeOf, Movers
    <2>2. \A u \in Threads : pc[u] = "save" => call[u].file # a
      BY <1>1, <1>2 DEF OInv, FileHeld
    <2>3. \A u \in Threads : ~ ContentUnsaved(u, a)
      BY <1>1, <2>1, <2>2, NoMover DEF ContentUnsaved
    <2>4. QED BY <1>1, <1>2, <2>3 DEF OInv, MInv, ContentSaved
  <1>4. HalfChanged(p) = {}
    <2>1. \A u \in Threads : ~ Half(u, p)
      <3>1. ~ Half(t, p)
        BY <1>1 DEF Half
      <3>2. QED BY <1>1, <1>2, <3>1, HalfAlone
    <2>2. QED BY <2>1, HalfMembers
  <1>5. \A q \in Paths : TextSame(q) /\ UndoSame(q) /\ HalfSame(q)
    BY <1>1, HalfQuiet DEF TextSame, UndoSame, SaveCheckpoint
  <1>6. checkpoints[p] = {}
    BY <1>1, <1>2 DEF RInv, Tagging
  <1>7. checkpoints' = [checkpoints EXCEPT ![p] = {v}] /\ answer' = answer
    BY <1>2 DEF SaveCheckpoint, Content
  <1>8. QED BY <1>3, <1>4, <1>5, <1>6, <1>7, StoreCheckpoint

\* The renames of a MOVE are the two moves of the store.
LEMMA MoveRefines ==
  ASSUME Calm, RInv, NEW t \in Threads, Advances(t),
         RenameContent(t) \/ RenameMeta(t) \/ RenameUndo(t)
  PROVE  Store!StoreNext \/ UNCHANGED Store!storeVars
  <1>1. /\ OInv /\ ThreadStep(t) /\ ~ Save(t) /\ pc[t] = "rename" /\ ShapeOf(pc[t], call[t])
        /\ disk \in [Paths -> OnDisk]
    BY Ground DEF RInv, ThreadStep, Save, RenameContent, RenameMeta, RenameUndo, Renamed, Goto
  <1>2. PICK p \in Paths, q \in Paths : p = call[t].path /\ q = call[t].dest
    BY <1>1 DEF ShapeOf
  <1>3. Moving(t) /\ call[t].op = "MOVE"
    BY <1>1 DEF RInv, OInv, MInv, ShapeOf
  <1>4. p # q /\ disk[q].undo = {}
    BY <1>1, <1>2, <1>3 DEF Moving, UndoMoved
  <1>5. \A x \in Paths : HalfSame(x)
    BY <1>1, HalfQuiet
  <1>6. checkpoints' = checkpoints /\ answer' = answer
    BY DEF RenameContent, RenameMeta, RenameUndo, Renamed
  <1>7. CASE RenameContent(t)
    <2>1. disk[p].content # {} /\ disk[q].content = {} /\ disk' = RenamePart(p, q, "content")
      BY <1>1, <1>2, <1>3, <1>7 DEF RenameContent, Renamed, Moving, ContentMoved
    <2>2. /\ disk'[p].content = {} /\ disk'[q].content = disk[p].content
          /\ \A x \in Paths \ {p, q} : TextSame(x)
          /\ \A x \in Paths : UndoSame(x)
      BY <1>1, <1>4, <2>1 DEF RenamePart, OnDisk, TextSame, UndoSame
    <2>3. QED BY <1>4, <1>5, <1>6, <2>1, <2>2, StoreMoveText
  <1>8. CASE RenameMeta(t)
    <2>1. \A x \in Paths : TextSame(x) /\ UndoSame(x)
      BY <1>1, <1>2, <1>8, MetaRenamed DEF RenameMeta, Renamed, TextSame, UndoSame
    <2>2. QED BY <1>5, <1>6, <2>1, StoreStutter
  <1>9. CASE RenameUndo(t)
    <2>1. disk[p].content = {} /\ disk' = RenamePart(p, q, "undo")
      <3>1. ContentMoved(t)
        BY <1>1, <1>9 DEF RenameUndo, ContentMoved
      <3>2. QED BY <1>2, <1>3, <1>9, <3>1 DEF RenameUndo, Renamed, Moving
    <2>2. CASE disk[p].undo = {}
      <3>1. disk' = disk
        BY <2>1, <2>2 DEF RenamePart
      <3>2. QED BY <1>1, <1>6, <3>1, QuietRefines
    <2>3. CASE disk[p].undo # {}
      <3>1. /\ disk'[p].undo = {} /\ disk'[q].undo = disk[p].undo
            /\ \A x \in Paths \ {p, q} : UndoSame(x)
            /\ \A x \in Paths : TextSame(x)
        BY <1>1, <1>4, <2>1, <2>3 DEF RenamePart, OnDisk, TextSame, UndoSame
      <3>2. QED BY <1>4, <1>5, <1>6, <2>1, <2>3, <3>1, StoreMoveUndo
    <2>4. QED BY <2>2, <2>3
  <1>10. QED BY <1>7, <1>8, <1>9

\* The unlinks of a DELETE are the drops of the store.
LEMMA UnlinkRefines ==
  ASSUME Calm, RInv, NEW t \in Threads, Unlink(t), Advances(t)
  PROVE  Store!StoreNext \/ UNCHANGED Store!storeVars
  <1>1. /\ OInv /\ ThreadStep(t) /\ ~ Save(t) /\ pc[t] = "unlink" /\ ShapeOf(pc[t], call[t])
        /\ disk \in [Paths -> OnDisk] /\ call[t].todo # <<>>
    BY Ground DEF RInv, ThreadStep, Save, Unlink
  <1>2. PICK p \in Paths, part \in Parts, s \in SaveLeft :
           p = call[t].path /\ s = call[t].todo /\ s # <<>> /\ part = Head(s)
    <2>1. call[t].path \in Paths /\ call[t].todo \in UndoLeft
      BY <1>1 DEF ShapeOf
    <2>2. call[t].todo \in SaveLeft /\ Head(call[t].todo) \in Parts
      BY <1>1, <2>1, Lists
    <2>3. QED BY <1>1, <2>1, <2>2
  <1> DEFINE none == {}
  <1>3. Replaced(disk, disk', p, part, none) /\ checkpoints' = checkpoints /\ answer' = answer
    BY <1>2 DEF Unlink, Replaced
  <1> HIDE DEF none
  <1>4. /\ \A q \in Paths \ {p} : disk'[q] = disk[q]
        /\ part = "content" => disk'[p].content = none /\ UndoSame(p)
        /\ part = "meta" => TextSame(p) /\ UndoSame(p)
        /\ part = "undo" => TextSame(p) /\ disk'[p].undo = none
    BY <1>1, <1>3, DiskReplaced DEF TextSame, UndoSame
  <1>5. \A q \in Paths : HalfSame(q)
    BY <1>1, HalfQuiet
  <1>6. OthersSame(p)
    BY <1>4, <1>5 DEF OthersSame, HalfSame
  <1>7. CASE part = "content"
    BY <1>3, <1>4, <1>5, <1>6, <1>7, StoreDrop DEF none
  <1>8. CASE part = "meta"
    <2>1. \A q \in Paths : TextSame(q) /\ UndoSame(q)
      BY <1>4, <1>8 DEF TextSame, UndoSame
    <2>2. QED BY <1>3, <1>5, <2>1, StoreStutter
  <1>9. CASE part = "undo"
    <2>1. s \notin ContentLeft
      BY <1>2, <1>9, Lists
    <2>2. disk[p].content = {}
      BY <1>1, <1>2, <2>1 DEF RInv, Unlinking
    <2>3. QED BY <1>3, <1>4, <1>5, <1>6, <1>9, <2>2, StoreDrop DEF none
  <1>10. QED BY <1>7, <1>8, <1>9 DEF Parts

\* A call that begins forgets the answer of the one before.
LEMMA NewCallRefines ==
  ASSUME Calm, RInv, NEW t \in Threads, NewCall(t)
  PROVE  Store!StoreNext
  <1>1. /\ Advances(t) /\ pc[t] = "idle" /\ pc'[t] # "save"
        /\ answer' = [answer EXCEPT ![t] = NoAnswer]
        /\ heap' = heap /\ disk' = disk /\ checkpoints' = checkpoints
    BY StartStep DEF RInv, OInv, TInv, memoryVars, diskVars
  <1>2. \A u \in Threads \ {t} : pc'[u] = pc[u] /\ call'[u] = call[u]
    BY <1>1, Ground DEF Advances, RInv
  <1>3. HalfLists' = HalfLists
    BY DEF HalfLists
  <1>4. ASSUME NEW p PROVE HalfSame(p)
    <2>1. ~ Half(t, p) /\ ~ Half(t, p)'
      BY <1>1 DEF Half
    <2>2. \A u \in Threads \ {t} : Half(u, p)' <=> Half(u, p)
      BY <1>1, <1>2, <1>3 DEF Half
    <2>3. \A x : x \in HalfChanged(p)' <=> x \in HalfChanged(p)
      BY <1>1, <1>2, <2>1, <2>2, HalfMembers
    <2>4. QED BY <2>3 DEF HalfSame
  <1>5. \A q \in Paths : TextSame(q) /\ UndoSame(q) /\ HalfSame(q)
    BY <1>1, <1>4 DEF TextSame, UndoSame
  <1>6. QED BY <1>1, <1>5, StoreAsk

\* A crash loses what is half done and the answers, to the store, and no text.
LEMMA CrashRefines ==
  ASSUME Crash
  PROVE  Store!StoreNext
  <1>1. /\ \A u \in Threads : pc'[u] = "idle"
        /\ disk' = disk /\ checkpoints' = checkpoints /\ answer' = [t \in Threads |-> NoAnswer]
    BY DEF Crash, diskVars
  <1>2. \A p : HalfChanged(p)' = {}
    <2>1. SUFFICES ASSUME NEW p PROVE HalfChanged(p)' = {}
      OBVIOUS
    <2>2. \A u \in Threads : ~ Half(u, p)'
      BY <1>1 DEF Half
    <2>3. QED BY <2>2, HalfMembers
  <1>3. Store!Crash
    BY <1>1, <1>2 DEF Store!Crash
  <1>4. QED BY <1>3 DEF Store!StoreNext

\* Every step of the engine is a step of the store or a stutter.
LEMMA StepRefines ==
  ASSUME Calm, RInv, [Next]_vars
  PROVE  [Store!StoreNext]_(Store!storeVars)
  <1>1. ASSUME NEW t \in Threads, ThreadStep(t)
        PROVE  Store!StoreNext \/ UNCHANGED Store!storeVars
    <2>1. Advances(t)
      BY <1>1, ShapeStep DEF RInv, OInv, TInv
    <2>2. CASE Save(t)
      BY <2>1, <2>2, SaveRefines
    <2>3. CASE ReadFile(t) \/ SaveCheckpoint(t)
      BY <2>1, <2>3, ReadRefines, CheckpointRefines
    <2>4. CASE RenameContent(t) \/ RenameMeta(t) \/ RenameUndo(t)
      BY <2>1, <2>4, MoveRefines
    <2>5. CASE Unlink(t)
      BY <2>1, <2>5, UnlinkRefines
    <2>6. CASE ~ Save(t) /\ disk' = disk /\ checkpoints' = checkpoints /\ answer' = answer
      BY <1>1, <2>1, <2>6, QuietRefines
    <2>7. CASE ReadSnapshot(t)
      BY <2>2, <2>6, <2>7 DEF ReadSnapshot, diskVars
    <2>8. CASE NoSnapshot(t)
      BY <2>2, <2>6, <2>8 DEF NoSnapshot, diskVars
    <2>9. CASE Found(t)
      BY <2>2, <2>6, <2>9 DEF Found, diskVars
    <2>10. CASE NotFound(t)
      BY <2>2, <2>6, <2>10 DEF NotFound, diskVars
    <2>11. CASE LoadContent(t)
      BY <2>2, <2>6, <2>11 DEF LoadContent, diskVars
    <2>12. CASE LoadUndo(t)
      BY <2>2, <2>6, <2>12 DEF LoadUndo, diskVars
    <2>13. CASE CreateFile(t)
      BY <2>2, <2>6, <2>13 DEF CreateFile, Enter, diskVars
    <2>14. CASE Write(t)
      BY <2>2, <2>6, <2>14 DEF Write, Enter, diskVars
    <2>15. CASE UndoFile(t)
      BY <2>2, <2>6, <2>15 DEF UndoFile, Enter, diskVars
    <2>16. CASE RevertCheckpoint(t)
      BY <2>2, <2>6, <2>16 DEF RevertCheckpoint, Enter, diskVars
    <2>17. CASE ImportFile(t)
      BY <2>2, <2>6, <2>17 DEF ImportFile, Enter, diskVars
    <2>18. CASE Checkpoint(t)
      BY <2>2, <2>6, <2>18 DEF Checkpoint, diskVars
    <2>19. CASE CheckpointFailed(t)
      BY <2>2, <2>6, <2>19 DEF CheckpointFailed, diskVars
    <2>20. CASE Refused(t)
      BY <2>2, <2>6, <2>20 DEF Refused, diskVars
    <2>21. CASE SaveFailed(t)
      BY <2>2, <2>6, <2>21 DEF SaveFailed, diskVars
    <2>22. CASE Release(t)
      BY <2>2, <2>6, <2>22 DEF Release, diskVars
    <2>23. CASE RenameFailed(t)
      BY <2>2, <2>6, <2>23 DEF RenameFailed, diskVars
    <2>24. CASE RelabelFind(t)
      BY <2>2, <2>6, <2>24 DEF RelabelFind, diskVars
    <2>25. CASE RelabelNone(t)
      BY <2>2, <2>6, <2>25 DEF RelabelNone, diskVars
    <2>26. CASE Relabel(t)
      BY <2>2, <2>6, <2>26 DEF Relabel, diskVars
    <2>27. CASE DeleteNotFound(t)
      BY <2>2, <2>6, <2>27 DEF DeleteNotFound, diskVars
    <2>28. CASE DeleteRecord(t)
      BY <2>2, <2>6, <2>28 DEF DeleteRecord, diskVars
    <2>29. CASE Deleted(t)
      BY <2>2, <2>6, <2>29 DEF Deleted, diskVars
    <2>30. QED BY <1>1, <2>2, <2>3, <2>4, <2>5, <2>7, <2>8, <2>9, <2>10, <2>11, <2>12, <2>13,
                  <2>14, <2>15, <2>16, <2>17, <2>18, <2>19, <2>20, <2>21, <2>22, <2>23, <2>24,
                                <2>25, <2>26, <2>27, <2>28, <2>29 DEF ThreadStep
  <1>2. ASSUME NEW t \in Threads, NewCall(t) PROVE Store!StoreNext
    BY <1>2, NewCallRefines
  <1>3. CASE Crash
    BY <1>3, CrashRefines
  <1>4. CASE UNCHANGED vars
    <2>1. \A p \in Paths : TextSame(p) /\ UndoSame(p) /\ HalfSame(p)
      BY <1>4 DEF vars, TextSame, UndoSame, HalfSame, HalfChanged
    <2>2. UNCHANGED Store!storeVars
      BY <1>4, <2>1, StoreStutter DEF vars
    <2>3. QED BY <2>2
  <1>5. QED BY <1>1, <1>2, <1>3, <1>4 DEF Next

\* The initial states of the engine are those of the store.
LEMMA InitRefines ==
  ASSUME Init
  PROVE  Store!StoreInit
  <1>1. /\ \A u \in Threads : pc[u] = "idle"
        /\ \A p \in Paths : disk[p].content = {} /\ disk[p].undo = {}
        /\ checkpoints = [p \in Paths |-> {}] /\ answer = [t \in Threads |-> NoAnswer]
    BY DEF Init, NotOnDisk
  <1>2. \A p : HalfChanged(p) = {}
    <2>1. SUFFICES ASSUME NEW p PROVE HalfChanged(p) = {}
      OBVIOUS
    <2>2. \A u \in Threads : ~ Half(u, p)
      BY <1>1 DEF Half
    <2>3. QED BY <2>2, HalfMembers
  <1>3. QED BY <1>1, <1>2 DEF Store!StoreInit

\* The engine implements the store of texts, snapshots and checkpoints that
\* FileStore describes: whatever threads are between whichever of their file
\* operations, and wherever the process dies, what is on disk and what READ
\* answers changes only as the store allows.
THEOREM StoreRefined == Calm => (Spec => StoreImplemented)
  <1>1. SUFFICES ASSUME Calm PROVE Spec => StoreImplemented
    OBVIOUS
  <1>2. Init => RInv /\ Store!StoreInit
    BY RefineInit, InitRefines
  <1>3. RInv /\ [Next]_vars => RInv'
    BY <1>1, RefineStep
  <1>4. RInv /\ [Next]_vars => [Store!StoreNext]_(Store!storeVars)
    BY <1>1, StepRefines
  <1>5. QED BY <1>2, <1>3, <1>4, PTL DEF Spec, StoreImplemented, Store!StoreSpec

=============================================================================
