---------------------------- MODULE StorageEngine ----------------------------
(***************************************************************************)
(* The storage engine (storage_server/src/storage_engine.c) below the      *)
(* level of WriteSession: what one call does between its first mutex and   *)
(* its last file.  Calls of several threads interleave at every mutex and  *)
(* at every file they read, write, rename or unlink, and the process may   *)
(* die between any two of those.                                           *)
(*                                                                         *)
(* Data.  A text is a number, 0 the empty one; each edit makes a new one.  *)
(* The metadata file is the text its counts were taken from.  A file on    *)
(* disk, a snapshot and a checkpoint (one tag) are sets of at most one     *)
(* text.  Which sentence a WRITE edits is WriteSession's and TextOps'      *)
(* matter.  Folders of names in Paths exist: where one does not, MOVE      *)
(* returns before it changes anything.                                     *)
(***************************************************************************)
EXTENDS Integers, Sequences, FiniteSets, Functions, Arrays

CONSTANTS
    Threads,     \* threads that may be in the engine at once
    NoThread,    \* the holder of a free mutex
    Paths,       \* names of files, folder included
    NoPath,      \* the name of a call that needs none
    Opcodes,     \* the calls and failures of a workload
    Orderly,     \* MOVE and DELETE come alone, MOVE to free names (a workload)
    MaxRecords,  \* bound: records in memory at once
    MaxCalls     \* bound: calls of a run; each makes one text at most

\* A call that runs beside a DELETE of its file goes on in freed memory, which
\* has no outcome to model: there DELETE is only asked of an orderly workload.
ASSUME EngineAssumption ==
    /\ IsFiniteSet(Threads) /\ NoThread \notin Threads /\ NoPath \notin Paths
    /\ {MaxRecords, MaxCalls} \subseteq Nat
    /\ Orderly \in BOOLEAN
    /\ Opcodes \subseteq {"CREATE", "READ", "WRITE", "UNDO", "CHECKPOINT", "REVERT",
                          "IMPORT", "DELETE", "MOVE", "CRASH", "IOERR"}
    /\ "DELETE" \in Opcodes => Orderly

VARIABLES
    pc,           \* where each thread is
    call,         \* the locals of each thread
    files,        \* engine->files: addresses of records, in the array's order
    heap,         \* the storage_file_t at each address
    files_mutex,  \* who holds engine->files_mutex
    file_mutex,   \* who holds the file_mutex of each record
    disk,         \* files/, metadata/ and undo/ under each name
    checkpoints,  \* checkpoints/ under each name
    answer,       \* the text storage_engine_read gave to each thread
    nextText,     \* the next unused text
    calls         \* calls so far

memoryVars == <<files, heap>>
mutexVars  == <<files_mutex, file_mutex>>
diskVars   == <<disk, checkpoints>>
vars == <<pc, call, files, heap, files_mutex, file_mutex, disk, checkpoints, answer,
          nextText, calls>>

-----------------------------------------------------------------------------
Texts == 0..MaxCalls
Empty == 0
NoAnswer == -1
Addresses == 1..MaxRecords
NoAddress == 0

Parts == {"content", "meta", "undo"}

\* What a call keeps: the record it found, the files it has yet to write, and
\* the checkpoint that REVERT has read.
Call == [op : Opcodes \cup {"none"}, path : Paths \cup {NoPath}, dest : Paths \cup {NoPath},
         file : Addresses \cup {NoAddress}, todo : Seq(Parts), snapshot : SUBSET Texts]
NoCall == [op |-> "none", path |-> NoPath, dest |-> NoPath, file |-> NoAddress,
           todo |-> <<>>, snapshot |-> {}]

\* storage_file_t
Record == [filename : Paths \cup {NoPath}, content : Texts, undo : SUBSET Texts]
NoRecord == [filename |-> NoPath, content |-> Empty, undo |-> {}]

OnDisk == [content : SUBSET Texts, meta : SUBSET Texts, undo : SUBSET Texts]
NotOnDisk == [content |-> {}, meta |-> {}, undo |-> {}]

PCs == {"idle", "snapshot", "find", "load", "loadundo", "lock", "save", "checkpoint",
        "rename", "relabel", "relabelled", "delete", "unlink"}

TypeOK ==
    /\ pc \in [Threads -> PCs]
    /\ call \in [Threads -> Call]
    /\ files \in Seq(Addresses)
    /\ heap \in [Addresses -> Record]
    /\ files_mutex \in Threads \cup {NoThread}
    /\ file_mutex \in [Addresses -> Threads \cup {NoThread}]
    /\ disk \in [Paths -> OnDisk]
    /\ checkpoints \in [Paths -> SUBSET Texts]
    /\ answer \in [Threads -> Texts \cup {NoAnswer}]
    /\ nextText \in Nat
    /\ calls \in Nat

Init ==
    /\ pc = [t \in Threads |-> "idle"]
    /\ call = [t \in Threads |-> NoCall]
    /\ files = <<>>
    /\ heap = [a \in Addresses |-> NoRecord]
    /\ files_mutex = NoThread
    /\ file_mutex = [a \in Addresses |-> NoThread]
    /\ disk = [p \in Paths |-> NotOnDisk]
    /\ checkpoints = [p \in Paths |-> {}]
    /\ answer = [t \in Threads |-> NoAnswer]
    /\ nextText = 1
    /\ calls = 0

-----------------------------------------------------------------------------
(* Calls begin and end.                                                    *)

The(S) == CHOOSE x \in S : TRUE

Goto(t, from, to) ==
    /\ pc[t] = from
    /\ pc' = [pc EXCEPT ![t] = to]

Return(t, from) ==
    /\ Goto(t, from, "idle")
    /\ call' = [call EXCEPT ![t] = NoCall]

Movers == {"MOVE", "DELETE"}

\* Who may begin a call beside the calls under way.
MayStart(op) ==
    /\ op \in Opcodes /\ calls < MaxCalls
    /\ Orderly => \A u \in Threads :
                     IF op \in Movers THEN pc[u] = "idle" ELSE call[u].op \notin Movers

Start(t, op, p, q, first) ==
    /\ MayStart(op)
    /\ Goto(t, "idle", first)
    /\ call' = [call EXCEPT ![t] = [NoCall EXCEPT !.op = op, !.path = p, !.dest = q]]
    /\ answer' = [answer EXCEPT ![t] = NoAnswer]
    /\ calls' = calls + 1
    /\ UNCHANGED <<memoryVars, mutexVars, diskVars, nextText>>

\* The calls that begin with get_or_load_file.
StartOnFile(t, op, p) ==
    /\ op \in {"CREATE", "READ", "WRITE", "UNDO", "CHECKPOINT", "IMPORT"}
    /\ Start(t, op, p, NoPath, "find")

\* storage_engine_revert_checkpoint begins with the file of the checkpoint.
StartRevert(t, p) == Start(t, "REVERT", p, NoPath, "snapshot")

\* storage_engine_move_file: the source exists.
StartMove(t, p, q) ==
    /\ disk[p].content # {}
    /\ Orderly => disk[q] = NotOnDisk /\ \A a \in Range(files) : heap[a].filename # q
    /\ Start(t, "MOVE", p, q, "rename")

StartDelete(t, p) == Start(t, "DELETE", p, NoPath, "delete")

-----------------------------------------------------------------------------
(* get_or_load_file, under files_mutex.                                    *)

Named(p) == {i \in DOMAIN files : heap[files[i]].filename = p}

\* find_file_locked: the first record with the name.
FindFile(p) == files[CHOOSE i \in Named(p) : \A j \in Named(p) : i <= j]

ReadSnapshot(t) ==
    /\ Goto(t, "snapshot", "find")
    /\ checkpoints[call[t].path] # {}
    /\ call' = [call EXCEPT ![t].snapshot = checkpoints[call[t].path]]
    /\ UNCHANGED <<memoryVars, mutexVars, diskVars, answer, nextText, calls>>

NoSnapshot(t) ==
    /\ Return(t, "snapshot")
    /\ checkpoints[call[t].path] = {}
    /\ UNCHANGED <<memoryVars, mutexVars, diskVars, answer, nextText, calls>>

Found(t) ==
    /\ Goto(t, "find", "lock")
    /\ files_mutex = NoThread
    /\ Named(call[t].path) # {}
    /\ call' = [call EXCEPT ![t].file = FindFile(call[t].path)]
    /\ UNCHANGED <<memoryVars, mutexVars, diskVars, answer, nextText, calls>>

\* Not found: the mutex is kept while the files are read.
NotFound(t) ==
    /\ Goto(t, "find", "load")
    /\ files_mutex = NoThread
    /\ Named(call[t].path) = {} /\ Len(files) < MaxRecords
    /\ files_mutex' = t
    /\ UNCHANGED <<call, memoryVars, file_mutex, diskVars, answer, nextText, calls>>

\* Mutant: a file that is not there leaves the content pointer null.
LoadContentNull(t) ==
    LET a == CHOOSE x \in Addresses : x \notin Range(files)
        p == call[t].path
        content == IF disk[p].content = {} THEN NoAnswer ELSE The(disk[p].content)
    IN  /\ Goto(t, "load", "loadundo")
        /\ call' = [call EXCEPT ![t].file = a]
        /\ heap' = [heap EXCEPT ![a] = [filename |-> p, content |-> content, undo |-> {}]]
        /\ UNCHANGED <<files, mutexVars, diskVars, answer, nextText, calls>>

\* load_file_from_disk: content (and metadata, whose counts are taken again).
LoadContent(t) ==
    LET a == CHOOSE x \in Addresses : x \notin Range(files)
        p == call[t].path
        content == IF disk[p].content = {} THEN Empty ELSE The(disk[p].content)
    IN  /\ Goto(t, "load", "loadundo")
        /\ call' = [call EXCEPT ![t].file = a]
        /\ heap' = [heap EXCEPT ![a] = [filename |-> p, content |-> content, undo |-> {}]]
        /\ UNCHANGED <<files, mutexVars, diskVars, answer, nextText, calls>>

\* The snapshot; then the record enters the array.
LoadUndo(t) ==
    LET a == call[t].file
    IN  /\ Goto(t, "loadundo", "lock")
        /\ heap' = [heap EXCEPT ![a].undo = disk[call[t].path].undo]
        /\ files' = Append(files, a)
        /\ files_mutex' = NoThread
        /\ UNCHANGED <<call, file_mutex, diskVars, answer, nextText, calls>>

-----------------------------------------------------------------------------
(* The sections under file_mutex.                                          *)

\* A call enters the section and has parts of the record to write.
Enter(t, op, todo) ==
    LET a == call[t].file
    IN  /\ call[t].op = op
        /\ Goto(t, "lock", "save")
        /\ file_mutex[a] = NoThread
        /\ file_mutex' = [file_mutex EXCEPT ![a] = t]
        /\ call' = [call EXCEPT ![t].todo = todo]
        /\ UNCHANGED <<files, files_mutex, diskVars, calls>>

SetContent(t, content, undo) ==
    heap' = [heap EXCEPT ![call[t].file].content = content, ![call[t].file].undo = undo]

Content(t) == heap[call[t].file].content
Undo(t) == heap[call[t].file].undo

\* The content is empty or the call is refused.
CreateFile(t) ==
    /\ Enter(t, "CREATE", <<"content", "meta">>)
    /\ Content(t) = Empty
    /\ UNCHANGED <<heap, answer, nextText>>

\* Mutant: the answer is taken without the mutex.
ReadFileUnlocked(t) ==
    /\ Return(t, "lock")
    /\ call[t].op = "READ"
    /\ answer' = [answer EXCEPT ![t] = Content(t)]
    /\ UNCHANGED <<memoryVars, mutexVars, diskVars, nextText, calls>>

\* storage_engine_read, and storage_engine_mark_access but for the answer.
ReadFile(t) ==
    /\ Enter(t, "READ", <<"meta">>)
    /\ answer' = [answer EXCEPT ![t] = Content(t)]
    /\ UNCHANGED <<heap, nextText>>

\* write_new_content: the old content becomes the snapshot.
Write(t) ==
    /\ Enter(t, "WRITE", <<"content", "meta", "undo">>)
    /\ SetContent(t, nextText, {Content(t)})
    /\ nextText' = nextText + 1
    /\ UNCHANGED answer

UndoFile(t) ==
    /\ Enter(t, "UNDO", <<"content", "meta", "undo">>)
    /\ Undo(t) # {}
    /\ SetContent(t, The(Undo(t)), {Content(t)})
    /\ UNCHANGED <<answer, nextText>>

RevertCheckpoint(t) ==
    /\ Enter(t, "REVERT", <<"content", "meta", "undo">>)
    /\ SetContent(t, The(call[t].snapshot), {Content(t)})
    /\ UNCHANGED <<answer, nextText>>

\* The snapshot stays what it was.
ImportFile(t) ==
    /\ Enter(t, "IMPORT", <<"content", "meta">>)
    /\ SetContent(t, nextText, Undo(t))
    /\ nextText' = nextText + 1
    /\ UNCHANGED answer

\* Mutant: the error path of CREATE returns with the mutex.
RefusedLocked(t) ==
    LET a == call[t].file
    IN  /\ Return(t, "lock")
        /\ file_mutex[a] = NoThread
        /\ \/ call[t].op = "CREATE" /\ Content(t) # Empty
           \/ call[t].op = "WRITE"
           \/ call[t].op = "UNDO" /\ Undo(t) = {}
           \/ call[t].op = "CHECKPOINT" /\ checkpoints[call[t].path] # {}
        /\ file_mutex' = IF call[t].op = "CREATE" THEN [file_mutex EXCEPT ![a] = t]
                         ELSE file_mutex
        /\ UNCHANGED <<memoryVars, files_mutex, diskVars, answer, nextText, calls>>

\* The section is left at once: there is content already, the updates are not
\* valid, there is no snapshot, the tag exists.
Refused(t) ==
    /\ Return(t, "lock")
    /\ file_mutex[call[t].file] = NoThread
    /\ \/ call[t].op = "CREATE" /\ Content(t) # Empty
       \/ call[t].op = "WRITE"
       \/ call[t].op = "UNDO" /\ Undo(t) = {}
       \/ call[t].op = "CHECKPOINT" /\ checkpoints[call[t].path] # {}
    /\ UNCHANGED <<memoryVars, mutexVars, diskVars, answer, nextText, calls>>

\* storage_engine_checkpoint: access() finds no file with the tag; the name is
\* the caller's, not the record's.
Checkpoint(t) ==
    LET a == call[t].file
    IN  /\ call[t].op = "CHECKPOINT"
        /\ Goto(t, "lock", "checkpoint")
        /\ file_mutex[a] = NoThread
        /\ checkpoints[call[t].path] = {}
        /\ file_mutex' = [file_mutex EXCEPT ![a] = t]
        /\ UNCHANGED <<call, memoryVars, files_mutex, diskVars, answer, nextText, calls>>

SaveCheckpoint(t) ==
    /\ Goto(t, "checkpoint", "save")
    /\ checkpoints' = [checkpoints EXCEPT ![call[t].path] = {Content(t)}]
    /\ UNCHANGED <<call, memoryVars, mutexVars, disk, answer, nextText, calls>>

CheckpointFailed(t) ==
    /\ "IOERR" \in Opcodes
    /\ Goto(t, "checkpoint", "save")
    /\ UNCHANGED <<call, memoryVars, mutexVars, diskVars, answer, nextText, calls>>

\* Mutant: the snapshot is only written where there was none.
SavedPartOnce(part, r, old) ==
    IF part = "undo" THEN IF old.undo = {} THEN r.undo ELSE old.undo ELSE {r.content}

\* persist_content, persist_metadata, persist_undo: what the file holds then.
SavedPart(part, r, old) == IF part = "undo" THEN r.undo ELSE {r.content}

\* atomic_write: a rename puts the new file in the place of the old one, under
\* the name the record has now.
Save(t) ==
    LET r == heap[call[t].file]
        p == r.filename
        part == Head(call[t].todo)
    IN  /\ pc[t] = "save" /\ call[t].todo # <<>>
        /\ disk' = [disk EXCEPT ![p][part] = SavedPart(part, r, disk[p])]
        /\ call' = [call EXCEPT ![t].todo = Tail(@)]
        /\ UNCHANGED <<pc, memoryVars, mutexVars, checkpoints, answer, nextText, calls>>

\* atomic_write fails.  CREATE and IMPORT give up; the others take no notice.
SaveFailed(t) ==
    /\ "IOERR" \in Opcodes
    /\ pc[t] = "save" /\ call[t].todo # <<>>
    /\ call' = [call EXCEPT ![t].todo =
                   IF call[t].op \in {"CREATE", "IMPORT"} THEN <<>> ELSE Tail(@)]
    /\ UNCHANGED <<pc, memoryVars, mutexVars, diskVars, answer, nextText, calls>>

Release(t) ==
    /\ Return(t, "save")
    /\ call[t].todo = <<>>
    /\ file_mutex' = [file_mutex EXCEPT ![call[t].file] = NoThread]
    /\ UNCHANGED <<memoryVars, files_mutex, diskVars, answer, nextText, calls>>

-----------------------------------------------------------------------------
(* storage_engine_move_file: three renames under no mutex, then the record. *)

RenamePart(p, q, part) ==
    IF p = q \/ disk[p][part] = {} THEN disk
    ELSE [disk EXCEPT ![q][part] = disk[p][part], ![p][part] = {}]

Renamed(t, from, to, part) ==
    /\ Goto(t, from, to)
    /\ disk' = RenamePart(call[t].path, call[t].dest, part)
    /\ UNCHANGED <<memoryVars, mutexVars, checkpoints, answer, nextText, calls>>

RenameContent(t) ==
    /\ Renamed(t, "rename", "rename", "content")
    /\ call[t].todo = <<>> /\ disk[call[t].path].content # {}
    /\ call' = [call EXCEPT ![t].todo = <<"meta", "undo">>]

\* The source has gone since the call looked for it.
RenameFailed(t) ==
    /\ Return(t, "rename")
    /\ call[t].todo = <<>> /\ disk[call[t].path].content = {}
    /\ UNCHANGED <<memoryVars, mutexVars, diskVars, answer, nextText, calls>>

RenameMeta(t) ==
    /\ Renamed(t, "rename", "rename", "meta")
    /\ call[t].todo = <<"meta", "undo">>
    /\ call' = [call EXCEPT ![t].todo = <<"undo">>]

RenameUndo(t) ==
    /\ Renamed(t, "rename", "relabel", "undo")
    /\ call[t].todo = <<"undo">>
    /\ call' = [call EXCEPT ![t].todo = <<>>]

\* The record, if there is one, is found under files_mutex, which is kept while
\* file_mutex is waited for.
RelabelFind(t) ==
    /\ Goto(t, "relabel", "relabelled")
    /\ files_mutex = NoThread /\ Named(call[t].path) # {}
    /\ files_mutex' = t
    /\ call' = [call EXCEPT ![t].file = FindFile(call[t].path)]
    /\ UNCHANGED <<memoryVars, file_mutex, diskVars, answer, nextText, calls>>

RelabelNone(t) ==
    /\ Return(t, "relabel")
    /\ files_mutex = NoThread /\ Named(call[t].path) = {}
    /\ UNCHANGED <<memoryVars, mutexVars, diskVars, answer, nextText, calls>>

Relabel(t) ==
    /\ Return(t, "relabelled")
    /\ file_mutex[call[t].file] = NoThread
    /\ heap' = [heap EXCEPT ![call[t].file].filename = call[t].dest]
    /\ files_mutex' = NoThread
    /\ UNCHANGED <<files, file_mutex, diskVars, answer, nextText, calls>>

-----------------------------------------------------------------------------
(* storage_engine_delete_file: the record leaves the array under            *)
(* files_mutex, then the files go one by one.                               *)

DeleteNotFound(t) ==
    /\ Return(t, "delete")
    /\ files_mutex = NoThread /\ Named(call[t].path) = {}
    /\ UNCHANGED <<memoryVars, mutexVars, diskVars, answer, nextText, calls>>

\* free_file comes last, but nobody can find the record any more.
DeleteRecord(t) ==
    LET a == FindFile(call[t].path)
    IN  /\ Goto(t, "delete", "unlink")
        /\ files_mutex = NoThread /\ Named(call[t].path) # {}
        /\ files' = Kept(files, Addresses \ {a})
        /\ heap' = [heap EXCEPT ![a] = NoRecord]
        /\ call' = [call EXCEPT ![t].todo = <<"content", "meta", "undo">>]
        /\ UNCHANGED <<mutexVars, diskVars, answer, nextText, calls>>

Unlink(t) ==
    LET p == call[t].path
        part == Head(call[t].todo)
    IN  /\ pc[t] = "unlink" /\ call[t].todo # <<>>
        /\ disk' = [disk EXCEPT ![p][part] = {}]
        /\ call' = [call EXCEPT ![t].todo = Tail(@)]
        /\ UNCHANGED <<pc, memoryVars, mutexVars, checkpoints, answer, nextText, calls>>

Deleted(t) ==
    /\ Return(t, "unlink")
    /\ call[t].todo = <<>>
    /\ UNCHANGED <<memoryVars, mutexVars, diskVars, answer, nextText, calls>>

-----------------------------------------------------------------------------
\* The process dies and is started again: storage_engine_init on what the disk
\* has.
Crash ==
    /\ "CRASH" \in Opcodes
    /\ pc' = [t \in Threads |-> "idle"]
    /\ call' = [t \in Threads |-> NoCall]
    /\ files' = <<>>
    /\ heap' = [a \in Addresses |-> NoRecord]
    /\ files_mutex' = NoThread
    /\ file_mutex' = [a \in Addresses |-> NoThread]
    /\ answer' = [t \in Threads |-> NoAnswer]
    /\ UNCHANGED <<diskVars, nextText, calls>>

NewCall(t) ==
    \E p \in Paths :
        \/ \E op \in Opcodes : StartOnFile(t, op, p)
        \/ StartRevert(t, p) \/ StartDelete(t, p)
        \/ \E q \in Paths : StartMove(t, p, q)

ThreadStep(t) ==
    \/ ReadSnapshot(t) \/ NoSnapshot(t) \/ Found(t) \/ NotFound(t) \/ LoadContent(t) \/ LoadUndo(t)
    \/ CreateFile(t) \/ ReadFile(t) \/ Write(t) \/ UndoFile(t) \/ RevertCheckpoint(t)
    \/ ImportFile(t) \/ Checkpoint(t) \/ SaveCheckpoint(t) \/ CheckpointFailed(t)
    \/ Refused(t)
    \/ Save(t) \/ SaveFailed(t) \/ Release(t)
    \/ RenameContent(t) \/ RenameFailed(t) \/ RenameMeta(t) \/ RenameUndo(t)
    \/ RelabelFind(t) \/ RelabelNone(t) \/ Relabel(t)
    \/ DeleteNotFound(t) \/ DeleteRecord(t) \/ Unlink(t) \/ Deleted(t)

Next ==
    \/ \E t \in Threads : NewCall(t) \/ ThreadStep(t)
    \/ Crash

Spec == Init /\ [][Next]_vars

\* A thread that can run runs.  Nothing is assumed of who gets a mutex that
\* several threads wait for: a run has finitely many calls.
FairSpec == Spec /\ \A t \in Threads : WF_vars(ThreadStep(t))

-----------------------------------------------------------------------------
(* What the engine promises.                                               *)

\* Memory never gets away from the disk: while no call is in its section, the
\* record that a name leads to has the text and the snapshot that a restart
\* would find under that name, after any mixture of calls and crashes.
MemoryOnDisk ==
    \A i \in DOMAIN files :
        LET r == heap[files[i]]
        IN  (/\ file_mutex[files[i]] = NoThread
             /\ \A t \in Threads : call[t].op \notin Movers)
              => /\ disk[r.filename].undo = r.undo
                 /\ \/ disk[r.filename].content = {r.content}
                    \/ disk[r.filename].content = {} /\ r.content = Empty

\* The engine implements the store of texts, snapshots and checkpoints that
\* FileStore describes: threads, mutexes and the copy in memory do not show.
\* A text is there when its file is renamed into place.
HalfChanged(p) ==
    UNION {heap[call[t].file].undo : t \in {u \in Threads :
        /\ pc[u] = "save" /\ call[u].op \in {"WRITE", "UNDO", "REVERT"}
        /\ call[u].todo \in {<<"meta", "undo">>, <<"undo">>}
        /\ heap[call[u].file].filename = p}}

Store == INSTANCE FileStore
    WITH Readers  <- Threads,
         text     <- [p \in Paths |-> disk[p].content],
         undo     <- [p \in Paths |-> disk[p].undo],
         replaced <- [p \in Paths |-> HalfChanged(p)],
         ckpt     <- checkpoints

StoreImplemented == Store!StoreSpec

\* Nobody waits for ever: every call comes back, whatever it finds and whichever
\* of its files cannot be written, also beside a MOVE that holds files_mutex
\* while it waits for the mutex of a file.
CallsReturn == \A t \in Threads : pc[t] # "idle" ~> pc[t] = "idle"
=============================================================================
