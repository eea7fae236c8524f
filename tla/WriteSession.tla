---------------------------- MODULE WriteSession ----------------------------
(***************************************************************************)
(* The storage server's client threads (storage_server/src/main.c) on top  *)
(* of the storage engine (storage_server/src/storage_engine.c).            *)
(*                                                                         *)
(* Every connection is served by a thread of its own.  A WRITE connection  *)
(* is a session: the thread enters the sentence in the server's table of   *)
(* locked sentences, collects word updates from the client until ETIRW or  *)
(* a broken connection, applies them with storage_engine_write and leaves  *)
(* the table.  READ, STREAM, UNDO, REVERT, CHECKPOINT, INFO and DELETE     *)
(* threads run beside the sessions.  The three kinds of mutex of the code  *)
(* (g_state.lock, files_mutex, file_mutex) make each engine call one step; *)
(* what lies between two engine calls is a point where threads interleave. *)
(*                                                                         *)
(* Data.  A sentence is an identity (a number): what matters here is which *)
(* sentence an index denotes, not its text.  It stays the same when it is  *)
(* edited under its own index, and is another one when the edit of the     *)
(* sentence in front puts words at its beginning.  Optional values (an     *)
(* undo snapshot, a file on disk, a checkpoint) are sets of at most one    *)
(* value.                                                                  *)
(***************************************************************************)
EXTENDS Integers, Sequences, FiniteSets

CONSTANTS
    Threads,        \* client_handler_thread instances that may be alive at once
    Files,          \* file names
    NoFile,         \* the file of a thread that serves nobody
    Opcodes,        \* the requests that arrive (a workload)
    MaxSentence,    \* bound: the largest sentence identity ever created
    MaxClock,       \* bound: the last second of the clock
    MaxInbox,       \* bound: messages of a client under way at once
    UpdateLimit     \* size of the updates[] array (256 in the code)

ASSUME ConstantsAssumption ==
    /\ NoFile \notin Files
    /\ IsFiniteSet(Threads)
    /\ {MaxSentence, MaxClock, MaxInbox, UpdateLimit} \subseteq Nat
    /\ UpdateLimit > 0
    /\ Opcodes \subseteq {"WRITE", "READ", "STREAM", "UNDO", "REVERT",
                          "CHECKPOINT", "INFO", "DELETE"}

VARIABLES
    pc,              \* where each thread is
    req,             \* the locals of each thread
    inbox,           \* messages the client has sent and the thread not received
    closed,          \* the client has closed (or lost) the connection
    mem,             \* storage_file_t records of the engine
    disk,            \* files/, metadata/ and undo/ of the storage root
    ckpt,            \* the one checkpoint tag of each file
    mutex,           \* <<file, index>> whose sentence mutex is taken
    locked,          \* <<file, index>> whose sentence flag `locked' is set
    table,           \* g_state.locked_sentences
    active_writers,  \* g_state.active_writers
    active_readers,  \* g_state.active_readers
    clock,           \* time(NULL), in seconds
    nextSentence     \* the next unused sentence identity

threadVars == <<pc, req>>
clientVars == <<inbox, closed>>
engineVars == <<mem, disk, ckpt, mutex, locked>>
serverVars == <<table, active_writers, active_readers>>
timeVars   == <<clock, nextSentence>>
vars == <<pc, req, inbox, closed, mem, disk, ckpt, mutex, locked, table,
          active_writers, active_readers, clock, nextSentence>>

-----------------------------------------------------------------------------
Indices  == 0..MaxSentence
NoSentence == 0

\* The locals of handle_write_request.  One field is not the server's: `seen' is
\* the sentence shown to the client.
Request == [file : Files \cup {NoFile}, idx : Indices, version : Nat,
            seen : Nat, updates : Nat]
NoRequest == [file |-> NoFile, idx |-> 0, version |-> 0,
              seen |-> NoSentence, updates |-> 0]

\* storage_file_t.  `capacity' is the largest number of sentence locks ever
\* asked for: the code rounds it up to a power of two, so it reallocates the
\* array in a subset of the cases in which this model does.
FileRecord == [loaded : BOOLEAN, sentences : Seq(Nat), undo : SUBSET Seq(Nat),
               modified_at : Nat, capacity : Nat]
Unloaded == [loaded |-> FALSE, sentences |-> <<>>, undo |-> {},
             modified_at |-> 0, capacity |-> 0]

DiskRecord == [content : SUBSET Seq(Nat), undo : SUBSET Seq(Nat),
               modified_at : SUBSET Nat]
NotOnDisk == [content |-> {}, undo |-> {}, modified_at |-> {}]
\* What storage_engine_create_file leaves on disk, in second 0.
CreatedEmpty == [content |-> {<<>>}, undo |-> {}, modified_at |-> {0}]

\* A node of the locked_sentences list; `node' stands for its address (each
\* thread allocates at most one).
LockEntry == [node : Threads, filename : Files, sentence_idx : Nat,
              file_version : Nat]

SessionPCs == {"ack", "recv", "apply", "mark", "unlock", "release"}
WriterPCs  == SessionPCs \cup {"undo", "revert", "wend", "wfail"}
ReaderPCs  == {"read", "rend", "sread", "smark", "send"}
PCs == {"idle", "lock", "access", "unlink"} \cup WriterPCs \cup ReaderPCs

TypeOK ==
    /\ pc \in [Threads -> PCs]
    /\ req \in [Threads -> Request]
    /\ inbox \in [Threads -> Seq({"update", "commit", "other"})]
    /\ closed \in [Threads -> BOOLEAN]
    /\ mem \in [Files -> FileRecord]
    /\ disk \in [Files -> DiskRecord]
    /\ ckpt \in [Files -> SUBSET Seq(Nat)]
    /\ mutex \subseteq Files \X Nat
    /\ locked \subseteq Files \X Nat
    /\ table \subseteq LockEntry
    /\ active_writers \in Nat
    /\ active_readers \in Nat
    /\ clock \in Nat
    /\ nextSentence \in Nat

Init ==
    /\ pc = [t \in Threads |-> "idle"]
    /\ req = [t \in Threads |-> NoRequest]
    /\ inbox = [t \in Threads |-> <<>>]
    /\ closed = [t \in Threads |-> FALSE]
    /\ mem = [f \in Files |-> Unloaded]
    /\ disk = [f \in Files |-> CreatedEmpty]
    /\ ckpt = [f \in Files |-> {}]
    /\ mutex = {}
    /\ locked = {}
    /\ table = {}
    /\ active_writers = 0
    /\ active_readers = 0
    /\ clock = 0
    /\ nextSentence = 1

-----------------------------------------------------------------------------
(* The storage engine.                                                     *)

The(S) == CHOOSE x \in S : TRUE

AtLeast(a, b) == IF a >= b THEN a ELSE b

\* load_file_from_disk: the record a first access builds.  Without a metadata
\* file modified_at is the time of the load.
LoadFromDisk(f) ==
    LET text == IF disk[f].content = {} THEN <<>> ELSE The(disk[f].content)
    IN  [loaded      |-> TRUE,
         sentences   |-> text,
         undo        |-> disk[f].undo,
         modified_at |-> IF disk[f].modified_at = {} THEN clock
                         ELSE The(disk[f].modified_at),
         capacity    |-> Len(text)]

\* get_or_load_file never fails: a file nobody created is an empty record.
GetOrLoad(f) == IF mem[f].loaded THEN mem[f] ELSE LoadFromDisk(f)

\* storage_engine_info: nothing is written back.
Info(f) ==
    /\ mem' = [mem EXCEPT ![f] = GetOrLoad(f)]
    /\ UNCHANGED <<disk, ckpt, mutex, locked>>

\* storage_engine_read and storage_engine_mark_access: the metadata file is
\* rewritten (with a new last_accessed, which is not modelled).
Access(f) ==
    /\ mem' = [mem EXCEPT ![f] = GetOrLoad(f)]
    /\ disk' = [disk EXCEPT ![f].modified_at = {GetOrLoad(f).modified_at}]
    /\ UNCHANGED <<ckpt, mutex, locked>>

\* The common end of write, undo and revert: the old content becomes the undo
\* snapshot, the lock array grows to `room' entries at least, and content,
\* metadata and undo are written to disk.
ReplaceContent(f, text, room) ==
    LET r == [GetOrLoad(f) EXCEPT !.sentences   = text,
                                  !.undo        = {GetOrLoad(f).sentences},
                                  !.modified_at = clock,
                                  !.capacity    = AtLeast(@, room)]
    IN  /\ mem' = [mem EXCEPT ![f] = r]
        /\ disk' = [disk EXCEPT ![f] = [content     |-> {r.sentences},
                                        undo        |-> r.undo,
                                        modified_at |-> {r.modified_at}]]

\* Sentence i of s, or NoSentence for the place after the last one.
SentenceAt(s, i) == IF i < Len(s) THEN s[i + 1] ELSE NoSentence

\* apply_updates and write_new_content on the span of index i: inserting words
\* that hold k delimiters adds k sentences behind it (at the end of the file
\* when i is one past the last sentence).  The first piece of a sentence that is
\* cut in pieces keeps its identity.  Words behind the last delimiter spill over
\* into the next sentence, which is a new one then.  TextOps has the words.
Edited(s, i, k, spill) ==
    LET cut == IF i < Len(s) THEN i + 1 ELSE Len(s)
    IN  SubSeq(s, 1, cut) \o [j \in 1..(k + spill) |-> nextSentence + j - 1]
            \o SubSeq(s, cut + 1 + spill, Len(s))

\* ensure_sentence_capacity before the sentence lock is taken.
RoomFor(f, i) ==
    LET n == Len(GetOrLoad(f).sentences)
    IN  AtLeast(GetOrLoad(f).capacity, IF i < n THEN n ELSE n + 1)

GrowLocks(f, i) ==
    /\ mem' = [mem EXCEPT ![f] = [GetOrLoad(f) EXCEPT !.capacity = RoomFor(f, i)]]
    /\ UNCHANGED <<disk, ckpt, mutex>>

-----------------------------------------------------------------------------
(* The table of locked sentences, under g_state.lock.                      *)

Entries(f, i) == {e \in table : e.filename = f /\ e.sentence_idx = i}

is_sentence_locked(f, i) == Entries(f, i) # {}

\* Mutant: the comparison is of the file alone, so a node of another sentence may go.
remove_file_lock(f, i) ==
    table \ {e \in table : e.filename = f /\ \A d \in table :
                               d.filename = f => d.sentence_idx <= e.sentence_idx}

\* The list holds at most one node of a key (SentenceExclusion), so its order
\* does not matter.
remove_sentence_lock(f, i) ==
    IF Entries(f, i) = {} THEN table ELSE table \ {The(Entries(f, i))}

\* The version check at COMMIT; no entry, no check.
ModifiedSinceLock(f, i) ==
    \E e \in Entries(f, i) : GetOrLoad(f).modified_at > e.file_version

-----------------------------------------------------------------------------
(* handle_write_request, one action per stretch between two engine calls.  *)

Goto(t, from, to) ==
    /\ pc[t] = from
    /\ pc' = [pc EXCEPT ![t] = to]

\* The thread ends; its slot serves the next connection.
Finish(t, from) ==
    /\ Goto(t, from, "idle")
    /\ req' = [req EXCEPT ![t] = NoRequest]
    /\ inbox' = [inbox EXCEPT ![t] = <<>>]
    /\ closed' = [closed EXCEPT ![t] = FALSE]

\* "Sentence index out of range".
WriteOutOfRange(t, f, i) ==
    /\ pc[t] = "idle"
    /\ i > Len(GetOrLoad(f).sentences)
    /\ Info(f)
    /\ UNCHANGED <<threadVars, clientVars, serverVars, timeVars>>

\* The version recorded with the lock is the one read here, before the lock.
WriteInfo(t, f, i) ==
    /\ Goto(t, "idle", "lock")
    /\ i <= Len(GetOrLoad(f).sentences)
    /\ Info(f)
    /\ req' = [req EXCEPT ![t] = [NoRequest EXCEPT
                  !.file = f, !.idx = i, !.version = GetOrLoad(f).modified_at]]
    /\ UNCHANGED <<clientVars, serverVars, timeVars>>

\* Mutant: the refusal runs the cleanup of a session that never began.
LockBusyDiscounted(t) ==
    /\ Finish(t, "lock")
    /\ is_sentence_locked(req[t].file, req[t].idx)
    /\ active_writers' = active_writers - 1
    /\ UNCHANGED <<engineVars, table, active_readers, timeVars>>

LockBusy(t) ==
    /\ Finish(t, "lock")
    /\ is_sentence_locked(req[t].file, req[t].idx)
    /\ UNCHANGED <<engineVars, serverVars, timeVars>>

\* Mutant: the table is not searched before the entry is added.
LockAlwaysGranted(t) ==
    /\ Goto(t, "lock", "ack")
    /\ table' = table \cup {[node         |-> t,
                             filename     |-> req[t].file,
                             sentence_idx |-> req[t].idx,
                             file_version |-> req[t].version]}
    /\ active_writers' = active_writers + 1
    /\ UNCHANGED <<req, clientVars, engineVars, active_readers, timeVars>>

LockGranted(t) ==
    /\ Goto(t, "lock", "ack")
    /\ ~ is_sentence_locked(req[t].file, req[t].idx)
    /\ table' = table \cup {[node         |-> t,
                             filename     |-> req[t].file,
                             sentence_idx |-> req[t].idx,
                             file_version |-> req[t].version]}
    /\ active_writers' = active_writers + 1
    /\ UNCHANGED <<req, clientVars, engineVars, active_readers, timeVars>>

\* The sentence is read and its word count sent to the client.
AckLock(t) ==
    LET f == req[t].file
    IN  /\ Goto(t, "ack", "recv")
        /\ Access(f)
        /\ req' = [req EXCEPT ![t].seen =
                      SentenceAt(GetOrLoad(f).sentences, req[t].idx)]
        /\ UNCHANGED <<clientVars, serverVars, timeVars>>

\* The client of cmd_write: updates, then ETIRW, and it may go away any time.
ClientUpdate(t) ==
    /\ pc[t] = "recv" /\ ~ closed[t]
    /\ Len(inbox[t]) < MaxInbox
    /\ \A n \in DOMAIN inbox[t] : inbox[t][n] = "update"
    /\ inbox' = [inbox EXCEPT ![t] = Append(@, "update")]
    /\ UNCHANGED <<threadVars, closed, engineVars, serverVars, timeVars>>

\* ETIRW is not sent before the first update.
ClientCommit(t) ==
    /\ pc[t] = "recv" /\ ~ closed[t]
    /\ Len(inbox[t]) < MaxInbox
    /\ \A n \in DOMAIN inbox[t] : inbox[t][n] = "update"
    /\ inbox[t] # <<>> \/ req[t].updates > 0
    /\ inbox' = [inbox EXCEPT ![t] = Append(@, "commit")]
    /\ UNCHANGED <<threadVars, closed, engineVars, serverVars, timeVars>>

\* A message that has no place in a session.
ClientOther(t) ==
    /\ pc[t] = "recv" /\ ~ closed[t]
    /\ Len(inbox[t]) < MaxInbox
    /\ \A n \in DOMAIN inbox[t] : inbox[t][n] = "update"
    /\ inbox' = [inbox EXCEPT ![t] = Append(@, "other")]
    /\ UNCHANGED <<threadVars, closed, engineVars, serverVars, timeVars>>

\* Once the thread has left its receive loop it makes no difference any more.
ClientClose(t) ==
    /\ pc[t] \in {"lock", "ack", "recv"}
    /\ ~ closed[t]
    /\ closed' = [closed EXCEPT ![t] = TRUE]
    /\ UNCHANGED <<threadVars, inbox, engineVars, serverVars, timeVars>>

\* Updates beyond the array are dropped without a word to the client.
RecvUpdate(t) ==
    /\ pc[t] = "recv" /\ inbox[t] # <<>>
    /\ Head(inbox[t]) = "update"
    /\ inbox' = [inbox EXCEPT ![t] = Tail(@)]
    /\ req' = [req EXCEPT ![t].updates = IF @ < UpdateLimit THEN @ + 1 ELSE @]
    /\ UNCHANGED <<pc, closed, engineVars, serverVars, timeVars>>

\* COMMIT on a file that has not changed, as far as modified_at can tell.
CommitFresh(t) ==
    LET f == req[t].file
    IN  /\ Goto(t, "recv", "apply")
        /\ inbox[t] # <<>> /\ Head(inbox[t]) = "commit"
        /\ ~ ModifiedSinceLock(f, req[t].idx)
        /\ inbox' = [inbox EXCEPT ![t] = Tail(@)]
        /\ Info(f)
        /\ UNCHANGED <<req, closed, serverVars, timeVars>>

\* "File modified during edit".
CommitStale(t) ==
    LET f == req[t].file
    IN  /\ Goto(t, "recv", "unlock")
        /\ inbox[t] # <<>> /\ Head(inbox[t]) = "commit"
        /\ ModifiedSinceLock(f, req[t].idx)
        /\ inbox' = [inbox EXCEPT ![t] = Tail(@)]
        /\ Info(f)
        /\ UNCHANGED <<req, closed, serverVars, timeVars>>

\* Mutants: a failed receive returns at once, or is tried again.
RecvFailedReturns(t) ==
    /\ Finish(t, "recv")
    /\ inbox[t] = <<>> /\ closed[t]
    /\ UNCHANGED <<engineVars, serverVars, timeVars>>

RecvFailedRetries(t) ==
    /\ pc[t] = "recv" /\ inbox[t] = <<>> /\ closed[t]
    /\ UNCHANGED vars

\* recv_message fails: the client is gone and everything it sent is consumed.
RecvFailed(t) ==
    /\ Goto(t, "recv", "unlock")
    /\ inbox[t] = <<>> /\ closed[t]
    /\ UNCHANGED <<req, clientVars, engineVars, serverVars, timeVars>>

\* Any other message ends the session without an answer.
RecvOther(t) ==
    /\ Goto(t, "recv", "unlock")
    /\ inbox[t] # <<>> /\ Head(inbox[t]) = "other"
    /\ inbox' = [inbox EXCEPT ![t] = Tail(@)]
    /\ UNCHANGED <<req, closed, engineVars, serverVars, timeVars>>

\* storage_engine_write refuses: no updates, an index past the end of what the
\* file has become, or a sentence mutex somebody holds.  The lock array has
\* grown already when the trylock fails.
ApplyRefused(t) ==
    LET f == req[t].file
        i == req[t].idx
    IN  /\ Goto(t, "apply", "unlock")
        /\ \/ req[t].updates = 0
           \/ i > Len(GetOrLoad(f).sentences)
           \/ <<f, i>> \in mutex
        /\ IF req[t].updates = 0 THEN UNCHANGED engineVars
           ELSE IF i > Len(GetOrLoad(f).sentences) THEN Info(f)
           ELSE GrowLocks(f, i) /\ UNCHANGED locked
        /\ UNCHANGED <<req, clientVars, serverVars, timeVars>>

\* A word index is out of range: the mutex is given back, the flag stays set.
ApplyInvalid(t) ==
    LET f == req[t].file
        i == req[t].idx
    IN  /\ Goto(t, "apply", "unlock")
        /\ req[t].updates > 0
        /\ i <= Len(GetOrLoad(f).sentences)
        /\ <<f, i>> \notin mutex
        /\ GrowLocks(f, i)
        /\ locked' = locked \cup {<<f, i>>}
        /\ UNCHANGED <<req, clientVars, serverVars, timeVars>>

\* The write succeeds, adds k sentences and may spill over into the next.  When
\* update_metadata_from_content has to grow the lock array and realloc moves it,
\* `lock' points to the old copy: the entry of the new one keeps its mutex taken
\* and its flag set.
ApplyOK(t, k, spill, moved) ==
    LET f == req[t].file
        i == req[t].idx
        new == Edited(GetOrLoad(f).sentences, i, k, spill)
    IN  /\ Goto(t, "apply", "mark")
        /\ req[t].updates > 0
        /\ i <= Len(GetOrLoad(f).sentences)
        /\ <<f, i>> \notin mutex
        /\ nextSentence + k + spill - 1 <= MaxSentence
        /\ spill = 1 => i + 1 < Len(GetOrLoad(f).sentences)
        /\ moved => Len(new) > RoomFor(f, i)
        /\ ReplaceContent(f, new, AtLeast(RoomFor(f, i), Len(new)))
        /\ nextSentence' = nextSentence + k + spill
        /\ mutex' = IF moved THEN mutex \cup {<<f, i>>} ELSE mutex
        /\ locked' = IF moved THEN locked \cup {<<f, i>>} ELSE locked \ {<<f, i>>}
        /\ UNCHANGED <<ckpt, req, clientVars, serverVars, clock>>

\* storage_engine_mark_access after a successful commit.
MarkWritten(t) ==
    /\ Goto(t, "mark", "unlock")
    /\ Access(req[t].file)
    /\ UNCHANGED <<req, clientVars, serverVars, timeVars>>


\* Mutant: the flag is cleared and the mutex is left as it is.
UnlockFlagOnly(t) ==
    LET f == req[t].file
        i == req[t].idx
    IN  /\ Goto(t, "unlock", "release")
        /\ mem' = [mem EXCEPT ![f] = GetOrLoad(f)]
        /\ locked' = locked \ {<<f, i>>}
        /\ UNCHANGED <<mutex, disk, ckpt, req, clientVars, serverVars, timeVars>>

\* storage_engine_unlock_sentence.
UnlockSentence(t) ==
    LET f == req[t].file
        i == req[t].idx
        mine == IF i < GetOrLoad(f).capacity /\ <<f, i>> \in locked
                THEN {<<f, i>>} ELSE {}
    IN  /\ Goto(t, "unlock", "release")
        /\ mem' = [mem EXCEPT ![f] = GetOrLoad(f)]
        /\ locked' = locked \ mine
        /\ mutex' = mutex \ mine
        /\ UNCHANGED <<disk, ckpt, req, clientVars, serverVars, timeVars>>

ReleaseLock(t) ==
    /\ Finish(t, "release")
    /\ table' = remove_sentence_lock(req[t].file, req[t].idx)
    /\ active_writers' = active_writers - 1
    /\ UNCHANGED <<engineVars, active_readers, timeVars>>

-----------------------------------------------------------------------------
(* The other handlers.                                                     *)

Serve(t, f, to) ==
    /\ Goto(t, "idle", to)
    /\ req' = [req EXCEPT ![t] = [NoRequest EXCEPT !.file = f]]

\* handle_read_request and handle_stream_request: they differ in when the
\* reader is discounted.
ReaderStart(t, f, to) ==
    /\ to \in {"read", "sread"}
    /\ Serve(t, f, to)
    /\ active_readers' = active_readers + 1
    /\ UNCHANGED <<clientVars, engineVars, table, active_writers, timeVars>>

ReaderRead(t) ==
    /\ \/ Goto(t, "read", "rend")
       \/ Goto(t, "sread", "smark")
    /\ Access(req[t].file)
    /\ UNCHANGED <<req, clientVars, serverVars, timeVars>>

StreamMark(t) ==
    /\ Goto(t, "smark", "send")
    /\ Access(req[t].file)
    /\ UNCHANGED <<req, clientVars, serverVars, timeVars>>

ReadEnd(t) ==
    /\ Goto(t, "rend", "access")
    /\ active_readers' = active_readers - 1
    /\ UNCHANGED <<req, clientVars, engineVars, table, active_writers, timeVars>>

StreamEnd(t) ==
    /\ Finish(t, "send")
    /\ active_readers' = active_readers - 1
    /\ UNCHANGED <<engineVars, table, active_writers, timeVars>>

\* The mark_access with which READ, UNDO, REVERT and CHECKPOINT end.
MarkAccess(t) ==
    /\ Finish(t, "access")
    /\ Access(req[t].file)
    /\ UNCHANGED <<serverVars, timeVars>>

\* handle_undo_request and handle_revertcheckpoint_request.
WriterStart(t, f, to) ==
    /\ to \in {"undo", "revert"}
    /\ Serve(t, f, to)
    /\ active_writers' = active_writers + 1
    /\ UNCHANGED <<clientVars, engineVars, table, active_readers, timeVars>>

\* storage_engine_undo: content and snapshot change places.
Undo(t) ==
    LET f == req[t].file
        text == The(GetOrLoad(f).undo)
    IN  /\ Goto(t, "undo", "wend")
        /\ GetOrLoad(f).undo # {}
        /\ ReplaceContent(f, text, Len(text))
        /\ UNCHANGED <<ckpt, mutex, locked, req, clientVars, serverVars, timeVars>>

UndoEmpty(t) ==
    /\ Goto(t, "undo", "wfail")
    /\ GetOrLoad(req[t].file).undo = {}
    /\ Info(req[t].file)
    /\ UNCHANGED <<req, clientVars, serverVars, timeVars>>

\* storage_engine_revert_checkpoint; without the checkpoint the file is not
\* even loaded.
Revert(t) ==
    LET f == req[t].file
        text == The(ckpt[f])
    IN  /\ Goto(t, "revert", "wend")
        /\ ckpt[f] # {}
        /\ ReplaceContent(f, text, Len(text))
        /\ UNCHANGED <<ckpt, mutex, locked, req, clientVars, serverVars, timeVars>>

RevertMissing(t) ==
    /\ Goto(t, "revert", "wfail")
    /\ ckpt[req[t].file] = {}
    /\ UNCHANGED <<req, clientVars, engineVars, serverVars, timeVars>>

WriterEnd(t) ==
    /\ Goto(t, "wend", "access")
    /\ active_writers' = active_writers - 1
    /\ UNCHANGED <<req, clientVars, engineVars, table, active_readers, timeVars>>

\* Mutant: the error path forgets the gauge.
WriterFailedUncounted(t) ==
    /\ Finish(t, "wfail")
    /\ UNCHANGED <<engineVars, serverVars, timeVars>>

WriterFailed(t) ==
    /\ Finish(t, "wfail")
    /\ active_writers' = active_writers - 1
    /\ UNCHANGED <<engineVars, table, active_readers, timeVars>>

\* storage_engine_checkpoint with a new tag; an existing one is refused.
Checkpoint(t, f) ==
    /\ ckpt[f] = {}
    /\ Serve(t, f, "access")
    /\ ckpt' = [ckpt EXCEPT ![f] = {GetOrLoad(f).sentences}]
    /\ mem' = [mem EXCEPT ![f] = GetOrLoad(f)]
    /\ UNCHANGED <<disk, mutex, locked, clientVars, serverVars, timeVars>>

\* handle_info_request, and a checkpoint whose tag exists.
InfoRequest(t, f) ==
    /\ pc[t] = "idle"
    /\ Info(f)
    /\ UNCHANGED <<threadVars, clientVars, serverVars, timeVars>>

\* storage_engine_delete_file: the record leaves the list under files_mutex,
\* the files are unlinked after it.  A file not in memory is "not found".
DeleteRecord(t, f) ==
    /\ mem[f].loaded
    /\ Serve(t, f, "unlink")
    /\ mem' = [mem EXCEPT ![f] = Unloaded]
    /\ mutex' = mutex \ ({f} \X Nat)
    /\ locked' = locked \ ({f} \X Nat)
    /\ UNCHANGED <<disk, ckpt, clientVars, serverVars, timeVars>>

DeleteUnlink(t) ==
    /\ Finish(t, "unlink")
    /\ disk' = [disk EXCEPT ![req[t].file] = NotOnDisk]
    /\ UNCHANGED <<mem, ckpt, mutex, locked, serverVars, timeVars>>

-----------------------------------------------------------------------------
(* The environment: time passes, and the process dies and is started again *)
(* (the disk survives).                                                    *)

Tick ==
    /\ clock < MaxClock
    /\ clock' = clock + 1
    /\ UNCHANGED <<threadVars, clientVars, engineVars, serverVars, nextSentence>>

Restart ==
    /\ pc' = [t \in Threads |-> "idle"]
    /\ req' = [t \in Threads |-> NoRequest]
    /\ inbox' = [t \in Threads |-> <<>>]
    /\ closed' = [t \in Threads |-> FALSE]
    /\ mem' = [f \in Files |-> Unloaded]
    /\ mutex' = {}
    /\ locked' = {}
    /\ table' = {}
    /\ active_writers' = 0
    /\ active_readers' = 0
    /\ UNCHANGED <<disk, ckpt, timeVars>>

-----------------------------------------------------------------------------
\* What the server's scheduler runs for a thread that serves a connection.
ThreadStep(t) ==
    \/ LockBusy(t) \/ LockGranted(t) \/ AckLock(t)
    \/ RecvUpdate(t) \/ CommitFresh(t) \/ CommitStale(t) \/ RecvFailed(t) \/ RecvOther(t)
    \/ ApplyRefused(t) \/ ApplyInvalid(t)
    \/ \E k \in Indices, spill \in 0..1, moved \in BOOLEAN : ApplyOK(t, k, spill, moved)
    \/ MarkWritten(t) \/ UnlockSentence(t) \/ ReleaseLock(t)
    \/ ReaderRead(t) \/ StreamMark(t) \/ ReadEnd(t) \/ StreamEnd(t)
    \/ MarkAccess(t)
    \/ Undo(t) \/ UndoEmpty(t) \/ Revert(t) \/ RevertMissing(t)
    \/ WriterEnd(t) \/ WriterFailed(t) \/ DeleteUnlink(t)

\* client_handler_thread: a connection arrives and its first message is read.
NewConnection(t) ==
    \E f \in Files :
      \/ /\ "WRITE" \in Opcodes
         /\ \E i \in Indices : WriteOutOfRange(t, f, i) \/ WriteInfo(t, f, i)
      \/ "READ" \in Opcodes /\ ReaderStart(t, f, "read")
      \/ "STREAM" \in Opcodes /\ ReaderStart(t, f, "sread")
      \/ "UNDO" \in Opcodes /\ WriterStart(t, f, "undo")
      \/ "REVERT" \in Opcodes /\ WriterStart(t, f, "revert")
      \/ "CHECKPOINT" \in Opcodes /\ Checkpoint(t, f)
      \/ "INFO" \in Opcodes /\ InfoRequest(t, f)
      \/ "DELETE" \in Opcodes /\ DeleteRecord(t, f)

ClientStep(t) == ClientUpdate(t) \/ ClientCommit(t) \/ ClientOther(t) \/ ClientClose(t)

Next ==
    \/ \E t \in Threads : NewConnection(t) \/ ClientStep(t) \/ ThreadStep(t)
    \/ Tick
    \/ Restart

Spec == Init /\ [][Next]_vars

\* The operating system runs every thread that can run: the mutexes are held
\* for bounded stretches only.  Nothing is assumed of the client.
FairSpec == Spec /\ \A t \in Threads : WF_vars(ThreadStep(t))

-----------------------------------------------------------------------------
(* What the server promises.                                               *)

InSession(t) == pc[t] \in SessionPCs

\* Two sessions never edit the same sentence index of a file at once: from the
\* grant of the lock (handle_write_request) to its removal from the table.
SentenceExclusion ==
    \A t, u \in Threads :
        InSession(t) /\ InSession(u) /\ t # u
            => <<req[t].file, req[t].idx>> # <<req[u].file, req[u].idx>>

EntryOf(t) == [node |-> t, filename |-> req[t].file,
               sentence_idx |-> req[t].idx, file_version |-> req[t].version]

\* The table of locked sentences holds one entry for each live session and no
\* other: no path out of handle_write_request leaks a lock, none removes the
\* lock of another session, and the version compared at COMMIT is one's own.
LockTableExact == table = {EntryOf(t) : t \in {u \in Threads : InSession(u)}}

\* The load figures sent to the name server with each heartbeat are the number
\* of handlers at work, however they ended.
LoadGauges ==
    /\ active_writers = Cardinality({t \in Threads : pc[t] \in WriterPCs})
    /\ active_readers = Cardinality({t \in Threads : pc[t] \in ReaderPCs})

\* A sentence mutex or flag that storage_engine_write leaves behind (a failed
\* update list, a lock array that moved) belongs to a session which has yet to
\* call storage_engine_unlock_sentence, and that call will find it; hence the
\* trylock of storage_engine_write never fails.
EngineLocksOwned ==
    /\ mutex \subseteq locked
    /\ \A p \in locked :
          /\ p[2] < mem[p[1]].capacity
          /\ \E t \in Threads : /\ pc[t] \in {"mark", "unlock"}
                                /\ <<req[t].file, req[t].idx>> = p

TextChanges(f) ==
    \/ mem[f].loaded /\ mem'[f].loaded /\ mem'[f].sentences # mem[f].sentences
    \/ disk'[f].content # disk[f].content

\* The text of a file, in memory or on disk, changes only by UNDO, REVERT, DELETE
\* or the commit of a session that owns the one entry of its sentence in the
\* table, with the version it was granted for.  In particular a session that
\* ends without ETIRW, or after another got its sentence, leaves no trace.
OnlyOwnersChangeContent ==
    [][\A f \in Files : TextChanges(f) =>
          \E t \in Threads :
             /\ req[t].file = f
             /\ \/ pc[t] \in {"undo", "revert"} /\ pc'[t] = "wend"
                \/ pc[t] = "unlink" /\ pc'[t] = "idle"
                \/ /\ pc[t] = "apply" /\ pc'[t] = "mark"
                   /\ Entries(f, req[t].idx) = {EntryOf(t)}]_vars

\* A client that goes away loses its lock: a session whose connection is closed
\* reaches the end of handle_write_request.
DisconnectReleasesLock ==
    \A t \in Threads : (InSession(t) /\ closed[t]) ~> ~ InSession(t)

\* The table implements the lock service: a lock is granted only when free and
\* each session gives back its own (remove_sentence_lock removes by key).
LockService == INSTANCE SentenceLocks
    WITH Holders   <- Threads,
         Sentences <- Files \X Indices,
         held      <- {<<e.node, <<e.filename, e.sentence_idx>>>> : e \in table}

LocksImplemented == LockService!LockSpec

-----------------------------------------------------------------------------
(* What the documents say and the code does not do.                        *)

\* "the server adjusts sentence indices carefully" (docs/REPORT.md): a commit
\* edits the sentence whose word count the client was sent with its lock.
CommitEditsAckedSentence ==
    [][\A t \in Threads :
          pc[t] = "apply" /\ pc'[t] = "mark"
            => SentenceAt(GetOrLoad(req[t].file).sentences, req[t].idx)
                   = req[t].seen]_vars
=============================================================================
