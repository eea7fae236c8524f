------------------------ MODULE WriteSessionProofs ------------------------
(***************************************************************************)
(* Proofs about WriteSession, for every set of threads and files and every *)
(* value of the bounds.                                                    *)
(***************************************************************************)
EXTENDS WriteSession, FiniteSetTheorems, SequenceTheorems, TLAPS

\* The load figures before they are known to be natural numbers, and the rest
\* of the type invariant.
Types ==
    /\ pc \in [Threads -> PCs]
    /\ req \in [Threads -> Request]
    /\ inbox \in [Threads -> Seq({"update", "commit", "other"})]
    /\ closed \in [Threads -> BOOLEAN]
    /\ mem \in [Files -> FileRecord]
    /\ disk \in [Files -> DiskRecord]
    /\ ckpt \in [Files -> SUBSET Seq(Nat)]
    /\ mutex \subseteq Files \X Nat
    /\ locked \subseteq Files \X Nat
    /\ table \subseteq LockEntry
    /\ clock \in Nat
    /\ nextSentence \in Nat

\* A thread at work has a file.
ThreadsHaveFiles == \A t \in Threads : pc[t] # "idle" => req[t].file \in Files

\* A record that is not loaded has no lock array.
UnloadedIsEmpty == \A f \in Files : ~ mem[f].loaded => mem[f].capacity = 0

-----------------------------------------------------------------------------
\* The only member of a set is a member.
LEMMA TheInSet == ASSUME NEW S, S # {} PROVE The(S) \in S
  BY DEF The

\* The larger of two capacities.
LEMMA AtLeastType ==
  ASSUME NEW a \in Nat, NEW b \in Nat
  PROVE  AtLeast(a, b) \in Nat /\ AtLeast(a, b) >= a /\ AtLeast(a, b) >= b
  BY DEF AtLeast

\* What get_or_load_file returns is a record, and the one in memory if there
\* is one.
LEMMA GetOrLoadType ==
  ASSUME Types, NEW f \in Files
  PROVE  /\ GetOrLoad(f) \in FileRecord
         /\ GetOrLoad(f).loaded
         /\ mem[f].loaded => GetOrLoad(f) = mem[f]
  <1>1. CASE mem[f].loaded
    BY <1>1 DEF GetOrLoad, Types, FileRecord
  <1>2. CASE ~ mem[f].loaded
    <2> DEFINE text == IF disk[f].content = {} THEN <<>> ELSE The(disk[f].content)
               time == IF disk[f].modified_at = {} THEN clock
                       ELSE The(disk[f].modified_at)
    <2>1. disk[f] \in DiskRecord
      BY DEF Types
    <2>2. text \in Seq(Nat)
      <3>1. CASE disk[f].content = {}
        BY <3>1, <2>1
      <3>2. CASE disk[f].content # {}
        BY <3>2, <2>1, TheInSet DEF DiskRecord
      <3>3. QED BY <3>1, <3>2
    <2>3. time \in Nat
      <3>1. CASE disk[f].modified_at = {}
        BY <3>1 DEF Types
      <3>2. CASE disk[f].modified_at # {}
        BY <3>2, <2>1, TheInSet DEF DiskRecord
      <3>3. QED BY <3>1, <3>2
    <2>4. GetOrLoad(f) = [loaded |-> TRUE, sentences |-> text,
                          undo |-> disk[f].undo, modified_at |-> time,
                          capacity |-> Len(text)]
      BY <1>2 DEF GetOrLoad, LoadFromDisk
    <2>5. disk[f].undo \in SUBSET Seq(Nat)
      BY <2>1 DEF DiskRecord
    <2>6. Len(text) \in Nat
      BY <2>2
    <2> HIDE DEF text, time
    <2>7. QED BY <1>2, <2>2, <2>3, <2>4, <2>5, <2>6 DEF FileRecord
  <1>3. QED BY <1>1, <1>2

\* The engine calls keep memory and disk well formed.
LEMMA AccessType ==
  ASSUME Types, NEW f \in Files
  PROVE  /\ Info(f) => mem' \in [Files -> FileRecord] /\ disk' \in [Files -> DiskRecord]
         /\ Access(f) => mem' \in [Files -> FileRecord] /\ disk' \in [Files -> DiskRecord]
  <1>1. GetOrLoad(f) \in FileRecord
    BY GetOrLoadType
  <1>2. GetOrLoad(f).modified_at \in Nat
    BY <1>1 DEF FileRecord
  <1>3. ASSUME Info(f)
        PROVE  mem' \in [Files -> FileRecord] /\ disk' \in [Files -> DiskRecord]
    BY <1>1, <1>3 DEF Info, Types
  <1>4. ASSUME Access(f)
        PROVE  mem' \in [Files -> FileRecord] /\ disk' \in [Files -> DiskRecord]
    <2>1. disk[f] \in DiskRecord
      BY DEF Types
    <2>2. [disk[f] EXCEPT !.modified_at = {GetOrLoad(f).modified_at}] \in DiskRecord
      BY <1>2, <2>1 DEF DiskRecord
    <2>3. QED BY <1>1, <1>4, <2>2 DEF Access, Types
  <1>5. QED BY <1>3, <1>4

\* A new text in memory and on disk keeps the types.
LEMMA ReplaceType ==
  ASSUME Types, NEW f \in Files, NEW text \in Seq(Nat), NEW room \in Nat,
         ReplaceContent(f, text, room)
  PROVE  mem' \in [Files -> FileRecord] /\ disk' \in [Files -> DiskRecord]
  <1> DEFINE g == GetOrLoad(f)
             r == [g EXCEPT !.sentences = text, !.undo = {g.sentences},
                            !.modified_at = clock, !.capacity = AtLeast(@, room)]
  <1>1. g \in FileRecord
    BY GetOrLoadType
  <1>2. r \in FileRecord
    BY <1>1, AtLeastType DEF FileRecord, Types
  <1>3. /\ mem' = [mem EXCEPT ![f] = r]
        /\ disk' = [disk EXCEPT ![f] = [content     |-> {r.sentences},
                                        undo        |-> r.undo,
                                        modified_at |-> {r.modified_at}]]
    BY DEF ReplaceContent
  <1> HIDE DEF r
  <1>4. QED BY <1>2, <1>3 DEF Types, FileRecord, DiskRecord

\* An edited text is a text.
LEMMA EditedType ==
  ASSUME NEW s \in Seq(Nat), NEW i \in Nat, NEW k \in Nat, NEW spill \in 0..1,
         nextSentence \in Nat
  PROVE  Edited(s, i, k, spill) \in Seq(Nat)
  <1> DEFINE cut == IF i < Len(s) THEN i + 1 ELSE Len(s)
             m == k + spill
             fresh == [j \in 1..m |-> nextSentence + j - 1]
             back == SubSeq(s, cut + 1 + spill, Len(s))
  <1>1. cut \in 0..Len(s) /\ m \in Nat
    OBVIOUS
  <1>2. fresh \in Seq(Nat)
    <2>1. \A j \in 1..m : nextSentence + j - 1 \in Nat
      OBVIOUS
    <2> HIDE DEF m
    <2>2. QED BY <1>1, <2>1, IsASeq
  <1>3. SubSeq(s, 1, cut) \in Seq(Nat)
    BY <1>1, SubSeqProperties
  <1>4. back \in Seq(Nat)
    <2>1. cut + 1 + spill \in Int /\ Len(s) \in Int
      BY <1>1
    <2>2. \A n \in (cut + 1 + spill)..Len(s) : s[n] \in Nat
      BY <1>1
    <2> HIDE DEF cut
    <2>3. QED BY <2>1, <2>2, SubSeqProperties
  <1>5. Edited(s, i, k, spill) = SubSeq(s, 1, cut) \o fresh \o back
    BY DEF Edited
  <1> HIDE DEF cut, fresh, back
  <1>6. SubSeq(s, 1, cut) \o fresh \in Seq(Nat)
    BY <1>2, <1>3, ConcatProperties
  <1>7. (SubSeq(s, 1, cut) \o fresh) \o back \in Seq(Nat)
    BY <1>4, <1>6, ConcatProperties
  <1>8. QED BY <1>5, <1>7

\* The lock array never shrinks and has room for every sentence, and for one
\* behind the last.
LEMMA RoomForType ==
  ASSUME Types, NEW f \in Files, NEW i \in Nat
  PROVE  /\ RoomFor(f, i) \in Nat
         /\ RoomFor(f, i) >= GetOrLoad(f).capacity
         /\ i <= Len(GetOrLoad(f).sentences) => i < RoomFor(f, i)
  <1> DEFINE n == Len(GetOrLoad(f).sentences)
             c == GetOrLoad(f).capacity
  <1>1. n \in Nat /\ c \in Nat
    BY GetOrLoadType DEF FileRecord
  <1>2. RoomFor(f, i) = AtLeast(c, IF i < n THEN n ELSE n + 1)
    BY DEF RoomFor
  <1> HIDE DEF n, c
  <1>3. QED BY <1>1, <1>2 DEF n, c, AtLeast

-----------------------------------------------------------------------------
(* Type correctness of a step.                                             *)

\* Every step keeps the types.
LEMMA TypesStep ==
  ASSUME Types, ThreadsHaveFiles, Next
  PROVE  Types'
  <1>1. ASSUME NEW t \in Threads, NEW f \in Files, NEW i \in Indices,
               WriteOutOfRange(t, f, i) \/ WriteInfo(t, f, i)
        PROVE  Types'
    <2>1. mem' \in [Files -> FileRecord] /\ disk' \in [Files -> DiskRecord]
      BY <1>1, AccessType DEF WriteOutOfRange, WriteInfo
    <2>2. CASE WriteOutOfRange(t, f, i)
      BY <2>1, <2>2 DEF Types, WriteOutOfRange, Info, threadVars, clientVars,
                        serverVars, timeVars
    <2>3. CASE WriteInfo(t, f, i)
      <3>1. GetOrLoad(f).modified_at \in Nat
        BY GetOrLoadType DEF FileRecord
      <3>2. [NoRequest EXCEPT !.file = f, !.idx = i,
                              !.version = GetOrLoad(f).modified_at] \in Request
        BY <3>1 DEF NoRequest, Request, NoSentence, Indices
      <3>3. req' \in [Threads -> Request]
        BY <2>3, <3>2 DEF WriteInfo, Types
      <3>4. QED BY <2>1, <2>3, <3>3 DEF Types, WriteInfo, Goto, Info, clientVars,
                                        serverVars, timeVars, PCs
    <2>4. QED BY <1>1, <2>2, <2>3
  <1>2. ASSUME NEW t \in Threads, Finish(t, pc[t])
        PROVE  /\ pc' \in [Threads -> PCs] /\ req' \in [Threads -> Request]
               /\ inbox' \in [Threads -> Seq({"update", "commit", "other"})]
               /\ closed' \in [Threads -> BOOLEAN]
    <2>1. NoRequest \in Request
      BY ConstantsAssumption DEF NoRequest, Request, NoSentence, Indices
    <2>2. QED BY <1>2, <2>1 DEF Types, Finish, Goto, PCs
  <1>3. ASSUME NEW t \in Threads, LockBusy(t)
        PROVE  Types'
    BY <1>2, <1>3 DEF Types, LockBusy, Finish, Goto, engineVars, serverVars, timeVars
  <1>4. ASSUME NEW t \in Threads, LockGranted(t)
        PROVE  Types'
    <2>1. req[t].file \in Files /\ req[t] \in Request
      BY <1>4 DEF Types, ThreadsHaveFiles, LockGranted, Goto
    <2>2. GetOrLoad(req[t].file).modified_at \in Nat
      BY <2>1, GetOrLoadType DEF FileRecord
    <2>3. req' \in [Threads -> Request]
      BY <1>4, <2>1, <2>2 DEF LockGranted, Types, Request
    <2>4. table' \subseteq LockEntry
      BY <1>4, <2>1 DEF LockGranted, Types, Request, LockEntry, Indices
    <2>5. QED BY <1>4, <2>3, <2>4 DEF Types, LockGranted, Goto, PCs, WriterPCs,
                   SessionPCs, clientVars, engineVars, timeVars
  <1>5. ASSUME NEW t \in Threads, AckLock(t)
        PROVE  Types'
    <2>1. req[t].file \in Files /\ req[t] \in Request
      BY <1>5 DEF Types, ThreadsHaveFiles, AckLock, Goto
    <2>2. GetOrLoad(req[t].file).sentences \in Seq(Nat)
      BY <2>1, GetOrLoadType DEF FileRecord
    <2>3. SentenceAt(GetOrLoad(req[t].file).sentences, req[t].idx) \in Nat
      BY <2>1, <2>2 DEF SentenceAt, NoSentence, Request, Indices
    <2>4. req' \in [Threads -> Request]
      BY <1>5, <2>1, <2>3 DEF AckLock, Types, Request
    <2>5. mem' \in [Files -> FileRecord] /\ disk' \in [Files -> DiskRecord]
      BY <1>5, <2>1, AccessType DEF AckLock
    <2>6. QED BY <1>5, <2>4, <2>5 DEF Types, AckLock, Access, Goto, PCs, WriterPCs,
                   SessionPCs, clientVars, serverVars, timeVars
  <1>6. ASSUME NEW t \in Threads, ClientStep(t)
        PROVE  Types'
    <2>1. inbox[t] \in Seq({"update", "commit", "other"}) /\ req[t] \in Request
      BY DEF Types
    <2>2. CASE ClientUpdate(t)
      <3>1. Append(inbox[t], "update") \in Seq({"update", "commit", "other"})
        BY <2>1
      <3>2. QED BY <2>2, <3>1 DEF ClientUpdate, Types, threadVars, engineVars, serverVars, timeVars
    <2>3. CASE ClientCommit(t)
      <3>1. Append(inbox[t], "commit") \in Seq({"update", "commit", "other"})
        BY <2>1
      <3>2. QED BY <2>3, <3>1 DEF ClientCommit, Types, threadVars, engineVars, serverVars, timeVars
    <2>4. CASE ClientOther(t)
      <3>1. Append(inbox[t], "other") \in Seq({"update", "commit", "other"})
        BY <2>1
      <3>2. QED BY <2>4, <3>1 DEF ClientOther, Types, threadVars, engineVars, serverVars, timeVars
    <2>5. CASE ClientClose(t)
      BY <2>5 DEF ClientClose, Types, threadVars, engineVars, serverVars, timeVars
    <2>6. QED BY <1>6, <2>2, <2>3, <2>4, <2>5 DEF ClientStep
  <1>7. ASSUME NEW t \in Threads,
               \/ RecvUpdate(t) \/ CommitFresh(t) \/ CommitStale(t) \/ RecvFailed(t)
               \/ RecvOther(t)
        PROVE  Types'
    <2>1. inbox[t] \in Seq({"update", "commit", "other"}) /\ req[t] \in Request
      BY DEF Types
    <2>2. inbox[t] # <<>> => Tail(inbox[t]) \in Seq({"update", "commit", "other"})
      BY <2>1
    <2>3. CASE RecvUpdate(t)
      <3>1. [req[t] EXCEPT !.updates = IF @ < UpdateLimit THEN @ + 1 ELSE @] \in Request
        BY <2>1 DEF Request
      <3>2. QED BY <2>2, <2>3, <3>1 DEF RecvUpdate, Types, engineVars, serverVars, timeVars
    <2>4. ASSUME CommitFresh(t) \/ CommitStale(t)
          PROVE  Types'
      <3>1. req[t].file \in Files
        BY <2>4 DEF ThreadsHaveFiles, CommitFresh, CommitStale, Goto
      <3>2. mem' \in [Files -> FileRecord] /\ disk' \in [Files -> DiskRecord]
        BY <2>4, <3>1, AccessType DEF CommitFresh, CommitStale
      <3>3. pc' \in [Threads -> PCs] /\ inbox' \in [Threads -> Seq({"update", "commit", "other"})]
        BY <2>2, <2>4 DEF CommitFresh, CommitStale, Goto, Types, PCs, WriterPCs, SessionPCs
      <3>4. QED BY <2>4, <3>2, <3>3 DEF CommitFresh, CommitStale, Info, Types, serverVars, timeVars
    <2>5. CASE RecvFailed(t)
      BY <2>5 DEF RecvFailed, Types, Goto, PCs, WriterPCs, SessionPCs, clientVars,
                  engineVars, serverVars, timeVars
    <2>6. CASE RecvOther(t)
      BY <2>2, <2>6 DEF RecvOther, Types, Goto, PCs, WriterPCs, SessionPCs,
                        engineVars, serverVars, timeVars
    <2>7. QED BY <1>7, <2>3, <2>4, <2>5, <2>6
  <1>8. ASSUME NEW t \in Threads, ApplyRefused(t) \/ ApplyInvalid(t)
        PROVE  Types'
    <2>1. req[t].file \in Files /\ req[t] \in Request /\ req[t].idx \in Nat
      BY <1>8 DEF Types, ThreadsHaveFiles, ApplyRefused, ApplyInvalid, Goto, Request, Indices
    <2> DEFINE f == req[t].file
               i == req[t].idx
    <2>2. pc' \in [Threads -> PCs]
      BY <1>8 DEF ApplyRefused, ApplyInvalid, Goto, Types, PCs, WriterPCs, SessionPCs
    <2>3. CASE ApplyRefused(t) /\ Info(f)
      <3>1. mem' \in [Files -> FileRecord] /\ disk' \in [Files -> DiskRecord]
        BY <2>1, <2>3, AccessType
      <3>2. QED BY <2>2, <2>3, <3>1 DEF ApplyRefused, Info, Types, clientVars,
                                        serverVars, timeVars
    <2>4. CASE ApplyRefused(t) /\ UNCHANGED engineVars
      BY <2>2, <2>4 DEF ApplyRefused, Types, engineVars, clientVars, serverVars, timeVars
    <2>5. ASSUME GrowLocks(f, i)
          PROVE  mem' \in [Files -> FileRecord]
      <3>1. GetOrLoad(f) \in FileRecord
        BY <2>1, GetOrLoadType
      <3>2. [GetOrLoad(f) EXCEPT !.capacity = RoomFor(f, i)] \in FileRecord
        BY <2>1, <3>1, RoomForType DEF FileRecord
      <3>3. QED BY <2>5, <3>2 DEF GrowLocks, Types
    <2>6. CASE ApplyInvalid(t)
      <3>1. locked' \subseteq Files \X Nat
        BY <2>1, <2>6 DEF ApplyInvalid, Types
      <3>2. mem' \in [Files -> FileRecord]
        BY <2>5, <2>6 DEF ApplyInvalid
      <3>3. QED BY <2>2, <2>6, <3>1, <3>2 DEF ApplyInvalid, GrowLocks, Types, clientVars,
                                              serverVars, timeVars
    <2>7. CASE ApplyRefused(t) /\ GrowLocks(f, i) /\ UNCHANGED locked
      BY <2>2, <2>5, <2>7 DEF ApplyRefused, GrowLocks, Types, clientVars, serverVars, timeVars
    <2>8. QED BY <1>8, <2>3, <2>4, <2>6, <2>7 DEF ApplyRefused
  <1>9. ASSUME NEW t \in Threads, NEW k \in Indices, NEW spill \in 0..1, NEW moved \in BOOLEAN,
               ApplyOK(t, k, spill, moved)
        PROVE  Types'
    <2>1. /\ req[t].file \in Files /\ req[t].idx \in Nat
          /\ k \in Nat /\ nextSentence \in Nat
      BY <1>9, ConstantsAssumption DEF Types, ThreadsHaveFiles, ApplyOK, Goto, Request, Indices
    <2> DEFINE f == req[t].file
               i == req[t].idx
               new == Edited(GetOrLoad(f).sentences, i, k, spill)
               room == AtLeast(RoomFor(f, i), Len(new))
    <2>2. GetOrLoad(f).sentences \in Seq(Nat)
      BY <2>1, GetOrLoadType DEF FileRecord
    <2>3. new \in Seq(Nat)
      BY <2>1, <2>2, EditedType
    <2>4. room \in Nat
      <3>1. RoomFor(f, i) \in Nat
        BY <2>1, RoomForType
      <3>2. Len(new) \in Nat
        BY <2>3, LenProperties
      <3>3. QED BY <3>1, <3>2 DEF AtLeast
    <2>5. ReplaceContent(f, new, room)
      BY <1>9 DEF ApplyOK
    <2>6. mem' \in [Files -> FileRecord] /\ disk' \in [Files -> DiskRecord]
      BY <2>1, <2>3, <2>4, <2>5, ReplaceType
    <2>7. mutex' \subseteq Files \X Nat /\ locked' \subseteq Files \X Nat
      BY <1>9, <2>1 DEF ApplyOK, Types
    <2>8. pc' \in [Threads -> PCs]
      BY <1>9 DEF ApplyOK, Goto, Types, PCs, WriterPCs, SessionPCs
    <2>9. nextSentence' \in Nat
      BY <1>9, <2>1 DEF ApplyOK
    <2>10. QED BY <1>9, <2>6, <2>7, <2>8, <2>9 DEF ApplyOK, Types, clientVars, serverVars
  <1>10. ASSUME NEW t \in Threads, MarkWritten(t) \/ UnlockSentence(t) \/ ReleaseLock(t)
         PROVE  Types'
    <2>1. req[t].file \in Files
      BY <1>10 DEF ThreadsHaveFiles, MarkWritten, UnlockSentence, ReleaseLock, Finish, Goto
    <2>2. CASE MarkWritten(t)
      <3>1. mem' \in [Files -> FileRecord] /\ disk' \in [Files -> DiskRecord]
        BY <2>1, <2>2, AccessType DEF MarkWritten
      <3>2. QED BY <2>2, <3>1 DEF MarkWritten, Access, Goto, Types, PCs, WriterPCs,
                                  SessionPCs, clientVars, serverVars, timeVars
    <2>3. CASE UnlockSentence(t)
      <3>1. mem' \in [Files -> FileRecord]
        BY <2>1, <2>3, GetOrLoadType DEF UnlockSentence, Types
      <3>2. mutex' \subseteq Files \X Nat /\ locked' \subseteq Files \X Nat
        BY <2>3 DEF UnlockSentence, Types
      <3>3. QED BY <2>3, <3>1, <3>2 DEF UnlockSentence, Goto, Types, PCs, WriterPCs,
                                        SessionPCs, clientVars, serverVars, timeVars
    <2>4. CASE ReleaseLock(t)
      <3>1. table' \subseteq LockEntry
        BY <2>4 DEF ReleaseLock, remove_sentence_lock, Types
      <3>2. QED BY <1>2, <2>4, <3>1 DEF ReleaseLock, Finish, Goto, Types, engineVars, timeVars
    <2>5. QED BY <1>10, <2>2, <2>3, <2>4
  <1>11. ASSUME NEW t \in Threads, NEW f \in Files, NEW to \in PCs, Serve(t, f, to)
         PROVE  pc' \in [Threads -> PCs] /\ req' \in [Threads -> Request]
    <2>1. [NoRequest EXCEPT !.file = f] \in Request
      BY ConstantsAssumption DEF NoRequest, Request, NoSentence, Indices
    <2>2. QED BY <1>11, <2>1 DEF Serve, Goto, Types
  <1>12. ASSUME NEW t \in Threads, NEW f \in Files,
                \/ ReaderStart(t, f, "read") \/ ReaderStart(t, f, "sread")
                \/ WriterStart(t, f, "undo") \/ WriterStart(t, f, "revert")
         PROVE  Types'
    <2>1. \E to \in PCs : ReaderStart(t, f, to) \/ WriterStart(t, f, to)
      BY <1>12 DEF PCs, WriterPCs, ReaderPCs
    <2>2. QED BY <1>11, <2>1 DEF ReaderStart, WriterStart, Types, clientVars, engineVars, timeVars
  <1>13. ASSUME NEW t \in Threads, NEW f \in Files, Checkpoint(t, f) \/ InfoRequest(t, f)
         PROVE  Types'
    <2>1. GetOrLoad(f) \in FileRecord /\ GetOrLoad(f).sentences \in Seq(Nat)
      BY GetOrLoadType DEF FileRecord
    <2>2. CASE Checkpoint(t, f)
      <3>1. pc' \in [Threads -> PCs] /\ req' \in [Threads -> Request]
        BY <1>11, <2>2 DEF Checkpoint, PCs
      <3>2. QED BY <2>1, <2>2, <3>1 DEF Checkpoint, Types, clientVars, serverVars, timeVars
    <2>3. CASE InfoRequest(t, f)
      BY <2>1, <2>3 DEF InfoRequest, Info, Types, threadVars, clientVars, serverVars, timeVars
    <2>4. QED BY <1>13, <2>2, <2>3
  <1>14. ASSUME NEW t \in Threads, NEW f \in Files, DeleteRecord(t, f)
         PROVE  Types'
    <2>1. pc' \in [Threads -> PCs] /\ req' \in [Threads -> Request]
      BY <1>11, <1>14 DEF DeleteRecord, PCs
    <2>2. Unloaded \in FileRecord
      BY DEF Unloaded, FileRecord
    <2>3. QED BY <1>14, <2>1, <2>2 DEF DeleteRecord, Types, clientVars, serverVars, timeVars
  <1>15. ASSUME NEW t \in Threads, DeleteUnlink(t)
         PROVE  Types'
    <2>1. NotOnDisk \in DiskRecord
      BY DEF NotOnDisk, DiskRecord
    <2>2. QED BY <1>2, <1>15, <2>1 DEF DeleteUnlink, Finish, Goto, Types, serverVars, timeVars
  <1>16. ASSUME NEW t \in Threads,
                ReaderRead(t) \/ StreamMark(t) \/ MarkAccess(t)
         PROVE  Types'
    <2>1. req[t].file \in Files /\ Access(req[t].file)
      BY <1>16 DEF ThreadsHaveFiles, ReaderRead, StreamMark, MarkAccess, Finish, Goto
    <2>2. mem' \in [Files -> FileRecord] /\ disk' \in [Files -> DiskRecord]
      BY <2>1, AccessType
    <2>3. CASE ReaderRead(t) \/ StreamMark(t)
      BY <2>1, <2>2, <2>3 DEF ReaderRead, StreamMark, Access, Goto, Types, PCs, ReaderPCs,
                              clientVars, serverVars, timeVars
    <2>4. CASE MarkAccess(t)
      BY <1>2, <2>1, <2>2, <2>4 DEF MarkAccess, Access, Finish, Goto, Types, serverVars, timeVars
    <2>5. QED BY <1>16, <2>3, <2>4
  <1>17. ASSUME NEW t \in Threads,
                ReadEnd(t) \/ StreamEnd(t) \/ WriterEnd(t) \/ WriterFailed(t)
         PROVE  Types'
    <2>1. CASE ReadEnd(t) \/ WriterEnd(t)
      BY <2>1 DEF ReadEnd, WriterEnd, Goto, Types, PCs, clientVars, engineVars, timeVars
    <2>2. CASE StreamEnd(t) \/ WriterFailed(t)
      BY <1>2, <2>2 DEF StreamEnd, WriterFailed, Finish, Goto, Types, engineVars, timeVars
    <2>3. QED BY <1>17, <2>1, <2>2
  <1>18. ASSUME NEW t \in Threads,
                Undo(t) \/ UndoEmpty(t) \/ Revert(t) \/ RevertMissing(t)
         PROVE  Types'
    <2>1. req[t].file \in Files
      BY <1>18 DEF ThreadsHaveFiles, Undo, UndoEmpty, Revert, RevertMissing, Goto
    <2> DEFINE f == req[t].file
    <2>2. GetOrLoad(f).undo \in SUBSET Seq(Nat) /\ ckpt[f] \in SUBSET Seq(Nat)
      BY <2>1, GetOrLoadType DEF FileRecord, Types
    <2>3. pc' \in [Threads -> PCs]
      BY <1>18 DEF Undo, UndoEmpty, Revert, RevertMissing, Goto, Types, PCs, WriterPCs
    <2>4. ASSUME Undo(t) \/ Revert(t)
          PROVE  Types'
      <3>1. PICK text \in Seq(Nat) : ReplaceContent(f, text, Len(text))
        BY <2>2, <2>4, TheInSet DEF Undo, Revert
      <3>2. Len(text) \in Nat
        OBVIOUS
      <3>3. mem' \in [Files -> FileRecord] /\ disk' \in [Files -> DiskRecord]
        BY <2>1, <3>1, <3>2, ReplaceType
      <3>4. QED BY <2>3, <2>4, <3>3 DEF Undo, Revert, Types, clientVars, serverVars, timeVars
    <2>5. CASE UndoEmpty(t)
      <3>1. mem' \in [Files -> FileRecord] /\ disk' \in [Files -> DiskRecord]
        BY <2>1, <2>5, AccessType DEF UndoEmpty
      <3>2. QED BY <2>3, <2>5, <3>1 DEF UndoEmpty, Info, Types, clientVars, serverVars, timeVars
    <2>6. CASE RevertMissing(t)
      BY <2>3, <2>6 DEF RevertMissing, Types, clientVars, engineVars, serverVars, timeVars
    <2>7. QED BY <1>18, <2>4, <2>5, <2>6
  <1>19. CASE Tick
    BY <1>19 DEF Tick, Types, threadVars, clientVars, engineVars, serverVars
  <1>20. CASE Restart
    <2>1. NoRequest \in Request
      BY ConstantsAssumption DEF NoRequest, Request, NoSentence, Indices
    <2>2. Unloaded \in FileRecord
      BY DEF Unloaded, FileRecord
    <2>3. QED BY <1>20, <2>1, <2>2 DEF Restart, Types, PCs, timeVars
  <1>21. QED
    BY <1>1, <1>3, <1>4, <1>5, <1>6, <1>7, <1>8, <1>9, <1>10, <1>12, <1>13,
       <1>14, <1>15, <1>16, <1>17, <1>18, <1>19, <1>20
    DEF Next, NewConnection, ThreadStep

-----------------------------------------------------------------------------
(* What a step leaves alone.                                               *)

SameSessions ==
    /\ table' = table
    /\ \A u \in Threads : /\ InSession(u)' <=> InSession(u)
                          /\ InSession(u) => EntryOf(u)' = EntryOf(u)

SameLoad ==
    /\ active_writers' = active_writers
    /\ active_readers' = active_readers
    /\ \A u \in Threads : /\ pc'[u] \in WriterPCs <=> pc[u] \in WriterPCs
                          /\ pc'[u] \in ReaderPCs <=> pc[u] \in ReaderPCs

\* Sessions between storage_engine_write and storage_engine_unlock_sentence
\* stay there.
SameUnlockers ==
    \A u \in Threads :
        pc[u] \in {"mark", "unlock"} =>
            /\ pc'[u] \in {"mark", "unlock"}
            /\ req'[u].file = req[u].file /\ req'[u].idx = req[u].idx

\* No lock array shrinks while it is in memory.
CapacityGrows ==
    \A f \in Files : mem[f].loaded => mem'[f].capacity >= mem[f].capacity

SameEngineLocks == mutex' = mutex /\ locked' = locked /\ SameUnlockers /\ CapacityGrows

\* A step that touches neither the table nor a session keeps exclusion and the
\* exact table.
LEMMA SameSessionsKeep ==
  ASSUME SentenceExclusion, LockTableExact, SameSessions
  PROVE  SentenceExclusion' /\ LockTableExact'
  <1>1. SentenceExclusion'
    BY DEF SentenceExclusion, SameSessions, EntryOf
  <1>2. {u \in Threads : InSession(u)'} = {u \in Threads : InSession(u)}
    BY DEF SameSessions
  <1>3. LockTableExact'
    BY <1>2 DEF LockTableExact, SameSessions
  <1>4. QED BY <1>1, <1>3

\* A step that touches no load figure and starts or ends no handler keeps the
\* figures exact.
LEMMA SameLoadKeeps ==
  ASSUME LoadGauges, SameLoad
  PROVE  LoadGauges'
  <1>1. /\ {u \in Threads : pc'[u] \in WriterPCs} = {u \in Threads : pc[u] \in WriterPCs}
        /\ {u \in Threads : pc'[u] \in ReaderPCs} = {u \in Threads : pc[u] \in ReaderPCs}
    BY DEF SameLoad
  <1>2. QED BY <1>1 DEF LoadGauges, SameLoad

\* A step that touches no lock of the engine and no session's place keeps the
\* engine's locks owned.
LEMMA SameEngineLocksKeep ==
  ASSUME Types, Types', UnloadedIsEmpty, EngineLocksOwned, SameEngineLocks
  PROVE  EngineLocksOwned'
  <1>1. mutex' \subseteq locked'
    BY DEF EngineLocksOwned, SameEngineLocks
  <1>2. ASSUME NEW p \in locked'
        PROVE  /\ p[2] < mem'[p[1]].capacity
               /\ \E t \in Threads : /\ pc'[t] \in {"mark", "unlock"}
                                     /\ <<req'[t].file, req'[t].idx>> = p
    <2>1. p \in locked /\ p \in Files \X Nat
      BY <1>2 DEF SameEngineLocks, Types
    <2>2. p[2] < mem[p[1]].capacity /\ p[1] \in Files /\ p[2] \in Nat
      BY <2>1 DEF EngineLocksOwned
    <2>3. mem[p[1]].loaded
      BY <2>2 DEF UnloadedIsEmpty
    <2>4. mem[p[1]].capacity \in Nat /\ mem'[p[1]].capacity \in Nat
      BY <2>2 DEF Types, FileRecord
    <2>5. p[2] < mem'[p[1]].capacity
      BY <2>2, <2>3, <2>4 DEF SameEngineLocks, CapacityGrows
    <2>6. PICK t \in Threads : /\ pc[t] \in {"mark", "unlock"}
                               /\ <<req[t].file, req[t].idx>> = p
      BY <2>1 DEF EngineLocksOwned
    <2>7. pc'[t] \in {"mark", "unlock"} /\ <<req'[t].file, req'[t].idx>> = p
      BY <2>6 DEF SameEngineLocks, SameUnlockers
    <2>8. QED BY <2>5, <2>7
  <1>3. QED BY <1>1, <1>2 DEF EngineLocksOwned

\* The engine calls never shrink a lock array.
LEMMA EngineCallsGrow ==
  ASSUME Types, NEW f \in Files
  PROVE  /\ Info(f) => CapacityGrows
         /\ Access(f) => CapacityGrows
         /\ \A i \in Nat : GrowLocks(f, i) => CapacityGrows
         /\ \A text \in Seq(Nat), room \in Nat :
                ReplaceContent(f, text, room) => CapacityGrows
  <1>1. /\ GetOrLoad(f) \in FileRecord
        /\ mem[f].loaded => GetOrLoad(f) = mem[f]
    BY GetOrLoadType
  <1>2. \A g \in Files : mem[g].capacity \in Nat
    BY DEF Types, FileRecord
  <1>3. ASSUME Info(f) \/ Access(f) PROVE CapacityGrows
    <2>1. mem' = [mem EXCEPT ![f] = GetOrLoad(f)]
      BY <1>3 DEF Info, Access
    <2>2. \A g \in Files : mem[g].loaded => mem'[g] = mem[g]
      BY <1>1, <2>1 DEF Types
    <2>3. QED BY <1>2, <2>2 DEF CapacityGrows
  <1>4. ASSUME NEW text \in Seq(Nat), NEW room \in Nat, ReplaceContent(f, text, room)
        PROVE  CapacityGrows
    <2>1. GetOrLoad(f).capacity \in Nat
      BY <1>1 DEF FileRecord
    <2>2. AtLeast(GetOrLoad(f).capacity, room) >= GetOrLoad(f).capacity
      BY <2>1, AtLeastType
    <2>3. mem'[f].capacity = AtLeast(GetOrLoad(f).capacity, room)
      BY <1>1, <1>4 DEF ReplaceContent, Types, FileRecord
    <2>4. \A g \in Files \ {f} : mem'[g] = mem[g]
      BY <1>4 DEF ReplaceContent, Types
    <2>5. QED BY <1>1, <1>2, <2>2, <2>3, <2>4 DEF CapacityGrows
  <1>5. ASSUME NEW i \in Nat, GrowLocks(f, i) PROVE CapacityGrows
    <2>1. RoomFor(f, i) \in Nat /\ RoomFor(f, i) >= GetOrLoad(f).capacity
      BY RoomForType
    <2>2. mem'[f].capacity = RoomFor(f, i)
      BY <1>1, <1>5 DEF GrowLocks, Types, FileRecord
    <2>3. \A g \in Files \ {f} : mem'[g] = mem[g]
      BY <1>5 DEF GrowLocks, Types
    <2>4. QED BY <1>1, <1>2, <2>1, <2>2, <2>3 DEF CapacityGrows
  <1>6. QED BY <1>3, <1>4, <1>5

-----------------------------------------------------------------------------
(* The small parts of the invariant.                                       *)

OthersSame(t) == \A u \in Threads \ {t} : pc'[u] = pc[u] /\ req'[u] = req[u]

\* A client's message or its leaving changes the thread's inputs only.
LEMMA ClientMoves ==
  ASSUME Types, NEW t \in Threads, ClientStep(t)
  PROVE  /\ OthersSame(t)
         /\ UNCHANGED <<pc, engineVars, serverVars>>
         /\ req'[t].file = req[t].file /\ req'[t].idx = req[t].idx
         /\ req'[t].version = req[t].version
  <1> USE DEF OthersSame, Types, Request, threadVars
  <1>1. CASE ClientUpdate(t)  BY <1>1 DEF ClientUpdate
  <1>2. CASE ClientCommit(t) \/ ClientOther(t)  BY <1>2 DEF ClientCommit, ClientOther
  <1>3. CASE ClientClose(t)   BY <1>3 DEF ClientClose
  <1>4. QED BY <1>1, <1>2, <1>3 DEF ClientStep

\* A thread at work has a file, after every step.
LEMMA ThreadsHaveFilesStep ==
  ASSUME Types, ThreadsHaveFiles, Next
  PROVE  ThreadsHaveFiles'
  <1>1. ASSUME NEW t \in Threads, NewConnection(t)
        PROVE  ThreadsHaveFiles'
    <2>1. CASE UNCHANGED threadVars
      BY <2>1 DEF ThreadsHaveFiles, threadVars
    <2>2. ASSUME NEW f \in Files, NEW i \in Indices, WriteInfo(t, f, i)
          PROVE  ThreadsHaveFiles'
      <3>1. req'[t].file = f
        BY <2>2 DEF WriteInfo, Types, NoRequest
      <3>2. \A u \in Threads \ {t} : pc'[u] = pc[u] /\ req'[u] = req[u]
        BY <2>2 DEF WriteInfo, Goto, Types
      <3>3. QED BY <3>1, <3>2 DEF ThreadsHaveFiles
    <2>3. ASSUME NEW f \in Files, NEW to, Serve(t, f, to)
          PROVE  ThreadsHaveFiles'
      <3>1. req'[t].file = f
        BY <2>3 DEF Serve, Types, NoRequest
      <3>2. \A u \in Threads \ {t} : pc'[u] = pc[u] /\ req'[u] = req[u]
        BY <2>3 DEF Serve, Goto, Types
      <3>3. QED BY <3>1, <3>2 DEF ThreadsHaveFiles
    <2>4. QED
      BY <1>1, <2>1, <2>2, <2>3 DEF NewConnection, WriteOutOfRange, ReaderStart,
         WriterStart, Checkpoint, InfoRequest, DeleteRecord
  <1>2. ASSUME NEW t \in Threads, ClientStep(t)
        PROVE  ThreadsHaveFiles'
    <2>1. OthersSame(t) /\ pc' = pc /\ req'[t].file = req[t].file
      BY <1>2, ClientMoves
    <2>2. QED BY <2>1 DEF ThreadsHaveFiles, OthersSame
  <1>3. ASSUME NEW t \in Threads, ThreadStep(t)
        PROVE  ThreadsHaveFiles'
    <2>1. \A u \in Threads \ {t} : pc'[u] = pc[u] /\ req'[u] = req[u]
      BY <1>3 DEF Types, ThreadStep, LockBusy, LockGranted, AckLock, RecvUpdate,
         CommitFresh, CommitStale, RecvFailed, RecvOther, ApplyRefused, ApplyInvalid, ApplyOK,
         MarkWritten, UnlockSentence, ReleaseLock, ReaderRead, StreamMark, ReadEnd,
         StreamEnd, MarkAccess, Undo, UndoEmpty, Revert, RevertMissing, WriterEnd,
         WriterFailed, DeleteUnlink, Finish, Goto
    <2>2. pc'[t] = "idle" \/ (pc[t] # "idle" /\ req'[t].file = req[t].file)
      BY <1>3 DEF Types, ThreadStep, LockBusy, LockGranted, AckLock, RecvUpdate,
         CommitFresh, CommitStale, RecvFailed, RecvOther, ApplyRefused, ApplyInvalid, ApplyOK,
         MarkWritten, UnlockSentence, ReleaseLock, ReaderRead, StreamMark, ReadEnd,
         StreamEnd, MarkAccess, Undo, UndoEmpty, Revert, RevertMissing, WriterEnd,
         WriterFailed, DeleteUnlink, Finish, Goto, Request
    <2>3. QED BY <2>1, <2>2 DEF ThreadsHaveFiles
  <1>4. CASE Tick
    BY <1>4 DEF Tick, ThreadsHaveFiles, threadVars
  <1>5. CASE Restart
    BY <1>5 DEF Restart, ThreadsHaveFiles
  <1>6. QED BY <1>1, <1>2, <1>3, <1>4, <1>5 DEF Next

\* What a step may do to the record of a file.
LEMMA RecordStep ==
  ASSUME Types, ThreadsHaveFiles, Next, NEW f \in Files
  PROVE  mem'[f] = mem[f] \/ mem'[f].loaded \/ mem'[f] = Unloaded
  <1>1. ASSUME NEW g \in Files,
               \/ Info(g) \/ Access(g)
               \/ mem' = [mem EXCEPT ![g] = GetOrLoad(g)]
               \/ \E c \in Nat :
                     mem' = [mem EXCEPT ![g] = [GetOrLoad(g) EXCEPT !.capacity = c]]
               \/ \E text, room : ReplaceContent(g, text, room)
        PROVE  mem'[f] = mem[f] \/ mem'[f].loaded
    <2>1. GetOrLoad(g) \in FileRecord /\ GetOrLoad(g).loaded
      BY GetOrLoadType
    <2>2. CASE f # g
      BY <1>1, <2>2 DEF Info, Access, ReplaceContent, Types
    <2>3. CASE f = g
      <3>1. CASE mem' = [mem EXCEPT ![g] = GetOrLoad(g)]
        BY <2>1, <2>3, <3>1 DEF Types
      <3>2. ASSUME NEW c \in Nat,
                   mem' = [mem EXCEPT ![g] = [GetOrLoad(g) EXCEPT !.capacity = c]]
            PROVE  mem'[f].loaded
        BY <2>1, <2>3, <3>2 DEF Types, FileRecord
      <3>3. ASSUME NEW text, NEW room, ReplaceContent(g, text, room)
            PROVE  mem'[f].loaded
        BY <2>1, <2>3, <3>3 DEF ReplaceContent, Types, FileRecord
      <3>4. QED BY <1>1, <3>1, <3>2, <3>3 DEF Info, Access
    <2>4. QED BY <2>2, <2>3
  <1>2. ASSUME NEW t \in Threads, NewConnection(t)
        PROVE  mem'[f] = mem[f] \/ mem'[f].loaded \/ mem'[f] = Unloaded
    <2>1. CASE mem' = mem
      BY <2>1
    <2>2. ASSUME NEW g \in Files, Info(g) \/ mem' = [mem EXCEPT ![g] = GetOrLoad(g)]
          PROVE  mem'[f] = mem[f] \/ mem'[f].loaded
      BY <1>1, <2>2
    <2>3. ASSUME NEW g \in Files, DeleteRecord(t, g)
          PROVE  mem'[f] = mem[f] \/ mem'[f] = Unloaded
      BY <2>3 DEF DeleteRecord, Types
    <2>4. QED
      BY <1>2, <2>1, <2>2, <2>3 DEF NewConnection, WriteOutOfRange, WriteInfo,
         ReaderStart, WriterStart, Checkpoint, InfoRequest, engineVars
  <1>3. ASSUME NEW t \in Threads, ThreadStep(t)
        PROVE  mem'[f] = mem[f] \/ mem'[f].loaded
    <2>1. CASE mem' = mem
      BY <2>1
    <2>2. req[t].file \in Files \/ pc[t] = "idle"
      BY DEF ThreadsHaveFiles
    <2>3. ASSUME pc[t] # "idle", GrowLocks(req[t].file, req[t].idx)
          PROVE  mem'[f] = mem[f] \/ mem'[f].loaded
      <3>1. req[t].file \in Files /\ req[t].idx \in Nat
        BY <2>2, <2>3 DEF Types, Request, Indices
      <3>2. RoomFor(req[t].file, req[t].idx) \in Nat
        BY <3>1, RoomForType
      <3>3. QED BY <1>1, <2>3, <3>1, <3>2 DEF GrowLocks
    <2>4. ASSUME NEW k \in Indices, NEW spill \in 0..1, NEW moved \in BOOLEAN,
                 ApplyOK(t, k, spill, moved)
          PROVE  mem'[f] = mem[f] \/ mem'[f].loaded
      BY <1>1, <2>2, <2>4 DEF ApplyOK, Goto
    <2>5. ASSUME AckLock(t) \/ MarkWritten(t) \/ ReaderRead(t) \/ StreamMark(t)
                 \/ MarkAccess(t)
          PROVE  mem'[f] = mem[f] \/ mem'[f].loaded
      BY <1>1, <2>2, <2>5 DEF AckLock, MarkWritten, ReaderRead, StreamMark, MarkAccess,
         Finish, Goto
    <2>6. ASSUME CommitFresh(t) \/ CommitStale(t) \/ UndoEmpty(t) \/ UnlockSentence(t)
          PROVE  mem'[f] = mem[f] \/ mem'[f].loaded
      BY <1>1, <2>2, <2>6 DEF CommitFresh, CommitStale, UndoEmpty, UnlockSentence, Goto
    <2>7. ASSUME Undo(t) \/ Revert(t)
          PROVE  mem'[f] = mem[f] \/ mem'[f].loaded
      BY <1>1, <2>2, <2>7 DEF Undo, Revert, Goto
    <2>8. ASSUME ApplyRefused(t) \/ ApplyInvalid(t)
          PROVE  mem'[f] = mem[f] \/ mem'[f].loaded
      BY <1>1, <2>2, <2>3, <2>8 DEF ApplyRefused, ApplyInvalid, Goto, engineVars
    <2>9. QED
      BY <1>3, <2>1, <2>4, <2>5, <2>6, <2>7, <2>8 DEF ThreadStep, LockBusy,
         LockGranted, RecvUpdate, RecvFailed, RecvOther, ReleaseLock, ReadEnd, StreamEnd,
         RevertMissing, WriterEnd, WriterFailed, DeleteUnlink, engineVars
  <1>4. ASSUME NEW t \in Threads, ClientStep(t)
        PROVE  mem' = mem
    BY <1>4 DEF ClientStep, ClientUpdate, ClientCommit, ClientOther, ClientClose, engineVars
  <1>5. CASE Tick
    BY <1>5 DEF Tick, engineVars
  <1>6. CASE Restart
    BY <1>6 DEF Restart
  <1>7. QED BY <1>2, <1>3, <1>4, <1>5, <1>6 DEF Next

\* A record that is not loaded is empty, after every step.
LEMMA UnloadedIsEmptyStep ==
  ASSUME Types, ThreadsHaveFiles, UnloadedIsEmpty, Next
  PROVE  UnloadedIsEmpty'
  BY RecordStep DEF UnloadedIsEmpty, Unloaded

-----------------------------------------------------------------------------
(* Sessions and the table of locked sentences.                             *)

\* A step of one thread that neither enters nor leaves a session.
LEMMA ThreadKeepsSessions ==
  ASSUME NEW t \in Threads, OthersSame(t), table' = table,
         InSession(t)' <=> InSession(t),
         InSession(t) => EntryOf(t)' = EntryOf(t)
  PROVE  SameSessions
  BY DEF SameSessions, OthersSame, InSession, EntryOf

\* A new connection occupies an idle thread and no session.
LEMMA NewConnectionMoves ==
  ASSUME Types, NEW t \in Threads, NewConnection(t)
  PROVE  /\ OthersSame(t)
         /\ table' = table
         /\ pc[t] = "idle"
         /\ pc'[t] \in {"idle", "lock", "access", "unlink", "read", "sread",
                        "undo", "revert"}
  <1>1. CASE \E f \in Files, i \in Indices : WriteOutOfRange(t, f, i) \/ WriteInfo(t, f, i)
    BY <1>1 DEF WriteOutOfRange, WriteInfo, Goto, OthersSame, Types, threadVars, serverVars
  <1>2. CASE \E f \in Files, to \in {"read", "sread"} : ReaderStart(t, f, to)
    BY <1>2 DEF ReaderStart, Serve, Goto, OthersSame, Types
  <1>3. CASE \E f \in Files, to \in {"undo", "revert"} : WriterStart(t, f, to)
    BY <1>3 DEF WriterStart, Serve, Goto, OthersSame, Types
  <1>4. CASE \E f \in Files : Checkpoint(t, f) \/ InfoRequest(t, f) \/ DeleteRecord(t, f)
    BY <1>4 DEF Checkpoint, InfoRequest, DeleteRecord, Serve, Goto, OthersSame, Types,
                threadVars, serverVars
  <1>5. QED BY <1>1, <1>2, <1>3, <1>4 DEF NewConnection

\* The steps of a thread inside a session.
LEMMA SessionMoves ==
  ASSUME Types, NEW t \in Threads,
         \/ AckLock(t) \/ RecvUpdate(t) \/ CommitFresh(t) \/ CommitStale(t)
         \/ RecvFailed(t) \/ RecvOther(t) \/ ApplyRefused(t) \/ ApplyInvalid(t)
         \/ \E k \in Indices, spill \in 0..1, moved \in BOOLEAN : ApplyOK(t, k, spill, moved)
         \/ MarkWritten(t) \/ UnlockSentence(t)
  PROVE  /\ OthersSame(t)
         /\ UNCHANGED serverVars
         /\ pc[t] \in SessionPCs /\ pc'[t] \in SessionPCs
         /\ req'[t].file = req[t].file /\ req'[t].idx = req[t].idx
         /\ req'[t].version = req[t].version
  <1> USE DEF Goto, OthersSame, Types, Request, SessionPCs
  <1>1. CASE AckLock(t) \/ RecvUpdate(t)
    BY <1>1 DEF AckLock, RecvUpdate
  <1>2. CASE CommitFresh(t) \/ CommitStale(t) \/ RecvFailed(t) \/ RecvOther(t)
    BY <1>2 DEF CommitFresh, CommitStale, RecvFailed, RecvOther
  <1>3. CASE ApplyRefused(t) \/ ApplyInvalid(t)
    BY <1>3 DEF ApplyRefused, ApplyInvalid
  <1>4. ASSUME NEW k \in Indices, NEW spill \in 0..1, NEW moved \in BOOLEAN,
                 ApplyOK(t, k, spill, moved)
        PROVE  /\ OthersSame(t)
               /\ UNCHANGED serverVars
               /\ pc[t] \in SessionPCs /\ pc'[t] \in SessionPCs
               /\ req'[t].file = req[t].file /\ req'[t].idx = req[t].idx
               /\ req'[t].version = req[t].version
    BY <1>4 DEF ApplyOK
  <1>5. CASE MarkWritten(t) \/ UnlockSentence(t)
    BY <1>5 DEF MarkWritten, UnlockSentence
  <1>6. QED BY <1>1, <1>2, <1>3, <1>4, <1>5

\* The steps of the handlers that have no session.
LEMMA HandlerMoves ==
  ASSUME Types, NEW t \in Threads,
         \/ LockBusy(t) \/ ReaderRead(t) \/ StreamMark(t) \/ ReadEnd(t) \/ StreamEnd(t)
         \/ MarkAccess(t) \/ Undo(t) \/ UndoEmpty(t) \/ Revert(t) \/ RevertMissing(t)
         \/ WriterEnd(t) \/ WriterFailed(t) \/ DeleteUnlink(t)
  PROVE  /\ OthersSame(t)
         /\ table' = table
         /\ pc[t] \notin SessionPCs /\ pc'[t] \notin SessionPCs
  <1> USE DEF Finish, Goto, OthersSame, Types, SessionPCs, serverVars
  <1>1. CASE LockBusy(t) \/ ReaderRead(t) \/ StreamMark(t) \/ ReadEnd(t)
    BY <1>1 DEF LockBusy, ReaderRead, StreamMark, ReadEnd
  <1>2. CASE StreamEnd(t) \/ MarkAccess(t) \/ Undo(t) \/ UndoEmpty(t)
    BY <1>2 DEF StreamEnd, MarkAccess, Undo, UndoEmpty
  <1>3. CASE Revert(t) \/ RevertMissing(t)
    BY <1>3 DEF Revert, RevertMissing
  <1>4. CASE WriterEnd(t) \/ WriterFailed(t) \/ DeleteUnlink(t)
    BY <1>4 DEF WriterEnd, WriterFailed, DeleteUnlink
  <1>5. QED BY <1>1, <1>2, <1>3, <1>4

\* A grant keeps exclusion, for it looks at the exact table.
LEMMA GrantKeeps ==
  ASSUME Types, SentenceExclusion, LockTableExact, NEW t \in Threads, LockGranted(t)
  PROVE  SentenceExclusion' /\ LockTableExact'
  <1>1. /\ OthersSame(t) /\ ~ InSession(t) /\ InSession(t)'
        /\ req'[t].file = req[t].file /\ req'[t].idx = req[t].idx
        /\ req'[t].version = req[t].version
    BY DEF LockGranted, Goto, OthersSame, InSession, SessionPCs, Types, Request
  <1>2. table' = table \cup {EntryOf(t)'}
    BY <1>1 DEF LockGranted, EntryOf
  <1>3. \A u \in Threads \ {t} : /\ InSession(u)' <=> InSession(u)
                                 /\ EntryOf(u)' = EntryOf(u)
    BY <1>1 DEF OthersSame, InSession, EntryOf
  <1>4. ASSUME NEW u \in Threads \ {t}, InSession(u)
        PROVE  <<req[t].file, req[t].idx>> # <<req[u].file, req[u].idx>>
    <2>1. EntryOf(u) \in table
      BY <1>4 DEF LockTableExact
    <2>2. EntryOf(u) \notin Entries(req[t].file, req[t].idx)
      BY DEF LockGranted, is_sentence_locked
    <2>3. QED BY <2>1, <2>2 DEF Entries, EntryOf
  <1>5. SentenceExclusion'
    <2> SUFFICES ASSUME NEW u \in Threads, NEW v \in Threads,
                        InSession(u)', InSession(v)', u # v
                 PROVE  <<req'[u].file, req'[u].idx>> # <<req'[v].file, req'[v].idx>>
      BY DEF SentenceExclusion
    <2>1. CASE u = t
      BY <1>1, <1>3, <1>4, <2>1 DEF OthersSame
    <2>2. CASE v = t
      BY <1>1, <1>3, <1>4, <2>2 DEF OthersSame
    <2>3. CASE u # t /\ v # t
      BY <1>1, <1>3, <2>3 DEF OthersSame, SentenceExclusion
    <2>4. QED BY <2>1, <2>2, <2>3
  <1>6. LockTableExact'
    <2>1. {EntryOf(u)' : u \in {v \in Threads : InSession(v)'}}
             = {EntryOf(u) : u \in {v \in Threads : InSession(v)}} \cup {EntryOf(t)'}
      BY <1>1, <1>3
    <2>2. QED BY <1>2, <2>1 DEF LockTableExact
  <1>7. QED BY <1>5, <1>6

\* The key of a session denotes its own entry: what remove_sentence_lock
\* removes.
LEMMA OwnEntry ==
  ASSUME SentenceExclusion, LockTableExact, NEW t \in Threads, InSession(t)
  PROVE  /\ Entries(req[t].file, req[t].idx) = {EntryOf(t)}
         /\ remove_sentence_lock(req[t].file, req[t].idx) = table \ {EntryOf(t)}
  <1>1. EntryOf(t) \in Entries(req[t].file, req[t].idx)
    BY DEF LockTableExact, Entries, EntryOf
  <1>2. ASSUME NEW e \in Entries(req[t].file, req[t].idx)
        PROVE  e = EntryOf(t)
    <2>1. PICK u \in Threads : InSession(u) /\ e = EntryOf(u)
      BY <1>2 DEF Entries, LockTableExact
    <2>2. req[u].file = req[t].file /\ req[u].idx = req[t].idx
      BY <1>2, <2>1 DEF Entries, EntryOf
    <2>3. u = t
      BY <2>1, <2>2 DEF SentenceExclusion
    <2>4. QED BY <2>1, <2>3
  <1>3. Entries(req[t].file, req[t].idx) = {EntryOf(t)}
    BY <1>1, <1>2
  <1>4. The({EntryOf(t)}) = EntryOf(t)
    BY TheInSet
  <1>5. QED BY <1>3, <1>4 DEF remove_sentence_lock

\* A removal by key takes the entry of its own session only.
LEMMA ReleaseKeeps ==
  ASSUME Types, SentenceExclusion, LockTableExact, NEW t \in Threads, ReleaseLock(t)
  PROVE  SentenceExclusion' /\ LockTableExact'
  <1>1. OthersSame(t) /\ InSession(t) /\ ~ InSession(t)'
    BY DEF ReleaseLock, Finish, Goto, OthersSame, InSession, SessionPCs, Types
  <1>2. table' = table \ {EntryOf(t)}
    BY <1>1, OwnEntry DEF ReleaseLock
  <1>3. \A u \in Threads \ {t} : /\ InSession(u)' <=> InSession(u)
                                 /\ EntryOf(u)' = EntryOf(u)
                                 /\ EntryOf(u) # EntryOf(t)
    BY <1>1 DEF OthersSame, InSession, EntryOf
  <1>4. SentenceExclusion'
    BY <1>1, <1>3 DEF SentenceExclusion, OthersSame
  <1>5. {EntryOf(u)' : u \in {v \in Threads : InSession(v)'}}
           = {EntryOf(u) : u \in {v \in Threads : InSession(v)}} \ {EntryOf(t)}
    BY <1>1, <1>3
  <1>6. QED BY <1>2, <1>4, <1>5 DEF LockTableExact

\* Every step keeps exclusion and the exact table.
LEMMA SessionsStep ==
  ASSUME Types, SentenceExclusion, LockTableExact, Next
  PROVE  SentenceExclusion' /\ LockTableExact'
  <1>1. ASSUME NEW t \in Threads, NewConnection(t)
        PROVE  SameSessions
    BY <1>1, NewConnectionMoves, ThreadKeepsSessions DEF InSession, SessionPCs
  <1>2. ASSUME NEW t \in Threads, ClientStep(t)
        PROVE  SameSessions
    BY <1>2, ClientMoves, ThreadKeepsSessions DEF InSession, EntryOf, serverVars
  <1>3. ASSUME NEW t \in Threads, ThreadStep(t), ~ LockGranted(t), ~ ReleaseLock(t)
        PROVE  SameSessions
    BY <1>3, SessionMoves, HandlerMoves, ThreadKeepsSessions
    DEF ThreadStep, InSession, EntryOf, serverVars
  <1>4. ASSUME Tick
        PROVE  SameSessions
    BY <1>4 DEF Tick, SameSessions, InSession, EntryOf, threadVars, serverVars
  <1>5. CASE Restart
    BY <1>5 DEF Restart, SentenceExclusion, LockTableExact, InSession, SessionPCs
  <1>6. ASSUME NEW t \in Threads, NewConnection(t) \/ ClientStep(t) \/ ThreadStep(t)
        PROVE  SentenceExclusion' /\ LockTableExact'
    <2>1. CASE LockGranted(t)
      BY <2>1, GrantKeeps
    <2>2. CASE ReleaseLock(t)
      BY <2>2, ReleaseKeeps
    <2>3. CASE ~ LockGranted(t) /\ ~ ReleaseLock(t)
      <3>1. SameSessions
        BY <1>1, <1>2, <1>3, <1>6, <2>3
      <3>2. QED BY <3>1, SameSessionsKeep
    <2>4. QED BY <2>1, <2>2, <2>3
  <1>7. QED BY <1>4, <1>5, <1>6, SameSessionsKeep DEF Next

-----------------------------------------------------------------------------
(* The load figures.                                                       *)

\* One thread enters, or leaves, the places P.
LEMMA CountMoves ==
  ASSUME NEW P, NEW t \in Threads, OthersSame(t)
  PROVE  /\ pc[t] \notin P /\ pc'[t] \in P =>
              Cardinality({u \in Threads : pc'[u] \in P})
                  = Cardinality({u \in Threads : pc[u] \in P}) + 1
         /\ pc[t] \in P /\ pc'[t] \notin P =>
              Cardinality({u \in Threads : pc'[u] \in P})
                  = Cardinality({u \in Threads : pc[u] \in P}) - 1
         /\ (pc[t] \in P <=> pc'[t] \in P) =>
              Cardinality({u \in Threads : pc'[u] \in P})
                  = Cardinality({u \in Threads : pc[u] \in P})
  <1> DEFINE old == {u \in Threads : pc[u] \in P}
             new == {u \in Threads : pc'[u] \in P}
  <1>1. IsFiniteSet(old) /\ IsFiniteSet(new)
    BY ConstantsAssumption, FS_Subset
  <1>2. ASSUME pc[t] \notin P, pc'[t] \in P
        PROVE  Cardinality(new) = Cardinality(old) + 1
    <2>1. new = old \cup {t} /\ t \notin old
      BY <1>2 DEF OthersSame
    <2> HIDE DEF old, new
    <2>2. QED BY <1>1, <2>1, FS_AddElement
  <1>3. ASSUME pc[t] \in P, pc'[t] \notin P
        PROVE  Cardinality(new) = Cardinality(old) - 1
    <2>1. new = old \ {t} /\ t \in old
      BY <1>3 DEF OthersSame
    <2> HIDE DEF old, new
    <2>2. QED BY <1>1, <2>1, FS_RemoveElement
  <1>4. ASSUME pc[t] \in P <=> pc'[t] \in P
        PROVE  new = old
    BY <1>4 DEF OthersSame
  <1>5. QED BY <1>2, <1>3, <1>4

\* A step that moves one thread keeps the figures exact when each gauge follows
\* the thread.
LEMMA GaugesFollow ==
  ASSUME LoadGauges, NEW t \in Threads, OthersSame(t),
         \/ pc[t] \notin WriterPCs /\ pc'[t] \in WriterPCs
               /\ active_writers' = active_writers + 1
         \/ pc[t] \in WriterPCs /\ pc'[t] \notin WriterPCs
               /\ active_writers' = active_writers - 1
         \/ (pc[t] \in WriterPCs <=> pc'[t] \in WriterPCs)
               /\ active_writers' = active_writers,
         \/ pc[t] \notin ReaderPCs /\ pc'[t] \in ReaderPCs
               /\ active_readers' = active_readers + 1
         \/ pc[t] \in ReaderPCs /\ pc'[t] \notin ReaderPCs
               /\ active_readers' = active_readers - 1
         \/ (pc[t] \in ReaderPCs <=> pc'[t] \in ReaderPCs)
               /\ active_readers' = active_readers
  PROVE  LoadGauges'
  <1>1. active_writers' = Cardinality({u \in Threads : pc'[u] \in WriterPCs})
    BY CountMoves DEF LoadGauges
  <1>2. active_readers' = Cardinality({u \in Threads : pc'[u] \in ReaderPCs})
    BY CountMoves DEF LoadGauges
  <1>3. QED BY <1>1, <1>2 DEF LoadGauges

\* Every step keeps the load figures exact, on each way out of a handler.
LEMMA LoadStep ==
  ASSUME Types, LoadGauges, Next
  PROVE  LoadGauges'
  <1> USE DEF SessionPCs, WriterPCs, ReaderPCs
  <1>1. ASSUME NEW t \in Threads, NewConnection(t)
        PROVE  LoadGauges'
    <2>1. OthersSame(t) /\ pc[t] = "idle"
      BY <1>1, NewConnectionMoves
    <2>2. CASE \E f \in Files, to \in {"read", "sread"} : ReaderStart(t, f, to)
      <3>1. /\ pc'[t] \in {"read", "sread"}
            /\ active_readers' = active_readers + 1 /\ active_writers' = active_writers
        BY <2>2 DEF ReaderStart, Serve, Goto, Types
      <3>2. QED BY <2>1, <3>1, GaugesFollow
    <2>3. CASE \E f \in Files, to \in {"undo", "revert"} : WriterStart(t, f, to)
      <3>1. /\ pc'[t] \in {"undo", "revert"}
            /\ active_writers' = active_writers + 1 /\ active_readers' = active_readers
        BY <2>3 DEF WriterStart, Serve, Goto, Types
      <3>2. QED BY <2>1, <3>1, GaugesFollow
    <2>4. CASE \E f \in Files :
                  \/ Checkpoint(t, f) \/ InfoRequest(t, f) \/ DeleteRecord(t, f)
                  \/ \E i \in Indices : WriteOutOfRange(t, f, i) \/ WriteInfo(t, f, i)
      <3>1. /\ pc'[t] \in {"idle", "lock", "access", "unlink"}
            /\ active_writers' = active_writers /\ active_readers' = active_readers
        BY <2>4 DEF Checkpoint, InfoRequest, DeleteRecord, WriteOutOfRange, WriteInfo,
                    Serve, Goto, Types, threadVars, serverVars
      <3>2. QED BY <2>1, <3>1, GaugesFollow
    <2>5. QED BY <1>1, <2>2, <2>3, <2>4 DEF NewConnection
  <1>2. ASSUME NEW t \in Threads, ClientStep(t)
        PROVE  LoadGauges'
    BY <1>2, ClientMoves DEF LoadGauges, serverVars
  <1>3. ASSUME NEW t \in Threads, LockGranted(t)
        PROVE  LoadGauges'
    <2>1. /\ OthersSame(t) /\ pc[t] = "lock" /\ pc'[t] = "ack"
          /\ active_writers' = active_writers + 1 /\ active_readers' = active_readers
      BY <1>3 DEF LockGranted, Goto, OthersSame, Types
    <2>2. QED BY <2>1, GaugesFollow
  <1>4. ASSUME NEW t \in Threads, ReleaseLock(t) \/ WriterEnd(t) \/ WriterFailed(t)
        PROVE  LoadGauges'
    <2>1. /\ OthersSame(t) /\ pc[t] \in {"release", "wend", "wfail"}
          /\ pc'[t] \in {"idle", "access"}
          /\ active_writers' = active_writers - 1 /\ active_readers' = active_readers
      BY <1>4 DEF ReleaseLock, WriterEnd, WriterFailed, Finish, Goto, OthersSame, Types
    <2>2. QED BY <2>1, GaugesFollow
  <1>5. ASSUME NEW t \in Threads, ReadEnd(t) \/ StreamEnd(t)
        PROVE  LoadGauges'
    <2>1. /\ OthersSame(t) /\ pc[t] \in {"rend", "send"} /\ pc'[t] \in {"idle", "access"}
          /\ active_readers' = active_readers - 1 /\ active_writers' = active_writers
      BY <1>5 DEF ReadEnd, StreamEnd, Finish, Goto, OthersSame, Types
    <2>2. QED BY <2>1, GaugesFollow
  <1>6. ASSUME NEW t \in Threads,
               \/ AckLock(t) \/ RecvUpdate(t) \/ CommitFresh(t) \/ CommitStale(t)
               \/ RecvFailed(t) \/ RecvOther(t) \/ ApplyRefused(t) \/ ApplyInvalid(t)
               \/ \E k \in Indices, spill \in 0..1, moved \in BOOLEAN : ApplyOK(t, k, spill, moved)
               \/ MarkWritten(t) \/ UnlockSentence(t)
        PROVE  LoadGauges'
    <2>1. /\ OthersSame(t) /\ pc[t] \in SessionPCs /\ pc'[t] \in SessionPCs
          /\ active_writers' = active_writers /\ active_readers' = active_readers
      BY <1>6, SessionMoves DEF serverVars
    <2>2. QED BY <2>1, GaugesFollow
  <1>7. ASSUME NEW t \in Threads,
               \/ LockBusy(t) \/ ReaderRead(t) \/ StreamMark(t) \/ MarkAccess(t)
               \/ Undo(t) \/ UndoEmpty(t) \/ Revert(t) \/ RevertMissing(t)
               \/ DeleteUnlink(t)
        PROVE  LoadGauges'
    <2>1. OthersSame(t)
      BY <1>7, HandlerMoves
    <2>2. /\ pc[t] \in WriterPCs <=> pc'[t] \in WriterPCs
          /\ pc[t] \in ReaderPCs <=> pc'[t] \in ReaderPCs
          /\ active_writers' = active_writers /\ active_readers' = active_readers
      BY <1>7 DEF LockBusy, ReaderRead, StreamMark, MarkAccess, Undo, UndoEmpty, Revert,
         RevertMissing, DeleteUnlink, Finish, Goto, Types, serverVars
    <2>3. QED BY <2>1, <2>2, GaugesFollow
  <1>8. CASE Tick
    BY <1>8 DEF Tick, LoadGauges, threadVars, serverVars
  <1>9. CASE Restart
    <2>1. /\ {u \in Threads : pc'[u] \in WriterPCs} = {}
          /\ {u \in Threads : pc'[u] \in ReaderPCs} = {}
      BY <1>9 DEF Restart
    <2>2. QED BY <1>9, <2>1, FS_EmptySet DEF Restart, LoadGauges
  <1>10. QED
    BY <1>1, <1>2, <1>3, <1>4, <1>5, <1>6, <1>7, <1>8, <1>9 DEF Next, ThreadStep

-----------------------------------------------------------------------------
(* The locks of the engine.                                                *)

\* A step of one thread that keeps the locks, and leaves the thread between
\* storage_engine_write and storage_engine_unlock_sentence if it was there.
LEMMA ThreadKeepsEngineLocks ==
  ASSUME NEW t \in Threads, OthersSame(t), mutex' = mutex, locked' = locked,
         CapacityGrows,
         pc[t] \in {"mark", "unlock"} =>
             /\ pc'[t] \in {"mark", "unlock"}
             /\ req'[t].file = req[t].file /\ req'[t].idx = req[t].idx
  PROVE  SameEngineLocks
  BY DEF SameEngineLocks, SameUnlockers, OthersSame

\* No lock array shrinks where memory stays as it is.
LEMMA SameMemoryGrows ==
  ASSUME Types, mem' = mem
  PROVE  CapacityGrows
  BY DEF CapacityGrows, Types, FileRecord

\* storage_engine_write leaves locks behind that its own session gives back,
\* wherever it fails.
LEMMA ApplyKeepsEngineLocks ==
  ASSUME Types, Types', ThreadsHaveFiles, UnloadedIsEmpty, EngineLocksOwned,
         NEW t \in Threads,
         \/ ApplyInvalid(t)
         \/ \E k \in Indices, spill \in 0..1, moved \in BOOLEAN : ApplyOK(t, k, spill, moved)
  PROVE  EngineLocksOwned'
  <1> DEFINE f == req[t].file
             i == req[t].idx
             new == <<f, i>>
  <1>1. /\ f \in Files /\ i \in Nat /\ pc[t] = "apply" /\ OthersSame(t)
        /\ pc'[t] \in {"mark", "unlock"} /\ req' = req
        /\ i <= Len(GetOrLoad(f).sentences) /\ new \notin mutex
    <2>1. /\ pc[t] = "apply" /\ pc'[t] \in {"mark", "unlock"} /\ req' = req /\ OthersSame(t)
      BY DEF ApplyInvalid, ApplyOK, Goto, OthersSame, Types
    <2>2. i <= Len(GetOrLoad(f).sentences) /\ new \notin mutex
      BY DEF ApplyInvalid, ApplyOK
    <2>3. f \in Files /\ i \in Nat
      BY <2>1 DEF Types, ThreadsHaveFiles, Request, Indices
    <2>4. QED BY <2>1, <2>2, <2>3
  <1>2. GetOrLoad(f) \in FileRecord /\ (mem[f].loaded => GetOrLoad(f) = mem[f])
    BY <1>1, GetOrLoadType
  <1>3. RoomFor(f, i) \in Nat /\ RoomFor(f, i) >= GetOrLoad(f).capacity /\ i < RoomFor(f, i)
    BY <1>1, RoomForType
  <1>4. mem'[f].capacity >= RoomFor(f, i) /\ \A g \in Files \ {f} : mem'[g] = mem[g]
    <2>1. CASE ApplyInvalid(t)
      BY <1>1, <1>2, <1>3, <2>1 DEF ApplyInvalid, GrowLocks, Types, FileRecord
    <2>2. ASSUME NEW k \in Indices, NEW spill \in 0..1, NEW moved \in BOOLEAN,
                 ApplyOK(t, k, spill, moved)
          PROVE  mem'[f].capacity >= RoomFor(f, i) /\ \A g \in Files \ {f} : mem'[g] = mem[g]
      <3> DEFINE text == Edited(GetOrLoad(f).sentences, i, k, spill)
                 room == AtLeast(RoomFor(f, i), Len(text))
      <3>1. k \in Nat /\ nextSentence \in Nat /\ GetOrLoad(f).sentences \in Seq(Nat)
        BY <1>2, ConstantsAssumption DEF Indices, Types, FileRecord
      <3>2. Len(text) \in Nat
        BY <1>1, <3>1, EditedType, LenProperties
      <3>3. room \in Nat /\ room >= RoomFor(f, i)
        BY <1>3, <3>2, AtLeastType
      <3>4. ReplaceContent(f, text, room)
        BY <2>2 DEF ApplyOK
      <3> HIDE DEF text, room
      <3>5. /\ mem'[f].capacity = AtLeast(GetOrLoad(f).capacity, room)
            /\ \A g \in Files \ {f} : mem'[g] = mem[g]
        BY <1>1, <1>2, <3>4 DEF ReplaceContent, Types, FileRecord
      <3>6. GetOrLoad(f).capacity \in Nat
        BY <1>2 DEF FileRecord
      <3>7. QED BY <1>3, <3>3, <3>5, <3>6 DEF AtLeast
    <2>3. QED BY <2>1, <2>2
  <1>5. locked' \subseteq locked \cup {new}
    BY DEF ApplyInvalid, ApplyOK
  <1>6. mutex' \subseteq locked'
    <2>1. mutex \subseteq locked
      BY DEF EngineLocksOwned
    <2>2. CASE ApplyInvalid(t)
      BY <2>1, <2>2 DEF ApplyInvalid, GrowLocks
    <2>3. ASSUME NEW k \in Indices, NEW spill \in 0..1, NEW moved \in BOOLEAN,
                 ApplyOK(t, k, spill, moved)
          PROVE  mutex' \subseteq locked'
      BY <1>1, <2>1, <2>3 DEF ApplyOK
    <2>4. QED BY <2>2, <2>3
  <1>7. \A g \in Files : mem[g].capacity \in Nat /\ mem'[g].capacity \in Nat
    BY DEF Types, FileRecord
  <1>8. ASSUME NEW p \in locked'
        PROVE  /\ p[2] < mem'[p[1]].capacity
               /\ \E u \in Threads : /\ pc'[u] \in {"mark", "unlock"}
                                     /\ <<req'[u].file, req'[u].idx>> = p
    <2>1. CASE p = new
      <3>1. i < mem'[f].capacity
        BY <1>1, <1>3, <1>4, <1>7
      <3>2. QED BY <1>1, <2>1, <3>1
    <2>2. CASE p # new
      <3>1. p \in locked /\ p[1] \in Files /\ p[2] \in Nat
        BY <1>5, <1>8, <2>2 DEF Types
      <3>2. p[2] < mem[p[1]].capacity
        BY <3>1 DEF EngineLocksOwned
      <3>3. p[2] < mem'[p[1]].capacity
        <4>1. CASE p[1] # f
          BY <1>4, <3>1, <3>2, <4>1
        <4>2. CASE p[1] = f
          <5>1. mem[f].loaded
            BY <3>1, <3>2, <4>2 DEF UnloadedIsEmpty
          <5>2. mem'[f].capacity >= mem[f].capacity
            BY <1>1, <1>2, <1>3, <1>4, <1>7, <5>1
          <5>3. QED BY <1>1, <1>7, <3>1, <3>2, <4>2, <5>2
        <4>3. QED BY <4>1, <4>2
      <3>4. PICK u \in Threads : /\ pc[u] \in {"mark", "unlock"}
                                 /\ <<req[u].file, req[u].idx>> = p
        BY <3>1 DEF EngineLocksOwned
      <3>5. pc'[u] \in {"mark", "unlock"} /\ <<req'[u].file, req'[u].idx>> = p
        BY <1>1, <3>4 DEF OthersSame
      <3>6. QED BY <3>3, <3>5
    <2>3. QED BY <2>1, <2>2
  <1>9. QED BY <1>6, <1>8 DEF EngineLocksOwned

\* The session's unlock finds whatever the write left behind.
LEMMA UnlockKeepsEngineLocks ==
  ASSUME Types, Types', ThreadsHaveFiles, UnloadedIsEmpty, EngineLocksOwned,
         NEW t \in Threads, UnlockSentence(t)
  PROVE  EngineLocksOwned'
  <1> DEFINE f == req[t].file
             i == req[t].idx
             own == <<f, i>>
  <1>1. pc[t] = "unlock" /\ req' = req /\ OthersSame(t)
    BY DEF UnlockSentence, Goto, OthersSame, Types
  <1>2. f \in Files /\ i \in Nat
    BY <1>1 DEF Types, ThreadsHaveFiles, Request, Indices
  <1>3. CapacityGrows
    <2>1. /\ GetOrLoad(f) \in FileRecord
          /\ mem[f].loaded => GetOrLoad(f) = mem[f]
      BY <1>2, GetOrLoadType
    <2>2. \A g \in Files : mem[g].capacity \in Nat
      BY DEF Types, FileRecord
    <2>3. QED BY <1>2, <2>1, <2>2 DEF UnlockSentence, CapacityGrows, Types
  <1>4. own \in locked => i < GetOrLoad(f).capacity
    <2>1. own \in locked => i < mem[f].capacity
      BY DEF EngineLocksOwned
    <2>2. own \in locked => mem[f].loaded
      BY <1>2, <2>1 DEF UnloadedIsEmpty
    <2>3. QED BY <1>2, <2>1, <2>2, GetOrLoadType
  <1>5. locked' = locked \ {own} /\ mutex' \subseteq mutex \ {own}
    BY <1>4 DEF UnlockSentence, EngineLocksOwned
  <1>6. ASSUME NEW p \in locked'
        PROVE  /\ p[2] < mem'[p[1]].capacity
               /\ \E u \in Threads : /\ pc'[u] \in {"mark", "unlock"}
                                     /\ <<req'[u].file, req'[u].idx>> = p
    <2>1. p \in locked /\ p # own /\ p[1] \in Files /\ p[2] \in Nat
      BY <1>5, <1>6 DEF Types
    <2>2. p[2] < mem[p[1]].capacity
      BY <2>1 DEF EngineLocksOwned
    <2>3. mem[p[1]].loaded
      BY <2>1, <2>2 DEF UnloadedIsEmpty
    <2>4. mem[p[1]].capacity \in Nat /\ mem'[p[1]].capacity \in Nat
      BY <2>1 DEF Types, FileRecord
    <2>5. p[2] < mem'[p[1]].capacity
      BY <1>3, <2>1, <2>2, <2>3, <2>4 DEF CapacityGrows
    <2>6. PICK u \in Threads : /\ pc[u] \in {"mark", "unlock"}
                               /\ <<req[u].file, req[u].idx>> = p
      BY <2>1 DEF EngineLocksOwned
    <2>7. pc'[u] \in {"mark", "unlock"} /\ <<req'[u].file, req'[u].idx>> = p
      BY <1>1, <2>1, <2>6 DEF OthersSame
    <2>8. QED BY <2>5, <2>7
  <1>7. mutex' \subseteq locked'
    BY <1>5 DEF EngineLocksOwned
  <1>8. QED BY <1>6, <1>7 DEF EngineLocksOwned

\* A deleted record takes its lock array with it.
LEMMA DeleteKeepsEngineLocks ==
  ASSUME Types, EngineLocksOwned, NEW t \in Threads, NEW f \in Files, DeleteRecord(t, f)
  PROVE  EngineLocksOwned'
  <1>1. pc[t] = "idle" /\ OthersSame(t)
    BY DEF DeleteRecord, Serve, Goto, OthersSame, Types
  <1>2. ASSUME NEW p \in locked'
        PROVE  /\ p[2] < mem'[p[1]].capacity
               /\ \E u \in Threads : /\ pc'[u] \in {"mark", "unlock"}
                                     /\ <<req'[u].file, req'[u].idx>> = p
    <2>1. p \in locked /\ p \in Files \X Nat /\ p \notin {f} \X Nat
      BY <1>2 DEF DeleteRecord, Types
    <2>2. p[1] \in Files \ {f}
      BY <2>1
    <2>3. mem'[p[1]] = mem[p[1]]
      BY <2>2 DEF DeleteRecord, Types
    <2>4. p[2] < mem'[p[1]].capacity
      BY <2>1, <2>3 DEF EngineLocksOwned
    <2>5. PICK u \in Threads : /\ pc[u] \in {"mark", "unlock"}
                               /\ <<req[u].file, req[u].idx>> = p
      BY <2>1 DEF EngineLocksOwned
    <2>6. pc'[u] \in {"mark", "unlock"} /\ <<req'[u].file, req'[u].idx>> = p
      BY <1>1, <2>5 DEF OthersSame
    <2>7. QED BY <2>4, <2>6
  <1>3. mutex' \subseteq locked'
    BY DEF EngineLocksOwned, DeleteRecord
  <1>4. QED BY <1>2, <1>3 DEF EngineLocksOwned

\* Every step keeps the engine's locks owned.
LEMMA EngineLocksStep ==
  ASSUME Types, Types', ThreadsHaveFiles, UnloadedIsEmpty, EngineLocksOwned, Next
  PROVE  EngineLocksOwned'
  <1>1. ASSUME NEW t \in Threads, NEW f \in Files,
               \/ Checkpoint(t, f) \/ InfoRequest(t, f)
               \/ ReaderStart(t, f, "read") \/ ReaderStart(t, f, "sread")
               \/ WriterStart(t, f, "undo") \/ WriterStart(t, f, "revert")
               \/ \E i \in Indices : WriteOutOfRange(t, f, i) \/ WriteInfo(t, f, i),
               NewConnection(t)
        PROVE  SameEngineLocks
    <2>1. OthersSame(t) /\ pc[t] = "idle"
      BY <1>1, NewConnectionMoves
    <2>2. mutex' = mutex /\ locked' = locked
      BY <1>1 DEF Checkpoint, InfoRequest, ReaderStart, WriterStart, WriteOutOfRange,
                  WriteInfo, Info, engineVars
    <2>3. mem' = mem \/ mem' = [mem EXCEPT ![f] = GetOrLoad(f)]
      BY <1>1 DEF Checkpoint, InfoRequest, ReaderStart, WriterStart, WriteOutOfRange,
                  WriteInfo, Info, engineVars
    <2>4. CapacityGrows
      <3>1. \A g \in Files : mem[g].capacity \in Nat
        BY DEF Types, FileRecord
      <3>2. mem[f].loaded => GetOrLoad(f) = mem[f]
        BY GetOrLoadType
      <3>3. \A g \in Files : mem[g].loaded => mem'[g] = mem[g]
        <4>1. CASE mem' = mem
          BY <4>1
        <4>2. CASE mem' = [mem EXCEPT ![f] = GetOrLoad(f)]
          BY <3>2, <4>2 DEF Types
        <4>3. QED BY <2>3, <4>1, <4>2
      <3>4. QED BY <3>1, <3>3 DEF CapacityGrows
    <2>5. QED BY <2>1, <2>2, <2>4, ThreadKeepsEngineLocks
  <1>2. ASSUME NEW t \in Threads, ClientStep(t)
        PROVE  SameEngineLocks
    BY <1>2, ClientMoves, SameMemoryGrows, ThreadKeepsEngineLocks DEF engineVars
  <1>3. ASSUME NEW t \in Threads,
               \/ LockBusy(t) \/ LockGranted(t) \/ RecvUpdate(t) \/ RecvFailed(t)
               \/ RecvOther(t) \/ ReleaseLock(t) \/ ReadEnd(t) \/ StreamEnd(t) \/ RevertMissing(t)
               \/ WriterEnd(t) \/ WriterFailed(t) \/ DeleteUnlink(t)
        PROVE  SameEngineLocks
    <2>1. OthersSame(t) /\ pc[t] \notin {"mark", "unlock"}
      BY <1>3 DEF LockBusy, LockGranted, RecvUpdate, RecvFailed, RecvOther, ReleaseLock, ReadEnd,
         StreamEnd, RevertMissing, WriterEnd, WriterFailed, DeleteUnlink, Finish, Goto,
         OthersSame, Types
    <2>2. mutex' = mutex /\ locked' = locked /\ mem' = mem
      BY <1>3 DEF LockBusy, LockGranted, RecvUpdate, RecvFailed, RecvOther, ReleaseLock, ReadEnd,
         StreamEnd, RevertMissing, WriterEnd, WriterFailed, DeleteUnlink, engineVars
    <2>3. QED BY <2>1, <2>2, SameMemoryGrows, ThreadKeepsEngineLocks
  <1>4. ASSUME NEW t \in Threads,
               \/ AckLock(t) \/ CommitFresh(t) \/ CommitStale(t) \/ MarkWritten(t)
               \/ ReaderRead(t) \/ StreamMark(t) \/ MarkAccess(t) \/ UndoEmpty(t)
        PROVE  SameEngineLocks
    <2>1. /\ OthersSame(t) /\ pc[t] # "idle"
          /\ pc[t] \in {"mark", "unlock"} => pc'[t] = "unlock" /\ req' = req
      BY <1>4 DEF AckLock, CommitFresh, CommitStale, MarkWritten, ReaderRead, StreamMark,
         MarkAccess, UndoEmpty, Finish, Goto, OthersSame, Types
    <2>2. req[t].file \in Files
      BY <2>1 DEF ThreadsHaveFiles
    <2>3. Info(req[t].file) \/ Access(req[t].file)
      BY <1>4 DEF AckLock, CommitFresh, CommitStale, MarkWritten, ReaderRead, StreamMark,
         MarkAccess, UndoEmpty
    <2>4. CapacityGrows
      BY <2>2, <2>3, EngineCallsGrow
    <2>5. mutex' = mutex /\ locked' = locked
      BY <2>3 DEF Info, Access
    <2>6. QED BY <2>1, <2>4, <2>5, ThreadKeepsEngineLocks
  <1>5. ASSUME NEW t \in Threads, Undo(t) \/ Revert(t)
        PROVE  SameEngineLocks
    <2>1. OthersSame(t) /\ pc[t] \in {"undo", "revert"} /\ mutex' = mutex /\ locked' = locked
      BY <1>5 DEF Undo, Revert, Goto, OthersSame, Types
    <2>2. req[t].file \in Files
      BY <2>1 DEF ThreadsHaveFiles
    <2>3. /\ GetOrLoad(req[t].file).undo \in SUBSET Seq(Nat)
          /\ ckpt[req[t].file] \in SUBSET Seq(Nat)
      BY <2>2, GetOrLoadType DEF FileRecord, Types
    <2>4. PICK text \in Seq(Nat) : ReplaceContent(req[t].file, text, Len(text))
      BY <1>5, <2>3, TheInSet DEF Undo, Revert
    <2>5. CapacityGrows
      <3>1. Len(text) \in Nat
        OBVIOUS
      <3>2. \A txt \in Seq(Nat), room \in Nat :
               ReplaceContent(req[t].file, txt, room) => CapacityGrows
        BY <2>2, EngineCallsGrow
      <3>3. QED BY <2>4, <3>1, <3>2
    <2>6. QED BY <2>1, <2>5, ThreadKeepsEngineLocks
  <1>6. ASSUME NEW t \in Threads, ApplyRefused(t)
        PROVE  SameEngineLocks
    <2>1. OthersSame(t) /\ pc[t] = "apply"
      BY <1>6 DEF ApplyRefused, Goto, OthersSame, Types
    <2>2. req[t].file \in Files /\ req[t].idx \in Nat
      BY <2>1 DEF ThreadsHaveFiles, Types, Request, Indices
    <2>3. \/ UNCHANGED engineVars \/ Info(req[t].file)
          \/ GrowLocks(req[t].file, req[t].idx) /\ UNCHANGED locked
      BY <1>6 DEF ApplyRefused
    <2>4. mutex' = mutex /\ locked' = locked
      BY <2>3 DEF Info, GrowLocks, engineVars
    <2>5. CapacityGrows
      BY <2>2, <2>3, EngineCallsGrow, SameMemoryGrows DEF engineVars
    <2>6. QED BY <2>1, <2>4, <2>5, ThreadKeepsEngineLocks
  <1>7. ASSUME Tick
        PROVE  SameEngineLocks
    BY <1>7, SameMemoryGrows DEF Tick, SameEngineLocks, SameUnlockers, threadVars, engineVars
  <1>8. CASE Restart
    BY <1>8 DEF Restart, EngineLocksOwned
  <1>9. ASSUME NEW t \in Threads, NewConnection(t)
        PROVE  EngineLocksOwned'
    <2>1. SameEngineLocks \/ \E f \in Files : DeleteRecord(t, f)
      BY <1>1, <1>9 DEF NewConnection
    <2>2. QED BY <2>1, DeleteKeepsEngineLocks, SameEngineLocksKeep
  <1>10. ASSUME NEW t \in Threads, ThreadStep(t)
         PROVE  EngineLocksOwned'
    <2>1. \/ SameEngineLocks \/ UnlockSentence(t) \/ ApplyInvalid(t)
          \/ \E k \in Indices, spill \in 0..1, moved \in BOOLEAN : ApplyOK(t, k, spill, moved)
      BY <1>3, <1>4, <1>5, <1>6, <1>10 DEF ThreadStep
    <2>2. QED BY <2>1, SameEngineLocksKeep, UnlockKeepsEngineLocks, ApplyKeepsEngineLocks
  <1>11. QED BY <1>2, <1>7, <1>8, <1>9, <1>10, SameEngineLocksKeep DEF Next

-----------------------------------------------------------------------------
(* The inductive invariant.                                                *)

IInv ==
    /\ Types
    /\ ThreadsHaveFiles
    /\ UnloadedIsEmpty
    /\ SentenceExclusion
    /\ LockTableExact
    /\ LoadGauges
    /\ EngineLocksOwned

\* The invariant holds before the first step.
LEMMA InitEstablishes ==
  ASSUME Init
  PROVE  IInv
  <1>1. Types
    <2>1. NoRequest \in Request
      BY ConstantsAssumption DEF NoRequest, Request, NoSentence, Indices
    <2>2. Unloaded \in FileRecord
      BY DEF Unloaded, FileRecord
    <2>3. CreatedEmpty \in DiskRecord
      BY DEF CreatedEmpty, DiskRecord
    <2>4. QED BY <2>1, <2>2, <2>3 DEF Init, Types, PCs
  <1>2. ThreadsHaveFiles /\ UnloadedIsEmpty /\ EngineLocksOwned
    BY DEF Init, ThreadsHaveFiles, UnloadedIsEmpty, Unloaded, EngineLocksOwned
  <1>3. SentenceExclusion /\ LockTableExact
    BY DEF Init, SentenceExclusion, LockTableExact, InSession, SessionPCs
  <1>4. LoadGauges
    <2>1. /\ {u \in Threads : pc[u] \in WriterPCs} = {}
          /\ {u \in Threads : pc[u] \in ReaderPCs} = {}
      BY DEF Init, WriterPCs, SessionPCs, ReaderPCs
    <2>2. QED BY <2>1, FS_EmptySet DEF Init, LoadGauges
  <1>5. QED BY <1>1, <1>2, <1>3, <1>4 DEF IInv

\* Every step keeps the invariant.
LEMMA StepPreserves ==
  ASSUME IInv, [Next]_vars
  PROVE  IInv'
  <1>1. CASE Next
    <2>1. Types' /\ ThreadsHaveFiles' /\ UnloadedIsEmpty'
      BY <1>1, TypesStep, ThreadsHaveFilesStep, UnloadedIsEmptyStep DEF IInv
    <2>2. SentenceExclusion' /\ LockTableExact'
      BY <1>1, SessionsStep DEF IInv
    <2>3. LoadGauges'
      BY <1>1, LoadStep DEF IInv
    <2>4. EngineLocksOwned'
      BY <1>1, <2>1, EngineLocksStep DEF IInv
    <2>5. QED BY <2>1, <2>2, <2>3, <2>4 DEF IInv
  <1>2. CASE UNCHANGED vars
    BY <1>2 DEF vars, IInv, Types, ThreadsHaveFiles, UnloadedIsEmpty, SentenceExclusion,
       LockTableExact, LoadGauges, EngineLocksOwned, InSession, EntryOf
  <1>3. QED BY <1>1, <1>2

\* The invariant always holds.
LEMMA Inductive == Spec => []IInv
  BY InitEstablishes, StepPreserves, PTL DEF Spec

\* Type correctness of the storage server: in particular the load figures of
\* g_state never go below zero.
THEOREM TypeCorrect == Spec => []TypeOK
  <1>1. IInv => TypeOK
    <2> SUFFICES ASSUME IInv PROVE TypeOK
      OBVIOUS
    <2>1. /\ IsFiniteSet({t \in Threads : pc[t] \in WriterPCs})
          /\ IsFiniteSet({t \in Threads : pc[t] \in ReaderPCs})
      BY ConstantsAssumption, FS_Subset
    <2>2. active_writers \in Nat /\ active_readers \in Nat
      BY <2>1, FS_CardinalityType DEF IInv, LoadGauges
    <2>3. QED BY <2>2 DEF IInv, Types, TypeOK
  <1>2. QED BY <1>1, Inductive, PTL

\* Two sessions never hold the same sentence of a file: the guarantee of
\* is_sentence_locked and add_sentence_lock under g_state.lock.
THEOREM ExclusionHolds == Spec => []SentenceExclusion
  <1>1. IInv => SentenceExclusion
    BY DEF IInv
  <1>2. QED BY <1>1, Inductive, PTL

\* Every path through handle_write_request keeps the table equal to the set of
\* live sessions.
THEOREM TableHolds == Spec => []LockTableExact
  <1>1. IInv => LockTableExact
    BY DEF IInv
  <1>2. QED BY <1>1, Inductive, PTL

\* The figures of a heartbeat count the handlers at work.
THEOREM GaugesHold == Spec => []LoadGauges
  <1>1. IInv => LoadGauges
    BY DEF IInv
  <1>2. QED BY <1>1, Inductive, PTL

\* No sentence mutex or flag of the engine outlives the session it was taken
\* for: storage_engine_unlock_sentence finds what storage_engine_write leaves.
THEOREM EngineLocksHold == Spec => []EngineLocksOwned
  <1>1. IInv => EngineLocksOwned
    BY DEF IInv
  <1>2. QED BY <1>1, Inductive, PTL

-----------------------------------------------------------------------------
(* The table of locked sentences implements the lock service.              *)

Held == {<<e.node, <<e.filename, e.sentence_idx>>>> : e \in table}

\* A grant is an Acquire of the lock service.
LEMMA GrantAcquires ==
  ASSUME IInv, NEW t \in Threads, LockGranted(t),
         NEW s, s = <<req[t].file, req[t].idx>>
  PROVE  LockService!Acquire(t, s)
  <1>1. \A e \in table : e.filename # req[t].file \/ e.sentence_idx # req[t].idx
    BY DEF LockGranted, is_sentence_locked, Entries
  <1>2. \A e \in table : e.node # t
    BY DEF IInv, LockTableExact, EntryOf, InSession, SessionPCs, LockGranted, Goto
  <1>3. \A h \in Threads : <<h, s>> \notin Held
    BY <1>1 DEF Held
  <1>4. \A x \in Files \X Indices : <<t, x>> \notin Held
    BY <1>2 DEF Held
  <1>5. Held' = Held \cup {<<t, s>>}
    <2> DEFINE e == [node |-> t, filename |-> req[t].file,
                     sentence_idx |-> req[t].idx, file_version |-> req[t].version]
    <2>1. table' = table \cup {e}
      BY DEF LockGranted
    <2>2. e.node = t /\ e.filename = req[t].file /\ e.sentence_idx = req[t].idx
      OBVIOUS
    <2> HIDE DEF e
    <2>3. QED BY <2>1, <2>2 DEF Held
  <1>6. QED BY <1>3, <1>4, <1>5 DEF LockService!Acquire, LockService!HoldersOf,
                                    LockService!Holdings, Held

\* A removal is a GiveBack of the lock service.
LEMMA ReleaseGivesBack ==
  ASSUME IInv, NEW t \in Threads, ReleaseLock(t),
         NEW s, s = <<req[t].file, req[t].idx>>
  PROVE  LockService!GiveBack(t, s)
  <1>1. InSession(t)
    BY DEF ReleaseLock, Finish, Goto, InSession, SessionPCs
  <1>2. table' = table \ {EntryOf(t)}
    BY <1>1, OwnEntry DEF IInv, ReleaseLock
  <1>3. EntryOf(t) \in table
    BY <1>1 DEF IInv, LockTableExact
  <1>4. \A e \in table : e.node = t => e = EntryOf(t)
    BY DEF IInv, LockTableExact, EntryOf
  <1>5. <<t, s>> \in Held
    BY <1>3 DEF Held, EntryOf
  <1>6. Held' = Held \ {<<t, s>>}
    <2>1. \A e \in table \ {EntryOf(t)} : e.node # t
      BY <1>4
    <2>2. EntryOf(t).node = t /\ EntryOf(t).filename = req[t].file
            /\ EntryOf(t).sentence_idx = req[t].idx
      BY DEF EntryOf
    <2>3. QED BY <1>2, <1>3, <2>1, <2>2 DEF Held
  <1>7. QED BY <1>5, <1>6 DEF LockService!GiveBack, Held

\* The table changes by a grant, a removal or a restart only.
LEMMA TableChanges ==
  ASSUME Types, Next
  PROVE  table' = table \/ table' = {}
         \/ \E t \in Threads : LockGranted(t) \/ ReleaseLock(t)
  <1>1. ASSUME NEW t \in Threads, NewConnection(t) \/ ClientStep(t)
        PROVE  table' = table
    BY <1>1, NewConnectionMoves, ClientMoves DEF serverVars
  <1>2. ASSUME NEW t \in Threads, ThreadStep(t), ~ LockGranted(t), ~ ReleaseLock(t)
        PROVE  table' = table
    BY <1>2, SessionMoves, HandlerMoves DEF ThreadStep, serverVars
  <1>3. QED BY <1>1, <1>2 DEF Next, Tick, Restart, serverVars

\* A lock is granted only when it is free, and given back by its holder: every
\* step of the server is a step of the lock service or leaves its locks alone.
THEOREM LocksRefined == Spec => LocksImplemented
  <1>1. Init => LockService!LockInit
    BY DEF Init, LockService!LockInit
  <1>2. ASSUME IInv, [Next]_vars
        PROVE  LockService!LockNext \/ UNCHANGED Held
    <2>1. CASE table' = table
      BY <2>1 DEF Held
    <2>2. CASE table' = {}
      BY <2>2 DEF LockService!LockNext, LockService!FreeAll
    <2>3. ASSUME NEW t \in Threads, LockGranted(t) \/ ReleaseLock(t)
          PROVE  LockService!LockNext
      <3>1. PICK s \in Files \X Indices : s = <<req[t].file, req[t].idx>>
        <4>1. pc[t] # "idle"
          BY <2>3 DEF LockGranted, ReleaseLock, Finish, Goto
        <4>2. req[t].file \in Files /\ req[t].idx \in Indices
          BY <1>2, <4>1 DEF IInv, Types, ThreadsHaveFiles, Request
        <4>3. QED BY <4>2
      <3>2. LockService!Acquire(t, s) \/ LockService!GiveBack(t, s)
        BY <1>2, <2>3, <3>1, GrantAcquires, ReleaseGivesBack
      <3>3. QED BY <3>2 DEF LockService!LockNext
    <2>4. QED BY <1>2, <2>1, <2>2, <2>3, TableChanges DEF IInv, vars
  <1>3. QED BY <1>1, <1>2, Inductive, PTL
            DEF Spec, LocksImplemented, LockService!LockSpec, Held

-----------------------------------------------------------------------------
(* Who changes the content of a file.                                      *)

\* The engine calls that change the content of a loaded record are made by UNDO,
\* REVERT and the commit of a session.
LEMMA ContentStep ==
  ASSUME Types, ThreadsHaveFiles, Next, NEW f \in Files,
         mem[f].loaded, mem'[f].loaded, mem'[f].sentences # mem[f].sentences
  PROVE  \E t \in Threads :
            /\ req[t].file = f
            /\ \/ Undo(t) \/ Revert(t)
               \/ \E k \in Indices, spill \in 0..1, moved \in BOOLEAN : ApplyOK(t, k, spill, moved)
  <1>1. ASSUME NEW g \in Files,
               \/ Info(g) \/ Access(g)
               \/ mem' = [mem EXCEPT ![g] = GetOrLoad(g)]
               \/ \E c : mem' = [mem EXCEPT ![g] = [GetOrLoad(g) EXCEPT !.capacity = c]]
        PROVE  FALSE
    <2>1. mem[g].loaded => GetOrLoad(g) = mem[g]
      BY GetOrLoadType
    <2>2. CASE f # g
      BY <1>1, <2>2 DEF Info, Access, Types
    <2>3. CASE f = g
      BY <1>1, <2>1, <2>3 DEF Info, Access, Types, FileRecord
    <2>4. QED BY <2>2, <2>3
  <1>2. mem' # mem
    OBVIOUS
  <1>3. ASSUME NEW t \in Threads, NewConnection(t)
        PROVE  FALSE
    <2>1. ASSUME NEW g \in Files, DeleteRecord(t, g)
          PROVE  FALSE
      BY <2>1 DEF DeleteRecord, Types, Unloaded
    <2>2. QED
      BY <1>1, <1>2, <1>3, <2>1 DEF NewConnection, WriteOutOfRange, WriteInfo,
         ReaderStart, WriterStart, Checkpoint, InfoRequest, engineVars
  <1>4. ASSUME NEW t \in Threads, ThreadStep(t)
        PROVE  /\ req[t].file = f
               /\ \/ Undo(t) \/ Revert(t)
                  \/ \E k \in Indices, spill \in 0..1, moved \in BOOLEAN : ApplyOK(t, k, spill, moved)
    <2>1. req[t].file \in Files \/ pc[t] = "idle"
      BY DEF ThreadsHaveFiles
    <2>2. ASSUME AckLock(t) \/ MarkWritten(t) \/ ReaderRead(t) \/ StreamMark(t)
                 \/ MarkAccess(t)
          PROVE  FALSE
      BY <1>1, <2>1, <2>2 DEF AckLock, MarkWritten, ReaderRead, StreamMark, MarkAccess,
         Finish, Goto
    <2>3. ASSUME CommitFresh(t) \/ CommitStale(t) \/ UndoEmpty(t) \/ UnlockSentence(t)
                 \/ ApplyInvalid(t)
          PROVE  FALSE
      BY <1>1, <2>1, <2>3 DEF CommitFresh, CommitStale, UndoEmpty, UnlockSentence,
         ApplyInvalid, GrowLocks, Goto
    <2>4. ASSUME ApplyRefused(t)
          PROVE  FALSE
      BY <1>1, <1>2, <2>1, <2>4 DEF ApplyRefused, GrowLocks, Goto, engineVars
    <2>5. ASSUME \/ LockBusy(t) \/ LockGranted(t) \/ RecvUpdate(t) \/ RecvFailed(t)
                 \/ RecvOther(t) \/ ReleaseLock(t) \/ ReadEnd(t) \/ StreamEnd(t) \/ RevertMissing(t)
                 \/ WriterEnd(t) \/ WriterFailed(t) \/ DeleteUnlink(t)
          PROVE  FALSE
      BY <1>2, <2>5 DEF LockBusy, LockGranted, RecvUpdate, RecvFailed, RecvOther, ReleaseLock,
         ReadEnd, StreamEnd, RevertMissing, WriterEnd, WriterFailed, DeleteUnlink,
         engineVars
    <2>6. \/ Undo(t) \/ Revert(t)
          \/ \E k \in Indices, spill \in 0..1, moved \in BOOLEAN : ApplyOK(t, k, spill, moved)
      BY <1>4, <2>2, <2>3, <2>4, <2>5 DEF ThreadStep
    <2>7. ASSUME NEW text, NEW room, ReplaceContent(req[t].file, text, room)
          PROVE  req[t].file = f
      BY <2>7 DEF ReplaceContent, Types
    <2>8. \E text, room : ReplaceContent(req[t].file, text, room)
      BY <2>6 DEF Undo, Revert, ApplyOK
    <2>9. QED BY <2>6, <2>7, <2>8
  <1>5. ASSUME \/ \E t \in Threads : ClientStep(t)
               \/ Tick \/ Restart
        PROVE  FALSE
    BY <1>2, <1>5 DEF ClientStep, ClientUpdate, ClientCommit, ClientOther, ClientClose, Tick, Restart,
       Unloaded, engineVars
  <1>6. QED BY <1>3, <1>4, <1>5 DEF Next

\* The engine calls that change the content on disk.
LEMMA DiskStep ==
  ASSUME Types, ThreadsHaveFiles, Next, NEW f \in Files,
         disk'[f].content # disk[f].content
  PROVE  \E t \in Threads :
            /\ req[t].file = f
            /\ \/ Undo(t) \/ Revert(t) \/ DeleteUnlink(t)
               \/ \E k \in Indices, spill \in 0..1, moved \in BOOLEAN :
                     ApplyOK(t, k, spill, moved)
  <1>1. ASSUME NEW g \in Files, Access(g)
        PROVE  FALSE
    BY <1>1 DEF Access, Types, DiskRecord
  <1>2. disk' # disk
    OBVIOUS
  <1>3. ASSUME NEW t \in Threads, NewConnection(t)
        PROVE  FALSE
    BY <1>2, <1>3 DEF NewConnection, WriteOutOfRange, WriteInfo, ReaderStart, WriterStart,
       Checkpoint, InfoRequest, DeleteRecord, Info, engineVars
  <1>4. ASSUME NEW t \in Threads, ThreadStep(t)
        PROVE  /\ req[t].file = f
               /\ \/ Undo(t) \/ Revert(t) \/ DeleteUnlink(t)
                  \/ \E k \in Indices, spill \in 0..1, moved \in BOOLEAN :
                        ApplyOK(t, k, spill, moved)
    <2>1. req[t].file \in Files \/ pc[t] = "idle"
      BY DEF ThreadsHaveFiles
    <2>2. ASSUME AckLock(t) \/ MarkWritten(t) \/ ReaderRead(t) \/ StreamMark(t)
                 \/ MarkAccess(t)
          PROVE  FALSE
      BY <1>1, <2>1, <2>2 DEF AckLock, MarkWritten, ReaderRead, StreamMark, MarkAccess,
         Finish, Goto
    <2>3. ASSUME CommitFresh(t) \/ CommitStale(t) \/ UndoEmpty(t) \/ UnlockSentence(t)
                 \/ ApplyInvalid(t) \/ ApplyRefused(t)
          PROVE  FALSE
      BY <1>2, <2>3 DEF CommitFresh, CommitStale, UndoEmpty, UnlockSentence,
         ApplyInvalid, ApplyRefused, GrowLocks, Info, engineVars
    <2>4. ASSUME \/ LockBusy(t) \/ LockGranted(t) \/ RecvUpdate(t) \/ RecvFailed(t)
                 \/ RecvOther(t) \/ ReleaseLock(t) \/ ReadEnd(t) \/ StreamEnd(t)
                 \/ RevertMissing(t) \/ WriterEnd(t) \/ WriterFailed(t)
          PROVE  FALSE
      BY <1>2, <2>4 DEF LockBusy, LockGranted, RecvUpdate, RecvFailed, RecvOther, ReleaseLock,
         ReadEnd, StreamEnd, RevertMissing, WriterEnd, WriterFailed, engineVars
    <2>5. \/ Undo(t) \/ Revert(t) \/ DeleteUnlink(t)
          \/ \E k \in Indices, spill \in 0..1, moved \in BOOLEAN : ApplyOK(t, k, spill, moved)
      BY <1>4, <2>2, <2>3, <2>4 DEF ThreadStep
    <2>6. ASSUME NEW text, NEW room, ReplaceContent(req[t].file, text, room)
          PROVE  req[t].file = f
      BY <2>6 DEF ReplaceContent, Types
    <2>7. CASE DeleteUnlink(t)
      BY <2>7 DEF DeleteUnlink, Types
    <2>8. ~ DeleteUnlink(t) => \E text, room : ReplaceContent(req[t].file, text, room)
      BY <2>5 DEF Undo, Revert, ApplyOK
    <2>9. QED BY <2>5, <2>6, <2>7, <2>8
  <1>5. ASSUME \/ \E t \in Threads : ClientStep(t)
               \/ Tick \/ Restart
        PROVE  FALSE
    BY <1>2, <1>5 DEF ClientStep, ClientUpdate, ClientCommit, ClientOther, ClientClose, Tick,
       Restart, engineVars
  <1>6. QED BY <1>3, <1>4, <1>5 DEF Next

\* Only UNDO, REVERT, DELETE and the commit of a session that owns the table entry
\* of its sentence change the text of a file: storage_engine_write is never reached
\* by a session whose lock has been taken away or given to another one.
THEOREM OwnersHold == Spec => OnlyOwnersChangeContent
  <1> DEFINE By(f, t) ==
                 \/ pc[t] \in {"undo", "revert"} /\ pc'[t] = "wend"
                 \/ pc[t] = "unlink" /\ pc'[t] = "idle"
                 \/ /\ pc[t] = "apply" /\ pc'[t] = "mark"
                    /\ Entries(f, req[t].idx) = {EntryOf(t)}
  <1>1. ASSUME IInv, Next, NEW f \in Files, TextChanges(f)
        PROVE  \E t \in Threads : req[t].file = f /\ By(f, t)
    <2>1. PICK t \in Threads :
               /\ req[t].file = f
               /\ \/ Undo(t) \/ Revert(t) \/ DeleteUnlink(t)
                  \/ \E k \in Indices, spill \in 0..1, moved \in BOOLEAN :
                        ApplyOK(t, k, spill, moved)
      BY <1>1, ContentStep, DiskStep DEF IInv, TextChanges
    <2>2. CASE Undo(t) \/ Revert(t) \/ DeleteUnlink(t)
      BY <1>1, <2>1, <2>2 DEF Undo, Revert, DeleteUnlink, Finish, Goto, IInv, Types
    <2>3. ASSUME NEW k \in Indices, NEW spill \in 0..1, NEW moved \in BOOLEAN,
                 ApplyOK(t, k, spill, moved)
          PROVE  By(f, t)
      <3>1. pc[t] = "apply" /\ pc'[t] = "mark"
        BY <1>1, <2>3 DEF ApplyOK, Goto, IInv, Types
      <3>2. Entries(f, req[t].idx) = {EntryOf(t)}
        BY <1>1, <2>1, <3>1, OwnEntry DEF IInv, InSession, SessionPCs
      <3>3. QED BY <3>1, <3>2
    <2>4. QED BY <2>1, <2>2, <2>3
  <1>2. IInv /\ [Next]_vars =>
          [\A f \in Files : TextChanges(f) =>
              \E t \in Threads :
                 /\ req[t].file = f
                 /\ \/ pc[t] \in {"undo", "revert"} /\ pc'[t] = "wend"
                    \/ pc[t] = "unlink" /\ pc'[t] = "idle"
                    \/ /\ pc[t] = "apply" /\ pc'[t] = "mark"
                       /\ Entries(f, req[t].idx) = {EntryOf(t)}]_vars
    BY <1>1
  <1>3. QED BY <1>2, Inductive, PTL DEF Spec, OnlyOwnersChangeContent
=============================================================================
