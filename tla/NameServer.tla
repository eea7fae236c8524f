----------------------------- MODULE NameServer -----------------------------
(***************************************************************************)
(* The name server (name_server/src/main.c) with its index, its cache and  *)
(* its files on disk, beside the storage servers as it sees them: their    *)
(* heartbeats, and the files they hold after the commands it forwards.     *)
(*                                                                         *)
(* The name server is one thread around select: a handler is one step, the *)
(* calls it makes to storage servers included.  Between two handlers the   *)
(* storage servers and the name server itself may die and come back; an    *)
(* answer of a storage server may be lost when it dies after the work.     *)
(***************************************************************************)
EXTENDS FileIndex, Arrays

CONSTANTS
    Folders,      \* targets of MOVE; "/" is the root
    Opcodes,      \* the commands and failures of a workload
    Threshold,    \* seconds after which a silent server is dead (15)
    Width,        \* bits of next_primary_index (32)
    MaxClock,     \* bound: the last second of the clock
    MaxRecords,   \* bound: records allocated between two restarts
    MaxLog,       \* bound: FILE_CREATE lines of the registry
    MaxLoaded     \* bound: files a storage server has loaded when it loads one more

ASSUME NameServerAssumption ==
    /\ {Threshold, MaxClock, MaxRecords, MaxLog, MaxLoaded} \subseteq Nat
    /\ Width \in Nat \ {0} /\ 2^Width \in Nat \ {0}
    /\ \A f \in Files : f \in Seq(STRING) /\ f # <<>>
    /\ Opcodes \subseteq {"CREATE", "DELETE", "MOVE", "LOOKUP", "ACCESS",
                          "REQUEST", "WRITE", "RESTART", "TORN", "CRASH", "LOST"}

VARIABLES
    \* the process of the name server
    running,            \* it is up
    index,              \* state.file_index
    cache,              \* state.cache, most recent entry first
    servers,            \* state.servers, last registered first
    last_heartbeat,     \* of each storage server
    next_primary_index,
    nextRecord,         \* the next unused record address
    \* its files
    registry,           \* the FILE_CREATE lines
    clients,            \* the CLIENT_REGISTER lines, and state.clients
    aclFile,            \* acl/: the permission each line gives, if the file exists
    requests,           \* requests/: the mode each user asks for, if the file exists
    \* the storage servers
    link,               \* each one's process and its socket to the name server
    disk,               \* what each one has on disk under a name
    memory,             \* the files each one has loaded, in the order of its array
    instructed,         \* <<server, file>>: REPLICATE requests in that socket
    orphaned,           \* files whose MOVE was done and its answer lost
    clock

indexVars  == <<index, cache, nextRecord>>
serverVars == <<servers, last_heartbeat, next_primary_index>>
diskVars   == <<registry, clients, aclFile, requests>>
storeVars  == <<link, disk, memory, instructed, orphaned>>
vars == <<running, index, cache, servers, last_heartbeat, next_primary_index,
          nextRecord, registry, clients, aclFile, requests, link, disk, memory,
          instructed, orphaned, clock>>

Links == {"down",      \* the process is not running
          "linked",    \* registered over a live connection
          "stale",     \* the name server died since
          "cut"}       \* nm_fd = -1 after a failed attempt to reconnect
Texts == {"absent", "empty", "text"}
RequestModes == {"-", "read", "write"}
LogEntry == [file : Files, owner : Users, primary : Servers]

TypeOK ==
    /\ running \in BOOLEAN
    /\ DOMAIN index \subseteq Files /\ index \in [DOMAIN index -> FileRecord]
    /\ cache \in Seq(CacheEntry)
    /\ servers \in Seq(Servers)
    /\ last_heartbeat \in [Servers -> Nat]
    /\ next_primary_index \in 0..(2^Width - 1)
    /\ nextRecord \in Nat
    /\ registry \in Seq(LogEntry)
    /\ clients \subseteq Users
    /\ aclFile \in [Files -> SUBSET [Users -> Modes]]
    /\ requests \in [Files -> SUBSET [Users -> RequestModes]]
    /\ link \in [Servers -> Links]
    /\ disk \in [Servers -> [Files -> Texts]]
    /\ memory \in [Servers -> Seq([filename : Files, text : Texts])]
    /\ instructed \subseteq Servers \X Files
    /\ orphaned \subseteq Files
    /\ clock \in Nat

Init ==
    /\ running = TRUE
    /\ index = [f \in {} |-> {}]
    /\ cache = <<>>
    /\ servers = <<>>
    /\ last_heartbeat = [s \in Servers |-> 0]
    /\ next_primary_index = 0
    /\ nextRecord = 0
    /\ registry = <<>>
    /\ clients = {}
    /\ aclFile = [f \in Files |-> {}]
    /\ requests = [f \in Files |-> {}]
    /\ link = [s \in Servers |-> "down"]
    /\ disk = [s \in Servers |-> [f \in Files |-> "absent"]]
    /\ memory = [s \in Servers |-> <<>>]
    /\ instructed = {}
    /\ orphaned = {}
    /\ clock = 0

-----------------------------------------------------------------------------
(* Registration and heartbeats.                                            *)

Up(s) == link[s] # "down"
Known(s) == s \in ToSet(servers)
Alive(s) == clock - last_heartbeat[s] <= Threshold

\* handle_register_ss.  The manifest of a storage server is always empty.  For
\* each file the server is listed for, a REPLICATE request is sent down the
\* connection if another listed server is alive.
RegisterSS(s) ==
    /\ running
    /\ servers' = IF Known(s) THEN servers ELSE <<s>> \o servers
    /\ last_heartbeat' = [last_heartbeat EXCEPT ![s] = clock]
    /\ link' = [link EXCEPT ![s] = "linked"]
    /\ instructed' = instructed \cup
          {<<s, f>> : f \in {g \in DOMAIN index :
              /\ s \in ToSet(index[g].ss_ids)
              /\ \E o \in ToSet(index[g].ss_ids) \ {s} : Known(o) /\ Alive(o)}}
    /\ UNCHANGED <<running, indexVars, next_primary_index, diskVars, disk, memory,
                   orphaned, clock>>

\* A storage server starts; without a name server its main gives up.
StartServer(s) ==
    /\ link[s] = "down"
    /\ RegisterSS(s)

Heartbeat(s) ==
    /\ running /\ link[s] = "linked"
    /\ last_heartbeat' = [last_heartbeat EXCEPT ![s] = clock]
    /\ UNCHANGED <<running, indexVars, servers, next_primary_index, diskVars,
                   storeVars, clock>>

\* send_heartbeat into a dead connection: one attempt to register again.  Whether
\* the failure is noticed is left open (send_all takes EPIPE for success).
Reconnect(s) ==
    /\ link[s] = "stale"
    /\ RegisterSS(s)

ReconnectFailed(s) ==
    /\ link[s] = "stale" /\ ~ running
    /\ link' = [link EXCEPT ![s] = "cut"]
    /\ UNCHANGED <<running, indexVars, serverVars, diskVars, disk, memory, instructed,
                   orphaned, clock>>

\* The process dies: its disk is left, its memory and its sockets are not.
Dies(s) ==
    /\ link' = [link EXCEPT ![s] = "down"]
    /\ memory' = [memory EXCEPT ![s] = <<>>]
    /\ instructed' = {p \in instructed : p[1] # s}

CrashServer(s) ==
    /\ Up(s)
    /\ Dies(s)
    /\ UNCHANGED <<running, indexVars, serverVars, diskVars, disk, orphaned, clock>>

\* handle_register_client; the first registration is logged, and a restart
\* reads the log.
RegisterClient(u) ==
    /\ running
    /\ clients' = clients \cup {u}
    /\ UNCHANGED <<running, indexVars, serverVars, registry, aclFile, requests,
                   storeVars, clock>>

-----------------------------------------------------------------------------
(* The files of the storage servers, to which clients and the name server's *)
(* commands come.  A file is loaded when it is first asked for, and found   *)
(* in memory from then on.                                                  *)

InMemory(s, f) == \E i \in DOMAIN memory[s] : memory[s][i].filename = f

\* find_file_locked: the first entry with the name.
EntryOf(s, f) == SelectInSeq(memory[s], LAMBDA e : e.filename = f)

\* get_or_load_file: no file on disk gives an empty file in memory.
Loaded(s, f) ==
    IF InMemory(s, f) THEN memory[s]
    ELSE Append(memory[s], [filename |-> f,
                            text |-> IF disk[s][f] = "text" THEN "text" ELSE "empty"])

\* storage_engine_create_file: refused if there is text under the name.
Accepts(s, f) ==
    /\ Up(s)
    /\ IF InMemory(s, f) THEN memory[s][EntryOf(s, f)].text = "empty"
       ELSE disk[s][f] # "text"

\* A client whose lookup gave it this server reads the file.
Open(s, f) ==
    /\ Up(s) /\ f \in DOMAIN index /\ s \in ToSet(index[f].ss_ids)
    /\ ~ InMemory(s, f) /\ Len(memory[s]) < MaxLoaded
    /\ memory' = [memory EXCEPT ![s] = Loaded(s, f)]
    /\ UNCHANGED <<running, indexVars, serverVars, diskVars, link, disk, instructed,
                   orphaned, clock>>

\* It commits text: the entry in memory and the file under its name.
WriteText(s, f) ==
    /\ Up(s) /\ f \in DOMAIN index /\ s \in ToSet(index[f].ss_ids)
    /\ InMemory(s, f)
    /\ memory' = [memory EXCEPT ![s][EntryOf(s, f)].text = "text"]
    /\ disk' = [disk EXCEPT ![s][f] = "text"]
    /\ UNCHANGED <<running, indexVars, serverVars, diskVars, link, instructed,
                   orphaned, clock>>

-----------------------------------------------------------------------------
(* Commands.  The client program has registered its user.                  *)

Asks(u) == running /\ u \in clients

\* handle_lookup_file changes nothing but the cache.
Lookup(f) ==
    /\ running
    /\ cache' = lru_cache_get(cache, index, f)
    /\ UNCHANGED <<running, index, nextRecord, serverVars, diskVars, storeVars, clock>>

ActiveServers == Kept(servers, {s \in Servers : Alive(s)})

\* Mutant: the counter does not wrap.
IncrementWide(n) == n + 1

RoundRobin(n) == ActiveServers[(n % Len(ActiveServers)) + 1]
Increment(n) == (n + 1) % 2^Width

\* The counter after a CREATE: the second server is picked when there are two.
CounterAfterCreate ==
    IF Len(ActiveServers) > 1 THEN Increment(Increment(next_primary_index))
    ELSE Increment(next_primary_index)

\* No connection, or a refusal that still loads the file.
CreateFailed(u, f) ==
    LET primary == RoundRobin(next_primary_index)
    IN  /\ Asks(u) /\ f \notin DOMAIN index /\ ActiveServers # <<>>
        /\ ~ Accepts(primary, f) /\ Len(memory[primary]) < MaxLoaded
        /\ memory' = IF Up(primary) THEN [memory EXCEPT ![primary] = Loaded(primary, f)]
                     ELSE memory
        /\ next_primary_index' = CounterAfterCreate
        /\ UNCHANGED <<running, indexVars, servers, last_heartbeat, diskVars, link,
                       disk, instructed, orphaned, clock>>

\* The primary creates the file and dies before it answers.
CreateLost(u, f) ==
    LET primary == RoundRobin(next_primary_index)
    IN  /\ Asks(u) /\ f \notin DOMAIN index /\ ActiveServers # <<>>
        /\ Accepts(primary, f)
        /\ disk' = [disk EXCEPT ![primary][f] = "empty"]
        /\ Dies(primary)
        /\ next_primary_index' = CounterAfterCreate
        /\ UNCHANGED <<running, indexVars, servers, last_heartbeat, diskVars, orphaned,
                       clock>>

\* The replica is listed whether or not it could be reached or accepted.  The
\* ACL file of a name below a folder is written only if acl/ has the folder.
Create(u, f) ==
    LET primary == RoundRobin(next_primary_index)
        replica == IF Len(ActiveServers) > 1
                   THEN RoundRobin(Increment(next_primary_index)) ELSE primary
        created == file_index_add(index, f, u, primary, nextRecord)
        lines   == [NoAcl EXCEPT ![u] = "RW"]
    IN  /\ Asks(u) /\ f \notin DOMAIN index /\ ActiveServers # <<>>
        /\ Len(registry) < MaxLog /\ nextRecord < MaxRecords
        /\ Accepts(primary, f)
        /\ index' = file_index_add_ss_replica(created, f, replica)
        /\ nextRecord' = nextRecord + 1
        /\ cache' = lru_cache_invalidate(cache, f)
        /\ \E text \in {aclFile[f], {lines}} :
              /\ Len(f) = 1 => text = {lines}
              /\ aclFile' = [aclFile EXCEPT ![f] = text]
        /\ registry' = Append(registry, [file |-> f, owner |-> u, primary |-> primary])
        /\ next_primary_index' = CounterAfterCreate
        /\ disk' = [s \in Servers |->
              IF s \in {primary, replica} /\ Accepts(s, f)
              THEN [disk[s] EXCEPT ![f] = "empty"] ELSE disk[s]]
        /\ memory' = [s \in Servers |->
              IF s \in {primary, replica} /\ Up(s) THEN Loaded(s, f) ELSE memory[s]]
        /\ UNCHANGED <<running, servers, last_heartbeat, clients, requests, link,
                       instructed, orphaned, clock>>

Owns(u, f) == f \in DOMAIN index /\ index[f].owner = u

\* Mutant: the side file stays.
NotUnlinked(files, f) == files

\* unlink of a side file.
Unlinked(files, f) == [files EXCEPT ![f] = {}]

\* Every listed server that can be reached is asked; one that has not loaded
\* the file since it started does not find it and keeps it.
Delete(u, f) ==
    LET done == {s \in ToSet(index[f].ss_ids) : Known(s) /\ Up(s) /\ InMemory(s, f)}
    IN  /\ Asks(u) /\ Owns(u, f)
        /\ disk' = [s \in Servers |->
              IF s \in done THEN [disk[s] EXCEPT ![f] = "absent"] ELSE disk[s]]
        /\ memory' = [s \in Servers |->
              IF s \in done THEN RemoveAt(memory[s], EntryOf(s, f)) ELSE memory[s]]
        /\ index' = file_index_remove(index, f)
        /\ cache' = lru_cache_invalidate(cache, f)
        /\ aclFile' = Unlinked(aclFile, f)
        /\ requests' = Unlinked(requests, f)
        /\ orphaned' = orphaned \ {f}
        /\ UNCHANGED <<running, nextRecord, serverVars, registry, clients, link,
                       instructed, clock>>

\* Mutant: an entry is written as a reader's.
AclLinesRead(r) ==
    [u \in Users |-> IF u = r.owner THEN "RW" ELSE IF r.acl[u] # "-" THEN "R" ELSE "-"]

\* persist_acl_file: the line of the owner, then one for each entry; a reader
\* takes the last line of a user.
AclLines(r) ==
    [u \in Users |-> IF r.acl[u] # "-" THEN r.acl[u]
                     ELSE IF u = r.owner THEN "RW" ELSE "-"]

\* file_record_add_acl or file_record_remove_acl, persist_acl_file and
\* lru_cache_invalidate.
SetAcl(f, u, mode) ==
    LET r == [index[f] EXCEPT !.acl[u] = mode]
    IN  /\ index' = [index EXCEPT ![f] = r]
        /\ cache' = lru_cache_invalidate(cache, f)
        /\ aclFile' = [aclFile EXCEPT ![f] = {AclLines(r)}]

AddAccess(u, f, target, mode) ==
    /\ Asks(u) /\ Owns(u, f)
    /\ target \in clients /\ mode \in {"R", "RW"}
    /\ SetAcl(f, target, mode)
    /\ UNCHANGED <<running, nextRecord, serverVars, registry, clients, requests,
                   storeVars, clock>>

RemAccess(u, f, target) ==
    /\ Asks(u) /\ Owns(u, f)
    /\ SetAcl(f, target, "-")
    /\ UNCHANGED <<running, nextRecord, serverVars, registry, clients, requests,
                   storeVars, clock>>

NoRequests == [u \in Users |-> "-"]
\* load_access_requests: no file, no requests.
RequestsOf(f) == IF requests[f] = {} THEN NoRequests ELSE CHOOSE r \in requests[f] : TRUE
\* save_access_requests
SaveRequest(f, u, mode) ==
    requests' = [requests EXCEPT ![f] = {[RequestsOf(f) EXCEPT ![u] = mode]}]

RequestAccess(u, f, mode) ==
    /\ Asks(u) /\ f \in DOMAIN index /\ ~ Owns(u, f)
    /\ mode \in {"read", "write"}
    /\ ~ file_record_check_access(index[f], u, mode = "write")
    /\ SaveRequest(f, u, mode)
    /\ UNCHANGED <<running, indexVars, serverVars, registry, clients, aclFile,
                   storeVars, clock>>

ApproveRequest(u, f, target) ==
    LET mode == RequestsOf(f)[target]
    IN  /\ Asks(u) /\ Owns(u, f)
        /\ mode # "-"
        /\ SetAcl(f, target, IF mode = "write" THEN "RW" ELSE "R")
        /\ SaveRequest(f, target, "-")
        /\ UNCHANGED <<running, nextRecord, serverVars, registry, clients, storeVars, clock>>

DenyRequest(u, f, target) ==
    /\ Asks(u) /\ Owns(u, f)
    /\ RequestsOf(f)[target] # "-"
    /\ SaveRequest(f, target, "-")
    /\ UNCHANGED <<running, indexVars, serverVars, registry, clients, aclFile,
                   storeVars, clock>>

-----------------------------------------------------------------------------
(* MOVE.                                                                   *)

\* The new name according to the name server (handle_move) and to the storage
\* server (storage_engine_move_file), which keeps the last component only.
NewPath(f, folder) == IF folder = "/" THEN f ELSE <<folder>> \o f
DestRel(f, folder) == IF folder = "/" THEN <<f[Len(f)]>> ELSE <<folder, f[Len(f)]>>

\* Mutant: always the last registered.
MoveLastServer(f) == servers[1]

\* The server that is asked: the first one listed, or the last registered.
MoveServer(f) ==
    IF f \in DOMAIN index /\ Known(index[f].ss_ids[1])
    THEN index[f].ss_ids[1] ELSE servers[1]

\* rename replaces what was under the new name on disk, and the entry in memory
\* gets the new name: an entry that had it already stays in the array.
RenamedOnDisk(s, from, to) ==
    [disk EXCEPT ![s] = [g \in Files |-> IF g = to THEN disk[s][from]
                                         ELSE IF g = from THEN "absent" ELSE disk[s][g]]]

MoveStored(s, from, to) ==
    /\ disk' = RenamedOnDisk(s, from, to)
    /\ memory' = IF InMemory(s, from)
                 THEN [memory EXCEPT ![s][EntryOf(s, from)].filename = to] ELSE memory

Rename(files, from, to) ==
    IF from = to \/ files[from] = {} THEN files
    ELSE [files EXCEPT ![to] = files[from], ![from] = {}]

\* The record is removed and added again under the new name; a record that was
\* there keeps its owner, and its ACL if the moved one is empty.
MovedIndex(f, to) ==
    LET r == index[f]
        added == file_index_add(file_index_remove(index, f), to, r.owner, r.ss_ids[1],
                                nextRecord)
        ss == AddServers(added[to].ss_ids, Tail(r.ss_ids))
        acl == IF r.acl = NoAcl THEN added[to].acl ELSE r.acl
    IN  [added EXCEPT ![to].ss_ids = ss, ![to].acl = acl]

MovePossible(f, folder) ==
    /\ running
    /\ NewPath(f, folder) \in Files /\ DestRel(f, folder) \in Files
    /\ servers # <<>>
    /\ Up(MoveServer(f)) /\ disk[MoveServer(f)][f] # "absent"

\* Mutant: the entry under the old name stays in the cache.
CacheAfterMoveNew(f, to) == lru_cache_invalidate(cache, to)

CacheAfterMove(f, to) == lru_cache_invalidate(lru_cache_invalidate(cache, f), to)

Move(f, folder) ==
    LET to == NewPath(f, folder)
    IN  /\ MovePossible(f, folder) /\ f \in DOMAIN index
        /\ nextRecord < MaxRecords
        /\ MoveStored(MoveServer(f), f, DestRel(f, folder))
        /\ index' = MovedIndex(f, to)
        /\ nextRecord' = nextRecord + 1
        /\ cache' = CacheAfterMove(f, to)
        /\ aclFile' = Rename(aclFile, f, to)
        /\ requests' = Rename(requests, f, to)
        /\ orphaned' = orphaned \ {f, to}
        /\ UNCHANGED <<running, serverVars, registry, clients, link, instructed, clock>>

\* A name without a record: the storage server moves what it has under it.
MoveUnindexed(f, folder) ==
    /\ MovePossible(f, folder) /\ f \notin DOMAIN index
    /\ MoveStored(MoveServer(f), f, DestRel(f, folder))
    /\ UNCHANGED <<running, indexVars, serverVars, diskVars, link, instructed,
                   orphaned, clock>>

\* The storage server moves the file and dies before it answers.
MoveLost(f, folder) ==
    /\ MovePossible(f, folder) /\ f \in DOMAIN index
    /\ disk' = RenamedOnDisk(MoveServer(f), f, DestRel(f, folder))
    /\ Dies(MoveServer(f))
    /\ orphaned' = orphaned \cup {f}
    /\ UNCHANGED <<running, indexVars, serverVars, diskVars, clock>>

-----------------------------------------------------------------------------
(* Restart of the name server.                                             *)

\* Mutant: the permission of an ACL line is not looked at.
ReplayEntryWriter(found, j) ==
    LET e == registry[j]
        added == file_index_add(found, e.file, e.owner, e.primary, j)
        lines == IF aclFile[e.file] = {} THEN NoAcl ELSE CHOOSE a \in aclFile[e.file] : TRUE
    IN  [added EXCEPT ![e.file].acl =
            [u \in Users |-> IF u # e.owner /\ lines[u] # "-" THEN "RW" ELSE @[u]]]

\* One FILE_CREATE line: the record gets the line's primary (its replica is not
\* read), and the ACL file gives every user but the line's owner an entry.
ReplayEntry(found, j) ==
    LET e == registry[j]
        added == file_index_add(found, e.file, e.owner, e.primary, j)
        lines == IF aclFile[e.file] = {} THEN NoAcl ELSE CHOOSE a \in aclFile[e.file] : TRUE
    IN  [added EXCEPT ![e.file].acl =
            [u \in Users |-> IF u # e.owner /\ lines[u] # "-" THEN lines[u] ELSE @[u]]]

\* The FILE_CREATE lines in their order.
Replayed ==
    LET replayed[j \in 0..Len(registry)] ==
            IF j = 0 THEN [f \in {} |-> {}] ELSE ReplayEntry(replayed[j - 1], j)
    IN  replayed[Len(registry)]

NameServerDies ==
    /\ running
    /\ running' = FALSE
    /\ link' = [s \in Servers |-> IF link[s] = "linked" THEN "stale" ELSE link[s]]
    /\ instructed' = {}

CrashNameServer ==
    /\ NameServerDies
    /\ UNCHANGED <<indexVars, serverVars, diskVars, disk, memory, orphaned, clock>>

\* What the reader makes of a file cut short: lines are missing, and of the one
\* that was cut the W.
CutShort(lines) ==
    {l \in [Users -> Modes] :
        \A u \in Users : l[u] \in {"-", lines[u]} \/ (l[u] = "R" /\ lines[u] = "RW")}

\* It dies in persist_acl_file, which has opened the file for writing: the owner
\* was granting, taking away or approving a right.
CrashInPersist(u, f, target, mode) ==
    LET r == [index[f] EXCEPT !.acl[target] = mode]
    IN  /\ Asks(u) /\ Owns(u, f)
        /\ mode # "-" => target \in clients
        /\ NameServerDies
        /\ index' = [index EXCEPT ![f] = r]
        /\ cache' = lru_cache_invalidate(cache, f)
        /\ \E lines \in CutShort(AclLines(r)) : aclFile' = [aclFile EXCEPT ![f] = {lines}]
        /\ UNCHANGED <<nextRecord, serverVars, registry, clients, requests, disk, memory,
                       orphaned, clock>>

StartNameServer ==
    /\ ~ running
    /\ running' = TRUE
    /\ index' = Replayed
    /\ cache' = <<>>
    /\ nextRecord' = Len(registry) + 1
    /\ servers' = <<>>
    /\ last_heartbeat' = [s \in Servers |-> 0]
    /\ next_primary_index' = 0
    /\ UNCHANGED <<diskVars, storeVars, clock>>

Tick ==
    /\ clock < MaxClock
    /\ clock' = clock + 1
    /\ UNCHANGED <<running, indexVars, serverVars, diskVars, storeVars>>

-----------------------------------------------------------------------------
Command(u, f) ==
    \/ "CREATE" \in Opcodes /\ (Create(u, f) \/ CreateFailed(u, f))
    \/ {"CREATE", "LOST"} \subseteq Opcodes /\ CreateLost(u, f)
    \/ "DELETE" \in Opcodes /\ Delete(u, f)
    \/ /\ "ACCESS" \in Opcodes
       /\ \E v \in Users : RemAccess(u, f, v)
                           \/ \E m \in {"R", "RW"} : AddAccess(u, f, v, m)
    \/ /\ {"ACCESS", "TORN"} \subseteq Opcodes
       /\ \E v \in Users, m \in Modes : CrashInPersist(u, f, v, m)
    \/ /\ "REQUEST" \in Opcodes
       /\ \/ \E m \in {"read", "write"} : RequestAccess(u, f, m)
          \/ \E v \in Users : ApproveRequest(u, f, v) \/ DenyRequest(u, f, v)

FileCommand(f) ==
    \/ "LOOKUP" \in Opcodes /\ Lookup(f)
    \/ \E d \in Folders :
          \/ "MOVE" \in Opcodes /\ (Move(f, d) \/ MoveUnindexed(f, d))
          \/ {"MOVE", "LOST"} \subseteq Opcodes /\ MoveLost(f, d)

ServerStep(s) ==
    \/ StartServer(s) \/ Heartbeat(s) \/ Reconnect(s) \/ ReconnectFailed(s)
    \/ "CRASH" \in Opcodes /\ CrashServer(s)
    \/ "WRITE" \in Opcodes /\ \E f \in Files : Open(s, f) \/ WriteText(s, f)

Next ==
    \/ \E u \in Users : RegisterClient(u) \/ \E f \in Files : Command(u, f)
    \/ \E f \in Files : FileCommand(f)
    \/ \E s \in Servers : ServerStep(s)
    \/ "RESTART" \in Opcodes /\ (CrashNameServer \/ StartNameServer)
    \/ Tick

Spec == Init /\ [][Next]_vars

-----------------------------------------------------------------------------
(* What the name server promises.                                          *)

\* The cache hands out no record that the index has freed, replaced or moved:
\* its entries have distinct names, and each is the address of the record that
\* a lookup of its name would find now.
CacheCoherent ==
    \A i \in DOMAIN cache :
        /\ cache[i].filename \in DOMAIN index
        /\ cache[i].record = index[cache[i].filename].id
        /\ \A j \in DOMAIN cache : cache[j].filename = cache[i].filename => i = j

\* An eviction always comes before the entry that needs its place.
CacheBounded == Len(cache) <= Capacity

\* A name is only ever listed with a first server that has the file on disk, to
\* which reads and writes are sent, through creations, deletions and moves in
\* which storage servers die, except for a file whose move was done by a server
\* that died before it could answer.
PrimaryHoldsFile ==
    \A f \in DOMAIN index \ orphaned : disk[index[f].ss_ids[1]][f] # "absent"

\* A file on disk never outlives its record: an ACL or a list of requests under
\* a name belongs to the file that has the name now, not to one deleted or
\* moved away before.
SideFilesFollowIndex ==
    \A f \in Files :
        (aclFile[f] # {} \/ requests[f] # {}) => f \in DOMAIN index

\* At every moment the files on disk are enough to rebuild the rights of every
\* user after a crash, in a history without deletions and moves.
RightsOnDisk ==
    running =>
        /\ DOMAIN Replayed = DOMAIN index
        /\ \A f \in DOMAIN index :
              /\ Replayed[f].owner = index[f].owner
              /\ \A u \in Users, w \in BOOLEAN :
                    file_record_check_access(Replayed[f], u, w)
                    = file_record_check_access(index[f], u, w)

\* A crash may cost a right, in the middle of persist_acl_file, but it gives
\* nobody one: after a restart a user may do with a file only what the name
\* server would have let him do before, in a history without deletions and
\* moves.
RestartGrantsNothing ==
    [][StartNameServer =>
          \A f \in DOMAIN index', u \in Users, w \in BOOLEAN :
              file_record_check_access(index'[f], u, w) =>
                  f \in DOMAIN index /\ file_record_check_access(index[f], u, w)]_vars

-----------------------------------------------------------------------------
(* What the documents and comments say and the code does not do.           *)

\* "ACL entries and file records are written to disk by the Name Server so they
\* survive restart" (README.md): a restarted name server knows the names it knew
\* and no others, their owners, and the servers that have them.
RecordsSurviveRestart ==
    [][StartNameServer =>
          /\ DOMAIN index' = DOMAIN index
          /\ \A f \in DOMAIN index :
                /\ index'[f].owner = index[f].owner
                /\ ToSet(index[f].ss_ids) \subseteq ToSet(index'[f].ss_ids)]_vars
=============================================================================
