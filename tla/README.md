# Network file storage: TLA+ models, checks and proofs

The system is a small distributed file store in C. One **name server** keeps the
names, owners and rights of the files; **storage servers** keep their text and
serve clients; a **client** program talks to the name server and, with the route
it gets from it, directly to a storage server. Files are texts of sentences, and
several clients may edit different sentences of one file at a time.

## 1. Inventory

| part | state | operations | talks to |
|---|---|---|---|
| storage server, client threads (`storage_server/src/main.c`) | table of locked sentences, load figures, one thread per connection with its list of updates | READ, WRITE session, STREAM, DELETE, UNDO, INFO, CREATE, MOVE, folders, checkpoints, REPLICATE | engine (calls), clients and name server (TCP) |
| storage engine (`storage_engine.c`) | loaded files with text, undo snapshot, `modified_at`, sentence mutexes; `files/`, `metadata/`, `undo/`, `checkpoints/` on disk | create, delete, read, write, unlock_sentence, undo, info, mark_access, move, folders, checkpoint, revert, import | called by the threads |
| registration and heartbeat of a storage server (`main.c`) | `nm_fd` | register_with_nm, send_heartbeat every 5 s | name server |
| file index and cache (`name_server/src/file_index.c`) | trie of records (owner, servers, ACL), LRU list of record addresses | add, remove, add_ss_replica, ACL operations, lookup, cache get and invalidate | called by the name server |
| name server (`name_server/src/main.c`) | servers with last heartbeat, clients, round-robin counter; `registry`, `acl/`, `requests/` on disk | registration, heartbeat, LOOKUP, CREATE, DELETE, ADDACCESS, REMACCESS, access requests, folders, MOVE, checkpoints (forwarded), VIEW, LIST, EXEC | storage servers (one TCP exchange inside a handler), clients |
| client (`client/`) | session of a WRITE with its replicas | one function per command | both servers |
| common | none | header encoding, sockets, path formatting | linked into all |

What is hard here: sessions that last for minutes over mutexes that are held for
microseconds; indices of sentences that other sessions shift; a version in whole
seconds that is read before the lock is taken; a lock array that `realloc` may
move while an operation points into it; a client that vanishes; three parsers for
sentences and words that have to agree; an operation that writes three files and
may die between them; a MOVE that holds one mutex while it waits for another;
addresses of records in a cache; a registry that only knows creations; an ACL file
that is truncated before it is written; two programs that compute the new name of
a moved file; storage servers that die around a forwarded command or in the middle
of a client's route; one attempt to reconnect.

What makes the parts correct:

* threads: one session per sentence; every way out of a session gives back what
  it took and nothing else; the load figures are exact; only an owner changes text;
* engine: a sentence lock left behind belongs to a session that gives it back;
  what is in memory is what a restart would load; a change is there or it is not,
  whoever reads or dies meanwhile; every call returns;
* text functions: a commit inserts its words and leaves the other sentences alone,
  and what the client accepts the engine accepts;
* cache: every entry is the record that the index has now;
* name server: rights can be rebuilt from disk at any moment and a crash gives
  nobody more of them; a listed file is on its first server; ACL and request files
  follow their file;
* client and routes: a server that is up is found, survivors serve everybody, no
  command hangs.

## 2. Modules

| module | models | state and actions |
|---|---|---|
| `WriteSession` | the storage server's threads on top of the engine | `pc`/`req` are the thread and the locals of its handler; `table` is `locked_sentences`; `mem`, `mutex`, `locked` the engine's memory, `disk` and `ckpt` its directories. A handler is cut where it gives other threads a chance: between two engine calls or sections of `g_state.lock` |
| `SentenceLocks` | the abstract lock service the table is meant to be | `held`, `Acquire`, `GiveBack`, `FreeAll` |
| `MCWriteSession` | instance for TLC | symmetry of threads |
| `WriteSessionProofs` | theorems about `WriteSession` | |
| `StorageEngine` | the engine below `WriteSession`: calls of several threads, interleaved at every mutex and every file that is read, written, renamed or unlinked | `files`, `heap`, `files_mutex`, `file_mutex` are the engine's memory; `disk` and `checkpoints` its directories; `call` the locals of a call, with the parts of a record that are still to be written. `Crash` may come between any two steps; with `IOERR` any write may fail |
| `FileStore` | the abstract store the engine is meant to be | texts, snapshots, checkpoints, answers; one step per change |
| `MCStorageEngine` | instance for TLC | symmetry of threads and names, in `calls` of names alone |
| `StorageEngineProofs` | theorems about `StorageEngine` and its refinement of `FileStore` | |
| `TextOps` | the text functions of the engine, the parser of `handle_write_request` and the checks of `cmd_write`, over sessions that follow one another | `compute_spans`, `tokenize_words`, `apply_updates`, ... as functions on sequences of characters |
| `MCTextOps` | instance for TLC | what users type |
| `TextOpsProofs` | theorems about `TextOps` and lemmas about its functions | |
| `FileIndex` | `file_index.c` as functions of its state | `file_index_add`, `lru_cache_get`, ... under their names in the code |
| `NameServer` | the name server with its disk, and the storage servers as its commands reach them | one action per handler, the exchange with a storage server included: the program is one thread around `select`. `disk`, `memory` are those of the storage servers; `link` is a storage server's connection to the name server |
| `MCNameServer` | instance for TLC | small sets of names |
| `NameServerProofs` | theorems about `NameServer` and lemmas about the functions of `FileIndex` | |
| `Routes` | name server, storage servers and clients composed, for one file: the choice of servers by heartbeat and load, the client's way along its route, crashes and returns of servers | `silent`, `load` are what the name server knows of a server; `at`, `route`, `conn` where a client is; `writer` the entry of the server's lock table |
| `MCRoutes` | instance for TLC | two servers |
| `RoutesProofs` | theorems about `Routes` | |
| `Arrays` | the loop that goes over an array and leaves entries out | `Kept` |
| `ArrayFacts` | lemmas about `Kept`, least numbers and induction, used by the other proofs | |

`NameServer` extends `FileIndex`. `WriteSession` is shown to implement
`SentenceLocks` (`LocksImplemented`), with the table as the mapping.
`StorageEngine` is shown to implement `FileStore` (`StoreImplemented`): the text of
the store is what is on disk, so that a change counts from the `rename` in
`atomic_write` on; its snapshot is the undo file, and `replaced` is the text that a
call has replaced and not yet saved as the snapshot. Threads, mutexes and the copy
in memory have no counterpart: if a READ could see a text before it is durable, or
two records of one name went apart, a step of the engine would be no step of the
store.

The same code appears in several modules at different grains. `WriteSession` takes
an engine call as one step, which `StorageEngine` justifies (each has one section
under `file_mutex`, and `StoreImplemented` shows that it is atomic to others);
`Routes` takes a session of a storage server as one entry of a table, which
`LocksImplemented` justifies; sentences are numbers in `WriteSession` and texts in
`TextOps` (`CommitKeepsOtherSentences` is the link: a commit with `k` delimiters
adds `k` sentences and leaves the others in place).

### How data is abstracted

* A sentence is a number, its identity, which it keeps when it is edited under its
  own index. An edit of sentence `i` with `k` delimiters in the new words puts `k` new
  sentences behind `i`. Words behind the last delimiter spill over into the next
  sentence, which gets a new identity then: it is not what its own session, if there
  is one, was shown. Words and characters are in `TextOps` only.
* In `TextOps` one letter stands for all, one delimiter for `.`, `!` and `?`, one
  blank for the white space that all parsers know, `cr` for the carriage return,
  which only some of them do, and `quote` for the double quote, with which the text of
  an update ends in its message.
* In `StorageEngine` a text is a number, new for every edit, and the metadata file is
  the text its counts were taken from.
* In `Routes` a file has one sentence and no text. Of a server's other work only
  its readers count, as a free addition to the load.
* A file name is a sequence of path components, so that the two rules for the new
  name of a moved file can be told apart (`NewPath`, `DestRel`).
* An ACL entry is `"R"` or `"RW"`; the code never stores one without reading.
* Optional things (a file on disk, a snapshot) are sets of at most one value.
* In `NameServer` the text of a file is `"empty"` or `"text"`: CREATE is refused
  where there is text.
* The capacity of a lock array is the largest number ever asked for. The code
  rounds up to powers of two and thus moves the array in fewer cases; whether
  `realloc` moves it is a free choice.

## 3. Runs

Every run is `tlc -config X.cfg M` with M the `MC` module. Deadlock is checked in
all of them but `calls`, whose workload ends after `MaxCalls` calls.

| run | question | outcome |
|---|---|---|
| `sessions` | Two sessions, disconnects, restarts on one file: one session per sentence, table exact, engine locks owned (also after the lock array has moved), table implements the lock service? | pass |
| `handlers` | All handlers interleaved: are the load figures exact, are engine locks owned, is text changed by UNDO, REVERT, DELETE and owners only, does a session end whose client is gone? | pass |
| `index` | No cache entry points to a freed or replaced record, the cache keeps its size, no ACL or request file outlives its record; types | pass |
| `stores` | A listed file is on its first server, whoever dies when | pass |
| `rights` | Owners and rights can be rebuilt from disk between any two handlers, and a restart after a crash anywhere, also inside `persist_acl_file`, gives nobody a right he had not | pass |
| `store` | Two threads in the engine and crashes anywhere: does memory agree with the disk, does the engine implement `FileStore`? | pass |
| `calls` | Does every call return, beside a MOVE and with disk errors? (All calls but DELETE) | pass |
| `edits` | Do the parsers of client, server and engine agree, does a commit insert its words and nothing else? | pass |
| `failures` | Servers crash and come back at any moment: is a server that is up always found, do the survivors serve everybody, does no command hang? | pass |
| `shift` | A commit edits the sentence its client was shown | violated within one second of another commit |
| `restart` | File records survive a restart | violated: deletions, second creations and replicas do not |
| `writers` | One client at a time has a sentence locked | violated: a lookup goes by load, and each server has its own table |

A run that is violated states what a document or a comment of the repository says,
and its finding in `PROJECT.json` quotes it.

The models show more disagreements of code and documents, which follow from a few
lines each and have no run of their own.

Sessions (`storage_server/src/main.c`):

* a client that stays connected and silent keeps its lock for ever: `recv_message`
  (`:412`) has no timeout, against `docs/REPORT.md:137` and `docs/ARCHITECTURE.md:612`;
* the version in a lock entry is read before the lock is asked for (`:292`, `:323`),
  so a commit may be refused for a change that came before the grant, against the
  comment at `:417`;
* the version is the file's and not the sentence's (`:422`): a commit to one
  sentence makes a commit to another fail when the clock has advanced, against
  `README.md:37`;
* DELETE does not look at locked sentences (`:526`), against `docs/COURSE_QA.md:223`;
* the 257th and later updates of a session are dropped and the commit is
  acknowledged (`:458`); the text of an update is cut to 511 characters (`:455`), and
  a later index that counts on the rest makes the commit fail;
* the text of an update ends at its first double quote (`json_get_string`, `:147`),
  and `cmd_write` does not escape any (`client/src/commands.c:892`): of `a "b c` the
  server keeps `a`, while the client reports the whole update as queued and counts
  three words. A text for which the message has no room (`snprintf` into 1024
  characters) has no closing quote, and arrives empty.

Engine (`storage_server/src/storage_engine.c`):

* the client takes a carriage return for the letter of a word
  (`client/src/commands.c:919`), the engine for white space (`:804`): after an update
  that ends with a blank and a carriage return the client's count is one word ahead, and a
  later index that it lets through makes the commit fail, against the comment at
  `client/src/commands.c:924` (`AcceptedUpdatesApply` has this as one of three reasons
  for a refusal, with the length of an update and a double quote in it);
* words put behind the delimiter of a sentence become the beginning of the next
  sentence, which may be locked by somebody else, against `README.md:37`
  (`CommitKeepsOtherSentences` says so for the next sentence);
* a crash between `persist_content` and `persist_undo` (`:1106`) leaves the new text
  with an older snapshot, so that UNDO goes back two changes, against `README.md:88`;
* WRITE, UNDO and READ take no notice of a failed write to the disk (`:1106`, `:962`),
  so a client is told "committed" of a text that a restart will not find;
* UNDO of an UNDO restores the undone text (`:1142`), against `docs/COURSE_QA.md:142`;
* checkpoints lie under the name of their file: MOVE does not take them along, and
  after DELETE a new file of the name has them (`:1330`, `:943`), against
  `docs/COURSE_QA.md:52`;
* MOVE renames three files under no mutex before it relabels the record (`:1330`): a
  READ in between of a file that is not loaded makes an empty record under the old
  name, which MOVE then gives the new name, where it hides the text on disk;
  MOVE onto a name that is loaded leaves two
  records of that name, of which the older one is found;
* DELETE frees a record that another thread may have found before (`:947`); DELETE of
  a file that is not loaded fails (`:923`, see `tests/test_bugs_demo.sh:112`).

Name server (`name_server/src/main.c`) and registration:

* the name server's new name of a moved file is the folder followed by the whole old
  name (`:2646`), the storage server keeps the last component only
  (`storage_engine.c:1298`): after moving `d/f` the listed server has no file of the
  listed name, against `README.md:12`;
* `send_heartbeat` tries to register once; if the name server is not back yet, `nm_fd`
  stays -1 and every later heartbeat returns at once
  (`storage_server/src/main.c:1017`), against `docs/ARCHITECTURE.md:626`; often it does
  not even try, because `send_all` takes a closed connection (`EPIPE`) for success
  (`common/src/net.c:133`). `NameServer` leaves open whether it notices, and no property
  depends on it;
* the `OP_REPLICATE_FILE` requests after a registration go down a connection that the
  storage server never reads again (`:940`), against the comments at `:902` and `:932`;
* a replica that was not reached or refused is listed (`:1287`), against `README.md:12`;
  and nothing ever copies a committed text to it, since `cmd_write` never connects to
  the replicas it counts (`client/src/commands.c:662`, `:779`);
* the forwarded checkpoint commands choose by load only (`:425`): a dead server with a
  low load is chosen again and again while its replica is up, against
  `docs/ARCHITECTURE.md:620` and `:648`; and CHECKPOINT and LISTCHECKPOINTS may go to
  two different servers, against `docs/ARCHITECTURE.md:422`;
* UNDO looks a file up for reading (`client/src/commands.c:1008`), so it needs no right
  to write, against `docs/COURSE_QA.md:230`;
* when the 32-bit round-robin counter wraps between the two choices and the number
  of servers is no power of two, the replica may be the primary (`:1208`), against
  the comment at `:1205`.

### Bounds

* `WriteSession`: 2 threads, 1 file, a clock of 0 to 1 seconds, an array of 1 update, 1
  message under way. Two threads give every pairwise interleaving of handlers, and
  the theorems cover any number; two seconds are enough for a version that does and
  one that does not notice a change; one update in the array for the dropped one. A
  restart may come at any time. `sessions` has WRITE only and up to three sentences
  (`MaxSentence`): one that is locked, one put in front of it, and one that is spilled
  into; commits that grow the lock array, and move it, happen. `handlers` has all
  opcodes and one sentence, so that the array never has to grow under a lock.
* `NameServer`: 1 or 2 users, 1 or 2 storage servers, 1 to 3 names (a file of the
  root, its name in a folder, a competitor for the cache), 2 or 3 records and log
  lines (create, delete, create again; create, create, move onto), a cache of 1
  entry, so that each lookup of another name evicts, a counter of 1 or 2 bits, so
  that it wraps. `Threshold` is 0 with a clock of 0 or 1: a server is alive in the
  second of its heartbeat only. In `stores` time stands still, so that dead
  servers still count as alive: the difficult case.
* `stores` moves files out of the root only, for the reason given above. `rights` has
  no DELETE or MOVE, whose loss `restart` shows.
* `StorageEngine`: 2 threads, 2 names, 2 or 3 records, 4 calls in `store` and 3 in
  `calls`. Four calls are enough for a change, a second change, an UNDO and a reader;
  a crash may come at any step, any number of times. In `store` MOVE and DELETE come
  alone (`Orderly`): what goes wrong beside them is described above. In `calls`
  nothing is orderly, so that MOVE meets the sections of every call but DELETE: a call
  beside a DELETE of its file goes on in freed memory, and the model has no such step
  (`EngineAssumption`). TLC warns of symmetry beside liveness; here only the names are
  symmetric, and as a run has finitely many steps `CallsReturn` fails only in a state
  in which a thread is stuck, which is the same under every renaming of them. (Without
  the symmetry the run passes too, in twice the time: 816 000 states.)
* `TextOps`: eight inputs (a word, a sentence, two words with two blanks between them,
  three words, two delimiters around a letter, two words around a carriage return, a
  word with a blank and a carriage return behind it, a word with a blank and a double
  quote behind it), up to two updates in a session, texts of up to 8 characters, buffers
  of 3 characters for an update and 6 for a sentence and a message with room for 5, so
  that all three overflow. Sessions follow one another
  without end: every text that can be typed within the bound is reached, and with it
  first, middle, last and incomplete sentences.
* `Routes`: 2 servers; 1 client for the liveness properties, 2 for `writers`; a
  heartbeat every second and a threshold of 2 seconds (or 1), in place of 5 and 15: a
  dead server stays on routes for a while in which it may come back. At most one
  foreign reader, so that each server may be the less loaded one.

### Fairness

* `WriteSession!FairSpec`: weak fairness of every thread's own steps. Mutexes are held
  for bounded stretches and the threads are the operating system's. Clients are not
  fair: they may stay silent.
* `StorageEngine!FairSpec`: weak fairness of each thread's steps. Who gets a mutex that
  several wait for is left open; a run has finitely many calls, so nobody can be
  overtaken for ever.
* `Routes!FairSpec`: weak fairness of a client program between two inputs, of the
  thread that serves it, of `Release` (the end of the handler), of `Listen` (the next
  statement of `main`) and of time. `Heartbeat` is strongly fair, because commands
  that the name server waits for disable it again and again, while its `select` loop
  serves every connection that is ready. Users, crashes and starts are not fair.
  `Tick` assumes that the main loop of a storage server sends its heartbeat in time
  (its `select` has a timeout of one second) and that the name server handles it within
  an interval. The latter the code does not guarantee: the name server's one thread
  waits without a timeout in `forward_storage_request`, in every `recv_all` of a message
  that has begun, and for the command that EXEC gives to `popen`. When one of
  these takes longer than the threshold, servers that are up count as dead until their
  next heartbeat is read.

## 4. Proofs

The theorems hold for every value of the constants that satisfies the named
assumption of its module: any number of threads, texts, users, servers, names, records,
calls, and any capacity or width.

| module | theorem | statement |
|---|---|---|
| `WriteSessionProofs` | `TypeCorrect` | `Spec => []TypeOK` |
| | `ExclusionHolds` | `Spec => []SentenceExclusion` |
| | `TableHolds` | `Spec => []LockTableExact` |
| | `GaugesHold` | `Spec => []LoadGauges` |
| | `EngineLocksHold` | `Spec => []EngineLocksOwned` |
| | `LocksRefined` | `Spec => LocksImplemented` |
| | `OwnersHold` | `Spec => OnlyOwnersChangeContent` |
| `StorageEngineProofs` | `TypeCorrect` | `Spec => []TypeOK` |
| | `MemoryHolds` | `Calm => (Spec => []MemoryOnDisk)` |
| | `StoreRefined` | `Calm => (Spec => StoreImplemented)` |
| `NameServerProofs` | `TypeCorrect` | `Spec => []TypeOK` |
| | `CacheAgrees` | `Spec => []CacheCoherent` |
| | `CacheFits` | `Spec => []CacheBounded` |
| | `SideFilesFollow` | `~ ({"MOVE", "RESTART"} \subseteq Opcodes) => (Spec => []SideFilesFollowIndex)` |
| | `PrimaryHolds` | `SameNames /\ "RESTART" \notin Opcodes => (Spec => []PrimaryHoldsFile)` |
| | `RightsHold` | `KeepsNames => (Spec => []RightsOnDisk)` |
| | `NothingGranted` | `KeepsNames => (Spec => RestartGrantsNothing)` |
| `RoutesProofs` | `TypeCorrect` | `Spec => []TypeOK` |
| | `UnreachableHolds` | `Spec => UnreachableMeansDown` |
| `TextOpsProofs` | `TypeCorrect` | `Spec => []TypeOK` |
| | `SpansHold` | `Spec => []SpansAreSentences` |
| | `AckHolds` | `Spec => []AckCountsEngineWords` |
| | `AcceptedHolds` | `Spec => []AcceptedUpdatesApply` |
| | `InsertsHold` | `Spec => []CommitInserts` |
| | `OthersKept` | `Spec => []CommitKeepsOtherSentences` |

### Hypotheses

A theorem has a hypothesis on the workload where the property is false without it.
Each is satisfied by the constants of the run that checks the property.

* `Calm`: MOVE and DELETE come alone (`Orderly`) and no file fails to be written. Section
  3 says what goes wrong beside a MOVE or a DELETE, and that WRITE acknowledges a text
  that did not reach the disk. Crashes of the process are allowed anywhere.
* `SideFilesFollow` excludes restarts together with moves: the registry has no line for a
  moved file, so that a restart forgets the file and keeps its ACL. Restarts with
  deletions are covered, which no run has.
* `SameNames`: the two programs agree on the new name of a moved file, which they do
  not when a name in a folder is moved again. A restart is excluded because it brings
  back the records of deleted files (`restart`). Deaths of storage servers and lost
  answers are allowed anywhere.
* `KeepsNames`: no DELETE and no MOVE, whose effect on the records a restart loses
  (`restart`). Restarts and crashes inside `persist_acl_file` are allowed.

Assumptions on constants, in the modules that declare them: bounds are natural numbers,
the set of threads is finite (the load figures are counts, the texts left are counted
against calls), markers such as `NoThread` are outside their sets, and `2^Width` is a
natural number greater than zero, which the prover does not compute.

### The arguments

**`WriteSession`.** One inductive invariant, `IInv`: types, a thread at work has a file,
an unloaded record is empty, and four properties. None is inductive alone.
Exclusion needs the exact table, because a grant only looks at the table; the
exact table needs exclusion, because `remove_sentence_lock` removes by key and
would take the entry of another session with the same key; the engine's locks need
exclusion, because an unlock clears the flag of a key, and the rule for unloaded
records, because a DELETE clears the flags of a file that sessions still edit; the
load figures need types (a count may not fall below zero), and the types of the
load figures need the counts. One lemma per action shows that the step keeps the
parts it can disturb; the refinement maps each grant and each removal to
one step of the lock service and everything else to a stutter. `OwnersHold` is an
action property: the steps that change a text in memory (`ContentStep`) or on disk
(`DiskStep`) are `ApplyOK`, UNDO, REVERT and the unlinking of a DELETE, and the thread of
the first one has the one entry of its key in the table, by the exact table and exclusion.

**`StorageEngine`.** Three invariants, each on top of the one before.

* `TInv`, for every workload: types; what the locals of a call are at each of its places
  (`CallShape`), so that a list of files still to be written is one of the seven that
  occur; who loads or relabels holds `files_mutex`; there is an address for a record that
  is being loaded; and there are texts left for the calls that make one, which is a count.
* `OInv`, for `Calm` workloads: who saves a record holds its `file_mutex`; beside a MOVE or
  DELETE all threads are idle; one record per name; and for each record in memory
  the text (the snapshot) is on disk, or a thread has the mutex of the record and the text
  (the snapshot) on its list. `MemoryOnDisk` is the case in which nobody has anything
  on a list.
* `RInv`: every text that is anywhere has been made before, so that the text of an edit is
  new; what a call has replaced and has not saved is what the disk had; a checkpoint
  once read stays and a free tag stays free; DELETE unlinks the text first.

The refinement has one lemma per step of the store (`StoreChange`, `StoreSnapshot`, ...),
stated with what is on disk before and after, and one per action of the engine that
shows which of them it is. A write of the text under a name is `Change`, `Create`,
`Import` or nothing, by what the call has left to write; a write of the snapshot is
`Snapshot`; everything under mutexes alone is a stutter.

**`NameServer`.** `NInv`, for every workload: types; every record of the index names a
first server; no two entries of the cache have the same name; every entry is the
record the index has under that name; the cache has at most `Capacity` entries. Agreement
needs distinct names, because an invalidation stops at the first entry of the name. On
top of it three invariants:

* `SInv`: side files have a record and, where nothing is moved, every record has a line in
  the registry, so that a restart rebuilds a record for every side file.
* `PInv`: the first server of each record has the file; all listed servers are registered
  (a MOVE goes to the first listed server if that is registered, and else to another);
  only names of the root are left behind by a MOVE whose answer was lost, so that
  such a name is never the new name of another file.
* `GInv`: every record has one line in the registry, with its owner, and its ACL file says
  what the record says of all other users, or, after a crash inside `persist_acl_file`,
  no more than that.

`FileIndex` is reasoned about through one lemma per function (`IndexAdded`,
`IndexRemoved`, `ReplicaAdded`, `CacheGet`, `PutInFront`, `Invalidated`, `RecordMoved`,
`LineReplayed`): what it returns is an index, which records it has, and where they come
from. The replay of the registry at a restart is a loop over its lines
(`RegistryReplayed`).

**`Routes`.** `IInv`: types; a server whose process runs is never silent for longer than a
heartbeat interval; a server that has listened since the lookup listens now; and while a
READ or WRITE looks for a server, those are still on the rest of its route. The third
needs the second: at the lookup a listening server must count as alive.

**`TextOps`.** `Inv`: types; a commit never leaves a carriage return in the text; a closed
session has no updates; an open one is about a sentence of the text or the place behind the
last one; and the client is behind the engine (`ClientIsBehind`): while every update so far
reached the server whole and began no word with a carriage return, the updates can
be applied, and make at least as many words as the client has counted. This last part is
what `AcceptedUpdatesApply` needs: the refusal is seen at the commit only, whereas the
index that caused it was checked, against a count that is a sum over earlier updates, when
it was typed. It starts with `AckCounts` at the lock and one update adds
`OneMoreApplied`. `ArrivingText` says when an update reaches the server whole: it fits into
the buffer, and so into the message, which is larger, and holds no double quote before
the one that ends it. The absence of carriage returns is needed because the loop of
`handle_write_request` knows fewer white characters than `compute_spans`: without them the
two agree (`PlainSpans`, `PlainWords`).

The other properties follow from what the functions compute, and that is proved by
adding one character to a text, or one word to a list (`SeqInduction`):

* sentences: `SpanMachine` is `compute_spans` read as a machine that takes one character
  at a time, which the code is not, since its inner loop runs ahead over white space;
  `SpansAhead` says that this loop never meets a delimiter. `AllParsed` is then an invariant
  of the machine, and `SpanOfText` the three cases of where a session writes;
* words: splitting a text loses white space only (`FlattenWords`), joining words adds
  blanks only (`JoinedWords`), and inserting is what it is named for on the lists
  (`DotsApplied`, `CommitPutsIn`);
* other sentences: the machine is run over the text behind the span from two states, before
  and after the commit. `AllParallel` says that the two runs find the same sentences from
  the second one on, and that the first differs in what the new text has left behind its
  last delimiter, which is what the property allows.

**Loops.** The prover cannot instantiate the library's induction theorems, whose
parameter is an operator. `ArrayFacts` proves instead that a set of numbers that is not
empty has a least one (`LeastNat`) and from it that a set with 0 that is closed under
successors holds all numbers (`SetInduction`); a fact about a loop is then the set of
rounds after which it holds. `KeptProperties`, `ServersAdded` and `RegistryReplayed` are
proved this way, and the loops in the models are functions of the number of rounds:
`LoopValue` and `LoopSame` say what such a function returns and that it is the only one.
`SeqInduction` is the same for sequences, with a set of sequences that has `<<>>` and is
closed under `Append`.

### Only model-checked

* Liveness: `DisconnectReleasesLock`, `CallsReturn`, `ServedBySurvivors`, `NoCommandHangs`.
  The prover does not reason about fairness.
* The violations (`shift`, `restart`, `writers`) are counterexamples and need no proof.

## 5. What is not modelled

* Out of memory. Disk errors of the name server; those of the engine are in `calls`.
* `last_accessed`, the stored word and character counts, messages and log lines.
* What happens in freed memory, after a DELETE beside another call, and the double
  free after a failed list of updates.
* A crash inside a handler of the name server other than in `persist_acl_file`.
* CREATEFOLDER and the directories of folders: the folders of the names in use exist.
* More than 16 active servers; a manifest of files in a registration (the storage
  server always sends an empty one).
* Whether `acl/` has the directory of a name in a folder when such a file is
  created is a free choice (`Create`).
* Rights and the name server's own failures in `Routes`, and the text of the replicas:
  nothing copies it.
* Read-only commands (VIEW, LIST, ACLINFO, LISTREQUESTS, VIEWFOLDER,
  LISTCHECKPOINTS, VIEWCHECKPOINT), EXEC (a `popen` of a file's text), commands of the
  client that pass one line to the name server, display and parsing, encoding of
  messages and paths: a message arrives whole and in order or its connection breaks.

## 6. Plan

The model is as complete as it is meant to be, and every safety property that a run
checks has a theorem. What is left:

1. `CommitInserts` for sessions with several updates, which needs the word positions of
   one update in terms of those after it; today the sessions of several updates have
   `CommitKeepsOtherSentences` and `AcceptedUpdatesApply`.
2. `SideFilesFollow` and `RightsHold` for histories with DELETE and restarts: what is
   left of a record after a restart could be stated instead of excluded.
