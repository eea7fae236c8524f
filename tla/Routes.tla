------------------------------- MODULE Routes -------------------------------
(***************************************************************************)
(* One file that several storage servers hold, and the clients that ask    *)
(* for it: the choice of a server by heartbeat and load in the name        *)
(* server, the way of a client along the route it got, and the storage     *)
(* servers, which come and go meanwhile.                                   *)
(*                                                                         *)
(* The name server is up.  A heartbeat is handled when it is sent.  The    *)
(* text of the file is left out, and of its sentences only one is kept:    *)
(* WriteSession has a single storage server in full.                       *)
(***************************************************************************)
EXTENDS Integers, Sequences, FiniteSets, Functions, Arrays

CONSTANTS
    Clients,
    ss_ids,       \* the servers of the file's record, in their order
    None,         \* no client, no server
    Broken,       \* a connection whose server died
    Commands,     \* what the clients of a workload ask for
    Interval,     \* seconds between two heartbeats (5)
    Threshold,    \* seconds after which a silent server is dead (15)
    OtherReaders  \* bound: readers of other files on a server

LookedUp  == {"READ", "WRITE", "STREAM", "UNDO", "INFO"}
Forwarded == {"CHECKPOINT", "LISTCHECKPOINTS", "VIEWCHECKPOINT", "REVERTCHECKPOINT"}

ASSUME RoutesAssumption ==
    /\ ss_ids \in Seq(Range(ss_ids)) /\ ss_ids # <<>>
    /\ \A i, j \in DOMAIN ss_ids : ss_ids[i] = ss_ids[j] => i = j
    /\ IsFiniteSet(Clients)
    /\ Commands \subseteq LookedUp \cup Forwarded
    /\ Interval \in Nat \ {0} /\ {Threshold, OtherReaders} \subseteq Nat
    /\ Interval <= Threshold

Servers == Range(ss_ids)

VARIABLES
    status,     \* of each storage server's process
    silent,     \* seconds since its last heartbeat, as far as they matter
    load,       \* active_readers + 2 * active_writers of that heartbeat
    writer,     \* the client that has the sentence in the server's table
    command,    \* what each client has asked for
    at,         \* how far it has come
    route,      \* the servers it has still to try
    conn,       \* the server it is connected to
    steady      \* history: the servers that listened ever since its lookup

clientVars == <<command, at, route, conn, steady>>
vars == <<status, silent, load, writer, command, at, route, conn, steady>>

Statuses == {"down", "registered", "listening"}
Stages   == {"idle", "connect", "sent", "working", "session", "committing"}

TypeOK ==
    /\ status \in [Servers -> Statuses]
    /\ silent \in [Servers -> 0..(Threshold + 1)]
    /\ load \in [Servers -> 0..(2 * Cardinality(Clients) + 2 + OtherReaders)]
    /\ writer \in [Servers -> Clients \cup {None}]
    /\ command \in [Clients -> Commands \cup {"none"}]
    /\ at \in [Clients -> Stages]
    /\ route \in [Clients -> Seq(Servers)]
    /\ conn \in [Clients -> Servers \cup {None, Broken}]
    /\ steady \in [Clients -> SUBSET Servers]

Init ==
    /\ status = [s \in Servers |-> "listening"]
    /\ silent = [s \in Servers |-> 0]
    /\ load = [s \in Servers |-> 0]
    /\ writer = [s \in Servers |-> None]
    /\ command = [c \in Clients |-> "none"]
    /\ at = [c \in Clients |-> "idle"]
    /\ route = [c \in Clients |-> <<>>]
    /\ conn = [c \in Clients |-> None]
    /\ steady = [c \in Clients |-> {}]

Listening == {s \in Servers : status[s] = "listening"}

-----------------------------------------------------------------------------
(* The name server: which server of the record to use.                     *)

\* As if the check of the heartbeat were missing.
AliveAlways(s) == silent[s] <= Threshold + 1

Alive(s) == silent[s] <= Threshold

\* The first of the servers with the least load.
LeastLoaded(ids) ==
    ids[CHOOSE i \in DOMAIN ids :
            /\ \A j \in DOMAIN ids : load[ids[i]] <= load[ids[j]]
            /\ \A j \in 1..(i - 1) : load[ids[j]] # load[ids[i]]]

\* handle_lookup_file: the least loaded of the living, then the other living
\* ones; an empty route is the error "All storage servers down".
LookupRoute ==
    LET alive == Kept(ss_ids, {s \in Servers : Alive(s)})
    IN  IF alive = <<>> THEN <<>>
        ELSE <<LeastLoaded(alive)>> \o Kept(alive, Servers \ {LeastLoaded(alive)})

\* select_storage_server_for_record, which has no look at the heartbeats.
select_storage_server_for_record == LeastLoaded(ss_ids)

-----------------------------------------------------------------------------
(* The client.                                                             *)

\* As if the replicas were only used for reading.
FailoverReads == {"READ"}

\* cmd_read and cmd_write parse the replicas of the answer, the others do not.
Failover == {"READ", "WRITE"}

UsedRoute(k) ==
    IF k \in Failover \/ LookupRoute = <<>> THEN LookupRoute ELSE <<Head(LookupRoute)>>

\* The name server is one thread: while it waits for a storage server to which
\* it forwards a command it handles nothing else.
Waiting == \E c \in Clients : command[c] \in Forwarded

Lookup(c, k) ==
    /\ at[c] = "idle" /\ ~ Waiting
    /\ command' = [command EXCEPT ![c] = k]
    /\ at' = [at EXCEPT ![c] = "connect"]
    /\ route' = [route EXCEPT ![c] = UsedRoute(k)]
    /\ steady' = [steady EXCEPT ![c] = Listening]
    /\ UNCHANGED <<status, silent, load, writer, conn>>

\* forward_storage_request goes the way of a client with a route of one server,
\* and its failures are passed on to the client.
Forward(c, k) ==
    /\ at[c] = "idle" /\ ~ Waiting
    /\ command' = [command EXCEPT ![c] = k]
    /\ at' = [at EXCEPT ![c] = "connect"]
    /\ route' = [route EXCEPT ![c] = <<select_storage_server_for_record>>]
    /\ UNCHANGED <<status, silent, load, writer, conn, steady>>

\* Back to the prompt.
Finish(c) ==
    /\ command' = [command EXCEPT ![c] = "none"]
    /\ at' = [at EXCEPT ![c] = "idle"]
    /\ route' = [route EXCEPT ![c] = <<>>]
    /\ conn' = [conn EXCEPT ![c] = None]
    /\ steady' = [steady EXCEPT ![c] = {}]

\* tcp_connect succeeds and the request is sent.
Connect(c) ==
    /\ at[c] = "connect" /\ route[c] # <<>>
    /\ Head(route[c]) \in Listening
    /\ conn' = [conn EXCEPT ![c] = Head(route[c])]
    /\ at' = [at EXCEPT ![c] = "sent"]
    /\ route' = [route EXCEPT ![c] = <<>>]
    /\ steady' = [steady EXCEPT ![c] = {}]
    /\ UNCHANGED <<status, silent, load, writer, command>>

\* As if the loop over the replicas tried the same one again.
NextOnRouteSame(r) == r

\* What is left of a route whose first server was not reached.
NextOnRoute(r) == Tail(r)

\* tcp_connect fails and there is another replica.
TryNext(c) ==
    /\ at[c] = "connect" /\ Len(route[c]) > 1
    /\ Head(route[c]) \notin Listening
    /\ route' = [route EXCEPT ![c] = NextOnRoute(route[c])]
    /\ UNCHANGED <<status, silent, load, writer, command, at, conn, steady>>

\* The lookup was answered with an error, or no server was reached.
Unreachable(c) ==
    /\ at[c] = "connect"
    /\ \/ route[c] = <<>>
       \/ Len(route[c]) = 1 /\ Head(route[c]) \notin Listening
    /\ Finish(c)
    /\ UNCHANGED <<status, silent, load, writer>>

\* send_message or recv_message fails.
ConnectionLost(c) ==
    /\ conn[c] = Broken
    /\ Finish(c)
    /\ UNCHANGED <<status, silent, load, writer>>

\* The user types ETIRW after some updates.
Commit(c) ==
    /\ at[c] = "session" /\ conn[c] # Broken
    /\ at' = [at EXCEPT ![c] = "committing"]
    /\ UNCHANGED <<status, silent, load, writer, command, route, conn, steady>>

\* The user gives up, or makes no update.
Close(c) ==
    /\ at[c] = "session" /\ conn[c] # Broken
    /\ Finish(c)
    /\ UNCHANGED <<status, silent, load, writer>>

-----------------------------------------------------------------------------
(* The storage server: its threads, its heartbeat, its life.               *)

\* A thread takes up a request; WRITE is answered by a lock or an error.
Begin(c) ==
    /\ at[c] = "sent" /\ conn[c] \in Servers /\ command[c] # "WRITE"
    /\ at' = [at EXCEPT ![c] = "working"]
    /\ UNCHANGED <<status, silent, load, writer, command, route, conn, steady>>

Grant(c) ==
    /\ at[c] = "sent" /\ conn[c] \in Servers /\ command[c] = "WRITE"
    /\ writer[conn[c]] = None
    /\ writer' = [writer EXCEPT ![conn[c]] = c]
    /\ at' = [at EXCEPT ![c] = "session"]
    /\ UNCHANGED <<status, silent, load, command, route, conn, steady>>

Refuse(c) ==
    /\ at[c] = "sent" /\ conn[c] \in Servers /\ command[c] = "WRITE"
    /\ writer[conn[c]] # None
    /\ Finish(c)
    /\ UNCHANGED <<status, silent, load, writer>>

\* The answer to a request or to a commit.
Answer(c) ==
    /\ at[c] \in {"working", "committing"} /\ conn[c] \in Servers
    /\ Finish(c)
    /\ UNCHANGED <<status, silent, load, writer>>

\* The end of handle_write_request, some time after the client has gone on.
Release(s) ==
    /\ writer[s] # None
    /\ ~ (conn[writer[s]] = s /\ at[writer[s]] \in {"session", "committing"})
    /\ writer' = [writer EXCEPT ![s] = None]
    /\ UNCHANGED <<status, silent, load, clientVars>>

WorkingOn(s, kinds) ==
    {c \in Clients : at[c] = "working" /\ conn[c] = s /\ command[c] \in kinds}

active_readers(s) == Cardinality(WorkingOn(s, {"READ", "STREAM"}))
active_writers(s) ==
    Cardinality(WorkingOn(s, {"UNDO", "REVERTCHECKPOINT"})) + (IF writer[s] = None THEN 0 ELSE 1)

\* As if the figures were taken away from each other.
LoadOfDifference(readers, writers) == readers - 2 * writers

LoadOf(readers, writers) == readers + 2 * writers

\* Every Interval seconds; handle_heartbeat takes the figures, which count the
\* readers of other files too, and the time.
Heartbeat(s) ==
    /\ s \in Listening /\ silent[s] >= Interval /\ ~ Waiting
    /\ silent' = [silent EXCEPT ![s] = 0]
    /\ \E others \in 0..OtherReaders :
          load' = [load EXCEPT ![s] = LoadOf(active_readers(s) + others, active_writers(s))]
    /\ UNCHANGED <<status, writer, clientVars>>

\* main registers before it listens.  The name server keeps the load it knew.
Start(s) ==
    /\ status[s] = "down" /\ ~ Waiting
    /\ status' = [status EXCEPT ![s] = "registered"]
    /\ silent' = [silent EXCEPT ![s] = 0]
    /\ UNCHANGED <<load, writer, clientVars>>

Listen(s) ==
    /\ status[s] = "registered"
    /\ status' = [status EXCEPT ![s] = "listening"]
    /\ UNCHANGED <<silent, load, writer, clientVars>>

Crash(s) ==
    /\ status[s] # "down"
    /\ status' = [status EXCEPT ![s] = "down"]
    /\ writer' = [writer EXCEPT ![s] = None]
    /\ conn' = [c \in Clients |-> IF conn[c] = s THEN Broken ELSE conn[c]]
    /\ steady' = [c \in Clients |-> steady[c] \ {s}]
    /\ UNCHANGED <<silent, load, command, at, route>>

\* A second passes; no main loop is later than its Interval, and the name server
\* handles a heartbeat within that.  The code does not guarantee the latter: its
\* one thread waits without a timeout for the command that EXEC runs, and for the
\* rest of a message or the answer of a storage server.
Tick ==
    /\ \A s \in Servers : status[s] # "down" => silent[s] < Interval
    /\ silent' = [s \in Servers |->
                     IF silent[s] > Threshold THEN silent[s] ELSE silent[s] + 1]
    /\ UNCHANGED <<status, load, writer, clientVars>>

-----------------------------------------------------------------------------
\* The user chooses a command, goes on with a session or ends it.
UserStep(c) ==
    \/ \E k \in Commands \cap LookedUp : Lookup(c, k)
    \/ \E k \in Commands \cap Forwarded : Forward(c, k)
    \/ Commit(c) \/ Close(c)

\* The client program and the thread that serves it do the rest.
CommandStep(c) ==
    \/ Connect(c) \/ TryNext(c) \/ Unreachable(c) \/ ConnectionLost(c)
    \/ Begin(c) \/ Grant(c) \/ Refuse(c) \/ Answer(c)

Next ==
    \/ \E c \in Clients : UserStep(c) \/ CommandStep(c)
    \/ \E s \in Servers : Release(s) \/ Heartbeat(s) \/ Start(s) \/ Listen(s) \/ Crash(s)
    \/ Tick

Spec == Init /\ [][Next]_vars

\* Programs and time go on; users and failures do as they like.  The loop of the
\* name server serves every ready connection in turn, whatever it does between.
FairSpec ==
    /\ Spec
    /\ \A c \in Clients : WF_vars(CommandStep(c))
    /\ \A s \in Servers : WF_vars(Release(s)) /\ SF_vars(Heartbeat(s)) /\ WF_vars(Listen(s))
    /\ WF_vars(Tick)

-----------------------------------------------------------------------------
(* What the system promises when storage servers fail.                     *)

\* READ and WRITE report that no storage server could be reached only if every
\* server of the file was down at some moment since the lookup: one that
\* listened all the time has a fresh heartbeat, is on the route and is tried.
UnreachableMeansDown ==
    [][\A c \in Clients :
          Unreachable(c) /\ command[c] \in {"READ", "WRITE"} => steady[c] = {}]_vars

\* Once the servers no longer come and go and one of them listens, every command
\* that starts with a lookup is served, those that try a single server too:
\* heartbeats tell the name server in time which servers are left.
ServedBySurvivors ==
    (\E survivors \in SUBSET Servers \ {{}} :
        <>[](Listening = survivors /\ \A s \in Servers : status[s] # "registered"))
    => <>[][\A c \in Clients :
               Unreachable(c) \/ ConnectionLost(c) => command[c] \in Forwarded]_vars

\* No command hangs, whatever fails at whatever moment: the client gets back to
\* its prompt or into the session it asked for.
NoCommandHangs ==
    \A c \in Clients :
        at[c] \notin {"idle", "session"} ~> at[c] \in {"idle", "session"}

-----------------------------------------------------------------------------
(* What the documents say and the code does not do.                        *)

\* "Only ONE client can WRITE to a specific sentence at a time (sentence-level
\* locking)" (docs/ARCHITECTURE.md): two clients never have a session on the
\* same sentence of the file.
OneWriterPerSentence ==
    \A c, d \in Clients :
        at[c] = "session" /\ conn[c] # Broken /\ at[d] = "session" /\ conn[d] # Broken => c = d
=============================================================================
