---------------------------- MODULE RoutesProofs ----------------------------
(***************************************************************************)
(* Proofs about Routes, for every set of clients, every list of storage    *)
(* servers, every heartbeat interval and every threshold above it.         *)
(***************************************************************************)
EXTENDS Routes, ArrayFacts

\* A storage server whose process runs is never silent for longer than the
\* interval of its heartbeats.
Fresh == \A s \in Servers : status[s] # "down" => silent[s] <= Interval

\* A server that has listened since a lookup listens now.
SteadyListen == \A c \in Clients : steady[c] \subseteq Listening

\* While READ or WRITE looks for a server, those that have listened since its
\* lookup are still to be tried.
SteadyOnRoute ==
    \A c \in Clients :
        at[c] = "connect" /\ command[c] \in {"READ", "WRITE"}
          => steady[c] \subseteq Range(route[c])

IInv == TypeOK /\ Fresh /\ SteadyListen /\ SteadyOnRoute

-----------------------------------------------------------------------------
(* What the operators give.                                                *)

\* The servers of the file are a list of servers that is not empty.
LEMMA ServersListed == ss_ids \in Seq(Servers) /\ ss_ids # <<>>
  BY RoutesAssumption DEF Servers

\* There is a least loaded server, and a first one of those.
LEMMA LeastLoadedType ==
  ASSUME TypeOK, NEW ids \in Seq(Servers), ids # <<>>
  PROVE  LeastLoaded(ids) \in Range(ids) /\ LeastLoaded(ids) \in Servers
  <1> DEFINE D == DOMAIN ids
             Loads == {load[ids[i]] : i \in D}
  <1>1. D = 1..Len(ids) /\ Len(ids) \in Nat /\ 1 \in D /\ \A i \in D : ids[i] \in Servers
    OBVIOUS
  <1>2. \A i \in D : load[ids[i]] \in Nat
    <2>1. \A s \in Servers : load[s] \in Nat
      BY DEF TypeOK
    <2>2. QED BY <1>1, <2>1
  <1>3. Loads \in SUBSET Nat /\ Loads # {}
    BY <1>1, <1>2
  <1>4. PICK m \in Loads : \A l \in Loads : m <= l
    BY <1>3, LeastNat
  <1> DEFINE First == {i \in D : load[ids[i]] = m}
  <1>5. First \in SUBSET Nat /\ First # {}
    BY <1>1, <1>4
  <1>6. PICK i \in First : \A j \in First : i <= j
    BY <1>5, LeastNat
  <1> DEFINE Best(k) == /\ \A j \in D : load[ids[k]] <= load[ids[j]]
                        /\ \A j \in 1..(k - 1) : load[ids[j]] # load[ids[k]]
  <1>7. Best(i) /\ i \in D
    <2>1. i \in D /\ load[ids[i]] = m
      BY <1>6
    <2>2. ASSUME NEW j \in D PROVE load[ids[i]] <= load[ids[j]]
      BY <1>4, <2>1
    <2>3. ASSUME NEW j \in 1..(i - 1), load[ids[j]] = load[ids[i]] PROVE FALSE
      <3>1. j \in D /\ j < i
        BY <1>1, <2>1
      <3>2. j \in First
        BY <2>1, <2>3, <3>1
      <3>3. QED BY <1>1, <1>6, <3>1, <3>2
    <2>4. QED BY <2>1, <2>2, <2>3
  <1>8. (CHOOSE k \in D : Best(k)) \in D
    <2> HIDE DEF Best, D
    <2>1. QED BY <1>7
  <1>9. QED BY <1>1, <1>8 DEF LeastLoaded, Range

\* The route of a lookup is made of the living servers, all of them.
LEMMA LookupRouteType ==
  ASSUME TypeOK
  PROVE  /\ LookupRoute \in Seq(Servers)
         /\ Range(LookupRoute) = {s \in Servers : Alive(s)}
  <1> DEFINE living == {s \in Servers : Alive(s)}
             alive == Kept(ss_ids, living)
             first == LeastLoaded(alive)
             rest == Kept(alive, Servers \ {first})
  <1>1. alive \in Seq(Servers) /\ Range(alive) = living
    <2>1. Range(ss_ids) = Servers
      BY DEF Servers
    <2> HIDE DEF living
    <2>2. Kept(ss_ids, living) \in Seq(Servers)
          /\ Range(Kept(ss_ids, living)) = Range(ss_ids) \cap living
      BY ServersListed, KeptProperties
    <2>3. living \subseteq Servers
      BY DEF living
    <2>4. QED BY <2>1, <2>2, <2>3
  <1>2. LookupRoute = IF alive = <<>> THEN <<>> ELSE <<first>> \o rest
    BY DEF LookupRoute
  <1> HIDE DEF alive, living
  <1>3. CASE alive = <<>>
    <2>1. Range(alive) = {}
      BY <1>3 DEF Range
    <2>2. QED BY <1>1, <1>2, <1>3, <2>1 DEF living
  <1>4. CASE alive # <<>>
    <2>1. first \in Servers /\ first \in living
      BY <1>1, <1>4, LeastLoadedType
    <2>2. rest \in Seq(Servers) /\ Range(rest) = living \ {first}
      <3>1. rest \in Seq(Servers) /\ Range(rest) = Range(alive) \cap (Servers \ {first})
        BY <1>1, KeptProperties
      <3>2. QED BY <1>1, <3>1 DEF living
    <2> HIDE DEF first, rest
    <2> DEFINE one == <<first>>
    <2>3. one \o rest \in Seq(Servers) /\ Range(one \o rest) = {first} \cup Range(rest)
      <3>1. one \in Seq(Servers) /\ Range(one) = {first}
        BY <2>1 DEF Range
      <3> HIDE DEF one
      <3>2. one \o rest \in Seq(Servers)
        BY <2>2, <3>1, ConcatProperties
      <3>3. Range(one \o rest) = Range(one) \cup Range(rest)
        BY <2>2, <3>1, RangeConcatenation
      <3>4. QED BY <3>1, <3>2, <3>3
    <2>4. QED BY <1>2, <1>4, <2>1, <2>2, <2>3 DEF living
  <1>5. QED BY <1>3, <1>4

\* Taking the first server off a route.
LEMMA TailRange ==
  ASSUME NEW S, NEW r \in Seq(S), r # <<>>
  PROVE  /\ Head(r) \in S /\ Tail(r) \in Seq(S)
         /\ Range(r) \subseteq {Head(r)} \cup Range(Tail(r))
  <1>1. Head(r) \in S /\ Tail(r) \in Seq(S)
    OBVIOUS
  <1>2. ASSUME NEW i \in DOMAIN r PROVE r[i] \in {Head(r)} \cup Range(Tail(r))
    <2>1. i \in 1..Len(r) /\ Len(r) \in Nat
      OBVIOUS
    <2>2. CASE i = 1
      BY <2>2
    <2>3. CASE i # 1
      <3>1. i - 1 \in DOMAIN Tail(r) /\ Tail(r)[i - 1] = r[i]
        BY <2>1, <2>3
      <3>2. QED BY <3>1 DEF Range
    <2>4. QED BY <2>2, <2>3
  <1>3. QED BY <1>1, <1>2 DEF Range

\* A route holds servers only, and those of READ and WRITE exactly the ones
\* that count as alive.
LEMMA UsedRouteType ==
  ASSUME TypeOK, NEW k
  PROVE  /\ UsedRoute(k) \in Seq(Servers)
         /\ k \in {"READ", "WRITE"} => Range(UsedRoute(k)) = {s \in Servers : Alive(s)}
  <1>1. LookupRoute \in Seq(Servers) /\ Range(LookupRoute) = {s \in Servers : Alive(s)}
    BY LookupRouteType
  <1>2. CASE k \in Failover \/ LookupRoute = <<>>
    BY <1>1, <1>2 DEF UsedRoute
  <1>3. CASE k \notin Failover /\ LookupRoute # <<>>
    <2>1. UsedRoute(k) = <<Head(LookupRoute)>> /\ Head(LookupRoute) \in Servers
      BY <1>1, <1>3 DEF UsedRoute
    <2>2. QED BY <1>3, <2>1 DEF Failover
  <1>4. QED BY <1>2, <1>3

\* A client is counted once, as a reader or as a writer.
LEMMA LoadBound ==
  ASSUME TypeOK, NEW s \in Servers, NEW others \in 0..OtherReaders
  PROVE  LoadOf(active_readers(s) + others, active_writers(s))
           \in 0..(2 * Cardinality(Clients) + 2 + OtherReaders)
  <1> DEFINE R == WorkingOn(s, {"READ", "STREAM"})
             W == WorkingOn(s, {"UNDO", "REVERTCHECKPOINT"})
  <1>1. R \in SUBSET Clients /\ W \in SUBSET Clients /\ R \cap W = {}
    BY DEF WorkingOn
  <1>2. IsFiniteSet(Clients) /\ OtherReaders \in Nat
    BY RoutesAssumption
  <1> HIDE DEF R, W
  <1>3. IsFiniteSet(R) /\ IsFiniteSet(W) /\ R \cup W \in SUBSET Clients
    BY <1>1, <1>2, FS_Subset
  <1>4. /\ Cardinality(R) \in Nat /\ Cardinality(W) \in Nat
        /\ Cardinality(Clients) \in Nat
    BY <1>2, <1>3, FS_CardinalityType
  <1>5. Cardinality(R \cup W) = Cardinality(R) + Cardinality(W) - Cardinality({})
    BY <1>1, <1>3, FS_Union
  <1>6. Cardinality({}) = 0
    BY FS_EmptySet
  <1>7. Cardinality(R \cup W) <= Cardinality(Clients)
    BY <1>2, <1>3, FS_Subset
  <1>8. active_readers(s) = Cardinality(R)
        /\ active_writers(s) \in {Cardinality(W), Cardinality(W) + 1}
    BY <1>4 DEF active_readers, active_writers, R, W
  <1>9. QED BY <1>2, <1>4, <1>5, <1>6, <1>7, <1>8 DEF LoadOf

-----------------------------------------------------------------------------
(* Each step keeps the invariant.                                          *)

\* The end of a command keeps the types.
LEMMA FinishType ==
  ASSUME TypeOK, NEW c \in Clients, Finish(c), UNCHANGED <<status, silent, load, writer>>
  PROVE  TypeOK'
  <1>1. <<>> \in Seq(Servers)
    OBVIOUS
  <1>2. QED BY <1>1 DEF TypeOK, Finish, Stages

\* Every step keeps the types.
LEMMA TypeStep ==
  ASSUME TypeOK, [Next]_vars
  PROVE  TypeOK'
  <1> USE DEF Stages, Statuses
  <1>1. ASSUME NEW c \in Clients, NEW k \in Commands, Lookup(c, k)
        PROVE  TypeOK'
    <2>1. UsedRoute(k) \in Seq(Servers)
      BY UsedRouteType
    <2>2. Listening \in SUBSET Servers
      BY DEF Listening
    <2>3. QED BY <1>1, <2>1, <2>2 DEF Lookup, TypeOK
  <1>2. ASSUME NEW c \in Clients, NEW k \in Commands, Forward(c, k)
        PROVE  TypeOK'
    <2>1. LeastLoaded(ss_ids) \in Servers
      BY LeastLoadedType, ServersListed
    <2>2. <<select_storage_server_for_record>> \in Seq(Servers)
      BY <2>1 DEF select_storage_server_for_record
    <2>3. QED BY <1>2, <2>2 DEF Forward, TypeOK
  <1>3. ASSUME NEW c \in Clients, Commit(c) \/ Begin(c)
        PROVE  TypeOK'
    BY <1>3 DEF Commit, Begin, TypeOK
  <1>4. ASSUME NEW c \in Clients,
               Close(c) \/ Unreachable(c) \/ ConnectionLost(c) \/ Refuse(c) \/ Answer(c)
        PROVE  TypeOK'
    BY <1>4, FinishType DEF Close, Unreachable, ConnectionLost, Refuse, Answer
  <1>5. ASSUME NEW c \in Clients, Connect(c)
        PROVE  TypeOK'
    <2>1. Head(route[c]) \in Servers
      BY <1>5 DEF Connect, Listening
    <2>2. <<>> \in Seq(Servers)
      OBVIOUS
    <2>3. QED BY <1>5, <2>1, <2>2 DEF Connect, TypeOK
  <1>6. ASSUME NEW c \in Clients, TryNext(c)
        PROVE  TypeOK'
    <2>1. route[c] \in Seq(Servers) /\ route[c] # <<>>
      BY <1>6 DEF TryNext, TypeOK
    <2>2. NextOnRoute(route[c]) \in Seq(Servers)
      BY <2>1, TailRange DEF NextOnRoute
    <2>3. QED BY <1>6, <2>2 DEF TryNext, TypeOK
  <1>7. ASSUME NEW c \in Clients, Grant(c)
        PROVE  TypeOK'
    BY <1>7 DEF Grant, TypeOK
  <1>8. ASSUME NEW s \in Servers, Release(s) \/ Start(s) \/ Listen(s)
        PROVE  TypeOK'
    <2>1. 0 \in 0..(Threshold + 1)
      BY RoutesAssumption
    <2>2. QED BY <1>8, <2>1 DEF Release, Start, Listen, TypeOK, clientVars
  <1>9. ASSUME NEW s \in Servers, Heartbeat(s)
        PROVE  TypeOK'
    <2>1. PICK others \in 0..OtherReaders :
               load' = [load EXCEPT ![s] = LoadOf(active_readers(s) + others,
                                                  active_writers(s))]
      BY <1>9 DEF Heartbeat
    <2> DEFINE l == LoadOf(active_readers(s) + others, active_writers(s))
    <2>2. l \in 0..(2 * Cardinality(Clients) + 2 + OtherReaders)
      BY LoadBound
    <2> HIDE DEF l
    <2>3. load' \in [Servers -> 0..(2 * Cardinality(Clients) + 2 + OtherReaders)]
      BY <2>1, <2>2 DEF TypeOK, l
    <2>4. 0 \in 0..(Threshold + 1)
      BY RoutesAssumption
    <2>5. QED BY <1>9, <2>3, <2>4 DEF Heartbeat, TypeOK, clientVars
  <1>10. ASSUME NEW s \in Servers, Crash(s)
         PROVE  TypeOK'
    BY <1>10 DEF Crash, TypeOK
  <1>11. ASSUME Tick
         PROVE  TypeOK'
    <2>1. silent' \in [Servers -> 0..(Threshold + 1)]
      BY <1>11, RoutesAssumption DEF Tick, TypeOK
    <2>2. QED BY <1>11, <2>1 DEF Tick, TypeOK, clientVars
  <1>12. ASSUME UNCHANGED vars
         PROVE  TypeOK'
    BY <1>12 DEF vars, TypeOK
  <1>13. QED
    BY <1>1, <1>2, <1>3, <1>4, <1>5, <1>6, <1>7, <1>8, <1>9, <1>10, <1>11, <1>12
       DEF Next, UserStep, CommandStep

\* The clients do nothing to the processes of the servers, nor to the time.
LEMMA ClientsKeepServers ==
  ASSUME NEW c \in Clients, UserStep(c) \/ CommandStep(c)
  PROVE  UNCHANGED <<status, silent>>
  BY DEF UserStep, CommandStep, Lookup, Forward, Commit, Close, Connect, TryNext,
         Unreachable, ConnectionLost, Begin, Grant, Refuse, Answer

\* A server whose process runs is never silent for longer than a heartbeat
\* interval, after every step.
LEMMA FreshStep ==
  ASSUME TypeOK, Fresh, [Next]_vars
  PROVE  Fresh'
  <1>1. ASSUME UNCHANGED <<status, silent>>
        PROVE  Fresh'
    BY <1>1 DEF Fresh
  <1>2. ASSUME NEW s \in Servers, Heartbeat(s) \/ Start(s) \/ Listen(s) \/ Crash(s)
        PROVE  Fresh'
    BY <1>2, RoutesAssumption DEF Fresh, TypeOK, Heartbeat, Start, Listen, Crash
  <1>3. ASSUME Tick
        PROVE  Fresh'
    BY <1>3, RoutesAssumption DEF Fresh, TypeOK, Tick
  <1>4. QED
    BY <1>1, <1>2, <1>3, ClientsKeepServers DEF Next, Release, vars

\* The end of a command keeps what is known of the servers that stayed up.
LEMMA FinishKeepsSteady ==
  ASSUME TypeOK, SteadyListen, SteadyOnRoute, NEW c \in Clients, Finish(c), UNCHANGED status
  PROVE  SteadyListen' /\ SteadyOnRoute'
  BY DEF Finish, SteadyListen, SteadyOnRoute, Listening, TypeOK

\* A lookup has every server that listens on its route, for each has a fresh
\* heartbeat; a step of a client takes off the route at most a server that does
\* not listen.
LEMMA ClientKeepsSteady ==
  ASSUME IInv, NEW c \in Clients, UserStep(c) \/ CommandStep(c)
  PROVE  SteadyListen' /\ SteadyOnRoute'
  <1> USE DEF IInv
  <1>1. ASSUME NEW k \in Commands, Lookup(c, k)
        PROVE  SteadyListen' /\ SteadyOnRoute'
    <2>1. Listening \subseteq {s \in Servers : Alive(s)}
      <3>1. SUFFICES ASSUME NEW s \in Servers, status[s] = "listening"
                     PROVE  silent[s] <= Threshold
        BY DEF Listening, Alive
      <3>2. silent[s] <= Interval /\ silent[s] \in Nat
        BY <3>1, RoutesAssumption DEF Fresh, TypeOK
      <3>3. QED BY <3>2, RoutesAssumption
    <2>2. k \in {"READ", "WRITE"} => Listening \subseteq Range(UsedRoute(k))
      BY <2>1, UsedRouteType
    <2> DEFINE r == UsedRoute(k)
    <2>3. /\ route' = [route EXCEPT ![c] = r]
          /\ command' = [command EXCEPT ![c] = k]
          /\ at' = [at EXCEPT ![c] = "connect"]
          /\ steady' = [steady EXCEPT ![c] = Listening]
          /\ status' = status
      BY <1>1 DEF Lookup
    <2> HIDE DEF r
    <2>4. SteadyListen'
      BY <2>3 DEF SteadyListen, Listening, TypeOK
    <2>5. ASSUME NEW d \in Clients, at'[d] = "connect", command'[d] \in {"READ", "WRITE"}
          PROVE  steady'[d] \subseteq Range(route'[d])
      <3>1. CASE d = c
        BY <2>2, <2>3, <2>5, <3>1 DEF TypeOK, r
      <3>2. CASE d # c
        BY <2>3, <2>5, <3>2 DEF SteadyOnRoute, TypeOK
      <3>3. QED BY <3>1, <3>2
    <2>6. QED BY <2>4, <2>5 DEF SteadyOnRoute
  <1>2. ASSUME NEW k \in Forwarded, Forward(c, k)
        PROVE  SteadyListen' /\ SteadyOnRoute'
    BY <1>2 DEF Forward, Forwarded, SteadyListen, SteadyOnRoute, Listening, TypeOK
  <1>3. ASSUME Close(c) \/ Unreachable(c) \/ ConnectionLost(c) \/ Refuse(c) \/ Answer(c)
        PROVE  SteadyListen' /\ SteadyOnRoute'
    BY <1>3, FinishKeepsSteady
       DEF Close, Unreachable, ConnectionLost, Refuse, Answer
  <1>4. ASSUME Commit(c) \/ Begin(c) \/ Grant(c) \/ Connect(c)
        PROVE  SteadyListen' /\ SteadyOnRoute'
    BY <1>4 DEF Commit, Begin, Grant, Connect, SteadyListen, SteadyOnRoute, Listening, TypeOK
  <1>5. ASSUME TryNext(c)
        PROVE  SteadyListen' /\ SteadyOnRoute'
    <2>1. route[c] \in Seq(Servers) /\ route[c] # <<>>
      BY <1>5 DEF TryNext, TypeOK
    <2>2. Range(route[c]) \subseteq {Head(route[c])} \cup Range(NextOnRoute(route[c]))
      BY <2>1, TailRange DEF NextOnRoute
    <2> DEFINE r == NextOnRoute(route[c])
    <2>3. /\ Head(route[c]) \notin Listening /\ route' = [route EXCEPT ![c] = r]
          /\ UNCHANGED <<status, command, at, steady>>
      BY <1>5 DEF TryNext
    <2> HIDE DEF r
    <2>4. ASSUME NEW d \in Clients, at[d] = "connect", command[d] \in {"READ", "WRITE"}
          PROVE  steady[d] \subseteq Range(route'[d])
      <3>1. steady[d] \subseteq Listening /\ steady[d] \subseteq Range(route[d])
        BY <2>4 DEF SteadyListen, SteadyOnRoute
      <3>2. CASE d = c
        BY <2>2, <2>3, <3>1, <3>2 DEF TypeOK, r
      <3>3. CASE d # c
        BY <2>3, <3>1, <3>3 DEF TypeOK
      <3>4. QED BY <3>2, <3>3
    <2>5. QED BY <2>3, <2>4 DEF SteadyListen, SteadyOnRoute, Listening
  <1>6. QED
    BY <1>1, <1>2, <1>3, <1>4, <1>5 DEF UserStep, CommandStep

\* A server that stayed up since the lookup still listens and is still to be
\* tried, after every step.
LEMMA SteadyStep ==
  ASSUME IInv, [Next]_vars
  PROVE  SteadyListen' /\ SteadyOnRoute'
  <1> USE DEF IInv
  <1>1. ASSUME NEW s \in Servers, Release(s) \/ Heartbeat(s) \/ Start(s) \/ Listen(s)
        PROVE  SteadyListen' /\ SteadyOnRoute'
    <2>1. UNCHANGED clientVars /\ Listening \subseteq Listening'
      BY <1>1 DEF Release, Heartbeat, Start, Listen, Listening, clientVars, TypeOK
    <2>2. QED BY <2>1 DEF SteadyListen, SteadyOnRoute, clientVars
  <1>2. ASSUME NEW s \in Servers, Crash(s)
        PROVE  SteadyListen' /\ SteadyOnRoute'
    <2>1. /\ Listening' = Listening \ {s} /\ UNCHANGED <<at, command, route>>
          /\ \A c \in Clients : steady'[c] = steady[c] \ {s}
      BY <1>2 DEF Crash, Listening, TypeOK
    <2>2. QED BY <2>1 DEF SteadyListen, SteadyOnRoute
  <1>3. ASSUME Tick \/ UNCHANGED vars
        PROVE  SteadyListen' /\ SteadyOnRoute'
    BY <1>3 DEF Tick, vars, clientVars, SteadyListen, SteadyOnRoute, Listening
  <1>4. QED BY <1>1, <1>2, <1>3, ClientKeepsSteady DEF Next

\* The inductive invariant always holds.
LEMMA Inductive == Spec => []IInv
  <1>1. Init => IInv
    <2>1. ASSUME Init PROVE TypeOK
      <3>1. IsFiniteSet(Clients) /\ {Threshold, OtherReaders} \subseteq Nat
        BY RoutesAssumption
      <3>2. Cardinality(Clients) \in Nat
        BY <3>1, FS_CardinalityType
      <3>3. <<>> \in Seq(Servers)
        OBVIOUS
      <3>4. QED BY <2>1, <3>1, <3>2, <3>3 DEF Init, TypeOK, Statuses, Stages
    <2>2. ASSUME Init PROVE Fresh /\ SteadyListen /\ SteadyOnRoute
      BY <2>2, RoutesAssumption DEF Init, Fresh, SteadyListen, SteadyOnRoute
    <2>3. QED BY <2>1, <2>2 DEF IInv
  <1>2. IInv /\ [Next]_vars => IInv'
    BY TypeStep, FreshStep, SteadyStep DEF IInv
  <1>3. QED BY <1>1, <1>2, PTL DEF Spec

-----------------------------------------------------------------------------
\* Types: in particular the load that the name server compares stays below the
\* bound that the number of clients gives, and a route has servers only.
THEOREM TypeCorrect == Spec => []TypeOK
  <1>1. IInv => TypeOK
    BY DEF IInv
  <1>2. QED BY <1>1, Inductive, PTL

\* cmd_read and cmd_write report an unreachable file only if no server of the
\* file has listened ever since the lookup.
THEOREM UnreachableHolds == Spec => UnreachableMeansDown
  <1>1. ASSUME IInv, NEW c \in Clients, Unreachable(c), command[c] \in {"READ", "WRITE"}
        PROVE  steady[c] = {}
    <2>1. steady[c] \subseteq Listening /\ steady[c] \subseteq Range(route[c])
      BY <1>1 DEF IInv, SteadyListen, SteadyOnRoute, Unreachable
    <2>2. CASE route[c] = <<>>
      BY <2>1, <2>2 DEF Range
    <2>3. CASE Len(route[c]) = 1 /\ Head(route[c]) \notin Listening
      <3>1. route[c] \in Seq(Servers)
        BY <1>1 DEF IInv, TypeOK
      <3>2. DOMAIN route[c] = {1} /\ Head(route[c]) = route[c][1]
        BY <2>3, <3>1
      <3>3. Range(route[c]) = {Head(route[c])}
        BY <3>2 DEF Range
      <3>4. QED BY <2>1, <2>3, <3>3
    <2>4. QED BY <1>1, <2>2, <2>3 DEF Unreachable
  <1>2. IInv => [\A c \in Clients :
                    Unreachable(c) /\ command[c] \in {"READ", "WRITE"}
                      => steady[c] = {}]_vars
    BY <1>1
  <1>3. QED BY <1>2, Inductive, PTL DEF UnreachableMeansDown
=============================================================================
