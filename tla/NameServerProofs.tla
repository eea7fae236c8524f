-------------------------- MODULE NameServerProofs --------------------------
(***************************************************************************)
(* Proofs about NameServer, for every set of users, servers, names and     *)
(* folders and every size of the cache.  The invariant of all of them is   *)
(* NInv: the index holds whole records that name a first server, the cache *)
(* agrees with the index and is within its bound, the rest has its type.   *)
(* SInv, PInv and GInv add to it what the side files, the disks of the     *)
(* storage servers and the rights after a restart need.                    *)
(***************************************************************************)
EXTENDS NameServer, ArrayFacts

-----------------------------------------------------------------------------
(* Arrays of entries with names.                                           *)

\* An entry is taken out: the entries before it stay and those behind it move up.
LEMMA Removed ==
  ASSUME NEW S, NEW s \in Seq(S), NEW i \in 1..Len(s)
  PROVE  /\ RemoveAt(s, i) \in Seq(S) /\ Len(RemoveAt(s, i)) = Len(s) - 1
         /\ \A j \in 1..(Len(s) - 1) : RemoveAt(s, i)[j] = IF j < i THEN s[j] ELSE s[j + 1]
  <1> DEFINE a == SubSeq(s, 1, i - 1)
             b == SubSeq(s, i + 1, Len(s))
  <1>1. /\ a \in Seq(S) /\ Len(a) = i - 1 /\ \A j \in 1..(i - 1) : a[j] = s[j]
    <2>1. \A j \in 1..(i - 1) : s[j] \in S
      OBVIOUS
    <2>2. QED BY <2>1, SubSeqProperties
  <1>2. /\ b \in Seq(S) /\ Len(b) = Len(s) - i
        /\ \A j \in 1..(Len(s) - i) : b[j] = s[i + j]
    <2>1. \A j \in (i + 1)..Len(s) : s[j] \in S
      OBVIOUS
    <2>2. QED BY <2>1, SubSeqProperties
  <1> HIDE DEF a, b
  <1>3. /\ a \o b \in Seq(S) /\ Len(a \o b) = Len(s) - 1
        /\ \A j \in 1..(Len(s) - 1) : (a \o b)[j] = IF j <= i - 1 THEN a[j] ELSE b[j - (i - 1)]
    <2>1. /\ a \o b \in Seq(S) /\ Len(a \o b) = Len(a) + Len(b)
          /\ \A j \in 1..(Len(a) + Len(b)) : (a \o b)[j] = IF j <= Len(a) THEN a[j] ELSE b[j - Len(a)]
      BY <1>1, <1>2, ConcatProperties
    <2>2. Len(a) + Len(b) = Len(s) - 1
      BY <1>1, <1>2
    <2>3. QED BY <1>1, <2>1, <2>2
  <1>4. RemoveAt(s, i) = a \o b
    BY DEF RemoveAt, a, b
  <1>5. ASSUME NEW j \in 1..(Len(s) - 1)
        PROVE  RemoveAt(s, i)[j] = IF j < i THEN s[j] ELSE s[j + 1]
    BY <1>1, <1>2, <1>3, <1>4
  <1>6. QED BY <1>3, <1>4, <1>5

\* The first entry of a name, where there is one.
LEMMA FirstNamed ==
  ASSUME NEW S, NEW s \in Seq(S), NEW f, \E i \in DOMAIN s : s[i].filename = f
  PROVE  LET k == SelectInSeq(s, LAMBDA e : e.filename = f)
         IN  k \in 1..Len(s) /\ s[k].filename = f
  <1> DEFINE I == {i \in 1..Len(s) : s[i].filename = f}
  <1>1. I # {} /\ I \in SUBSET Nat
    OBVIOUS
  <1>2. \E x \in I : \A y \in I : x <= y
    BY <1>1, LeastNat
  <1>3. Min(I) \in I
    BY <1>2 DEF Min
  <1>4. SelectInSeq(s, LAMBDA e : e.filename = f) = Min(I)
    BY <1>1 DEF SelectInSeq
  <1>5. QED BY <1>3, <1>4

-----------------------------------------------------------------------------
(* The lookup cache.                                                       *)

DistinctNames(c) == \A i, j \in DOMAIN c : c[i].filename = c[j].filename => i = j

Coherent(c, ix) ==
    \A i \in DOMAIN c : c[i].filename \in DOMAIN ix /\ c[i].record = ix[c[i].filename].id

\* Every entry of d is an entry of c.
Within(d, c) == \A i \in DOMAIN d : \E j \in DOMAIN c : d[i] = c[j]

Nameless(c, f) == \A i \in DOMAIN c : c[i].filename # f

\* After an invalidation there is no entry of the name, and no other is lost or new.
LEMMA Invalidated ==
  ASSUME NEW c \in Seq(CacheEntry), DistinctNames(c), NEW f, NEW d, d = lru_cache_invalidate(c, f)
  PROVE  /\ d \in Seq(CacheEntry) /\ DistinctNames(d) /\ Within(d, c) /\ Nameless(d, f)
         /\ Len(d) <= Len(c)
         /\ (\E i \in DOMAIN c : c[i].filename = f) => Len(d) = Len(c) - 1
  <1>0. Len(c) \in Nat /\ DOMAIN c = 1..Len(c)
    OBVIOUS
  <1>1. CASE ~ \E i \in DOMAIN c : c[i].filename = f
    <2>1. d = c
      BY <1>0, <1>1 DEF lru_cache_invalidate, RemoveFirstMatch
    <2>2. Within(d, c) /\ Nameless(d, f)
      BY <1>1, <2>1 DEF Within, Nameless
    <2>3. d \in Seq(CacheEntry) /\ DistinctNames(d) /\ Len(d) = Len(c)
      BY <2>1
    <2>4. Len(d) <= Len(c)
      BY <1>0, <2>3
    <2>5. QED BY <1>1, <2>2, <2>3, <2>4
  <1>2. CASE \E i \in DOMAIN c : c[i].filename = f
    <2>1. PICK k \in 1..Len(c) : k = SelectInSeq(c, LAMBDA e : e.filename = f) /\ c[k].filename = f
      BY <1>2, FirstNamed
    <2>2. d = RemoveAt(c, k)
      BY <1>0, <1>2, <2>1 DEF lru_cache_invalidate, RemoveFirstMatch
    <2>3. /\ d \in Seq(CacheEntry) /\ Len(d) = Len(c) - 1
          /\ \A j \in 1..(Len(c) - 1) : d[j] = IF j < k THEN c[j] ELSE c[j + 1]
      BY <2>2, Removed
    <2>4. DOMAIN d = 1..(Len(c) - 1)
      BY <2>3
    <2>5. Within(d, c)
      BY <1>0, <2>3, <2>4 DEF Within
    <2>6. Nameless(d, f)
      <3>1. \A i \in 1..Len(c) : i # k => c[i].filename # f
        BY <1>0, <2>1 DEF DistinctNames
      <3>2. QED BY <1>0, <2>3, <2>4, <3>1 DEF Nameless
    <2>7. DistinctNames(d)
      <3>1. SUFFICES ASSUME NEW i \in 1..(Len(c) - 1), NEW j \in 1..(Len(c) - 1),
                            d[i].filename = d[j].filename PROVE i = j
        BY <2>4 DEF DistinctNames
      <3>2. \E x, y \in 1..Len(c) : /\ x = (IF i < k THEN i ELSE i + 1) /\ d[i] = c[x]
                                    /\ y = (IF j < k THEN j ELSE j + 1) /\ d[j] = c[y]
        BY <1>0, <2>3
      <3>3. PICK x \in 1..Len(c), y \in 1..Len(c) :
               /\ x = (IF i < k THEN i ELSE i + 1) /\ d[i] = c[x]
               /\ y = (IF j < k THEN j ELSE j + 1) /\ d[j] = c[y]
        BY <3>2
      <3>4. x = y
        BY <1>0, <3>1, <3>3 DEF DistinctNames
      <3>5. QED BY <3>3, <3>4
    <2>8. QED BY <1>0, <2>3, <2>5, <2>6, <2>7
  <1>3. QED BY <1>1, <1>2

\* An entry of another name is put in front.
LEMMA PutInFront ==
  ASSUME NEW d \in Seq(CacheEntry), DistinctNames(d), NEW e \in CacheEntry, Nameless(d, e.filename),
         NEW c, c = <<e>> \o d
  PROVE  /\ c \in Seq(CacheEntry) /\ Len(c) = Len(d) + 1 /\ DistinctNames(c)
         /\ \A ix : Coherent(d, ix) /\ e.filename \in DOMAIN ix /\ e.record = ix[e.filename].id
                      => Coherent(c, ix)
  <1>1. /\ <<e>> \in Seq(CacheEntry) /\ Len(<<e>>) = 1 /\ <<e>>[1] = e
    OBVIOUS
  <1>2. /\ c \in Seq(CacheEntry) /\ Len(c) = 1 + Len(d)
        /\ \A i \in 1..(1 + Len(d)) : c[i] = IF i <= 1 THEN <<e>>[i] ELSE d[i - 1]
    BY <1>1, ConcatProperties
  <1>3. /\ Len(d) \in Nat /\ DOMAIN d = 1..Len(d) /\ DOMAIN c = 1..(Len(d) + 1)
        /\ c[1] = e /\ \A i \in 2..(Len(d) + 1) : i - 1 \in DOMAIN d /\ c[i] = d[i - 1]
    BY <1>1, <1>2
  <1>4. DistinctNames(c)
    <2>1. SUFFICES ASSUME NEW i \in DOMAIN c, NEW j \in DOMAIN c, c[i].filename = c[j].filename, i # j
                   PROVE FALSE
      BY DEF DistinctNames
    <2>2. CASE i = 1
      <3>1. j \in 2..(Len(d) + 1)
        BY <1>3, <2>1, <2>2
      <3>2. QED BY <1>3, <2>1, <2>2, <3>1 DEF Nameless
    <2>3. CASE j = 1
      <3>1. i \in 2..(Len(d) + 1)
        BY <1>3, <2>1, <2>3
      <3>2. QED BY <1>3, <2>1, <2>3, <3>1 DEF Nameless
    <2>4. CASE i # 1 /\ j # 1
      <3>1. i \in 2..(Len(d) + 1) /\ j \in 2..(Len(d) + 1)
        BY <1>3, <2>4
      <3>2. i - 1 = j - 1
        BY <1>3, <2>1, <3>1 DEF DistinctNames
      <3>3. QED BY <2>1, <3>1, <3>2
    <2>5. QED BY <2>2, <2>3, <2>4
  <1>5. ASSUME NEW ix, Coherent(d, ix), e.filename \in DOMAIN ix, e.record = ix[e.filename].id
        PROVE  Coherent(c, ix)
    <2>1. ASSUME NEW i \in DOMAIN c
          PROVE  c[i].filename \in DOMAIN ix /\ c[i].record = ix[c[i].filename].id
      <3>1. CASE i = 1
        BY <1>3, <1>5, <3>1
      <3>2. CASE i # 1
        <4>1. i \in 2..(Len(d) + 1)
          BY <1>3, <2>1, <3>2
        <4>2. QED BY <1>3, <1>5, <4>1 DEF Coherent
      <3>3. QED BY <3>1, <3>2
    <2>2. QED BY <2>1 DEF Coherent
  <1>6. QED BY <1>2, <1>3, <1>4, <1>5

\* A lookup leaves a cache that agrees with the index and has room.
LEMMA CacheGet ==
  ASSUME NEW c \in Seq(CacheEntry), DistinctNames(c), Len(c) <= Capacity,
         NEW ix, Coherent(c, ix), \A g \in DOMAIN ix : ix[g].id \in Nat, NEW f \in Files,
         NEW r, r = lru_cache_get(c, ix, f)
  PROVE  r \in Seq(CacheEntry) /\ DistinctNames(r) /\ Coherent(r, ix) /\ Len(r) <= Capacity
  <1>0. /\ Len(c) \in Nat /\ DOMAIN c = 1..Len(c) /\ Capacity \in Nat \ {0}
        /\ \A i \in DOMAIN c : c[i] \in CacheEntry
    BY IndexAssumption
  <1> DEFINE hits == {i \in DOMAIN c : c[i].filename = f}
             room == IF Len(c) >= Capacity THEN Front(c) ELSE c
  <1>1. CASE hits # {}
    <2>1. PICK k \in DOMAIN c : c[k].filename = f /\ k = CHOOSE i \in hits : TRUE
      BY <1>1
    <2>2. PICK d : d = lru_cache_invalidate(c, f)
      OBVIOUS
    <2>3. /\ d \in Seq(CacheEntry) /\ DistinctNames(d) /\ Within(d, c) /\ Nameless(d, f)
          /\ Len(d) = Len(c) - 1
      BY <2>1, <2>2, Invalidated
    <2>4. r = <<c[k]>> \o d
      BY <1>1, <2>1, <2>2 DEF lru_cache_get
    <2>5. Coherent(d, ix)
      BY <2>3 DEF Coherent, Within
    <2>6. PICK e \in CacheEntry : e = c[k]
      BY <1>0, <2>1
    <2>7. e.filename = f /\ f \in DOMAIN ix /\ e.record = ix[f].id
      BY <2>1, <2>6 DEF Coherent
    <2>8. r \in Seq(CacheEntry) /\ Len(r) = Len(d) + 1 /\ DistinctNames(r) /\ Coherent(r, ix)
      BY <2>3, <2>4, <2>5, <2>6, <2>7, PutInFront
    <2>9. QED BY <1>0, <2>3, <2>8
  <1>2. CASE hits = {} /\ f \in DOMAIN ix
    <2>1. PICK e \in CacheEntry : e = [filename |-> f, record |-> ix[f].id]
      BY <1>2 DEF CacheEntry
    <2>2. /\ room \in Seq(CacheEntry) /\ DistinctNames(room) /\ Coherent(room, ix) /\ Nameless(room, f)
          /\ Len(room) <= Capacity - 1
      <3>1. Nameless(c, f)
        BY <1>2 DEF Nameless
      <3>2. CASE Len(c) >= Capacity
        <4>1. PICK d : d = SubSeq(c, 1, Len(c) - 1)
          OBVIOUS
        <4>2. \A i \in 1..(Len(c) - 1) : c[i] \in CacheEntry
          BY <1>0
        <4>3. /\ d \in Seq(CacheEntry) /\ Len(d) = Len(c) - 1
              /\ \A i \in 1..(Len(c) - 1) : d[i] = c[i]
          BY <1>0, <3>2, <4>1, <4>2, SubSeqProperties
        <4>4. DOMAIN d = 1..(Len(c) - 1) /\ \A i \in DOMAIN d : i \in DOMAIN c /\ d[i] = c[i]
          BY <1>0, <4>3
        <4>5. DistinctNames(d) /\ Coherent(d, ix) /\ Nameless(d, f)
          BY <3>1, <4>4 DEF DistinctNames, Coherent, Nameless
        <4>6. room = d
          BY <3>2, <4>1 DEF Front
        <4>7. QED BY <1>0, <4>3, <4>5, <4>6
      <3>3. CASE ~ (Len(c) >= Capacity)
        BY <1>0, <3>1, <3>3
      <3>4. QED BY <3>2, <3>3
    <2>3. r = <<e>> \o room
      BY <1>2, <2>1 DEF lru_cache_get
    <2> HIDE DEF room
    <2>4. e.filename = f /\ e.record = ix[f].id
      BY <2>1
    <2>5. r \in Seq(CacheEntry) /\ Len(r) = Len(room) + 1 /\ DistinctNames(r) /\ Coherent(r, ix)
      BY <1>2, <2>2, <2>3, <2>4, PutInFront
    <2>6. QED BY <1>0, <2>2, <2>5
  <1>3. CASE hits = {} /\ f \notin DOMAIN ix
    <2>1. r = c
      BY <1>3 DEF lru_cache_get
    <2>2. QED BY <2>1
  <1>4. QED BY <1>1, <1>2, <1>3

-----------------------------------------------------------------------------
(* Records of the index.                                                   *)

\* Entering a server keeps the servers that are listed, the first one included.
LEMMA ServerAdded ==
  ASSUME NEW ss \in Seq(Servers), NEW s \in Servers, NEW r, r = AddServer(ss, s)
  PROVE  /\ r \in Seq(Servers) /\ ToSet(r) \subseteq ToSet(ss) \cup {s}
         /\ ss # <<>> => r # <<>> /\ r[1] = ss[1]
  <1>1. CASE s \in ToSet(ss) \/ Len(ss) >= MaxServersPerFile
    <2>1. r = ss
      BY <1>1 DEF AddServer
    <2>2. QED BY <2>1
  <1>2. CASE ~ (s \in ToSet(ss) \/ Len(ss) >= MaxServersPerFile)
    <2>1. r = Append(ss, s)
      BY <1>2 DEF AddServer
    <2>2. /\ r \in Seq(Servers) /\ Len(r) = Len(ss) + 1 /\ DOMAIN r = 1..(Len(ss) + 1)
          /\ r[Len(ss) + 1] = s /\ \A i \in 1..Len(ss) : r[i] = ss[i]
          /\ DOMAIN ss = 1..Len(ss) /\ Len(ss) \in Nat
      BY <2>1
    <2>3. ToSet(r) \subseteq ToSet(ss) \cup {s}
      BY <2>2 DEF ToSet
    <2>4. ss # <<>> => r # <<>> /\ r[1] = ss[1]
      BY <2>2
    <2>5. QED BY <2>2, <2>3, <2>4
  <1>3. QED BY <1>1, <1>2

\* The function behind the loop of AddServers.
AddStep(ss, more, f, i) == IF i = 0 THEN ss ELSE AddServer(f[i - 1], more[i])

AddLoop(ss, more, n, f) == f = [i \in 0..n |-> AddStep(ss, more, f, i)]

\* The loop of AddServers is a function of its number of rounds.
LEMMA AddLoopExists ==
  ASSUME NEW ss, NEW more, NEW n \in Nat
  PROVE  \E f : AddLoop(ss, more, n, f)
  <1> DEFINE T == {m \in Nat : \E f : AddLoop(ss, more, m, f)}
  <1>1. 0 \in T
    <2> DEFINE f == [i \in 0..0 |-> ss]
    <2>1. AddLoop(ss, more, 0, f)
      BY DEF AddLoop, AddStep
    <2>2. QED BY <2>1
  <1>2. ASSUME NEW m \in Nat, m \in T PROVE m + 1 \in T
    <2>1. PICK g : AddLoop(ss, more, m, g)
      BY <1>2
    <2> DEFINE f == [i \in 0..(m + 1) |->
                       IF i = m + 1 THEN AddStep(ss, more, g, i) ELSE g[i]]
    <2>2. ASSUME NEW i \in 0..(m + 1) PROVE f[i] = AddStep(ss, more, f, i)
      <3>1. i # 0 => f[i - 1] = g[i - 1]
        OBVIOUS
      <3>2. AddStep(ss, more, f, i) = AddStep(ss, more, g, i)
        BY <3>1 DEF AddStep
      <3>3. CASE i = m + 1
        BY <3>2, <3>3
      <3>4. CASE i # m + 1
        <4>1. i \in 0..m /\ f[i] = g[i]
          BY <3>4
        <4>2. g[i] = AddStep(ss, more, g, i)
          BY <2>1, <4>1 DEF AddLoop
        <4>3. QED BY <3>2, <4>1, <4>2
      <3>5. QED BY <3>3, <3>4
    <2>3. AddLoop(ss, more, m + 1, f)
      BY <2>2 DEF AddLoop
    <2>4. QED BY <2>3
  <1>3. QED
    <2> HIDE DEF T
    <2>1. Nat \subseteq T
      BY <1>1, <1>2, SetInduction
    <2>2. QED BY <2>1 DEF T

\* Entering the servers of another list keeps the first one and adds no others.
LEMMA ServersAdded ==
  ASSUME NEW ss \in Seq(Servers), ss # <<>>, NEW more \in Seq(Servers),
         NEW r, r = AddServers(ss, more)
  PROVE  /\ r \in Seq(Servers) /\ r # <<>> /\ r[1] = ss[1]
         /\ ToSet(r) \subseteq ToSet(ss) \cup ToSet(more)
  <1> DEFINE n == Len(more)
             Good(x) == /\ x \in Seq(Servers) /\ x # <<>> /\ x[1] = ss[1]
                        /\ ToSet(x) \subseteq ToSet(ss) \cup ToSet(more)
  <1>1. n \in Nat /\ DOMAIN more = 1..n /\ \A i \in 1..n : more[i] \in Servers
    OBVIOUS
  <1>2. PICK f : AddLoop(ss, more, n, f) /\ r = f[n]
    <2> DEFINE f == CHOOSE g : AddLoop(ss, more, n, g)
    <2>1. AddLoop(ss, more, n, f)
      BY <1>1, AddLoopExists
    <2>2. r = f[n]
      BY DEF AddServers, AddLoop, AddStep
    <2>3. QED BY <2>1, <2>2
  <1>3. \A i \in 0..n : f[i] = AddStep(ss, more, f, i)
    BY <1>2 DEF AddLoop
  <1> DEFINE T == {m \in Nat : m <= n => Good(f[m])}
  <1>4. 0 \in T
    <2>1. f[0] = ss
      BY <1>1, <1>3 DEF AddStep
    <2>2. QED BY <2>1
  <1>5. ASSUME NEW m \in Nat, m \in T PROVE m + 1 \in T
    <2>1. SUFFICES ASSUME m + 1 <= n PROVE Good(f[m + 1])
      OBVIOUS
    <2>2. Good(f[m])
      BY <1>1, <1>5, <2>1
    <2>3. f[m + 1] = AddServer(f[m], more[m + 1]) /\ more[m + 1] \in Servers
      BY <1>1, <1>3, <2>1 DEF AddStep
    <2>4. more[m + 1] \in ToSet(more)
      BY <1>1, <2>1 DEF ToSet
    <2>5. PICK x, y : x = f[m] /\ y = f[m + 1]
      OBVIOUS
    <2>6. PICK z \in Servers : z = more[m + 1]
      BY <2>3
    <2>7. x \in Seq(Servers) /\ y = AddServer(x, z)
      BY <2>2, <2>3, <2>5, <2>6
    <2>8. /\ y \in Seq(Servers) /\ ToSet(y) \subseteq ToSet(x) \cup {z}
          /\ x # <<>> => y # <<>> /\ y[1] = x[1]
      BY <2>7, ServerAdded, Zenon
    <2>9. z \in ToSet(more) /\ ToSet(x) \subseteq ToSet(ss) \cup ToSet(more)
      BY <2>2, <2>4, <2>5, <2>6
    <2>10. ToSet(y) \subseteq ToSet(ss) \cup ToSet(more)
      BY <2>8, <2>9
    <2>11. Good(y)
      BY <2>2, <2>5, <2>8, <2>10
    <2>12. QED BY <2>5, <2>11
  <1>6. n \in T
    <2> HIDE DEF T
    <2>1. QED BY <1>1, <1>4, <1>5, SetInduction
  <1>7. QED BY <1>1, <1>2, <1>6

\* The indexes whose records are whole and name a first server.
Indexes ==
    {ix \in UNION {[D -> FileRecord] : D \in SUBSET Files} :
        \A g \in DOMAIN ix : ix[g].ss_ids # <<>>}

\* Indexes, told by their entries.
LEMMA IndexesAre ==
  ASSUME NEW ix
  PROVE  ix \in Indexes <=>
            /\ ix = [g \in DOMAIN ix |-> ix[g]]
            /\ \A g \in DOMAIN ix : g \in Files /\ ix[g] \in FileRecord /\ ix[g].ss_ids # <<>>
  <1>1. ASSUME ix \in Indexes
        PROVE  /\ ix = [g \in DOMAIN ix |-> ix[g]]
               /\ \A g \in DOMAIN ix : g \in Files /\ ix[g] \in FileRecord /\ ix[g].ss_ids # <<>>
    <2>1. PICK D \in SUBSET Files : ix \in [D -> FileRecord]
      BY <1>1 DEF Indexes
    <2>2. QED BY <1>1, <2>1 DEF Indexes
  <1>2. ASSUME ix = [g \in DOMAIN ix |-> ix[g]],
               \A g \in DOMAIN ix : g \in Files /\ ix[g] \in FileRecord /\ ix[g].ss_ids # <<>>
        PROVE  ix \in Indexes
    <2>1. DOMAIN ix \in SUBSET Files /\ ix \in [DOMAIN ix -> FileRecord]
      BY <1>2
    <2>2. QED BY <1>2, <2>1 DEF Indexes
  <1>3. QED BY <1>1, <1>2

\* The parts of a record of the index.
LEMMA RecordParts ==
  ASSUME NEW ix \in Indexes, NEW g \in DOMAIN ix
  PROVE  /\ g \in Files /\ ix[g] \in FileRecord /\ ix[g].id \in Nat /\ ix[g].owner \in Users
         /\ ix[g].ss_ids \in Seq(Servers) /\ ix[g].ss_ids # <<>>
         /\ ix[g].ss_ids[1] \in Servers /\ ToSet(ix[g].ss_ids) \subseteq Servers
         /\ ix[g].acl \in [Users -> Modes]
  <1>1. /\ g \in Files /\ ix[g] \in FileRecord /\ ix[g].ss_ids # <<>>
    BY IndexesAre
  <1>2. /\ ix[g].id \in Nat /\ ix[g].owner \in Users /\ ix[g].ss_ids \in Seq(Servers)
        /\ ix[g].acl \in [Users -> Modes]
    BY <1>1 DEF FileRecord
  <1>3. PICK ss \in Seq(Servers) : ss = ix[g].ss_ids
    BY <1>2
  <1>4. ss # <<>> => ss[1] \in Servers
    OBVIOUS
  <1>5. ToSet(ss) \subseteq Servers
    BY DEF ToSet
  <1>6. QED BY <1>1, <1>2, <1>3, <1>4, <1>5

\* A record of which the servers and the entries are replaced.
LEMMA RecordChanged ==
  ASSUME NEW r \in FileRecord, NEW ss \in Seq(Servers), NEW a \in [Users -> Modes]
  PROVE  /\ [r EXCEPT !.ss_ids = ss] \in FileRecord /\ [r EXCEPT !.acl = a] \in FileRecord
         /\ [r EXCEPT !.ss_ids = ss].ss_ids = ss /\ [r EXCEPT !.ss_ids = ss].id = r.id
         /\ [r EXCEPT !.ss_ids = ss].owner = r.owner /\ [r EXCEPT !.ss_ids = ss].acl = r.acl
         /\ [r EXCEPT !.acl = a].acl = a /\ [r EXCEPT !.acl = a].id = r.id
         /\ [r EXCEPT !.acl = a].owner = r.owner /\ [r EXCEPT !.acl = a].ss_ids = r.ss_ids
  BY DEF FileRecord

\* What file_index_add does to the records.
Added(jx, ix, f, o, s, k) ==
    /\ DOMAIN jx = DOMAIN ix \cup {f}
    /\ \A g \in DOMAIN ix : g # f => jx[g] = ix[g]
    /\ f \in DOMAIN ix => /\ jx[f].id = ix[f].id /\ jx[f].owner = ix[f].owner
                          /\ jx[f].acl = ix[f].acl /\ jx[f].ss_ids[1] = ix[f].ss_ids[1]
                          /\ ToSet(jx[f].ss_ids) \subseteq ToSet(ix[f].ss_ids) \cup {s}
    /\ f \notin DOMAIN ix => jx[f] = [id |-> k, owner |-> o, ss_ids |-> <<s>>, acl |-> NoAcl]

\* file_index_add gives an index.
LEMMA IndexAdded ==
  ASSUME NEW ix \in Indexes, NEW f \in Files, NEW o \in Users, NEW s \in Servers, NEW k \in Nat,
         NEW jx, jx = file_index_add(ix, f, o, s, k)
  PROVE  jx \in Indexes /\ Added(jx, ix, f, o, s, k)
  <1>1. /\ DOMAIN jx = DOMAIN ix \cup {f} /\ jx = [g \in DOMAIN jx |-> jx[g]]
        /\ \A g \in DOMAIN ix : g # f => jx[g] = ix[g]
        /\ f \in DOMAIN ix => jx[f] = [ix[f] EXCEPT !.ss_ids = AddServer(@, s)]
        /\ f \notin DOMAIN ix =>
              jx[f] = [id |-> k, owner |-> o, ss_ids |-> <<s>>, acl |-> NoAcl]
    BY DEF file_index_add
  <1>2. CASE f \in DOMAIN ix
    <2>1. PICK r \in FileRecord : r = ix[f] /\ r.ss_ids \in Seq(Servers) /\ r.ss_ids # <<>>
      BY <1>2, RecordParts
    <2>2. PICK ss : ss = AddServer(r.ss_ids, s)
      OBVIOUS
    <2>3. /\ ss \in Seq(Servers) /\ ss # <<>> /\ ss[1] = r.ss_ids[1]
          /\ ToSet(ss) \subseteq ToSet(r.ss_ids) \cup {s}
      BY <2>1, <2>2, ServerAdded
    <2>4. PICK q : q = [r EXCEPT !.ss_ids = ss]
      OBVIOUS
    <2>5. jx[f] = q
      BY <1>1, <1>2, <2>1, <2>2, <2>4
    <2>6. r.acl \in [Users -> Modes]
      BY DEF FileRecord
    <2>7. q \in FileRecord /\ q.ss_ids = ss /\ q.id = r.id /\ q.owner = r.owner /\ q.acl = r.acl
      BY <2>3, <2>4, <2>6, RecordChanged
    <2>8. jx \in Indexes
      <3>1. jx[f] \in FileRecord /\ jx[f].ss_ids # <<>>
        BY <2>3, <2>5, <2>7
      <3>2. \A g \in DOMAIN jx : g \in Files /\ jx[g] \in FileRecord /\ jx[g].ss_ids # <<>>
        BY <1>1, <3>1, IndexesAre
      <3>3. QED BY <1>1, <3>2, IndexesAre
    <2>9. Added(jx, ix, f, o, s, k)
      BY <1>1, <1>2, <2>1, <2>3, <2>5, <2>7 DEF Added
    <2>10. QED BY <2>8, <2>9
  <1>3. CASE f \notin DOMAIN ix
    <2>1. PICK q : q = [id |-> k, owner |-> o, ss_ids |-> <<s>>, acl |-> NoAcl]
      OBVIOUS
    <2>2. NoAcl \in [Users -> Modes] /\ <<s>> \in Seq(Servers) /\ <<s>> # <<>>
      BY DEF NoAcl, Modes
    <2>3. q \in FileRecord /\ q.ss_ids # <<>>
      BY <2>1, <2>2 DEF FileRecord
    <2>4. jx[f] = q
      BY <1>1, <1>3, <2>1
    <2>5. jx \in Indexes
      <3>1. jx[f] \in FileRecord /\ jx[f].ss_ids # <<>>
        BY <2>3, <2>4
      <3>2. \A g \in DOMAIN jx : g \in Files /\ jx[g] \in FileRecord /\ jx[g].ss_ids # <<>>
        BY <1>1, <3>1, IndexesAre
      <3>3. QED BY <1>1, <3>2, IndexesAre
    <2>6. Added(jx, ix, f, o, s, k)
      BY <1>1, <1>3 DEF Added
    <2>7. QED BY <2>5, <2>6
  <1>4. QED BY <1>2, <1>3

\* What file_index_remove does.
RemovedFrom(jx, ix, f) == DOMAIN jx = DOMAIN ix \ {f} /\ \A g \in DOMAIN jx : jx[g] = ix[g]

\* file_index_remove gives an index.
LEMMA IndexRemoved ==
  ASSUME NEW ix \in Indexes, NEW f, NEW jx, jx = file_index_remove(ix, f)
  PROVE  jx \in Indexes /\ RemovedFrom(jx, ix, f)
  <1>1. DOMAIN jx = DOMAIN ix \ {f} /\ \A g \in DOMAIN jx : jx[g] = ix[g]
    BY DEF file_index_remove
  <1>2. jx = [g \in DOMAIN jx |-> jx[g]]
    BY DEF file_index_remove
  <1>3. jx \in Indexes
    BY <1>1, <1>2, IndexesAre
  <1>4. QED BY <1>1, <1>3 DEF RemovedFrom

\* A record changes its servers and keeps the first, and nothing else changes.
Listing(jx, ix, f, s) ==
    /\ DOMAIN jx = DOMAIN ix /\ \A g \in DOMAIN ix : g # f => jx[g] = ix[g]
    /\ jx[f].id = ix[f].id /\ jx[f].owner = ix[f].owner /\ jx[f].acl = ix[f].acl
    /\ jx[f].ss_ids[1] = ix[f].ss_ids[1]
    /\ ToSet(jx[f].ss_ids) \subseteq ToSet(ix[f].ss_ids) \cup {s}

\* file_index_add_ss_replica gives an index.
LEMMA ReplicaAdded ==
  ASSUME NEW ix \in Indexes, NEW f \in DOMAIN ix, NEW s \in Servers,
         NEW jx, jx = file_index_add_ss_replica(ix, f, s)
  PROVE  jx \in Indexes /\ Listing(jx, ix, f, s)
  <1>1. PICK r \in FileRecord : r = ix[f] /\ r.ss_ids \in Seq(Servers) /\ r.ss_ids # <<>>
    BY RecordParts
  <1>2. PICK ss : ss = AddServer(r.ss_ids, s)
    OBVIOUS
  <1>3. /\ ss \in Seq(Servers) /\ ss # <<>> /\ ss[1] = r.ss_ids[1]
        /\ ToSet(ss) \subseteq ToSet(r.ss_ids) \cup {s}
    BY <1>1, <1>2, ServerAdded
  <1>4. PICK q : q = [r EXCEPT !.ss_ids = ss]
    OBVIOUS
  <1>5. ix = [g \in DOMAIN ix |-> ix[g]] /\ f \in Files /\ DOMAIN ix \cup {f} = DOMAIN ix
    BY IndexesAre
  <1>6. /\ DOMAIN jx = DOMAIN ix \cup {f} /\ jx = [g \in DOMAIN jx |-> jx[g]] /\ jx[f] = q
        /\ \A g \in DOMAIN ix : g # f => jx[g] = ix[g]
    BY <1>1, <1>2, <1>4, <1>5 DEF file_index_add_ss_replica
  <1>7. r.acl \in [Users -> Modes]
    BY DEF FileRecord
  <1>8. q \in FileRecord /\ q.ss_ids = ss /\ q.id = r.id /\ q.owner = r.owner /\ q.acl = r.acl
    BY <1>3, <1>4, <1>7, RecordChanged
  <1>9. jx \in Indexes
    <2>1. jx[f] \in FileRecord /\ jx[f].ss_ids # <<>>
      BY <1>3, <1>6, <1>8
    <2>2. \A g \in DOMAIN jx : g \in Files /\ jx[g] \in FileRecord /\ jx[g].ss_ids # <<>>
      BY <1>5, <1>6, <2>1, IndexesAre
    <2>3. QED BY <1>6, <2>2, IndexesAre
  <1>10. Listing(jx, ix, f, s)
    BY <1>1, <1>3, <1>5, <1>6, <1>8 DEF Listing
  <1>11. QED BY <1>9, <1>10

\* One entry of one record is set.
EntryOnly(jx, ix, f, u, m) ==
    /\ DOMAIN jx = DOMAIN ix /\ \A g \in DOMAIN ix : g # f => jx[g] = ix[g]
    /\ jx[f].id = ix[f].id /\ jx[f].owner = ix[f].owner
    /\ jx[f].ss_ids = ix[f].ss_ids /\ jx[f].acl = [ix[f].acl EXCEPT ![u] = m]

WithEntry(ix, f, u, m) == [ix EXCEPT ![f] = [ix[f] EXCEPT !.acl[u] = m]]

\* Setting one entry of one record gives an index.
LEMMA EntrySet ==
  ASSUME NEW ix \in Indexes, NEW f \in DOMAIN ix, NEW u \in Users, NEW m \in Modes,
         NEW jx, jx = WithEntry(ix, f, u, m)
  PROVE  jx \in Indexes /\ EntryOnly(jx, ix, f, u, m)
  <1>0. PICK r : r = [ix[f] EXCEPT !.acl[u] = m] /\ jx = [ix EXCEPT ![f] = r]
    BY DEF WithEntry
  <1>1. /\ ix[f] \in FileRecord /\ ix[f].ss_ids # <<>> /\ ix[f].acl \in [Users -> Modes] /\ f \in Files
    BY RecordParts
  <1>2. [ix[f].acl EXCEPT ![u] = m] \in [Users -> Modes]
    BY <1>1
  <1>3. r = [ix[f] EXCEPT !.acl = [ix[f].acl EXCEPT ![u] = m]]
    BY <1>0
  <1>4. /\ r \in FileRecord /\ r.id = ix[f].id /\ r.owner = ix[f].owner
        /\ r.ss_ids = ix[f].ss_ids /\ r.acl = [ix[f].acl EXCEPT ![u] = m]
    BY <1>1, <1>2, <1>3 DEF FileRecord
  <1>5. ix = [g \in DOMAIN ix |-> ix[g]]
    BY IndexesAre
  <1>6. /\ DOMAIN jx = DOMAIN ix /\ jx = [g \in DOMAIN jx |-> jx[g]] /\ jx[f] = r
        /\ \A g \in DOMAIN ix : g # f => jx[g] = ix[g]
    BY <1>0, <1>5
  <1>7. \A g \in DOMAIN jx : g \in Files /\ jx[g] \in FileRecord /\ jx[g].ss_ids # <<>>
    BY <1>1, <1>4, <1>6, IndexesAre
  <1>8. jx \in Indexes
    <2>1. ASSUME NEW y, y = [g \in DOMAIN y |-> y[g]],
                 \A g \in DOMAIN y : g \in Files /\ y[g] \in FileRecord /\ y[g].ss_ids # <<>>
          PROVE  y \in Indexes
      BY <2>1, IndexesAre
    <2>2. QED BY <1>6, <1>7, <2>1, Zenon
  <1>9. EntryOnly(jx, ix, f, u, m)
    BY <1>4, <1>6 DEF EntryOnly
  <1>10. QED BY <1>8, <1>9

\* The record under the new name after a MOVE: its first server is the one a
\* record that was there had, or else the one of the moved record.
MovedTo(jx, ix, f, to) ==
    /\ DOMAIN jx = (DOMAIN ix \ {f}) \cup {to}
    /\ \A g \in DOMAIN ix \ {f, to} : jx[g] = ix[g]
    /\ jx[to].ss_ids[1] = IF to \in DOMAIN ix \ {f} THEN ix[to].ss_ids[1]
                          ELSE ix[f].ss_ids[1]
    /\ ToSet(jx[to].ss_ids) \subseteq ToSet(ix[f].ss_ids) \cup
            (IF to \in DOMAIN ix \ {f} THEN ToSet(ix[to].ss_ids) ELSE {})

\* A MOVE gives an index.
LEMMA RecordMoved ==
  ASSUME index \in Indexes, nextRecord \in Nat, NEW f \in DOMAIN index, NEW to \in Files,
         NEW jx, jx = MovedIndex(f, to)
  PROVE  jx \in Indexes /\ MovedTo(jx, index, f, to)
  <1>0. PICK ix \in Indexes, k \in Nat : ix = index /\ k = nextRecord /\ f \in DOMAIN ix
    OBVIOUS
  <1>1. PICK r \in FileRecord :
           /\ r = ix[f] /\ r.owner \in Users /\ r.ss_ids \in Seq(Servers) /\ r.ss_ids # <<>>
           /\ r.ss_ids[1] \in Servers /\ r.acl \in [Users -> Modes]
    BY <1>0, RecordParts
  <1>2. PICK rx : rx = file_index_remove(ix, f)
    OBVIOUS
  <1>3. /\ rx \in Indexes /\ DOMAIN rx = DOMAIN ix \ {f}
        /\ \A g \in DOMAIN rx : rx[g] = ix[g]
    <2>1. rx \in Indexes /\ RemovedFrom(rx, ix, f)
      BY <1>2, IndexRemoved, Zenon
    <2>2. QED BY <2>1 DEF RemovedFrom
  <1>4. PICK ax : ax = file_index_add(rx, to, r.owner, r.ss_ids[1], k)
    OBVIOUS
  <1>5. /\ ax \in Indexes /\ DOMAIN ax = DOMAIN rx \cup {to}
        /\ \A g \in DOMAIN rx : g # to => ax[g] = rx[g]
        /\ to \in DOMAIN rx => /\ ax[to].ss_ids[1] = rx[to].ss_ids[1]
                               /\ ToSet(ax[to].ss_ids) \subseteq ToSet(rx[to].ss_ids) \cup {r.ss_ids[1]}
        /\ to \notin DOMAIN rx => ax[to] = [id |-> k, owner |-> r.owner,
                                            ss_ids |-> <<r.ss_ids[1]>>, acl |-> NoAcl]
    <2>1. PICK o \in Users, x \in Servers : o = r.owner /\ x = r.ss_ids[1]
      BY <1>1
    <2>2. ax = file_index_add(rx, to, o, x, k)
      BY <1>4, <2>1
    <2>3. ax \in Indexes /\ Added(ax, rx, to, o, x, k)
      BY <1>3, <2>2, IndexAdded, Zenon
    <2>4. QED BY <2>1, <2>3 DEF Added
  <1>6. to \in DOMAIN ax
    BY <1>5
  <1>7. /\ ax[to] \in FileRecord /\ ax[to].ss_ids \in Seq(Servers) /\ ax[to].ss_ids # <<>>
        /\ ax[to].acl \in [Users -> Modes]
    BY <1>5, <1>6, RecordParts
  <1>8. Tail(r.ss_ids) \in Seq(Servers) /\ ToSet(Tail(r.ss_ids)) \subseteq ToSet(r.ss_ids)
    <2>1. PICK s \in Seq(Servers) : s = r.ss_ids /\ s # <<>>
      BY <1>1
    <2>2. /\ Tail(s) \in Seq(Servers) /\ Len(Tail(s)) = Len(s) - 1 /\ Len(s) \in Nat /\ Len(s) > 0
          /\ DOMAIN s = 1..Len(s) /\ DOMAIN Tail(s) = 1..(Len(s) - 1)
          /\ \A i \in 1..(Len(s) - 1) : Tail(s)[i] = s[i + 1]
      BY <2>1
    <2>3. \A i \in DOMAIN Tail(s) : \E j \in DOMAIN s : Tail(s)[i] = s[j]
      BY <2>2
    <2>4. ToSet(Tail(s)) \subseteq ToSet(s)
      BY <2>3 DEF ToSet
    <2>5. QED BY <2>1, <2>2, <2>4
  <1>9. PICK ss : ss = AddServers(ax[to].ss_ids, Tail(r.ss_ids))
    OBVIOUS
  <1>10. /\ ss \in Seq(Servers) /\ ss # <<>> /\ ss[1] = ax[to].ss_ids[1]
         /\ ToSet(ss) \subseteq ToSet(ax[to].ss_ids) \cup ToSet(Tail(r.ss_ids))
    <2>1. PICK a \in Seq(Servers), b \in Seq(Servers) : a = ax[to].ss_ids /\ b = Tail(r.ss_ids)
      BY <1>7, <1>8
    <2>2. a # <<>> /\ ss = AddServers(a, b)
      BY <1>7, <1>9, <2>1
    <2>3. /\ ss \in Seq(Servers) /\ ss # <<>> /\ ss[1] = a[1]
          /\ ToSet(ss) \subseteq ToSet(a) \cup ToSet(b)
      BY <2>2, ServersAdded, Zenon
    <2>4. QED BY <2>1, <2>3
  <1>11. PICK acl \in [Users -> Modes] : acl = IF r.acl = NoAcl THEN ax[to].acl ELSE r.acl
    BY <1>1, <1>7
  <1>12. jx = [ax EXCEPT ![to].ss_ids = ss, ![to].acl = acl]
    BY <1>0, <1>1, <1>2, <1>4, <1>9, <1>11 DEF MovedIndex
  <1>13. ax = [g \in DOMAIN ax |-> ax[g]]
    BY <1>5, IndexesAre
  <1>14. PICK q : q = [[ax[to] EXCEPT !.ss_ids = ss] EXCEPT !.acl = acl]
    OBVIOUS
  <1>15. /\ DOMAIN jx = DOMAIN ax /\ jx = [g \in DOMAIN jx |-> jx[g]] /\ jx[to] = q
         /\ \A g \in DOMAIN ax : g # to => jx[g] = ax[g]
    BY <1>6, <1>12, <1>13, <1>14
  <1>16. q \in FileRecord /\ q.ss_ids = ss
    BY <1>7, <1>10, <1>11, <1>14 DEF FileRecord
  <1>17. jx \in Indexes
    <2>1. \A g \in DOMAIN jx : g \in Files /\ jx[g] \in FileRecord /\ jx[g].ss_ids # <<>>
      BY <1>5, <1>10, <1>15, <1>16, IndexesAre
    <2>2. QED BY <1>15, <2>1, IndexesAre
  <1>18. /\ DOMAIN jx = (DOMAIN ix \ {f}) \cup {to}
         /\ \A g \in DOMAIN ix \ {f, to} : jx[g] = ix[g]
    BY <1>3, <1>5, <1>15
  <1>19. jx[to].ss_ids = ss
    BY <1>15, <1>16
  <1>20. r.ss_ids[1] \in ToSet(r.ss_ids)
    BY <1>1 DEF ToSet
  <1>21. CASE to \in DOMAIN ix \ {f}
    <2>1. ax[to].ss_ids[1] = ix[to].ss_ids[1]
      BY <1>3, <1>5, <1>21
    <2>2. ToSet(ax[to].ss_ids) \subseteq ToSet(ix[to].ss_ids) \cup {r.ss_ids[1]}
      BY <1>3, <1>5, <1>21
    <2>3. ToSet(ss) \subseteq ToSet(ix[f].ss_ids) \cup ToSet(ix[to].ss_ids)
      BY <1>1, <1>8, <1>10, <1>20, <2>2
    <2>4. QED BY <1>0, <1>10, <1>17, <1>18, <1>19, <1>21, <2>1, <2>3 DEF MovedTo
  <1>22. CASE to \notin DOMAIN ix \ {f}
    <2>1. ax[to].ss_ids = <<r.ss_ids[1]>>
      BY <1>3, <1>5, <1>22
    <2>2. ax[to].ss_ids[1] = ix[f].ss_ids[1] /\ ToSet(ax[to].ss_ids) = {r.ss_ids[1]}
      BY <1>1, <2>1 DEF ToSet
    <2>3. ToSet(ss) \subseteq ToSet(ix[f].ss_ids)
      BY <1>1, <1>8, <1>10, <1>20, <2>2
    <2>4. QED BY <1>0, <1>10, <1>17, <1>18, <1>19, <1>22, <2>2, <2>3 DEF MovedTo
  <1>23. QED BY <1>0, <1>21, <1>22

-----------------------------------------------------------------------------
(* The replay of the registry.                                             *)

\* The entries that the ACL file of f gives back, if o is the owner of the line.
Restored(f, o) ==
    LET lines == IF aclFile[f] = {} THEN NoAcl ELSE CHOOSE a \in aclFile[f] : TRUE
    IN  [u \in Users |-> IF u # o /\ lines[u] # "-" THEN lines[u] ELSE "-"]

\* One line: the record is there, and a new one has the line's owner and what the
\* ACL file gives.
LineIn(jx, ix, j) ==
    /\ DOMAIN jx = DOMAIN ix \cup {registry[j].file}
    /\ \A g \in DOMAIN ix : g # registry[j].file => jx[g] = ix[g]
    /\ registry[j].file \notin DOMAIN ix =>
          /\ jx[registry[j].file].owner = registry[j].owner
          /\ jx[registry[j].file].acl = Restored(registry[j].file, registry[j].owner)

\* One line of the registry gives an index.
LEMMA LineReplayed ==
  ASSUME registry \in Seq(LogEntry), aclFile \in [Files -> SUBSET [Users -> Modes]],
         NEW ix \in Indexes, NEW j \in 1..Len(registry), NEW jx, jx = ReplayEntry(ix, j)
  PROVE  jx \in Indexes /\ LineIn(jx, ix, j)
  <1>1. PICK e \in LogEntry : e = registry[j]
    OBVIOUS
  <1>2. PICK f \in Files, o \in Users, s \in Servers : f = e.file /\ o = e.owner /\ s = e.primary
    BY DEF LogEntry
  <1>3. PICK ax : ax = file_index_add(ix, f, o, s, j)
    OBVIOUS
  <1>4. j \in Nat
    OBVIOUS
  <1>5. ax \in Indexes /\ Added(ax, ix, f, o, s, j)
    BY <1>3, <1>4, IndexAdded, Zenon
  <1>6. PICK lines \in [Users -> Modes] :
           lines = IF aclFile[f] = {} THEN NoAcl ELSE CHOOSE a \in aclFile[f] : TRUE
    <2>1. NoAcl \in [Users -> Modes]
      BY DEF NoAcl, Modes
    <2>2. QED BY <2>1
  <1>7. f \in DOMAIN ax
    BY <1>5 DEF Added
  <1>8. PICK r \in FileRecord : r = ax[f] /\ r.acl \in [Users -> Modes] /\ r.ss_ids # <<>>
    BY <1>5, <1>7, RecordParts
  <1>9. PICK a : a = [u \in Users |-> IF u # o /\ lines[u] # "-" THEN lines[u] ELSE r.acl[u]]
    OBVIOUS
  <1>10. a \in [Users -> Modes]
    BY <1>8, <1>9
  <1>11. jx = [ax EXCEPT ![f] = [r EXCEPT !.acl = a]]
    <2>1. registry[j].file = f /\ registry[j].owner = o /\ registry[j].primary = s
      BY <1>1, <1>2
    <2>2. jx = [file_index_add(ix, f, o, s, j) EXCEPT ![f].acl =
                  [u \in Users |-> IF u # o /\ lines[u] # "-" THEN lines[u] ELSE @[u]]]
      BY <1>6, <2>1 DEF ReplayEntry
    <2>3. jx = [ax EXCEPT ![f].acl =
                  [u \in Users |-> IF u # o /\ lines[u] # "-" THEN lines[u] ELSE ax[f].acl[u]]]
      BY <1>3, <2>2
    <2>4. QED BY <1>8, <1>9, <2>3
  <1>12. PICK q : q = [r EXCEPT !.acl = a]
    OBVIOUS
  <1>13. q \in FileRecord /\ q.acl = a /\ q.owner = r.owner /\ q.ss_ids = r.ss_ids
    BY <1>8, <1>10, <1>12 DEF FileRecord
  <1>14. ax = [g \in DOMAIN ax |-> ax[g]]
    BY <1>5, IndexesAre
  <1>15. /\ DOMAIN jx = DOMAIN ax /\ jx = [g \in DOMAIN jx |-> jx[g]] /\ jx[f] = q
         /\ \A g \in DOMAIN ax : g # f => jx[g] = ax[g]
    BY <1>7, <1>11, <1>12, <1>14
  <1>16. jx \in Indexes
    <2>1. \A g \in DOMAIN ax : g \in Files /\ ax[g] \in FileRecord /\ ax[g].ss_ids # <<>>
      BY <1>5, IndexesAre
    <2>2. \A g \in DOMAIN jx : g \in Files /\ jx[g] \in FileRecord /\ jx[g].ss_ids # <<>>
      BY <1>8, <1>13, <1>15, <2>1
    <2>3. QED BY <1>15, <2>2, IndexesAre
  <1>17. DOMAIN jx = DOMAIN ix \cup {f} /\ \A g \in DOMAIN ix : g # f => jx[g] = ix[g]
    BY <1>5, <1>15 DEF Added
  <1>18. ASSUME f \notin DOMAIN ix
         PROVE  jx[f].owner = o /\ jx[f].acl = Restored(f, o)
    <2>1. r = [id |-> j, owner |-> o, ss_ids |-> <<s>>, acl |-> NoAcl]
      BY <1>5, <1>8, <1>18 DEF Added
    <2>2. r.owner = o /\ r.acl = [u \in Users |-> "-"]
      BY <2>1 DEF NoAcl
    <2>3. \A u \in Users : r.acl[u] = "-"
      BY <2>2
    <2>4. a = [u \in Users |-> IF u # o /\ lines[u] # "-" THEN lines[u] ELSE "-"]
      BY <1>9, <2>3
    <2>5. a = Restored(f, o)
      BY <1>6, <2>4 DEF Restored
    <2>6. QED BY <1>13, <1>15, <2>2, <2>5
  <1>19. LineIn(jx, ix, j)
    BY <1>1, <1>2, <1>17, <1>18 DEF LineIn
  <1>20. QED BY <1>16, <1>19

\* The function behind the loop of Replayed.
ReplayStep(h, j) == IF j = 0 THEN [f \in {} |-> {}] ELSE ReplayEntry(h[j - 1], j)

ReplayLoop(n, h) == h = [j \in 0..n |-> ReplayStep(h, j)]

\* The loop of Replayed is a function of the number of lines.
LEMMA ReplayLoopExists ==
  ASSUME NEW n \in Nat
  PROVE  \E h : ReplayLoop(n, h)
  <1> DEFINE T == {m \in Nat : \E h : ReplayLoop(m, h)}
  <1>1. 0 \in T
    <2> DEFINE h == [i \in 0..0 |-> [f \in {} |-> {}]]
    <2>1. ReplayLoop(0, h)
      BY DEF ReplayLoop, ReplayStep
    <2>2. QED BY <2>1
  <1>2. ASSUME NEW m \in Nat, m \in T PROVE m + 1 \in T
    <2>1. PICK g : ReplayLoop(m, g)
      BY <1>2
    <2> DEFINE h == [i \in 0..(m + 1) |-> IF i = m + 1 THEN ReplayStep(g, i) ELSE g[i]]
    <2>2. ASSUME NEW i \in 0..(m + 1) PROVE h[i] = ReplayStep(h, i)
      <3>1. i # 0 => h[i - 1] = g[i - 1]
        OBVIOUS
      <3>2. ReplayStep(h, i) = ReplayStep(g, i)
        BY <3>1 DEF ReplayStep
      <3>3. CASE i = m + 1
        BY <3>2, <3>3
      <3>4. CASE i # m + 1
        <4>1. i \in 0..m /\ h[i] = g[i]
          BY <3>4
        <4>2. g[i] = ReplayStep(g, i)
          BY <2>1, <4>1 DEF ReplayLoop
        <4>3. QED BY <3>2, <4>1, <4>2
      <3>5. QED BY <3>3, <3>4
    <2>3. ReplayLoop(m + 1, h)
      BY <2>2 DEF ReplayLoop
    <2>4. QED BY <2>3
  <1>3. QED
    <2> HIDE DEF T
    <2>1. Nat \subseteq T
      BY <1>1, <1>2, SetInduction
    <2>2. QED BY <2>1 DEF T

OneLinePerFile == \A i, j \in DOMAIN registry : registry[i].file = registry[j].file => i = j

\* The replay gives an index of the files of the registry; with one line for a
\* file it gives the line's owner and what the ACL file says.
LEMMA RegistryReplayed ==
  ASSUME registry \in Seq(LogEntry), aclFile \in [Files -> SUBSET [Users -> Modes]]
  PROVE  /\ Replayed \in Indexes
         /\ DOMAIN Replayed = {registry[i].file : i \in DOMAIN registry}
         /\ OneLinePerFile => \A i \in DOMAIN registry :
              /\ Replayed[registry[i].file].owner = registry[i].owner
              /\ Replayed[registry[i].file].acl = Restored(registry[i].file, registry[i].owner)
  <1> DEFINE n == Len(registry)
             Good(x, m) ==
                /\ x \in Indexes
                /\ DOMAIN x = {registry[i].file : i \in 1..m}
                /\ OneLinePerFile => \A i \in 1..m :
                     /\ x[registry[i].file].owner = registry[i].owner
                     /\ x[registry[i].file].acl = Restored(registry[i].file, registry[i].owner)
  <1>1. n \in Nat /\ DOMAIN registry = 1..n
    OBVIOUS
  <1>2. PICK h : ReplayLoop(n, h) /\ Replayed = h[n]
    <2> DEFINE h == CHOOSE g : ReplayLoop(n, g)
    <2>1. ReplayLoop(n, h)
      BY <1>1, ReplayLoopExists
    <2>2. Replayed = h[n]
      BY DEF Replayed, ReplayLoop, ReplayStep
    <2>3. QED BY <2>1, <2>2
  <1>3. \A j \in 0..n : h[j] = ReplayStep(h, j)
    BY <1>2 DEF ReplayLoop
  <1> DEFINE T == {m \in Nat : m <= n => Good(h[m], m)}
  <1>4. 0 \in T
    <2>1. h[0] = [f \in {} |-> {}]
      BY <1>1, <1>3 DEF ReplayStep
    <2>2. PICK x : x = [f \in {} |-> {}]
      OBVIOUS
    <2>3. DOMAIN x = {} /\ x = [g \in DOMAIN x |-> x[g]]
      BY <2>2
    <2>4. x \in Indexes
      BY <2>3, IndexesAre
    <2>5. {registry[i].file : i \in 1..0} = {} /\ 1..0 = {}
      OBVIOUS
    <2>6. Good(x, 0)
      BY <2>3, <2>4, <2>5
    <2>7. QED BY <2>1, <2>2, <2>6
  <1>5. ASSUME NEW m \in Nat, m \in T PROVE m + 1 \in T
    <2>1. SUFFICES ASSUME m + 1 <= n PROVE Good(h[m + 1], m + 1)
      OBVIOUS
    <2>2. PICK x, y, j : x = h[m] /\ y = h[m + 1] /\ j = m + 1
      OBVIOUS
    <2>3. Good(x, m)
      BY <1>1, <1>5, <2>1, <2>2
    <2>4. j \in 1..n /\ y = ReplayEntry(x, j)
      BY <1>1, <1>3, <2>1, <2>2 DEF ReplayStep
    <2>5. PICK f : f = registry[j].file
      OBVIOUS
    <2>6. /\ y \in Indexes /\ DOMAIN y = DOMAIN x \cup {f}
          /\ \A g \in DOMAIN x : g # f => y[g] = x[g]
          /\ f \notin DOMAIN x => /\ y[f].owner = registry[j].owner
                                  /\ y[f].acl = Restored(f, registry[j].owner)
      <3>1. x \in Indexes /\ j \in 1..Len(registry)
        BY <2>3, <2>4
      <3>2. y \in Indexes /\ LineIn(y, x, j)
        BY <2>4, <3>1, LineReplayed, Zenon
      <3>3. QED BY <2>5, <3>2 DEF LineIn
    <2>7. {registry[i].file : i \in 1..j} = {registry[i].file : i \in 1..m} \cup {f}
      BY <1>1, <2>1, <2>2, <2>5
    <2>8. DOMAIN y = {registry[i].file : i \in 1..j}
      BY <2>3, <2>6, <2>7
    <2>9. ASSUME OneLinePerFile, NEW i \in 1..j
          PROVE  /\ y[registry[i].file].owner = registry[i].owner
                 /\ y[registry[i].file].acl = Restored(registry[i].file, registry[i].owner)
      <3>1. \A k \in 1..m : registry[k].file # f
        BY <1>1, <2>1, <2>2, <2>5, <2>9 DEF OneLinePerFile
      <3>2. f \notin DOMAIN x
        BY <2>3, <3>1
      <3>3. CASE i = j
        BY <2>5, <2>6, <3>2, <3>3
      <3>4. CASE i # j
        <4>1. i \in 1..m
          BY <2>2, <3>4
        <4>2. registry[i].file \in DOMAIN x /\ registry[i].file # f
          BY <2>3, <3>1, <4>1
        <4>3. y[registry[i].file] = x[registry[i].file]
          BY <2>6, <4>2
        <4>4. QED BY <2>3, <2>9, <4>1, <4>3
      <3>5. QED BY <3>3, <3>4
    <2>10. Good(y, j)
      BY <2>6, <2>8, <2>9
    <2>11. QED BY <2>2, <2>10
  <1>6. n \in T
    <2> HIDE DEF T
    <2>1. QED BY <1>1, <1>4, <1>5, SetInduction
  <1>7. Good(Replayed, n)
    BY <1>1, <1>2, <1>6
  <1>8. QED BY <1>1, <1>7

-----------------------------------------------------------------------------
(* The index and its cache.                                                *)

\* The index is whole, and the cache agrees with it and is within its bound.
CoreOK ==
    /\ index \in Indexes /\ nextRecord \in Nat /\ cache \in Seq(CacheEntry)
    /\ DistinctNames(cache) /\ Coherent(cache, index) /\ Len(cache) <= Capacity

\* A step that leaves the index and the cache alone keeps them in agreement.
LEMMA CoreUnchanged ==
  ASSUME CoreOK, UNCHANGED indexVars
  PROVE  CoreOK'
  BY DEF CoreOK, indexVars, DistinctNames, Coherent

\* A cache keeps some entries, and the index the records behind them.
LEMMA StillCoherent ==
  ASSUME NEW c, NEW d, NEW ix, NEW jx, NEW G, Coherent(c, ix), Within(d, c),
         \A i \in DOMAIN d : d[i].filename \notin G,
         \A g \in DOMAIN ix : g \notin G => g \in DOMAIN jx /\ jx[g].id = ix[g].id
  PROVE  Coherent(d, jx)
  BY DEF Coherent, Within

\* The index changes the record of one name and the cache loses its entry.
LEMMA CoreInvalidates ==
  ASSUME CoreOK, NEW f, cache' = lru_cache_invalidate(cache, f), nextRecord' \in Nat,
         index' \in Indexes, \A g \in DOMAIN index : g # f =>
                                g \in DOMAIN index' /\ index'[g].id = index[g].id
  PROVE  CoreOK'
  <1>1. PICK c, d, ix, jx :
           /\ c \in Seq(CacheEntry)
           /\ c = cache /\ d = cache' /\ ix = index /\ jx = index'
    BY DEF CoreOK
  <1>2. /\ DistinctNames(c) /\ Coherent(c, ix) /\ Len(c) <= Capacity
        /\ d = lru_cache_invalidate(c, f)
    BY <1>1 DEF CoreOK, DistinctNames, Coherent
  <1>3. /\ d \in Seq(CacheEntry) /\ DistinctNames(d) /\ Within(d, c) /\ Nameless(d, f)
        /\ Len(d) <= Len(c)
    BY <1>1, <1>2, Invalidated
  <1>4. Len(c) \in Nat /\ Len(d) \in Nat /\ Capacity \in Nat
    BY <1>3, IndexAssumption
  <1>5. Len(d) <= Capacity
    BY <1>2, <1>3, <1>4
  <1>6. \A i \in DOMAIN d : d[i].filename \notin {f}
    BY <1>3 DEF Nameless
  <1>7. \A g \in DOMAIN ix : g \notin {f} => g \in DOMAIN jx /\ jx[g].id = ix[g].id
    BY <1>1
  <1>8. Coherent(d, jx)
    BY <1>2, <1>3, <1>6, <1>7, StillCoherent, Zenon
  <1>9. QED BY <1>1, <1>3, <1>5, <1>8 DEF CoreOK, DistinctNames, Coherent

\* A lookup keeps the cache in agreement with the index.
LEMMA CoreLookup ==
  ASSUME CoreOK, NEW f \in Files, Lookup(f)
  PROVE  CoreOK'
  <1>1. PICK c, d, ix :
           /\ c \in Seq(CacheEntry) /\ ix \in Indexes
           /\ c = cache /\ d = cache' /\ ix = index
    BY DEF CoreOK
  <1>2. /\ DistinctNames(c) /\ Coherent(c, ix) /\ Len(c) <= Capacity
        /\ d = lru_cache_get(c, ix, f)
    BY <1>1 DEF CoreOK, DistinctNames, Coherent, Lookup
  <1>3. \A g \in DOMAIN ix : ix[g].id \in Nat
    BY <1>1, RecordParts
  <1>4. d \in Seq(CacheEntry) /\ DistinctNames(d) /\ Coherent(d, ix) /\ Len(d) <= Capacity
    BY <1>1, <1>2, <1>3, CacheGet
  <1>5. index' = ix /\ nextRecord' = nextRecord /\ cache' = d
    BY <1>1 DEF Lookup
  <1>6. QED BY <1>1, <1>4, <1>5 DEF CoreOK, DistinctNames, Coherent

\* A DELETE takes the entry of the cache with the record.
LEMMA CoreDelete ==
  ASSUME CoreOK, NEW u \in Users, NEW f \in Files, Delete(u, f)
  PROVE  CoreOK'
  <1>1. PICK ix, jx :
           /\ ix \in Indexes
           /\ ix = index /\ jx = index' /\ jx = file_index_remove(ix, f)
    BY DEF CoreOK, Delete
  <1>2. jx \in Indexes /\ RemovedFrom(jx, ix, f)
    BY <1>1, IndexRemoved, Zenon
  <1>3. index' \in Indexes /\ \A g \in DOMAIN index : g # f =>
                                 g \in DOMAIN index' /\ index'[g].id = index[g].id
    BY <1>1, <1>2 DEF RemovedFrom
  <1>4. cache' = lru_cache_invalidate(cache, f) /\ nextRecord' \in Nat
    BY DEF CoreOK, Delete
  <1>5. QED BY <1>3, <1>4, CoreInvalidates

\* A change of one right keeps the cache in agreement with the index.
LEMMA CoreEntry ==
  ASSUME CoreOK, NEW f \in DOMAIN index, NEW u \in Users, NEW m \in Modes,
         index' = [index EXCEPT ![f] = [index[f] EXCEPT !.acl[u] = m]],
         cache' = lru_cache_invalidate(cache, f), nextRecord' = nextRecord
  PROVE  CoreOK'
  <1>1. PICK ix, jx : /\ ix \in Indexes /\ ix = index /\ jx = index' /\ f \in DOMAIN ix
                      /\ jx = WithEntry(ix, f, u, m)
    BY DEF CoreOK, WithEntry
  <1>2. jx \in Indexes /\ EntryOnly(jx, ix, f, u, m)
    BY <1>1, EntrySet, Zenon
  <1>3. index' \in Indexes /\ \A g \in DOMAIN index : g # f =>
                                 g \in DOMAIN index' /\ index'[g].id = index[g].id
    BY <1>1, <1>2 DEF EntryOnly
  <1>4. nextRecord' \in Nat
    BY DEF CoreOK
  <1>5. QED BY <1>3, <1>4, CoreInvalidates

\* A MOVE takes the entries of both names.
LEMMA CoreMove ==
  ASSUME CoreOK, NEW f \in Files, NEW d \in Folders, Move(f, d)
  PROVE  CoreOK'
  <1>1. PICK to, jx, ix :
           /\ to \in Files
           /\ to = NewPath(f, d) /\ jx = MovedIndex(f, to) /\ jx = index'
           /\ ix = index
    BY DEF Move, MovePossible
  <1>2. /\ index \in Indexes /\ nextRecord \in Nat /\ f \in DOMAIN index
    BY DEF CoreOK, Move
  <1>3. jx \in Indexes /\ MovedTo(jx, ix, f, to)
    <2>1. jx \in Indexes /\ MovedTo(jx, index, f, to)
      BY <1>1, <1>2, RecordMoved, Zenon
    <2>2. QED BY <1>1, <2>1 DEF MovedTo
  <1>4. PICK c, a, b :
           /\ c \in Seq(CacheEntry)
           /\ c = cache /\ b = cache' /\ a = lru_cache_invalidate(c, f) /\ b = lru_cache_invalidate(a, to)
    BY <1>1 DEF CoreOK, Move, CacheAfterMove
  <1>5. DistinctNames(c) /\ Coherent(c, ix) /\ Len(c) <= Capacity
    BY <1>1, <1>4 DEF CoreOK, DistinctNames, Coherent
  <1>6. /\ a \in Seq(CacheEntry) /\ DistinctNames(a) /\ Within(a, c) /\ Nameless(a, f)
        /\ Len(a) <= Len(c)
    BY <1>4, <1>5, Invalidated
  <1>7. /\ b \in Seq(CacheEntry) /\ DistinctNames(b) /\ Within(b, a) /\ Nameless(b, to)
        /\ Len(b) <= Len(a)
    BY <1>4, <1>6, Invalidated
  <1>8. Within(b, c) /\ Nameless(b, f)
    BY <1>6, <1>7 DEF Within, Nameless
  <1>9. Len(a) \in Nat /\ Len(b) \in Nat /\ Len(c) \in Nat /\ Capacity \in Nat
    BY <1>6, <1>7, IndexAssumption
  <1>10. Len(b) <= Capacity
    BY <1>5, <1>6, <1>7, <1>9
  <1>11. \A i \in DOMAIN b : b[i].filename \notin {f, to}
    BY <1>7, <1>8 DEF Nameless
  <1>12. \A g \in DOMAIN ix : g \notin {f, to} => g \in DOMAIN jx /\ jx[g].id = ix[g].id
    BY <1>3 DEF MovedTo
  <1>13. Coherent(b, jx)
    BY <1>5, <1>8, <1>11, <1>12, StillCoherent, Zenon
  <1>14. nextRecord' \in Nat
    BY <1>2 DEF Move
  <1>15. QED BY <1>1, <1>3, <1>4, <1>7, <1>10, <1>13, <1>14 DEF CoreOK, DistinctNames, Coherent

-----------------------------------------------------------------------------
(* The types of the rest of the state.                                     *)

MemoryEntry == [filename : Files, text : Texts]

\* TypeOK without the index and the cache.
RestOK ==
    /\ running \in BOOLEAN
    /\ servers \in Seq(Servers)
    /\ last_heartbeat \in [Servers -> Nat]
    /\ next_primary_index \in 0..(2^Width - 1)
    /\ registry \in Seq(LogEntry)
    /\ clients \subseteq Users
    /\ aclFile \in [Files -> SUBSET [Users -> Modes]]
    /\ requests \in [Files -> SUBSET [Users -> RequestModes]]
    /\ link \in [Servers -> Links]
    /\ disk \in [Servers -> [Files -> Texts]]
    /\ memory \in [Servers -> Seq(MemoryEntry)]
    /\ instructed \subseteq Servers \X Files
    /\ orphaned \subseteq Files
    /\ clock \in Nat

NInv == CoreOK /\ RestOK

\* The counter stays within its width.
LEMMA CounterInRange ==
  ASSUME NEW n \in 0..(2^Width - 1)
  PROVE  Increment(n) \in 0..(2^Width - 1)
  <1>1. PICK w \in Nat \ {0} : w = 2^Width
    BY NameServerAssumption
  <1>2. n \in Nat
    BY <1>1
  <1>3. (n + 1) % w \in 0..(w - 1)
    BY <1>2
  <1>4. QED BY <1>1, <1>3 DEF Increment

\* The counter stays within its width when it is incremented twice.
LEMMA CounterAfter ==
  ASSUME RestOK
  PROVE  CounterAfterCreate \in 0..(2^Width - 1)
  <1>1. Increment(next_primary_index) \in 0..(2^Width - 1)
    BY CounterInRange DEF RestOK
  <1>2. Increment(Increment(next_primary_index)) \in 0..(2^Width - 1)
    BY <1>1, CounterInRange
  <1>3. QED BY <1>1, <1>2 DEF CounterAfterCreate

\* A server that is picked is registered.
LEMMA Picked ==
  ASSUME RestOK, ActiveServers # <<>>, NEW n \in 0..(2^Width - 1)
  PROVE  RoundRobin(n) \in Servers /\ RoundRobin(n) \in ToSet(servers)
  <1>1. PICK a, ss, G : /\ a = ActiveServers /\ ss = servers /\ G = {s \in Servers : Alive(s)}
                        /\ ss \in Seq(Servers) /\ a = Kept(ss, G)
    BY DEF RestOK, ActiveServers
  <1>2. a \in Seq(Servers) /\ Range(a) = Range(ss) \cap G
    BY <1>1, KeptProperties
  <1>3. Len(a) \in Nat \ {0} /\ DOMAIN a = 1..Len(a)
    BY <1>1, <1>2
  <1>4. n \in Nat
    <2>1. PICK w \in Nat \ {0} : w = 2^Width
      BY NameServerAssumption
    <2>2. QED BY <2>1
  <1>5. PICK l \in Nat \ {0} : l = Len(a)
    BY <1>3
  <1>6. n % l \in 0..(l - 1)
    BY <1>4
  <1>7. PICK i \in 1..l : i = (n % l) + 1
    BY <1>6
  <1>8. i \in DOMAIN a /\ a[i] \in Servers
    BY <1>2, <1>3, <1>5
  <1>9. a[i] \in Range(ss)
    BY <1>2, <1>8 DEF Range
  <1>10. Range(ss) = ToSet(ss)
    BY DEF Range, ToSet
  <1>11. RoundRobin(n) = a[i]
    BY <1>1, <1>5, <1>7 DEF RoundRobin
  <1>12. QED BY <1>1, <1>8, <1>9, <1>10, <1>11

\* The array of a storage server after a file was loaded.
LEMMA LoadedTyped ==
  ASSUME RestOK, NEW s \in Servers, NEW f \in Files
  PROVE  Loaded(s, f) \in Seq(MemoryEntry)
  <1>1. memory[s] \in Seq(MemoryEntry)
    BY DEF RestOK
  <1>2. [filename |-> f, text |-> IF disk[s][f] = "text" THEN "text" ELSE "empty"] \in MemoryEntry
    BY DEF MemoryEntry, Texts
  <1>3. QED BY <1>1, <1>2 DEF Loaded

\* find_file_locked gives an entry of the array.
LEMMA EntryFound ==
  ASSUME RestOK, NEW s \in Servers, NEW f, InMemory(s, f)
  PROVE  /\ EntryOf(s, f) \in 1..Len(memory[s]) /\ memory[s][EntryOf(s, f)] \in MemoryEntry
         /\ memory[s] \in Seq(MemoryEntry) /\ memory[s][EntryOf(s, f)].filename = f
  <1>1. PICK m \in Seq(MemoryEntry) : m = memory[s]
    BY DEF RestOK
  <1>2. \E i \in DOMAIN m : m[i].filename = f
    BY <1>1 DEF InMemory
  <1>3. PICK k \in 1..Len(m) : k = SelectInSeq(m, LAMBDA e : e.filename = f) /\ m[k].filename = f
    BY <1>2, FirstNamed
  <1>4. EntryOf(s, f) = k
    BY <1>1, <1>3 DEF EntryOf
  <1>5. QED BY <1>1, <1>3, <1>4

\* A CREATE adds one record, with the picked server first and no entries.
LEMMA CreatedRecord ==
  ASSUME NInv, NEW u \in Users, NEW f \in Files, Create(u, f)
  PROVE  /\ index' \in Indexes /\ DOMAIN index' = DOMAIN index \cup {f}
         /\ \A g \in DOMAIN index : index'[g] = index[g]
         /\ index'[f].owner = u /\ index'[f].acl = NoAcl
         /\ index'[f].ss_ids[1] = RoundRobin(next_primary_index)
         /\ ToSet(index'[f].ss_ids) \subseteq ToSet(servers)
  <1> DEFINE n == next_primary_index
  <1>1. n \in 0..(2^Width - 1) /\ Increment(n) \in 0..(2^Width - 1)
    BY CounterInRange DEF NInv, RestOK
  <1>2. ActiveServers # <<>> /\ f \notin DOMAIN index /\ RestOK /\ CoreOK
    BY DEF Create, NInv
  <1>3. /\ RoundRobin(n) \in Servers /\ RoundRobin(Increment(n)) \in Servers
        /\ RoundRobin(n) \in ToSet(servers) /\ RoundRobin(Increment(n)) \in ToSet(servers)
    BY <1>1, <1>2, Picked
  <1>4. PICK p, r : /\ p \in Servers /\ r \in Servers /\ p = RoundRobin(n)
                    /\ r = IF Len(ActiveServers) > 1 THEN RoundRobin(Increment(n)) ELSE p
    BY <1>3
  <1>5. PICK ix, k, ax, jx :
           /\ ix \in Indexes /\ k \in Nat /\ ix = index /\ k = nextRecord /\ jx = index'
           /\ ax = file_index_add(ix, f, u, p, k) /\ jx = file_index_add_ss_replica(ax, f, r)
    <2>1. index \in Indexes /\ nextRecord \in Nat
      BY <1>2 DEF CoreOK
    <2>2. index' = file_index_add_ss_replica(file_index_add(index, f, u, p, nextRecord), f, r)
      BY <1>4, Zenon DEF Create
    <2>3. QED BY <2>1, <2>2
  <1>6. ax \in Indexes /\ Added(ax, ix, f, u, p, k)
    BY <1>4, <1>5, IndexAdded, Zenon
  <1>7. f \in DOMAIN ax
    BY <1>6 DEF Added
  <1>8. jx \in Indexes /\ Listing(jx, ax, f, r)
    BY <1>4, <1>5, <1>6, <1>7, ReplicaAdded, Zenon
  <1>9. ax[f] = [id |-> k, owner |-> u, ss_ids |-> <<p>>, acl |-> NoAcl]
    BY <1>2, <1>5, <1>6 DEF Added
  <1>10. /\ ax[f].owner = u /\ ax[f].acl = NoAcl /\ ax[f].ss_ids[1] = p /\ ToSet(ax[f].ss_ids) = {p}
    BY <1>9 DEF ToSet
  <1>11. p \in ToSet(servers) /\ r \in ToSet(servers)
    BY <1>3, <1>4
  <1>12. /\ jx[f].owner = u /\ jx[f].acl = NoAcl /\ jx[f].ss_ids[1] = p
         /\ ToSet(jx[f].ss_ids) \subseteq ToSet(servers)
    BY <1>8, <1>10, <1>11 DEF Listing
  <1>13. /\ DOMAIN jx = DOMAIN ix \cup {f} /\ \A g \in DOMAIN ix : jx[g] = ix[g]
    BY <1>2, <1>5, <1>6, <1>8 DEF Added, Listing
  <1>14. QED BY <1>4, <1>5, <1>8, <1>12, <1>13

\* A CREATE keeps the cache in agreement with the index.
LEMMA CoreCreate ==
  ASSUME NInv, NEW u \in Users, NEW f \in Files, Create(u, f)
  PROVE  CoreOK'
  <1>1. index' \in Indexes /\ \A g \in DOMAIN index : g # f =>
                                 g \in DOMAIN index' /\ index'[g].id = index[g].id
    BY CreatedRecord
  <1>2. CoreOK /\ cache' = lru_cache_invalidate(cache, f) /\ nextRecord' \in Nat
    BY DEF NInv, CoreOK, Create
  <1>3. QED BY <1>1, <1>2, CoreInvalidates

\* Every step keeps the types of the rest of the state.
LEMMA RestRegister ==
  ASSUME NInv, NEW s \in Servers, RegisterSS(s)
  PROVE  RestOK'
  <1>1. /\ clock \in Nat /\ last_heartbeat \in [Servers -> Nat] /\ servers \in Seq(Servers)
        /\ link \in [Servers -> Links] /\ instructed \subseteq Servers \X Files
        /\ DOMAIN index \subseteq Files
    <2>1. DOMAIN index \subseteq Files
      <3>1. PICK ix \in Indexes : ix = index
        BY DEF NInv, CoreOK
      <3>2. \A g \in DOMAIN ix : g \in Files
        BY <3>1, IndexesAre
      <3>3. QED BY <3>1, <3>2
    <2>2. QED BY <2>1 DEF NInv, RestOK
  <1>2. servers' \in Seq(Servers)
    <2>1. <<s>> \in Seq(Servers)
      OBVIOUS
    <2>2. <<s>> \o servers \in Seq(Servers)
      BY <1>1, <2>1, ConcatProperties
    <2>3. QED BY <1>1, <2>2 DEF RegisterSS
  <1>3. last_heartbeat' \in [Servers -> Nat] /\ link' \in [Servers -> Links]
    BY <1>1 DEF RegisterSS, Links
  <1>4. instructed' \subseteq Servers \X Files
    BY <1>1 DEF RegisterSS
  <1>5. UNCHANGED <<running, next_primary_index, diskVars, disk, memory, orphaned, clock>>
    BY DEF RegisterSS
  <1>6. QED BY <1>2, <1>3, <1>4, <1>5 DEF NInv, RestOK, diskVars

\* The death of a storage server keeps the types.
LEMMA DiesTyped ==
  ASSUME RestOK, NEW s \in Servers, Dies(s)
  PROVE  /\ link' \in [Servers -> Links] /\ memory' \in [Servers -> Seq(MemoryEntry)]
         /\ instructed' \subseteq Servers \X Files
  <1>1. <<>> \in Seq(MemoryEntry)
    OBVIOUS
  <1>2. link' \in [Servers -> Links]
    BY DEF RestOK, Dies, Links
  <1>3. memory' \in [Servers -> Seq(MemoryEntry)]
    BY <1>1 DEF RestOK, Dies
  <1>4. QED BY <1>2, <1>3 DEF RestOK, Dies

\* The steps of the storage servers keep the types.
LEMMA RestServer ==
  ASSUME NInv, NEW s \in Servers, ServerStep(s)
  PROVE  RestOK'
  <1>0. RestOK
    BY DEF NInv
  <1>1. CASE StartServer(s) \/ Reconnect(s)
    BY <1>1, RestRegister DEF StartServer, Reconnect
  <1>2. CASE Heartbeat(s)
    <2>1. last_heartbeat' \in [Servers -> Nat]
      BY <1>0, <1>2 DEF Heartbeat, RestOK
    <2>2. QED BY <1>0, <1>2, <2>1 DEF Heartbeat, RestOK, diskVars, storeVars
  <1>3. CASE ReconnectFailed(s)
    <2>1. link' \in [Servers -> Links]
      BY <1>0, <1>3 DEF ReconnectFailed, RestOK, Links
    <2>2. QED BY <1>0, <1>3, <2>1 DEF ReconnectFailed, RestOK, diskVars, serverVars
  <1>4. CASE CrashServer(s)
    <2>1. /\ link' \in [Servers -> Links] /\ memory' \in [Servers -> Seq(MemoryEntry)]
          /\ instructed' \subseteq Servers \X Files
      BY <1>0, <1>4, DiesTyped DEF CrashServer
    <2>2. QED BY <1>0, <1>4, <2>1 DEF CrashServer, RestOK, diskVars, serverVars
  <1>5. ASSUME NEW f \in Files, Open(s, f) PROVE RestOK'
    <2>1. Loaded(s, f) \in Seq(MemoryEntry)
      BY <1>0, LoadedTyped
    <2>2. memory' \in [Servers -> Seq(MemoryEntry)]
      BY <1>0, <1>5, <2>1 DEF Open, RestOK
    <2>3. QED BY <1>0, <1>5, <2>2 DEF Open, RestOK, diskVars, serverVars
  <1>6. ASSUME NEW f \in Files, WriteText(s, f) PROVE RestOK'
    <2>1. PICK k, m : /\ k = EntryOf(s, f) /\ m = memory[s] /\ k \in 1..Len(m) /\ m[k] \in MemoryEntry
                      /\ m \in Seq(MemoryEntry)
      BY <1>0, <1>6, EntryFound DEF WriteText
    <2>2. [m[k] EXCEPT !.text = "text"] \in MemoryEntry
      BY <2>1 DEF MemoryEntry, Texts
    <2>3. [m EXCEPT ![k].text = "text"] \in Seq(MemoryEntry)
      BY <2>1, <2>2
    <2>4. memory' = [memory EXCEPT ![s] = [m EXCEPT ![k].text = "text"]]
      BY <1>0, <1>6, <2>1 DEF WriteText, RestOK
    <2>5. memory' \in [Servers -> Seq(MemoryEntry)]
      BY <1>0, <2>3, <2>4 DEF RestOK
    <2>6. disk' \in [Servers -> [Files -> Texts]]
      BY <1>0, <1>6 DEF WriteText, RestOK, Texts
    <2>7. QED BY <1>0, <1>6, <2>5, <2>6 DEF WriteText, RestOK, diskVars, serverVars
  <1>7. QED BY <1>1, <1>2, <1>3, <1>4, <1>5, <1>6 DEF ServerStep

\* A CREATE that fails keeps the types.
LEMMA RestCreateFailed ==
  ASSUME NInv, NEW u \in Users, NEW f \in Files, CreateFailed(u, f)
  PROVE  RestOK'
  <1>0. RestOK
    BY DEF NInv
  <1>1. PICK p \in Servers : p = RoundRobin(next_primary_index)
    BY <1>0, Picked DEF CreateFailed, RestOK
  <1>2. Loaded(p, f) \in Seq(MemoryEntry)
    BY <1>0, LoadedTyped
  <1>3. memory' = memory \/ memory' = [memory EXCEPT ![p] = Loaded(p, f)]
    BY <1>1 DEF CreateFailed
  <1>4. memory' \in [Servers -> Seq(MemoryEntry)]
    BY <1>0, <1>2, <1>3 DEF RestOK
  <1>5. next_primary_index' \in 0..(2^Width - 1)
    BY <1>0, CounterAfter DEF CreateFailed
  <1>6. UNCHANGED <<running, servers, last_heartbeat, diskVars, link, disk, instructed,
                    orphaned, clock>>
    BY DEF CreateFailed
  <1>7. QED BY <1>0, <1>4, <1>5, <1>6 DEF RestOK, diskVars

\* A CREATE whose answer is lost keeps the types.
LEMMA RestCreateLost ==
  ASSUME NInv, NEW u \in Users, NEW f \in Files, CreateLost(u, f)
  PROVE  RestOK'
  <1>0. RestOK
    BY DEF NInv
  <1>1. PICK p \in Servers : p = RoundRobin(next_primary_index)
    BY <1>0, Picked DEF CreateLost, RestOK
  <1>2. Dies(p) /\ disk' = [disk EXCEPT ![p][f] = "empty"]
    BY <1>1 DEF CreateLost
  <1>3. /\ link' \in [Servers -> Links] /\ memory' \in [Servers -> Seq(MemoryEntry)]
        /\ instructed' \subseteq Servers \X Files
    BY <1>0, <1>2, DiesTyped
  <1>4. disk' \in [Servers -> [Files -> Texts]]
    BY <1>0, <1>2 DEF RestOK, Texts
  <1>5. next_primary_index' \in 0..(2^Width - 1)
    BY <1>0, CounterAfter DEF CreateLost
  <1>6. UNCHANGED <<running, servers, last_heartbeat, diskVars, orphaned, clock>>
    BY DEF CreateLost
  <1>7. QED BY <1>0, <1>3, <1>4, <1>5, <1>6 DEF RestOK, diskVars

\* A CREATE keeps the types.
LEMMA RestCreate ==
  ASSUME NInv, NEW u \in Users, NEW f \in Files, Create(u, f)
  PROVE  RestOK'
  <1>0. RestOK
    BY DEF NInv
  <1>1. PICK p \in Servers : p = RoundRobin(next_primary_index)
    BY <1>0, Picked DEF Create, RestOK
  <1>2. PICK R : /\ memory' = [s \in Servers |-> IF s \in R /\ Up(s) THEN Loaded(s, f) ELSE memory[s]]
                 /\ disk' = [s \in Servers |-> IF s \in R /\ Accepts(s, f)
                                               THEN [disk[s] EXCEPT ![f] = "empty"] ELSE disk[s]]
    <2>1. PICK R : R = {RoundRobin(next_primary_index),
                        IF Len(ActiveServers) > 1 THEN RoundRobin(Increment(next_primary_index))
                        ELSE RoundRobin(next_primary_index)}
      OBVIOUS
    <2>2. QED BY <2>1, Zenon DEF Create
  <1>3. memory' \in [Servers -> Seq(MemoryEntry)]
    <2>1. \A s \in Servers : Loaded(s, f) \in Seq(MemoryEntry) /\ memory[s] \in Seq(MemoryEntry)
      BY <1>0, LoadedTyped DEF RestOK
    <2>2. QED BY <1>2, <2>1
  <1>4. disk' \in [Servers -> [Files -> Texts]]
    <2>1. \A s \in Servers : disk[s] \in [Files -> Texts]
      BY <1>0 DEF RestOK
    <2>2. \A s \in Servers : [disk[s] EXCEPT ![f] = "empty"] \in [Files -> Texts]
      BY <2>1 DEF Texts
    <2>3. QED BY <1>2, <2>1, <2>2
  <1>5. next_primary_index' \in 0..(2^Width - 1)
    BY <1>0, CounterAfter DEF Create
  <1>6. registry' \in Seq(LogEntry)
    <2>1. [file |-> f, owner |-> u, primary |-> p] \in LogEntry
      BY DEF LogEntry
    <2>2. registry' = Append(registry, [file |-> f, owner |-> u, primary |-> p])
      BY <1>1 DEF Create
    <2>3. QED BY <1>0, <2>1, <2>2 DEF RestOK
  <1>7. aclFile' \in [Files -> SUBSET [Users -> Modes]]
    <2>1. PICK text \in {aclFile[f], {[NoAcl EXCEPT ![u] = "RW"]}} : aclFile' = [aclFile EXCEPT ![f] = text]
      BY DEF Create
    <2>2. [NoAcl EXCEPT ![u] = "RW"] \in [Users -> Modes]
      BY DEF NoAcl, Modes
    <2>3. aclFile[f] \in SUBSET [Users -> Modes]
      BY <1>0 DEF RestOK
    <2>4. text \in SUBSET [Users -> Modes]
      BY <2>2, <2>3
    <2>5. QED BY <1>0, <2>1, <2>4 DEF RestOK
  <1>8. UNCHANGED <<running, servers, last_heartbeat, clients, requests, link, instructed,
                    orphaned, clock>>
    BY DEF Create
  <1>9. QED BY <1>0, <1>3, <1>4, <1>5, <1>6, <1>7, <1>8 DEF RestOK

\* A DELETE keeps the types.
LEMMA RestDelete ==
  ASSUME NInv, NEW u \in Users, NEW f \in Files, Delete(u, f)
  PROVE  RestOK'
  <1>0. RestOK
    BY DEF NInv
  <1>1. PICK D : /\ \A s \in D : InMemory(s, f)
                 /\ memory' = [s \in Servers |-> IF s \in D THEN RemoveAt(memory[s], EntryOf(s, f))
                                                 ELSE memory[s]]
                 /\ disk' = [s \in Servers |-> IF s \in D THEN [disk[s] EXCEPT ![f] = "absent"]
                                               ELSE disk[s]]
    <2>1. PICK D : D = {s \in ToSet(index[f].ss_ids) : Known(s) /\ Up(s) /\ InMemory(s, f)}
      OBVIOUS
    <2>2. \A s \in D : InMemory(s, f)
      BY <2>1
    <2>3. QED BY <2>1, <2>2, Zenon DEF Delete
  <1>2. ASSUME NEW s \in Servers, s \in D PROVE RemoveAt(memory[s], EntryOf(s, f)) \in Seq(MemoryEntry)
    <2>1. PICK m, k : /\ m = memory[s] /\ k = EntryOf(s, f) /\ m \in Seq(MemoryEntry) /\ k \in 1..Len(m)
      BY <1>0, <1>1, <1>2, EntryFound
    <2>2. RemoveAt(m, k) \in Seq(MemoryEntry)
      BY <2>1, Removed
    <2>3. QED BY <2>1, <2>2
  <1>3. memory' \in [Servers -> Seq(MemoryEntry)]
    <2>1. \A s \in Servers : memory[s] \in Seq(MemoryEntry)
      BY <1>0 DEF RestOK
    <2>2. QED BY <1>1, <1>2, <2>1
  <1>4. disk' \in [Servers -> [Files -> Texts]]
    <2>1. \A s \in Servers : disk[s] \in [Files -> Texts]
      BY <1>0 DEF RestOK
    <2>2. \A s \in Servers : [disk[s] EXCEPT ![f] = "absent"] \in [Files -> Texts]
      BY <2>1 DEF Texts
    <2>3. QED BY <1>1, <2>1, <2>2
  <1>5. aclFile' \in [Files -> SUBSET [Users -> Modes]]
    BY <1>0 DEF Delete, Unlinked, RestOK
  <1>6. requests' \in [Files -> SUBSET [Users -> RequestModes]]
    BY <1>0 DEF Delete, Unlinked, RestOK
  <1>7. orphaned' \subseteq Files
    BY <1>0 DEF Delete, RestOK
  <1>8. UNCHANGED <<running, serverVars, registry, clients, link, instructed, clock>>
    BY DEF Delete
  <1>9. QED BY <1>0, <1>3, <1>4, <1>5, <1>6, <1>7, <1>8 DEF RestOK, serverVars

\* persist_acl_file writes a permission for every user.
LEMMA LinesTyped ==
  ASSUME NEW r \in FileRecord
  PROVE  AclLines(r) \in [Users -> Modes]
  <1>1. r.acl \in [Users -> Modes]
    BY DEF FileRecord
  <1>2. QED BY <1>1 DEF AclLines, Modes

\* A record with another entry is a record.
LEMMA ChangedRecord ==
  ASSUME CoreOK, NEW f \in DOMAIN index, NEW v \in Users, NEW m \in Modes
  PROVE  /\ [index[f] EXCEPT !.acl[v] = m] \in FileRecord
         /\ AclLines([index[f] EXCEPT !.acl[v] = m]) \in [Users -> Modes]
  <1>1. PICK ix \in Indexes : ix = index
    BY DEF CoreOK
  <1>2. PICK r \in FileRecord : r = index[f]
    BY <1>1, RecordParts
  <1>3. PICK q : q = [r EXCEPT !.acl[v] = m]
    OBVIOUS
  <1>4. q \in FileRecord
    BY <1>3 DEF FileRecord
  <1>5. AclLines(q) \in [Users -> Modes]
    BY <1>4, LinesTyped
  <1>6. QED BY <1>2, <1>3, <1>4, <1>5

\* The ACL files after a change of one right.
LEMMA AclFileSet ==
  ASSUME NInv, NEW f \in Files, NEW v \in Users, NEW m \in Modes, f \in DOMAIN index,
         SetAcl(f, v, m)
  PROVE  aclFile' \in [Files -> SUBSET [Users -> Modes]]
  <1>1. PICK lines \in [Users -> Modes] : aclFile' = [aclFile EXCEPT ![f] = {lines}]
    BY ChangedRecord DEF SetAcl, NInv
  <1>2. QED BY <1>1 DEF NInv, RestOK

\* save_access_requests keeps the types.
LEMMA RequestsSaved ==
  ASSUME RestOK, NEW f \in Files, NEW v \in Users, NEW m \in RequestModes, SaveRequest(f, v, m)
  PROVE  requests' \in [Files -> SUBSET [Users -> RequestModes]]
  <1>1. RequestsOf(f) \in [Users -> RequestModes]
    <2>1. NoRequests \in [Users -> RequestModes]
      BY DEF NoRequests, RequestModes
    <2>2. requests[f] \in SUBSET [Users -> RequestModes]
      BY DEF RestOK
    <2>3. QED BY <2>1, <2>2 DEF RequestsOf
  <1>2. PICK q \in [Users -> RequestModes] : q = [RequestsOf(f) EXCEPT ![v] = m]
    BY <1>1
  <1>3. requests' = [requests EXCEPT ![f] = {q}]
    BY <1>2 DEF SaveRequest
  <1>4. QED BY <1>3 DEF RestOK

\* The commands that change rights and requests keep the whole invariant.
LEMMA RightsStep ==
  ASSUME NInv, NEW u \in Users, NEW f \in Files, NEW v \in Users, NEW m \in Modes, SetAcl(f, v, m),
         f \in DOMAIN index, requests' \in [Files -> SUBSET [Users -> RequestModes]],
         UNCHANGED <<running, nextRecord, serverVars, registry, clients, storeVars, clock>>
  PROVE  NInv'
  <1>1. CoreOK'
    <2>1. index' = [index EXCEPT ![f] = [index[f] EXCEPT !.acl[v] = m]]
      BY DEF SetAcl
    <2>2. CoreOK /\ cache' = lru_cache_invalidate(cache, f) /\ nextRecord' = nextRecord
      BY DEF SetAcl, NInv
    <2>3. QED BY <2>1, <2>2, CoreEntry
  <1>2. aclFile' \in [Files -> SUBSET [Users -> Modes]]
    BY AclFileSet
  <1>3. RestOK'
    BY <1>2 DEF NInv, RestOK, serverVars, storeVars
  <1>4. QED BY <1>1, <1>3 DEF NInv

\* The commands that only save requests keep the whole invariant.
LEMMA RequestStep ==
  ASSUME NInv, NEW f \in Files, NEW v \in Users, NEW m \in RequestModes, SaveRequest(f, v, m),
         UNCHANGED <<running, indexVars, serverVars, registry, clients, aclFile, storeVars,
            clock>>
  PROVE  NInv'
  <1>1. CoreOK'
    BY CoreUnchanged DEF NInv
  <1>2. requests' \in [Files -> SUBSET [Users -> RequestModes]]
    BY RequestsSaved DEF NInv
  <1>3. RestOK'
    BY <1>2 DEF NInv, RestOK, serverVars, storeVars
  <1>4. QED BY <1>1, <1>3 DEF NInv

\* A crash in persist_acl_file keeps the whole invariant.
LEMMA TornStep ==
  ASSUME NInv, NEW u \in Users, NEW f \in Files, NEW v \in Users, NEW m \in Modes,
         CrashInPersist(u, f, v, m)
  PROVE  NInv'
  <1>1. f \in DOMAIN index
    BY DEF CrashInPersist, Owns
  <1>2. CoreOK'
    <2>1. index' = [index EXCEPT ![f] = [index[f] EXCEPT !.acl[v] = m]]
      BY DEF CrashInPersist
    <2>2. CoreOK /\ cache' = lru_cache_invalidate(cache, f) /\ nextRecord' = nextRecord
      BY DEF CrashInPersist, NInv
    <2>3. QED BY <1>1, <2>1, <2>2, CoreEntry
  <1>3. aclFile' \in [Files -> SUBSET [Users -> Modes]]
    <2>1. PICK lines \in [Users -> Modes] : aclFile' = [aclFile EXCEPT ![f] = {lines}]
      BY DEF CrashInPersist, CutShort
    <2>2. QED BY <2>1 DEF NInv, RestOK
  <1>4. running' \in BOOLEAN /\ link' \in [Servers -> Links] /\ instructed' \subseteq Servers \X Files
    BY DEF CrashInPersist, NameServerDies, NInv, RestOK, Links
  <1>5. UNCHANGED <<serverVars, registry, clients, requests, disk, memory, orphaned, clock>>
    BY DEF CrashInPersist
  <1>6. RestOK'
    BY <1>3, <1>4, <1>5 DEF NInv, RestOK, serverVars
  <1>7. QED BY <1>2, <1>6 DEF NInv

\* Every command of an owner or of another user keeps the invariant.
LEMMA CommandStep ==
  ASSUME NInv, NEW u \in Users, NEW f \in Files, Command(u, f)
  PROVE  NInv'
  <1>1. CASE Create(u, f)
    BY <1>1, CoreCreate, RestCreate DEF NInv
  <1>2. CASE CreateFailed(u, f)
    <2>1. UNCHANGED indexVars
      BY <1>2 DEF CreateFailed
    <2>2. QED BY <1>2, <2>1, CoreUnchanged, RestCreateFailed DEF NInv
  <1>3. CASE CreateLost(u, f)
    <2>1. UNCHANGED indexVars
      BY <1>3 DEF CreateLost
    <2>2. QED BY <1>3, <2>1, CoreUnchanged, RestCreateLost DEF NInv
  <1>4. CASE Delete(u, f)
    BY <1>4, CoreDelete, RestDelete DEF NInv
  <1>5. ASSUME NEW v \in Users, RemAccess(u, f, v) PROVE NInv'
    <2>1. "-" \in Modes /\ f \in DOMAIN index /\ SetAcl(f, v, "-")
      BY <1>5 DEF RemAccess, Owns, Modes
    <2>2. /\ requests' \in [Files -> SUBSET [Users -> RequestModes]]
          /\ UNCHANGED <<running, nextRecord, serverVars, registry, clients, storeVars, clock>>
      BY <1>5 DEF RemAccess, NInv, RestOK
    <2>3. QED BY <2>1, <2>2, RightsStep
  <1>6. ASSUME NEW v \in Users, NEW m \in {"R", "RW"}, AddAccess(u, f, v, m) PROVE NInv'
    <2>1. m \in Modes /\ f \in DOMAIN index /\ SetAcl(f, v, m)
      BY <1>6 DEF AddAccess, Owns, Modes
    <2>2. /\ requests' \in [Files -> SUBSET [Users -> RequestModes]]
          /\ UNCHANGED <<running, nextRecord, serverVars, registry, clients, storeVars, clock>>
      BY <1>6 DEF AddAccess, NInv, RestOK
    <2>3. QED BY <2>1, <2>2, RightsStep
  <1>7. ASSUME NEW v \in Users, NEW m \in Modes, CrashInPersist(u, f, v, m) PROVE NInv'
    BY <1>7, TornStep
  <1>8. ASSUME NEW m \in {"read", "write"}, RequestAccess(u, f, m) PROVE NInv'
    <2>1. m \in RequestModes /\ SaveRequest(f, u, m)
      BY <1>8 DEF RequestAccess, RequestModes
    <2>2. UNCHANGED <<running, indexVars, serverVars, registry, clients, aclFile, storeVars, clock>>
      BY <1>8 DEF RequestAccess
    <2>3. QED BY <2>1, <2>2, RequestStep
  <1>9. ASSUME NEW v \in Users, ApproveRequest(u, f, v) PROVE NInv'
    <2>1. PICK m : m = IF RequestsOf(f)[v] = "write" THEN "RW" ELSE "R"
      OBVIOUS
    <2>2. m \in Modes /\ f \in DOMAIN index /\ SetAcl(f, v, m)
      BY <1>9, <2>1 DEF ApproveRequest, Owns, Modes
    <2>3. "-" \in RequestModes /\ SaveRequest(f, v, "-") /\ RestOK
      BY <1>9 DEF ApproveRequest, RequestModes, NInv
    <2>4. requests' \in [Files -> SUBSET [Users -> RequestModes]]
      BY <2>3, RequestsSaved
    <2>5. UNCHANGED <<running, nextRecord, serverVars, registry, clients, storeVars, clock>>
      BY <1>9 DEF ApproveRequest
    <2>6. QED BY <2>2, <2>4, <2>5, RightsStep
  <1>10. ASSUME NEW v \in Users, DenyRequest(u, f, v) PROVE NInv'
    <2>1. "-" \in RequestModes /\ SaveRequest(f, v, "-")
      BY <1>10 DEF DenyRequest, RequestModes
    <2>2. UNCHANGED <<running, indexVars, serverVars, registry, clients, aclFile, storeVars, clock>>
      BY <1>10 DEF DenyRequest
    <2>3. QED BY <2>1, <2>2, RequestStep
  <1>11. QED BY <1>1, <1>2, <1>3, <1>4, <1>5, <1>6, <1>7, <1>8, <1>9, <1>10 DEF Command

\* The server that is asked to move a file.
LEMMA MoveAsked ==
  ASSUME NInv, NEW f \in Files, NEW d \in Folders, MovePossible(f, d)
  PROVE  MoveServer(f) \in Servers /\ MoveServer(f) \in ToSet(servers)
  <1>1. PICK ss \in Seq(Servers) : ss = servers /\ ss # <<>>
    BY DEF NInv, RestOK, MovePossible
  <1>2. ss[1] \in Servers /\ ss[1] \in ToSet(ss)
    BY <1>1 DEF ToSet
  <1>3. ToSet(ss) \subseteq Servers
    BY DEF ToSet
  <1>4. QED BY <1>1, <1>2, <1>3 DEF MoveServer, Known

\* rename keeps the types of the disks.
LEMMA RenamedTyped ==
  ASSUME RestOK, NEW s \in Servers, NEW f \in Files, NEW to \in Files
  PROVE  RenamedOnDisk(s, f, to) \in [Servers -> [Files -> Texts]]
  <1>1. PICK row : row = [g \in Files |-> IF g = to THEN disk[s][f]
                                          ELSE IF g = f THEN "absent" ELSE disk[s][g]]
    OBVIOUS
  <1>2. row \in [Files -> Texts]
    BY <1>1 DEF RestOK, Texts
  <1>3. RenamedOnDisk(s, f, to) = [disk EXCEPT ![s] = row]
    BY <1>1 DEF RenamedOnDisk
  <1>4. QED BY <1>2, <1>3 DEF RestOK

\* storage_engine_move_file keeps the types.
LEMMA MoveTyped ==
  ASSUME RestOK, NEW s \in Servers, NEW f \in Files, NEW to \in Files, MoveStored(s, f, to)
  PROVE  disk' \in [Servers -> [Files -> Texts]] /\ memory' \in [Servers -> Seq(MemoryEntry)]
  <1>1. disk' \in [Servers -> [Files -> Texts]]
    BY RenamedTyped DEF MoveStored
  <1>2. CASE InMemory(s, f)
    <2>1. PICK k, m : /\ k = EntryOf(s, f) /\ m = memory[s] /\ k \in 1..Len(m) /\ m[k] \in MemoryEntry
                      /\ m \in Seq(MemoryEntry)
      BY <1>2, EntryFound
    <2>2. [m[k] EXCEPT !.filename = to] \in MemoryEntry
      BY <2>1 DEF MemoryEntry
    <2>3. [m EXCEPT ![k].filename = to] \in Seq(MemoryEntry)
      BY <2>1, <2>2
    <2>4. memory' = [memory EXCEPT ![s] = [m EXCEPT ![k].filename = to]]
      BY <1>2, <2>1 DEF MoveStored, RestOK
    <2>5. QED BY <1>1, <2>3, <2>4 DEF RestOK
  <1>3. CASE ~ InMemory(s, f)
    BY <1>1, <1>3 DEF MoveStored, RestOK
  <1>4. QED BY <1>2, <1>3

\* LOOKUP and MOVE keep the invariant.
LEMMA FileCommandStep ==
  ASSUME NInv, NEW f \in Files, FileCommand(f)
  PROVE  NInv'
  <1>0. RestOK /\ CoreOK
    BY DEF NInv
  <1>1. CASE Lookup(f)
    <2>1. CoreOK'
      BY <1>0, <1>1, CoreLookup
    <2>2. RestOK'
      BY <1>0, <1>1 DEF Lookup, RestOK, serverVars, diskVars, storeVars
    <2>3. QED BY <2>1, <2>2 DEF NInv
  <1>2. ASSUME NEW d \in Folders, Move(f, d) PROVE NInv'
    <2>1. PICK s \in Servers, to \in Files, dest \in Files :
             s = MoveServer(f) /\ to = NewPath(f, d) /\ dest = DestRel(f, d)
      BY <1>2, MoveAsked DEF Move, MovePossible
    <2>2. MoveStored(s, f, dest)
      BY <1>2, <2>1 DEF Move
    <2>3. disk' \in [Servers -> [Files -> Texts]] /\ memory' \in [Servers -> Seq(MemoryEntry)]
      BY <1>0, <2>2, MoveTyped
    <2>4. aclFile' \in [Files -> SUBSET [Users -> Modes]]
      BY <1>0, <1>2, <2>1 DEF Move, Rename, RestOK
    <2>5. requests' \in [Files -> SUBSET [Users -> RequestModes]]
      BY <1>0, <1>2, <2>1 DEF Move, Rename, RestOK
    <2>6. orphaned' \subseteq Files
      BY <1>0, <1>2 DEF Move, RestOK
    <2>7. UNCHANGED <<running, serverVars, registry, clients, link, instructed, clock>>
      BY <1>2 DEF Move
    <2>8. RestOK'
      BY <1>0, <2>3, <2>4, <2>5, <2>6, <2>7 DEF RestOK, serverVars
    <2>9. QED BY <1>0, <1>2, <2>8, CoreMove DEF NInv
  <1>3. ASSUME NEW d \in Folders, MoveUnindexed(f, d) PROVE NInv'
    <2>1. PICK s \in Servers, dest \in Files : s = MoveServer(f) /\ dest = DestRel(f, d)
      BY <1>3, MoveAsked DEF MoveUnindexed, MovePossible
    <2>2. MoveStored(s, f, dest)
      BY <1>3, <2>1 DEF MoveUnindexed
    <2>3. disk' \in [Servers -> [Files -> Texts]] /\ memory' \in [Servers -> Seq(MemoryEntry)]
      BY <1>0, <2>2, MoveTyped
    <2>4. UNCHANGED <<running, indexVars, serverVars, diskVars, link, instructed, orphaned, clock>>
      BY <1>3 DEF MoveUnindexed
    <2>5. RestOK'
      BY <1>0, <2>3, <2>4 DEF RestOK, serverVars, diskVars
    <2>6. QED BY <1>0, <2>4, <2>5, CoreUnchanged DEF NInv
  <1>4. ASSUME NEW d \in Folders, MoveLost(f, d) PROVE NInv'
    <2>1. PICK s \in Servers, dest \in Files : s = MoveServer(f) /\ dest = DestRel(f, d)
      BY <1>4, MoveAsked DEF MoveLost, MovePossible
    <2>2. disk' = RenamedOnDisk(s, f, dest) /\ Dies(s)
      BY <1>4, <2>1 DEF MoveLost
    <2>3. disk' \in [Servers -> [Files -> Texts]]
      BY <1>0, <2>2, RenamedTyped
    <2>4. /\ link' \in [Servers -> Links] /\ memory' \in [Servers -> Seq(MemoryEntry)]
          /\ instructed' \subseteq Servers \X Files
      BY <1>0, <2>2, DiesTyped
    <2>5. orphaned' \subseteq Files
      BY <1>0, <1>4 DEF MoveLost, RestOK
    <2>6. UNCHANGED <<running, indexVars, serverVars, diskVars, clock>>
      BY <1>4 DEF MoveLost
    <2>7. RestOK'
      BY <1>0, <2>3, <2>4, <2>5, <2>6 DEF RestOK, serverVars, diskVars
    <2>8. QED BY <1>0, <2>6, <2>7, CoreUnchanged DEF NInv
  <1>5. QED BY <1>1, <1>2, <1>3, <1>4 DEF FileCommand

\* A restart gives a whole index and an empty cache.
LEMMA RestartStep ==
  ASSUME NInv, StartNameServer
  PROVE  NInv'
  <1>0. RestOK /\ CoreOK
    BY DEF NInv
  <1>1. PICK jx : jx = index' /\ jx = Replayed
    BY DEF StartNameServer
  <1>2. jx \in Indexes
    BY <1>0, <1>1, RegistryReplayed DEF RestOK
  <1>3. cache' = <<>> /\ nextRecord' = Len(registry) + 1 /\ servers' = <<>>
    BY DEF StartNameServer
  <1>4. nextRecord' \in Nat /\ cache' \in Seq(CacheEntry) /\ DOMAIN cache' = {} /\ Len(cache') = 0
    BY <1>0, <1>3 DEF RestOK
  <1>5. 0 <= Capacity
    BY IndexAssumption
  <1>6. CoreOK'
    BY <1>1, <1>2, <1>4, <1>5 DEF CoreOK, DistinctNames, Coherent
  <1>7. next_primary_index' \in 0..(2^Width - 1)
    <2>1. PICK w \in Nat \ {0} : w = 2^Width
      BY NameServerAssumption
    <2>2. 0 \in 0..(w - 1)
      OBVIOUS
    <2>3. QED BY <2>1, <2>2 DEF StartNameServer
  <1>8. running' \in BOOLEAN /\ servers' \in Seq(Servers) /\ last_heartbeat' \in [Servers -> Nat]
    BY <1>3 DEF StartNameServer
  <1>9. UNCHANGED <<diskVars, storeVars, clock>>
    BY DEF StartNameServer
  <1>10. RestOK'
    BY <1>0, <1>7, <1>8, <1>9 DEF RestOK, diskVars, storeVars
  <1>11. QED BY <1>6, <1>10 DEF NInv

\* The invariant holds before the first step.
LEMMA NInvInit ==
  ASSUME Init
  PROVE  NInv
  <1>1. index \in Indexes
    <2>1. PICK ix : ix = index
      OBVIOUS
    <2>2. DOMAIN ix = {} /\ ix = [g \in DOMAIN ix |-> ix[g]]
      BY <2>1 DEF Init
    <2>3. ix \in Indexes
      BY <2>2, IndexesAre
    <2>4. QED BY <2>1, <2>3
  <1>2. cache \in Seq(CacheEntry) /\ DOMAIN cache = {} /\ Len(cache) = 0
    BY DEF Init
  <1>3. CoreOK
    BY <1>1, <1>2, IndexAssumption DEF Init, CoreOK, DistinctNames, Coherent
  <1>4. next_primary_index \in 0..(2^Width - 1)
    <2>1. PICK w \in Nat \ {0} : w = 2^Width
      BY NameServerAssumption
    <2>2. 0 \in 0..(w - 1)
      OBVIOUS
    <2>3. QED BY <2>1, <2>2 DEF Init
  <1>5. /\ disk \in [Servers -> [Files -> Texts]] /\ memory \in [Servers -> Seq(MemoryEntry)]
        /\ link \in [Servers -> Links]
    BY DEF Init, Texts, Links
  <1>6. RestOK
    BY <1>4, <1>5 DEF Init, RestOK
  <1>7. QED BY <1>3, <1>6 DEF NInv

\* Every step keeps the invariant.
LEMMA NInvStep ==
  ASSUME NInv, [Next]_vars
  PROVE  NInv'
  <1>0. RestOK /\ CoreOK
    BY DEF NInv
  <1>1. ASSUME NEW u \in Users, RegisterClient(u) PROVE NInv'
    <2>1. UNCHANGED indexVars
      BY <1>1 DEF RegisterClient
    <2>2. RestOK'
      BY <1>0, <1>1 DEF RegisterClient, RestOK, serverVars, storeVars
    <2>3. QED BY <1>0, <2>1, <2>2, CoreUnchanged DEF NInv
  <1>2. ASSUME NEW u \in Users, NEW f \in Files, Command(u, f) PROVE NInv'
    BY <1>2, CommandStep
  <1>3. ASSUME NEW f \in Files, FileCommand(f) PROVE NInv'
    BY <1>3, FileCommandStep
  <1>4. ASSUME NEW s \in Servers, ServerStep(s) PROVE NInv'
    <2>1. UNCHANGED indexVars
      BY <1>4 DEF ServerStep, StartServer, Heartbeat, Reconnect, ReconnectFailed, CrashServer,
                  Open, WriteText, RegisterSS
    <2>2. QED BY <1>0, <1>4, <2>1, CoreUnchanged, RestServer DEF NInv
  <1>5. CASE CrashNameServer
    <2>1. UNCHANGED indexVars
      BY <1>5 DEF CrashNameServer
    <2>2. running' \in BOOLEAN /\ link' \in [Servers -> Links] /\ instructed' \subseteq Servers \X Files
      BY <1>0, <1>5 DEF CrashNameServer, NameServerDies, RestOK, Links
    <2>3. RestOK'
      BY <1>0, <1>5, <2>2 DEF CrashNameServer, RestOK, serverVars, diskVars
    <2>4. QED BY <1>0, <2>1, <2>3, CoreUnchanged DEF NInv
  <1>6. CASE StartNameServer
    BY <1>6, RestartStep
  <1>7. CASE Tick
    <2>1. UNCHANGED indexVars
      BY <1>7 DEF Tick
    <2>2. RestOK'
      BY <1>0, <1>7 DEF Tick, RestOK, serverVars, diskVars, storeVars
    <2>3. QED BY <1>0, <2>1, <2>2, CoreUnchanged DEF NInv
  <1>8. CASE UNCHANGED vars
    <2>1. UNCHANGED indexVars
      BY <1>8 DEF vars, indexVars
    <2>2. RestOK'
      BY <1>0, <1>8 DEF vars, RestOK
    <2>3. QED BY <1>0, <2>1, <2>2, CoreUnchanged DEF NInv
  <1>9. QED BY <1>1, <1>2, <1>3, <1>4, <1>5, <1>6, <1>7, <1>8 DEF Next

\* The invariant always holds, for every workload.
LEMMA NInvHolds == Spec => []NInv
  <1>1. Init => NInv
    BY NInvInit
  <1>2. NInv /\ [Next]_vars => NInv'
    BY NInvStep
  <1>3. QED BY <1>1, <1>2, PTL DEF Spec

\* Whatever the clients, the storage servers, lost answers and restarts do, every
\* variable of the name server keeps its type: the index holds whole records
\* only, and the counter of the round robin stays within its 32 bits.
THEOREM TypeCorrect == Spec => []TypeOK
  <1>1. NInv => TypeOK
    <2>1. SUFFICES ASSUME NInv PROVE TypeOK
      OBVIOUS
    <2>2. DOMAIN index \subseteq Files /\ index \in [DOMAIN index -> FileRecord]
      <3>1. PICK ix \in Indexes : ix = index
        BY <2>1 DEF NInv, CoreOK
      <3>2. /\ ix = [g \in DOMAIN ix |-> ix[g]]
            /\ \A g \in DOMAIN ix : g \in Files /\ ix[g] \in FileRecord
        BY <3>1, IndexesAre
      <3>3. QED BY <3>1, <3>2
    <2>3. QED BY <2>1, <2>2 DEF TypeOK, NInv, CoreOK, RestOK, MemoryEntry
  <1>2. QED BY <1>1, NInvHolds, PTL

\* The cache hands out no record that the index has freed, replaced or moved:
\* file_index_remove, the MOVE and the replay of a restart leave no entry behind
\* them that lru_cache_get would trust.
THEOREM CacheAgrees == Spec => []CacheCoherent
  <1>1. NInv => CacheCoherent
    BY DEF NInv, CoreOK, DistinctNames, Coherent, CacheCoherent
  <1>2. QED BY <1>1, NInvHolds, PTL

\* lru_cache_put evicts before it adds: the cache never holds more entries than
\* its capacity.
THEOREM CacheFits == Spec => []CacheBounded
  <1>1. NInv => CacheBounded
    BY DEF NInv, CoreOK, CacheBounded
  <1>2. QED BY <1>1, NInvHolds, PTL

-----------------------------------------------------------------------------
(* What the handlers do to the records.                                    *)

\* A DELETE takes one record out.
LEMMA DeletedRecord ==
  ASSUME NInv, NEW u \in Users, NEW f \in Files, Delete(u, f)
  PROVE  DOMAIN index' = DOMAIN index \ {f} /\ \A g \in DOMAIN index' : index'[g] = index[g]
  BY DEF Delete, file_index_remove

\* A change of one right changes one entry of one record.
LEMMA EntryRecord ==
  ASSUME NInv, NEW f \in DOMAIN index, NEW v \in Users, NEW m \in Modes,
         index' = [index EXCEPT ![f] = [index[f] EXCEPT !.acl[v] = m]]
  PROVE  /\ DOMAIN index' = DOMAIN index /\ \A g \in DOMAIN index : g # f => index'[g] = index[g]
         /\ index'[f].owner = index[f].owner /\ index'[f].ss_ids = index[f].ss_ids
         /\ index'[f].acl = [index[f].acl EXCEPT ![v] = m]
  <1>1. PICK ix, jx : /\ ix \in Indexes /\ ix = index /\ jx = index' /\ f \in DOMAIN ix
                      /\ jx = WithEntry(ix, f, v, m)
    BY DEF NInv, CoreOK, WithEntry
  <1>2. jx \in Indexes /\ EntryOnly(jx, ix, f, v, m)
    BY <1>1, EntrySet, Zenon
  <1>3. QED BY <1>1, <1>2 DEF EntryOnly

\* What a MOVE does to the records.
LEMMA MovedRecord ==
  ASSUME NInv, NEW f \in Files, NEW d \in Folders, Move(f, d), NEW to, to = NewPath(f, d)
  PROVE  /\ to \in Files /\ f \in DOMAIN index
         /\ DOMAIN index' = (DOMAIN index \ {f}) \cup {to}
         /\ \A g \in DOMAIN index \ {f, to} : index'[g] = index[g]
         /\ index'[to].ss_ids[1] = IF to \in DOMAIN index \ {f} THEN index[to].ss_ids[1]
                                   ELSE index[f].ss_ids[1]
         /\ ToSet(index'[to].ss_ids) \subseteq ToSet(index[f].ss_ids) \cup
                 (IF to \in DOMAIN index \ {f} THEN ToSet(index[to].ss_ids) ELSE {})
  <1>1. PICK jx : jx = MovedIndex(f, to) /\ jx = index'
    BY DEF Move
  <1>2. /\ index \in Indexes /\ nextRecord \in Nat /\ f \in DOMAIN index /\ to \in Files
    BY DEF NInv, CoreOK, Move, MovePossible
  <1>3. jx \in Indexes /\ MovedTo(jx, index, f, to)
    BY <1>1, <1>2, RecordMoved, Zenon
  <1>4. QED BY <1>1, <1>2, <1>3 DEF MovedTo

-----------------------------------------------------------------------------
(* The files beside the registry.                                          *)

\* Without moves every record has a line in the registry, which only grows.
Registered ==
    "MOVE" \notin Opcodes => \A f \in DOMAIN index : \E i \in DOMAIN registry : registry[i].file = f

SInv == SideFilesFollowIndex /\ Registered

\* The commands keep the side files with their records.
LEMMA SideCommand ==
  ASSUME NInv, SInv, NEW u \in Users, NEW f \in Files, Command(u, f)
  PROVE  SInv'
  <1>0. RestOK
    BY DEF NInv
  <1>1. CASE Create(u, f)
    <2>1. DOMAIN index' = DOMAIN index \cup {f}
      BY <1>1, CreatedRecord
    <2>2. \A g \in Files : g # f => aclFile'[g] = aclFile[g] /\ requests'[g] = requests[g]
      BY <1>0, <1>1 DEF Create, RestOK
    <2>3. SideFilesFollowIndex'
      BY <2>1, <2>2 DEF SInv, SideFilesFollowIndex
    <2>4. PICK e : registry' = Append(registry, e) /\ e.file = f
      BY <1>1 DEF Create
    <2>5. /\ DOMAIN registry' = 1..(Len(registry) + 1) /\ DOMAIN registry = 1..Len(registry)
          /\ Len(registry) \in Nat /\ registry'[Len(registry) + 1] = e
          /\ \A i \in DOMAIN registry : i \in DOMAIN registry' /\ registry'[i] = registry[i]
      BY <1>0, <2>4 DEF RestOK
    <2>6. Registered'
      <3>1. SUFFICES ASSUME "MOVE" \notin Opcodes, NEW g \in DOMAIN index'
                     PROVE  \E i \in DOMAIN registry' : registry'[i].file = g
        BY DEF Registered
      <3>2. CASE g = f
        <4>1. Len(registry) + 1 \in DOMAIN registry'
          BY <2>5
        <4>2. QED BY <2>4, <2>5, <3>2, <4>1
      <3>3. CASE g # f
        BY <2>1, <2>5, <3>1, <3>3 DEF SInv, Registered
      <3>4. QED BY <3>2, <3>3
    <2>7. QED BY <2>3, <2>6 DEF SInv
  <1>2. CASE CreateFailed(u, f) \/ CreateLost(u, f)
    BY <1>2 DEF CreateFailed, CreateLost, SInv, SideFilesFollowIndex, Registered, indexVars,
       diskVars
  <1>3. CASE Delete(u, f)
    <2>1. DOMAIN index' = DOMAIN index \ {f}
      BY <1>3, DeletedRecord
    <2>2. /\ aclFile'[f] = {} /\ requests'[f] = {}
          /\ \A g \in Files : g # f => aclFile'[g] = aclFile[g] /\ requests'[g] = requests[g]
      BY <1>0, <1>3 DEF Delete, Unlinked, RestOK
    <2>3. SideFilesFollowIndex'
      BY <2>1, <2>2 DEF SInv, SideFilesFollowIndex
    <2>4. Registered'
      BY <1>3, <2>1 DEF SInv, Registered, Delete
    <2>5. QED BY <2>3, <2>4 DEF SInv
  <1>4. ASSUME f \in DOMAIN index, DOMAIN index' = DOMAIN index, registry' = registry,
               \A g \in Files : g # f => aclFile'[g] = aclFile[g] /\ requests'[g] = requests[g]
        PROVE  SInv'
    BY <1>4 DEF SInv, SideFilesFollowIndex, Registered
  <1>5. ASSUME NEW v \in Users, NEW m, SetAcl(f, v, m)
        PROVE  /\ \A g \in Files : g # f => aclFile'[g] = aclFile[g]
               /\ f \in DOMAIN index => DOMAIN index' = DOMAIN index
    BY <1>0, <1>5 DEF SetAcl, RestOK
  <1>6. ASSUME NEW v \in Users, NEW m, SaveRequest(f, v, m)
        PROVE  \A g \in Files : g # f => requests'[g] = requests[g]
    BY <1>0, <1>6 DEF SaveRequest, RestOK
  <1>7. ASSUME NEW v \in Users, RemAccess(u, f, v) PROVE SInv'
    BY <1>4, <1>5, <1>7 DEF RemAccess, Owns
  <1>8. ASSUME NEW v \in Users, NEW m \in {"R", "RW"}, AddAccess(u, f, v, m) PROVE SInv'
    BY <1>4, <1>5, <1>8 DEF AddAccess, Owns
  <1>9. ASSUME NEW v \in Users, NEW m \in Modes, CrashInPersist(u, f, v, m) PROVE SInv'
    <2>1. f \in DOMAIN index /\ registry' = registry /\ requests' = requests
      BY <1>9 DEF CrashInPersist, Owns
    <2>2. DOMAIN index' = DOMAIN index
      BY <1>9 DEF CrashInPersist
    <2>3. PICK lines : aclFile' = [aclFile EXCEPT ![f] = {lines}]
      BY <1>9 DEF CrashInPersist
    <2>4. \A g \in Files : g # f => aclFile'[g] = aclFile[g]
      BY <1>0, <2>3 DEF RestOK
    <2>5. QED BY <1>4, <2>1, <2>2, <2>4
  <1>10. ASSUME NEW m \in {"read", "write"}, RequestAccess(u, f, m) PROVE SInv'
    BY <1>4, <1>6, <1>10 DEF RequestAccess, indexVars
  <1>11. ASSUME NEW v \in Users, ApproveRequest(u, f, v) PROVE SInv'
    BY <1>4, <1>5, <1>6, <1>11 DEF ApproveRequest, Owns
  <1>12. ASSUME NEW v \in Users, DenyRequest(u, f, v) PROVE SInv'
    BY <1>4, <1>6, <1>12 DEF DenyRequest, Owns, indexVars
  <1>13. QED BY <1>1, <1>2, <1>3, <1>7, <1>8, <1>9, <1>10, <1>11, <1>12 DEF Command

\* rename keeps a side file under the name of its record.
LEMMA SideMove ==
  ASSUME NInv, SInv, NEW f \in Files, FileCommand(f), ~ ({"MOVE", "RESTART"} \subseteq Opcodes)
  PROVE  SInv'
  <1>0. RestOK
    BY DEF NInv
  <1>1. CASE Lookup(f)
    BY <1>1 DEF Lookup, SInv, SideFilesFollowIndex, Registered, diskVars
  <1>2. ASSUME NEW d \in Folders, "MOVE" \in Opcodes, Move(f, d) PROVE SInv'
    <2>1. PICK to : to = NewPath(f, d)
      OBVIOUS
    <2>2. to \in Files /\ f \in DOMAIN index /\ DOMAIN index' = (DOMAIN index \ {f}) \cup {to}
      BY <1>2, <2>1, MovedRecord
    <2>3. aclFile' = Rename(aclFile, f, to) /\ requests' = Rename(requests, f, to)
      BY <1>2, <2>1 DEF Move
    <2>4. f # to => aclFile'[f] = {} /\ requests'[f] = {}
      BY <1>0, <2>2, <2>3 DEF Rename, RestOK
    <2>5. \A g \in Files : g # f /\ g # to => aclFile'[g] = aclFile[g] /\ requests'[g] = requests[g]
      BY <1>0, <2>2, <2>3 DEF Rename, RestOK
    <2>6. SideFilesFollowIndex'
      BY <2>2, <2>4, <2>5 DEF SInv, SideFilesFollowIndex
    <2>7. QED BY <1>2, <2>6 DEF SInv, Registered
  <1>3. ASSUME NEW d \in Folders, MoveUnindexed(f, d) PROVE SInv'
    BY <1>3 DEF MoveUnindexed, SInv, SideFilesFollowIndex, Registered, indexVars, diskVars
  <1>4. ASSUME NEW d \in Folders, MoveLost(f, d) PROVE SInv'
    BY <1>4 DEF MoveLost, SInv, SideFilesFollowIndex, Registered, indexVars, diskVars
  <1>5. QED BY <1>1, <1>2, <1>3, <1>4 DEF FileCommand

\* Every step keeps the side files with their records.
LEMMA SideStep ==
  ASSUME NInv, SInv, [Next]_vars, ~ ({"MOVE", "RESTART"} \subseteq Opcodes)
  PROVE  SInv'
  <1>0. RestOK
    BY DEF NInv
  <1>1. ASSUME UNCHANGED <<index, registry, aclFile, requests>> PROVE SInv'
    BY <1>1 DEF SInv, SideFilesFollowIndex, Registered
  <1>2. ASSUME NEW u \in Users, RegisterClient(u) PROVE SInv'
    BY <1>1, <1>2 DEF RegisterClient, indexVars
  <1>3. ASSUME NEW u \in Users, NEW f \in Files, Command(u, f) PROVE SInv'
    BY <1>3, SideCommand
  <1>4. ASSUME NEW f \in Files, FileCommand(f) PROVE SInv'
    BY <1>4, SideMove
  <1>5. ASSUME NEW s \in Servers, ServerStep(s) PROVE SInv'
    BY <1>1, <1>5 DEF ServerStep, StartServer, Heartbeat, Reconnect, ReconnectFailed,
       CrashServer,
                      Open, WriteText, RegisterSS, indexVars, diskVars
  <1>6. CASE CrashNameServer
    BY <1>1, <1>6 DEF CrashNameServer, indexVars, diskVars
  <1>7. CASE "RESTART" \in Opcodes /\ StartNameServer
    <2>1. index' = Replayed /\ UNCHANGED <<registry, aclFile, requests>>
      BY <1>7 DEF StartNameServer, diskVars
    <2>2. DOMAIN index' = {registry[i].file : i \in DOMAIN registry}
      BY <1>0, <2>1, RegistryReplayed DEF RestOK
    <2>3. DOMAIN index \subseteq DOMAIN index'
      BY <1>7, <2>2 DEF SInv, Registered
    <2>4. QED BY <2>1, <2>2, <2>3 DEF SInv, SideFilesFollowIndex, Registered
  <1>8. CASE Tick
    BY <1>1, <1>8 DEF Tick, indexVars, diskVars
  <1>9. CASE UNCHANGED vars
    BY <1>1, <1>9 DEF vars
  <1>10. QED BY <1>2, <1>3, <1>4, <1>5, <1>6, <1>7, <1>8, <1>9 DEF Next

\* An ACL or a list of requests on disk belongs to a file that the index knows:
\* the handlers of DELETE and MOVE take both with the record.  A history with
\* moves has no restart here: the registry has no line for a moved file, so that
\* a restart forgets it and leaves its side files behind.
THEOREM SideFilesFollow ==
  ~ ({"MOVE", "RESTART"} \subseteq Opcodes) => (Spec => []SideFilesFollowIndex)
  <1> SUFFICES ASSUME ~ ({"MOVE", "RESTART"} \subseteq Opcodes) PROVE Spec => []SideFilesFollowIndex
    OBVIOUS
  <1>1. Init => SInv
    BY DEF Init, SInv, SideFilesFollowIndex, Registered
  <1>2. NInv /\ SInv /\ [Next]_vars => SInv'
    BY SideStep
  <1>3. SInv => SideFilesFollowIndex
    BY DEF SInv
  <1>4. QED BY <1>1, <1>2, <1>3, NInvHolds, PTL DEF Spec

-----------------------------------------------------------------------------
(* The first server of a record has the file.                              *)

\* The two programs give a moved file the same name: no name in a folder is
\* moved again.
SameNames ==
    \A f \in Files, d \in Folders :
        NewPath(f, d) \in Files /\ DestRel(f, d) \in Files => NewPath(f, d) = DestRel(f, d)

\* Without restarts every listed server is registered.
ListedKnown == \A f \in DOMAIN index : ToSet(index[f].ss_ids) \subseteq ToSet(servers)

\* Only a file of the root is left behind by a lost answer.
FlatOrphans == \A f \in orphaned : Len(f) = 1

PInv == PrimaryHoldsFile /\ ListedKnown /\ FlatOrphans

\* A name that can be moved is a name of the root, and gets another length if it
\* gets another name.
LEMMA MovedNames ==
  ASSUME SameNames, NEW f \in Files, NEW d \in Folders, NewPath(f, d) \in Files, DestRel(f, d) \in Files
  PROVE  Len(f) = 1 /\ (NewPath(f, d) # f => Len(NewPath(f, d)) = 2)
  <1>1. f \in Seq(STRING) /\ f # <<>>
    BY NameServerAssumption
  <1>2. Len(f) \in Nat \ {0}
    BY <1>1
  <1>3. NewPath(f, d) = DestRel(f, d)
    BY DEF SameNames
  <1>4. CASE d = "/"
    <2>1. f = <<f[Len(f)]>> /\ NewPath(f, d) = f
      BY <1>3, <1>4 DEF NewPath, DestRel
    <2>2. Len(<<f[Len(f)]>>) = 1
      OBVIOUS
    <2>3. QED BY <2>1, <2>2
  <1>5. CASE d # "/"
    <2>1. <<d>> \o f = <<d, f[Len(f)]>> /\ NewPath(f, d) = <<d>> \o f
      BY <1>3, <1>5 DEF NewPath, DestRel
    <2>2. Len(<<d, f[Len(f)]>>) = 2
      OBVIOUS
    <2>3. PICK S : f \in Seq(S) /\ d \in S
      <3>1. PICK S : S = STRING \cup {d}
        OBVIOUS
      <3>2. f \in Seq(S)
        BY <1>1, <3>1
      <3>3. QED BY <3>1, <3>2
    <2>4. <<d>> \in Seq(S) /\ Len(<<d>>) = 1
      BY <2>3
    <2>5. Len(<<d>> \o f) = 1 + Len(f)
      BY <2>3, <2>4, ConcatProperties
    <2>6. PICK n : n = Len(<<d>> \o f)
      OBVIOUS
    <2>7. n = 2 /\ Len(NewPath(f, d)) = n
      BY <2>1, <2>2, <2>6, Zenon
    <2>8. Len(f) = 1
      <3>1. PICK l \in Nat : l = Len(f)
        BY <1>2
      <3>2. n = 1 + l
        BY <2>5, <2>6, <3>1, Zenon
      <3>3. l = 1
        BY <2>7, <3>2
      <3>4. QED BY <3>1, <3>3
    <2>9. QED BY <2>7, <2>8
  <1>6. QED BY <1>4, <1>5

\* The first server of a record is listed.
LEMMA FirstListed ==
  ASSUME NInv, NEW f \in DOMAIN index
  PROVE  /\ f \in Files /\ index[f].ss_ids[1] \in Servers
         /\ index[f].ss_ids[1] \in ToSet(index[f].ss_ids)
  <1>1. PICK ix \in Indexes : ix = index
    BY DEF NInv, CoreOK
  <1>2. PICK ss \in Seq(Servers) : ss = ix[f].ss_ids /\ ss # <<>> /\ f \in Files
    BY <1>1, RecordParts
  <1>3. ss[1] \in Servers /\ ss[1] \in ToSet(ss)
    BY <1>2 DEF ToSet
  <1>4. QED BY <1>1, <1>2, <1>3

\* No file is taken from the first server of a record that stays.
LEMMA StillHeld ==
  ASSUME NInv, PInv, UNCHANGED <<index, servers, orphaned>>,
         \A s \in Servers, g \in DOMAIN index : disk[s][g] # "absent" => disk'[s][g] # "absent"
  PROVE  PInv'
  <1>1. ListedKnown' /\ FlatOrphans'
    BY DEF PInv, ListedKnown, FlatOrphans
  <1>2. ASSUME NEW g \in DOMAIN index' \ orphaned'
        PROVE  disk'[index'[g].ss_ids[1]][g] # "absent"
    <2>1. g \in DOMAIN index /\ g \notin orphaned /\ index'[g] = index[g]
      BY <1>2
    <2>2. index[g].ss_ids[1] \in Servers
      BY <2>1, FirstListed
    <2>3. disk[index[g].ss_ids[1]][g] # "absent"
      BY <2>1 DEF PInv, PrimaryHoldsFile
    <2>4. QED BY <2>1, <2>2, <2>3
  <1>3. PrimaryHoldsFile'
    BY <1>2 DEF PrimaryHoldsFile
  <1>4. QED BY <1>1, <1>3 DEF PInv

\* The steps of the storage servers take no file from a disk.
LEMMA HeldServer ==
  ASSUME NInv, PInv, NEW s \in Servers, ServerStep(s)
  PROVE  PInv'
  <1>0. RestOK
    BY DEF NInv
  <1>1. CASE StartServer(s) \/ Reconnect(s)
    <2>1. RegisterSS(s)
      BY <1>1 DEF StartServer, Reconnect
    <2>2. UNCHANGED <<index, disk, orphaned>>
      BY <2>1 DEF RegisterSS, indexVars
    <2>3. ToSet(servers) \subseteq ToSet(servers')
      <3>1. PICK a, b : a = servers /\ b = servers' /\ a \in Seq(Servers)
                        /\ (b = a \/ b = <<s>> \o a)
        BY <1>0, <2>1 DEF RegisterSS, RestOK
      <3>2. CASE b = <<s>> \o a
        <4>1. <<s>> \in Seq(Servers) /\ Len(<<s>>) = 1
          OBVIOUS
        <4>2. /\ b \in Seq(Servers) /\ Len(b) = 1 + Len(a)
              /\ \A i \in 1..(1 + Len(a)) : b[i] = IF i <= 1 THEN <<s>>[i] ELSE a[i - 1]
          BY <3>1, <3>2, <4>1, ConcatProperties
        <4>3. \A i \in DOMAIN a : i + 1 \in DOMAIN b /\ b[i + 1] = a[i]
          BY <3>1, <4>2
        <4>4. \A i \in DOMAIN a : \E j \in DOMAIN b : b[j] = a[i]
          BY <4>3
        <4>5. ToSet(a) \subseteq ToSet(b)
          BY <4>4 DEF ToSet
        <4>6. QED BY <3>1, <4>5
      <3>3. QED BY <3>1, <3>2
    <2>4. QED BY <2>2, <2>3 DEF PInv, PrimaryHoldsFile, ListedKnown, FlatOrphans
  <1>2. CASE Heartbeat(s) \/ ReconnectFailed(s) \/ CrashServer(s) \/ \E f \in Files : Open(s, f)
    <2>1. UNCHANGED <<index, servers, orphaned, disk>>
      BY <1>2 DEF Heartbeat, ReconnectFailed, CrashServer, Open, indexVars, serverVars,
         storeVars
    <2>2. QED BY <2>1, StillHeld
  <1>3. ASSUME NEW f \in Files, WriteText(s, f) PROVE PInv'
    <2>1. UNCHANGED <<index, servers, orphaned>> /\ disk' = [disk EXCEPT ![s][f] = "text"]
      BY <1>3 DEF WriteText, indexVars, serverVars
    <2>2. \A t \in Servers, g \in Files : disk[t][g] # "absent" => disk'[t][g] # "absent"
      BY <1>0, <2>1 DEF RestOK
    <2>3. \A g \in DOMAIN index : g \in Files
      BY FirstListed
    <2>4. QED BY <2>1, <2>2, <2>3, StillHeld
  <1>4. QED BY <1>1, <1>2, <1>3 DEF ServerStep

\* The commands keep every record's file on the disk of its first server.
LEMMA HeldCommand ==
  ASSUME NInv, PInv, NEW u \in Users, NEW f \in Files, Command(u, f)
  PROVE  PInv'
  <1>0. RestOK /\ \A g \in DOMAIN index : g \in Files
    BY FirstListed DEF NInv
  <1>1. CASE Create(u, f)
    <2>1. /\ DOMAIN index' = DOMAIN index \cup {f} /\ f \notin DOMAIN index
          /\ \A g \in DOMAIN index : index'[g] = index[g]
          /\ index'[f].ss_ids[1] = RoundRobin(next_primary_index)
          /\ ToSet(index'[f].ss_ids) \subseteq ToSet(servers)
      BY <1>1, CreatedRecord DEF Create
    <2>2. servers' = servers /\ orphaned' = orphaned
      BY <1>1 DEF Create
    <2>3. PICK p \in Servers : p = RoundRobin(next_primary_index)
      BY <1>0, <1>1, Picked DEF Create, RestOK
    <2>4. PICK R : /\ p \in R /\ Accepts(p, f)
                   /\ disk' = [s \in Servers |-> IF s \in R /\ Accepts(s, f)
                                                 THEN [disk[s] EXCEPT ![f] = "empty"] ELSE disk[s]]
      <3>1. PICK R : R = {RoundRobin(next_primary_index),
                          IF Len(ActiveServers) > 1 THEN RoundRobin(Increment(next_primary_index))
                          ELSE RoundRobin(next_primary_index)}
        OBVIOUS
      <3>2. p \in R
        BY <2>3, <3>1
      <3>3. Accepts(p, f)
        BY <1>1, <2>3 DEF Create
      <3>4. disk' = [s \in Servers |-> IF s \in R /\ Accepts(s, f)
                                       THEN [disk[s] EXCEPT ![f] = "empty"] ELSE disk[s]]
        BY <1>1, <3>1, Zenon DEF Create
      <3>5. QED BY <3>2, <3>3, <3>4
    <2>5. disk[p] \in [Files -> Texts]
      BY <1>0 DEF RestOK
    <2>6. disk'[p][f] = "empty"
      BY <2>4, <2>5
    <2>7. \A s \in Servers, g \in Files : g # f => disk'[s][g] = disk[s][g]
      BY <1>0, <2>4 DEF RestOK
    <2>8. ListedKnown' /\ FlatOrphans'
      BY <2>1, <2>2 DEF PInv, ListedKnown, FlatOrphans
    <2>9. ASSUME NEW g \in DOMAIN index' \ orphaned'
          PROVE  disk'[index'[g].ss_ids[1]][g] # "absent"
      <3>1. CASE g = f
        BY <2>1, <2>3, <2>6, <3>1
      <3>2. CASE g # f
        <4>1. g \in DOMAIN index \ orphaned /\ index'[g] = index[g] /\ g \in Files
          BY <1>0, <2>1, <2>2, <2>9, <3>2
        <4>2. index[g].ss_ids[1] \in Servers /\ disk[index[g].ss_ids[1]][g] # "absent"
          BY <4>1, FirstListed DEF PInv, PrimaryHoldsFile
        <4>3. QED BY <2>7, <3>2, <4>1, <4>2
      <3>3. QED BY <3>1, <3>2
    <2>10. PrimaryHoldsFile'
      BY <2>9 DEF PrimaryHoldsFile
    <2>11. QED BY <2>8, <2>10 DEF PInv
  <1>2. CASE CreateFailed(u, f)
    <2>1. UNCHANGED <<index, servers, orphaned, disk>>
      BY <1>2 DEF CreateFailed, indexVars
    <2>2. QED BY <2>1, StillHeld
  <1>3. CASE CreateLost(u, f)
    <2>1. UNCHANGED <<index, servers, orphaned>>
      BY <1>3 DEF CreateLost, indexVars
    <2>2. PICK p : disk' = [disk EXCEPT ![p][f] = "empty"]
      BY <1>3 DEF CreateLost
    <2>3. \A t \in Servers, g \in Files : disk[t][g] # "absent" => disk'[t][g] # "absent"
      BY <1>0, <2>2 DEF RestOK
    <2>4. QED BY <1>0, <2>1, <2>3, StillHeld
  <1>4. CASE Delete(u, f)
    <2>1. DOMAIN index' = DOMAIN index \ {f} /\ \A g \in DOMAIN index' : index'[g] = index[g]
      BY <1>4, DeletedRecord
    <2>2. servers' = servers /\ orphaned' = orphaned \ {f}
      BY <1>4 DEF Delete, serverVars
    <2>3. PICK D : disk' = [s \in Servers |-> IF s \in D THEN [disk[s] EXCEPT ![f] = "absent"]
                                              ELSE disk[s]]
      <3>1. PICK D : D = {s \in ToSet(index[f].ss_ids) : Known(s) /\ Up(s) /\ InMemory(s, f)}
        OBVIOUS
      <3>2. QED BY <1>4, <3>1, Zenon DEF Delete
    <2>4. \A s \in Servers, g \in Files : g # f => disk'[s][g] = disk[s][g]
      BY <1>0, <2>3 DEF RestOK
    <2>5. ListedKnown' /\ FlatOrphans'
      BY <2>1, <2>2 DEF PInv, ListedKnown, FlatOrphans
    <2>6. ASSUME NEW g \in DOMAIN index' \ orphaned'
          PROVE  disk'[index'[g].ss_ids[1]][g] # "absent"
      <3>1. g # f /\ g \in DOMAIN index \ orphaned /\ index'[g] = index[g] /\ g \in Files
        BY <1>0, <2>1, <2>2, <2>6
      <3>2. index[g].ss_ids[1] \in Servers /\ disk[index[g].ss_ids[1]][g] # "absent"
        BY <3>1, FirstListed DEF PInv, PrimaryHoldsFile
      <3>3. QED BY <2>4, <3>1, <3>2
    <2>7. PrimaryHoldsFile'
      BY <2>6 DEF PrimaryHoldsFile
    <2>8. QED BY <2>5, <2>7 DEF PInv
  <1>5. ASSUME NEW v \in Users, NEW m \in Modes, f \in DOMAIN index,
               index' = [index EXCEPT ![f] = [index[f] EXCEPT !.acl[v] = m]],
               UNCHANGED <<disk, servers, orphaned>>
        PROVE  PInv'
    <2>1. DOMAIN index' = DOMAIN index /\ \A g \in DOMAIN index : index'[g].ss_ids = index[g].ss_ids
      BY <1>5, EntryRecord
    <2>2. QED BY <1>5, <2>1 DEF PInv, PrimaryHoldsFile, ListedKnown, FlatOrphans
  <1>6. ASSUME NEW v \in Users, RemAccess(u, f, v) PROVE PInv'
    <2>1. "-" \in Modes
      BY DEF Modes
    <2>2. QED BY <1>5, <1>6, <2>1 DEF RemAccess, Owns, SetAcl, serverVars, storeVars
  <1>7. ASSUME NEW v \in Users, NEW m \in {"R", "RW"}, AddAccess(u, f, v, m) PROVE PInv'
    <2>1. m \in Modes
      BY <1>7 DEF Modes
    <2>2. QED BY <1>5, <1>7, <2>1 DEF AddAccess, Owns, SetAcl, serverVars, storeVars
  <1>8. ASSUME NEW v \in Users, NEW m \in Modes, CrashInPersist(u, f, v, m) PROVE PInv'
    BY <1>5, <1>8 DEF CrashInPersist, Owns, serverVars
  <1>9. ASSUME NEW v \in Users, ApproveRequest(u, f, v) PROVE PInv'
    <2>1. PICK m : m = IF RequestsOf(f)[v] = "write" THEN "RW" ELSE "R"
      OBVIOUS
    <2>2. m \in Modes /\ SetAcl(f, v, m)
      BY <1>9, <2>1 DEF ApproveRequest, Modes
    <2>3. f \in DOMAIN index /\ UNCHANGED <<disk, servers, orphaned>>
      BY <1>9 DEF ApproveRequest, Owns, serverVars, storeVars
    <2>4. QED BY <1>5, <2>2, <2>3 DEF SetAcl
  <1>10. CASE \/ \E m \in {"read", "write"} : RequestAccess(u, f, m)
              \/ \E v \in Users : DenyRequest(u, f, v)
    <2>1. UNCHANGED <<index, servers, orphaned, disk>>
      BY <1>10 DEF RequestAccess, DenyRequest, indexVars, serverVars, storeVars
    <2>2. QED BY <2>1, StillHeld
  <1>11. QED BY <1>1, <1>2, <1>3, <1>4, <1>6, <1>7, <1>8, <1>9, <1>10 DEF Command

\* What rename leaves on the disk of one server.
LEMMA RenamedRows ==
  ASSUME RestOK, NEW s \in Servers, NEW f \in Files, NEW to \in Files, disk' = RenamedOnDisk(s, f, to),
         disk[s][f] # "absent"
  PROVE  /\ disk'[s][to] # "absent"
         /\ \A t \in Servers, g \in Files : g # f \/ t # s =>
                (disk[t][g] # "absent" => disk'[t][g] # "absent")
  BY DEF RenamedOnDisk, RestOK

\* A MOVE keeps every record's file on the disk of its first server.
LEMMA HeldMove ==
  ASSUME NInv, PInv, SameNames, NEW f \in Files, FileCommand(f)
  PROVE  PInv'
  <1>0. RestOK /\ \A g \in DOMAIN index : g \in Files
    BY FirstListed DEF NInv
  <1>1. CASE Lookup(f)
    <2>1. UNCHANGED <<index, servers, orphaned, disk>>
      BY <1>1 DEF Lookup, serverVars, storeVars
    <2>2. QED BY <2>1, StillHeld
  <1>2. ASSUME NEW d \in Folders, MovePossible(f, d)
        PROVE  /\ MoveServer(f) \in Servers /\ disk[MoveServer(f)][f] # "absent"
               /\ f \in DOMAIN index => MoveServer(f) = index[f].ss_ids[1]
    <2>1. MoveServer(f) \in Servers /\ disk[MoveServer(f)][f] # "absent"
      BY <1>2, MoveAsked DEF MovePossible
    <2>2. ASSUME f \in DOMAIN index PROVE MoveServer(f) = index[f].ss_ids[1]
      <3>1. index[f].ss_ids[1] \in ToSet(servers)
        BY <2>2, FirstListed DEF PInv, ListedKnown
      <3>2. QED BY <2>2, <3>1 DEF MoveServer, Known
    <2>3. QED BY <2>1, <2>2
  <1>3. ASSUME NEW d \in Folders, Move(f, d) PROVE PInv'
    <2>1. MovePossible(f, d)
      BY <1>3 DEF Move
    <2>2. PICK s \in Servers, to \in Files : s = MoveServer(f) /\ to = NewPath(f, d)
      BY <1>2, <2>1 DEF MovePossible
    <2>3. to = DestRel(f, d) /\ Len(f) = 1 /\ (to # f => Len(to) = 2)
      BY <2>1, <2>2, MovedNames DEF MovePossible, SameNames
    <2>4. /\ f \in DOMAIN index /\ s = index[f].ss_ids[1] /\ disk[s][f] # "absent"
          /\ disk' = RenamedOnDisk(s, f, to)
      BY <1>2, <1>3, <2>1, <2>2, <2>3 DEF Move, MoveStored
    <2>5. /\ disk'[s][to] # "absent"
          /\ \A t \in Servers, g \in Files : g # f \/ t # s =>
                (disk[t][g] # "absent" => disk'[t][g] # "absent")
      BY <1>0, <2>4, RenamedRows
    <2>6. /\ DOMAIN index' = (DOMAIN index \ {f}) \cup {to}
          /\ \A g \in DOMAIN index \ {f, to} : index'[g] = index[g]
          /\ index'[to].ss_ids[1] = IF to \in DOMAIN index \ {f} THEN index[to].ss_ids[1]
                                    ELSE index[f].ss_ids[1]
          /\ ToSet(index'[to].ss_ids) \subseteq ToSet(index[f].ss_ids) \cup
                 (IF to \in DOMAIN index \ {f} THEN ToSet(index[to].ss_ids) ELSE {})
      BY <1>3, <2>2, MovedRecord
    <2>7. servers' = servers /\ orphaned' = orphaned \ {f, to}
      BY <1>3, <2>2 DEF Move, serverVars
    <2>8. FlatOrphans'
      BY <2>7 DEF PInv, FlatOrphans
    <2>9. ListedKnown'
      <3>1. ToSet(index'[to].ss_ids) \subseteq ToSet(servers)
        BY <2>4, <2>6 DEF PInv, ListedKnown
      <3>2. \A g \in DOMAIN index' : g # to =>
               g \in DOMAIN index /\ ToSet(index'[g].ss_ids) \subseteq ToSet(servers)
        BY <2>6 DEF PInv, ListedKnown
      <3>3. QED BY <2>7, <3>1, <3>2 DEF ListedKnown
    <2>10. ASSUME NEW g \in DOMAIN index' \ orphaned'
           PROVE  disk'[index'[g].ss_ids[1]][g] # "absent"
      <3>1. CASE g = to /\ to \in DOMAIN index \ {f}
        <4>1. to \notin orphaned
          BY <2>3, <3>1 DEF PInv, FlatOrphans
        <4>2. disk[index[to].ss_ids[1]][to] # "absent" /\ index[to].ss_ids[1] \in Servers
          BY <3>1, <4>1, FirstListed DEF PInv, PrimaryHoldsFile
        <4>3. QED BY <2>5, <2>6, <3>1, <4>2
      <3>2. CASE g = to /\ to \notin DOMAIN index \ {f}
        BY <2>4, <2>5, <2>6, <3>2
      <3>3. CASE g # to
        <4>1. g # f /\ g \in DOMAIN index \ orphaned /\ index'[g] = index[g] /\ g \in Files
          BY <1>0, <2>6, <2>7, <2>10, <3>3
        <4>2. index[g].ss_ids[1] \in Servers /\ disk[index[g].ss_ids[1]][g] # "absent"
          BY <4>1, FirstListed DEF PInv, PrimaryHoldsFile
        <4>3. QED BY <2>5, <4>1, <4>2
      <3>4. QED BY <3>1, <3>2, <3>3
    <2>11. PrimaryHoldsFile'
      BY <2>10 DEF PrimaryHoldsFile
    <2>12. QED BY <2>8, <2>9, <2>11 DEF PInv
  <1>4. ASSUME NEW d \in Folders, MoveUnindexed(f, d) PROVE PInv'
    <2>1. MovePossible(f, d) /\ UNCHANGED <<index, servers, orphaned>> /\ f \notin DOMAIN index
      BY <1>4 DEF MoveUnindexed, indexVars, serverVars
    <2>2. PICK s \in Servers, to \in Files : /\ s = MoveServer(f) /\ to = DestRel(f, d)
                                            /\ disk[s][f] # "absent"
      BY <1>2, <2>1 DEF MovePossible
    <2>3. disk' = RenamedOnDisk(s, f, to)
      BY <1>4, <2>2 DEF MoveUnindexed, MoveStored
    <2>4. \A t \in Servers, g \in Files : g # f \/ t # s =>
                (disk[t][g] # "absent" => disk'[t][g] # "absent")
      BY <1>0, <2>2, <2>3, RenamedRows
    <2>5. \A t \in Servers, g \in DOMAIN index : disk[t][g] # "absent" => disk'[t][g] # "absent"
      BY <1>0, <2>1, <2>4
    <2>6. QED BY <2>1, <2>5, StillHeld
  <1>5. ASSUME NEW d \in Folders, MoveLost(f, d) PROVE PInv'
    <2>1. /\ MovePossible(f, d) /\ UNCHANGED <<index, servers>> /\ orphaned' = orphaned \cup {f}
      BY <1>5 DEF MoveLost, indexVars, serverVars
    <2>2. PICK s \in Servers, to \in Files : /\ s = MoveServer(f) /\ to = DestRel(f, d)
                                            /\ disk[s][f] # "absent"
      BY <1>2, <2>1 DEF MovePossible
    <2>3. disk' = RenamedOnDisk(s, f, to)
      BY <1>5, <2>2 DEF MoveLost
    <2>4. \A t \in Servers, g \in Files : g # f \/ t # s =>
                (disk[t][g] # "absent" => disk'[t][g] # "absent")
      BY <1>0, <2>2, <2>3, RenamedRows
    <2>5. Len(f) = 1
      BY <2>1, MovedNames DEF MovePossible
    <2>6. ListedKnown' /\ FlatOrphans'
      BY <2>1, <2>5 DEF PInv, ListedKnown, FlatOrphans
    <2>7. ASSUME NEW g \in DOMAIN index' \ orphaned'
          PROVE  disk'[index'[g].ss_ids[1]][g] # "absent"
      <3>1. g # f /\ g \in DOMAIN index \ orphaned /\ index'[g] = index[g] /\ g \in Files
        BY <1>0, <2>1, <2>7
      <3>2. index[g].ss_ids[1] \in Servers /\ disk[index[g].ss_ids[1]][g] # "absent"
        BY <3>1, FirstListed DEF PInv, PrimaryHoldsFile
      <3>3. QED BY <2>4, <3>1, <3>2
    <2>8. PrimaryHoldsFile'
      BY <2>7 DEF PrimaryHoldsFile
    <2>9. QED BY <2>6, <2>8 DEF PInv
  <1>6. QED BY <1>1, <1>3, <1>4, <1>5 DEF FileCommand

\* Every step keeps every record's file on the disk of its first server.
LEMMA HeldStep ==
  ASSUME NInv, PInv, [Next]_vars, SameNames, "RESTART" \notin Opcodes
  PROVE  PInv'
  <1>1. ASSUME UNCHANGED <<index, servers, orphaned, disk>> PROVE PInv'
    BY <1>1, StillHeld
  <1>2. ASSUME NEW u \in Users, RegisterClient(u) PROVE PInv'
    BY <1>1, <1>2 DEF RegisterClient, indexVars, serverVars, storeVars
  <1>3. ASSUME NEW u \in Users, NEW f \in Files, Command(u, f) PROVE PInv'
    BY <1>3, HeldCommand
  <1>4. ASSUME NEW f \in Files, FileCommand(f) PROVE PInv'
    BY <1>4, HeldMove
  <1>5. ASSUME NEW s \in Servers, ServerStep(s) PROVE PInv'
    BY <1>5, HeldServer
  <1>6. CASE Tick
    BY <1>1, <1>6 DEF Tick, indexVars, serverVars, storeVars
  <1>7. CASE UNCHANGED vars
    BY <1>1, <1>7 DEF vars
  <1>8. QED BY <1>2, <1>3, <1>4, <1>5, <1>6, <1>7 DEF Next

\* As long as the name server is not restarted and no name in a folder is moved
\* again (the two programs would not agree on its name), the first server of
\* every record has the file on its disk, however the storage servers die,
\* whichever answers are lost and whatever a rename replaces: only a file whose
\* MOVE was done and never answered is missing under its old name.
THEOREM PrimaryHolds ==
  SameNames /\ "RESTART" \notin Opcodes => (Spec => []PrimaryHoldsFile)
  <1> SUFFICES ASSUME SameNames, "RESTART" \notin Opcodes PROVE Spec => []PrimaryHoldsFile
    OBVIOUS
  <1>1. Init => PInv
    BY DEF Init, PInv, PrimaryHoldsFile, ListedKnown, FlatOrphans
  <1>2. NInv /\ PInv /\ [Next]_vars => PInv'
    BY HeldStep
  <1>3. PInv => PrimaryHoldsFile
    BY DEF PInv
  <1>4. QED BY <1>1, <1>2, <1>3, NInvHolds, PTL DEF Spec

-----------------------------------------------------------------------------
(* Rights across a restart.                                                *)

\* A history without deletions and moves.
KeepsNames == "DELETE" \notin Opcodes /\ "MOVE" \notin Opcodes

\* A permission that was cut short is no wider than it was.
NotAbove(l, m) == l = "-" \/ l = m \/ (l = "R" /\ m = "RW")

\* Every record has one line in the registry, with its owner.
Logged ==
    /\ OneLinePerFile
    /\ DOMAIN index = {registry[i].file : i \in DOMAIN registry}
    /\ \A i \in DOMAIN registry : index[registry[i].file].owner = registry[i].owner

\* What the ACL file of f says of the users other than the owner is what the
\* record says, or less after the name server died while it wrote the file; no
\* file says that they have no entry.
Agrees(f) ==
    /\ \A a, b \in aclFile[f] : a = b
    /\ \A l \in aclFile[f], v \in Users : v # index[f].owner =>
          IF running THEN l[v] = index[f].acl[v] ELSE NotAbove(l[v], index[f].acl[v])
    /\ aclFile[f] = {} => \A v \in Users : v # index[f].owner => index[f].acl[v] = "-"

AclsAgree == \A f \in DOMAIN index : Agrees(f)

GInv == Logged /\ AclsAgree

\* One record and its ACL file are written and the others are left alone.
LEMMA OthersAgree ==
  ASSUME GInv, NEW f, DOMAIN index' = DOMAIN index \cup {f}, Agrees(f)',
         \A g \in DOMAIN index : g # f => index'[g] = index[g] /\ aclFile'[g] = aclFile[g],
         running' = running \/ running' = FALSE
  PROVE  AclsAgree'
  <1>1. ASSUME NEW g \in DOMAIN index' PROVE Agrees(g)'
    <2>1. CASE g = f
      BY <2>1
    <2>2. CASE g # f
      <3>1. g \in DOMAIN index /\ index'[g] = index[g] /\ aclFile'[g] = aclFile[g]
        BY <2>2
      <3>2. Agrees(g)
        BY <3>1 DEF GInv, AclsAgree
      <3>3. ASSUME NEW l \in aclFile'[g], NEW v \in Users, v # index'[g].owner
            PROVE  IF running' THEN l[v] = index'[g].acl[v] ELSE NotAbove(l[v],
               index'[g].acl[v])
        BY <3>1, <3>2, <3>3 DEF Agrees, NotAbove
      <3>4. QED BY <3>1, <3>2, <3>3 DEF Agrees
    <2>3. QED BY <2>1, <2>2
  <1>2. QED BY <1>1 DEF AclsAgree

\* A CREATE writes the line and the ACL file of the new record.
LEMMA GrantCreate ==
  ASSUME NInv, SInv, GInv, NEW u \in Users, NEW f \in Files, Create(u, f)
  PROVE  GInv'
  <1>0. RestOK /\ f \notin DOMAIN index
    BY DEF NInv, Create
  <1>1. /\ DOMAIN index' = DOMAIN index \cup {f} /\ \A g \in DOMAIN index : index'[g] = index[g]
        /\ index'[f].owner = u /\ index'[f].acl = NoAcl
    BY CreatedRecord
  <1>2. PICK e, n : /\ registry' = Append(registry, e) /\ e.file = f /\ e.owner = u
                    /\ n = Len(registry) + 1
    BY DEF Create
  <1>3. /\ DOMAIN registry' = DOMAIN registry \cup {n} /\ n \notin DOMAIN registry
        /\ registry'[n] = e /\ \A i \in DOMAIN registry : registry'[i] = registry[i]
    BY <1>0, <1>2 DEF RestOK
  <1>4. \A i \in DOMAIN registry : registry[i].file # f
    BY <1>0 DEF GInv, Logged
  <1>5. OneLinePerFile'
    <2>1. SUFFICES ASSUME NEW i \in DOMAIN registry', NEW j \in DOMAIN registry',
                          registry'[i].file = registry'[j].file
                   PROVE  i = j
      BY DEF OneLinePerFile
    <2>2. QED BY <1>2, <1>3, <1>4, <2>1 DEF GInv, Logged, OneLinePerFile
  <1>6. DOMAIN index' = {registry'[i].file : i \in DOMAIN registry'}
    <2>1. \A g : g \in DOMAIN index <=> \E i \in DOMAIN registry : registry[i].file = g
      BY DEF GInv, Logged
    <2>2. \A g : g \in DOMAIN index' <=> \E i \in DOMAIN registry' : registry'[i].file = g
      BY <1>1, <1>2, <1>3, <2>1
    <2>3. QED BY <2>2
  <1>7. \A i \in DOMAIN registry' : index'[registry'[i].file].owner = registry'[i].owner
    <2>1. ASSUME NEW i \in DOMAIN registry
          PROVE  index'[registry'[i].file].owner = registry'[i].owner
      <3>1. registry'[i] = registry[i] /\ registry[i].file \in DOMAIN index
        BY <1>3 DEF GInv, Logged
      <3>2. index'[registry[i].file] = index[registry[i].file]
        BY <1>1, <3>1
      <3>3. QED BY <3>1, <3>2 DEF GInv, Logged
    <2>2. index'[registry'[n].file].owner = registry'[n].owner
      BY <1>1, <1>2, <1>3
    <2>3. QED BY <1>3, <2>1, <2>2
  <1>8. Logged'
    BY <1>5, <1>6, <1>7 DEF Logged
  <1>9. aclFile[f] = {}
    BY <1>0 DEF SInv, SideFilesFollowIndex
  <1>10. PICK text \in {{}, {[NoAcl EXCEPT ![u] = "RW"]}} : aclFile' = [aclFile EXCEPT ![f] = text]
    BY <1>9 DEF Create
  <1>11. aclFile'[f] = text /\ \A g \in Files : g # f => aclFile'[g] = aclFile[g]
    BY <1>0, <1>10 DEF RestOK
  <1>12. Agrees(f)'
    <2>1. \A v \in Users : NoAcl[v] = "-" /\ (v # u => [NoAcl EXCEPT ![u] = "RW"][v] = "-")
      BY DEF NoAcl
    <2>2. running' = TRUE
      BY DEF Create, Asks
    <2>3. \A a, b \in text : a = b
      BY <1>10
    <2>4. \A l \in text, v \in Users : v # u => l[v] = "-"
      BY <1>10, <2>1
    <2>5. \A v \in Users : index'[f].acl[v] = "-"
      BY <1>1, <2>1
    <2>6. QED BY <1>1, <1>11, <2>2, <2>3, <2>4, <2>5 DEF Agrees
  <1>13. \A g \in DOMAIN index : g # f => index'[g] = index[g] /\ aclFile'[g] = aclFile[g]
    <2>1. \A g \in DOMAIN index : g \in Files
      BY FirstListed
    <2>2. QED BY <1>1, <1>11, <2>1
  <1>14. running' = running
    BY DEF Create
  <1>15. AclsAgree'
    BY <1>1, <1>12, <1>13, <1>14, OthersAgree
  <1>16. QED BY <1>8, <1>15 DEF GInv

\* A right changes in the record and in the lines of the ACL file, or in some of
\* them if the name server dies.
LEMMA GrantEntry ==
  ASSUME NInv, GInv, NEW f \in DOMAIN index, NEW v \in Users, NEW m \in Modes,
         NEW r, r = [index[f] EXCEPT !.acl[v] = m], index' = [index EXCEPT ![f] = r],
         NEW lines, aclFile' = [aclFile EXCEPT ![f] = {lines}], registry' = registry,
         \/ running' = TRUE /\ running /\ lines = AclLines(r)
         \/ running' = FALSE /\ lines \in CutShort(AclLines(r))
  PROVE  GInv'
  <1>0. RestOK /\ f \in Files
    BY FirstListed DEF NInv
  <1>1. /\ DOMAIN index' = DOMAIN index /\ \A g \in DOMAIN index : g # f => index'[g] = index[g]
        /\ index'[f].owner = index[f].owner
    BY EntryRecord
  <1>2. index'[f] = r /\ r.owner = index[f].owner
    BY <1>1
  <1>3. aclFile'[f] = {lines} /\ \A g \in Files : g # f => aclFile'[g] = aclFile[g]
    BY <1>0 DEF RestOK
  <1>4. ASSUME NEW w \in Users, w # r.owner PROVE AclLines(r)[w] = r.acl[w]
    BY <1>4 DEF AclLines
  <1>5. ASSUME NEW w \in Users, w # r.owner
        PROVE  IF running' THEN lines[w] = r.acl[w] ELSE NotAbove(lines[w], r.acl[w])
    <2>1. CASE running' = TRUE /\ lines = AclLines(r)
      BY <1>4, <1>5, <2>1
    <2>2. CASE running' = FALSE /\ lines \in CutShort(AclLines(r))
      <3>1. PICK al : al = AclLines(r)
        OBVIOUS
      <3>2. lines[w] \in {"-", al[w]} \/ (lines[w] = "R" /\ al[w] = "RW")
        BY <2>2, <3>1 DEF CutShort
      <3>3. al[w] = r.acl[w]
        BY <1>4, <1>5, <3>1
      <3>4. QED BY <2>2, <3>2, <3>3 DEF NotAbove
    <2>3. QED BY <2>1, <2>2
  <1>6. Agrees(f)'
    BY <1>2, <1>3, <1>5 DEF Agrees
  <1>7. \A g \in DOMAIN index : g # f => index'[g] = index[g] /\ aclFile'[g] = aclFile[g]
    <2>1. \A g \in DOMAIN index : g \in Files
      BY FirstListed
    <2>2. QED BY <1>1, <1>3, <2>1
  <1>8. running' = running \/ running' = FALSE
    BY <1>0 DEF RestOK
  <1>9. DOMAIN index' = DOMAIN index \cup {f}
    BY <1>1
  <1>10. AclsAgree'
    BY <1>6, <1>7, <1>8, <1>9, OthersAgree
  <1>11. \A g \in DOMAIN index : index'[g].owner = index[g].owner
    BY <1>1
  <1>12. Logged'
    <2>1. OneLinePerFile'
      BY DEF GInv, Logged, OneLinePerFile
    <2>2. \A i \in DOMAIN registry : registry[i].file \in DOMAIN index
      BY DEF GInv, Logged
    <2>3. QED BY <1>1, <1>11, <2>1, <2>2 DEF GInv, Logged
  <1>13. QED BY <1>10, <1>12 DEF GInv

\* What a replay of the registry gives.
LEMMA ReplayGives ==
  ASSUME NInv, GInv, NEW f \in DOMAIN index
  PROVE  /\ DOMAIN Replayed = DOMAIN index
         /\ Replayed[f].owner = index[f].owner
         /\ Replayed[f].acl \in [Users -> Modes]
         /\ \A v \in Users : v # index[f].owner =>
               Replayed[f].acl[v] = IF aclFile[f] = {} THEN "-" ELSE (CHOOSE a \in aclFile[f] : TRUE)[v]
  <1>0. /\ registry \in Seq(LogEntry) /\ aclFile \in [Files -> SUBSET [Users -> Modes]]
        /\ OneLinePerFile
    BY DEF NInv, RestOK, GInv, Logged
  <1>1. /\ Replayed \in Indexes
        /\ DOMAIN Replayed = {registry[i].file : i \in DOMAIN registry}
        /\ \A i \in DOMAIN registry :
              /\ Replayed[registry[i].file].owner = registry[i].owner
              /\ Replayed[registry[i].file].acl = Restored(registry[i].file, registry[i].owner)
    BY <1>0, RegistryReplayed
  <1>2. DOMAIN Replayed = DOMAIN index
    BY <1>1 DEF GInv, Logged
  <1>3. PICK i \in DOMAIN registry : registry[i].file = f
    BY DEF GInv, Logged
  <1>4. index[f].owner = registry[i].owner
    BY <1>3 DEF GInv, Logged
  <1>5. Replayed[f].owner = index[f].owner /\ Replayed[f].acl = Restored(f, index[f].owner)
    BY <1>1, <1>3, <1>4
  <1>6. Replayed[f].acl \in [Users -> Modes]
    <2>1. PICK rx \in Indexes : rx = Replayed
      BY <1>1
    <2>2. f \in DOMAIN rx
      BY <1>2, <2>1
    <2>3. QED BY <2>1, <2>2, RecordParts
  <1>7. ASSUME NEW v \in Users, v # index[f].owner
        PROVE  Replayed[f].acl[v] = IF aclFile[f] = {} THEN "-" ELSE (CHOOSE a \in aclFile[f] : TRUE)[v]
    BY <1>5, <1>7 DEF Restored, NoAcl
  <1>8. QED BY <1>2, <1>5, <1>6, <1>7

\* After a restart the records say what the files say.
LEMMA GrantRestart ==
  ASSUME NInv, GInv, StartNameServer
  PROVE  GInv'
  <1>0. RestOK /\ \A g \in DOMAIN index : g \in Files
    BY FirstListed DEF NInv
  <1>1. index' = Replayed /\ registry' = registry /\ aclFile' = aclFile /\ running' = TRUE
    BY DEF StartNameServer, diskVars
  <1>2. DOMAIN index' = DOMAIN index
    <2>1. DOMAIN Replayed = {registry[i].file : i \in DOMAIN registry}
      BY <1>0, RegistryReplayed DEF RestOK
    <2>2. QED BY <1>1, <2>1 DEF GInv, Logged
  <1>3. \A g \in DOMAIN index : index'[g].owner = index[g].owner
    BY <1>1, ReplayGives
  <1>4. Logged'
    <2>1. OneLinePerFile'
      BY <1>1 DEF GInv, Logged, OneLinePerFile
    <2>2. \A i \in DOMAIN registry : registry[i].file \in DOMAIN index
      BY DEF GInv, Logged
    <2>3. QED BY <1>1, <1>2, <1>3, <2>1, <2>2 DEF GInv, Logged
  <1>5. ASSUME NEW g \in DOMAIN index' PROVE Agrees(g)'
    <2>1. g \in DOMAIN index /\ \A a, b \in aclFile[g] : a = b
      BY <1>2, <1>5 DEF GInv, AclsAgree, Agrees
    <2>2. \A v \in Users : v # index[g].owner =>
             index'[g].acl[v] = IF aclFile[g] = {} THEN "-" ELSE (CHOOSE a \in aclFile[g] : TRUE)[v]
      BY <1>1, <2>1, ReplayGives
    <2>3. ASSUME NEW l \in aclFile[g], NEW v \in Users, v # index[g].owner
          PROVE  l[v] = index'[g].acl[v]
      <3>1. l = CHOOSE a \in aclFile[g] : TRUE
        BY <2>1
      <3>2. QED BY <2>2, <2>3, <3>1
    <2>4. QED BY <1>1, <1>3, <2>1, <2>2, <2>3 DEF Agrees
  <1>6. QED BY <1>4, <1>5 DEF GInv, AclsAgree

\* The commands keep the files in agreement with the records.
LEMMA GrantCommand ==
  ASSUME NInv, SInv, GInv, KeepsNames, NEW u \in Users, NEW f \in Files, Command(u, f)
  PROVE  GInv'
  <1>0. RestOK /\ \A g \in DOMAIN index : g \in Files
    BY FirstListed DEF NInv
  <1>1. ASSUME UNCHANGED <<index, registry, aclFile, running>> PROVE GInv'
    BY <1>1 DEF GInv, Logged, OneLinePerFile, AclsAgree, Agrees
  <1>2. CASE Create(u, f)
    BY <1>2, GrantCreate
  <1>3. CASE CreateFailed(u, f) \/ CreateLost(u, f)
    BY <1>1, <1>3 DEF CreateFailed, CreateLost, indexVars, diskVars
  <1>4. ASSUME NEW v \in Users, NEW m \in Modes, SetAcl(f, v, m), f \in DOMAIN index, running,
               UNCHANGED <<registry, running>>
        PROVE  GInv'
    <2>1. PICK r, lines : /\ r = [index[f] EXCEPT !.acl[v] = m] /\ index' = [index EXCEPT ![f] = r]
                          /\ lines = AclLines(r) /\ aclFile' = [aclFile EXCEPT ![f] = {lines}]
      BY <1>4 DEF SetAcl
    <2>2. running' = TRUE /\ running
      BY <1>0, <1>4 DEF RestOK
    <2>3. QED BY <1>4, <2>1, <2>2, GrantEntry
  <1>5. ASSUME NEW v \in Users, RemAccess(u, f, v) PROVE GInv'
    <2>1. "-" \in Modes
      BY DEF Modes
    <2>2. QED BY <1>4, <1>5, <2>1 DEF RemAccess, Owns, Asks
  <1>6. ASSUME NEW v \in Users, NEW m \in {"R", "RW"}, AddAccess(u, f, v, m) PROVE GInv'
    <2>1. m \in Modes
      BY <1>6 DEF Modes
    <2>2. QED BY <1>4, <1>6, <2>1 DEF AddAccess, Owns, Asks
  <1>7. ASSUME NEW v \in Users, NEW m \in Modes, CrashInPersist(u, f, v, m) PROVE GInv'
    <2>1. PICK r : r = [index[f] EXCEPT !.acl[v] = m]
      OBVIOUS
    <2>2. /\ f \in DOMAIN index /\ index' = [index EXCEPT ![f] = r] /\ registry' = registry
          /\ running' = FALSE
      BY <1>7, <2>1 DEF CrashInPersist, Owns, NameServerDies
    <2>3. PICK lines \in CutShort(AclLines(r)) : aclFile' = [aclFile EXCEPT ![f] = {lines}]
      BY <1>7, <2>1 DEF CrashInPersist
    <2>4. QED BY <2>1, <2>2, <2>3, GrantEntry
  <1>8. ASSUME NEW v \in Users, ApproveRequest(u, f, v) PROVE GInv'
    <2>1. PICK m : m = IF RequestsOf(f)[v] = "write" THEN "RW" ELSE "R"
      OBVIOUS
    <2>2. m \in Modes /\ SetAcl(f, v, m)
      BY <1>8, <2>1 DEF ApproveRequest, Modes
    <2>3. f \in DOMAIN index /\ running /\ UNCHANGED <<registry, running>>
      BY <1>8 DEF ApproveRequest, Owns, Asks
    <2>4. QED BY <1>4, <2>2, <2>3
  <1>9. CASE \/ \E m \in {"read", "write"} : RequestAccess(u, f, m)
             \/ \E v \in Users : DenyRequest(u, f, v)
    BY <1>1, <1>9 DEF RequestAccess, DenyRequest, indexVars
  <1>10. QED BY <1>2, <1>3, <1>5, <1>6, <1>7, <1>8, <1>9 DEF Command, KeepsNames

\* Every step keeps the files in agreement with the records.
LEMMA GrantStep ==
  ASSUME NInv, SInv, GInv, KeepsNames, [Next]_vars
  PROVE  GInv'
  <1>1. ASSUME UNCHANGED <<index, registry, aclFile, running>> PROVE GInv'
    BY <1>1 DEF GInv, Logged, OneLinePerFile, AclsAgree, Agrees
  <1>2. ASSUME NEW u \in Users, RegisterClient(u) PROVE GInv'
    BY <1>1, <1>2 DEF RegisterClient, indexVars
  <1>3. ASSUME NEW u \in Users, NEW f \in Files, Command(u, f) PROVE GInv'
    BY <1>3, GrantCommand
  <1>4. ASSUME NEW f \in Files, FileCommand(f) PROVE GInv'
    BY <1>1, <1>4 DEF FileCommand, KeepsNames, Lookup, diskVars
  <1>5. ASSUME NEW s \in Servers, ServerStep(s) PROVE GInv'
    BY <1>1, <1>5 DEF ServerStep, StartServer, Heartbeat, Reconnect, ReconnectFailed,
       CrashServer,
                      Open, WriteText, RegisterSS, indexVars, diskVars
  <1>6. CASE CrashNameServer
    <2>1. UNCHANGED <<index, registry, aclFile>> /\ running' = FALSE /\ running
      BY <1>6 DEF CrashNameServer, NameServerDies, indexVars, diskVars
    <2>2. Logged'
      BY <2>1 DEF GInv, Logged, OneLinePerFile
    <2>3. ASSUME NEW g \in DOMAIN index PROVE Agrees(g)'
      <3>1. Agrees(g)
        BY <2>3 DEF GInv, AclsAgree
      <3>2. QED BY <2>1, <3>1 DEF Agrees, NotAbove
    <2>4. QED BY <2>1, <2>2, <2>3 DEF GInv, AclsAgree
  <1>7. CASE StartNameServer
    BY <1>7, GrantRestart
  <1>8. CASE Tick
    BY <1>1, <1>8 DEF Tick, indexVars, diskVars
  <1>9. CASE UNCHANGED vars
    BY <1>1, <1>9 DEF vars
  <1>10. QED BY <1>2, <1>3, <1>4, <1>5, <1>6, <1>7, <1>8, <1>9 DEF Next

\* The files always agree with the records, in a history without deletions and moves.
LEMMA GInvHolds == KeepsNames => (Spec => [](NInv /\ GInv))
  <1> SUFFICES ASSUME KeepsNames PROVE Spec => [](NInv /\ GInv)
    OBVIOUS
  <1>1. Init => SInv
    BY DEF Init, SInv, SideFilesFollowIndex, Registered
  <1>2. NInv /\ SInv /\ [Next]_vars => SInv'
    BY SideStep DEF KeepsNames
  <1>3. Init => GInv
    BY DEF Init, GInv, Logged, OneLinePerFile, AclsAgree
  <1>4. NInv /\ SInv /\ GInv /\ [Next]_vars => GInv'
    BY GrantStep
  <1>5. QED BY <1>1, <1>2, <1>3, <1>4, NInvHolds, PTL DEF Spec

\* In a history without deletions and moves, whenever the name server runs its
\* registry and ACL files are enough to rebuild the owner and the rights of every
\* user: no handler leaves a grant, a removal or an approval in memory only.
THEOREM RightsHold == KeepsNames => (Spec => []RightsOnDisk)
  <1> SUFFICES ASSUME KeepsNames PROVE Spec => []RightsOnDisk
    OBVIOUS
  <1>1. NInv /\ GInv => RightsOnDisk
    <2>1. SUFFICES ASSUME NInv, GInv, running PROVE RightsOnDisk
      BY DEF RightsOnDisk
    <2>2. DOMAIN Replayed = DOMAIN index
      <3>1. DOMAIN Replayed = {registry[i].file : i \in DOMAIN registry}
        BY <2>1, RegistryReplayed DEF NInv, RestOK
      <3>2. QED BY <2>1, <3>1 DEF GInv, Logged
    <2>3. ASSUME NEW f \in DOMAIN index
          PROVE  /\ Replayed[f].owner = index[f].owner
                 /\ \A u \in Users, w \in BOOLEAN :
                       file_record_check_access(Replayed[f], u, w)
                       = file_record_check_access(index[f], u, w)
      <3>1. Agrees(f)
        BY <2>1, <2>3 DEF GInv, AclsAgree
      <3>2. Replayed[f].owner = index[f].owner
        BY <2>1, <2>3, ReplayGives
      <3>3. ASSUME NEW u \in Users,
                   u # index[f].owner PROVE Replayed[f].acl[u] = index[f].acl[u]
        <4>1. Replayed[f].acl[u] = IF aclFile[f] = {} THEN "-" ELSE (CHOOSE a \in aclFile[f] : TRUE)[u]
          BY <2>1, <2>3, <3>3, ReplayGives
        <4>2. CASE aclFile[f] = {}
          BY <3>1, <3>3, <4>1, <4>2 DEF Agrees
        <4>3. CASE aclFile[f] # {}
          <5>1. PICK l \in aclFile[f] : l = CHOOSE a \in aclFile[f] : TRUE
            BY <4>3
          <5>2. QED BY <2>1, <3>1, <3>3, <4>1, <4>3, <5>1 DEF Agrees
        <4>4. QED BY <4>2, <4>3
      <3>4. ASSUME NEW u \in Users, NEW w \in BOOLEAN
            PROVE  file_record_check_access(Replayed[f], u, w)
                   = file_record_check_access(index[f], u, w)
        BY <3>2, <3>3 DEF file_record_check_access
      <3>5. QED BY <3>2, <3>4
    <2>4. QED BY <2>2, <2>3 DEF RightsOnDisk
  <1>2. QED BY <1>1, GInvHolds, PTL

\* In a history without deletions and moves a restart gives nobody a right, even
\* after the name server died while it wrote an ACL file: what the reader makes
\* of the cut lines is never more than the record allowed.
THEOREM NothingGranted == KeepsNames => (Spec => RestartGrantsNothing)
  <1> SUFFICES ASSUME KeepsNames PROVE Spec => RestartGrantsNothing
    OBVIOUS
  <1> DEFINE Grants == StartNameServer =>
          \A f \in DOMAIN index', u \in Users, w \in BOOLEAN :
              file_record_check_access(index'[f], u, w) =>
                  f \in DOMAIN index /\ file_record_check_access(index[f], u, w)
  <1>1. ASSUME NInv, GInv PROVE [Grants]_vars
    <2>1. SUFFICES ASSUME StartNameServer, NEW f \in DOMAIN index', NEW u \in Users, NEW w \in BOOLEAN,
                          file_record_check_access(index'[f], u, w)
                   PROVE  f \in DOMAIN index /\ file_record_check_access(index[f], u, w)
      OBVIOUS
    <2>2. index' = Replayed /\ running = FALSE
      BY <1>1, <2>1 DEF StartNameServer, NInv, RestOK
    <2>3. f \in DOMAIN index
      <3>1. DOMAIN Replayed = {registry[i].file : i \in DOMAIN registry}
        BY <1>1, RegistryReplayed DEF NInv, RestOK
      <3>2. QED BY <1>1, <2>1, <2>2, <3>1 DEF GInv, Logged
    <2>4. Agrees(f)
      BY <1>1, <2>3 DEF GInv, AclsAgree
    <2>5. index'[f].owner = index[f].owner
      BY <1>1, <2>2, <2>3, ReplayGives
    <2>6. CASE u = index[f].owner
      BY <2>3, <2>6 DEF file_record_check_access
    <2>7. CASE u # index[f].owner
      <3>1. index'[f].acl[u] = IF aclFile[f] = {} THEN "-" ELSE (CHOOSE a \in aclFile[f] : TRUE)[u]
        BY <1>1, <2>2, <2>3, <2>7, ReplayGives
      <3>2. NotAbove(index'[f].acl[u], index[f].acl[u])
        <4>1. CASE aclFile[f] = {}
          BY <3>1, <4>1 DEF NotAbove
        <4>2. CASE aclFile[f] # {}
          <5>1. PICK l \in aclFile[f] : l = CHOOSE a \in aclFile[f] : TRUE
            BY <4>2
          <5>2. QED BY <2>2, <2>4, <2>7, <3>1, <4>2, <5>1 DEF Agrees
        <4>3. QED BY <4>1, <4>2
      <3>3. QED BY <2>1, <2>3, <2>5, <2>7, <3>2 DEF file_record_check_access, NotAbove
    <2>8. QED BY <2>6, <2>7
  <1>2. QED BY <1>1, GInvHolds, PTL DEF RestartGrantsNothing
=============================================================================
