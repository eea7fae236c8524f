----------------------------- MODULE FileIndex -----------------------------
(***************************************************************************)
(* The name server's file index and lookup cache (file_index.c) as         *)
(* functions of their state.                                               *)
(*                                                                         *)
(* An index maps the names that have a record to their records.  `id' is   *)
(* the address of a record: the cache holds addresses.  An ACL entry       *)
(* always has can_read set, so an entry is "R" or "RW"; "-" is no entry.   *)
(***************************************************************************)
EXTENDS Integers, FiniteSets, SequencesExt

CONSTANTS
    Users,              \* user names
    Servers,            \* ids of storage servers
    Files,              \* file names: paths, sequences of components
    Capacity,           \* entries of the lookup cache (128 in the code)
    MaxServersPerFile   \* MAX_SS_PER_FILE (8 in the code)

ASSUME IndexAssumption ==
    /\ Capacity \in Nat \ {0}
    /\ MaxServersPerFile \in Nat \ {0}

Modes == {"-", "R", "RW"}
NoAcl == [u \in Users |-> "-"]

FileRecord == [id : Nat, owner : Users, ss_ids : Seq(Servers),
               acl : [Users -> Modes]]
CacheEntry == [filename : Files, record : Nat]

-----------------------------------------------------------------------------
\* A server is entered once, and dropped when the record is full.
AddServer(ss, s) ==
    IF s \in ToSet(ss) \/ Len(ss) >= MaxServersPerFile THEN ss ELSE Append(ss, s)

\* A loop that enters the servers of another list.
AddServers(ss, more) ==
    LET added[i \in 0..Len(more)] ==
            IF i = 0 THEN ss ELSE AddServer(added[i - 1], more[i])
    IN  added[Len(more)]

\* An existing record keeps its owner and its ACL.
file_index_add(index, f, owner, s, id) ==
    [g \in DOMAIN index \cup {f} |->
        IF g # f THEN index[g]
        ELSE IF f \in DOMAIN index
             THEN [index[f] EXCEPT !.ss_ids = AddServer(@, s)]
             ELSE [id |-> id, owner |-> owner, ss_ids |-> <<s>>, acl |-> NoAcl]]

file_index_remove(index, f) == [g \in DOMAIN index \ {f} |-> index[g]]

file_index_add_ss_replica(index, f, s) ==
    [index EXCEPT ![f].ss_ids = AddServer(@, s)]

file_record_check_access(r, u, need_write) ==
    r.owner = u \/ r.acl[u] = "RW" \/ (r.acl[u] = "R" /\ ~ need_write)

-----------------------------------------------------------------------------
lru_cache_invalidate(cache, f) ==
    RemoveFirstMatch(cache, LAMBDA e : e.filename = f)

\* Mutant: the tail is evicted one entry too late.
lru_cache_get_late(cache, index, f) ==
    LET hits == {i \in DOMAIN cache : cache[i].filename = f}
        room == IF Len(cache) > Capacity THEN Front(cache) ELSE cache
    IN  IF hits # {} THEN <<cache[CHOOSE i \in hits : TRUE]>> \o lru_cache_invalidate(cache, f)
        ELSE IF f \in DOMAIN index
             THEN <<[filename |-> f, record |-> index[f].id]>> \o room
             ELSE cache

\* A hit moves to the front; on a miss the index is consulted and the record
\* put in front, the last entry making room when the cache is full.
lru_cache_get(cache, index, f) ==
    LET hits == {i \in DOMAIN cache : cache[i].filename = f}
        room == IF Len(cache) >= Capacity THEN Front(cache) ELSE cache
    IN  IF hits # {} THEN <<cache[CHOOSE i \in hits : TRUE]>> \o lru_cache_invalidate(cache, f)
        ELSE IF f \in DOMAIN index
             THEN <<[filename |-> f, record |-> index[f].id]>> \o room
             ELSE cache
=============================================================================
