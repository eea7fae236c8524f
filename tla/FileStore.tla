------------------------------ MODULE FileStore ------------------------------
(***************************************************************************)
(* What the storage engine promises its callers, without threads, mutexes  *)
(* or a copy in memory: every name has at most one text, one undo snapshot *)
(* and one checkpoint, all durable.  A change of the text and the snapshot *)
(* that goes with it are two steps, since the engine writes two files, and *)
(* a crash between them leaves the older snapshot.                         *)
(*                                                                         *)
(* Optional values are sets of at most one value.                          *)
(***************************************************************************)
EXTENDS Integers

CONSTANTS
    Readers,    \* who reads
    Paths,      \* names of files
    Texts,      \* contents
    Empty,      \* the content of a new file
    NoAnswer    \* the answer of a reader that has asked and not been answered

VARIABLES
    text,       \* the text of each file
    undo,       \* its snapshot
    replaced,   \* the text a change has just replaced, until it is the snapshot
    ckpt,       \* its checkpoint
    answer      \* the text each reader was given

storeVars == <<text, undo, replaced, ckpt, answer>>

\* A name nobody created reads as an empty file.
TextOf(p) == IF text[p] = {} THEN {Empty} ELSE text[p]

Stored(v) == \E p \in Paths : v \in text[p] \cup undo[p] \cup replaced[p] \cup ckpt[p]

StoreInit ==
    /\ text = [p \in Paths |-> {}]
    /\ undo = [p \in Paths |-> {}]
    /\ replaced = [p \in Paths |-> {}]
    /\ ckpt = [p \in Paths |-> {}]
    /\ answer = [r \in Readers |-> NoAnswer]

Create(p) ==
    /\ TextOf(p) = {Empty}
    /\ text' = [text EXCEPT ![p] = {Empty}]
    /\ UNCHANGED <<undo, replaced, ckpt, answer>>

\* A new text, the snapshot or the checkpoint becomes the text.
Change(p, v) ==
    /\ ~ Stored(v) \/ v \in undo[p] \/ v \in ckpt[p]
    /\ replaced[p] = {}
    /\ replaced' = [replaced EXCEPT ![p] = TextOf(p)]
    /\ text' = [text EXCEPT ![p] = {v}]
    /\ UNCHANGED <<undo, ckpt, answer>>

Snapshot(p) ==
    /\ replaced[p] # {}
    /\ undo' = [undo EXCEPT ![p] = replaced[p]]
    /\ replaced' = [replaced EXCEPT ![p] = {}]
    /\ UNCHANGED <<text, ckpt, answer>>

\* A copy from another server; the snapshot stays.
Import(p, v) ==
    /\ ~ Stored(v)
    /\ text' = [text EXCEPT ![p] = {v}]
    /\ UNCHANGED <<undo, replaced, ckpt, answer>>

Checkpoint(p) ==
    /\ ckpt[p] = {} /\ replaced[p] = {}
    /\ ckpt' = [ckpt EXCEPT ![p] = TextOf(p)]
    /\ UNCHANGED <<text, undo, replaced, answer>>

Ask(r) ==
    /\ answer' = [answer EXCEPT ![r] = NoAnswer]
    /\ UNCHANGED <<text, undo, replaced, ckpt>>

\* Nobody is given a text whose change is not complete.
Read(r, p) ==
    /\ answer[r] = NoAnswer /\ replaced[p] = {}
    /\ answer' = [answer EXCEPT ![r] = CHOOSE v \in TextOf(p) : TRUE]
    /\ UNCHANGED <<text, undo, replaced, ckpt>>

\* The text goes, or takes a name that is free; the snapshot follows.
MoveText(p, q) ==
    /\ text[p] # {} /\ text[q] = {}
    /\ text' = [text EXCEPT ![p] = {}, ![q] = text[p]]
    /\ UNCHANGED <<undo, replaced, ckpt, answer>>

MoveUndo(p, q) ==
    /\ text[p] = {} /\ undo[p] # {}
    /\ undo' = [undo EXCEPT ![p] = {}, ![q] = undo[p]]
    /\ UNCHANGED <<text, replaced, ckpt, answer>>

DropText(p) ==
    /\ text' = [text EXCEPT ![p] = {}]
    /\ UNCHANGED <<undo, replaced, ckpt, answer>>

DropUndo(p) ==
    /\ text[p] = {}
    /\ undo' = [undo EXCEPT ![p] = {}]
    /\ UNCHANGED <<text, replaced, ckpt, answer>>

Crash ==
    /\ replaced' = [p \in Paths |-> {}]
    /\ answer' = [r \in Readers |-> NoAnswer]
    /\ UNCHANGED <<text, undo, ckpt>>

StoreNext ==
    \/ \E p \in Paths :
          \/ Create(p) \/ Snapshot(p) \/ Checkpoint(p) \/ DropText(p) \/ DropUndo(p)
          \/ \E v \in Texts : Change(p, v) \/ Import(p, v)
          \/ \E q \in Paths : MoveText(p, q) \/ MoveUndo(p, q)
          \/ \E r \in Readers : Read(r, p)
    \/ \E r \in Readers : Ask(r)
    \/ Crash

StoreSpec == StoreInit /\ [][StoreNext]_storeVars
=============================================================================
