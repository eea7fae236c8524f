--------------------------- MODULE SentenceLocks ---------------------------
(***************************************************************************)
(* What the table of locked sentences promises its users: a lock service   *)
(* in which a sentence has one holder at most, a holder holds one sentence *)
(* at most, a lock is taken only when it is free and given back only by    *)
(* its holder - or by a restart of the server, which frees them all.       *)
(***************************************************************************)
CONSTANTS Holders, Sentences

VARIABLE held     \* pairs <<holder, sentence>>

HoldersOf(s) == {h \in Holders : <<h, s>> \in held}
Holdings(h) == {s \in Sentences : <<h, s>> \in held}

LockInit == held = {}

Acquire(h, s) ==
    /\ HoldersOf(s) = {}
    /\ Holdings(h) = {}
    /\ held' = held \cup {<<h, s>>}

GiveBack(h, s) ==
    /\ <<h, s>> \in held
    /\ held' = held \ {<<h, s>>}

FreeAll == held' = {}

LockNext ==
    \/ \E h \in Holders, s \in Sentences : Acquire(h, s) \/ GiveBack(h, s)
    \/ FreeAll

LockSpec == LockInit /\ [][LockNext]_held
=============================================================================
