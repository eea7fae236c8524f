------------------------------- MODULE Arrays -------------------------------
(* A loop over an array, as a function of the array.                       *)
EXTENDS Integers, Sequences

\* What a loop collects that goes over s and skips the entries outside of G.
Kept(s, G) ==
    LET kept[i \in 0..Len(s)] ==
            IF i = 0 THEN <<>>
            ELSE IF s[i] \in G THEN Append(kept[i - 1], s[i]) ELSE kept[i - 1]
    IN  kept[Len(s)]
=============================================================================
