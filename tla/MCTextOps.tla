----------------------------- MODULE MCTextOps -----------------------------
(* What users type: a word, a sentence, a text too long for the buffer the *)
(* server reads an update into and one too long for the message as well,   *)
(* two sentences in one word, two words with a carriage return between     *)
(* them, a word with one behind a blank, and two words of which the second *)
(* begins with a double quote.                                             *)
EXTENDS TextOps

Typed == {<<"x">>, <<"x", ".">>, <<"x", " ", " ", "x">>, <<"x", " ", "x", " ", "x">>,
          <<".", "x", ".">>, <<"x", "cr", "x">>, <<"x", " ", "cr">>,
          <<"x", " ", "quote">>}
=============================================================================
