------------------------------- MODULE TextOps -------------------------------
(***************************************************************************)
(* The text of a file through write sessions that follow one another: how  *)
(* storage_engine.c finds sentences and words and inserts words, how       *)
(* handle_write_request counts the words it tells the client of, and how   *)
(* cmd_write of the client checks word indices against that count.         *)
(*                                                                         *)
(* A text is a sequence of characters.  One letter stands for all that are *)
(* neither delimiters nor white space, one delimiter for . ! and ?, "cr"   *)
(* for the carriage return, which some of the functions treat as white     *)
(* space and others do not, and "quote" for the double quote, with which   *)
(* the text of an update ends in its message.  Indices of sentences and    *)
(* words start at 0 as in the code, positions in a sequence at 1.          *)
(***************************************************************************)
EXTENDS Integers, SequencesExt, Arrays

CONSTANTS
    Inputs,       \* what a user types after the word index
    PayloadSize,  \* characters of an update and its end that are sent (996, or a few
                  \* less where the index has more than one digit)
    FieldSize,    \* characters of an update the server keeps (511)
    SentenceSize, \* characters of a sentence it counts words in (511)
    MaxLength,    \* bound: length of a text
    MaxUpdates    \* bound: updates of a session

Chars == {"x", ".", " ", "cr", "quote"}

ASSUME TextAssumption ==
    /\ Inputs \subseteq Seq(Chars) \ {<<>>}
    /\ {PayloadSize, FieldSize, SentenceSize, MaxLength, MaxUpdates} \subseteq Nat
    /\ FieldSize < PayloadSize

VARIABLES
    content,            \* the text of the file
    session,            \* the sentence index of the open session, or NoSession
    updates,            \* its updates, as the client has sent them
    current_word_count, \* the client's count
    refused,            \* history: the updates of the last commit, if it was refused
    old                 \* history: the text before a commit, and its session, until the next

vars == <<content, session, updates, current_word_count, refused, old>>

NoSession == -1

Update == [index : Nat, text : Seq(Chars)]

NoCommit == [content |-> <<>>, sentence |-> NoSession, updates |-> <<>>]

TypeOK ==
    /\ content \in Seq(Chars)
    /\ session \in Nat \cup {NoSession}
    /\ updates \in Seq(Update)
    /\ current_word_count \in Nat
    /\ refused \in Seq(Update)
    /\ old \in [content : Seq(Chars), sentence : Nat \cup {NoSession}, updates : Seq(Update)]

Init ==
    /\ content = <<>>
    /\ session = NoSession
    /\ updates = <<>>
    /\ current_word_count = 0
    /\ refused = <<>>
    /\ old = NoCommit

-----------------------------------------------------------------------------
(* Sentences and words.                                                    *)

Smaller(i, j) == IF i <= j THEN i ELSE j

\* snprintf, strncpy and memcpy into a buffer of fixed size.
Cut(s, size) == SubSeq(s, 1, Smaller(Len(s), size))

\* The first position from i on that is not in white.
Skip(s, i, white) ==
    CHOOSE j \in i..(Len(s) + 1) :
        /\ j > Len(s) \/ s[j] \notin white
        /\ \A k \in i..(j - 1) : s[k] \in white

\* sentence_span_t, of the characters from start to last.
Span(start, last) == [start |-> start, length |-> last - start + 1]

\* Mutant: the character behind the delimiter is taken for white space.
SpansAfterOne(s, white) ==
    LET scan[i \in 0..Len(s)] ==
            IF i = 0 THEN [start |-> 1, found |-> <<>>]
            ELSE LET acc == scan[i - 1]
                 IN  IF s[i] # "." THEN acc
                     ELSE [start |-> Skip(s, Smaller(i + 2, Len(s) + 1), white),
                           found |-> Append(acc.found, Span(acc.start, i))]
    IN  scan[Len(s)]

\* compute_spans, and the loop of handle_write_request over the sentences: a
\* sentence ends with its delimiter, the next one starts behind white space.
\* `start' is left where the incomplete text at the end begins.
Spans(s, white) ==
    LET scan[i \in 0..Len(s)] ==
            IF i = 0 THEN [start |-> 1, found |-> <<>>]
            ELSE LET acc == scan[i - 1]
                 IN  IF s[i] # "." THEN acc
                     ELSE [start |-> Skip(s, i + 1, white),
                           found |-> Append(acc.found, Span(acc.start, i))]
    IN  scan[Len(s)]

compute_spans(s) == Spans(s, {" ", "cr"}).found

SpanText(s, span) == SubSeq(s, span.start, span.start + span.length - 1)

\* strtok: the longest stretches without white space.
Words(s, white) ==
    LET scan[i \in 0..Len(s)] ==
            IF i = 0 THEN <<>>
            ELSE LET words == scan[i - 1]
                 IN  IF s[i] \in white THEN words
                     ELSE IF i = 1 \/ s[i - 1] \in white THEN Append(words, <<s[i]>>)
                     ELSE [words EXCEPT ![Len(words)] = Append(@, s[i])]
    IN  scan[Len(s)]

\* normalise_inline_whitespace and strtok_r on blanks.
tokenize_words(s) == Words(s, {" ", "cr"})

\* The words cmd_write and handle_write_request count.
CountWords(s) == Len(Words(s, {" "}))

join_words(words) ==
    LET glued[k \in 0..Len(words)] ==
            IF k = 0 THEN <<>>
            ELSE IF k = 1 THEN words[k] ELSE glued[k - 1] \o <<" ">> \o words[k]
    IN  glued[Len(words)]

-----------------------------------------------------------------------------
(* storage_engine_write.                                                   *)

\* The span that the sentence index denotes: all of a text without sentences,
\* the incomplete text behind the last one, or the sentence.
SpanOf(s, i) ==
    LET spans == compute_spans(s)
        n == Len(spans)
        tail == Skip(s, spans[n].start + spans[n].length, {" "})
    IN  IF n = 0 THEN [start |-> 1, length |-> Len(s)]
        ELSE IF i = n THEN [start |-> tail, length |-> Len(s) - tail + 1]
        ELSE spans[i + 1]

\* Mutant: the word at the index is replaced.
InsertOver(words, index, new) ==
    SubSeq(words, 1, index) \o new \o SubSeq(words, index + 2, Len(words))

Insert(words, index, new) ==
    SubSeq(words, 1, index) \o new \o SubSeq(words, index + 1, Len(words))

\* Mutant: white space other than blanks is kept.
InsertedRaw(text) == Words(text, {" "})

\* What an update inserts: apply_updates normalises and splits it by itself.
InsertedWords(text) == Words(text, {" ", "cr"})

\* Mutant: there is no appending behind the last word.
apply_updates_within(words, list) ==
    LET applied[k \in 0..Len(list)] ==
            IF k = 0 THEN [words |-> words, failed |-> FALSE]
            ELSE LET acc == applied[k - 1]
                 IN  IF acc.failed \/ (list[k].index >= Len(acc.words) /\ acc.words # <<>>)
                     THEN [acc EXCEPT !.failed = TRUE]
                     ELSE [acc EXCEPT !.words =
                              Insert(@, list[k].index, InsertedWords(list[k].text))]
    IN  applied[Len(list)]

\* One update after the other; the first index past the end fails them all.
apply_updates(words, list) ==
    LET applied[k \in 0..Len(list)] ==
            IF k = 0 THEN [words |-> words, failed |-> FALSE]
            ELSE LET acc == applied[k - 1]
                 IN  IF acc.failed \/ list[k].index > Len(acc.words)
                     THEN [acc EXCEPT !.failed = TRUE]
                     ELSE [acc EXCEPT !.words =
                              Insert(@, list[k].index, InsertedWords(list[k].text))]
    IN  applied[Len(list)]

\* Mutant: the suffix starts one character late.
write_new_content_short(s, span, new) ==
    SubSeq(s, 1, span.start - 1) \o new \o SubSeq(s, span.start + span.length + 1, Len(s))

write_new_content(s, span, new) ==
    SubSeq(s, 1, span.start - 1) \o new \o SubSeq(s, span.start + span.length, Len(s))

\* The value ends with the first double quote, and there is none without.
json_get_string(sent) ==
    LET quote == Skip(sent, 1, Chars \ {"quote"})
    IN  IF quote > Len(sent) THEN <<>> ELSE Cut(SubSeq(sent, 1, quote - 1), FieldSize)

\* What the server keeps of a text: cmd_write escapes nothing in it, and cuts the
\* message at the size of its buffer.
Arriving(text) == json_get_string(Cut(Append(text, "quote"), PayloadSize))

\* The updates as the server has received them.
Received == [k \in DOMAIN updates |-> [updates[k] EXCEPT !.text = Arriving(@)]]

-----------------------------------------------------------------------------
(* A session.                                                              *)

\* Mutant: the gaps between the words are counted.
AckedGaps(s, i) ==
    LET parsed == Spans(s, {" "})
        n == Len(parsed.found)
        text == IF i < n THEN SpanText(s, parsed.found[i + 1])
                ELSE SubSeq(s, parsed.start, Len(s))
    IN  CountWords(Cut(text, SentenceSize)) - 1

\* The words of the sentence according to handle_write_request, which finds the
\* sentence by a loop of its own.
AckedWords(s, i) ==
    LET parsed == Spans(s, {" "})
        n == Len(parsed.found)
        text == IF i < n THEN SpanText(s, parsed.found[i + 1])
                ELSE SubSeq(s, parsed.start, Len(s))
    IN  CountWords(Cut(text, SentenceSize))

Lock(i) ==
    /\ session = NoSession
    /\ i <= Len(compute_spans(content))
    /\ session' = i
    /\ current_word_count' = AckedWords(content, i)
    /\ refused' = <<>>
    /\ old' = NoCommit
    /\ UNCHANGED <<content, updates>>

\* cmd_write checks the index, sends the update and adds the words to its count.
TypeUpdate(index, text) ==
    /\ session # NoSession /\ Len(updates) < MaxUpdates
    /\ index <= current_word_count
    /\ updates' = Append(updates, [index |-> index, text |-> text])
    /\ current_word_count' = current_word_count + CountWords(text)
    /\ UNCHANGED <<content, session, refused, old>>

\* The end of a session: nothing of it is left with the client or the server.
Closed ==
    /\ session' = NoSession
    /\ updates' = <<>>
    /\ current_word_count' = 0

CommitOK ==
    LET span == SpanOf(content, session)
        new == apply_updates(tokenize_words(SpanText(content, span)), Received)
        text == write_new_content(content, span, join_words(new.words))
    IN  /\ session # NoSession /\ updates # <<>>
        /\ ~ new.failed /\ Len(text) <= MaxLength
        /\ content' = text
        /\ old' = [content |-> content, sentence |-> session, updates |-> updates]
        /\ Closed
        /\ UNCHANGED refused

CommitRefused ==
    LET span == SpanOf(content, session)
    IN  /\ session # NoSession /\ updates # <<>>
        /\ apply_updates(tokenize_words(SpanText(content, span)), Received).failed
        /\ refused' = updates
        /\ Closed
        /\ UNCHANGED <<content, old>>

\* The client leaves.
Abandon ==
    /\ session # NoSession
    /\ Closed
    /\ UNCHANGED <<content, refused, old>>

Next ==
    \/ \E i \in 0..MaxLength : Lock(i)
    \/ \E index \in 0..MaxLength, text \in Inputs : TypeUpdate(index, text)
    \/ CommitOK \/ CommitRefused \/ Abandon

Spec == Init /\ [][Next]_vars

-----------------------------------------------------------------------------
(* What the functions compute.                                             *)

\* A text is cut into its sentences: each has one delimiter, at its end, starts
\* with something else than white space unless the text itself does, and
\* nothing but white space lies between two of them.
SpansAreSentences ==
    LET spans == compute_spans(content)
        n == Len(spans)
        From(k) == IF k = 0 THEN 1 ELSE spans[k].start + spans[k].length
    IN  /\ n = Len(Kept(content, {"."}))
        /\ \A k \in 1..n :
              LET s == SpanText(content, spans[k])
              IN  /\ \A i \in DOMAIN s : s[i] = "." <=> i = Len(s)
                  /\ k > 1 => s[1] \notin {" ", "cr"}
                  /\ \A i \in From(k - 1)..(spans[k].start - 1) : content[i] \in {" ", "cr"}

\* The word count that goes to the client with the lock is the number of words
\* the engine will find in the sentence, although the two are computed by
\* different functions that do not agree on what white space is; for a sentence
\* too long for the server's buffer it is never more than that.
AckCountsEngineWords ==
    \A i \in 0..Len(compute_spans(content)) :
        LET text == SpanText(content, SpanOf(content, i))
            engine == Len(tokenize_words(text))
        IN  /\ AckedWords(content, i) <= engine
            /\ Len(text) <= SentenceSize => AckedWords(content, i) = engine

\* A carriage return where cmd_write sees the beginning of a word.
StrayReturn(text) == \E i \in DOMAIN text : text[i] = "cr" /\ (i = 1 \/ text[i - 1] = " ")

\* A text that reaches the server as it was typed.
Whole(text) == Len(text) <= FieldSize /\ \A i \in DOMAIN text : text[i] # "quote"

\* What the client lets through the engine accepts: on a file nobody else has
\* changed, a commit is only refused when the server has not received all of an
\* update, which was too long or had a double quote in it, or when the client has
\* counted a word that begins with a carriage return, of which the engine may
\* find nothing.
AcceptedUpdatesApply ==
    refused # <<>> => \E k \in DOMAIN refused : \/ ~ Whole(refused[k].text)
                                                \/ StrayReturn(refused[k].text)

\* Everything but white space.
Ink(s) == Kept(s, Chars \ {" ", "cr"})

\* A commit only inserts: leave white space aside and the text is the old one up
\* to the word at the index of the update, the inserted text, and the rest.
\* (Stated for sessions with one update that reaches the server whole.)
CommitInserts ==
    (Len(old.updates) = 1 /\ Whole(old.updates[1].text)) =>
        LET span == SpanOf(old.content, old.sentence)
            words == tokenize_words(SpanText(old.content, span))
            u == old.updates[1]
            inFront == Ink(SubSeq(old.content, 1, span.start - 1))
                          \o FlattenSeq(SubSeq(words, 1, u.index))
            behind == SubSeq(Ink(old.content), Len(inFront) + 1, Len(Ink(old.content)))
        IN  Ink(content) = inFront \o Ink(u.text) \o behind

\* The sentences of a text, with what comes behind the last one.
Sentences(s) ==
    [k \in DOMAIN compute_spans(s) |-> SpanText(s, compute_spans(s)[k])]

Delimiters(list) ==
    LET count[k \in 0..Len(list)] ==
            IF k = 0 THEN 0
            ELSE count[k - 1] + Len(Kept(Arriving(list[k].text), {"."}))
    IN  count[Len(list)]

\* A commit to sentence i adds as many sentences as delimiters have arrived, keeps
\* the sentences in front of i as they were, and those behind it but for the
\* next one, which may begin with words put behind the delimiter of i.
CommitKeepsOtherSentences ==
    old.sentence # NoSession =>
        LET from == Sentences(old.content)
            to == Sentences(content)
            k == Delimiters(old.updates)
        IN  /\ Len(to) = Len(from) + k
            /\ \A j \in 1..Smaller(old.sentence, Len(from)) : to[j] = from[j]
            /\ \A j \in (old.sentence + 2)..Len(from) :
                  IF j = old.sentence + 2 THEN IsSuffix(from[j], to[j + k])
                  ELSE to[j + k] = from[j]
=============================================================================
