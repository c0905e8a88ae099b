----------------------------- MODULE TextParsers ------------------------------
(***************************************************************************)
(* The parsers that take markup out of streamed text.  A provider cuts the *)
(* text into chunks wherever it likes, also inside a tag, and each parser  *)
(* holds back what may turn out to be the beginning of one:                *)
(*   - think: ThinkTagParser (core/anthropic/thinking.py) tells thinking   *)
(*     from text;                                                          *)
(*   - envelope: FunctionTagToolParser (core/anthropic/tools.py) holds the *)
(*     text from the first function tag on, which may end as tool calls;   *)
(*   - framer: _MiniMaxM3ToolFramer                                        *)
(*     (providers/nvidia_nim/native_tool_stream.py) takes a block of       *)
(*     native tool markup out of a field of the answer.                    *)
(*                                                                         *)
(* Text is a sequence of symbols; a tag is a short sequence with the same  *)
(* prefixes in common with other tags as in the code.  How the content of  *)
(* an envelope or a block is read is left out: the result is a free choice.*)
(***************************************************************************)
EXTENDS Naturals, SequencesExt

CONSTANTS MaxText,     \* bound: symbols of one text
          MaxChunk,    \* symbols of one chunk
          MaxEnvelope  \* symbols an envelope or a block may have

ASSUME TextParsersAssumption == {MaxText, MaxChunk, MaxEnvelope} \subseteq Nat

VARIABLES
    parsing,  \* which parser
    fed,      \* history: the text so far
    mode,     \* the state of the parser
    tail,     \* what it holds back as a possible tag
    kept,     \* the envelope or block it has collected
    shown     \* what it has let through: <<symbol, whether it is thinking>>

parserVars == << parsing, fed, mode, tail, kept, shown >>

\* <think>, </think>, <tool_call>, and the three MiniMax marks: namespace,
\* start and end of a tool block.
Open      == << "<", "t" >>
Close     == << "<", "/", "t" >>
Envelope  == << "<", "c", ">" >>
Namespace == << "n", "m" >>
Start     == Namespace \o << "s" >>
End       == Namespace \o << "e" >>

\* The symbols of a parser's tags, one other symbol and a space.
Symbols ==
    CASE parsing = "think"    -> {"<", "/", "t", "x"}
      [] parsing = "envelope" -> {"<", "c", ">", "x"}
      [] parsing = "framer"   -> {"n", "m", "s", "e", " "}

ParserInit ==
    /\ parsing \in {"think", "envelope", "framer"}
    /\ fed = <<>> /\ mode = "text" /\ tail = <<>> /\ kept = <<>> /\ shown = <<>>

------------------------------------------------------------------------------
(* Text.                                                                    *)

Rest(s, n) == SubSeq(s, n + 1, Len(s))

At(s, tag, n) == IsPrefix(tag, Rest(s, n))

\* How much of s comes before the first tag in it, all of it if there is none.
Until(s, tag) == CHOOSE n \in 0..Len(s) :
    /\ n = Len(s) \/ At(s, tag, n)
    /\ \A m \in 0..n - 1 : ~At(s, tag, m)

Has(s, tag) == Until(s, tag) < Len(s)

\* A plausible bug: a tag is not expected to be cut after its first symbol.
Settled_Whole(s, tags) == Len(s)

\* How much of s comes before an end of it that begins one of the tags
\* (_partial_marker_suffix_length, and what follows the last bracket).
Settled(s, tags) == CHOOSE n \in 0..Len(s) :
    LET Begins(m) == \E tag \in tags : IsStrictPrefix(Rest(s, m), tag)
    IN  Begins(n) /\ \A m \in 0..n - 1 : ~Begins(m)

Parser == [mode |-> mode, tail |-> tail, kept |-> kept, shown |-> shown]

\* The first n symbols of s go through.
Show(P, s, n) ==
    [P EXCEPT !.shown = @ \o [k \in 1..n |-> << s[k], P.mode = "thinking" >>]]

\* All but the possible beginning of a tag goes through.
Hold(P, s, tags) == [Show(P, s, Settled(s, tags)) EXCEPT !.tail = Rest(s, Settled(s, tags))]

------------------------------------------------------------------------------
(* ThinkTagParser.                                                          *)

\* A closing tag outside of thinking is an orphan and disappears as well.
ThinkTags(P) == IF P.mode = "text" THEN {Open, Close} ELSE {Close}

\* feed: the buffer is parsed as long as there is a tag in it.
RECURSIVE FeedThink(_, _)
FeedThink(P, text) ==
    LET n == CHOOSE m \in { Until(text, tag) : tag \in ThinkTags(P) } :
                 \A tag \in ThinkTags(P) : m <= Until(text, tag)
        opens == At(text, Open, n)
    IN  IF n = Len(text) THEN Hold(P, text, ThinkTags(P))
        ELSE FeedThink([Show(P, text, n) EXCEPT !.mode = IF opens THEN "thinking" ELSE "text"],
                       Rest(text, n + Len(IF opens THEN Open ELSE Close)))

------------------------------------------------------------------------------
(* FunctionTagToolParser.                                                   *)

\* disable: what is held goes through, and so does all that follows.
Disable(P) ==
    LET held == P.tail \o P.kept
    IN  [Show(P, held, Len(held)) EXCEPT !.mode = "off", !.tail = <<>>, !.kept = <<>>]

Keep(P, text) ==
    LET more == [P EXCEPT !.mode = "envelope", !.tail = <<>>, !.kept = @ \o text]
    IN  IF Len(more.kept) > MaxEnvelope THEN Disable(more) ELSE more

FeedEnvelope(P, chunk) ==
    LET text == P.tail \o chunk
        n    == Until(text, Envelope)
    IN  CASE P.mode = "off"      -> Show(P, chunk, Len(chunk))
          [] P.mode = "envelope" -> Keep(P, chunk)
          [] P.mode = "text"     -> IF n < Len(text) THEN Keep(Show(P, text, n), Rest(text, n))
                                    ELSE Hold(P, text, {Envelope})

------------------------------------------------------------------------------
(* _MiniMaxM3ToolFramer.                                                    *)

Fails(P) == [P EXCEPT !.mode = "failed"]

\* Only blanks may follow the block.
FeedTrailing(P, text) == IF Range(text) \subseteq {" "} THEN P ELSE Fails(P)

FeedBlock(P, chunk) ==
    LET text == P.tail \o chunk
        n    == IF Has(text, End) THEN Until(text, End) ELSE Settled(text, {End})
        more == [P EXCEPT !.mode = "block", !.kept = @ \o SubSeq(text, 1, n)]
    IN  IF Len(more.kept) > MaxEnvelope THEN Fails(P)
        ELSE IF Has(text, End)
        THEN FeedTrailing([more EXCEPT !.mode = "after", !.tail = <<>>], Rest(text, n + Len(End)))
        ELSE [more EXCEPT !.tail = Rest(text, n)]

\* A plausible bug: a namespace is an error before its tag is complete.
FeedFramer_Impatient(P, chunk) ==
    LET text == P.tail \o chunk
        n    == Until(text, Start)
    IN  CASE P.mode = "block" -> FeedBlock(P, chunk)
          [] P.mode = "after" -> FeedTrailing(P, chunk)
          [] P.mode = "text"  ->
               IF Has(text, Namespace) /\ Until(text, Namespace) # n THEN Fails(P)
               ELSE IF n < Len(text)
               THEN FeedBlock([Show(P, text, n) EXCEPT !.tail = <<>>], Rest(text, n + Len(Start)))
               ELSE Hold(P, text, {Start})

\* A namespace that does not begin the block, and never will, is an error.
FeedFramer(P, chunk) ==
    LET text == P.tail \o chunk
        n    == Until(text, Start)
        protected == IF n < Len(text) THEN n ELSE Settled(text, {Start})
    IN  CASE P.mode = "block" -> FeedBlock(P, chunk)
          [] P.mode = "after" -> FeedTrailing(P, chunk)
          [] P.mode = "text"  ->
               IF Has(text, Namespace) /\ Until(text, Namespace) # protected THEN Fails(P)
               ELSE IF n < Len(text)
               THEN FeedBlock([Show(P, text, n) EXCEPT !.tail = <<>>], Rest(text, n + Len(Start)))
               ELSE Hold(P, text, {Start})

------------------------------------------------------------------------------
(* The stream.                                                              *)

Becomes(P) == mode' = P.mode /\ tail' = P.tail /\ kept' = P.kept /\ shown' = P.shown

Live == mode \in {"text", "thinking", "envelope", "off", "block", "after"}

Feed ==
    /\ Live
    /\ \E n \in 1..MaxChunk : \E chunk \in [1..n -> Symbols] :
          /\ Len(fed) + n <= MaxText /\ fed' = fed \o chunk
          /\ Becomes(CASE parsing = "think"    -> FeedThink([Parser EXCEPT !.tail = <<>>],
                                                           tail \o chunk)
                       [] parsing = "envelope" -> FeedEnvelope(Parser, chunk)
                       [] parsing = "framer"   -> FeedFramer(Parser, chunk))
    /\ UNCHANGED parsing

\* A native tool call arrives: no envelope is looked for any more.
NativeCallSeen ==
    /\ parsing = "envelope" /\ mode \in {"text", "envelope"}
    /\ Becomes(Disable(Parser))
    /\ UNCHANGED << parsing, fed >>

FlushTail == [Show(Parser, tail, Len(tail)) EXCEPT !.mode = "flushed", !.tail = <<>>]

\* flush, finish: what is held is text after all.
FlushText ==
    /\ \/ parsing = "think" /\ mode \in {"text", "thinking"}
       \/ parsing = "envelope" /\ mode = "text"
       \/ parsing = "framer" /\ mode = "text" /\ ~Has(tail, Namespace)
    /\ Becomes(FlushTail)
    /\ UNCHANGED << parsing, fed >>

\* finish of an envelope: it is exactly the calls it seems to be, or text.
FinishEnvelope ==
    /\ parsing = "envelope" /\ mode = "envelope"
    /\ \/ Becomes([Disable(Parser) EXCEPT !.mode = "flushed"])
       \/ Becomes([Parser EXCEPT !.mode = "calls", !.kept = <<>>])
    /\ UNCHANGED << parsing, fed >>

\* finish of a framer that holds markup: an incomplete tag or block is an error,
\* or is dropped if the stream brought structured calls.
FinishFramer ==
    /\ parsing = "framer" /\ mode \in {"text", "block", "after"}
    /\ mode = "text" => Has(tail, Namespace)
    /\ \E required \in BOOLEAN :
          Becomes([Parser EXCEPT !.tail = <<>>,
                                 !.mode = IF ~required THEN "dropped"
                                          ELSE IF mode = "after" THEN "calls"
                                          ELSE "incomplete"])
    /\ UNCHANGED << parsing, fed >>

ParserNext == Feed \/ NativeCallSeen \/ FlushText \/ FinishEnvelope \/ FinishFramer

ParserSpec == ParserInit /\ [][ParserNext]_parserVars

------------------------------------------------------------------------------
(* Properties.                                                              *)

\* The values the variables of a parser take.
ParserTypeOK ==
    /\ mode \in {"text", "thinking", "envelope", "off", "block", "after",
                  "failed", "flushed", "calls", "dropped", "incomplete"}
    /\ tail \in Seq(Symbols) /\ kept \in Seq(Symbols)
    /\ shown \in Seq(Symbols \X BOOLEAN)

Plainly(s) == [n \in DOMAIN s |-> << s[n], FALSE >>]

\* What a whole text says: each tag is dropped, what is inside is thinking.
SaidBy(s) ==
    LET said[n \in 0..Len(s), inside \in BOOLEAN] ==
          IF n = Len(s) THEN <<>>
          ELSE IF At(s, Close, n) THEN said[n + Len(Close), FALSE]
          ELSE IF At(s, Open, n) /\ ~inside THEN said[n + Len(Open), TRUE]
          ELSE << << s[n + 1], inside >> >> \o said[n + 1, inside]
    IN  said[0, FALSE]

\* Thinking and text are told apart as in the whole text.
ThinkingIsTold ==
    parsing = "think" =>
        /\ shown \o [n \in DOMAIN tail |-> << tail[n], mode = "thinking" >>] = SaidBy(fed)
        /\ Len(tail) < Len(Close)

\* No symbol of an envelope is shown unless all of it is, in its place.
EnvelopeIsWhole ==
    parsing = "envelope" =>
        CASE mode \in {"off", "flushed"} -> shown = Plainly(fed)
          [] mode \in {"envelope", "calls"} ->
                /\ Has(fed, Envelope)
                /\ shown = Plainly(SubSeq(fed, 1, Until(fed, Envelope)))
          [] OTHER -> shown \o Plainly(tail) = Plainly(fed) /\ ~Has(fed, Envelope)

Body     == Rest(fed, Until(fed, Start) + Len(Start))
Trailing == Rest(Body, Until(Body, End) + Len(End))

\* A text no continuation can make right.
Malformed ==
    \/ /\ Has(fed, Namespace) /\ Until(fed, Namespace) # Until(fed, Start)
       /\ ~IsStrictPrefix(Rest(fed, Until(fed, Namespace)), Start)
    \/ /\ Has(fed, Start)
       /\ (IF Has(Body, End) THEN Until(Body, End) ELSE Settled(Body, {End})) > MaxEnvelope
    \/ Has(fed, Start) /\ Has(Body, End) /\ ~(Range(Trailing) \subseteq {" "})

\* No markup is shown, no text is lost, and what is an error does not depend on
\* the chunks.
BlockIsTakenOut ==
    parsing = "framer" =>
        /\ Malformed <=> mode = "failed"
        /\ mode = "text" => shown \o Plainly(tail) = Plainly(fed) /\ ~Has(fed, Start)
        /\ mode = "flushed" => shown = Plainly(fed) /\ ~Has(fed, Namespace)
        /\ mode \in {"block", "after", "calls"} =>
              shown = Plainly(SubSeq(fed, 1, Until(fed, Start)))
        /\ mode \in {"after", "calls"} => kept = SubSeq(Body, 1, Until(Body, End))

\* What a parser has made of a text does not depend on the chunks it came in
\* (thinking.py:43, tools.py:72, native_tool_stream.py:91).
ParsersIgnoreChunks == ThinkingIsTold /\ EnvelopeIsWhole /\ BlockIsTakenOut
==============================================================================
