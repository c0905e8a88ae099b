--------------------------- MODULE ResponsesStream ---------------------------
(***************************************************************************)
(* What a Responses stream promises its consumer: response.created comes   *)
(* first, output items are added in the order of their output index, each  *)
(* is done at most once and gets no delta after that, and one terminal     *)
(* event ends the stream.  A response that is completed or incomplete has  *)
(* every item done, so the client can send it back as history; only        *)
(* response.failed may leave an item unfinished.                           *)
(***************************************************************************)
EXTENDS Naturals, Sequences

VARIABLES answer,     \* what the consumer has assembled
          closing     \* how the generator ended, "none" while it runs

Terminals == {"completed", "incomplete", "failed"}

NoAnswer == [phase |-> "empty", done |-> <<>>]

Answers == [phase : {"empty", "created"} \cup Terminals, done : Seq(BOOLEAN)]

OutputEvent(type, slot) == [type |-> type, slot |-> slot]

Follows(a, e) ==
    /\ e.type = "created" <=> a.phase = "empty"
    /\ a.phase \in {"empty", "created"}
    /\ e.type = "added" => e.slot = Len(a.done) + 1
    /\ e.type \in {"delta", "done"} => e.slot \in DOMAIN a.done /\ ~a.done[e.slot]
    /\ e.type \in {"completed", "incomplete"} => \A n \in DOMAIN a.done : a.done[n]

AnswerAfter(a, e) ==
    CASE e.type = "added" -> [a EXCEPT !.done = Append(@, FALSE)]
      [] e.type = "done"  -> [a EXCEPT !.done[e.slot] = TRUE]
      [] e.type = "delta" -> a
      [] OTHER            -> [a EXCEPT !.phase = e.type]

------------------------------------------------------------------------------

AnswerInit == answer = NoAnswer /\ closing = "none"

AnswerStep ==
    /\ closing = "none"
    /\ \E type \in {"created", "added", "delta", "done"} \cup Terminals,
          slot \in 0..Len(answer.done) + 1 :
          /\ Follows(answer, OutputEvent(type, slot))
          /\ answer' = AnswerAfter(answer, OutputEvent(type, slot))
    /\ UNCHANGED closing

\* The generator returns after the terminal event, raises before any event,
\* or is closed.
AnswerCloses ==
    /\ closing = "none" /\ UNCHANGED answer
    /\ \/ answer.phase \in Terminals /\ closing' = "returned"
       \/ answer = NoAnswer /\ closing' = "raised"
       \/ closing' = "closed"

AnswerSpec == AnswerInit /\ [][AnswerStep \/ AnswerCloses]_<<answer, closing>>
==============================================================================
