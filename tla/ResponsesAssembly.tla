-------------------------- MODULE ResponsesAssembly --------------------------
(***************************************************************************)
(* core/openai_responses: an Anthropic stream is turned into a Responses   *)
(* stream (stream.py) by an assembler (streaming/assembler.py,             *)
(* completion.py) over an output ledger (streaming/ledger.py).             *)
(*                                                                         *)
(* The input is any stream the contract of AnthropicEvents allows, ended   *)
(* or failed at any point: the progress deadline of the executor closes a  *)
(* provider with blocks still open.                                        *)
(***************************************************************************)
EXTENDS AnthropicEvents, SequencesExt

CONSTANT MaxItems      \* bound: output items of one response; their blocks have one
                       \* of the first MaxItems + 1 indexes

ASSUME ResponsesAssemblyAssumption == MaxItems \in Nat /\ 1 .. MaxItems + 1 \subseteq BlockIndexes

VARIABLES
    source,       \* what the assembler has been given
    items,        \* output slots, with the active block in each
    stopReason,   \* _stop_reason
    provisional,  \* _provisional_error is set
    terminal,     \* the terminal event has been made
    sending,      \* events of the list the generator is yielding
    response,     \* what the consumer has assembled
    left          \* how the generator ended

assemblerVars == <<items, stopReason, provisional, terminal>>
assemblyVars  == <<source, assemblerVars, sending, response, left>>

Answer == INSTANCE ResponsesStream WITH answer <- response, closing <- left

AssemblyInit ==
    /\ source = Nothing
    /\ items = <<>> /\ stopReason = "none" /\ provisional = FALSE
    /\ terminal = FALSE /\ sending = <<>>
    /\ response = Answer!NoAnswer /\ left = "none"

\* The generator awaits the next event.
Waiting == left = "none" /\ sending = <<>>

Started == response.phase # "empty"

------------------------------------------------------------------------------
(* The assembler: operations on its state and the events they produce.      *)

Assembler == [items |-> items, provisional |-> provisional, terminal |-> terminal,
              made |-> IF Started THEN <<>> ELSE <<Answer!OutputEvent("created", 0)>>]

Make(A, type, slot) == [A EXCEPT !.made = Append(@, Answer!OutputEvent(type, slot))]

\* Arguments that are no JSON object.
BadArguments(item) == item.kind = "function" /\ item.said = "bad"

\* A plausible bug: an invalid call is dropped like a block that brought nothing.
Complete_Silent(A, n) ==
    LET item  == A.items[n]
        whole == [A EXCEPT !.items[n].state = "done"]
    IN  IF BadArguments(item) THEN [A EXCEPT !.items[n].state = "broken"]
        ELSE Make(whole, "done", n)

\* complete_block.  Invalid function arguments make no event and a provisional
\* error; the input of a tool goes out in one delta.
Complete(A, n) ==
    LET item  == A.items[n]
        whole == [A EXCEPT !.items[n].state = "done"]
    IN  IF BadArguments(item)
        THEN [A EXCEPT !.items[n].state = "broken", !.provisional = TRUE]
        ELSE Make(IF item.kind = "function" \/ (item.kind = "custom" /\ item.said # "nothing")
                  THEN Make(whole, "delta", n) ELSE whole, "done", n)

ActiveIn(A) == {n \in DOMAIN A.items : A.items[n].state = "active"}

\* _flush_active_blocks: in the order of the output slots.
FlushActive(A) == FoldLeft(Complete, A, SetToSortSeq(ActiveIn(A), <))

EndWith(A, how) == [Make(A, how, 0) EXCEPT !.terminal = TRUE]

FinishResponse(A) ==
    LET flushed == FlushActive(A)
    IN  EndWith(flushed, IF flushed.provisional THEN "failed"
                         ELSE IF stopReason = "max_tokens" THEN "incomplete"
                         ELSE "completed")

\* A plausible bug: the response fails with its active blocks unfinished.
FailResponse_Unflushed(A) == EndWith(A, "failed")

\* fail_response and fail_execution.
FailResponse(A) == EndWith(FlushActive(A), "failed")

------------------------------------------------------------------------------
(* The generator.                                                           *)

Yields(A) ==
    /\ items' = A.items /\ provisional' = A.provisional /\ terminal' = A.terminal
    /\ sending' = A.made
    /\ UNCHANGED <<response, left>>

Receive(e) ==
    /\ Waiting /\ ~terminal
    /\ AllowedAfter(source, e) /\ source' = After(source, e)

ItemKinds(kind) == IF kind = "tool_use" THEN {"function", "custom"} ELSE {kind}

BlockStart ==
    /\ Len(items) < MaxItems
    /\ \E i \in 1 .. MaxItems + 1, blockKind \in BlockKinds :
          /\ Receive(BlockEvent("start", i, blockKind))
          /\ \E kind \in ItemKinds(blockKind) :
                LET begun == [Assembler EXCEPT !.items =
                                Append(@, [index |-> i, kind |-> kind,
                                           state |-> "active", said |-> "nothing"])]
                IN  Yields(Make(begun, "added", Len(begun.items)))
    /\ UNCHANGED stopReason

\* Text and reasoning are passed on; the input of a tool is collected.
BlockDelta ==
    /\ \E n \in ActiveIn(Assembler) :
          LET item == items[n]
              kind == IF item.kind \in {"function", "custom"} THEN "tool_use" ELSE item.kind
          IN  /\ Receive(BlockEvent("delta", item.index, kind))
              /\ IF kind = "tool_use"
                 THEN \E said \in {"good", "bad"} :
                         Yields([Assembler EXCEPT !.items[n].said = said])
                 ELSE Yields(Make(Assembler, "delta", n))
    /\ UNCHANGED stopReason

BlockStop ==
    /\ \E n \in ActiveIn(Assembler), kind \in BlockKinds :
          /\ Receive(BlockEvent("stop", items[n].index, kind))
          /\ Yields(Complete(Assembler, n))
    /\ UNCHANGED stopReason

MessageStart ==
    /\ Receive(MessageEvent("message_start"))
    /\ Yields(Assembler) /\ UNCHANGED stopReason

\* The stop reason of the message, or one that says nothing new.
MessageDelta ==
    /\ Receive(MessageEvent("message_delta"))
    /\ stopReason' \in {"end_turn", "max_tokens", stopReason}
    /\ Yields(Assembler)

MessageStop ==
    /\ Receive(MessageEvent("message_stop"))
    /\ Yields(FinishResponse(Assembler)) /\ UNCHANGED stopReason

\* The generator is gone, and its locals with it.
Leaves(how) ==
    /\ left' = how /\ sending' = <<>> /\ source' = Nothing
    /\ items' = <<>> /\ stopReason' = "none" /\ provisional' = FALSE /\ terminal' = FALSE
    /\ UNCHANGED response

\* The iteration ends: finish_if_needed.
InputEnds ==
    /\ Waiting /\ ~terminal
    /\ Yields(FinishResponse(Assembler))
    /\ UNCHANGED <<source, stopReason>>

\* The iteration raises: the failure becomes an event once there was one.
InputFails ==
    /\ Waiting /\ ~terminal
    /\ \/ ~Started /\ Leaves("raised")
       \/ Started /\ Yields(FailResponse(Assembler)) /\ UNCHANGED <<source, stopReason>>

YieldEvent ==
    /\ left = "none" /\ sending # <<>>
    /\ response' = Answer!AnswerAfter(response, Head(sending))
    /\ sending' = Tail(sending)
    /\ UNCHANGED <<source, assemblerVars, left>>

Returns == Waiting /\ terminal /\ Leaves("returned")

\* The consumer closes the generator at a yield, or cancels it.
IsClosed == left = "none" /\ Leaves("closed")

AssemblyNext ==
    \/ BlockStart \/ BlockDelta \/ BlockStop
    \/ MessageStart \/ MessageDelta \/ MessageStop
    \/ InputEnds \/ InputFails \/ YieldEvent \/ Returns \/ IsClosed

AssemblySpec == AssemblyInit /\ [][AssemblyNext]_assemblyVars

------------------------------------------------------------------------------
(* Properties.                                                              *)

\* The values the variables of the assembler take.
AssemblyTypeOK ==
    /\ source \in Streams
    /\ items \in Seq([index : BlockIndexes,
                      kind : {"text", "thinking", "redacted_thinking", "function", "custom"},
                      state : {"active", "done", "broken"},
                      said : {"nothing", "good", "bad"}])
    /\ stopReason \in {"none", "end_turn", "max_tokens"}
    /\ provisional \in BOOLEAN /\ terminal \in BOOLEAN
    /\ sending \in Seq([type : {"created", "added", "delta", "done"} \cup Answer!Terminals,
                        slot : Nat])
    /\ response \in Answer!Answers
    /\ left \in {"none", "returned", "raised", "closed"}

\* What the consumer gets is a Responses stream, whichever block was invalid,
\* wherever the input failed and whatever the list being yielded: one
\* response.created, one terminal event, and nothing unfinished in a response
\* that says it is completed or incomplete.
KeepsAnswer == Answer!AnswerSpec

\* A failed response still finishes what can be replayed: the only items it
\* leaves undone are function calls whose arguments are invalid.
FailureKeepsWholeItems ==
    left = "none" /\ response.phase = "failed" =>
        \A n \in DOMAIN response.done : response.done[n] <=> ~BadArguments(items[n])

\* The answer is well formed, and as complete as its end allows.
AnswersAreWhole == KeepsAnswer /\ [][FailureKeepsWholeItems']_assemblyVars
==============================================================================
