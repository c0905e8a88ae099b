----------------------------- MODULE ChatHistory ------------------------------
(***************************************************************************)
(* core/anthropic/conversion.py: the history of an Anthropic request is    *)
(* turned into OpenAI chat messages.  A chat API wants the result of every *)
(* tool call right behind the call; an Anthropic history may bring results *)
(* in later messages, mixed with text, and text behind the calls of an     *)
(* assistant message.  The ledger holds back what comes after a call until *)
(* all its results are there.                                              *)
(*                                                                         *)
(* A visible piece of text is its number in the history, a tool call is    *)
(* its id; images count as text, thinking that the reasoning mode does not *)
(* replay as text is a hidden block.                                       *)
(***************************************************************************)
EXTENDS Naturals, SequencesExt

CONSTANTS MaxCalls,    \* tool calls of a history
          MaxTexts,    \* visible texts of a history
          MaxSpoken    \* its blocks, of at most MaxCalls + 1 in a message

ASSUME ChatHistoryAssumption == {MaxCalls, MaxTexts, MaxSpoken} \subseteq Nat

VARIABLES
    ledger,     \* _OpenAIChatHistoryLedger
    transcript, \* what convert_messages returned
    converted,  \* whether it has returned or raised
    spoken      \* history: blocks, visible texts, calls and answered calls so far

historyVars == << ledger, transcript, converted, spoken >>

HistoryInit ==
    /\ ledger = [output |-> <<>>, segments |-> <<>>, results |-> {}]
    /\ transcript = <<>> /\ converted = "no"
    /\ spoken = [blocks |-> 0, texts |-> 0, calls |-> 0, answered |-> {}]

Says(role, texts) == [role |-> role, texts |-> texts, calls |-> <<>>]
Result(id)        == [role |-> "tool", texts |-> <<>>, calls |-> <<id>>]

\* A plain segment is one that requires no results.
Plain(messages) == [messages |-> messages, calls |-> <<>>, deferred |-> <<>>, begun |-> FALSE]

------------------------------------------------------------------------------
(* The ledger.                                                              *)

\* A plausible bug: what is deferred goes out before the results.
Emit_DeferredFirst(L, segment) ==
    LET shown == IF segment.begun THEN L.output ELSE L.output \o segment.messages
    IN  IF L.segments # <<>> THEN [L EXCEPT !.segments = Append(@, segment)]
        ELSE IF Range(segment.calls) \subseteq L.results
        THEN [L EXCEPT !.output = shown \o segment.deferred \o
                                  [k \in DOMAIN segment.calls |-> Result(segment.calls[k])],
                       !.results = @ \ Range(segment.calls)]
        ELSE [L EXCEPT !.output = shown, !.segments = <<[segment EXCEPT !.begun = TRUE]>>]

\* The assistant's message goes out once, its results and what it deferred when
\* all of them are known; what follows a segment that waits, waits too.
Emit(L, segment) ==
    LET shown == IF segment.begun THEN L.output ELSE L.output \o segment.messages
    IN  IF L.segments # <<>> THEN [L EXCEPT !.segments = Append(@, segment)]
        ELSE IF Range(segment.calls) \subseteq L.results
        THEN [L EXCEPT !.output = shown \o
                                  [k \in DOMAIN segment.calls |-> Result(segment.calls[k])]
                                  \o segment.deferred,
                       !.results = @ \ Range(segment.calls)]
        ELSE [L EXCEPT !.output = shown, !.segments = <<[segment EXCEPT !.begun = TRUE]>>]

\* _drain_ready_segments.
Drain(L) == FoldLeft(Emit, [L EXCEPT !.segments = <<>>], L.segments)

Add(L, segment) == Drain([L EXCEPT !.segments = Append(@, segment)])

Pending(L) == UNION { Range(L.segments[k].calls) : k \in DOMAIN L.segments }

\* _record_tool_result: a result nobody waits for is a message of its own.
RecordResult(L, id) ==
    IF id \in Pending(L) THEN [L EXCEPT !.results = @ \cup {id}]
    ELSE Add(L, Plain(<<Result(id)>>))

------------------------------------------------------------------------------
(* Messages.                                                                *)

Text   == << "text", 0 >>
Hidden == << "hidden", 0 >>
Call   == << "call", 0 >>
ResultBlocks == { << "result", id >> : id \in 1..MaxCalls }

\* The numbers of the visible texts among blocks, the first of them n + 1.
Numbers(blocks, n) ==
    [k \in 1..Len(SelectSeq(blocks, LAMBDA b : b = Text)) |-> n + k]

Blocks(kinds) == UNION { [1..n -> kinds] : n \in 1..MaxCalls + 1 }

Count(blocks, kind) == Len(SelectSeq(blocks, LAMBDA b : b = kind))

Speaks(blocks, calls, answered) ==
    LET said == [blocks |-> spoken.blocks + Len(blocks),
                 texts |-> spoken.texts + Count(blocks, Text),
                 calls |-> spoken.calls + calls, answered |-> spoken.answered \cup answered]
    IN  /\ converted = "no"
        /\ said.blocks <= MaxSpoken /\ said.texts <= MaxTexts /\ said.calls <= MaxCalls
        /\ spoken' = said

\* add_user_blocks: text goes out as one message up to the next result.
UserBlocks(L, blocks) ==
    LET Flush(M) == IF M.texts = <<>> THEN M
                    ELSE [ledger |-> Add(M.ledger, Plain(<<Says("user", M.texts)>>)),
                          texts |-> <<>>, next |-> M.next]
        Take(M, b) ==
            IF b = Text THEN [M EXCEPT !.texts = Append(@, M.next), !.next = @ + 1]
            ELSE [Flush(M) EXCEPT !.ledger = RecordResult(@, b[2])]
        start == [ledger |-> L, texts |-> <<>>, next |-> spoken.texts + 1]
    IN  Drain(Flush(FoldLeft(Take, start, blocks)).ledger)

\* A user message, or an inline system message; a result names any call.
UserMessage ==
    \E blocks \in Blocks({Text} \cup ResultBlocks) :
        /\ Speaks(blocks, 0, {b[2] : b \in Range(blocks)} \cap 1..spoken.calls)
        /\ ledger' = UserBlocks(ledger, blocks)
        /\ UNCHANGED << transcript, converted >>

\* _convert_assistant_message_with_split: blocks before the first call go with
\* the calls, others are deferred.  Without a call the message is plain.
AssistantSegment(blocks) ==
    LET first  == IF Call \in Range(blocks) THEN SelectInSeq(blocks, LAMBDA b : b = Call)
                  ELSE Len(blocks) + 1
        before == SubSeq(blocks, 1, first - 1)
        after  == SelectSeq(SubSeq(blocks, first, Len(blocks)), LAMBDA b : b # Call)
        calls  == [k \in 1..Count(blocks, Call) |-> spoken.calls + k]
        spoke  == [Says("assistant", Numbers(before, spoken.texts)) EXCEPT !.calls = calls]
        later  == Says("assistant", Numbers(after, spoken.texts + Count(before, Text)))
    IN  [messages |-> <<spoke>>, calls |-> calls, begun |-> FALSE,
         deferred |-> IF after = <<>> THEN <<>> ELSE <<later>>]

AssistantMessage ==
    \E blocks \in Blocks({Text, Hidden, Call}) :
        /\ Speaks(blocks, Count(blocks, Call), {})
        /\ ledger' = Add(ledger, AssistantSegment(blocks))
        /\ UNCHANGED << transcript, converted >>

------------------------------------------------------------------------------
(* The end: finish, and the two passes over its messages.                   *)

\* A plausible bug: a tool turn is not closed before the user speaks.
CloseToolTurns_Open(messages) == messages

\* _close_openai_tool_result_turns puts an assistant message before a user's.
CloseToolTurns(messages) ==
    FoldLeft(LAMBDA made, m :
                 IF m.role = "user" /\ made # <<>> /\ Last(made).role = "tool"
                 THEN made \o <<Says("assistant", <<>>), m>> ELSE Append(made, m),
             <<>>, messages)

\* _coalesce_openai_user_messages joins adjacent user messages.
CoalesceUsers(messages) ==
    FoldLeft(LAMBDA made, m :
                 IF m.role = "user" /\ made # <<>> /\ Last(made).role = "user"
                 THEN Append(Front(made), [m EXCEPT !.texts = Last(made).texts \o @])
                 ELSE Append(made, m),
             <<>>, messages)

\* A result is missing: OpenAIConversionError.  (Otherwise every segment has
\* been drained, so the last loop of finish has nothing to do.)
Convert ==
    /\ converted = "no" /\ spoken.blocks > 0
    /\ IF Pending(ledger) \subseteq ledger.results
       THEN /\ transcript' = CoalesceUsers(CloseToolTurns(ledger.output))
            /\ converted' = "yes"
       ELSE converted' = "refused" /\ UNCHANGED transcript
    /\ UNCHANGED << ledger, spoken >>

HistoryNext == UserMessage \/ AssistantMessage \/ Convert

HistorySpec == HistoryInit /\ [][HistoryNext]_historyVars

------------------------------------------------------------------------------
(* Properties.                                                              *)

Messages == [role : {"user", "assistant", "tool"}, texts : Seq(1..MaxTexts),
             calls : Seq(1..MaxCalls)]

\* The values the variables of a conversion take.
HistoryTypeOK ==
    /\ ledger.output \in Seq(Messages) /\ transcript \in Seq(Messages)
    /\ ledger.results \subseteq Pending(ledger)
    /\ converted \in {"no", "yes", "refused"}
    /\ spoken.answered \subseteq 1..spoken.calls

Before(k) == IF k = 1 THEN "none" ELSE transcript[k - 1].role

\* The results of a message's calls stand right behind it, in their order.
CallsAreAnswered ==
    \A k \in DOMAIN transcript :
        LET m == transcript[k] IN
        m.role = "assistant" => \A j \in DOMAIN m.calls :
            k + j \in DOMAIN transcript /\ transcript[k + j] = Result(m.calls[j])

\* Whatever the order of results and texts: no user message follows a user's or
\* a tool's, and every visible text is there once, in its order.
TextsAreKept ==
    /\ \A k \in DOMAIN transcript : transcript[k].role = "user" => Before(k) \notin {"user", "tool"}
    /\ FlattenSeq([k \in DOMAIN transcript |-> transcript[k].texts])
         = [n \in 1..spoken.texts |-> n]

\* A history is refused exactly when a call has no later result; otherwise the
\* transcript is one a chat API takes, with nothing lost (conversion.py:295-425).
HistoryIsReplayable ==
    /\ converted = "refused" => spoken.answered # 1..spoken.calls
    /\ converted = "yes" => /\ spoken.answered = 1..spoken.calls
                            /\ CallsAreAnswered /\ TextsAreKept
==============================================================================
