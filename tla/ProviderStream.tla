--------------------------- MODULE ProviderStream ----------------------------
(***************************************************************************)
(* How a provider turns an upstream stream into Anthropic events, and what *)
(* it does when the upstream fails.  Two flavours share the block ledger   *)
(* (core/anthropic/streaming/ledger.py) and the holdback buffer            *)
(* (providers/stream_recovery.py): "chat", the OpenAI chat runner with its *)
(* text parsers, tool call assembler and recovery requests                 *)
(* (providers/openai_chat), and "codex", the Responses adapter             *)
(* (core/openai_responses/provider_stream.py, providers/openai_codex).     *)
(*                                                                         *)
(* Between two suspensions a generator computes events from the ledger,    *)
(* pushes each to the holdback (held) and yields what that returns         *)
(* (emitting) one at a time (stream).  The module shows that what          *)
(* the consumer gets keeps the contract of AnthropicStream whatever was    *)
(* held back, thrown away, retried or repaired.                            *)
(***************************************************************************)
EXTENDS AnthropicEvents, SequencesExt

CONSTANTS ToolIndexes,     \* the indexes upstream numbers its tool calls with
          StreamAttempts,  \* attempts of one retry session
          MaxBlocks,       \* bound: blocks of one ledger
          MaxHeld          \* bound: events held back before the buffer lets them through

ASSUME ProviderStreamAssumption ==
    /\ ToolIndexes \subseteq Nat
    /\ StreamAttempts \in Nat \ {0}
    /\ MaxBlocks \in Nat /\ 1..MaxBlocks \subseteq BlockIndexes
    /\ MaxHeld \in Nat

VARIABLES
    flavour,    \* "chat" or "codex"
    step,       \* where the generator is
    budget,     \* attempts_remaining of the retry session
    reauthed,   \* authentication_recovered
    blocks,     \* the ledger's content blocks, in index order
    tools,      \* the state kept for each upstream tool call
    parser,     \* what the text parsers hold back
    held,       \* events in the holdback buffer
    released,   \* the holdback has let events through
    emitting,   \* events the generator is about to yield
    mended,     \* how a midstream recovery completed the answer
    stream      \* what the consumer has assembled

ledgerVars   == <<blocks, tools, parser>>
holdbackVars == <<held, released, emitting>>
providerVars == <<flavour, step, budget, reauthed, ledgerVars, holdbackVars,
                  mended, stream>>

Endings == {"complete", "failed", "abandoned"}

NoTool == [name |-> "none", pre |-> FALSE, block |-> 0, waiting |-> FALSE,
           done |-> FALSE]

\* A name the client declared; "task" and "alias" buffer their arguments.
KnownNames == {"plain", "task", "alias"}

ProviderInit ==
    /\ flavour \in {"chat", "codex"}
    /\ step = "begin" /\ budget = StreamAttempts /\ reauthed = FALSE
    /\ blocks = <<>> /\ tools = [i \in ToolIndexes |-> NoTool] /\ parser = "clear"
    /\ held = <<>> /\ released = FALSE /\ emitting = <<>>
    /\ mended = "no"
    /\ stream = Nothing

\* Nothing is on its way to the consumer: the generator runs on.
NothingDue == emitting = <<>>

------------------------------------------------------------------------------
(* The ledger: each operation takes the blocks, the tool states and the     *)
(* events produced so far, and returns them changed.                        *)

Ledger == [blocks |-> blocks, tools |-> tools, events |-> <<>>]

Produce(L, e) == [L EXCEPT !.events = Append(@, e)]

StartBlock(L, kind) ==
    [Produce(L, BlockEvent("start", Len(L.blocks) + 1, kind))
        EXCEPT !.blocks = Append(@, [kind |-> kind, open |-> TRUE, args |-> "none"])]

DeltaTo(L, b) == Produce(L, BlockEvent("delta", b, L.blocks[b].kind))

StopBlock(L, b) ==
    [Produce(L, BlockEvent("stop", b, L.blocks[b].kind))
        EXCEPT !.blocks[b].open = FALSE]

OpenOf(L, kinds) ==
    {b \in DOMAIN L.blocks : L.blocks[b].kind \in kinds /\ L.blocks[b].open}

StopOpen(L, kind) ==
    FoldLeft(StopBlock, L, SetToSortSeq(OpenOf(L, {kind}), <))

\* ensure_text_block and ensure_thinking_block, then one delta.
Say(L, kind) ==
    LET other == IF kind = "text" THEN "thinking" ELSE "text"
        quiet == StopOpen(L, other)
        ready == IF OpenOf(quiet, {kind}) = {} THEN StartBlock(quiet, kind) ELSE quiet
    IN  DeltaTo(ready, CHOOSE b \in OpenOf(ready, {kind}) : TRUE)

CloseContent(L) == StopOpen(StopOpen(L, "thinking"), "text")

CloseAll(L) == StopOpen(CloseContent(L), "tool_use")

\* close_unclosed_blocks pops the stack of open blocks.
CloseUnclosed(L) ==
    FoldLeft(StopBlock, L, SetToSortSeq(OpenOf(L, BlockKinds), >))

EndMessage(L) ==
    Produce(Produce(L, MessageEvent("message_delta")), MessageEvent("message_stop"))

Preserved(L) ==
    LET opened == StartBlock(CloseContent(L), "redacted_thinking")
    IN  StopBlock(opened, Len(opened.blocks))

ToolBlocks(bs) == {b \in DOMAIN bs : bs[b].kind = "tool_use"}

AllToolsWhole(bs) == \A b \in ToolBlocks(bs) : bs[b].args = "whole"

\* has_committed_sse_output
HasOutput(bs) == \E b \in DOMAIN bs : bs[b].kind \in DeltaKinds

------------------------------------------------------------------------------
(* Tool calls.  args is what the input of a tool block parses as: nothing   *)
(* yet, "part" when it is no valid input, "whole" when it is.               *)

ArgsTo(L, i, args) ==
    [DeltaTo(L, L.tools[i].block)
        EXCEPT !.blocks[L.tools[i].block].args = args,
               !.tools[i].waiting = FALSE, !.tools[i].done = TRUE]

\* What one more fragment may leave a tool with; "held" keeps it in a buffer.
Fragments(L, i) ==
    LET t == L.tools[i]
    IN  CASE t.name = "task" /\ t.done -> {L}
          [] OTHER ->
                {ArgsTo(L, i, args) :
                    args \in IF L.blocks[t.block].args = "whole" THEN {"part"}
                             ELSE {"part", "whole"}}
                \cup (IF t.name = "plain" THEN {}
                      ELSE {[L EXCEPT !.tools[i].waiting = TRUE]})

\* The block starts when the name is known; what came before goes first.
StartTool(L, i) ==
    IF L.tools[i].block # 0 \/ L.tools[i].name \notin KnownNames THEN {L}
    ELSE LET begun   == StartBlock(L, "tool_use")
             bound   == [begun EXCEPT !.tools[i].block = Len(begun.blocks),
                                      !.tools[i].pre = FALSE]
         IN  IF L.tools[i].pre THEN Fragments(bound, i) ELSE {bound}

WithName(L, i, name) == [L EXCEPT !.tools[i].name = name]

\* A name is held while it is also the prefix of a generated alias.
NamesAfter(name) == IF name = "none" THEN {"none", "held"} \cup KnownNames
                    ELSE IF name = "held" THEN {"held"} \cup KnownNames
                    ELSE {name}

ProcessToolCall(L, i, name, argued) ==
    UNION {IF ~argued THEN {M}
           ELSE IF M.tools[i].block = 0 THEN {[M EXCEPT !.tools[i].pre = TRUE]}
           ELSE Fragments(M, i) : M \in StartTool(WithName(L, i, name), i)}

\* A tool call read from text: started, filled and stopped at once.
Heuristic(L, args) ==
    LET opened == StartBlock(CloseContent(L), "tool_use")
        b      == Len(opened.blocks)
    IN  StopBlock([DeltaTo(opened, b) EXCEPT !.blocks[b].args = args], b)

------------------------------------------------------------------------------
(* The holdback buffer.                                                     *)

\* push of each event: the first one starts the clock; a later one may find
\* the time or the size used up, and lets everything through.
Push(events) ==
    \/ /\ released
       /\ emitting' = events /\ UNCHANGED <<held, released>>
    \/ /\ ~released
       /\ held' = held \o events /\ UNCHANGED <<released, emitting>>
    \/ /\ ~released /\ events # <<>> /\ Len(held \o events) > 1
       /\ emitting' = held \o events /\ held' = <<>> /\ released' = TRUE

Yield ==
    /\ emitting # <<>>
    /\ stream' = After(stream, Head(emitting))
    /\ emitting' = Tail(emitting)
    /\ UNCHANGED <<flavour, step, budget, reauthed, ledgerVars, held,
                   released, mended>>

\* The generator is gone, and its locals with it.
Gone(how) ==
    /\ step' = how /\ budget' = 0 /\ reauthed' = FALSE /\ mended' = "no"
    /\ blocks' = <<>> /\ tools' = [i \in ToolIndexes |-> NoTool] /\ parser' = "clear"
    /\ held' = <<>> /\ emitting' = <<>> /\ released' = FALSE
    /\ UNCHANGED <<flavour, stream>>

\* The consumer closes the generator at a yield or cancels it at an await.
Abandoned ==
    /\ emitting # <<>> \/ step \in {"opening", "reading", "trailing", "recovering"}
    /\ Gone("abandoned")

Finished == step = "finished" /\ NothingDue /\ Gone("complete")
Raised   == step = "raising" /\ NothingDue /\ Gone("failed")

------------------------------------------------------------------------------
(* Opening an attempt.                                                      *)

\* The Codex loop ends without a result when no attempt is left.
BeginStream ==
    /\ step = "begin" /\ NothingDue
    /\ \/ /\ budget > 0 \/ flavour = "chat"
          /\ Push(<<MessageEvent("message_start")>>)
          /\ step' = "opening"
       \/ /\ budget = 0 /\ flavour = "codex"
          /\ step' = "raising" /\ UNCHANGED holdbackVars
    /\ UNCHANGED <<flavour, budget, reauthed, ledgerVars, mended, stream>>

\* The admission layer of the chat runner may spend several attempts.
Spend == budget' \in IF flavour = "codex" THEN {budget - 1} ELSE 0..(budget - 1)

Opens ==
    /\ step = "opening" /\ NothingDue /\ budget > 0
    /\ Spend /\ step' = "reading"
    /\ UNCHANGED <<flavour, reauthed, ledgerVars, holdbackVars, mended, stream>>

\* A new ledger and new parsers; what was held back is thrown away.
Restart ==
    /\ step' = "begin" /\ held' = <<>>
    /\ blocks' = <<>> /\ tools' = [i \in ToolIndexes |-> NoTool] /\ parser' = "clear"

\* discard() and raise: the consumer has seen nothing.
RaiseUnseen == step' = "raising" /\ held' = <<>> /\ UNCHANGED ledgerVars

\* The stream could not be opened.
OpenFails ==
    /\ step = "opening" /\ NothingDue /\ budget > 0
    /\ Spend
    /\ RaiseUnseen \/ (flavour = "codex" /\ budget' > 0 /\ Restart)
    /\ UNCHANGED <<flavour, reauthed, released, emitting, mended,
                   stream>>

\* A first 401: the credentials are renewed and the loop starts again.
Reauthenticate ==
    /\ flavour = "codex" /\ step = "opening" /\ NothingDue /\ budget > 0
    /\ ~reauthed /\ reauthed' = TRUE
    /\ budget' = budget - 1 /\ Restart
    /\ UNCHANGED <<flavour, released, emitting, mended, stream>>

------------------------------------------------------------------------------
(* Reading upstream.                                                        *)

Reading ==
    /\ step = "reading" /\ NothingDue
    /\ Len(held) < MaxHeld
    /\ Len(blocks) < MaxBlocks

\* The ledger L is the new one and its events go to the holdback.
Advance(L) ==
    /\ blocks' = L.blocks /\ tools' = L.tools /\ Push(L.events)
    /\ UNCHANGED <<flavour, budget, reauthed, mended, stream>>

\* A reasoning delta, a <think> part or a reasoning item's text.
ReasoningDelta == Reading /\ Advance(Say(Ledger, "thinking")) /\ UNCHANGED <<step, parser>>

\* An opaque reasoning detail or encrypted content.
ReasoningPreserved == Reading /\ Advance(Preserved(Ledger)) /\ UNCHANGED <<step, parser>>

\* Visible text.  A function tag envelope holds all text back; a heuristic
\* call is collected until it ends; a call may be read from the text.
TextDelta ==
    /\ Reading
    /\ \/ parser # "candidate" /\ Advance(Say(Ledger, "text"))
       \/ Advance(Ledger)
       \/ /\ flavour = "chat" /\ parser # "candidate"
          /\ \E args \in {"part", "whole"} : Advance(Heuristic(Ledger, args))
    /\ parser' \in IF flavour = "codex" THEN {"clear"}
                   ELSE IF parser = "candidate" THEN {"candidate"}
                   ELSE {"clear", "candidate", "call"}
    /\ UNCHANGED step

\* A native tool call delta: a held envelope is released as text first.
NativeToolCall ==
    /\ Reading /\ flavour = "chat"
    /\ LET shown == IF parser = "candidate" THEN Say(Ledger, "text") ELSE Ledger
       IN  \E i \in ToolIndexes : \E name \in NamesAfter(tools[i].name),
              argued \in BOOLEAN :
              \E L \in ProcessToolCall(CloseContent(shown), i, name, argued) :
                 Advance(L)
    /\ parser' = IF parser = "candidate" THEN "clear" ELSE parser
    /\ UNCHANGED step

\* Function call arguments of a Responses item that is not done.
ItemArguments ==
    /\ Reading /\ flavour = "codex"
    /\ \E i \in ToolIndexes : \E argued \in BOOLEAN :
          /\ tools[i].block # 0 => blocks[tools[i].block].open
          /\ \E L \in ProcessToolCall(CloseContent(Ledger), i, "plain", argued) :
                Advance(L)
    /\ UNCHANGED <<step, parser>>

\* The item is done: its arguments are sent if no delta brought any, and its
\* block stops.
ItemDone ==
    /\ Reading /\ flavour = "codex"
    /\ \E i \in ToolIndexes :
          /\ tools[i].block # 0 => blocks[tools[i].block].open
          /\ \E argued \in {a \in BOOLEAN : a => ~tools[i].done} :
             \E L \in ProcessToolCall(CloseContent(Ledger), i, "plain", argued) :
                Advance(StopBlock(L, L.tools[i].block))
    /\ UNCHANGED <<step, parser>>

------------------------------------------------------------------------------
(* The end of a stream that did not fail.                                   *)

\* flush_tool_name_buffers: a held name turns out to be a declared one.
ResolveNames(L) ==
    LET pending == {i \in ToolIndexes : L.tools[i].name = "held"}
    IN  FoldLeft(LAMBDA Ls, i : UNION {StartTool(WithName(M, i, name), i) :
                                          M \in Ls, name \in KnownNames},
                 {L}, SetToSortSeq(pending, <))

\* A plausible bug: what an aliased tool still buffers is not sent.
FlushArguments_TaskOnly(L) ==
    LET pending == {i \in ToolIndexes : L.tools[i].waiting /\ L.tools[i].name = "task"}
    IN  FoldLeft(LAMBDA Ls, i : UNION {{ArgsTo(M, i, args) : args \in {"part", "whole"}} :
                                          M \in Ls},
                 {L}, SetToSortSeq(pending, <))

\* The malformed rest of an aliased call goes out as it is; a Task call whose
\* buffer never parsed gets an empty object.
FlushArguments(L) ==
    LET Results(i) == IF L.tools[i].name = "task" THEN {"part", "whole"} ELSE {"part"}
        pending == {i \in ToolIndexes : L.tools[i].waiting}
    IN  FoldLeft(LAMBDA Ls, i : UNION {{ArgsTo(M, i, args) : args \in Results(i)} :
                                          M \in Ls},
                 {L}, SetToSortSeq(pending, <))

\* What the parsers held back becomes text or tool calls.
FlushParsers(L) ==
    CASE parser = "candidate" -> {Say(L, "text"), Heuristic(L, "whole")}
      [] parser = "call"      -> {Heuristic(L, args) : args \in {"part", "whole"}}
      [] OTHER                -> {L}

\* A blank text makes an answer without text or tools acceptable; whether
\* the text so far is blank is not modelled when there is some.
Placeholder(L) ==
    LET kinds == {L.blocks[b].kind : b \in DOMAIN L.blocks}
    IN  IF "tool_use" \in kinds THEN {L}
        ELSE IF "text" \notin kinds THEN {Say(L, "text")}
        ELSE IF "thinking" \in kinds THEN {L, Say(L, "text")}
        ELSE {L}

ChatFinishes ==
    /\ step = "reading" /\ NothingDue /\ flavour = "chat"
    /\ \E L1 \in FlushParsers(Ledger) : \E L2 \in ResolveNames(L1) :
       \E L3 \in Placeholder(L2) : \E L4 \in FlushArguments(L3) :
          Advance(EndMessage(CloseAll(L4)))
    /\ step' = "flushing" /\ parser' = "clear"

\* response.completed or response.incomplete; reading goes on.
CodexFinishes ==
    /\ step = "reading" /\ NothingDue /\ flavour = "codex"
    /\ LET closed == CloseAll(Ledger)
       IN  Advance(EndMessage(IF closed.blocks # <<>> THEN closed
                              ELSE StopOpen(Say(closed, "text"), "text")))
    /\ step' = "trailing" /\ UNCHANGED parser

Trailed ==
    /\ step = "trailing" /\ NothingDue
    /\ step' = "flushing"
    /\ UNCHANGED <<flavour, budget, reauthed, ledgerVars, holdbackVars, mended,
                   stream>>

\* flush(): whatever is still held goes out.
Flush ==
    /\ step = "flushing" /\ NothingDue
    /\ step' = "finished" /\ released' = TRUE
    /\ emitting' = held /\ held' = <<>>
    /\ UNCHANGED <<flavour, budget, reauthed, ledgerVars, mended, stream>>

------------------------------------------------------------------------------
(* Failure of an opened stream: an error, a missing finish_reason, a name   *)
(* that is still incomplete.                                                *)

Salvageable == ToolBlocks(blocks) # {} /\ AllToolsWhole(blocks)

\* A plausible bug: a committed stream may be retried too.
EarlyRetry_Committed ==
    /\ flavour = "chat" /\ step = "reading" /\ NothingDue
    /\ budget > 0 /\ ~Salvageable
    /\ ~(HasOutput(blocks) /\ budget = 1)
    /\ Restart
    /\ UNCHANGED <<flavour, budget, reauthed, released, emitting, mended,
                   stream>>

\* A retryable failure before anything was let through: the attempt is
\* forgotten, unless its tools are complete or the last attempt is to mend it.
EarlyRetry ==
    /\ flavour = "chat" /\ step = "reading" /\ NothingDue
    /\ ~released /\ budget > 0 /\ ~Salvageable
    /\ ~(HasOutput(blocks) /\ budget = 1)
    /\ Restart
    /\ UNCHANGED <<flavour, budget, reauthed, released, emitting, mended,
                   stream>>

CodexRetry ==
    /\ flavour = "codex" /\ step \in {"reading", "trailing"} /\ NothingDue
    /\ ~released /\ budget > 0
    /\ Restart
    /\ UNCHANGED <<flavour, budget, reauthed, released, emitting, mended,
                   stream>>

\* A retryable failure after output: the rest is asked for.
Recover ==
    /\ flavour = "chat" /\ step = "reading" /\ NothingDue
    /\ HasOutput(blocks)
    /\ released \/ Salvageable \/ budget = 1
    /\ budget > 0 \/ Salvageable
    /\ step' = "recovering"
    /\ UNCHANGED <<flavour, budget, reauthed, ledgerVars, holdbackVars, mended,
                   stream>>

\* The error is final.  Events that were let through, and complete tools, are
\* kept: their blocks are closed before the failure is raised.
Surface ==
    IF released \/ (held # <<>> /\ Salvageable)
    THEN LET closed == CloseUnclosed(Ledger)
         IN  /\ blocks' = closed.blocks /\ emitting' = held \o closed.events
             /\ held' = <<>> /\ released' = TRUE /\ step' = "raising"
             /\ UNCHANGED <<tools, parser>>
    ELSE RaiseUnseen /\ UNCHANGED <<released, emitting>>

\* A plausible bug: a failed committed stream is raised with its blocks left open.
StreamFailsForGood_Unclosed ==
    /\ step \in {"reading", "trailing", "recovering"} /\ NothingDue
    /\ IF released THEN step' = "raising" /\ UNCHANGED <<ledgerVars, held>>
       ELSE RaiseUnseen
    /\ UNCHANGED <<flavour, budget, reauthed, released, emitting, mended,
                   stream>>

\* The failure is not retryable, there is no attempt left, or the recovery
\* came to nothing.
StreamFailsForGood ==
    /\ step \in {"reading", "trailing", "recovering"} /\ NothingDue
    /\ Surface
    /\ UNCHANGED <<flavour, budget, reauthed, mended, stream>>

------------------------------------------------------------------------------
(* Midstream recovery.  Its events bypass the holdback.                     *)

Mended(L, how) ==
    /\ blocks' = L.blocks /\ tools' = L.tools
    /\ emitting' = held \o EndMessage(CloseAll(L)).events
    /\ held' = <<>> /\ released' = TRUE
    /\ mended' = how /\ step' = "finished"
    /\ UNCHANGED <<flavour, reauthed, parser, stream>>

\* Tools that the stream numbered and whose input is not valid yet.
Broken == {i \in ToolIndexes :
              tools[i].block # 0 /\ blocks[tools[i].block].args # "whole"}

\* _repair_tool_args: each broken tool costs an attempt at least, and the
\* answer is accepted when every tool block is complete.
RepairTools ==
    /\ step = "recovering" /\ NothingDue
    /\ ToolBlocks(blocks) # {}
    /\ \E spent \in Cardinality(Broken)..budget :
          /\ Broken = {} => spent = 0
          /\ budget' = budget - spent
    /\ LET L == FoldLeft(LAMBDA M, i : ArgsTo(M, i, "whole"), Ledger,
                         SetToSortSeq(Broken, <))
       IN  AllToolsWhole(L.blocks) /\ Mended(L, "repaired")

\* The calls of a continuation are whole, but go through the state the first
\* stream left: a fragment kept from before their name was known comes first.
ContinueWithTool(L) ==
    UNION {ProcessToolCall(CloseContent(L), i, name, TRUE) :
              i \in {j \in ToolIndexes : tools[j].block = 0}, name \in {"plain", "task"}}

\* A continuation of the text, of the thinking, or with tool calls.
ContinueText ==
    /\ step = "recovering" /\ NothingDue
    /\ ToolBlocks(blocks) = {} /\ budget > 0
    /\ \E left \in 0..(budget - 1) : budget' = left
    /\ \E thought, said, called \in BOOLEAN :
          /\ thought \/ said \/ called
          /\ LET L1 == IF thought THEN Say(Ledger, "thinking") ELSE Ledger
                 L2 == IF said THEN Say(L1, "text") ELSE L1
             IN  \E L \in IF called THEN ContinueWithTool(L2) ELSE {L2} :
                    Mended(L, "continued")

------------------------------------------------------------------------------

UpstreamStep ==
    \/ ReasoningDelta \/ ReasoningPreserved \/ TextDelta \/ NativeToolCall
    \/ ItemArguments \/ ItemDone \/ ChatFinishes \/ CodexFinishes \/ Trailed

FailureStep ==
    \/ EarlyRetry \/ CodexRetry \/ Recover \/ StreamFailsForGood
    \/ RepairTools \/ ContinueText

ProviderNext ==
    \/ Yield \/ Abandoned \/ Finished \/ Raised
    \/ BeginStream \/ Opens \/ OpenFails \/ Reauthenticate
    \/ UpstreamStep \/ Flush \/ FailureStep

ProviderSpec == ProviderInit /\ [][ProviderNext]_providerVars

------------------------------------------------------------------------------
(* Properties.                                                              *)

\* The values the variables of a provider stream take.
ProviderTypeOK ==
    /\ flavour \in {"chat", "codex"}
    /\ step \in {"begin", "opening", "reading", "trailing", "flushing",
                  "recovering", "finished", "raising"} \cup Endings
    /\ budget \in 0..StreamAttempts /\ reauthed \in BOOLEAN /\ released \in BOOLEAN
    /\ blocks \in Seq([kind : BlockKinds, open : BOOLEAN,
                       args : {"none", "part", "whole"}])
    /\ tools \in [ToolIndexes -> [name : {"none", "held"} \cup KnownNames,
                                  pre : BOOLEAN, block : 0..Len(blocks),
                                  waiting : BOOLEAN, done : BOOLEAN]]
    /\ parser \in {"clear", "candidate", "call"}
    /\ mended \in {"no", "repaired", "continued"}
    /\ stream \in Streams
    /\ \A s \in {held, emitting} :
          s \in Seq(MessageEvents \cup BlockEvents)

Contract == INSTANCE AnthropicStream
            WITH ending <- IF step \in Endings THEN step ELSE "none"

\* An event on its way to the consumer may follow what it got so far, also a
\* delta, of which the assembled stream shows nothing.
EventsFit == emitting # <<>> => AllowedAfter(stream, Head(emitting))

\* What the consumer gets is a stream of AnthropicStream, whatever was held
\* back, retried, repaired or closed on the way: no second message_start
\* after a retry, no block left open by a failure, nothing reused.
KeepsContract == Contract!StreamSpec

\* A completed answer holds no argument back: the fragments of every started
\* tool have been sent (the flush_* calls of run), and after a repair every
\* tool input is valid.  A text continuation is excepted, see ContinueWithTool.
ToolCallsAreUsable ==
    step = "finished" /\ mended # "continued" =>
        /\ \A i \in ToolIndexes :
              LET t == tools[i]
              IN  t.block # 0 => ~t.pre /\ (t.waiting => blocks[t.block].args = "whole")
        /\ mended = "repaired" => AllToolsWhole(blocks)
==============================================================================
