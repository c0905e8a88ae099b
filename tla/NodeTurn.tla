------------------------------ MODULE NodeTurn ------------------------------
(***************************************************************************)
(* One turn as its user sees it: the node runner (messaging/node_runner.py *)
(* and node_event_pipeline.py) reads the events of the CLI, keeps the      *)
(* transcript (messaging/transcript), edits the status message at most     *)
(* once a second unless forced (messaging/ui_updates.py) and settles the   *)
(* claim of its node.                                                      *)
(*                                                                         *)
(* The tree behind the claim is reduced to what one turn meets: a claim in *)
(* progress that a cancellation may close to further writes.               *)
(***************************************************************************)
EXTENDS Integers, FiniteSets, Sequences, SequencesExt, FiniteSetsExt, Functions

CONSTANTS Streamed,  \* the tools a turn may call in a streamed block, as records
          Given,     \* [id, name], and those it may call in a whole one
          ResultIds, \* the ids its tool results may carry
          SameId,    \* the pairs {id, id'} of which one is a prefix of the other
          TaskLike,  \* the ids that contain the word "task"
          MaxHeard,  \* bound: events the CLI sends
          MaxTold,   \* bound: events after which a turn may still end
          Limits     \* the longest messages of the platforms

ASSUME TurnBounds == {MaxHeard, MaxTold} \subseteq Nat /\ Limits \subseteq Nat

VARIABLES
    turn,     \* where the runner is, and its local variables
    claim,    \* the node's claim: its state, and the cancellation that closed it
    heard,    \* the parsed events of the CLI, in order
    segments, \* TranscriptBuffer._segments
    open,     \* by kind: the place of the open segment with index 0, 0 for none
    stack,    \* SubagentState: the ids and segments of the Tasks taken as active
    recent,   \* whether the last update of the status message is under a second old
    message   \* the status message: its status line, whether it shows all that was heard

turnVars == << turn, claim, heard, segments, open, stack, recent, message >>

transcript == << segments, open, stack >>

NoId  == ""
Whole == -1 \* the index of a block that was not streamed

(***************************************************************************)
(* Events, as parse_cli_event reports them.                                *)
(***************************************************************************)

CliEvent(type, kind, index, id, name) ==
    [type |-> type, kind |-> kind, index |-> index, id |-> id, name |-> name]

Prose == {"text", "thinking"}

BlockEvents ==
    { CliEvent("chunk", k, 0, NoId, "") : k \in Prose } \cup { CliEvent("chunk", "text", Whole, NoId, "") }
    \cup { CliEvent("start", k, 0, NoId, "") : k \in Prose }
    \cup { CliEvent("start", "tool", 0, u.id, u.name) : u \in Streamed }
    \cup { CliEvent("use", "tool", Whole, u.id, u.name) : u \in Given }
    \cup { CliEvent("stop", "block", 0, NoId, "") }
    \cup { CliEvent("result", "result", Whole, i, "") : i \in ResultIds }

Error == CliEvent("error", "error", Whole, NoId, "")

IsTask(e) == e.kind = "tool" /\ e.name = "Task"

(***************************************************************************)
(* The transcript.                                                         *)
(***************************************************************************)

\* A segment keeps the positions in `heard` of what it displays, that of a
\* Task those of the tool calls made inside it.
Segment(kind, parts) == [kind |-> kind, parts |-> parts]

\* _ids_roughly_match
Same(i, j) == i # NoId /\ j # NoId /\ (i = j \/ {i, j} \in SameId)

\* The name recorded for an id, in the events before position n.
NameOf(id, n) ==
    LET calls == { k \in 1 .. n - 1 : heard[k].kind = "tool" /\ heard[k].id = id }
    IN IF id = NoId \/ calls = {} THEN "unknown" ELSE heard[Max(calls)].name

\* A plausible bug: only the Task on the top of the stack is compared.
Depth_TopOnly(id, name) ==
    LET top == Len(stack) IN IF top > 0 /\ Same(stack[top].id, id) THEN top - 1 ELSE top

\* close_for_tool_result: how many Tasks stay active after the result of id.  A
\* Task without an id is closed by a result that looks like one of a Task.
Depth(id, name) ==
    LET matching == { d \in DOMAIN stack : Same(stack[d].id, id) }
        top      == Len(stack)
        untold   == top > 0 /\ stack[top].id = NoId
                    /\ (id = NoId \/ (id \in TaskLike /\ name \in {"unknown", "Task"}))
    IN  IF matching # {} THEN Max(matching) - 1
        ELSE IF untold THEN top - 1 ELSE top

\* _close_block: the first open segment of the index, and that one only.
Closed(o) ==
    IF o.tool # 0 THEN [o EXCEPT !.tool = 0]
    ELSE IF o.thinking # 0 THEN [o EXCEPT !.thinking = 0]
    ELSE [o EXCEPT !.text = 0]

\* A plausible bug: prose is dropped until every tool has answered.
Suppressed_AnyTool(e) == e.kind \in Prose /\ (stack # << >> \/ open.tool # 0)

Suppressed(e) == e.kind \in Prose /\ stack # << >>

Streams(e) == e.index # Whole

StartProse(e) ==
    /\ e.type = "start" /\ e.kind \in Prose /\ ~Suppressed(e)
    /\ segments' = Append(segments, Segment(e.kind, << >>))
    /\ open' = [Closed(open) EXCEPT ![e.kind] = Len(segments')]
    /\ UNCHANGED stack

\* A delta goes on in the open segment of its kind, or opens one.
AppendProse(e, n) ==
    /\ e.type = "chunk" /\ ~Suppressed(e)
    /\ LET at == IF Streams(e) THEN open[e.kind] ELSE 0 IN
       /\ segments' = IF at # 0 THEN [segments EXCEPT ![at].parts = Append(@, n)]
                      ELSE Append(segments, Segment(e.kind, << n >>))
       /\ open' = IF at = 0 /\ Streams(e) THEN [open EXCEPT ![e.kind] = Len(segments')]
                  ELSE open
    /\ UNCHANGED stack

\* A plausible bug: the Task's segment is looked for after itself.
StartTask_Next(e) ==
    /\ IsTask(e)
    /\ segments' = Append(segments, Segment("subagent", << >>))
    /\ stack' = Append(stack, [id |-> e.id, segment |-> Len(segments') + 1])
    /\ open' = IF Streams(e) THEN Closed(open) ELSE open

StartTask(e) ==
    /\ IsTask(e)
    /\ segments' = Append(segments, Segment("subagent", << >>))
    /\ stack' = Append(stack, [id |-> e.id, segment |-> Len(segments')])
    /\ open' = IF Streams(e) THEN Closed(open) ELSE open

\* current_segment
CallHolder == Last(stack).segment

\* Inside a Task a tool call is counted in the segment of the Task.
CallTool(e, n) ==
    /\ e.kind = "tool" /\ ~IsTask(e)
    /\ segments' = IF stack # << >>
                   THEN [segments EXCEPT ![CallHolder].parts = Append(@, n)]
                   ELSE Append(segments, Segment("tool", << n >>))
    /\ open' = IF Streams(e) THEN [Closed(open) EXCEPT !.tool = n] ELSE open
    /\ UNCHANGED stack

\* The results themselves are hidden in the messaging transcript.
TakeResult(e, n) ==
    /\ e.type = "result"
    /\ stack' = SubSeq(stack, 1, Depth(e.id, NameOf(e.id, n)))
    /\ UNCHANGED << segments, open >>

\* TranscriptBuffer.apply for the event e at position n of `heard`.
Apply(e, n) ==
    \/ Suppressed(e) /\ UNCHANGED transcript
    \/ StartProse(e) \/ AppendProse(e, n) \/ StartTask(e) \/ CallTool(e, n) \/ TakeResult(e, n)
    \/ /\ e.type = "stop" /\ open' = Closed(open)
       /\ UNCHANGED << segments, stack >>
    \/ /\ e.kind = "error" /\ segments' = Append(segments, Segment("error", << n >>))
       /\ UNCHANGED << open, stack >>

(***************************************************************************)
(* Rendering: render_segments.                                             *)
(***************************************************************************)

\* What a segment is long, by what it displays; an empty text is not rendered.
Length(s) ==
    CASE s.kind = "text"     -> 30 * Len(s.parts)
      [] s.kind = "thinking" -> 20 + 12 * Len(s.parts)
      [] s.kind = "subagent" -> IF s.parts = << >> THEN 40 ELSE 60
      [] OTHER               -> 20

Marker     == 16 \* "... (truncated)" and its line break
StatusLine == 20 \* a status; two line breaks come before it

Rendered == { i \in DOMAIN segments : Length(segments[i]) > 0 }

\* The sum of g over 1 .. n.
Total(n, g) ==
    LET sum[k \in 0 .. n] == IF k = 0 THEN 0 ELSE sum[k - 1] + g[k]
    IN sum[n]

\* The parts of the i-th segment and those after it, joined by line breaks.
Joined(i) ==
    LET lines == Total(Len(segments), [k \in DOMAIN segments |->
                     IF k >= i /\ k \in Rendered THEN Length(segments[k]) + 1 ELSE 0])
    IN IF lines = 0 THEN 0 ELSE lines - 1

\* A plausible bug: the status line is not counted.
Fits_Body(i, marked, limit) == Joined(i) + marked <= limit

Fits(i, marked, limit) == Joined(i) + marked + 2 + StatusLine <= limit

\* The display: the first segment shown, how much of the last one when none fits
\* (-1: all), and the length.  What is left is a marker, or the status alone.
Display(limit) ==
    LET fit  == { i \in Rendered : Fits(i, Marker, limit) }
        room == limit - Marker - 2 - StatusLine
        Shown(first, tail, length) == [first |-> first, tail |-> tail, length |-> length]
    IN  IF Fits(1, 0, limit) THEN Shown(1, -1, Joined(1) + 2 + StatusLine)
        ELSE IF fit # {} THEN Shown(Min(fit), -1, Joined(Min(fit)) + Marker + 2 + StatusLine)
        ELSE IF room > 20 THEN Shown(Max(Rendered), room, limit)
        ELSE Shown(Len(segments) + 1, 0, IF Marker + StatusLine <= limit THEN Marker + StatusLine ELSE StatusLine)

(***************************************************************************)
(* The runner: MessagingNodeRunner._process_node_impl.  A cancellation can *)
(* reach it where it waits: for a session ("starting"), for the CLI        *)
(* ("reading"), for the lock of the trees ("settling") and while the       *)
(* session is removed ("removing").                                        *)
(***************************************************************************)

TurnInit ==
    /\ turn = [at |-> "starting", status |-> "none", failed |-> FALSE,
               result |-> "none", next |-> "none", guarded |-> TRUE]
    /\ claim = [state |-> "in_progress", cancel |-> "none"]
    /\ heard = << >>
    /\ segments = << >>
    /\ open = [tool |-> 0, thinking |-> 0, text |-> 0]
    /\ stack = << >>
    /\ recent = FALSE
    /\ message = [status |-> "launching", all |-> TRUE]

\* A plausible bug: the end of a turn is throttled like any update.
Update_Throttled(status, forced) ==
    IF recent THEN UNCHANGED recent /\ message' = [message EXCEPT !.all = heard' = heard]
    ELSE recent' = TRUE /\ message' = [status |-> status, all |-> TRUE]

\* ThrottledTranscriptEditor.update
Update(status, forced) ==
    IF recent /\ ~forced THEN UNCHANGED recent /\ message' = [message EXCEPT !.all = FALSE]
    ELSE recent' = TRUE /\ message' = [status |-> status, all |-> TRUE]

\* Bound: a turn that was told much goes on; only its transcript is watched.
Ending == Len(heard) <= MaxTold

Elapse ==
    /\ recent /\ Len(heard) < MaxTold /\ turn.at # "done" /\ recent' = FALSE
    /\ UNCHANGED << turn, claim, heard, transcript, message >>

\* get_status_for_event
StatusOf(e) ==
    CASE e.kind = "thinking" -> "thinking"
      [] e.kind = "text"     -> "working"
      [] IsTask(e)           -> "subagent"
      [] OTHER               -> "tools"

GetSession ==
    /\ turn.at = "starting" /\ turn' = [turn EXCEPT !.at = "reading"]
    /\ UNCHANGED << claim, heard, transcript, recent, message >>

Reads == turn.at = "reading" /\ Len(heard) < MaxHeard

Hears(e) == heard' = Append(heard, e) /\ Apply(e, Len(heard'))

\* The ids of tool calls are unique.
Unused(e) ==
    e.kind = "tool" /\ e.id # NoId =>
        \A n \in DOMAIN heard : heard[n].id # e.id \/ heard[n].kind # "tool"

\* The end of a block repeats the status before it.
HearBlock(e) ==
    /\ Reads /\ Unused(e) /\ Hears(e)
    /\ LET status == IF e.type = "stop" THEN turn.status ELSE StatusOf(e) IN
       /\ Update(status, e.type = "stop")
       /\ turn' = [turn EXCEPT !.status = status]
    /\ UNCHANGED claim

\* fail_claim and complete_claim wait for the trees: what they will record, and
\* where the runner goes on.
Settles(result, next, guarded, failed) ==
    turn' = [turn EXCEPT !.at = "settling", !.result = result, !.next = next,
                         !.guarded = guarded, !.failed = failed]

\* What ends a turn is shown with all it said.
ShowEnd(e, status) == Hears(e) /\ Update(status, TRUE)

\* An error of the CLI does not end the turn.
HearError ==
    /\ Reads /\ Ending /\ ShowEnd(Error, "error")
    /\ Settles("error", "reading", TRUE, TRUE)
    /\ UNCHANGED claim

\* Its exit does; a turn that said nothing says so.
Done == CliEvent("chunk", "text", Whole, NoId, "")

ExitWell ==
    /\ turn.at = "reading" /\ Ending
    /\ IF heard = << >> THEN Hears(Done) ELSE UNCHANGED << heard, transcript >>
    /\ Update("complete", TRUE)
    /\ Settles("completed", "removing", TRUE, turn.failed)
    /\ UNCHANGED claim

\* After an error of its own the message is left as it is.
ExitBadly ==
    /\ turn.at = "reading" /\ Ending
    /\ IF turn.failed THEN UNCHANGED << heard, transcript, recent, message >>
       ELSE ShowEnd(Error, "error")
    /\ Settles("error", "removing", TRUE, turn.failed)
    /\ UNCHANGED claim

\* The CLI stops without a word.
EndSilently ==
    /\ turn.at = "reading" /\ Ending
    /\ IF turn.failed THEN UNCHANGED << heard, transcript, recent, message >>
       ELSE ShowEnd(Error, "failed")
    /\ Settles("error", "removing", TRUE, turn.failed)
    /\ UNCHANGED claim

\* The pool has no session for the turn.
Refused ==
    /\ turn.at = "starting" /\ ShowEnd(Error, "limit")
    /\ Settles("error", "removing", TRUE, FALSE)
    /\ UNCHANGED claim

\* Anything else goes wrong, also the registration of the session.
Breaks ==
    /\ turn.at \in {"starting", "reading"} /\ Ending /\ ShowEnd(Error, "failed")
    /\ Settles("error", "removing", FALSE, turn.failed)
    /\ UNCHANGED claim

\* A plausible bug: an error of the CLI is final.
Recorded_Final(result) ==
    IF claim.cancel # "none" \/ claim.state # "in_progress" THEN claim.state ELSE result

\* complete_claim and fail_claim of the tree: a cancelled claim is left alone.
Recorded(result) ==
    IF claim.cancel # "none" \/ claim.state = "completed" THEN claim.state ELSE result

Settle ==
    /\ turn.at = "settling"
    /\ claim' = [claim EXCEPT !.state = Recorded(turn.result)]
    /\ turn' = [turn EXCEPT !.at = turn.next]
    /\ UNCHANGED << heard, transcript, recent, message >>

\* remove_session
RemoveSession ==
    /\ turn.at = "removing" /\ turn' = [turn EXCEPT !.at = "done"]
    /\ UNCHANGED << claim, heard, transcript, recent, message >>

\* A plausible bug: a stopped turn keeps the status it had.
ShowCancelled_NotStopped(reason) ==
    IF reason = "none" THEN ShowEnd(Error, "cancelled")
    ELSE UNCHANGED << heard, transcript, recent, message >>

\* /stop is shown, the message of a /clear is about to be deleted.
ShowCancelled(reason) ==
    CASE reason = "stop"  -> UNCHANGED << heard, transcript >> /\ Update("stopped", TRUE)
      [] reason = "clear" -> UNCHANGED << heard, transcript, recent, message >>
      [] OTHER            -> ShowEnd(Error, "cancelled")

\* /stop and /clear close the claim and cancel the task in one step; the end of
\* the event loop cancels the task alone.  A turn in the handler of an earlier
\* failure, or removing its session, shows nothing more.
Cancel(reason) ==
    /\ turn.at \in {"starting", "reading", "settling", "removing"}
    /\ claim.cancel = "none" /\ Ending
    /\ claim' = IF reason = "none" THEN claim
                ELSE [state  |-> IF claim.state = "in_progress" THEN "error" ELSE claim.state,
                      cancel |-> reason]
    /\ IF turn.at = "removing" \/ ~turn.guarded
       THEN /\ turn' = [turn EXCEPT !.at = IF turn.at = "removing" THEN "done" ELSE "removing"]
            /\ UNCHANGED << heard, transcript, recent, message >>
       ELSE /\ ShowCancelled(reason)
            /\ Settles("error", "removing", FALSE, turn.failed)

TurnNext ==
    \/ GetSession \/ HearError \/ ExitWell \/ ExitBadly \/ EndSilently \/ Refused \/ Breaks
    \/ Settle \/ RemoveSession \/ Elapse
    \/ \E e \in BlockEvents : HearBlock(e)
    \/ \E reason \in {"stop", "clear", "none"} : Cancel(reason)

TurnSpec == TurnInit /\ [][TurnNext]_turnVars

(***************************************************************************)
(* Properties.                                                             *)
(***************************************************************************)

Statuses == {"launching", "none", "thinking", "working", "tools", "subagent"}
Verdicts == {"complete", "error", "failed", "limit", "stopped", "cancelled"}

\* Every variable stays in its range.
TurnTypeOK ==
    /\ turn.at \in {"starting", "reading", "settling", "removing", "done"}
    /\ turn.status \in Statuses /\ turn.failed \in BOOLEAN /\ turn.guarded \in BOOLEAN
    /\ claim.state \in {"in_progress", "completed", "error"}
    /\ claim.cancel \in {"none", "stop", "clear"}
    /\ open.tool \in 0 .. Len(heard)
    /\ {open.text, open.thinking} \subseteq 0 .. Len(segments)
    /\ \A d \in DOMAIN stack : stack[d].segment \in DOMAIN segments
    /\ recent \in BOOLEAN
    /\ message.status \in Statuses \cup Verdicts /\ message.all \in BOOLEAN

Positions(kinds) ==
    UNION { Range(segments[i].parts) : i \in { k \in DOMAIN segments : segments[k].kind \in kinds } }

Tasks(n)  == { j \in 1 .. n - 1 : IsTask(heard[j]) }
AnsweredIn(j, from, to) ==
    \E r \in from .. to : heard[r].type = "result" /\ Same(heard[j].id, heard[r].id)
Answered(j, n) == AnsweredIn(j, j + 1, n - 1)

\* The Task begun at j runs at n, and no Task begun before it was answered
\* meanwhile: its answer ends all the younger ones for the display.
RunsAlone(j, n) ==
    /\ j \in Tasks(n) /\ heard[j].id # NoId /\ ~Answered(j, n)
    /\ \A i \in Tasks(j) : ~AnsweredIn(i, j + 1, n - 1)

\* What a subagent says is hidden while its Task runs, and what the agent says
\* after its Tasks have answered is shown; a call of a tool is counted once, for
\* no Task that has answered (SubagentState: parallel Tasks, ids that match
\* roughly; Tasks without an id are closed by guesswork and not judged).  What
\* was kept stays, so the newest event stands for every one.
SubagentsStayInside ==
    heard # << >> =>
        LET n        == Len(heard)
            answered == \A j \in Tasks(n) : heard[j].id # NoId /\ Answered(j, n)
        IN  /\ heard[n].type = "chunk" =>
                  /\ (\E j \in Tasks(n) : RunsAlone(j, n)) => n \notin Positions(Prose)
                  /\ answered => n \in Positions(Prose)
            /\ heard[n].kind = "tool" /\ ~IsTask(heard[n]) =>
                  /\ Cardinality({ i \in DOMAIN segments : n \in Range(segments[i].parts) }) = 1
                  /\ answered => n \in Positions({"tool"})

\* A display fits the platform, unless the status alone is too long, and the
\* newest that fits is kept (render_segments drops the oldest segments first).
DisplayFits ==
    \A limit \in Limits :
        LET d == Display(limit) IN
        /\ d.length <= limit \/ d.length = StatusLine
        /\ \A i \in Rendered : i < d.first => Joined(i) + Marker + 2 + StatusLine > limit
        /\ Rendered # {} /\ (\A i \in Rendered : i < d.first) => limit <= Marker + 2 + StatusLine + 20

\* The CLI went on after an error of its own, and then failed.
WentOn == \E n \in DOMAIN heard : heard[n] = Error /\ n < Len(heard)

\* When a turn is over its message says how: complete exactly for a node recorded
\* as completed, with all that was said, and the failure or cancellation of one
\* recorded as failed.  After an error event the runner leaves the message alone
\* at a failing exit, which shows the error only if nothing was said in between.
EndIsTold ==
    turn.at \in {"removing", "done"} /\ claim.cancel # "clear" =>
        /\ claim.state = "completed" => message = [status |-> "complete", all |-> TRUE]
        /\ claim.state = "error" /\ ~WentOn => message.status \in Verdicts \ {"complete"}

\* All of it, with every variable in its range.
TurnIsTold == TurnTypeOK /\ SubagentsStayInside /\ DisplayFits /\ EndIsTold
=============================================================================
