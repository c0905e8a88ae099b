---------------------------- MODULE ChatMessages ----------------------------
(***************************************************************************)
(* messaging/workflow.py, turn_intake.py, commands.py and                  *)
(* session/managed_message_log.py: the messages of one chat and who knows  *)
(* of them.  Every message of the managed conversation is recorded in a    *)
(* log, so that /clear can delete it; what is admitted is in a tree too.   *)
(* A message is posted first and recorded later, and a /clear, a /stop, a  *)
(* failed delivery or a failed delete may come between.  Blocks under the  *)
(* workflow's state lock are one step, but for a /clear, which keeps the   *)
(* lock while it waits for the turns it cancelled; recording what FCC      *)
(* itself posted needs no lock.                                            *)
(***************************************************************************)
EXTENDS Naturals, FiniteSets, SequencesExt, Queues

CONSTANTS MaxPrompts,     \* prompts of users
          MaxSlashes,     \* commands of users
          LogCap,         \* managed_message_cap: entries of the log
          MaxHandled,     \* bound: prompts, commands and notices of a behaviour
          MaxRefused      \* bound: deliveries, deletes and clears that fail

VARIABLES
    chat,      \* the messages to be seen in the chat
    log,       \* ManagedMessageLog, the oldest first
    admitted,  \* the prompts of the trees
    locked,    \* the command that waits under the state lock, 0 for none
    stops, clears,    \* _stop_generation, _clear_generations
    turn,      \* handle_message of each prompt
    slash,     \* handle_message of each command
    notice,    \* the startup notice
    failed,    \* messages whose deletion failed
    dropped,   \* entries the log's cap pushed out and no tree gave back
    missed,    \* answers recorded while a /clear waited
    refused    \* how many calls failed

chatVars == <<chat, log, admitted, locked, stops, clears, turn, slash, notice,
              failed, dropped, missed, refused>>

Prompts == 1..MaxPrompts
Slashes == 1..MaxSlashes

PromptOf(p) == <<"prompt", p>>
StatusOf(p) == <<"status", p>>
SlashOf(c)  == <<"slash", c>>
AnswerOf(c) == <<"answer", c>>
Notice      == <<"notice", 0>>

Now == [stops |-> stops, clears |-> clears]

past == <<failed, dropped, missed, refused>>
gens == <<stops, clears>>

ChatInit ==
    /\ chat = {} /\ log = <<>> /\ admitted = {} /\ locked = 0
    /\ stops = 0 /\ clears = 0
    /\ turn = [p \in Prompts |-> [at |-> "new", token |-> Now, replyTo |-> 0,
                                  parent |-> 0, doomed |-> {}]]
    /\ slash = [c \in Slashes |-> [at |-> "new", kind |-> "none", target |-> 0, doomed |-> {}]]
    /\ notice = [at |-> "new", clears |-> 0, cancelled |-> FALSE]
    /\ failed = {} /\ dropped = {} /\ missed = {} /\ refused = 0

\* _append and _trim.
Recorded(m) == IF m \in ToSet(log) THEN log ELSE Append(log, m)
Record(m) ==
    LET all == Recorded(m) IN
    IF Len(all) > LogCap
    THEN log' = Tail(all) /\ dropped' = dropped \cup {Head(all)}
    ELSE log' = all /\ UNCHANGED dropped

ForgetIds(those) == log' = Remaining(log, those)

\* The trees' own messages: each prompt and its status.
OfTurns(ps) == UNION { {PromptOf(p), StatusOf(p)} : p \in ps }

Refuse == refused < MaxRefused /\ refused' = refused + 1

\* A delete is one request for all of them: it succeeds or fails.
Delete(those) ==
    \/ chat' = chat \ those /\ UNCHANGED <<failed, refused>>
    \/ Refuse /\ failed' = failed \cup (those \cap chat) /\ UNCHANGED chat

Post(m) == chat' = chat \cup {m} /\ UNCHANGED refused

\* Handlers that have begun.
Handled == Cardinality({p \in Prompts : turn[p].at # "new"})
           + Cardinality({c \in Slashes : slash[c].at # "new"})
           + (IF notice.at = "new" THEN 0 ELSE 1)

------------------------------------------------------------------------------
(* A prompt, from its arrival to its admission.                              *)

TurnTo(p, at) == turn' = [turn EXCEPT ![p].at = at]

PromptArrives(p, r) ==
    /\ turn[p].at = "new" /\ Handled < MaxHandled /\ chat' = chat \cup {PromptOf(p)}
    /\ r # 0 => PromptOf(r) \in chat
    /\ turn' = [turn EXCEPT ![p].at = "arrived", ![p].replyTo = r]
    /\ UNCHANGED <<log, admitted, locked, gens, slash, notice, past>>

PromptReceived(p) ==
    /\ turn[p].at = "arrived" /\ locked = 0
    /\ turn' = [turn EXCEPT ![p].at = "received", ![p].token = Now]
    /\ Record(PromptOf(p))
    /\ UNCHANGED <<chat, admitted, locked, gens, slash, notice, failed, missed, refused>>

\* resolve_reply: a reply to something no tree knows begins a tree of its own.
\* The delivery of the status may fail: the turn ends, its prompt recorded.
StatusPosted(p) ==
    /\ turn[p].at = "received"
    /\ LET parent == IF turn[p].replyTo \in admitted THEN turn[p].replyTo ELSE 0 IN
       \/ /\ Post(StatusOf(p))
          /\ turn' = [turn EXCEPT ![p].at = "posted", ![p].parent = parent]
       \/ Refuse /\ TurnTo(p, "over") /\ UNCHANGED chat
    /\ UNCHANGED <<log, admitted, locked, gens, slash, notice, failed, dropped, missed>>

StatusRecorded(p) ==
    /\ turn[p].at = "posted" /\ TurnTo(p, "recorded") /\ Record(StatusOf(p))
    /\ UNCHANGED <<chat, admitted, locked, gens, slash, notice, failed, missed, refused>>

\* A plausible bug: a turn is admitted whatever was stopped or cleared meanwhile.
Admission_Stale(p) ==
    /\ turn[p].at = "recorded" /\ locked = 0
    /\ IF turn[p].parent # 0 /\ turn[p].parent \notin admitted
       THEN /\ turn' = [turn EXCEPT ![p].at = "rejected",
                                    ![p].doomed = {PromptOf(p), StatusOf(p)}]
            /\ UNCHANGED admitted
       ELSE admitted' = admitted \cup {p} /\ TurnTo(p, "over")
    /\ UNCHANGED <<chat, log, locked, gens, slash, notice, past>>

\* A turn a boundary overtook leaves its prompt to the command; one whose
\* parent was removed takes the prompt along.
Admission(p) ==
    /\ turn[p].at = "recorded" /\ locked = 0
    /\ \/ /\ turn[p].token # Now
          /\ turn' = [turn EXCEPT ![p].at = "rejected", ![p].doomed = {StatusOf(p)}]
          /\ UNCHANGED admitted
       \/ /\ turn[p].token = Now /\ turn[p].parent \notin admitted \cup {0}
          /\ turn' = [turn EXCEPT ![p].at = "rejected",
                                  ![p].doomed = {PromptOf(p), StatusOf(p)}]
          /\ UNCHANGED admitted
       \/ /\ turn[p].token = Now /\ turn[p].parent \in admitted \cup {0}
          /\ admitted' = admitted \cup {p} /\ TurnTo(p, "over")
    /\ UNCHANGED <<chat, log, locked, gens, slash, notice, past>>

\* A plausible bug: what was rejected is forgotten and left in the chat.
Rejected_Kept(p) ==
    /\ turn[p].at = "rejected" /\ TurnTo(p, "over") /\ ForgetIds(turn[p].doomed)
    /\ UNCHANGED <<chat, admitted, locked, gens, slash, notice, past>>

\* _discard_rejected_messages: forgotten even where the delete failed.
Rejected(p) ==
    /\ turn[p].at = "rejected" /\ TurnTo(p, "over")
    /\ Delete(turn[p].doomed) /\ ForgetIds(turn[p].doomed)
    /\ UNCHANGED <<admitted, locked, gens, slash, notice, dropped, missed>>

------------------------------------------------------------------------------
(* The startup notice.                                                       *)

NoticeStarts ==
    /\ notice.at = "new" /\ Handled < MaxHandled /\ locked = 0
    /\ notice' = [notice EXCEPT !.at = "sending", !.clears = clears]
    /\ UNCHANGED <<chat, log, admitted, locked, gens, turn, slash, past>>

NoticePosted ==
    /\ notice.at = "sending"
    /\ \/ Post(Notice) /\ notice' = [notice EXCEPT !.at = "posted"]
       \/ Refuse /\ notice' = [notice EXCEPT !.at = "over"] /\ UNCHANGED chat
    /\ UNCHANGED <<log, admitted, locked, gens, turn, slash, failed, dropped, missed>>

\* The publisher is cancelled after the delivery; later it changes nothing.
NoticeCancelled ==
    /\ notice.at = "posted"
    /\ ~notice.cancelled /\ notice' = [notice EXCEPT !.cancelled = TRUE]
    /\ UNCHANGED <<chat, log, admitted, locked, gens, turn, slash, past>>

\* A plausible bug: a /clear during the delivery is not looked for.
NoticeFinalized_Uncleared ==
    /\ notice.at = "posted" /\ locked = 0
    /\ IF notice.cancelled
       THEN notice' = [notice EXCEPT !.at = "discarding"] /\ UNCHANGED <<log, dropped>>
       ELSE notice' = [notice EXCEPT !.at = "over"] /\ Record(Notice)
    /\ UNCHANGED <<chat, admitted, locked, gens, turn, slash, failed, missed, refused>>

NoticeFinalized ==
    /\ notice.at = "posted" /\ locked = 0
    /\ IF notice.cancelled \/ notice.clears # clears
       THEN notice' = [notice EXCEPT !.at = "discarding"] /\ UNCHANGED <<log, dropped>>
       ELSE notice' = [notice EXCEPT !.at = "over"] /\ Record(Notice)
    /\ UNCHANGED <<chat, admitted, locked, gens, turn, slash, failed, missed, refused>>

NoticeDeleted ==
    /\ notice.at = "discarding"
    /\ Delete({Notice})
    /\ notice' = [notice EXCEPT !.at = IF Notice \in chat' THEN "retaining" ELSE "forgetting"]
    /\ UNCHANGED <<log, admitted, locked, gens, turn, slash, dropped, missed>>

\* Not deleted: its id is kept for the next /clear.
NoticeRetained ==
    /\ notice.at = "retaining" /\ locked = 0
    /\ notice' = [notice EXCEPT !.at = "over"] /\ Record(Notice)
    /\ UNCHANGED <<chat, admitted, locked, gens, turn, slash, failed, missed, refused>>

NoticeForgotten ==
    /\ notice.at = "forgetting" /\ locked = 0
    /\ notice' = [notice EXCEPT !.at = "over"] /\ ForgetIds({Notice})
    /\ UNCHANGED <<chat, admitted, locked, gens, turn, slash, past>>

------------------------------------------------------------------------------
(* Commands.                                                                 *)

SlashTo(c, at) == slash' = [slash EXCEPT ![c].at = at]

SlashArrives(c, kind, r) ==
    /\ slash[c].at = "new" /\ Handled < MaxHandled
    /\ kind = "clear_reply" <=> r # 0
    /\ r # 0 => PromptOf(r) \in chat
    /\ slash' = [slash EXCEPT ![c] = [at |-> "arrived", kind |-> kind, target |-> r,
                                      doomed |-> {}]]
    /\ chat' = chat \cup {SlashOf(c)}
    /\ UNCHANGED <<log, admitted, locked, gens, turn, notice, past>>

\* A standalone /clear records itself only if it fails.
SlashReceived(c) ==
    /\ slash[c].at = "arrived" /\ locked = 0
    /\ SlashTo(c, "received")
    /\ IF slash[c].kind = "clear" THEN UNCHANGED <<log, dropped>> ELSE Record(SlashOf(c))
    /\ UNCHANGED <<chat, admitted, locked, gens, turn, notice, failed, missed, refused>>

\* A plausible bug: /clear deletes what the log holds and forgets the trees'.
ClearStarts_LogOnly(c) ==
    /\ slash[c].at = "received" /\ slash[c].kind = "clear" /\ locked = 0
    /\ slash' = [slash EXCEPT ![c].at = "clearing", ![c].doomed = ToSet(log)]
    /\ locked' = c /\ clears' = clears + 1 /\ admitted' = {}
    /\ dropped' = dropped \ OfTurns(admitted)
    /\ UNCHANGED <<chat, log, stops, turn, notice, failed, missed, refused>>

\* _clear_chat up to the wait for the cancelled turns.
ClearStarts(c) ==
    /\ slash[c].at = "received" /\ slash[c].kind = "clear" /\ locked = 0
    /\ slash' = [slash EXCEPT ![c].at = "clearing",
                              ![c].doomed = ToSet(log) \cup OfTurns(admitted)]
    /\ locked' = c /\ clears' = clears + 1 /\ admitted' = {}
    /\ dropped' = dropped \ OfTurns(admitted)
    /\ UNCHANGED <<chat, log, stops, turn, notice, failed, missed, refused>>

\* The store is cleared whatever happened to the turns; a failure of either
\* ends the command, which is then recorded, and its ids are given up.
ClearCommits(c) ==
    /\ slash[c].at = "clearing" /\ locked' = 0 /\ log' = <<>>
    /\ missed' = missed \cup {m \in ToSet(log) \ slash[c].doomed : m[1] = "answer"}
    /\ \/ SlashTo(c, "deleting") /\ UNCHANGED <<failed, refused>>
       \/ Refuse /\ SlashTo(c, "raising") /\ failed' = failed \cup (slash[c].doomed \cap chat)
    /\ UNCHANGED <<chat, admitted, gens, turn, notice, dropped>>

ClearRaised(c) ==
    /\ slash[c].at = "raising" /\ locked = 0
    /\ SlashTo(c, "over") /\ Record(SlashOf(c))
    /\ UNCHANGED <<chat, admitted, locked, gens, turn, notice, failed, missed, refused>>

\* A plausible bug: the command deletes everything but itself.
ClearDeletes_NotItself(c) ==
    /\ slash[c].at = "deleting" /\ slash[c].kind = "clear" /\ SlashTo(c, "over")
    /\ Delete(slash[c].doomed)
    /\ UNCHANGED <<log, admitted, locked, gens, turn, notice, dropped, missed>>

ClearDeletes(c) ==
    /\ slash[c].at = "deleting" /\ slash[c].kind = "clear" /\ SlashTo(c, "over")
    /\ Delete(slash[c].doomed \cup {SlashOf(c)})
    /\ UNCHANGED <<log, admitted, locked, gens, turn, notice, dropped, missed>>

\* The replied-to prompt and what replies to it leave the trees.
Below(r) ==
    LET under[p \in Prompts] == p = r \/ (turn[p].parent # 0 /\ under[turn[p].parent])
    IN  {p \in admitted : under[p]}

PruneStarts(c) ==
    /\ slash[c].at = "received" /\ slash[c].kind = "clear_reply" /\ locked = 0
    /\ IF slash[c].target \in admitted
       THEN /\ slash' = [slash EXCEPT ![c].at = "pruning",
                                      ![c].doomed = OfTurns(Below(slash[c].target))]
            /\ admitted' = admitted \ Below(slash[c].target) /\ locked' = c
            /\ dropped' = dropped \ OfTurns(Below(slash[c].target))
       ELSE SlashTo(c, "answering") /\ UNCHANGED <<admitted, locked, dropped>>
    /\ UNCHANGED <<chat, log, gens, turn, notice, failed, missed, refused>>

PruneCommits(c) ==
    /\ slash[c].at = "pruning" /\ SlashTo(c, "deleting") /\ locked' = 0
    /\ UNCHANGED <<chat, log, admitted, gens, turn, notice, past>>

\* A plausible bug: what a reply's /clear deleted stays in the log.
PruneDeletes_Remembered(c) ==
    /\ slash[c].at = "deleting" /\ slash[c].kind = "clear_reply" /\ SlashTo(c, "over")
    /\ Delete(slash[c].doomed \cup {SlashOf(c)})
    /\ UNCHANGED <<log, admitted, locked, gens, turn, notice, dropped, missed>>

PruneDeletes(c) ==
    /\ slash[c].at = "deleting" /\ slash[c].kind = "clear_reply" /\ SlashTo(c, "over")
    /\ Delete(slash[c].doomed \cup {SlashOf(c)})
    /\ ForgetIds(slash[c].doomed \cup {SlashOf(c)})
    /\ UNCHANGED <<admitted, locked, gens, turn, notice, dropped, missed>>

\* The statuses may say it all; otherwise the command answers.
Stop(c) ==
    /\ slash[c].at = "received" /\ slash[c].kind = "stop" /\ locked = 0
    /\ stops' = stops + 1
    /\ \E at \in {"answering", "over"} : SlashTo(c, at)
    /\ UNCHANGED <<chat, log, admitted, locked, clears, turn, notice, past>>

Stats(c) ==
    /\ slash[c].at = "received" /\ slash[c].kind = "stats" /\ SlashTo(c, "answering")
    /\ UNCHANGED <<chat, log, admitted, locked, gens, turn, notice, past>>

AnswerPosted(c) ==
    /\ slash[c].at = "answering"
    /\ \/ Post(AnswerOf(c)) /\ SlashTo(c, "answered")
       \/ Refuse /\ SlashTo(c, "over") /\ UNCHANGED chat
    /\ UNCHANGED <<log, admitted, locked, gens, turn, notice, failed, dropped, missed>>

AnswerRecorded(c) ==
    /\ slash[c].at = "answered" /\ SlashTo(c, "over") /\ Record(AnswerOf(c))
    /\ UNCHANGED <<chat, admitted, locked, gens, turn, notice, failed, missed, refused>>

------------------------------------------------------------------------------
ChatNext ==
    \/ \E p \in Prompts :
          \/ \E r \in {0} \cup Prompts : r < p /\ PromptArrives(p, r)
          \/ PromptReceived(p) \/ StatusPosted(p)
          \/ StatusRecorded(p) \/ Admission(p) \/ Rejected(p)
    \/ NoticeStarts \/ NoticePosted \/ NoticeCancelled \/ NoticeFinalized
    \/ NoticeDeleted \/ NoticeRetained \/ NoticeForgotten
    \/ \E c \in Slashes :
          \/ \E kind \in {"clear", "clear_reply", "stop", "stats"}, r \in {0} \cup Prompts :
                SlashArrives(c, kind, r)
          \/ SlashReceived(c)
          \/ ClearStarts(c) \/ ClearCommits(c) \/ ClearRaised(c) \/ ClearDeletes(c)
          \/ PruneStarts(c) \/ PruneCommits(c) \/ PruneDeletes(c)
          \/ Stop(c) \/ Stats(c) \/ AnswerPosted(c) \/ AnswerRecorded(c)

ChatSpec == ChatInit /\ [][ChatNext]_chatVars

------------------------------------------------------------------------------
Messages == {PromptOf(p) : p \in Prompts} \cup {StatusOf(p) : p \in Prompts}
            \cup {SlashOf(c) : c \in Slashes} \cup {AnswerOf(c) : c \in Slashes} \cup {Notice}

\* Every variable stays in its range, and the log within its cap, without
\* repetitions.
ChatTypeOK ==
    /\ chat \cup failed \cup dropped \cup missed \subseteq Messages
    /\ ToSet(log) \subseteq Messages /\ Len(log) <= LogCap /\ IsInjective(log)
    /\ admitted \subseteq Prompts /\ locked \in {0} \cup Slashes
    /\ refused \in 0..MaxRefused
    /\ stops \in 0..MaxSlashes /\ clears \in 0..MaxSlashes
    /\ \A p \in Prompts :
          /\ turn[p].at \in {"new", "arrived", "received", "posted", "recorded",
                             "rejected", "over"}
          /\ turn[p].parent \in 0..p - 1 /\ turn[p].doomed \subseteq Messages
    /\ \A c \in Slashes :
          /\ slash[c].at \in {"new", "arrived", "received", "clearing", "deleting", "raising",
                              "pruning", "answering", "answered", "over"}
          /\ slash[c].doomed \subseteq Messages
    /\ notice.at \in {"new", "sending", "posted", "discarding", "retaining", "forgetting", "over"}

\* What a running handler still answers for.
InHand ==
    {PromptOf(p) : p \in {q \in Prompts : turn[q].at = "arrived"}}
    \cup {StatusOf(p) : p \in {q \in Prompts : turn[q].at \in {"posted", "recorded"}}}
    \cup (UNION {turn[p].doomed : p \in {q \in Prompts : turn[q].at = "rejected"}})
    \cup (UNION {slash[c].doomed \cup {SlashOf(c)} :
                 c \in {d \in Slashes : slash[d].at \in {"clearing", "deleting", "pruning"}}})
    \cup {SlashOf(c) : c \in {d \in Slashes : \/ slash[d].at \in {"arrived", "raising"}
                                              \/ /\ slash[d].at = "received"
                                                 /\ slash[d].kind = "clear"}}
    \cup {AnswerOf(c) : c \in {d \in Slashes : slash[d].at = "answered"}}
    \cup (IF notice.at \in {"posted", "discarding", "retaining"} THEN {Notice} ELSE {})

\* No message of the conversation is left in the chat that nothing will
\* delete: what is to be seen is in the log, in a tree, or in the hands of a
\* handler; or its deletion failed, the log's cap pushed it out, or a /clear
\* overtook the answer of another command.  (record_outgoing_message, "for
\* /clear")
NothingIsOrphaned ==
    chat \subseteq ToSet(log) \cup OfTurns(admitted) \cup InHand
                   \cup failed \cup dropped \cup missed

\* The log names nothing that was deleted: a later /clear, whose batch fails
\* as one, asks only for messages that are there.
LogIsCurrent == ToSet(log) \subseteq chat

\* A turn or a notice begun before a /clear leaves nothing behind it, however
\* late it comes back from its delivery.
ClearedLeaveNothing ==
    /\ \A p \in Prompts :
          turn[p].at = "over" /\ turn[p].token.clears < clears =>
             {PromptOf(p), StatusOf(p)} \cap chat \subseteq failed \cup dropped \cup InHand
    /\ notice.at = "over" /\ notice.clears < clears =>
          {Notice} \cap chat \subseteq failed \cup dropped \cup InHand

ChatIsOwned == NothingIsOrphaned /\ LogIsCurrent /\ ClearedLeaveNothing
==============================================================================
