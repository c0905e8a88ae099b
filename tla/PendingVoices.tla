---------------------------- MODULE PendingVoices ----------------------------
(***************************************************************************)
(* messaging/voice.py and platforms/voice_flow.py: voice notes of one chat *)
(* from their arrival to the turn made of their transcription.  A flow     *)
(* reserves its note in a registry, posts a status message, transcribes,   *)
(* and hands over: a task of its own runs the message handler.  A command  *)
(* cancels notes by reference or all of them; the command may itself have  *)
(* been spoken, and then runs inside the handler of another note.  The     *)
(* registry's lock is never held across a suspension: each block under it  *)
(* is one step.                                                            *)
(***************************************************************************)
EXTENDS Naturals, FiniteSets

CONSTANTS Flows,          \* arrivals of voice notes
          Notes,          \* voice message ids; a platform may deliver one again
          Commands        \* typed commands

VARIABLES
    flow,        \* where VoiceNoteFlow.handle is
    note,        \* its voice message id
    entry,       \* its entry in the registry
    handover,    \* its handoff task
    cancelReq,   \* that task has been cancelled
    handed,      \* handed_off
    shown,       \* its status message
    drains,      \* the notes each canceller took out of the registry
    command      \* where each command is; a spoken one runs in a handover

voiceVars == <<flow, note, entry, handover, cancelReq, handed, shown, drains, command>>

Cancellers == Flows \cup Commands

VoicesInit ==
    /\ flow = [f \in Flows |-> "new"]
    /\ note = [f \in Flows |-> "none"]
    /\ entry = [f \in Flows |-> "none"]
    /\ handover = [f \in Flows |-> "none"]
    /\ cancelReq = [f \in Flows |-> FALSE]
    /\ handed = [f \in Flows |-> FALSE]
    /\ shown = [f \in Flows |-> "none"]
    /\ drains = [c \in Cancellers |-> {}]
    /\ command = [c \in Cancellers |-> "new"]

Registered(f) == entry[f] \in {"reserved", "bound"}

TaskAlive(f) == handover[f] \in {"created", "running"}

Set(f, state) == flow' = [flow EXCEPT ![f] = state]

------------------------------------------------------------------------------
(* The flow up to the handover.                                             *)

\* A second arrival of a pending note is dropped.
Reserve(f) ==
    /\ flow[f] = "new"
    /\ \E n \in Notes :
          /\ note' = [note EXCEPT ![f] = n]
          /\ IF \E g \in Flows : Registered(g) /\ note[g] = n
             THEN Set(f, "over") /\ UNCHANGED entry
             ELSE Set(f, "sending") /\ entry' = [entry EXCEPT ![f] = "reserved"]
    /\ UNCHANGED <<handover, cancelReq, handed, shown, drains, command>>

\* bind_status fails when the note was cancelled meanwhile; the flow deletes
\* the status message nobody else knows.
StatusSent(f) ==
    /\ flow[f] = "sending"
    /\ IF entry[f] = "reserved"
       THEN /\ entry' = [entry EXCEPT ![f] = "bound"]
            /\ shown' = [shown EXCEPT ![f] = "shown"]
            /\ Set(f, "transcribing")
       ELSE shown' = [shown EXCEPT ![f] = "deleted"] /\ Set(f, "over") /\ UNCHANGED entry
    /\ UNCHANGED <<note, handover, cancelReq, handed, drains, command>>

\* discard: the entry goes if it is still there, and its status with it.
DiscardNote(f) ==
    /\ entry' = [entry EXCEPT ![f] = "gone"]
    /\ shown' = IF entry[f] = "bound" THEN [shown EXCEPT ![f] = "deleted"] ELSE shown
    /\ Set(f, "over")

\* Delivery, download or transcription fails, or the flow is cancelled there.
FlowFails(f) ==
    /\ flow[f] \in {"sending", "transcribing"}
    /\ DiscardNote(f)
    /\ UNCHANGED <<note, handover, cancelReq, handed, drains, command>>

\* A plausible bug: the handoff does not look whether the note is still pending.
Transcribed_Unchecked(f) ==
    /\ flow[f] = "transcribing"
    /\ handover' = [handover EXCEPT ![f] = "created"] /\ Set(f, "handing")
    /\ UNCHANGED <<note, entry, cancelReq, handed, shown, drains, command>>

\* handoff: rejected when the note was cancelled meanwhile.
Transcribed(f) ==
    /\ flow[f] = "transcribing"
    /\ IF entry[f] = "bound"
       THEN handover' = [handover EXCEPT ![f] = "created"] /\ Set(f, "handing")
       ELSE Set(f, "over") /\ UNCHANGED handover
    /\ UNCHANGED <<note, entry, cancelReq, handed, shown, drains, command>>

------------------------------------------------------------------------------
(* The handover task, and the flow that awaits it.                          *)

\* A task cancelled before its first step never calls the handler.
HandoverStarts(f) ==
    /\ handover[f] = "created"
    /\ IF cancelReq[f]
       THEN handover' = [handover EXCEPT ![f] = "cancelled"] /\ UNCHANGED handed
       ELSE /\ handover' = [handover EXCEPT ![f] = "running"]
            /\ handed' = [handed EXCEPT ![f] = TRUE]
    /\ UNCHANGED <<flow, note, entry, cancelReq, shown, drains, command>>

\* The handler returns or raises; it is not in the middle of a command.
HandoverEnds(f) ==
    /\ handover[f] = "running" /\ command[f] # "draining"
    /\ \E how \in {"returned", "failed"} \cup (IF cancelReq[f] THEN {"cancelled"} ELSE {}) :
          handover' = [handover EXCEPT ![f] = how]
    /\ UNCHANGED <<flow, note, entry, cancelReq, handed, shown, drains, command>>

\* _finish_ownership; a failure of the handler is reported by the flow, which
\* leaves the status to the handler.
HandoffReturns(f) ==
    /\ flow[f] \in {"handing", "aborting"}
    /\ handover[f] \in {"returned", "failed", "cancelled"}
    /\ entry' = [entry EXCEPT ![f] = "gone"]
    /\ Set(f, IF flow[f] = "aborting" THEN "aborted" ELSE "over")
    /\ UNCHANGED <<note, handover, cancelReq, handed, shown, drains, command>>

\* The flow is cancelled while it awaits the handover: it cancels the task
\* and waits for it.
HandoffAborted(f) ==
    /\ flow[f] = "handing"
    /\ Set(f, "aborting")
    /\ cancelReq' = [cancelReq EXCEPT ![f] = TaskAlive(f)]
    /\ UNCHANGED <<note, entry, handover, handed, shown, drains, command>>

------------------------------------------------------------------------------
(* Commands.                                                                *)

\* A handler may still cancel others while it unwinds from a cancellation.
MayCommand(c) ==
    /\ command[c] = "new"
    /\ c \in Flows => handover[c] = "running"

\* A plausible bug: only the note of the command itself is spared.
Excluded_Own(c, g) == g = c

\* _is_excluded: the command's own note, and notes whose handler is cancelling
\* others at this moment.
Excluded(c, g) == g = c \/ command[g] = "draining"

\* The notes T leave the registry and their tasks are cancelled.
TakesOut(c, T) ==
    /\ entry' = [f \in Flows |-> IF f \in T THEN "gone" ELSE entry[f]]
    /\ cancelReq' = [f \in Flows |-> cancelReq[f] \/ (f \in T /\ TaskAlive(f))]
    /\ drains' = [drains EXCEPT ![c] = T]
    /\ command' = [command EXCEPT ![c] = "draining"]
    /\ shown' = [f \in Flows |-> IF f \in T /\ entry[f] = "bound" THEN "taken" ELSE shown[f]]
    /\ UNCHANGED <<flow, note, handover, handed>>

\* cancel_scope and cancel_all.
CancelAll(c) ==
    /\ MayCommand(c)
    /\ TakesOut(c, {g \in Flows : Registered(g) /\ ~Excluded(c, g)})

\* cancel, by a reference to the note or its status.
CancelOne(c) ==
    /\ MayCommand(c)
    /\ \E g \in Flows : Registered(g) /\ ~Excluded(c, g) /\ TakesOut(c, {g})

\* A plausible bug: cancel returns without waiting for the handlers.
CommandDone_Undrained(c) ==
    /\ command[c] = "draining"
    /\ command' = [command EXCEPT ![c] = "done"]
    /\ shown' = [g \in Flows |-> IF g \in drains[c] /\ shown[g] = "taken"
                                 THEN "deleted" ELSE shown[g]]
    /\ UNCHANGED <<flow, note, entry, handover, cancelReq, handed, drains>>

\* The tasks are over.  The command reports the notes and their messages are
\* deleted, unless it was cancelled itself while it waited (not before).
CommandDone(c) ==
    /\ command[c] = "draining"
    /\ \A g \in drains[c] : ~TaskAlive(g)
    /\ \E raises \in {FALSE} \cup {r \in {TRUE} : c \in Flows /\ cancelReq[c]} :
          /\ command' = [command EXCEPT ![c] = IF raises THEN "raised" ELSE "done"]
          /\ shown' = [g \in Flows |->
                         IF g \in drains[c] /\ shown[g] = "taken"
                         THEN IF raises THEN "shown" ELSE "deleted" ELSE shown[g]]
    /\ UNCHANGED <<flow, note, entry, handover, cancelReq, handed, drains>>

------------------------------------------------------------------------------

VoicesNext ==
    \/ \E f \in Flows :
          \/ Reserve(f) \/ StatusSent(f) \/ FlowFails(f) \/ Transcribed(f)
          \/ HandoverStarts(f) \/ HandoverEnds(f) \/ HandoffReturns(f)
          \/ HandoffAborted(f)
    \/ \E c \in Cancellers : CancelAll(c) \/ CancelOne(c) \/ CommandDone(c)

\* Steps the event loop takes; the handler and the platform do not hang.
VoicesWork(f) ==
    \/ StatusSent(f) \/ FlowFails(f) \/ Transcribed(f) \/ HandoverStarts(f)
    \/ HandoverEnds(f) \/ HandoffReturns(f)

VoicesFairness ==
    /\ \A f \in Flows : WF_voiceVars(VoicesWork(f))
    /\ \A c \in Cancellers : WF_voiceVars(CommandDone(c))

VoicesSpec == VoicesInit /\ [][VoicesNext]_voiceVars /\ VoicesFairness

------------------------------------------------------------------------------
(* Properties.                                                              *)

\* The values the variables of the voice flows take.
VoicesTypeOK ==
    /\ flow \in [Flows -> {"new", "sending", "transcribing", "handing", "aborting",
                           "aborted", "over"}]
    /\ note \in [Flows -> Notes \cup {"none"}]
    /\ entry \in [Flows -> {"none", "reserved", "bound", "gone"}]
    /\ handover \in [Flows -> {"none", "created", "running", "returned", "failed",
                               "cancelled"}]
    /\ cancelReq \in [Flows -> BOOLEAN] /\ handed \in [Flows -> BOOLEAN]
    /\ shown \in [Flows -> {"none", "shown", "taken", "deleted"}]
    /\ drains \in [Cancellers -> SUBSET Flows]
    /\ command \in [Cancellers -> {"new", "draining", "done", "raised"}]

\* A note a command has reported as cancelled is not being handled and will not
\* be: its handler is over, or the handoff finds the note gone.
CancelledVoiceIsStopped ==
    \A c \in Cancellers : command[c] = "done" =>
        \A g \in drains[c] : ~TaskAlive(g) /\ ~Registered(g)

\* When a flow is over, nothing of it is left: no entry under which a later
\* note or reply would find it, no task, and a status message only if the
\* handler got the note or a command that took it was cancelled.
EndedVoiceLeavesNothing ==
    \A f \in Flows : flow[f] \in {"over", "aborted"} =>
        /\ ~Registered(f) /\ ~TaskAlive(f)
        /\ shown[f] = "shown" =>
              \/ handed[f] \/ flow[f] = "aborted"
              \/ \E c \in Cancellers : command[c] = "raised" /\ f \in drains[c]

\* Cancelled or not, a note that is over has left no task and no entry.
VoicesAreSettled == CancelledVoiceIsStopped /\ EndedVoiceLeavesNothing

\* Every flow and every command ends, spoken commands that cancel one another
\* included.  (Each happens once.)
VoicesEnd ==
    <>[](/\ \A f \in Flows : flow[f] \in {"new", "over", "aborted"}
         /\ \A c \in Cancellers : command[c] # "draining")
==============================================================================
