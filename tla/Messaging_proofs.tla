-------------------------- MODULE Messaging_proofs --------------------------
(***************************************************************************)
(* Proofs about five components under the workflow, for any number of      *)
(* callers, notes, timers, changes, messages, trees and sessions.          *)
(* VoicesInv: where a voice flow is, what is registered of it and what its *)
(* task does go together, and a status message without its note is         *)
(* excused.  LimiterInv: a pending future is with exactly one operation,   *)
(* that of its key or the worker's, and what is with neither waits for     *)
(* nothing.  PersistenceInv: what a current writer of the session file     *)
(* holds is the state in memory unless a change is being scheduled, and    *)
(* one thread writes at a time.  ChatInv: what a handler has not recorded  *)
(* yet nobody has heard of, a /clear that waits holds the whole log but    *)
(* what was recorded meanwhile, and every message is kept somewhere.       *)
(* IInv: the two maps of the pool of sessions and their links agree        *)
(* (MapsInv), and whoever could still start a subprocess does so for an    *)
(* owned session, or finds it shut (GuardInv).                             *)
(***************************************************************************)
EXTENDS PendingVoices, MessageLimiter, SessionPersistence, ManagedSessions, ChatMessages,
        Queues_proofs, TLAPS

(***************************************************************************)
(* Voice notes                                                             *)
(***************************************************************************)

\* What excuses a status message that outlives its note: the handler has it, the
\* flow was cancelled, or the command that took the note was.
Excused(f) ==
    \/ handed[f] \/ flow[f] \in {"aborting", "aborted"}
    \/ \E c \in Cancellers : command[c] = "raised" /\ f \in drains[c]

\* Where a flow is, what is registered of it and what its task does go together.
FlowInv(f) ==
    /\ flow[f] = "new" => entry[f] = "none"
    /\ flow[f] = "sending" => entry[f] \in {"reserved", "gone"}
    /\ entry[f] = "reserved" => flow[f] = "sending"
    /\ flow[f] \in {"over", "aborted"} => ~Registered(f) /\ ~TaskAlive(f)
    /\ flow[f] \in {"new", "sending", "transcribing"} => handover[f] = "none" /\ ~cancelReq[f]
    /\ flow[f] \in {"new", "sending"} => shown[f] = "none"
    /\ entry[f] = "bound" => shown[f] = "shown"
    /\ entry[f] = "reserved" => shown[f] = "none"
    /\ entry[f] = "none" => shown[f] = "none"
    /\ handover[f] \in {"running", "returned", "failed"} => handed[f]
    /\ handover[f] = "cancelled" => cancelReq[f] \/ flow[f] \in {"aborting", "aborted"}

\* A task that was cancelled lost its note, unless its flow was; and a status
\* without its note is excused.
ShownInv(f) ==
    /\ cancelReq[f] => entry[f] = "gone" \/ flow[f] \in {"aborting", "aborted"}
    /\ entry[f] = "gone" /\ shown[f] = "shown" => Excused(f)
    /\ shown[f] = "taken" => entry[f] = "gone"

\* What a command took stays gone, and is over when the command is.
DrainInv(c) ==
    /\ \A g \in drains[c] : entry[g] = "gone"
    /\ command[c] \in {"done", "raised"} => \A g \in drains[c] : ~TaskAlive(g)

VoicesInv ==
    /\ VoicesTypeOK
    /\ \A f \in Flows : FlowInv(f) /\ ShownInv(f)
    /\ \A c \in Cancellers : DrainInv(c)

\* No flow loses its excuse: commands that ended stay so, and so does what they took.
LEMMA ExcusesStay ==
    ASSUME VoicesInv, NEW f \in Flows,
           \A c \in Cancellers : command[c] = "raised" => command'[c] = "raised" /\ drains'[c] = drains[c],
           handed[f] => handed'[f],
           flow[f] \in {"aborting", "aborted"} => flow'[f] \in {"aborting", "aborted"},
           Excused(f)
    PROVE  Excused(f)'
BY DEF Excused

\* Up to the handover a flow has no task.
LEMMA FlowBegins ==
    ASSUME VoicesInv, NEW f \in Flows, Reserve(f) \/ StatusSent(f) \/ FlowFails(f) \/ Transcribed(f)
    PROVE  VoicesInv'
<1> USE DEF Set, DiscardNote
<1>1. VoicesTypeOK'
  <2>1. CASE Reserve(f) BY <2>1 DEF VoicesInv, VoicesTypeOK, Reserve
  <2>2. CASE StatusSent(f) BY <2>2 DEF VoicesInv, VoicesTypeOK, StatusSent
  <2>3. CASE FlowFails(f) BY <2>3 DEF VoicesInv, VoicesTypeOK, FlowFails
  <2>4. CASE Transcribed(f) BY <2>4 DEF VoicesInv, VoicesTypeOK, Transcribed
  <2> QED BY <2>1, <2>2, <2>3, <2>4
<1>2. UNCHANGED << cancelReq, handed, drains, command >>
  BY DEF Reserve, StatusSent, FlowFails, Transcribed
<1>3. ASSUME NEW g \in Flows PROVE FlowInv(g)'
  <2>1. FlowInv(g) /\ ShownInv(g) BY DEF VoicesInv
  <2> USE DEF VoicesInv, VoicesTypeOK, FlowInv, ShownInv, Registered, TaskAlive
  <2>2. CASE Reserve(f) BY <1>2, <2>1, <2>2 DEF Reserve
  <2>3. CASE StatusSent(f)
    <3>1. CASE entry[f] = "reserved" BY <1>2, <2>1, <2>3, <3>1 DEF StatusSent
    <3>2. CASE entry[f] # "reserved" BY <1>2, <2>1, <2>3, <3>2 DEF StatusSent
    <3> QED BY <3>1, <3>2
  <2>4. CASE FlowFails(f) BY <1>2, <2>1, <2>4 DEF FlowFails
  <2>5. CASE Transcribed(f)
    <3>1. CASE entry[f] = "bound" BY <1>2, <2>1, <2>5, <3>1 DEF Transcribed
    <3>2. CASE entry[f] # "bound" BY <1>2, <2>1, <2>5, <3>2 DEF Transcribed
    <3> QED BY <3>1, <3>2
  <2> QED BY <2>2, <2>3, <2>4, <2>5
<1>4. ASSUME NEW g \in Flows PROVE ShownInv(g)'
  <2>1. Excused(g) => Excused(g)'
    BY <1>2, ExcusesStay DEF Reserve, StatusSent, FlowFails, Transcribed, VoicesInv, VoicesTypeOK
  <2> USE DEF VoicesInv, VoicesTypeOK, FlowInv, ShownInv
  <2>2. CASE Reserve(f) BY <1>2, <2>1, <2>2 DEF Reserve
  <2>3. CASE StatusSent(f) BY <1>2, <2>1, <2>3 DEF StatusSent
  <2>4. CASE FlowFails(f) BY <1>2, <2>1, <2>4 DEF FlowFails
  <2>5. CASE Transcribed(f) BY <1>2, <2>1, <2>5 DEF Transcribed
  <2> QED BY <2>2, <2>3, <2>4, <2>5
<1>5. ASSUME NEW c \in Cancellers PROVE DrainInv(c)'
  <2>1. f \in drains[c] => entry[f] = "gone" BY DEF VoicesInv, DrainInv
  <2> USE DEF VoicesInv, VoicesTypeOK, DrainInv, TaskAlive, FlowInv
  <2>2. CASE Reserve(f) BY <1>2, <2>1, <2>2 DEF Reserve
  <2>3. CASE StatusSent(f) BY <1>2, <2>1, <2>3 DEF StatusSent
  <2>4. CASE FlowFails(f) BY <1>2, <2>1, <2>4 DEF FlowFails
  <2>5. CASE Transcribed(f) BY <1>2, <2>1, <2>5 DEF Transcribed
  <2> QED BY <2>2, <2>3, <2>4, <2>5
<1> QED BY <1>1, <1>3, <1>4, <1>5 DEF VoicesInv

\* A task that ends was handled or cancelled; whoever awaits it takes the entry.
LEMMA FlowHands ==
    ASSUME VoicesInv, NEW f \in Flows,
           HandoverStarts(f) \/ HandoverEnds(f) \/ HandoffReturns(f) \/ HandoffAborted(f)
    PROVE  VoicesInv'
<1> USE DEF Set
<1>1. VoicesTypeOK'
  <2>1. CASE HandoverStarts(f)
    <3>1. CASE cancelReq[f] BY <2>1, <3>1 DEF VoicesInv, VoicesTypeOK, HandoverStarts
    <3>2. CASE ~cancelReq[f] BY <2>1, <3>2 DEF VoicesInv, VoicesTypeOK, HandoverStarts
    <3> QED BY <3>1, <3>2
  <2>2. CASE HandoverEnds(f) BY <2>2 DEF VoicesInv, VoicesTypeOK, HandoverEnds
  <2>3. CASE HandoffReturns(f) BY <2>3 DEF VoicesInv, VoicesTypeOK, HandoffReturns
  <2>4. CASE HandoffAborted(f) BY <2>4 DEF VoicesInv, VoicesTypeOK, HandoffAborted, TaskAlive
  <2> QED BY <2>1, <2>2, <2>3, <2>4
<1>2. UNCHANGED << shown, drains, command >>
  BY DEF HandoverStarts, HandoverEnds, HandoffReturns, HandoffAborted
<1>3. \A g \in Flows : FlowInv(g)'
  <2> USE DEF VoicesInv, VoicesTypeOK, FlowInv, Registered, TaskAlive
  <2>1. CASE HandoverStarts(f) BY <1>2, <2>1 DEF HandoverStarts
  <2>2. CASE HandoverEnds(f) BY <1>2, <2>2 DEF HandoverEnds
  <2>3. CASE HandoffReturns(f) BY <1>2, <2>3 DEF HandoffReturns
  <2>4. CASE HandoffAborted(f) BY <1>2, <2>4 DEF HandoffAborted
  <2> QED BY <2>1, <2>2, <2>3, <2>4
<1>4. ASSUME NEW g \in Flows PROVE ShownInv(g)'
  <2>1. Excused(g) => Excused(g)'
    BY <1>2, ExcusesStay
       DEF HandoverStarts, HandoverEnds, HandoffReturns, HandoffAborted, VoicesInv, VoicesTypeOK
  <2> USE DEF VoicesInv, VoicesTypeOK, FlowInv, ShownInv
  <2>2. CASE HandoverStarts(f) BY <1>2, <2>1, <2>2 DEF HandoverStarts
  <2>3. CASE HandoverEnds(f) BY <1>2, <2>1, <2>3 DEF HandoverEnds
  <2>4. CASE HandoffReturns(f)
    <3>1. entry[f] # "gone" => Excused(f) BY <2>4 DEF HandoffReturns, Excused
    <3>2. g = f /\ entry[f] # "gone" => Excused(g)'
      BY <1>2, <2>4, <3>1, ExcusesStay DEF HandoffReturns
    <3> QED BY <1>2, <2>1, <2>4, <3>2 DEF HandoffReturns
  <2>5. CASE HandoffAborted(f) BY <1>2, <2>1, <2>5 DEF HandoffAborted
  <2> QED BY <2>2, <2>3, <2>4, <2>5
<1>5. ASSUME NEW c \in Cancellers PROVE DrainInv(c)'
  <2> USE DEF VoicesInv, VoicesTypeOK, DrainInv, TaskAlive
  <2>1. CASE HandoverStarts(f) BY <1>2, <2>1 DEF HandoverStarts
  <2>2. CASE HandoverEnds(f) BY <1>2, <2>2 DEF HandoverEnds
  <2>3. CASE HandoffReturns(f) BY <1>2, <2>3 DEF HandoffReturns
  <2>4. CASE HandoffAborted(f) BY <1>2, <2>4 DEF HandoffAborted
  <2> QED BY <2>1, <2>2, <2>3, <2>4
<1> QED BY <1>1, <1>3, <1>4, <1>5 DEF VoicesInv

\* A command takes what is registered, and nobody registers it again.
LEMMA CommandTakes ==
    ASSUME VoicesInv, NEW c \in Cancellers, CancelAll(c) \/ CancelOne(c)
    PROVE  VoicesInv'
<1>1. PICK T \in SUBSET Flows : TakesOut(c, T) /\ \A g \in T : Registered(g)
  <2>1. CASE CancelAll(c) BY <2>1 DEF CancelAll
  <2>2. CASE CancelOne(c)
    <3>1. PICK g \in Flows : Registered(g) /\ TakesOut(c, {g}) BY <2>2 DEF CancelOne
    <3> QED BY <3>1
  <2> QED BY <2>1, <2>2
<1>2. command[c] = "new" BY DEF CancelAll, CancelOne, MayCommand
<1>3. VoicesTypeOK' BY <1>1 DEF TakesOut, VoicesInv, VoicesTypeOK, TaskAlive
<1>4. \A g \in Flows : FlowInv(g)'
  BY <1>1 DEF TakesOut, VoicesInv, VoicesTypeOK, FlowInv, Registered, TaskAlive
<1>5. ASSUME NEW g \in Flows PROVE ShownInv(g)'
  <2>1. Excused(g) => Excused(g)'
    BY <1>1, <1>2, ExcusesStay DEF TakesOut, VoicesInv, VoicesTypeOK
  <2> QED BY <1>1, <2>1 DEF TakesOut, VoicesInv, VoicesTypeOK, FlowInv, ShownInv, Registered
<1>6. ASSUME NEW d \in Cancellers PROVE DrainInv(d)'
  BY <1>1, <1>2 DEF TakesOut, VoicesInv, VoicesTypeOK, DrainInv, TaskAlive
<1> QED BY <1>3, <1>4, <1>5, <1>6 DEF VoicesInv

\* It ends after the tasks it cancelled; raised, it excuses what it leaves.
LEMMA CommandEnds ==
    ASSUME VoicesInv, NEW c \in Cancellers, CommandDone(c)
    PROVE  VoicesInv'
<1>1. PICK raises \in BOOLEAN :
          /\ command' = [command EXCEPT ![c] = IF raises THEN "raised" ELSE "done"]
          /\ shown' = [g \in Flows |->
                         IF g \in drains[c] /\ shown[g] = "taken"
                         THEN IF raises THEN "shown" ELSE "deleted" ELSE shown[g]]
  BY DEF CommandDone
<1>2. command[c] = "draining" /\ \A g \in drains[c] : ~TaskAlive(g) BY DEF CommandDone
<1>3. UNCHANGED << flow, note, entry, handover, cancelReq, handed, drains >> BY DEF CommandDone
<1>4. VoicesTypeOK' BY <1>1, <1>3 DEF VoicesInv, VoicesTypeOK
<1>5. \A g \in Flows : FlowInv(g)'
  BY <1>1, <1>3 DEF VoicesInv, VoicesTypeOK, FlowInv, ShownInv, DrainInv, Registered, TaskAlive
<1>6. ASSUME NEW g \in Flows PROVE ShownInv(g)'
  <2>1. Excused(g) => Excused(g)'
    BY <1>1, <1>2, <1>3, ExcusesStay DEF VoicesInv, VoicesTypeOK
  <2>2. g \in drains[c] /\ raises => Excused(g)' BY <1>1, <1>3 DEF Excused, VoicesInv, VoicesTypeOK
  <2> QED BY <1>1, <1>3, <2>1, <2>2 DEF VoicesInv, VoicesTypeOK, ShownInv
<1>7. ASSUME NEW d \in Cancellers PROVE DrainInv(d)'
  BY <1>1, <1>2, <1>3 DEF VoicesInv, VoicesTypeOK, DrainInv, TaskAlive
<1> QED BY <1>4, <1>5, <1>6, <1>7 DEF VoicesInv

\* It holds before the first note.
LEMMA InitVoices == VoicesInit => VoicesInv
BY DEF VoicesInit, VoicesInv, VoicesTypeOK, FlowInv, ShownInv, DrainInv, Registered, TaskAlive

\* No step of a flow, a handler or a command breaks it.
LEMMA NextVoices == VoicesInv /\ [VoicesNext]_voiceVars => VoicesInv'
<1> SUFFICES ASSUME VoicesInv, [VoicesNext]_voiceVars PROVE VoicesInv' OBVIOUS
<1>1. CASE UNCHANGED voiceVars
  BY <1>1 DEF voiceVars, VoicesInv, VoicesTypeOK, FlowInv, ShownInv, DrainInv, Registered,
              TaskAlive, Excused
<1> QED BY <1>1, FlowBegins, FlowHands, CommandTakes, CommandEnds DEF VoicesNext

\* What is known of a voice note holds through every interleaving of flows,
\* handlers and commands, typed or spoken.
THEOREM VoicesInvariance == VoicesSpec => []VoicesInv
BY InitVoices, NextVoices, PTL DEF VoicesSpec

\* A note a command reported as cancelled is not handled, and a flow that is
\* over leaves no task, no entry and no status message without an excuse
\* (voice.py, voice_flow.py).
THEOREM SettledVoices == VoicesSpec => []VoicesAreSettled
<1>1. VoicesInv => CancelledVoiceIsStopped
  BY DEF VoicesInv, DrainInv, CancelledVoiceIsStopped, Registered
<1>2. VoicesInv => EndedVoiceLeavesNothing
  BY DEF VoicesInv, VoicesTypeOK, FlowInv, ShownInv, EndedVoiceLeavesNothing, Registered, Excused
<1> QED BY <1>1, <1>2, VoicesInvariance, PTL DEF VoicesAreSettled

(***************************************************************************)
(* The limiter                                                             *)
(***************************************************************************)

\* A caller whose future is pending waits; what else is still with an
\* operation was cancelled.
CallerInv(c) ==
    /\ future[c] = "pending" => calls[c].state = "waiting"
    /\ calls[c].state = "waiting" => calls[c].key \in Keys
    /\ calls[c].state \in {"starting", "retrying"} => calls[c].key \in Keys
    /\ calls[c].state = "unused" => calls[c] = NoCall
    /\ \A k \in Keys : c \in queueMap[k].futures =>
          \/ calls[c].state = "over"
          \/ calls[c].state = "waiting" /\ calls[c].key = k /\ future[c] \in {"pending", "cancelled"}
    /\ c \in job.futures =>
          \/ calls[c].state = "over"
          \/ calls[c].state = "waiting" /\ calls[c].key = job.key /\ future[c] \in {"pending", "cancelled"}

\* A pending future is with the operation that waits under its key or with the
\* one the worker holds, and not with both.
PendingInv(c) ==
    future[c] = "pending" =>
        c \in queueMap[calls[c].key].futures <=> c \notin job.futures

LimiterInv ==
    /\ LimiterTypeOK
    /\ \A k \in Keys : queueMap[k] # NoWork => queueMap[k].op = newest[k]
    /\ worker \in {"off", "idle", "backoff", "ended"} => job = NoJob
    /\ \A c \in Calls : CallerInv(c) /\ PendingInv(c)

\* What a caller is.
CallSet == [state : {"unused", "starting", "waiting", "retrying", "over"},
            key : Keys \cup {"none"}, forget : BOOLEAN, retries : 0..MaxRetries]

\* They are calls.
LEMMA OverTypes == Over \in CallSet /\ NoCall \in CallSet /\ Over.state = "over"
<1>1. 0 \in 0..MaxRetries BY MessageLimiterAssumption
<1>2. NoCall \in CallSet BY <1>1 DEF NoCall, CallSet
<1> QED BY <1>2 DEF Over, CallSet

\* One caller changes.
LEMMA CallChanges ==
    ASSUME LimiterTypeOK, NEW c \in Calls, NEW r \in CallSet, calls' = [calls EXCEPT ![c] = r]
    PROVE  /\ calls' \in [Calls -> CallSet]
           /\ calls'[c] = r /\ \A d \in Calls \ {c} : calls'[d] = calls[d]
BY DEF LimiterTypeOK, CallSet

\* Queueing the operation of a caller that is with none.
LEMMA EnqueueStep ==
    ASSUME LimiterInv, NEW c \in Calls, NEW k \in Keys, Enqueue(c, k),
           calls[c].state \in {"unused", "starting", "retrying"},
           calls' = [calls EXCEPT ![c] = [@ EXCEPT !.state = "waiting", !.key = k]],
           future' = [future EXCEPT ![c] = "pending"],
           UNCHANGED <<worker, job, paused, closed, stopping>>
    PROVE  LimiterInv'
<1> USE DEF LimiterInv, LimiterTypeOK
<1>1. LimiterTypeOK'
  <2>1. queueMap' \in [Keys -> [op : Calls \cup {"none"}, futures : SUBSET Calls]] BY DEF Enqueue
  <2>2. queueList' \in Seq(Keys) BY DEF Enqueue
  <2>3. [calls[c] EXCEPT !.state = "waiting", !.key = k] \in CallSet
    <3>1. calls[c] \in CallSet BY DEF CallSet
    <3> QED BY ONLY <3>1, k \in Keys DEF CallSet
  <2>4. calls' \in [Calls -> CallSet] BY <2>3, CallChanges
  <2> QED BY <2>1, <2>2, <2>4 DEF Enqueue, CallSet
<1>2. \A j \in Keys : queueMap'[j] # NoWork => queueMap'[j].op = newest'[j] BY DEF Enqueue
<1>3. c \notin job.futures /\ \A j \in Keys : c \notin queueMap[j].futures BY DEF CallerInv
<1>4. \A j \in Keys : queueMap'[j].futures = queueMap[j].futures \cup (IF j = k THEN {c} ELSE {})
  BY DEF Enqueue
<1>5. calls'[c].state = "waiting" /\ calls'[c].key = k /\ future'[c] = "pending" OBVIOUS
<1>6. \A d \in Calls \ {c} : calls'[d] = calls[d] /\ future'[d] = future[d] OBVIOUS
<1>7. ASSUME NEW d \in Calls PROVE CallerInv(d)'
  <2>1. CallerInv(d) OBVIOUS
  <2>2. CASE d = c BY <1>3, <1>4, <1>5, <2>2 DEF CallerInv
  <2>3. CASE d # c BY <1>4, <1>6, <2>1, <2>3 DEF CallerInv
  <2> QED BY <2>2, <2>3
<1>8. ASSUME NEW d \in Calls PROVE PendingInv(d)'
  <2>1. PendingInv(d) /\ CallerInv(d) OBVIOUS
  <2>2. CASE d = c BY <1>3, <1>4, <1>5, <2>2 DEF PendingInv
  <2>3. CASE d # c BY <1>4, <1>6, <2>1, <2>3 DEF PendingInv, CallerInv
  <2> QED BY <2>2, <2>3
<1> QED BY <1>1, <1>2, <1>7, <1>8

\* What a caller does without the queue: it comes, goes, or begins again.
LEMMA CallerStep ==
    ASSUME LimiterInv, NEW c \in Calls, Forget(c) \/ Resumes(c) \/ CallerCancelled(c)
    PROVE  LimiterInv'
<1> USE DEF LimiterInv, LimiterTypeOK
<1>1. UNCHANGED << worker, job, queueList, queueMap, paused, closed, stopping, newest >>
  BY DEF Forget, Resumes, CallerCancelled
<1>2. PICK r \in CallSet :
         /\ calls' = [calls EXCEPT ![c] = r]
         /\ \/ r.state = "starting" /\ r.key \in Keys /\ calls[c] = NoCall /\ future' = future
            \/ r.state = "retrying" /\ r.key = calls[c].key /\ calls[c].state = "waiting"
               /\ future[c] = "lost" /\ future' = [future EXCEPT ![c] = "none"]
            \/ /\ r.state = "over" /\ calls[c].state = "waiting"
               /\ \E how \in {"none", "cancelled"} : future' = [future EXCEPT ![c] = how]
  <2>1. CASE Forget(c)
    <3>1. PICK k \in Keys : calls' = [calls EXCEPT ![c] = [@ EXCEPT !.state = "starting", !.key = k,
                                                                !.forget = TRUE]]
      BY <2>1 DEF Forget
    <3> DEFINE r == [calls[c] EXCEPT !.state = "starting", !.key = k, !.forget = TRUE]
    <3>2. calls[c] \in CallSet BY DEF CallSet
    <3>4. r \in CallSet /\ r.state = "starting" /\ r.key = k BY <3>2 DEF CallSet
    <3> HIDE DEF r
    <3> QED BY <2>1, <3>1, <3>2, <3>4 DEF Forget, r
  <2>2. CASE Resumes(c)
    <3>1. CASE calls[c].forget /\ future[c] = "lost" /\ calls[c].retries < MaxRetries
      <4> DEFINE r == [calls[c] EXCEPT !.state = "retrying", !.retries = @ + 1]
      <4>1. calls' = [calls EXCEPT ![c] = r] BY <2>2, <3>1 DEF Resumes
      <4>2. calls[c] \in CallSet BY DEF CallSet
      <4>3. calls[c].retries + 1 \in 0..MaxRetries BY <3>1, <4>2, MessageLimiterAssumption DEF CallSet
      <4>4. r \in CallSet /\ r.state = "retrying" /\ r.key = calls[c].key
        BY <4>2, <4>3 DEF CallSet
      <4> QED BY <2>2, <3>1, <4>1, <4>4 DEF Resumes, Waits
    <3>2. CASE ~(calls[c].forget /\ future[c] = "lost" /\ calls[c].retries < MaxRetries)
      BY <2>2, <3>2, OverTypes DEF Resumes, Waits
    <3> QED BY <3>1, <3>2
  <2>3. CASE CallerCancelled(c) BY <2>3, OverTypes DEF CallerCancelled, Waits
  <2> QED BY <2>1, <2>2, <2>3
<1>3. /\ calls' \in [Calls -> CallSet]
      /\ calls'[c] = r /\ \A d \in Calls \ {c} : calls'[d] = calls[d]
  BY <1>2, CallChanges
<1>4. /\ future' \in [Calls -> {"none", "pending", "sent", "failed", "lost", "cancelled"}]
      /\ \A d \in Calls \ {c} : future'[d] = future[d]
  <2>1. \/ future' = future \/ \E how \in {"none", "cancelled"} : future' = [future EXCEPT ![c] = how]
    BY <1>2
  <2>2. CASE future' = future BY <2>2
  <2>3. ASSUME NEW how \in {"none", "cancelled"}, future' = [future EXCEPT ![c] = how]
        PROVE  /\ future' \in [Calls -> {"none", "pending", "sent", "failed", "lost", "cancelled"}]
               /\ \A d \in Calls \ {c} : future'[d] = future[d]
    BY <2>3
  <2> QED BY <2>1, <2>2, <2>3
<1>5. LimiterTypeOK' BY <1>1, <1>3, <1>4 DEF CallSet
<1>6. CallerInv(c)' /\ PendingInv(c)'
  <2>1. CallerInv(c) /\ PendingInv(c) OBVIOUS
  <2>2. NoCall.state = "unused" BY DEF NoCall
  <2> QED BY <1>1, <1>2, <1>3, <2>1, <2>2 DEF CallerInv, PendingInv
<1>7. \A d \in Calls \ {c} : CallerInv(d)' /\ PendingInv(d)' BY <1>1, <1>3, <1>4 DEF CallerInv, PendingInv
<1> QED BY <1>1, <1>5, <1>6, <1>7

\* The worker takes the operation of a key with all its futures.
LEMMA PopStep == ASSUME LimiterInv, Pop PROVE LimiterInv'
<1> USE DEF LimiterInv, LimiterTypeOK
<1> DEFINE k == Head(queueList)
<1>1. k \in Keys /\ Tail(queueList) \in Seq(Keys) BY DEF Pop
<1>2. /\ job = NoJob /\ job' = [key |-> k, op |-> queueMap[k].op, futures |-> queueMap[k].futures]
      /\ queueMap' = [queueMap EXCEPT ![k] = NoWork]
      /\ worker' \in {"paused", "gated"}
      /\ UNCHANGED <<paused, closed, stopping, calls, future, newest>>
      /\ queueList' = Tail(queueList)
  BY DEF Pop
<1> HIDE DEF k
<1>3. queueMap' \in [Keys -> [op : Calls \cup {"none"}, futures : SUBSET Calls]]
  BY <1>1, <1>2 DEF NoWork
<1>4. LimiterTypeOK' BY <1>1, <1>2, <1>3
<1>5. \A j \in Keys : queueMap'[j].futures = IF j = k THEN {} ELSE queueMap[j].futures
  BY <1>1, <1>2 DEF NoWork
<1>6. \A j \in Keys : queueMap'[j] # NoWork => queueMap'[j].op = newest'[j] BY <1>1, <1>2
<1>7. ASSUME NEW c \in Calls PROVE CallerInv(c)' /\ PendingInv(c)'
  <2>1. CallerInv(c) /\ PendingInv(c) OBVIOUS
  <2>2. job'.key = k /\ job'.futures = queueMap[k].futures /\ job.futures = {}
    BY <1>2 DEF NoJob
  <2> QED BY <1>1, <1>2, <1>5, <2>1, <2>2 DEF CallerInv, PendingInv
<1> QED BY <1>2, <1>4, <1>6, <1>7

\* Answering some futures, those of the job among them if it is given up.
LEMMA AnswerStep ==
    ASSUME LimiterInv, LimiterTypeOK',
           NEW those, NEW how \in {"sent", "failed", "lost", "cancelled"}, Answer(those, how),
           UNCHANGED << queueMap, calls, newest >>,
           job.futures \subseteq those, job' = NoJob,
           \A c \in those : c \in job.futures
    PROVE  LimiterInv'
<1> USE DEF LimiterInv, LimiterTypeOK
<1>1. \A c \in Calls : future'[c] = IF c \in those /\ future[c] = "pending" THEN how ELSE future[c]
  BY DEF Answer
<1>2. job'.futures = {} BY DEF NoJob
<1>3. ASSUME NEW c \in Calls PROVE CallerInv(c)' /\ PendingInv(c)'
  <2>1. CallerInv(c) /\ PendingInv(c) OBVIOUS
  <2>2. CASE c \in those /\ future[c] = "pending"
    <3>1. \A k \in Keys : c \notin queueMap[k].futures
      BY <2>1, <2>2 DEF CallerInv, PendingInv
    <3> QED BY <1>1, <1>2, <2>1, <2>2, <3>1 DEF CallerInv, PendingInv
  <2>3. CASE ~(c \in those /\ future[c] = "pending")
    BY <1>1, <1>2, <2>1, <2>3 DEF CallerInv, PendingInv
  <2> QED BY <2>2, <2>3
<1> QED BY <1>3

\* The worker moves, ends its operation or is cancelled.
LEMMA WorkerStep ==
    ASSUME LimiterInv, \/ StartLimiter \/ PauseEnds \/ Admitted \/ OperationCancelled
                       \/ OperationEnds \/ BackoffEnds \/ WorkerCancelled
    PROVE  LimiterInv'
<1> USE DEF LimiterInv
<1>1. CASE StartLimiter \/ PauseEnds \/ Admitted \/ BackoffEnds
  <2>1. UNCHANGED << job, queueMap, calls, future, newest >>
    BY <1>1 DEF StartLimiter, PauseEnds, Admitted, BackoffEnds
  <2>2. LimiterTypeOK'
    BY <1>1 DEF LimiterTypeOK, StartLimiter, PauseEnds, Admitted, BackoffEnds
  <2>3. worker' \in {"off", "idle", "backoff", "ended"} => job' = NoJob
    BY <1>1, <2>1 DEF StartLimiter, PauseEnds, Admitted, BackoffEnds, WorkerAlive, LimiterTypeOK
  <2> QED BY <2>1, <2>2, <2>3 DEF CallerInv, PendingInv
<1>2. CASE OperationCancelled
  <2>1. LimiterTypeOK' BY <1>2 DEF LimiterTypeOK, OperationCancelled, Answer, NoJob
  <2> QED BY <1>2, <2>1, AnswerStep DEF OperationCancelled
<1>3. CASE WorkerCancelled
  <2>1. LimiterTypeOK' BY <1>3 DEF LimiterTypeOK, WorkerCancelled, Answer, NoJob
  <2> QED BY <1>3, <2>1, AnswerStep DEF WorkerCancelled
<1>4. CASE OperationEnds
  <2>1. PICK how \in {<<"sent", "idle", paused>>, <<"failed", "idle", paused>>,
                      <<"lost", "idle", paused>>, <<"failed", "idle", TRUE>>,
                      <<"failed", "backoff", paused>>} :
          /\ Answer(job.futures, how[1])
          /\ worker' = IF closed /\ how[2] = "idle" THEN "ended" ELSE how[2]
          /\ paused' = how[3]
    BY <1>4 DEF OperationEnds
  <2>2. /\ how[1] \in {"sent", "failed", "lost"} /\ how[2] \in {"idle", "backoff"}
        /\ how[3] \in BOOLEAN
    <3>1. paused \in BOOLEAN BY DEF LimiterTypeOK
    <3>2. CASE how = <<"sent", "idle", paused>> BY <3>1, <3>2
    <3>3. CASE how = <<"failed", "idle", paused>> BY <3>1, <3>3
    <3>4. CASE how = <<"lost", "idle", paused>> BY <3>1, <3>4
    <3>5. CASE how = <<"failed", "idle", TRUE>> BY <3>5
    <3>6. CASE how = <<"failed", "backoff", paused>> BY <3>1, <3>6
    <3> QED BY <2>1, <3>2, <3>3, <3>4, <3>5, <3>6
  <2>3. job' = NoJob /\ UNCHANGED <<queueList, queueMap, closed, stopping, calls, newest>>
    BY <1>4 DEF OperationEnds
  <2>4. worker' \in {"idle", "backoff", "ended"} /\ paused' \in BOOLEAN BY <2>1, <2>2
  <2>5. future' \in [Calls -> {"none", "pending", "sent", "failed", "lost", "cancelled"}]
    BY <2>1, <2>2 DEF LimiterTypeOK, Answer
  <2>6. LimiterTypeOK' BY <2>3, <2>4, <2>5 DEF LimiterTypeOK, NoJob
  <2> QED BY <2>1, <2>2, <2>3, <2>6, AnswerStep
<1> QED BY <1>1, <1>2, <1>3, <1>4

\* shutdown leaves no pending future in the queue or the worker's hands.
LEMMA ShutdownStep ==
    ASSUME LimiterInv, Shutdown
    PROVE  LimiterInv'
<1> USE DEF LimiterInv
<1>1. LimiterTypeOK' BY DEF LimiterTypeOK, Shutdown, Answer, NoWork
<1>2. /\ \A c \in Calls : future'[c] = IF c \in QueuedFutures \cup job.futures /\ future[c] = "pending"
                                       THEN "cancelled" ELSE future[c]
      /\ \A k \in Keys : queueMap'[k] = NoWork /\ queueMap'[k].futures = {}
      /\ UNCHANGED << worker, job, calls, newest >>
  BY DEF Shutdown, Answer, NoWork
<1>3. ASSUME NEW c \in Calls PROVE CallerInv(c)' /\ PendingInv(c)'
  <2>1. CallerInv(c) /\ PendingInv(c) OBVIOUS
  <2>2. future[c] = "pending" => c \in QueuedFutures \cup job.futures
    BY <2>1 DEF CallerInv, PendingInv, QueuedFutures
  <2> QED BY <1>2, <2>1, <2>2 DEF CallerInv, PendingInv
<1> QED BY <1>1, <1>2, <1>3

\* The forgotten calls are over, whatever they wait for.
LEMMA CancelForgottenStep ==
    ASSUME LimiterInv, CancelForgotten
    PROVE  LimiterInv'
<1> USE DEF LimiterInv
<1>1. LimiterTypeOK' BY OverTypes DEF LimiterTypeOK, CancelForgotten, Answer, CallSet
<1>2. /\ \A c \in Calls : /\ future'[c] = IF c \in Forgotten /\ future[c] = "pending"
                                          THEN "cancelled" ELSE future[c]
                          /\ calls'[c] = IF c \in Forgotten THEN Over ELSE calls[c]
      /\ UNCHANGED << worker, job, queueMap, newest >>
  BY DEF CancelForgotten, Answer
<1>3. Over.state = "over" BY OverTypes
<1>4. ASSUME NEW c \in Calls PROVE CallerInv(c)' /\ PendingInv(c)'
  <2>1. CallerInv(c) /\ PendingInv(c) OBVIOUS
  <2> QED BY <1>2, <1>3, <2>1 DEF CallerInv, PendingInv
<1> QED BY <1>1, <1>2, <1>4

\* It holds before the first call.
LEMMA InitLimiter == LimiterInit => LimiterInv
<1> SUFFICES ASSUME LimiterInit PROVE LimiterInv OBVIOUS
<1>1. LimiterTypeOK
  <2>1. calls \in [Calls -> CallSet] BY OverTypes DEF LimiterInit
  <2>2. queueMap \in [Keys -> [op : Calls \cup {"none"}, futures : SUBSET Calls]]
    BY DEF LimiterInit, NoWork
  <2>3. job \in [key : Keys \cup {"none"}, op : Calls \cup {"none"}, futures : SUBSET Calls]
    BY DEF LimiterInit, NoJob
  <2>4. /\ future \in [Calls -> {"none", "pending", "sent", "failed", "lost", "cancelled"}]
        /\ newest \in [Keys -> Calls \cup {"none"}] /\ queueList \in Seq(Keys)
    BY DEF LimiterInit
  <2>5. /\ paused \in BOOLEAN /\ closed \in BOOLEAN /\ stopping = "no" /\ worker = "off"
    BY DEF LimiterInit
  <2> QED BY <2>1, <2>2, <2>3, <2>4, <2>5 DEF LimiterTypeOK, CallSet
<1>2. \A c \in Calls : CallerInv(c) /\ PendingInv(c)
  BY DEF LimiterInit, NoWork, NoJob, NoCall, CallerInv, PendingInv
<1> QED BY <1>1, <1>2 DEF LimiterInit, LimiterInv

\* No step of a caller, of the worker or of the shutdown breaks it.
LEMMA NextLimiter == LimiterInv /\ [LimiterNext]_limiterVars => LimiterInv'
<1> SUFFICES ASSUME LimiterInv, [LimiterNext]_limiterVars PROVE LimiterInv' OBVIOUS
<1>1. ASSUME NEW c \in Calls, Call(c) PROVE LimiterInv'
  <2>1. PICK k \in Keys : /\ calls' = [calls EXCEPT ![c] = [@ EXCEPT !.state = "waiting", !.key = k]]
                          /\ Enqueue(c, k)
    BY <1>1 DEF Call
  <2>2. calls[c].state = "unused" BY <1>1 DEF Call, NoCall
  <2> QED BY <1>1, <2>1, <2>2, EnqueueStep DEF Call
<1>2. ASSUME NEW c \in Calls, ForgottenQueues(c) PROVE LimiterInv'
  <2>1. CASE Running
    <3>1. calls[c].key \in Keys BY <1>2 DEF ForgottenQueues, LimiterInv, CallerInv
    <3>2. calls' = [calls EXCEPT ![c] = [@ EXCEPT !.state = "waiting", !.key = calls[c].key]]
      <4>1. calls[c] \in CallSet BY DEF LimiterInv, LimiterTypeOK, CallSet
      <4>2. [calls[c] EXCEPT !.state = "waiting", !.key = calls[c].key]
               = [calls[c] EXCEPT !.state = "waiting"]
        BY <4>1 DEF CallSet
      <4> QED BY <1>2, <2>1, <4>2 DEF ForgottenQueues
    <3> QED BY <1>2, <2>1, <3>1, <3>2, EnqueueStep DEF ForgottenQueues
  <2>2. CASE ~Running
    <3>1. /\ calls' = [calls EXCEPT ![c] = Over] /\ Over.state = "over"
          /\ UNCHANGED <<queueList, queueMap, future, newest, worker, job, paused, closed, stopping>>
      BY <1>2, <2>2 DEF ForgottenQueues, Over, NoCall
    <3>2. LimiterTypeOK'
      BY <3>1, OverTypes DEF LimiterInv, LimiterTypeOK, CallSet
    <3>3. ASSUME NEW d \in Calls PROVE CallerInv(d)' /\ PendingInv(d)'
      <4>1. CallerInv(d) /\ PendingInv(d) BY DEF LimiterInv
      <4>2. calls[c].state \in {"starting", "retrying"} BY <1>2 DEF ForgottenQueues
      <4> QED BY <3>1, <4>1, <4>2 DEF CallerInv, PendingInv, LimiterInv, LimiterTypeOK
    <3> QED BY <3>1, <3>2, <3>3 DEF LimiterInv
  <2> QED BY <2>1, <2>2
<1>3. CASE UNCHANGED limiterVars
  BY <1>3 DEF limiterVars, LimiterInv, LimiterTypeOK, CallerInv, PendingInv
<1> QED BY <1>1, <1>2, <1>3, CallerStep, PopStep, WorkerStep, ShutdownStep, CancelForgottenStep
        DEF LimiterNext

\* What is known of the queue, its futures and the job holds whoever calls,
\* retries, is cancelled or shuts the limiter down.
THEOREM LimiterInvariance == LimiterSpec => []LimiterInv
BY InitLimiter, NextLimiter, PTL DEF LimiterSpec

\* What waits under a key is the operation queued last under it, and a pending
\* future is with exactly one operation, of its own key (limiter.py:126-190).
THEOREM CurrentAnswers == LimiterSpec => []AnswersAreCurrent
<1>1. LimiterInv => AnswersAreCurrent
  <2> SUFFICES ASSUME LimiterInv, NEW c \in Calls, future[c] = "pending"
               PROVE  c \in queueMap[calls[c].key].futures <=>
                          ~(c \in job.futures /\ job.key = calls[c].key)
    BY DEF LimiterInv, AnswersAreCurrent
  <2>1. CallerInv(c) /\ PendingInv(c) BY DEF LimiterInv
  <2> QED BY <2>1 DEF CallerInv, PendingInv
<1> QED BY <1>1, LimiterInvariance, PTL

(***************************************************************************)
(* The session file                                                        *)
(***************************************************************************)

Standings == {"nothing", "scheduling", "claiming", "copying", "writing", "replacing"}

PersistenceTypes ==
    /\ PersistenceTypeOK
    /\ generation \in Nat /\ generation <= versions
    /\ trouble \in [{"crashes", "errors", "flushes"} -> Nat]
    /\ doing \in [Writers -> Standings]
    /\ claimed \in [Writers -> Nat] /\ snapshot \in [Writers -> Nat]
    /\ \A w \in Writers : claimed[w] <= generation
    /\ store = "loop" <=> doing[Loop] = "scheduling"
    /\ store = "loop" => generation < versions
    /\ \A t \in Timers : doing[t] # "scheduling"

\* Nothing is ahead of the state in memory, nor the state of its versions; of
\* what may still be written, nothing is ahead of what a current writer holds,
\* which is the state itself unless a change is being scheduled.
SnapshotInv ==
    /\ promised <= file /\ file <= state /\ state <= versions
    /\ \A w \in Writers : doing[w] \in {"writing", "replacing"} => snapshot[w] <= state
    /\ \A w \in Writers : doing[w] = "writing" /\ claimed[w] = generation =>
          /\ file <= snapshot[w]
          /\ store # "loop" => snapshot[w] = state
          /\ \A u \in Writers : doing[u] \in {"writing", "replacing"} => snapshot[u] <= snapshot[w]

\* One thread writes at a time, and it writes nothing older than the file.
WriterInv ==
    /\ \A w \in Writers : doing[w] = "replacing" => writing = "held" /\ file <= snapshot[w]
    /\ \A u, w \in Writers : doing[u] = "replacing" /\ doing[w] = "replacing" => u = w

PersistenceInv == PersistenceTypes /\ SnapshotInv /\ WriterInv

\* Where a thread stands changes for one thread.
LEMMA DoesOne ==
    ASSUME PersistenceTypes, NEW w \in Writers, NEW what \in Standings, Does(w, what)
    PROVE  /\ doing' \in [Writers -> Standings] /\ doing'[w] = what
           /\ \A u \in Writers \ {w} : doing'[u] = doing[u]
BY DEF PersistenceTypes, Does

\* The threads are the event loop and the timers.
LEMMA WriterSet == Loop \in Writers /\ Loop \notin Timers /\ Timers \subseteq Writers /\ Writers \subseteq Nat
BY PersistenceBounds DEF Loop, Writers, Timers

\* The event loop begins: a change, a clear, a flush, and the scheduling of a save.
LEMMA LoopStep ==
    ASSUME PersistenceInv, Changes \/ Schedules \/ Clears \/ Flushes
    PROVE  PersistenceInv'
<1> USE PersistenceBounds, WriterSet
<1> USE DEF PersistenceInv
<1>1. CASE Changes
  <2>1. /\ doing' \in [Writers -> Standings] /\ doing'[Loop] = "scheduling"
        /\ \A u \in Writers \ {Loop} : doing'[u] = doing[u]
    BY <1>1, DoesOne DEF Changes, Standings
  <2>2. PersistenceTypes'
    BY <1>1, <2>1 DEF Changes, PersistenceTypes, PersistenceTypeOK, Versions
  <2>3. SnapshotInv'
    BY <1>1, <2>1 DEF Changes, PersistenceTypes, PersistenceTypeOK, SnapshotInv, Versions
  <2>4. WriterInv' BY <1>1, <2>1 DEF Changes, WriterInv
  <2> QED BY <2>2, <2>3, <2>4
<1>2. CASE Schedules
  <2>1. /\ doing' \in [Writers -> Standings] /\ doing'[Loop] = "nothing"
        /\ \A u \in Writers \ {Loop} : doing'[u] = doing[u]
    BY <1>2, DoesOne DEF Schedules, Standings
  <2>2. alive' \subseteq Timers
    <3>1. generation + 1 \in Timers
      BY <1>2 DEF Schedules, PersistenceTypes, PersistenceTypeOK, Versions, Timers
    <3> QED BY <1>2, <3>1 DEF Schedules, PersistenceTypes, PersistenceTypeOK
  <2>3. generation' = generation + 1 /\ timer' = generation' /\ store' = "free" BY <1>2 DEF Schedules
  <2>4. generation < versions BY <1>2 DEF Schedules, PersistenceTypes
  <2>5. UNCHANGED << state, file, versions, writing, claimed, snapshot, promised, trouble >>
    BY <1>2 DEF Schedules
  <2>6. PersistenceTypes'
    BY <2>1, <2>2, <2>3, <2>4, <2>5 DEF PersistenceTypes, PersistenceTypeOK, Versions
  <2>7. SnapshotInv'
    BY <1>2, <2>1 DEF Schedules, PersistenceTypes, PersistenceTypeOK, SnapshotInv, Versions
  <2>8. WriterInv' BY <1>2, <2>1 DEF Schedules, WriterInv
  <2> QED BY <2>6, <2>7, <2>8
<1>3. CASE Clears
  <2>1. /\ doing' \in [Writers -> Standings] /\ doing'[Loop] = "writing"
        /\ \A u \in Writers \ {Loop} : doing'[u] = doing[u]
    BY <1>3, DoesOne DEF Clears, Standings
  <2>2. /\ claimed' \in [Writers -> Nat] /\ snapshot' \in [Writers -> Nat]
        /\ claimed'[Loop] = generation + 1 /\ snapshot'[Loop] = versions + 1
        /\ \A u \in Writers \ {Loop} : claimed'[u] = claimed[u] /\ snapshot'[u] = snapshot[u]
    BY <1>3 DEF Clears, Takes, PersistenceTypes, PersistenceTypeOK, Versions
  <2>3. PersistenceTypes'
    <3>1. alive' \subseteq Timers BY <1>3 DEF Clears, PersistenceTypes, PersistenceTypeOK
    <3>2. /\ versions < MaxChanges /\ versions' = versions + 1 /\ state' = versions + 1
          /\ timer' = 0 /\ generation' = generation + 1 /\ store' = "clear"
          /\ UNCHANGED << file, writing, promised, trouble >>
      BY <1>3 DEF Clears
    <3> QED BY <2>1, <2>2, <3>1, <3>2 DEF PersistenceTypes, PersistenceTypeOK, Versions
  <2>4. SnapshotInv'
    BY <1>3, <2>1, <2>2 DEF Clears, PersistenceTypes, PersistenceTypeOK, SnapshotInv, Versions
  <2>5. WriterInv' BY <1>3, <2>1, <2>2 DEF Clears, WriterInv
  <2> QED BY <2>3, <2>4, <2>5
<1>4. CASE Flushes
  <2>1. /\ doing' \in [Writers -> Standings] /\ doing'[Loop] = "copying"
        /\ \A u \in Writers \ {Loop} : doing'[u] = doing[u]
    BY <1>4, DoesOne DEF Flushes, Standings
  <2>2. /\ claimed' \in [Writers -> Nat] /\ claimed'[Loop] = generation
        /\ \A u \in Writers \ {Loop} : claimed'[u] = claimed[u]
    BY <1>4 DEF Flushes, PersistenceTypes, PersistenceTypeOK, Versions
  <2>3. trouble' \in [{"crashes", "errors", "flushes"} -> Nat]
    BY <1>4 DEF Flushes, Happens, PersistenceTypes
  <2>4. PersistenceTypes'
    <3>1. alive' \subseteq Timers BY <1>4 DEF Flushes, PersistenceTypes, PersistenceTypeOK
    <3>2. doing[Loop] = "nothing" /\ timer' = 0
          /\ UNCHANGED << state, file, versions, generation, store, writing, snapshot, promised >>
      BY <1>4 DEF Flushes
    <3> QED BY <2>1, <2>2, <2>3, <3>1, <3>2 DEF PersistenceTypes, PersistenceTypeOK, Versions
  <2>5. SnapshotInv'
    BY <1>4, <2>1, <2>2 DEF Flushes, PersistenceTypes, PersistenceTypeOK, SnapshotInv, Versions
  <2>6. WriterInv' BY <1>4, <2>1 DEF Flushes, WriterInv
  <2> QED BY <2>4, <2>5, <2>6
<1> QED BY <1>1, <1>2, <1>3, <1>4

\* A timer fires, and goes on if it is the last that was armed.
LEMMA TimerStep ==
    ASSUME PersistenceInv, NEW t \in Timers, Fires(t) \/ Claims(t)
    PROVE  PersistenceInv'
<1> USE PersistenceBounds, WriterSet
<1> USE DEF PersistenceInv
<1>1. CASE Fires(t)
  <2>1. /\ doing' \in [Writers -> Standings] /\ doing'[t] = "claiming"
        /\ \A u \in Writers \ {t} : doing'[u] = doing[u]
    BY <1>1, DoesOne DEF Fires, Standings
  <2>2. PersistenceTypes'
    BY <1>1, <2>1 DEF Fires, memory, PersistenceTypes, PersistenceTypeOK, Versions
  <2>3. SnapshotInv' BY <1>1, <2>1 DEF Fires, memory, SnapshotInv
  <2>4. WriterInv' BY <1>1, <2>1 DEF Fires, WriterInv
  <2> QED BY <2>2, <2>3, <2>4
<1>2. CASE Claims(t)
  <2>1. PICK what \in {"copying", "nothing"} :
           Does(t, what) /\ (what = "nothing" => claimed' = claimed /\ timer' = timer)
                         /\ (what = "copying" => /\ claimed' = [claimed EXCEPT ![t] = t] /\ t = generation
                                                 /\ timer' = 0)
    BY <1>2 DEF Claims
  <2>2. /\ doing' \in [Writers -> Standings] /\ doing'[t] = what
        /\ \A u \in Writers \ {t} : doing'[u] = doing[u]
    BY <2>1, DoesOne DEF Standings
  <2>3. /\ claimed' \in [Writers -> Nat] /\ claimed'[t] <= generation
        /\ \A u \in Writers \ {t} : claimed'[u] = claimed[u]
    BY <2>1 DEF PersistenceTypes
  <2>4. /\ alive' \subseteq alive /\ doing[t] = "claiming"
        /\ UNCHANGED << state, file, versions, generation, store, writing, snapshot, promised, trouble >>
    BY <1>2 DEF Claims
  <2>5. PersistenceTypes'
    BY <2>1, <2>2, <2>3, <2>4 DEF PersistenceTypes, PersistenceTypeOK, Versions
  <2>6. SnapshotInv' BY <2>1, <2>2, <2>3, <2>4 DEF SnapshotInv
  <2>7. WriterInv' BY <2>1, <2>2, <2>4 DEF WriterInv
  <2> QED BY <2>5, <2>6, <2>7
<1> QED BY <1>1, <1>2

\* A thread copies the state, takes the writer's lock, or writes.
LEMMA WriteStep ==
    ASSUME PersistenceInv, NEW w \in Writers, Works(w) \/ WriteFails(w)
    PROVE  PersistenceInv'
<1> USE PersistenceBounds, WriterSet
<1> USE DEF PersistenceInv
<1>1. CASE Copies(w)
  <2>1. /\ doing' \in [Writers -> Standings] /\ doing'[w] = "writing"
        /\ \A u \in Writers \ {w} : doing'[u] = doing[u]
    BY <1>1, DoesOne DEF Copies, Standings
  <2>2. /\ snapshot' \in [Writers -> Nat] /\ snapshot'[w] = state
        /\ \A u \in Writers \ {w} : snapshot'[u] = snapshot[u]
    BY <1>1 DEF Copies, PersistenceTypes, PersistenceTypeOK, Versions
  <2>3. PersistenceTypes'
    BY <1>1, <2>1, <2>2 DEF Copies, memory, PersistenceTypes, PersistenceTypeOK, Versions
  <2>4. SnapshotInv'
    BY <1>1, <2>1, <2>2
       DEF Copies, memory, PersistenceTypes, PersistenceTypeOK, SnapshotInv, Versions
  <2>5. WriterInv' BY <1>1, <2>1, <2>2 DEF Copies, WriterInv
  <2> QED BY <2>3, <2>4, <2>5
<1>2. CASE Admits(w)
  <2>1. /\ doing' \in [Writers -> Standings] /\ doing'[w] = "replacing"
        /\ \A u \in Writers \ {w} : doing'[u] = doing[u]
    BY <1>2, DoesOne DEF Admits, Standings
  <2>2. PersistenceTypes'
    BY <1>2, <2>1 DEF Admits, memory, PersistenceTypes, PersistenceTypeOK, Versions
  <2>3. SnapshotInv' BY <1>2, <2>1 DEF Admits, memory, SnapshotInv
  <2>4. WriterInv'
    BY <1>2, <2>1 DEF Admits, WriterInv, SnapshotInv
  <2> QED BY <2>2, <2>3, <2>4
<1>3. CASE Drops(w) \/ Replaces(w) \/ WriteFails(w)
  <2>1. Leaves(w) BY <1>3 DEF Drops, Replaces, WriteFails
  <2>2. /\ doing' \in [Writers -> Standings] /\ doing'[w] = "nothing"
        /\ \A u \in Writers \ {w} : doing'[u] = doing[u]
    BY <2>1, DoesOne DEF Leaves, Standings
  <2>3. /\ UNCHANGED << memory, claimed, snapshot >>
        /\ trouble' \in [{"crashes", "errors", "flushes"} -> Nat]
    BY <1>3 DEF Drops, Replaces, WriteFails, Happens, PersistenceTypes
  <2>4. doing[w] \in {"writing", "replacing"} BY <1>3 DEF Drops, Replaces, WriteFails
  <2>5. store' = "loop" <=> store = "loop" BY <2>1 DEF Leaves
  <2>6. \/ file' = file /\ promised' = promised
        \/ doing[w] = "replacing" /\ file' = snapshot[w] /\ promised' \in {promised, snapshot[w]}
    BY <1>3 DEF Drops, Replaces, WriteFails
  <2>7. doing[w] = "replacing" => file <= snapshot[w] /\ snapshot[w] <= state
    BY DEF WriterInv, SnapshotInv
  <2>8. store' \in {"free", "loop", "clear"} /\ writing' \in {"free", "held"} /\ alive' \subseteq alive
    BY <1>3, <2>1 DEF Leaves, Drops, Replaces, WriteFails, PersistenceTypes, PersistenceTypeOK
  <2>9. PersistenceTypes'
    BY <2>2, <2>3, <2>4, <2>5, <2>6, <2>7, <2>8
       DEF memory, PersistenceTypes, PersistenceTypeOK, Versions
  <2>10. SnapshotInv'
    BY <2>2, <2>3, <2>5, <2>6, <2>7
       DEF memory, PersistenceTypes, PersistenceTypeOK, SnapshotInv, Versions
  <2>11. WriterInv'
    <3>1. CASE doing[w] = "replacing" BY <2>2, <2>3, <3>1 DEF WriterInv
    <3>2. CASE doing[w] # "replacing"
      <4>1. Drops(w) BY <1>3, <3>2 DEF Replaces, WriteFails
      <4> QED BY <2>2, <2>3, <4>1 DEF Drops, WriterInv
    <3> QED BY <3>1, <3>2
  <2> QED BY <2>9, <2>10, <2>11
<1> QED BY <1>1, <1>2, <1>3 DEF Works

\* The process that starts again has what the file has.
LEMMA CrashStep == ASSUME PersistenceInv, Crashes PROVE PersistenceInv'
<1> USE PersistenceBounds, WriterSet
<1>1. trouble' \in [{"crashes", "errors", "flushes"} -> Nat]
  BY DEF Crashes, Happens, PersistenceInv, PersistenceTypes
<1>2. PersistenceTypes'
  BY <1>1 DEF Crashes, PersistenceInv, PersistenceTypes, PersistenceTypeOK, Versions, Standings
<1>3. SnapshotInv'
  BY DEF Crashes, PersistenceInv, PersistenceTypes, PersistenceTypeOK, SnapshotInv, Versions
<1>4. WriterInv' BY DEF Crashes, WriterInv
<1> QED BY <1>2, <1>3, <1>4 DEF PersistenceInv

\* It holds before the first change.
LEMMA InitPersistence == PersistenceInit => PersistenceInv
BY PersistenceBounds, WriterSet
   DEF PersistenceInit, PersistenceInv, PersistenceTypes, PersistenceTypeOK, SnapshotInv, WriterInv,
       Versions, Standings

\* No step of the loop, of a timer's thread or of a crash breaks it.
LEMMA NextPersistence == PersistenceInv /\ [PersistenceNext]_persistenceVars => PersistenceInv'
<1> SUFFICES ASSUME PersistenceInv, [PersistenceNext]_persistenceVars PROVE PersistenceInv' OBVIOUS
<1>1. CASE UNCHANGED persistenceVars
  BY <1>1 DEF persistenceVars, PersistenceInv, PersistenceTypes, PersistenceTypeOK, SnapshotInv,
              WriterInv
<1> QED BY <1>1, LoopStep, TimerStep, WriteStep, CrashStep DEF PersistenceNext

\* What is known of the threads that write the session file holds through every
\* interleaving, failed write and crash.
THEOREM PersistenceInvariance == PersistenceSpec => []PersistenceInv
BY InitPersistence, NextPersistence, PTL DEF PersistenceSpec

\* The file never goes back to an older state, and what a clear or a flush
\* reported as written stays written, through crashes too (persistence.py:
\* 93-142, store.py:153-158).
THEOREM KeptSaves == PersistenceSpec => SavesAreKept
<1>1. PersistenceInv /\ PersistenceInv' /\ [PersistenceNext]_persistenceVars
         => [FileMovesForward /\ PromisesHold']_persistenceVars
  <2> SUFFICES ASSUME PersistenceInv, PersistenceInv', PersistenceNext
               PROVE  FileMovesForward /\ PromisesHold'
    OBVIOUS
  <2>1. file \in Nat /\ snapshot \in [Writers -> Nat]
    BY PersistenceBounds DEF PersistenceInv, PersistenceTypes, PersistenceTypeOK, Versions
  <2>2. PromisesHold' BY DEF PersistenceInv, SnapshotInv, PromisesHold, PersistenceTypes, PersistenceTypeOK, Versions
  <2>3. CASE file' = file
    BY <2>1, <2>2, <2>3 DEF FileMovesForward
  <2>4. CASE file' # file
    <3>1. PICK w \in Writers : Replaces(w)
      BY <2>4 DEF PersistenceNext, Changes, Schedules, Clears, Flushes, Crashes, Fires, Claims, Works,
                  Copies, Admits, Drops, WriteFails
    <3> QED BY <2>1, <2>2, <3>1 DEF Replaces, FileMovesForward, PersistenceInv, WriterInv
  <2> QED BY <2>2, <2>3, <2>4
<1> QED BY <1>1, PersistenceInvariance, PTL DEF PersistenceSpec, SavesAreKept

(***************************************************************************)
(* The messages of a chat                                                  *)
(***************************************************************************)

TurnPlaces  == {"new", "arrived", "received", "posted", "recorded", "rejected", "over"}
SlashPlaces == {"new", "arrived", "received", "clearing", "deleting", "raising", "pruning",
                "answering", "answered", "over"}
NoticePlaces == {"new", "sending", "posted", "discarding", "retaining", "forgetting", "over"}

\* The handlers of a prompt, of a command and of the notice.
TurnSet == [at : TurnPlaces, token : [stops : Nat, clears : Nat], replyTo : {0} \cup Prompts,
            parent : {0} \cup Prompts, doomed : SUBSET Messages]
SlashSet == [at : SlashPlaces, kind : {"none", "clear", "clear_reply", "stop", "stats"},
             target : {0} \cup Prompts, doomed : SUBSET Messages]
NoticeSet == [at : NoticePlaces, clears : Nat, cancelled : BOOLEAN]

ChatTypes ==
    /\ chat \subseteq Messages /\ log \in Seq(Messages) /\ IsInjective(log)
    /\ admitted \subseteq Prompts /\ locked \in {0} \cup Slashes
    /\ stops \in Nat /\ clears \in Nat
    /\ turn \in [Prompts -> TurnSet] /\ slash \in [Slashes -> SlashSet] /\ notice \in NoticeSet
    /\ missed \subseteq {AnswerOf(c) : c \in Slashes}

Logged == ToSet(log)

\* No log, tree or handler has heard of it.
Unheard(m) ==
    /\ m \notin Logged /\ m \notin OfTurns(admitted)
    /\ \A p \in Prompts : m \notin turn[p].doomed
    /\ \A c \in Slashes : m \notin slash[c].doomed

\* In the hands of a /clear that waits.
Doomed(m) == \E c \in Slashes : slash[c].at = "clearing" /\ m \in slash[c].doomed

\* A prompt and its status are unheard of until they are recorded; an admitted
\* turn is over and of the current generation, and what is in the log of an
\* older one is in the hands of the /clear.
TurnInv(p) ==
    /\ turn[p].at \in {"new", "arrived"} => Unheard(PromptOf(p))
    /\ turn[p].at \in {"new", "arrived", "received", "posted"} => Unheard(StatusOf(p))
    /\ turn[p].at = "arrived" => PromptOf(p) \in chat
    /\ turn[p].at = "posted" => StatusOf(p) \in chat
    /\ turn[p].at = "rejected" => /\ StatusOf(p) \in turn[p].doomed
                                  /\ turn[p].doomed \subseteq {PromptOf(p), StatusOf(p)}
    /\ p \in admitted => turn[p].at = "over" /\ turn[p].token.clears = clears
    /\ turn[p].token.clears <= clears
    /\ turn[p].token.clears < clears =>
          /\ PromptOf(p) \in Logged => Doomed(PromptOf(p))
          /\ turn[p].at = "over" /\ StatusOf(p) \in Logged => Doomed(StatusOf(p))

\* A command and its answer are unheard of until they are recorded; a /clear
\* that waits has the whole log but for what was recorded meanwhile, and what
\* it is about to delete is not in the log again.
SlashInv(c) ==
    /\ slash[c].at \in {"new", "arrived"} => Unheard(SlashOf(c))
    /\ slash[c].kind = "clear" /\ slash[c].at # "over" => Unheard(SlashOf(c))
    /\ slash[c].at # "over" => Unheard(AnswerOf(c))
    /\ slash[c].at = "arrived" => SlashOf(c) \in chat
    /\ slash[c].kind = "clear" /\ slash[c].at \notin {"new", "over"} => SlashOf(c) \in chat
    /\ slash[c].at = "answered" => AnswerOf(c) \in chat
    /\ slash[c].at \in {"clearing", "pruning"} => locked = c
    /\ slash[c].at \in {"clearing", "raising"} => slash[c].kind = "clear"
    /\ slash[c].at = "pruning" => slash[c].kind = "clear_reply"
    /\ slash[c].at = "clearing" =>
          \A m \in Logged : \/ m \in slash[c].doomed
                            \/ \E d \in Slashes : m = AnswerOf(d)
                            \/ \E p \in Prompts : turn[p].at = "recorded" /\ m = StatusOf(p)
    /\ slash[c].at = "deleting" /\ slash[c].kind = "clear" =>
          \A m \in Logged : m \notin slash[c].doomed

\* The startup notice likewise.
NoticeInv ==
    /\ notice.at # "over" => Unheard(Notice)
    /\ notice.at \in {"posted", "discarding", "retaining"} => Notice \in chat
    /\ notice.at = "forgetting" => Notice \notin chat
    /\ notice.at = "retaining" => Notice \in failed
    /\ notice.clears <= clears
    /\ notice.at = "over" /\ notice.clears < clears /\ Notice \in Logged =>
          Notice \in failed \/ Doomed(Notice)

HandlersInv ==
    /\ \A p \in Prompts : TurnInv(p)
    /\ \A c \in Slashes : SlashInv(c)
    /\ NoticeInv

\* What a handler is about to record, to delete or to leave to its command.
TurnHolds(p, m) ==
    \/ turn[p].at = "arrived" /\ m = PromptOf(p)
    \/ turn[p].at \in {"posted", "recorded"} /\ m = StatusOf(p)
    \/ turn[p].at = "rejected" /\ m \in turn[p].doomed

SlashHolds(c, m) ==
    \/ slash[c].at \in {"clearing", "deleting", "pruning"} /\ (m \in slash[c].doomed \/ m = SlashOf(c))
    \/ slash[c].at \in {"arrived", "raising"} /\ m = SlashOf(c)
    \/ slash[c].at = "received" /\ slash[c].kind = "clear" /\ m = SlashOf(c)
    \/ slash[c].at = "answered" /\ m = AnswerOf(c)

NoticeHolds(m) == notice.at \in {"posted", "discarding", "retaining"} /\ m = Notice

\* What a later /clear, or a handler, will delete, and what is excused.
Kept(m) ==
    \/ m \in Logged \/ m \in OfTurns(admitted)
    \/ \E p \in Prompts : TurnHolds(p, m)
    \/ \E c \in Slashes : SlashHolds(c, m)
    \/ NoticeHolds(m)
    \/ m \in failed \/ m \in dropped \/ m \in missed

AllKept == \A m \in chat : Kept(m)

ChatInv == ChatTypes /\ HandlersInv /\ AllKept /\ LogIsCurrent

------------------------------------------------------------------------------
(* Messages, the log and deletions                                          *)

\* Messages of different kinds or owners differ.
LEMMA Names ==
    /\ \A x, y : PromptOf(x) = PromptOf(y) => x = y
    /\ \A x, y : StatusOf(x) = StatusOf(y) => x = y
    /\ \A x, y : SlashOf(x) = SlashOf(y) => x = y
    /\ \A x, y : AnswerOf(x) = AnswerOf(y) => x = y
    /\ \A x, y : /\ PromptOf(x) # StatusOf(y) /\ PromptOf(x) # SlashOf(y) /\ PromptOf(x) # AnswerOf(y)
                 /\ StatusOf(x) # SlashOf(y) /\ StatusOf(x) # AnswerOf(y)
                 /\ SlashOf(x) # AnswerOf(y)
    /\ \A x : /\ PromptOf(x) # Notice /\ StatusOf(x) # Notice
              /\ SlashOf(x) # Notice /\ AnswerOf(x) # Notice
BY DEF PromptOf, StatusOf, SlashOf, AnswerOf, Notice

\* They are the messages.
LEMMA MessagesAre ==
    /\ \A p \in Prompts : PromptOf(p) \in Messages /\ StatusOf(p) \in Messages
    /\ \A c \in Slashes : SlashOf(c) \in Messages /\ AnswerOf(c) \in Messages
    /\ Notice \in Messages
    /\ \A m \in Messages : m[1] = "answer" <=> \E c \in Slashes : m = AnswerOf(c)
<1>1. \A m \in Messages : m[1] = "answer" => \E c \in Slashes : m = AnswerOf(c)
  BY DEF Messages, PromptOf, StatusOf, SlashOf, AnswerOf, Notice
<1>2. \A c \in Slashes : AnswerOf(c)[1] = "answer"
  BY DEF AnswerOf
<1> QED BY <1>1, <1>2 DEF Messages

\* The messages of some trees.
LEMMA TurnsAre ==
    ASSUME NEW ps
    PROVE  /\ \A x : PromptOf(x) \in OfTurns(ps) <=> x \in ps
           /\ \A x : StatusOf(x) \in OfTurns(ps) <=> x \in ps
           /\ \A x : SlashOf(x) \notin OfTurns(ps) /\ AnswerOf(x) \notin OfTurns(ps)
           /\ Notice \notin OfTurns(ps)
           /\ \A m \in OfTurns(ps) : \E p \in ps : m = PromptOf(p) \/ m = StatusOf(p)
<1>1. \A m : m \in OfTurns(ps) <=> \E p \in ps : m = PromptOf(p) \/ m = StatusOf(p)
  BY DEF OfTurns
<1> QED BY <1>1, Names

\* The log and its set.
LEMMA LoggedIs == Logged = Range(log)
BY DEF Logged, ToSet, Range

\* Recording adds a message to the log, or pushes the oldest out.
LEMMA RecordIs ==
    ASSUME log \in Seq(Messages), IsInjective(log), NEW m \in Messages, Record(m)
    PROVE  /\ log' \in Seq(Messages) /\ IsInjective(log')
           /\ Logged' \subseteq Logged \cup {m}
           /\ Logged \cup {m} \subseteq Logged' \cup dropped'
           /\ dropped \subseteq dropped'
<1> DEFINE all == Recorded(m)
<1>1. all \in Seq(Messages) /\ IsInjective(all) /\ Range(all) = Range(log) \cup {m}
  <2>1. ToSet(log) = Range(log) BY DEF ToSet, Range
  <2>2. CASE m \in ToSet(log) BY <2>1, <2>2 DEF Recorded
  <2>3. CASE m \notin ToSet(log) BY <2>1, <2>3, LongerQueue DEF Recorded
  <2> QED BY <2>2, <2>3
<1> HIDE DEF all
<1>2. CASE log' = all /\ dropped' = dropped BY <1>1, <1>2 DEF Logged, ToSet, Range
<1>3. CASE log' = Tail(all) /\ dropped' = dropped \cup {Head(all)}
  <2>1. all # <<>> BY <1>1 DEF Range
  <2>2. Tail(all) = SubSeq(all, 2, Len(all)) /\ Head(all) = all[1] BY <1>1, <2>1
  <2> DEFINE rest == SubSeq(all, 2, Len(all))
  <2>3. rest \in Seq(Messages) /\ IsInjective(rest) /\ Range(rest) = Range(all) \ {all[1]}
    BY <1>1, <2>1, RestOfQueue
  <2>4. log' = rest /\ dropped' = dropped \cup {all[1]} BY <1>3, <2>2
  <2> HIDE DEF rest
  <2>5. Logged' = Range(rest) /\ Logged = Range(log) BY <2>4 DEF Logged, ToSet, Range
  <2> QED BY <1>1, <2>3, <2>4, <2>5
<1> QED BY <1>2, <1>3 DEF Record, all

\* Forgetting takes exactly those from the log.
LEMMA ForgetIs ==
    ASSUME log \in Seq(Messages), IsInjective(log), NEW those, ForgetIds(those)
    PROVE  log' \in Seq(Messages) /\ IsInjective(log') /\ Logged' = Logged \ those
<1>1. Logged = Range(log) /\ Logged' = Range(log') BY DEF Logged, ToSet, Range
<1> QED BY <1>1, RemainingQueue DEF ForgetIds

\* A deletion takes those from the chat, or they are known as failed.
LEMMA DeleteIs ==
    ASSUME NEW those, Delete(those)
    PROVE  /\ chat' \subseteq chat /\ failed \subseteq failed'
           /\ \A m \in chat : m \in chat' \/ m \in those
           /\ \A m \in chat' : m \in those => m \in failed'
BY DEF Delete, Refuse

\* The handlers hold what is in hand.
LEMMA InHandIs ==
    \A m : m \in InHand <=> \/ \E p \in Prompts : TurnHolds(p, m)
                            \/ \E c \in Slashes : SlashHolds(c, m)
                            \/ NoticeHolds(m)
<1> TAKE m
<1> DEFINE arrived == {PromptOf(p) : p \in {q \in Prompts : turn[q].at = "arrived"}}
           posted == {StatusOf(p) : p \in {q \in Prompts : turn[q].at \in {"posted", "recorded"}}}
           rejected == UNION {turn[p].doomed : p \in {q \in Prompts : turn[q].at = "rejected"}}
           doomed == UNION {slash[c].doomed \cup {SlashOf(c)} :
                            c \in {d \in Slashes : slash[d].at \in {"clearing", "deleting", "pruning"}}}
           commands == {SlashOf(c) : c \in {d \in Slashes : \/ slash[d].at \in {"arrived", "raising"}
                                                            \/ /\ slash[d].at = "received"
                                                               /\ slash[d].kind = "clear"}}
           answers == {AnswerOf(c) : c \in {d \in Slashes : slash[d].at = "answered"}}
           notices == IF notice.at \in {"posted", "discarding", "retaining"} THEN {Notice} ELSE {}
<1>1. InHand = arrived \cup posted \cup rejected \cup doomed \cup commands \cup answers \cup notices
  BY DEF InHand
<1>2. m \in arrived <=> \E p \in Prompts : turn[p].at = "arrived" /\ m = PromptOf(p) OBVIOUS
<1>3. m \in posted <=> \E p \in Prompts : turn[p].at \in {"posted", "recorded"} /\ m = StatusOf(p) OBVIOUS
<1>4. m \in rejected <=> \E p \in Prompts : turn[p].at = "rejected" /\ m \in turn[p].doomed OBVIOUS
<1>5. m \in doomed <=> \E c \in Slashes : /\ slash[c].at \in {"clearing", "deleting", "pruning"}
                                         /\ (m \in slash[c].doomed \/ m = SlashOf(c))
  OBVIOUS
<1>6. m \in commands <=>
         \E c \in Slashes : /\ \/ slash[c].at \in {"arrived", "raising"}
                               \/ slash[c].at = "received" /\ slash[c].kind = "clear"
                            /\ m = SlashOf(c)
  OBVIOUS
<1>7. m \in answers <=> \E c \in Slashes : slash[c].at = "answered" /\ m = AnswerOf(c) OBVIOUS
<1>8. m \in notices <=> NoticeHolds(m) BY DEF NoticeHolds
<1> HIDE DEF arrived, posted, rejected, doomed, commands, answers, notices
<1>9. m \in arrived \cup posted \cup rejected <=> \E p \in Prompts : TurnHolds(p, m)
  BY <1>2, <1>3, <1>4 DEF TurnHolds
<1>10. m \in doomed \cup commands \cup answers <=> \E c \in Slashes : SlashHolds(c, m)
  BY <1>5, <1>6, <1>7 DEF SlashHolds
<1> QED BY <1>1, <1>8, <1>9, <1>10

\* If everything is kept, nothing is orphaned.
LEMMA OrphansAre == AllKept => NothingIsOrphaned
BY InHandIs DEF NothingIsOrphaned, AllKept, Kept, Logged

------------------------------------------------------------------------------
(* Steps of one handler                                                     *)

\* What was unheard of and is not mentioned now stays so.
LEMMA StaysUnheard ==
    ASSUME NEW heard,
           Logged' \subseteq Logged \cup heard,
           OfTurns(admitted)' \subseteq OfTurns(admitted) \cup heard,
           \A p \in Prompts : turn'[p].doomed \subseteq turn[p].doomed \cup heard,
           \A c \in Slashes : slash'[c].doomed \subseteq slash[c].doomed \cup heard,
           NEW m, Unheard(m), m \notin heard
    PROVE  Unheard(m)'
BY DEF Unheard

\* What a turn's step may be the last to have kept.
LosesOwn(p, m) == m \in {PromptOf(p), StatusOf(p)} /\ (m \in Logged \/ TurnHolds(p, m))

\* A step of a turn mentions its own messages only, and records one only if no
\* /clear waits, or its status while it is to be admitted.
OnlyTurn(p, heard) ==
    /\ UNCHANGED << slash, notice, clears, locked, missed >>
    /\ \A q \in Prompts : q # p => turn'[q] = turn[q]
    /\ heard \subseteq {PromptOf(p), StatusOf(p)}
    /\ turn'[p].doomed \subseteq turn[p].doomed \cup heard
    /\ Logged' \subseteq Logged \cup heard
    /\ Logged \subseteq Logged' \cup dropped' \cup {PromptOf(p), StatusOf(p)}
    /\ \A m \in Logged' : m \in Logged \/ Unheard(m)
    /\ \/ admitted' = admitted
       \/ admitted' = admitted \cup {p} /\ heard = {PromptOf(p), StatusOf(p)}
    /\ \A m \in chat : m \in chat' \/ m \in {PromptOf(p), StatusOf(p)}
    /\ \A m \in chat' : m \in chat \/ m \in {PromptOf(p), StatusOf(p)}
    /\ failed \subseteq failed' /\ dropped \subseteq dropped'
    /\ \/ locked = 0
       \/ heard = {} /\ turn[p].at # "recorded"
       \/ heard = {StatusOf(p)} /\ turn'[p].at = "recorded"

\* What it leaves of the others.
TurnLeaves(p, heard) ==
    /\ \A q \in Prompts : q # p => TurnInv(q)'
    /\ \A c \in Slashes : SlashInv(c)'
    /\ NoticeInv'
    /\ \A m : Unheard(m) /\ m \notin heard => Unheard(m)'
    /\ \A m : Kept(m) /\ ~LosesOwn(p, m) => Kept(m)'
    /\ \A m : Doomed(m)' <=> Doomed(m)

LEMMA TurnStep ==
    ASSUME ChatInv, NEW p \in Prompts, NEW heard, OnlyTurn(p, heard)
    PROVE  TurnLeaves(p, heard)
<1> USE DEF OnlyTurn
<1>1. /\ \A q \in Prompts : TurnInv(q)
      /\ \A c \in Slashes : SlashInv(c)
      /\ NoticeInv /\ 0 \notin Slashes
  BY DEF ChatInv, HandlersInv, Slashes
<1>2. \A m : Unheard(m) /\ m \notin heard => Unheard(m)'
  <2>1. OfTurns(admitted)' \subseteq OfTurns(admitted) \cup heard
    <3>1. CASE admitted' = admitted BY <3>1
    <3>2. CASE admitted' = admitted \cup {p} /\ heard = {PromptOf(p), StatusOf(p)}
      BY <3>2 DEF OfTurns
    <3> QED BY <3>1, <3>2
  <2> QED BY <2>1, StaysUnheard
<1>3. \A m : Doomed(m)' <=> Doomed(m) BY DEF Doomed
<1>4. ASSUME NEW q \in Prompts, q # p PROVE TurnInv(q)'
  <2>1. /\ PromptOf(q) \notin heard /\ StatusOf(q) \notin heard
        /\ PromptOf(q) \notin {PromptOf(p), StatusOf(p)} /\ StatusOf(q) \notin {PromptOf(p), StatusOf(p)}
    BY <1>4, Names
  <2>2. TurnInv(q) /\ turn'[q] = turn[q] /\ (q \in admitted' => q \in admitted) BY <1>1, <1>4
  <2> QED BY <1>2, <1>3, <2>1, <2>2 DEF TurnInv
<1>5. ASSUME NEW c \in Slashes PROVE SlashInv(c)'
  <2>1. /\ SlashOf(c) \notin heard /\ AnswerOf(c) \notin heard
        /\ SlashOf(c) \notin {PromptOf(p), StatusOf(p)} /\ AnswerOf(c) \notin {PromptOf(p), StatusOf(p)}
    BY Names
  <2>2. SlashInv(c) BY <1>1
  <2>3. slash[c].at = "clearing" =>
          \A m \in Logged' : \/ m \in slash[c].doomed
                             \/ \E d \in Slashes : m = AnswerOf(d)
                             \/ \E q \in Prompts : turn'[q].at = "recorded" /\ m = StatusOf(q)
    <3> SUFFICES ASSUME slash[c].at = "clearing", NEW m \in Logged'
                 PROVE  \/ m \in slash[c].doomed
                        \/ \E d \in Slashes : m = AnswerOf(d)
                        \/ \E q \in Prompts : turn'[q].at = "recorded" /\ m = StatusOf(q)
      OBVIOUS
    <3>1. locked # 0 BY <1>1, <2>2 DEF SlashInv
    <3>2. CASE m \in heard BY <3>1, <3>2
    <3>3. CASE m \in Logged /\ m \notin heard
      <4>1. \/ m \in slash[c].doomed
            \/ \E d \in Slashes : m = AnswerOf(d)
            \/ \E q \in Prompts : turn[q].at = "recorded" /\ m = StatusOf(q)
        BY <2>2, <3>3 DEF SlashInv
      <4> QED BY <3>1, <4>1, <3>3
    <3> QED BY <3>2, <3>3
  <2>4. slash[c].at = "deleting" /\ slash[c].kind = "clear" => \A m \in Logged' : m \notin slash[c].doomed
    BY <2>2 DEF SlashInv, Unheard
  <2> QED BY <1>2, <2>1, <2>2, <2>3, <2>4 DEF SlashInv
<1>6. NoticeInv'
  <2>1. Notice \notin heard /\ Notice \notin {PromptOf(p), StatusOf(p)} BY Names
  <2> QED BY <1>1, <1>2, <1>3, <2>1 DEF NoticeInv
<1>7. ASSUME NEW m, Kept(m), ~LosesOwn(p, m) PROVE Kept(m)'
  <2> USE DEF LosesOwn
  <2>1. CASE m \in Logged BY <1>7, <2>1 DEF Kept
  <2>2. CASE m \in OfTurns(admitted) BY <2>2 DEF Kept, OfTurns
  <2>3. CASE \E q \in Prompts : TurnHolds(q, m)
    <3>1. PICK q \in Prompts : TurnHolds(q, m) BY <2>3
    <3>2. q # p BY <1>1, <1>7, <3>1 DEF TurnHolds, TurnInv
    <3>3. TurnHolds(q, m)' BY <3>1, <3>2 DEF TurnHolds
    <3> QED BY <3>3 DEF Kept
  <2>4. CASE \E c \in Slashes : SlashHolds(c, m) BY <2>4 DEF Kept, SlashHolds
  <2>5. CASE NoticeHolds(m) BY <2>5 DEF Kept, NoticeHolds
  <2> QED BY <1>7, <2>1, <2>2, <2>3, <2>4, <2>5 DEF Kept
<1> QED BY <1>2, <1>3, <1>4, <1>5, <1>6, <1>7 DEF TurnLeaves

\* What a turn becomes.
LEMMA TurnBecomes ==
    ASSUME ChatTypes, NEW p \in Prompts, NEW r \in TurnSet, turn' = [turn EXCEPT ![p] = r]
    PROVE  /\ turn' \in [Prompts -> TurnSet] /\ turn'[p] = r
           /\ \A q \in Prompts : q # p => turn'[q] = turn[q]
BY DEF ChatTypes

\* A user's prompt appears in the chat.
LEMMA PromptArrivesStep ==
    ASSUME ChatInv, NEW p \in Prompts, NEW r \in {0} \cup Prompts, PromptArrives(p, r)
    PROVE  ChatInv'
<1> DEFINE new == [turn[p] EXCEPT !.at = "arrived", !.replyTo = r]
<1>1. ChatTypes /\ TurnInv(p) /\ turn[p] \in TurnSet BY DEF ChatInv, HandlersInv, ChatTypes
<1>2. new \in TurnSet /\ new.at = "arrived" /\ new.doomed = turn[p].doomed /\ new.token = turn[p].token
  BY <1>1 DEF TurnSet, TurnPlaces
<1>3. /\ turn[p].at = "new" /\ chat' = chat \cup {PromptOf(p)} /\ turn' = [turn EXCEPT ![p] = new]
      /\ UNCHANGED << log, admitted, locked, stops, clears, slash, notice, failed, dropped, missed >>
  BY DEF PromptArrives, gens, past
<1> HIDE DEF new
<1>4. turn' \in [Prompts -> TurnSet] /\ turn'[p] = new /\ \A q \in Prompts : q # p => turn'[q] = turn[q]
  BY <1>1, <1>2, <1>3, TurnBecomes
<1>5. Logged' = Logged BY <1>3 DEF Logged
<1>6. TurnLeaves(p, {})
  <2>1. OnlyTurn(p, {}) BY <1>2, <1>3, <1>4, <1>5 DEF OnlyTurn
  <2> QED BY <2>1, TurnStep
<1>7. ChatTypes' BY <1>1, <1>3, <1>4, MessagesAre DEF ChatTypes
<1>8. TurnInv(p)' BY <1>1, <1>2, <1>3, <1>4, <1>5, <1>6 DEF TurnInv, TurnLeaves
<1>9. AllKept'
  <2>1. \A m : ~LosesOwn(p, m) BY <1>1, <1>3 DEF LosesOwn, TurnHolds, TurnInv, Unheard
  <2>2. TurnHolds(p, PromptOf(p))' BY <1>2, <1>4 DEF TurnHolds
  <2> QED BY <1>3, <1>6, <2>1, <2>2 DEF ChatInv, AllKept, Kept, TurnLeaves
<1>10. LogIsCurrent' BY <1>3, <1>5 DEF ChatInv, LogIsCurrent, Logged
<1> QED BY <1>6, <1>7, <1>8, <1>9, <1>10 DEF ChatInv, HandlersInv, TurnLeaves

\* The workflow receives it: it is recorded, and of the current generation.
LEMMA PromptReceivedStep ==
    ASSUME ChatInv, NEW p \in Prompts, PromptReceived(p)
    PROVE  ChatInv'
<1> DEFINE new == [turn[p] EXCEPT !.at = "received", !.token = Now]
<1>1. ChatTypes /\ TurnInv(p) /\ turn[p] \in TurnSet /\ LogIsCurrent
  BY DEF ChatInv, HandlersInv, ChatTypes
<1>2. /\ new \in TurnSet /\ new.at = "received" /\ new.doomed = turn[p].doomed
      /\ new.token.clears = clears
  BY <1>1 DEF TurnSet, TurnPlaces, Now, ChatTypes
<1>3. /\ turn[p].at = "arrived" /\ locked = 0 /\ turn' = [turn EXCEPT ![p] = new]
      /\ Record(PromptOf(p))
      /\ UNCHANGED << chat, admitted, locked, stops, clears, slash, notice, failed, missed >>
  BY DEF PromptReceived, gens
<1> HIDE DEF new
<1>4. turn' \in [Prompts -> TurnSet] /\ turn'[p] = new /\ \A q \in Prompts : q # p => turn'[q] = turn[q]
  BY <1>1, <1>2, <1>3, TurnBecomes
<1>5. /\ log' \in Seq(Messages) /\ IsInjective(log')
      /\ Logged' \subseteq Logged \cup {PromptOf(p)}
      /\ Logged \cup {PromptOf(p)} \subseteq Logged' \cup dropped' /\ dropped \subseteq dropped'
  BY <1>1, <1>3, RecordIs, MessagesAre DEF ChatTypes
<1>6. TurnLeaves(p, {PromptOf(p)})
  <2>1. Unheard(PromptOf(p)) BY <1>1, <1>3 DEF TurnInv
  <2>2. OnlyTurn(p, {PromptOf(p)}) BY <1>2, <1>3, <1>4, <1>5, <2>1 DEF OnlyTurn
  <2> QED BY <2>2, TurnStep
<1>7. ChatTypes' BY <1>1, <1>3, <1>4, <1>5 DEF ChatTypes
<1>8. TurnInv(p)'
  <2>1. PromptOf(p) # StatusOf(p) /\ clears \in Nat BY <1>1, Names DEF ChatTypes
  <2> QED BY <1>1, <1>2, <1>3, <1>4, <1>5, <1>6, <2>1 DEF TurnInv, TurnLeaves
<1>9. AllKept'
  <2>1. \A m : LosesOwn(p, m) => m = PromptOf(p)
    BY <1>1, <1>3 DEF LosesOwn, TurnHolds, TurnInv, Unheard
  <2>2. Kept(PromptOf(p))' BY <1>5 DEF Kept
  <2> QED BY <1>3, <1>6, <2>1, <2>2 DEF ChatInv, AllKept, TurnLeaves
<1>10. LogIsCurrent' BY <1>1, <1>3, <1>5 DEF LogIsCurrent, TurnInv, Logged
<1> QED BY <1>6, <1>7, <1>8, <1>9, <1>10 DEF ChatInv, HandlersInv, TurnLeaves

\* Its status message is delivered, or the turn ends.
LEMMA StatusPostedStep ==
    ASSUME ChatInv, NEW p \in Prompts, StatusPosted(p)
    PROVE  ChatInv'
<1>1. ChatTypes /\ TurnInv(p) /\ turn[p] \in TurnSet /\ LogIsCurrent
  BY DEF ChatInv, HandlersInv, ChatTypes
<1>2. PICK new \in TurnSet :
         /\ turn' = [turn EXCEPT ![p] = new]
         /\ new.doomed = turn[p].doomed /\ new.token = turn[p].token
         /\ \/ new.at = "posted" /\ chat' = chat \cup {StatusOf(p)}
            \/ new.at = "over" /\ chat' = chat
  <2> DEFINE parent == IF turn[p].replyTo \in admitted THEN turn[p].replyTo ELSE 0
  <2>1. CASE chat' = chat \cup {StatusOf(p)} /\ turn' = [turn EXCEPT ![p].at = "posted", ![p].parent = parent]
    <3> DEFINE new == [turn[p] EXCEPT !.at = "posted", !.parent = parent]
    <3>1. parent \in {0} \cup Prompts BY <1>1 DEF ChatTypes
    <3> HIDE DEF parent
    <3>2. /\ new \in TurnSet /\ new.at = "posted" /\ new.doomed = turn[p].doomed
          /\ new.token = turn[p].token
      BY <1>1, <3>1 DEF TurnSet, TurnPlaces
    <3>3. turn' = [turn EXCEPT ![p] = new] BY <2>1
    <3> HIDE DEF new
    <3> QED BY <2>1, <3>2, <3>3
  <2>2. CASE TurnTo(p, "over") /\ chat' = chat
    <3> DEFINE new == [turn[p] EXCEPT !.at = "over"]
    <3>1. /\ new \in TurnSet /\ new.at = "over" /\ new.doomed = turn[p].doomed
          /\ new.token = turn[p].token
      BY <1>1 DEF TurnSet, TurnPlaces
    <3>2. turn' = [turn EXCEPT ![p] = new] BY <2>2 DEF TurnTo
    <3> HIDE DEF new
    <3> QED BY <2>2, <3>1, <3>2
  <2> QED BY <2>1, <2>2 DEF StatusPosted, Post
<1>3. /\ turn[p].at = "received"
      /\ UNCHANGED << log, admitted, locked, stops, clears, slash, notice, failed, dropped, missed >>
  BY DEF StatusPosted, gens
<1>4. turn' \in [Prompts -> TurnSet] /\ turn'[p] = new /\ \A q \in Prompts : q # p => turn'[q] = turn[q]
  BY <1>1, <1>2, TurnBecomes
<1>5. Logged' = Logged BY <1>3 DEF Logged
<1>6. TurnLeaves(p, {})
  <2>1. OnlyTurn(p, {}) BY <1>2, <1>3, <1>4, <1>5 DEF OnlyTurn
  <2> QED BY <2>1, TurnStep
<1>7. ChatTypes' BY <1>1, <1>2, <1>3, <1>4, MessagesAre DEF ChatTypes
<1>8. TurnInv(p)'
  <2>1. p \notin admitted /\ Unheard(StatusOf(p)) BY <1>1, <1>3 DEF TurnInv
  <2>2. StatusOf(p) \notin Logged BY <2>1 DEF Unheard
  <2> QED BY <1>1, <1>2, <1>3, <1>4, <1>5, <1>6, <2>1, <2>2 DEF TurnInv, TurnLeaves
<1>9. AllKept'
  <2>1. \A m : LosesOwn(p, m) => m \in Logged' BY <1>1, <1>3, <1>5 DEF LosesOwn, TurnHolds
  <2>2. \A m \in chat' : m \notin chat => TurnHolds(p, m)' BY <1>2, <1>4 DEF TurnHolds
  <2> QED BY <1>6, <2>1, <2>2 DEF ChatInv, AllKept, Kept, TurnLeaves
<1>10. LogIsCurrent' BY <1>1, <1>2, <1>5 DEF LogIsCurrent, Logged
<1> QED BY <1>6, <1>7, <1>8, <1>9, <1>10 DEF ChatInv, HandlersInv, TurnLeaves

\* The status is recorded, even while a /clear waits.
LEMMA StatusRecordedStep ==
    ASSUME ChatInv, NEW p \in Prompts, StatusRecorded(p)
    PROVE  ChatInv'
<1> DEFINE new == [turn[p] EXCEPT !.at = "recorded"]
<1>1. ChatTypes /\ TurnInv(p) /\ turn[p] \in TurnSet /\ LogIsCurrent
  BY DEF ChatInv, HandlersInv, ChatTypes
<1>2. /\ new \in TurnSet /\ new.at = "recorded" /\ new.doomed = turn[p].doomed
      /\ new.token = turn[p].token
  BY <1>1 DEF TurnSet, TurnPlaces
<1>3. /\ turn[p].at = "posted" /\ turn' = [turn EXCEPT ![p] = new]
      /\ Record(StatusOf(p))
      /\ UNCHANGED << chat, admitted, locked, stops, clears, slash, notice, failed, missed >>
  BY DEF StatusRecorded, TurnTo, gens
<1> HIDE DEF new
<1>4. turn' \in [Prompts -> TurnSet] /\ turn'[p] = new /\ \A q \in Prompts : q # p => turn'[q] = turn[q]
  BY <1>1, <1>2, <1>3, TurnBecomes
<1>5. /\ log' \in Seq(Messages) /\ IsInjective(log')
      /\ Logged' \subseteq Logged \cup {StatusOf(p)}
      /\ Logged \cup {StatusOf(p)} \subseteq Logged' \cup dropped' /\ dropped \subseteq dropped'
  BY <1>1, <1>3, RecordIs, MessagesAre DEF ChatTypes
<1>6. TurnLeaves(p, {StatusOf(p)})
  <2>1. Unheard(StatusOf(p)) BY <1>1, <1>3 DEF TurnInv
  <2>2. OnlyTurn(p, {StatusOf(p)}) BY <1>2, <1>3, <1>4, <1>5, <2>1 DEF OnlyTurn
  <2> QED BY <2>2, TurnStep
<1>7. ChatTypes' BY <1>1, <1>3, <1>4, <1>5 DEF ChatTypes
<1>8. TurnInv(p)'
  <2>1. PromptOf(p) # StatusOf(p) BY Names
  <2> QED BY <1>1, <1>2, <1>3, <1>4, <1>5, <1>6, <2>1 DEF TurnInv, TurnLeaves
<1>9. AllKept'
  <2>1. \A m : LosesOwn(p, m) => m \in Logged' \cup dropped'
    BY <1>1, <1>3, <1>5 DEF LosesOwn, TurnHolds
  <2> QED BY <1>3, <1>6, <2>1 DEF ChatInv, AllKept, Kept, TurnLeaves
<1>10. LogIsCurrent' BY <1>1, <1>3, <1>5 DEF LogIsCurrent, TurnInv, Logged
<1> QED BY <1>6, <1>7, <1>8, <1>9, <1>10 DEF ChatInv, HandlersInv, TurnLeaves

\* The turn is admitted, or rejected with what it is to delete.
LEMMA AdmissionStep ==
    ASSUME ChatInv, NEW p \in Prompts, Admission(p)
    PROVE  ChatInv'
<1>1. ChatTypes /\ TurnInv(p) /\ turn[p] \in TurnSet /\ LogIsCurrent
  BY DEF ChatInv, HandlersInv, ChatTypes
<1> DEFINE Mine == {PromptOf(p), StatusOf(p)}
<1>2. PICK new \in TurnSet :
         /\ turn' = [turn EXCEPT ![p] = new] /\ new.token = turn[p].token
         /\ \/ /\ new.at = "rejected" /\ admitted' = admitted
               /\ StatusOf(p) \in new.doomed /\ new.doomed \subseteq Mine
            \/ /\ new.at = "over" /\ admitted' = admitted \cup {p}
               /\ new.doomed = turn[p].doomed /\ new.token = Now
  <2>1. ASSUME NEW those \in SUBSET Mine, StatusOf(p) \in those, admitted' = admitted,
               turn' = [turn EXCEPT ![p].at = "rejected", ![p].doomed = those]
        PROVE  \E new \in TurnSet :
                  /\ turn' = [turn EXCEPT ![p] = new] /\ new.token = turn[p].token
                  /\ new.at = "rejected" /\ new.doomed = those
    <3> DEFINE new == [turn[p] EXCEPT !.at = "rejected", !.doomed = those]
    <3>1. those \in SUBSET Messages BY MessagesAre
    <3>2. new \in TurnSet /\ new.at = "rejected" /\ new.doomed = those /\ new.token = turn[p].token
      BY <1>1, <3>1 DEF TurnSet, TurnPlaces
    <3>3. turn' = [turn EXCEPT ![p] = new] BY <2>1
    <3> HIDE DEF new
    <3> QED BY <3>2, <3>3
  <2>2. CASE turn[p].token = Now /\ admitted' = admitted \cup {p} /\ TurnTo(p, "over")
    <3> DEFINE new == [turn[p] EXCEPT !.at = "over"]
    <3>1. /\ new \in TurnSet /\ new.at = "over" /\ new.doomed = turn[p].doomed
          /\ new.token = turn[p].token
      BY <1>1 DEF TurnSet, TurnPlaces
    <3>2. turn' = [turn EXCEPT ![p] = new] BY <2>2 DEF TurnTo
    <3> HIDE DEF new
    <3> QED BY <2>2, <3>1, <3>2
  <2>3. CASE /\ admitted' = admitted
             /\ turn' = [turn EXCEPT ![p].at = "rejected", ![p].doomed = {StatusOf(p)}]
    <3>1. {StatusOf(p)} \in SUBSET Mine OBVIOUS
    <3> QED BY <2>1, <2>3, <3>1
  <2>4. CASE /\ admitted' = admitted
             /\ turn' = [turn EXCEPT ![p].at = "rejected", ![p].doomed = {PromptOf(p), StatusOf(p)}]
    <3>1. Mine \in SUBSET Mine OBVIOUS
    <3> QED BY <2>1, <2>4, <3>1
  <2> QED BY <2>2, <2>3, <2>4 DEF Admission
<1>3. /\ turn[p].at = "recorded" /\ locked = 0
      /\ UNCHANGED << chat, log, locked, stops, clears, slash, notice, failed, dropped, missed >>
  BY DEF Admission, gens, past
<1>4. turn' \in [Prompts -> TurnSet] /\ turn'[p] = new /\ \A q \in Prompts : q # p => turn'[q] = turn[q]
  BY <1>1, <1>2, TurnBecomes
<1>5. Logged' = Logged BY <1>3 DEF Logged
<1>6. TurnLeaves(p, Mine)
  <2>1. OnlyTurn(p, Mine) BY <1>2, <1>3, <1>4, <1>5 DEF OnlyTurn
  <2> QED BY <2>1, TurnStep
<1>7. ChatTypes' BY <1>1, <1>2, <1>3, <1>4 DEF ChatTypes
<1>8. TurnInv(p)'
  <2>1. clears \in Nat /\ Now.clears = clears BY <1>1 DEF Now, ChatTypes
  <2> QED BY <1>1, <1>2, <1>3, <1>4, <1>5, <1>6, <2>1 DEF TurnInv, TurnLeaves
<1>9. AllKept'
  <2>1. \A m : LosesOwn(p, m) => m \in Logged' \/ TurnHolds(p, m)' \/ m \in OfTurns(admitted')
    <3>1. StatusOf(p) \in OfTurns(admitted \cup {p}) BY TurnsAre
    <3> QED BY <1>2, <1>3, <1>4, <1>5, <3>1 DEF LosesOwn, TurnHolds
  <2> QED BY <1>3, <1>6, <2>1 DEF ChatInv, AllKept, Kept, TurnLeaves
<1>10. LogIsCurrent' BY <1>1, <1>3, <1>5 DEF LogIsCurrent, Logged
<1> QED BY <1>6, <1>7, <1>8, <1>9, <1>10 DEF ChatInv, HandlersInv, TurnLeaves

\* What a rejected turn leaves is deleted and forgotten.
LEMMA RejectedStep ==
    ASSUME ChatInv, NEW p \in Prompts, Rejected(p)
    PROVE  ChatInv'
<1> DEFINE new == [turn[p] EXCEPT !.at = "over"]
           those == turn[p].doomed
<1>1. ChatTypes /\ TurnInv(p) /\ turn[p] \in TurnSet /\ LogIsCurrent
  BY DEF ChatInv, HandlersInv, ChatTypes
<1>2. /\ new \in TurnSet /\ new.at = "over" /\ new.doomed = turn[p].doomed
      /\ new.token = turn[p].token
  BY <1>1 DEF TurnSet, TurnPlaces
<1>3. /\ turn[p].at = "rejected" /\ turn' = [turn EXCEPT ![p] = new]
      /\ Delete(those) /\ ForgetIds(those)
      /\ UNCHANGED << admitted, locked, stops, clears, slash, notice, dropped, missed >>
  BY DEF Rejected, TurnTo, gens
<1> HIDE DEF new
<1>4. turn' \in [Prompts -> TurnSet] /\ turn'[p] = new /\ \A q \in Prompts : q # p => turn'[q] = turn[q]
  BY <1>1, <1>2, <1>3, TurnBecomes
<1>5. log' \in Seq(Messages) /\ IsInjective(log') /\ Logged' = Logged \ those
  BY <1>1, <1>3, ForgetIs DEF ChatTypes
<1>6. /\ chat' \subseteq chat /\ failed \subseteq failed'
      /\ \A m \in chat : m \in chat' \/ m \in those
      /\ \A m \in chat' : m \in those => m \in failed'
  BY <1>3, DeleteIs
<1>7. those \subseteq {PromptOf(p), StatusOf(p)} /\ StatusOf(p) \in those BY <1>1, <1>3 DEF TurnInv
<1> HIDE DEF those
<1>8. TurnLeaves(p, {})
  <2>1. OnlyTurn(p, {}) BY <1>2, <1>3, <1>4, <1>5, <1>6, <1>7 DEF OnlyTurn
  <2> QED BY <2>1, TurnStep
<1>9. ChatTypes' BY <1>1, <1>3, <1>4, <1>5, <1>6 DEF ChatTypes
<1>10. TurnInv(p)' BY <1>1, <1>2, <1>3, <1>4, <1>5, <1>7, <1>8 DEF TurnInv, TurnLeaves
<1>11. AllKept'
  <2>1. \A m : LosesOwn(p, m) => m \in Logged' \/ m \in those
    BY <1>3, <1>5 DEF LosesOwn, TurnHolds, those
  <2> QED BY <1>6, <1>8, <2>1 DEF ChatInv, AllKept, Kept, TurnLeaves
<1>12. LogIsCurrent' BY <1>1, <1>5, <1>6 DEF LogIsCurrent, Logged
<1> QED BY <1>8, <1>9, <1>10, <1>11, <1>12 DEF ChatInv, HandlersInv, TurnLeaves

\* A step of the notice's publisher mentions nothing else.
OnlyNotice ==
    /\ UNCHANGED << turn, slash, admitted, locked, stops, clears, missed >>
    /\ Logged' \subseteq Logged \cup {Notice}
    /\ Logged \subseteq Logged' \cup dropped' \cup {Notice}
    /\ Logged' \subseteq Logged \/ (Unheard(Notice) /\ locked = 0)
    /\ \A m \in chat : m \in chat' \/ m = Notice
    /\ \A m \in chat' : m \in chat \/ m = Notice
    /\ failed \subseteq failed' /\ dropped \subseteq dropped'

\* What it leaves of the handlers.
NoticeLeaves ==
    /\ \A p \in Prompts : TurnInv(p)'
    /\ \A c \in Slashes : SlashInv(c)'
    /\ Logged' \subseteq Logged => (Unheard(Notice) => Unheard(Notice)')
    /\ \A m : Kept(m) /\ m # Notice => Kept(m)'
    /\ Kept(Notice) /\ Notice \notin Logged /\ ~NoticeHolds(Notice) => Kept(Notice)'
    /\ \A m : Doomed(m)' <=> Doomed(m)

LEMMA NoticeStep ==
    ASSUME ChatInv, OnlyNotice
    PROVE  NoticeLeaves
<1> USE DEF OnlyNotice
<1>1. /\ \A p \in Prompts : TurnInv(p)
      /\ \A c \in Slashes : SlashInv(c) /\ 0 \notin Slashes
  BY DEF ChatInv, HandlersInv, Slashes
<1>2. \A m : Unheard(m) /\ m # Notice => Unheard(m)'
  <2>1. OfTurns(admitted)' = OfTurns(admitted) OBVIOUS
  <2> QED BY <2>1, StaysUnheard DEF Unheard
<1>3. Logged' \subseteq Logged => (Unheard(Notice) => Unheard(Notice)') BY DEF Unheard
<1>4. \A m : Doomed(m)' <=> Doomed(m) BY DEF Doomed
<1>5. ASSUME NEW p \in Prompts PROVE TurnInv(p)'
  <2>1. PromptOf(p) # Notice /\ StatusOf(p) # Notice BY Names
  <2> QED BY <1>1, <1>2, <1>4, <2>1 DEF TurnInv
<1>6. ASSUME NEW c \in Slashes PROVE SlashInv(c)'
  <2>1. SlashOf(c) # Notice /\ AnswerOf(c) # Notice BY Names
  <2>2. SlashInv(c) BY <1>1
  <2>3. slash[c].at = "clearing" => Logged' \subseteq Logged BY <1>1, <2>2 DEF SlashInv
  <2>4. slash[c].at = "deleting" /\ slash[c].kind = "clear" => \A m \in Logged' : m \notin slash[c].doomed
    BY <2>2 DEF SlashInv, Unheard
  <2> QED BY <1>2, <2>1, <2>2, <2>3, <2>4 DEF SlashInv
<1>7. ASSUME NEW m, Kept(m), m # Notice \/ (m \notin Logged /\ ~NoticeHolds(m)) PROVE Kept(m)'
  <2>1. CASE \E p \in Prompts : TurnHolds(p, m) BY <2>1 DEF Kept, TurnHolds
  <2>2. CASE \E c \in Slashes : SlashHolds(c, m) BY <2>2 DEF Kept, SlashHolds
  <2>3. CASE m \in Logged \/ m \in OfTurns(admitted) BY <1>7, <2>3 DEF Kept
  <2> QED BY <1>7, <2>1, <2>2, <2>3 DEF Kept, NoticeHolds
<1> QED BY <1>3, <1>4, <1>5, <1>6, <1>7 DEF NoticeLeaves

\* The notice is sent, posted, discarded, kept or forgotten.
LEMMA NoticeSteps ==
    ASSUME ChatInv,
           \/ NoticeStarts \/ NoticePosted \/ NoticeCancelled \/ NoticeFinalized
           \/ NoticeDeleted \/ NoticeRetained \/ NoticeForgotten
    PROVE  ChatInv'
<1>1. ChatTypes /\ NoticeInv /\ LogIsCurrent /\ notice \in NoticeSet /\ \A m \in chat : Kept(m)
  BY DEF ChatInv, HandlersInv, ChatTypes, AllKept
<1>2. ASSUME NEW new \in NoticeSet, notice' = new, OnlyNotice, NoticeInv',
             log' \in Seq(Messages), IsInjective(log'), chat' \subseteq Messages,
             Notice \in chat' => Kept(Notice)', Notice \in Logged' => Notice \in chat'
      PROVE  ChatInv'
  <2>1. NoticeLeaves BY <1>2, NoticeStep
  <2>2. ChatTypes' BY <1>1, <1>2 DEF ChatTypes, OnlyNotice
  <2>3. AllKept' BY <1>1, <1>2, <2>1 DEF AllKept, NoticeLeaves, OnlyNotice
  <2>4. LogIsCurrent' BY <1>1, <1>2 DEF LogIsCurrent, OnlyNotice, Logged
  <2> QED BY <1>2, <2>1, <2>2, <2>3, <2>4 DEF ChatInv, HandlersInv, NoticeLeaves
<1>3. clears \in Nat /\ log \in Seq(Messages) /\ IsInjective(log) /\ chat \subseteq Messages
      /\ Notice \in Messages
  BY <1>1, MessagesAre DEF ChatTypes
<1>4. CASE NoticeStarts
  <2> DEFINE new == [notice EXCEPT !.at = "sending", !.clears = clears]
  <2>1. new \in NoticeSet /\ new.at = "sending" /\ new.clears = clears
    BY <1>1, <1>3 DEF NoticeSet, NoticePlaces
  <2>2. /\ notice.at = "new" /\ notice' = new
        /\ UNCHANGED << chat, log, admitted, locked, stops, clears, turn, slash, failed, dropped, missed >>
    BY <1>4 DEF NoticeStarts, gens, past
  <2> HIDE DEF new
  <2>3. Logged' = Logged BY <2>2 DEF Logged
  <2>4. OnlyNotice BY <2>2, <2>3 DEF OnlyNotice
  <2>5. NoticeLeaves BY <2>4, NoticeStep
  <2>6. NoticeInv' BY <1>1, <1>3, <2>1, <2>2, <2>3, <2>5 DEF NoticeInv, NoticeLeaves
  <2>7. Notice \notin Logged /\ ~NoticeHolds(Notice) BY <1>1, <2>2 DEF NoticeInv, Unheard, NoticeHolds
  <2> QED BY <1>1, <1>2, <1>3, <2>1, <2>2, <2>3, <2>4, <2>5, <2>6, <2>7 DEF NoticeLeaves
<1>5. CASE NoticePosted
  <2>1. PICK new \in NoticeSet : /\ notice' = new /\ new.clears = notice.clears
                                 /\ \/ new.at = "posted" /\ chat' = chat \cup {Notice}
                                    \/ new.at = "over" /\ chat' = chat
    <3>1. CASE chat' = chat \cup {Notice} /\ notice' = [notice EXCEPT !.at = "posted"]
      <4>1. /\ [notice EXCEPT !.at = "posted"] \in NoticeSet
            /\ [notice EXCEPT !.at = "posted"].at = "posted"
            /\ [notice EXCEPT !.at = "posted"].clears = notice.clears
        BY <1>1 DEF NoticeSet, NoticePlaces
      <4> QED BY <3>1, <4>1
    <3>2. CASE chat' = chat /\ notice' = [notice EXCEPT !.at = "over"]
      <4>1. /\ [notice EXCEPT !.at = "over"] \in NoticeSet
            /\ [notice EXCEPT !.at = "over"].at = "over"
            /\ [notice EXCEPT !.at = "over"].clears = notice.clears
        BY <1>1 DEF NoticeSet, NoticePlaces
      <4> QED BY <3>2, <4>1
    <3> QED BY <1>5, <3>1, <3>2 DEF NoticePosted, Post
  <2>2. /\ notice.at = "sending"
        /\ UNCHANGED << log, admitted, locked, stops, clears, turn, slash, failed, dropped, missed >>
    BY <1>5 DEF NoticePosted, gens
  <2>3. Logged' = Logged BY <2>2 DEF Logged
  <2>4. OnlyNotice BY <2>1, <2>2, <2>3 DEF OnlyNotice
  <2>5. NoticeLeaves BY <2>4, NoticeStep
  <2>6. Notice \notin Logged BY <1>1, <2>2 DEF NoticeInv, Unheard
  <2>7. NoticeInv' BY <1>1, <2>1, <2>2, <2>3, <2>5, <2>6 DEF NoticeInv, NoticeLeaves
  <2>8. Notice \in chat' => Kept(Notice)'
    <3>1. CASE new.at = "posted" BY <2>1, <3>1 DEF Kept, NoticeHolds
    <3>2. CASE chat' = chat BY <1>1, <2>2, <2>5, <2>6, <3>2 DEF NoticeLeaves, NoticeHolds
    <3> QED BY <2>1, <3>1, <3>2
  <2> QED BY <1>2, <1>3, <2>1, <2>2, <2>3, <2>4, <2>6, <2>7, <2>8
<1>6. CASE NoticeCancelled
  <2> DEFINE new == [notice EXCEPT !.cancelled = TRUE]
  <2>1. new \in NoticeSet /\ new.at = notice.at /\ new.clears = notice.clears
    BY <1>1 DEF NoticeSet, NoticePlaces
  <2>2. /\ notice.at = "posted" /\ notice' = new
        /\ UNCHANGED << chat, log, admitted, locked, stops, clears, turn, slash, failed, dropped, missed >>
    BY <1>6 DEF NoticeCancelled, gens, past
  <2> HIDE DEF new
  <2>3. Logged' = Logged BY <2>2 DEF Logged
  <2>4. OnlyNotice BY <2>2, <2>3 DEF OnlyNotice
  <2>5. NoticeLeaves BY <2>4, NoticeStep
  <2>6. NoticeInv' BY <1>1, <2>1, <2>2, <2>3, <2>5 DEF NoticeInv, NoticeLeaves
  <2>7. Kept(Notice)' BY <2>1, <2>2 DEF Kept, NoticeHolds
  <2>8. Notice \in chat' BY <1>1, <2>2 DEF NoticeInv
  <2> QED BY <1>2, <1>3, <2>1, <2>2, <2>3, <2>4, <2>6, <2>7, <2>8
<1>7. CASE NoticeFinalized
  <2>1. PICK new \in NoticeSet :
           /\ notice' = new /\ new.clears = notice.clears
           /\ \/ new.at = "discarding" /\ log' = log /\ dropped' = dropped
              \/ new.at = "over" /\ notice.clears = clears /\ Record(Notice)
    <3>1. CASE /\ notice' = [notice EXCEPT !.at = "discarding"]
               /\ UNCHANGED << log, dropped >>
      <4>1. /\ [notice EXCEPT !.at = "discarding"] \in NoticeSet
            /\ [notice EXCEPT !.at = "discarding"].at = "discarding"
            /\ [notice EXCEPT !.at = "discarding"].clears = notice.clears
        BY <1>1 DEF NoticeSet, NoticePlaces
      <4> QED BY <3>1, <4>1
    <3>2. CASE notice.clears = clears /\ notice' = [notice EXCEPT !.at = "over"] /\ Record(Notice)
      <4>1. /\ [notice EXCEPT !.at = "over"] \in NoticeSet
            /\ [notice EXCEPT !.at = "over"].at = "over"
            /\ [notice EXCEPT !.at = "over"].clears = notice.clears
        BY <1>1 DEF NoticeSet, NoticePlaces
      <4> QED BY <3>2, <4>1
    <3> QED BY <1>7, <3>1, <3>2 DEF NoticeFinalized
  <2>2. /\ notice.at = "posted" /\ locked = 0
        /\ UNCHANGED << chat, admitted, locked, stops, clears, turn, slash, failed, missed >>
    BY <1>7 DEF NoticeFinalized, gens
  <2>3. Unheard(Notice) /\ Notice \notin Logged /\ Notice \in chat
    BY <1>1, <2>2 DEF NoticeInv, Unheard
  <2>4. CASE new.at = "discarding" /\ log' = log /\ dropped' = dropped
    <3>1. Logged' = Logged BY <2>4 DEF Logged
    <3>2. OnlyNotice BY <2>2, <2>4, <3>1 DEF OnlyNotice
    <3>3. NoticeLeaves BY <3>2, NoticeStep
    <3>4. NoticeInv' BY <1>1, <2>1, <2>2, <2>3, <2>4, <3>1, <3>3 DEF NoticeInv, NoticeLeaves
    <3>5. Kept(Notice)' BY <2>1, <2>4 DEF Kept, NoticeHolds
    <3> QED BY <1>2, <1>3, <2>1, <2>2, <2>3, <2>4, <3>2, <3>4, <3>5
  <2>5. CASE new.at = "over" /\ notice.clears = clears /\ Record(Notice)
    <3>1. /\ log' \in Seq(Messages) /\ IsInjective(log')
          /\ Logged' \subseteq Logged \cup {Notice}
          /\ Logged \cup {Notice} \subseteq Logged' \cup dropped' /\ dropped \subseteq dropped'
      BY <1>3, <2>5, RecordIs
    <3>2. OnlyNotice BY <2>2, <2>3, <3>1 DEF OnlyNotice
    <3>3. NoticeInv' BY <1>3, <2>1, <2>2, <2>5 DEF NoticeInv
    <3>4. Kept(Notice)' BY <3>1 DEF Kept
    <3> QED BY <1>2, <1>3, <2>1, <2>2, <2>3, <3>1, <3>2, <3>3, <3>4
  <2> QED BY <2>1, <2>4, <2>5
<1>8. CASE NoticeDeleted
  <2> DEFINE new == [notice EXCEPT !.at = IF Notice \in chat' THEN "retaining" ELSE "forgetting"]
  <2>1. /\ new \in NoticeSet /\ new.clears = notice.clears
        /\ Notice \in chat' => new.at = "retaining"
        /\ Notice \notin chat' => new.at = "forgetting"
    BY <1>1 DEF NoticeSet, NoticePlaces
  <2>2. /\ notice.at = "discarding" /\ notice' = new /\ Delete({Notice})
        /\ UNCHANGED << log, admitted, locked, stops, clears, turn, slash, dropped, missed >>
    BY <1>8 DEF NoticeDeleted, gens
  <2> HIDE DEF new
  <2>3. /\ chat' \subseteq chat /\ failed \subseteq failed'
        /\ \A m \in chat : m \in chat' \/ m = Notice
        /\ Notice \in chat' => Notice \in failed'
    BY <2>2, DeleteIs
  <2>4. Logged' = Logged BY <2>2 DEF Logged
  <2>5. OnlyNotice BY <2>2, <2>3, <2>4 DEF OnlyNotice
  <2>6. NoticeLeaves BY <2>5, NoticeStep
  <2>7. NoticeInv' BY <1>1, <2>1, <2>2, <2>3, <2>4, <2>6 DEF NoticeInv, NoticeLeaves
  <2>8. Notice \in chat' => Kept(Notice)' BY <2>3 DEF Kept
  <2>9. Notice \notin Logged BY <1>1, <2>2 DEF NoticeInv, Unheard
  <2> QED BY <1>2, <1>3, <2>1, <2>2, <2>3, <2>4, <2>5, <2>7, <2>8, <2>9
<1>9. CASE NoticeRetained
  <2> DEFINE new == [notice EXCEPT !.at = "over"]
  <2>1. new \in NoticeSet /\ new.clears = notice.clears /\ new.at = "over"
    BY <1>1 DEF NoticeSet, NoticePlaces
  <2>2. /\ notice.at = "retaining" /\ locked = 0 /\ notice' = new /\ Record(Notice)
        /\ UNCHANGED << chat, admitted, locked, stops, clears, turn, slash, failed, missed >>
    BY <1>9 DEF NoticeRetained, gens
  <2> HIDE DEF new
  <2>3. /\ log' \in Seq(Messages) /\ IsInjective(log')
        /\ Logged' \subseteq Logged \cup {Notice}
        /\ Logged \cup {Notice} \subseteq Logged' \cup dropped' /\ dropped \subseteq dropped'
    BY <1>3, <2>2, RecordIs
  <2>4. Unheard(Notice) /\ Notice \in chat /\ Notice \in failed BY <1>1, <2>2 DEF NoticeInv
  <2>5. OnlyNotice BY <2>2, <2>3, <2>4 DEF OnlyNotice
  <2>6. NoticeInv' BY <1>1, <2>1, <2>2, <2>4 DEF NoticeInv
  <2>7. Kept(Notice)' BY <2>3 DEF Kept
  <2> QED BY <1>2, <1>3, <2>1, <2>2, <2>3, <2>4, <2>5, <2>6, <2>7
<1>10. CASE NoticeForgotten
  <2> DEFINE new == [notice EXCEPT !.at = "over"]
  <2>1. new \in NoticeSet /\ new.clears = notice.clears /\ new.at = "over"
    BY <1>1 DEF NoticeSet, NoticePlaces
  <2>2. /\ notice.at = "forgetting" /\ locked = 0 /\ notice' = new /\ ForgetIds({Notice})
        /\ UNCHANGED << chat, admitted, locked, stops, clears, turn, slash, failed, dropped, missed >>
    BY <1>10 DEF NoticeForgotten, gens, past
  <2> HIDE DEF new
  <2>3. log' \in Seq(Messages) /\ IsInjective(log') /\ Logged' = Logged \ {Notice}
    BY <1>3, <2>2, ForgetIs
  <2>4. OnlyNotice BY <2>2, <2>3 DEF OnlyNotice
  <2>5. NoticeInv' BY <1>1, <2>1, <2>2, <2>3 DEF NoticeInv
  <2>6. Notice \notin chat' BY <1>1, <2>2 DEF NoticeInv
  <2> QED BY <1>2, <1>3, <2>1, <2>2, <2>3, <2>4, <2>5, <2>6
<1> QED BY <1>4, <1>5, <1>6, <1>7, <1>8, <1>9, <1>10

\* A step of a command takes from the chat only what it was to delete, mentions
\* itself or its answer, and gives the lock back if it had it.
OnlySlash(c, heard, those) ==
    /\ UNCHANGED << turn, notice, admitted, clears, missed >>
    /\ \A d \in Slashes : d # c => slash'[d] = slash[d]
    /\ slash'[c].doomed \subseteq slash[c].doomed
    /\ slash[c].at # "clearing" /\ slash'[c].at # "clearing"
    /\ heard \subseteq {SlashOf(c), AnswerOf(c)} /\ those \subseteq slash[c].doomed \cup {SlashOf(c)}
    /\ Logged' \subseteq Logged \cup heard
    /\ Logged \subseteq Logged' \cup dropped' \cup those
    /\ \A m \in Logged' : m \in Logged \/ (Unheard(m) /\ (locked = 0 \/ m = AnswerOf(c)))
    /\ \A m \in chat : m \in chat' \/ m \in those
    /\ \A m \in chat' : m \in chat \/ m \in {SlashOf(c), AnswerOf(c)}
    /\ failed \subseteq failed' /\ dropped \subseteq dropped'
    /\ locked' = locked \/ locked = c

\* What it leaves of the others.
SlashLeaves(c, heard, those) ==
    /\ \A p \in Prompts : TurnInv(p)'
    /\ \A d \in Slashes : d # c => SlashInv(d)'
    /\ NoticeInv'
    /\ \A m : Unheard(m) /\ m \notin heard => Unheard(m)'
    /\ \A m : Kept(m) /\ m \notin those /\ ~SlashHolds(c, m) => Kept(m)'

LEMMA SlashStep ==
    ASSUME ChatInv, NEW c \in Slashes, NEW heard, NEW those, OnlySlash(c, heard, those)
    PROVE  SlashLeaves(c, heard, those)
<1> USE DEF OnlySlash
<1>1. /\ \A p \in Prompts : TurnInv(p)
      /\ \A d \in Slashes : SlashInv(d)
      /\ NoticeInv /\ 0 \notin Slashes
  BY DEF ChatInv, HandlersInv, Slashes
<1>2. \A m : Unheard(m) /\ m \notin heard => Unheard(m)'
  <2>1. OfTurns(admitted)' = OfTurns(admitted) OBVIOUS
  <2>2. \A d \in Slashes : slash'[d].doomed \subseteq slash[d].doomed \cup heard OBVIOUS
  <2> QED BY <2>1, <2>2, StaysUnheard
<1>3. \A m : Doomed(m)' <=> Doomed(m) BY DEF Doomed
<1>4. \A m : Unheard(m) => m \notin slash[c].doomed BY DEF Unheard
<1>5. ASSUME NEW p \in Prompts PROVE TurnInv(p)'
  <2>1. /\ PromptOf(p) \notin heard /\ StatusOf(p) \notin heard
        /\ PromptOf(p) # SlashOf(c) /\ StatusOf(p) # SlashOf(c)
    BY Names
  <2> QED BY <1>1, <1>2, <1>3, <1>4, <2>1 DEF TurnInv
<1>6. ASSUME NEW d \in Slashes, d # c PROVE SlashInv(d)'
  <2>1. /\ SlashOf(d) \notin heard /\ AnswerOf(d) \notin heard
        /\ SlashOf(d) # SlashOf(c) /\ AnswerOf(d) # SlashOf(c)
    BY <1>6, Names
  <2>2. SlashInv(d) /\ slash'[d] = slash[d] BY <1>1, <1>6
  <2>3. slash[d].at \in {"clearing", "pruning"} => locked = d /\ locked' = d
    BY <1>6, <2>2 DEF SlashInv
  <2>4. slash[d].at = "clearing" =>
          \A m \in Logged' : \/ m \in slash[d].doomed
                             \/ \E e \in Slashes : m = AnswerOf(e)
                             \/ \E p \in Prompts : turn[p].at = "recorded" /\ m = StatusOf(p)
    BY <1>1, <2>2, <2>3 DEF SlashInv
  <2>5. slash[d].at = "deleting" /\ slash[d].kind = "clear" => \A m \in Logged' : m \notin slash[d].doomed
    BY <2>2 DEF SlashInv, Unheard
  <2> QED BY <1>2, <1>4, <2>1, <2>2, <2>3, <2>4, <2>5 DEF SlashInv
<1>7. NoticeInv'
  <2>1. Notice \notin heard /\ Notice # SlashOf(c) /\ Notice # AnswerOf(c) BY Names
  <2> QED BY <1>1, <1>2, <1>3, <1>4, <2>1 DEF NoticeInv
<1>8. ASSUME NEW m, Kept(m), m \notin those, ~SlashHolds(c, m) PROVE Kept(m)'
  <2>1. CASE \E p \in Prompts : TurnHolds(p, m) BY <2>1 DEF Kept, TurnHolds
  <2>2. CASE \E d \in Slashes : SlashHolds(d, m)
    <3>1. PICK d \in Slashes : SlashHolds(d, m) BY <2>2
    <3>2. d # c BY <1>8, <3>1
    <3>3. SlashHolds(d, m)' BY <3>1, <3>2 DEF SlashHolds
    <3> QED BY <3>3 DEF Kept
  <2>3. CASE m \in Logged \/ m \in OfTurns(admitted) BY <1>8, <2>3 DEF Kept
  <2> QED BY <1>8, <2>1, <2>2, <2>3 DEF Kept, NoticeHolds
<1> QED BY <1>2, <1>5, <1>6, <1>7, <1>8 DEF SlashLeaves

\* What a command becomes.
LEMMA SlashBecomes ==
    ASSUME ChatTypes, NEW c \in Slashes, NEW r \in SlashSet, slash' = [slash EXCEPT ![c] = r]
    PROVE  /\ slash' \in [Slashes -> SlashSet] /\ slash'[c] = r
           /\ \A d \in Slashes : d # c => slash'[d] = slash[d]
BY DEF ChatTypes

\* It moves to another place.
LEMMA SlashMoves ==
    ASSUME ChatTypes, NEW c \in Slashes, NEW at \in SlashPlaces, SlashTo(c, at)
    PROVE  /\ slash' \in [Slashes -> SlashSet] /\ slash'[c].at = at
           /\ slash'[c].kind = slash[c].kind /\ slash'[c].doomed = slash[c].doomed
           /\ \A d \in Slashes : d # c => slash'[d] = slash[d]
<1> DEFINE new == [slash[c] EXCEPT !.at = at]
<1>1. slash[c] \in SlashSet BY DEF ChatTypes
<1>2. new \in SlashSet /\ new.at = at /\ new.kind = slash[c].kind /\ new.doomed = slash[c].doomed
  BY <1>1 DEF SlashSet
<1>3. slash' = [slash EXCEPT ![c] = new] BY DEF SlashTo
<1> HIDE DEF new
<1> QED BY <1>2, <1>3, SlashBecomes

\* What is left to show of a step of a command.
LEMMA SlashDone ==
    ASSUME ChatInv, NEW c \in Slashes, NEW heard, NEW those, OnlySlash(c, heard, those),
           slash' \in [Slashes -> SlashSet], SlashInv(c)', stops' \in Nat, locked' \in {0} \cup Slashes,
           log' \in Seq(Messages), IsInjective(log'),
           \A m \in chat' : m \in those \/ SlashHolds(c, m) \/ m \notin chat => Kept(m)',
           Logged' \subseteq chat'
    PROVE  ChatInv'
<1>1. SlashLeaves(c, heard, those) BY SlashStep
<1>2. ChatTypes'
  <2>1. SlashOf(c) \in Messages /\ AnswerOf(c) \in Messages BY MessagesAre
  <2> QED BY <2>1 DEF ChatInv, ChatTypes, OnlySlash
<1>3. AllKept' BY <1>1 DEF ChatInv, AllKept, SlashLeaves
<1>4. LogIsCurrent' BY DEF LogIsCurrent, Logged
<1> QED BY <1>1, <1>2, <1>3, <1>4 DEF ChatInv, HandlersInv, SlashLeaves

\* A user's command appears in the chat.
LEMMA SlashArrivesStep ==
    ASSUME ChatInv, NEW c \in Slashes, NEW kind \in {"clear", "clear_reply", "stop", "stats"},
           NEW r \in {0} \cup Prompts, SlashArrives(c, kind, r)
    PROVE  ChatInv'
<1> DEFINE new == [at |-> "arrived", kind |-> kind, target |-> r, doomed |-> {}]
<1>1. ChatTypes /\ SlashInv(c) /\ LogIsCurrent BY DEF ChatInv, HandlersInv
<1>2. new \in SlashSet /\ new.at = "arrived" /\ new.kind = kind /\ new.doomed = {}
  BY DEF SlashSet, SlashPlaces
<1>3. /\ slash[c].at = "new" /\ slash' = [slash EXCEPT ![c] = new] /\ chat' = chat \cup {SlashOf(c)}
      /\ UNCHANGED << log, admitted, locked, stops, clears, turn, notice, failed, dropped, missed >>
  BY DEF SlashArrives, gens, past
<1> HIDE DEF new
<1>4. /\ slash' \in [Slashes -> SlashSet] /\ slash'[c] = new
      /\ \A d \in Slashes : d # c => slash'[d] = slash[d]
  BY <1>1, <1>2, <1>3, SlashBecomes
<1>5. Logged' = Logged BY <1>3 DEF Logged
<1>6. OnlySlash(c, {}, {}) BY <1>2, <1>3, <1>4, <1>5 DEF OnlySlash
<1>7. SlashLeaves(c, {}, {}) BY <1>6, SlashStep
<1>8. SlashInv(c)' BY <1>1, <1>2, <1>3, <1>4, <1>7 DEF SlashInv, SlashLeaves
<1>9. \A m \in chat' : SlashHolds(c, m) \/ m \notin chat => Kept(m)'
  BY <1>2, <1>3, <1>4 DEF SlashHolds, Kept
<1>10. /\ Logged' \subseteq chat' /\ log' \in Seq(Messages) /\ IsInjective(log')
       /\ stops' \in Nat /\ locked' \in {0} \cup Slashes
  BY <1>1, <1>3, <1>5 DEF LogIsCurrent, Logged, ChatTypes
<1> QED BY <1>4, <1>6, <1>8, <1>9, <1>10, SlashDone

\* The workflow receives it, and records all but a /clear.
LEMMA SlashReceivedStep ==
    ASSUME ChatInv, NEW c \in Slashes, SlashReceived(c)
    PROVE  ChatInv'
<1>1. ChatTypes /\ SlashInv(c) /\ LogIsCurrent BY DEF ChatInv, HandlersInv
<1>2. /\ slash[c].at = "arrived" /\ locked = 0 /\ SlashTo(c, "received")
      /\ UNCHANGED << chat, admitted, locked, stops, clears, turn, notice, failed, missed >>
  BY DEF SlashReceived, gens
<1>3. /\ slash' \in [Slashes -> SlashSet] /\ slash'[c].at = "received"
      /\ slash'[c].kind = slash[c].kind /\ slash'[c].doomed = slash[c].doomed
      /\ \A d \in Slashes : d # c => slash'[d] = slash[d]
  <2>1. "received" \in SlashPlaces BY DEF SlashPlaces
  <2> QED BY <1>1, <1>2, <2>1, SlashMoves
<1>4. stops' \in Nat /\ locked' \in {0} \cup Slashes /\ Logged \subseteq chat'
  BY <1>1, <1>2 DEF ChatTypes, LogIsCurrent, Logged
<1>5. CASE slash[c].kind = "clear"
  <2>1. log' = log /\ dropped' = dropped BY <1>5 DEF SlashReceived
  <2>2. Logged' = Logged BY <2>1 DEF Logged
  <2>3. OnlySlash(c, {}, {}) BY <1>2, <1>3, <2>1, <2>2 DEF OnlySlash
  <2>4. SlashLeaves(c, {}, {}) BY <2>3, SlashStep
  <2>5. SlashInv(c)' BY <1>1, <1>2, <1>3, <1>5, <2>4 DEF SlashInv, SlashLeaves
  <2>6. \A m \in chat' : SlashHolds(c, m) \/ m \notin chat => Kept(m)'
    BY <1>2, <1>3, <1>5 DEF SlashHolds, Kept
  <2>7. log' \in Seq(Messages) /\ IsInjective(log') BY <1>1, <2>1 DEF ChatTypes
  <2> QED BY <1>3, <1>4, <2>2, <2>3, <2>5, <2>6, <2>7, SlashDone
<1>6. CASE slash[c].kind # "clear"
  <2> DEFINE heard == {SlashOf(c)}
  <2>1. /\ log' \in Seq(Messages) /\ IsInjective(log') /\ Logged' \subseteq Logged \cup {SlashOf(c)}
        /\ Logged \cup {SlashOf(c)} \subseteq Logged' \cup dropped' /\ dropped \subseteq dropped'
    BY <1>1, <1>6, RecordIs, MessagesAre DEF SlashReceived, ChatTypes
  <2>2. Unheard(SlashOf(c)) /\ SlashOf(c) \in chat BY <1>1, <1>2 DEF SlashInv
  <2>3. OnlySlash(c, heard, {}) BY <1>2, <1>3, <2>1, <2>2 DEF OnlySlash
  <2>4. SlashLeaves(c, heard, {}) BY <2>3, SlashStep
  <2>5. SlashInv(c)'
    <3>1. AnswerOf(c) # SlashOf(c) BY Names
    <3> QED BY <1>1, <1>2, <1>3, <1>6, <2>4, <3>1 DEF SlashInv, SlashLeaves
  <2>6. \A m \in chat' : SlashHolds(c, m) \/ m \notin chat => Kept(m)'
    BY <1>2, <2>1 DEF SlashHolds, Kept
  <2>7. Logged' \subseteq chat' BY <1>2, <1>4, <2>1, <2>2
  <2> HIDE DEF heard
  <2> QED BY <1>3, <1>4, <2>1, <2>3, <2>5, <2>6, <2>7, SlashDone
<1> QED BY <1>5, <1>6

\* A /clear that failed is recorded itself.
LEMMA ClearRaisedStep ==
    ASSUME ChatInv, NEW c \in Slashes, ClearRaised(c)
    PROVE  ChatInv'
<1>1. ChatTypes /\ SlashInv(c) /\ LogIsCurrent BY DEF ChatInv, HandlersInv
<1>2. /\ slash[c].at = "raising" /\ locked = 0 /\ SlashTo(c, "over") /\ Record(SlashOf(c))
      /\ UNCHANGED << chat, admitted, locked, stops, clears, turn, notice, failed, missed >>
  BY DEF ClearRaised, gens
<1>3. /\ slash' \in [Slashes -> SlashSet] /\ slash'[c].at = "over"
      /\ slash'[c].kind = slash[c].kind /\ slash'[c].doomed = slash[c].doomed
      /\ \A d \in Slashes : d # c => slash'[d] = slash[d]
  <2>1. "over" \in SlashPlaces BY DEF SlashPlaces
  <2> QED BY <1>1, <1>2, <2>1, SlashMoves
<1>4. stops' \in Nat /\ locked' \in {0} \cup Slashes /\ Logged \subseteq chat'
  BY <1>1, <1>2 DEF ChatTypes, LogIsCurrent, Logged
<1> DEFINE heard == {SlashOf(c)}
<1>5. /\ log' \in Seq(Messages) /\ IsInjective(log') /\ Logged' \subseteq Logged \cup {SlashOf(c)}
      /\ Logged \cup {SlashOf(c)} \subseteq Logged' \cup dropped' /\ dropped \subseteq dropped'
  BY <1>1, <1>2, RecordIs, MessagesAre DEF ChatTypes
<1>6. Unheard(SlashOf(c)) /\ SlashOf(c) \in chat BY <1>1, <1>2 DEF SlashInv
<1>7. OnlySlash(c, heard, {}) BY <1>2, <1>3, <1>5, <1>6 DEF OnlySlash
<1>8. SlashInv(c)' BY <1>3 DEF SlashInv
<1>9. \A m \in chat' : SlashHolds(c, m) \/ m \notin chat => Kept(m)'
  BY <1>2, <1>5 DEF SlashHolds, Kept
<1>10. Logged' \subseteq chat' BY <1>2, <1>4, <1>5, <1>6
<1> HIDE DEF heard
<1> QED BY <1>3, <1>4, <1>5, <1>7, <1>8, <1>9, <1>10, SlashDone

\* A /clear deletes what it took, and itself.
LEMMA ClearDeletesStep ==
    ASSUME ChatInv, NEW c \in Slashes, ClearDeletes(c)
    PROVE  ChatInv'
<1> DEFINE those == slash[c].doomed \cup {SlashOf(c)}
<1>1. ChatTypes /\ SlashInv(c) /\ LogIsCurrent BY DEF ChatInv, HandlersInv
<1>2. /\ slash[c].at = "deleting" /\ slash[c].kind = "clear" /\ SlashTo(c, "over") /\ Delete(those)
      /\ UNCHANGED << log, admitted, locked, stops, clears, turn, notice, dropped, missed >>
  BY DEF ClearDeletes, gens
<1>3. /\ slash' \in [Slashes -> SlashSet] /\ slash'[c].at = "over"
      /\ slash'[c].kind = slash[c].kind /\ slash'[c].doomed = slash[c].doomed
      /\ \A d \in Slashes : d # c => slash'[d] = slash[d]
  <2>1. "over" \in SlashPlaces BY DEF SlashPlaces
  <2> QED BY <1>1, <1>2, <2>1, SlashMoves
<1>4. /\ chat' \subseteq chat /\ failed \subseteq failed'
      /\ \A m \in chat : m \in chat' \/ m \in those
      /\ \A m \in chat' : m \in those => m \in failed'
  BY <1>2, DeleteIs
<1>5. Logged' = Logged BY <1>2 DEF Logged
<1>6. \A m \in Logged : m \in chat /\ m \notin those
  BY <1>1, <1>2 DEF SlashInv, Unheard, LogIsCurrent, Logged
<1>7. OnlySlash(c, {}, those) BY <1>2, <1>3, <1>4, <1>5 DEF OnlySlash
<1>8. SlashInv(c)' BY <1>3 DEF SlashInv
<1>9. \A m \in chat' : m \in those \/ SlashHolds(c, m) \/ m \notin chat => Kept(m)'
  BY <1>2, <1>4 DEF SlashHolds, Kept
<1>10. /\ Logged' \subseteq chat' /\ log' \in Seq(Messages) /\ IsInjective(log')
       /\ stops' \in Nat /\ locked' \in {0} \cup Slashes
  BY <1>1, <1>2, <1>4, <1>5, <1>6 DEF ChatTypes
<1> HIDE DEF those
<1> QED BY <1>3, <1>7, <1>8, <1>9, <1>10, SlashDone

\* A reply's /clear forgets what it deleted.
LEMMA PruneDeletesStep ==
    ASSUME ChatInv, NEW c \in Slashes, PruneDeletes(c)
    PROVE  ChatInv'
<1> DEFINE those == slash[c].doomed \cup {SlashOf(c)}
<1>1. ChatTypes /\ SlashInv(c) /\ LogIsCurrent BY DEF ChatInv, HandlersInv
<1>2. /\ slash[c].at = "deleting" /\ SlashTo(c, "over") /\ Delete(those) /\ ForgetIds(those)
      /\ UNCHANGED << admitted, locked, stops, clears, turn, notice, dropped, missed >>
  BY DEF PruneDeletes, gens
<1>3. /\ slash' \in [Slashes -> SlashSet] /\ slash'[c].at = "over"
      /\ slash'[c].kind = slash[c].kind /\ slash'[c].doomed = slash[c].doomed
      /\ \A d \in Slashes : d # c => slash'[d] = slash[d]
  <2>1. "over" \in SlashPlaces BY DEF SlashPlaces
  <2> QED BY <1>1, <1>2, <2>1, SlashMoves
<1>4. /\ chat' \subseteq chat /\ failed \subseteq failed'
      /\ \A m \in chat : m \in chat' \/ m \in those
      /\ \A m \in chat' : m \in those => m \in failed'
  BY <1>2, DeleteIs
<1>5. log' \in Seq(Messages) /\ IsInjective(log') /\ Logged' = Logged \ those
  <2>1. log \in Seq(Messages) /\ IsInjective(log) /\ ForgetIds(those) BY <1>1, <1>2 DEF ChatTypes
  <2> HIDE DEF those
  <2> QED BY <2>1, ForgetIs
<1>6. OnlySlash(c, {}, those) BY <1>2, <1>3, <1>4, <1>5 DEF OnlySlash
<1>7. SlashInv(c)' BY <1>3 DEF SlashInv
<1>8. \A m \in chat' : m \in those \/ SlashHolds(c, m) \/ m \notin chat => Kept(m)'
  BY <1>2, <1>4 DEF SlashHolds, Kept
<1>9. /\ Logged' \subseteq chat' /\ stops' \in Nat /\ locked' \in {0} \cup Slashes
  BY <1>1, <1>2, <1>4, <1>5 DEF ChatTypes, LogIsCurrent, Logged
<1> HIDE DEF those
<1> QED BY <1>3, <1>5, <1>6, <1>7, <1>8, <1>9, SlashDone

\* A command moves on and touches no message.
LEMMA SlashQuiet ==
    ASSUME ChatInv, NEW c \in Slashes, NEW at \in SlashPlaces, SlashTo(c, at), stops' \in Nat,
           UNCHANGED << chat, log, admitted, clears, turn, notice, failed, dropped, missed >>,
           \/ /\ slash[c].at = "received" /\ slash[c].kind # "clear" /\ locked' = locked
              /\ at \in {"answering", "over"}
           \/ slash[c].at = "pruning" /\ at = "deleting" /\ locked' = 0
    PROVE  ChatInv'
<1>1. ChatTypes /\ SlashInv(c) /\ LogIsCurrent BY DEF ChatInv, HandlersInv
<1>2. /\ slash' \in [Slashes -> SlashSet] /\ slash'[c].at = at
      /\ slash'[c].kind = slash[c].kind /\ slash'[c].doomed = slash[c].doomed
      /\ \A d \in Slashes : d # c => slash'[d] = slash[d]
  BY <1>1, SlashMoves
<1>3. Logged' = Logged BY DEF Logged
<1>4. locked' = locked \/ locked = c BY <1>1 DEF SlashInv
<1>5. OnlySlash(c, {}, {}) BY <1>2, <1>3, <1>4 DEF OnlySlash
<1>6. SlashLeaves(c, {}, {}) BY <1>5, SlashStep
<1>7. SlashInv(c)' BY <1>1, <1>2, <1>6 DEF SlashInv, SlashLeaves
<1>8. \A m \in chat' : SlashHolds(c, m) \/ m \notin chat => Kept(m)'
  BY <1>2 DEF SlashHolds, Kept
<1>9. /\ Logged' \subseteq chat' /\ log' \in Seq(Messages) /\ IsInjective(log')
      /\ locked' \in {0} \cup Slashes
  BY <1>1, <1>3 DEF ChatTypes, LogIsCurrent, Logged
<1> QED BY <1>2, <1>5, <1>7, <1>8, <1>9, SlashDone

\* /stop, /stats and the end of a reply's /clear under the lock.
LEMMA QuietSteps ==
    ASSUME ChatInv, NEW c \in Slashes, PruneCommits(c) \/ Stop(c) \/ Stats(c)
    PROVE  ChatInv'
<1>1. stops \in Nat /\ {"answering", "over", "deleting"} \subseteq SlashPlaces
  BY DEF ChatInv, ChatTypes, SlashPlaces
<1>2. CASE PruneCommits(c) BY <1>1, <1>2, SlashQuiet DEF PruneCommits, gens, past
<1>3. CASE Stop(c)
  <2>1. PICK at \in {"answering", "over"} : SlashTo(c, at) BY <1>3 DEF Stop
  <2>2. stops' \in Nat /\ at \in SlashPlaces BY <1>1, <1>3 DEF Stop
  <2> QED BY <1>3, <2>1, <2>2, SlashQuiet DEF Stop, past
<1>4. CASE Stats(c) BY <1>1, <1>4, SlashQuiet DEF Stats, gens, past
<1> QED BY <1>2, <1>3, <1>4

\* The answer is delivered, or the command ends.
LEMMA AnswerPostedStep ==
    ASSUME ChatInv, NEW c \in Slashes, AnswerPosted(c)
    PROVE  ChatInv'
<1>1. ChatTypes /\ SlashInv(c) /\ LogIsCurrent BY DEF ChatInv, HandlersInv
<1>2. PICK at \in SlashPlaces : /\ SlashTo(c, at)
                                /\ \/ at = "answered" /\ chat' = chat \cup {AnswerOf(c)}
                                   \/ at = "over" /\ chat' = chat
  BY DEF AnswerPosted, Post, SlashPlaces
<1>3. /\ slash[c].at = "answering"
      /\ UNCHANGED << log, admitted, locked, stops, clears, turn, notice, failed, dropped, missed >>
  BY DEF AnswerPosted, gens
<1>4. /\ slash' \in [Slashes -> SlashSet] /\ slash'[c].at = at
      /\ slash'[c].kind = slash[c].kind /\ slash'[c].doomed = slash[c].doomed
      /\ \A d \in Slashes : d # c => slash'[d] = slash[d]
  BY <1>1, <1>2, SlashMoves
<1>5. Logged' = Logged BY <1>3 DEF Logged
<1>6. OnlySlash(c, {}, {}) BY <1>2, <1>3, <1>4, <1>5 DEF OnlySlash
<1>7. SlashLeaves(c, {}, {}) BY <1>6, SlashStep
<1>8. SlashInv(c)' BY <1>1, <1>2, <1>3, <1>4, <1>7 DEF SlashInv, SlashLeaves
<1>9. \A m \in chat' : SlashHolds(c, m) \/ m \notin chat => Kept(m)'
  BY <1>2, <1>3, <1>4 DEF SlashHolds, Kept
<1>10. /\ Logged' \subseteq chat' /\ log' \in Seq(Messages) /\ IsInjective(log')
       /\ stops' \in Nat /\ locked' \in {0} \cup Slashes
  BY <1>1, <1>2, <1>3, <1>5 DEF LogIsCurrent, Logged, ChatTypes
<1> QED BY <1>4, <1>6, <1>8, <1>9, <1>10, SlashDone

\* The answer is recorded, even while a /clear waits.
LEMMA AnswerRecordedStep ==
    ASSUME ChatInv, NEW c \in Slashes, AnswerRecorded(c)
    PROVE  ChatInv'
<1>1. ChatTypes /\ SlashInv(c) /\ LogIsCurrent BY DEF ChatInv, HandlersInv
<1>2. /\ slash[c].at = "answered" /\ SlashTo(c, "over") /\ Record(AnswerOf(c))
      /\ UNCHANGED << chat, admitted, locked, stops, clears, turn, notice, failed, missed >>
  BY DEF AnswerRecorded, gens
<1>3. /\ slash' \in [Slashes -> SlashSet] /\ slash'[c].at = "over"
      /\ slash'[c].kind = slash[c].kind /\ slash'[c].doomed = slash[c].doomed
      /\ \A d \in Slashes : d # c => slash'[d] = slash[d]
  <2>1. "over" \in SlashPlaces BY DEF SlashPlaces
  <2> QED BY <1>1, <1>2, <2>1, SlashMoves
<1>4. stops' \in Nat /\ locked' \in {0} \cup Slashes /\ Logged \subseteq chat'
  BY <1>1, <1>2 DEF ChatTypes, LogIsCurrent, Logged
<1> DEFINE heard == {AnswerOf(c)}
<1>5. /\ log' \in Seq(Messages) /\ IsInjective(log') /\ Logged' \subseteq Logged \cup {AnswerOf(c)}
      /\ Logged \cup {AnswerOf(c)} \subseteq Logged' \cup dropped' /\ dropped \subseteq dropped'
  BY <1>1, <1>2, RecordIs, MessagesAre DEF ChatTypes
<1>6. Unheard(AnswerOf(c)) /\ AnswerOf(c) \in chat BY <1>1, <1>2 DEF SlashInv
<1>7. OnlySlash(c, heard, {}) BY <1>2, <1>3, <1>5, <1>6 DEF OnlySlash
<1>8. SlashInv(c)' BY <1>3 DEF SlashInv
<1>9. \A m \in chat' : SlashHolds(c, m) \/ m \notin chat => Kept(m)'
  BY <1>2, <1>5 DEF SlashHolds, Kept
<1>10. Logged' \subseteq chat' BY <1>2, <1>4, <1>5, <1>6
<1> HIDE DEF heard
<1> QED BY <1>3, <1>4, <1>5, <1>7, <1>8, <1>9, <1>10, SlashDone

\* A command takes the lock, and into its hands the messages of trees that
\* leave, maybe with what the log holds.
OnlyTakes(c, gone, these) ==
    /\ UNCHANGED << chat, log, turn, notice, failed, missed >>
    /\ locked = 0 /\ locked' = c /\ slash[c].at = "received" /\ slash'[c].doomed = these
    /\ slash'[c].kind = slash[c].kind
    /\ \A d \in Slashes : d # c => slash'[d] = slash[d]
    /\ gone \subseteq admitted /\ admitted' = admitted \ gone /\ dropped' = dropped \ OfTurns(gone)
    /\ OfTurns(gone) \subseteq these /\ these \subseteq Logged \cup OfTurns(admitted)
    /\ \/ /\ slash[c].kind = "clear" /\ slash'[c].at = "clearing"
          /\ gone = admitted /\ Logged \subseteq these /\ clears' = clears + 1
       \/ slash[c].kind = "clear_reply" /\ slash'[c].at = "pruning" /\ clears' = clears

LEMMA TakesStep ==
    ASSUME ChatInv, NEW c \in Slashes, NEW gone, NEW these, OnlyTakes(c, gone, these),
           slash' \in [Slashes -> SlashSet], stops' = stops
    PROVE  ChatInv'
<1> USE DEF OnlyTakes
<1>1. /\ \A p \in Prompts : TurnInv(p)
      /\ \A d \in Slashes : SlashInv(d)
      /\ NoticeInv /\ ChatTypes /\ LogIsCurrent /\ 0 \notin Slashes
  BY DEF ChatInv, HandlersInv, Slashes
<1>2. /\ Logged' = Logged /\ clears \in Nat /\ clears' \in Nat /\ clears <= clears'
      /\ \A p \in Prompts : turn[p].token.clears \in Nat
      /\ notice.clears \in Nat
  BY <1>1 DEF Logged, ChatTypes, TurnSet, NoticeSet
<1>3. OfTurns(admitted) = OfTurns(admitted') \cup OfTurns(gone) BY DEF OfTurns
<1>4. \A m : Unheard(m) => Unheard(m)' BY <1>2, <1>3 DEF Unheard
<1>5. \A d \in Slashes : slash[d].at \notin {"clearing", "pruning"} BY <1>1 DEF SlashInv
<1>6. slash'[c].at = "clearing" => \A m \in Logged' : Doomed(m)' BY <1>2 DEF Doomed
<1>7. \A m : ~Doomed(m) BY <1>5 DEF Doomed
<1>8. slash'[c].at # "clearing" => clears' = clears OBVIOUS
<1>9. ASSUME NEW p \in Prompts PROVE TurnInv(p)'
  <2>1. TurnInv(p) /\ turn' = turn BY <1>1
  <2>2. p \in admitted' => p \in admitted /\ clears' = clears OBVIOUS
  <2>3. CASE slash'[c].at = "clearing" BY <1>2, <1>4, <1>6, <2>1, <2>2, <2>3 DEF TurnInv
  <2>4. CASE slash'[c].at # "clearing" BY <1>2, <1>4, <1>7, <1>8, <2>1, <2>2, <2>4 DEF TurnInv
  <2> QED BY <2>3, <2>4
<1>10. SlashInv(c)'
  <2>1. SlashInv(c) BY <1>1
  <2>2. CASE slash'[c].at = "clearing" BY <1>2, <1>4, <2>1, <2>2 DEF SlashInv
  <2>3. CASE slash'[c].at = "pruning" /\ slash[c].kind = "clear_reply"
    BY <1>4, <2>1, <2>3 DEF SlashInv
  <2> QED BY <2>2, <2>3
<1>11. ASSUME NEW d \in Slashes, d # c PROVE SlashInv(d)'
  <2>1. SlashInv(d) /\ slash'[d] = slash[d] BY <1>1, <1>11
  <2> QED BY <1>2, <1>4, <1>5, <2>1 DEF SlashInv
<1>12. NoticeInv' BY <1>1, <1>2, <1>4, <1>6, <1>7, <1>8 DEF NoticeInv
<1>13. ASSUME NEW m, Kept(m) PROVE Kept(m)'
  <2>1. CASE m \in OfTurns(gone) BY <2>1 DEF Kept, SlashHolds
  <2>2. CASE m \notin OfTurns(gone) /\ (m \in Logged \/ m \in OfTurns(admitted) \/ m \in dropped)
    BY <1>2, <1>3, <2>2 DEF Kept
  <2>3. CASE \E p \in Prompts : TurnHolds(p, m) BY <2>3 DEF Kept, TurnHolds
  <2>4. CASE \E d \in Slashes : SlashHolds(d, m)
    <3>1. PICK d \in Slashes : SlashHolds(d, m) BY <2>4
    <3>2. CASE d = c BY <3>1, <3>2 DEF Kept, SlashHolds
    <3>3. CASE d # c BY <3>1, <3>3 DEF Kept, SlashHolds
    <3> QED BY <3>2, <3>3
  <2> QED BY <1>13, <2>1, <2>2, <2>3, <2>4 DEF Kept, NoticeHolds
<1>14. ChatTypes' BY <1>1, <1>2 DEF ChatTypes
<1>15. AllKept' /\ LogIsCurrent' BY <1>1, <1>13 DEF AllKept, LogIsCurrent, ChatInv
<1> QED BY <1>9, <1>10, <1>11, <1>12, <1>14, <1>15 DEF ChatInv, HandlersInv

\* A /clear takes all.
LEMMA ClearStartsStep ==
    ASSUME ChatInv, NEW c \in Slashes, ClearStarts(c)
    PROVE  ChatInv'
<1> DEFINE these == Logged \cup OfTurns(admitted)
           new == [slash[c] EXCEPT !.at = "clearing", !.doomed = these]
<1>1. ChatTypes /\ slash[c] \in SlashSet BY DEF ChatInv, ChatTypes
<1>2. these \subseteq Messages
  <2>1. Logged \subseteq Messages /\ admitted \subseteq Prompts BY <1>1 DEF ChatTypes, Logged, ToSet
  <2> QED BY <2>1, TurnsAre, MessagesAre
<1>3. new \in SlashSet /\ new.at = "clearing" /\ new.kind = slash[c].kind /\ new.doomed = these
  BY <1>1, <1>2 DEF SlashSet, SlashPlaces
<1>4. /\ slash[c].at = "received" /\ slash[c].kind = "clear" /\ locked = 0
      /\ slash' = [slash EXCEPT ![c] = new] /\ locked' = c /\ clears' = clears + 1 /\ admitted' = {}
      /\ dropped' = dropped \ OfTurns(admitted)
      /\ UNCHANGED << chat, log, stops, turn, notice, failed, missed >>
  BY DEF ClearStarts, Logged
<1> HIDE DEF new
<1>5. /\ slash' \in [Slashes -> SlashSet] /\ slash'[c] = new
      /\ \A d \in Slashes : d # c => slash'[d] = slash[d]
  BY <1>1, <1>3, <1>4, SlashBecomes
<1>6. OnlyTakes(c, admitted, these) BY <1>3, <1>4, <1>5 DEF OnlyTakes
<1> QED BY <1>4, <1>5, <1>6, TakesStep

\* A reply's /clear takes a branch, or finds nothing to take.
LEMMA PruneStartsStep ==
    ASSUME ChatInv, NEW c \in Slashes, PruneStarts(c)
    PROVE  ChatInv'
<1> DEFINE gone == Below(slash[c].target)
           these == OfTurns(gone)
           new == [slash[c] EXCEPT !.at = "pruning", !.doomed = these]
<1>1. ChatTypes /\ slash[c] \in SlashSet /\ stops \in Nat BY DEF ChatInv, ChatTypes
<1>2. gone \subseteq admitted BY DEF Below
<1>3. these \subseteq Messages
  <2>1. gone \subseteq Prompts BY <1>1, <1>2 DEF ChatTypes
  <2> QED BY <2>1, TurnsAre, MessagesAre
<1>4. new \in SlashSet /\ new.at = "pruning" /\ new.kind = slash[c].kind /\ new.doomed = these
  BY <1>1, <1>3 DEF SlashSet, SlashPlaces
<1>5. /\ slash[c].at = "received" /\ slash[c].kind = "clear_reply" /\ locked = 0
      /\ UNCHANGED << chat, log, stops, clears, turn, notice, failed, missed >>
  BY DEF PruneStarts, gens
<1>6. CASE slash[c].target \in admitted
  <2>1. /\ slash' = [slash EXCEPT ![c] = new] /\ locked' = c
        /\ admitted' = admitted \ gone /\ dropped' = dropped \ these
    BY <1>6 DEF PruneStarts
  <2> HIDE DEF new, gone
  <2>2. /\ slash' \in [Slashes -> SlashSet] /\ slash'[c] = new
        /\ \A d \in Slashes : d # c => slash'[d] = slash[d]
    BY <1>1, <1>4, <2>1, SlashBecomes
  <2>3. these \subseteq OfTurns(admitted) BY <1>2 DEF OfTurns
  <2>4. OnlyTakes(c, gone, these) BY <1>2, <1>4, <1>5, <2>1, <2>2, <2>3 DEF OnlyTakes
  <2> QED BY <1>5, <2>2, <2>4, TakesStep
<1>7. CASE slash[c].target \notin admitted
  <2>1. SlashTo(c, "answering") /\ UNCHANGED << admitted, locked, dropped >>
    BY <1>7 DEF PruneStarts
  <2>2. "answering" \in SlashPlaces BY DEF SlashPlaces
  <2> QED BY <1>1, <1>5, <2>1, <2>2, SlashQuiet
<1> QED BY <1>6, <1>7

\* A /clear gives the lock back, and the log is empty.
LEMMA ClearCommitsStep ==
    ASSUME ChatInv, NEW c \in Slashes, ClearCommits(c)
    PROVE  ChatInv'
<1>1. /\ \A p \in Prompts : TurnInv(p)
      /\ \A d \in Slashes : SlashInv(d)
      /\ NoticeInv /\ ChatTypes
  BY DEF ChatInv, HandlersInv
<1>2. /\ slash[c].at = "clearing" /\ slash[c].kind = "clear" /\ locked = c /\ locked' = 0 /\ log' = <<>>
      /\ missed' = missed \cup {m \in Logged \ slash[c].doomed : m[1] = "answer"}
      /\ UNCHANGED << chat, admitted, stops, clears, turn, notice, dropped >>
  BY <1>1 DEF ClearCommits, gens, Logged, SlashInv
<1>3. Logged \subseteq Messages BY <1>1 DEF ChatTypes, Logged, ToSet
<1>4. PICK at \in {"deleting", "raising"} :
         /\ SlashTo(c, at) /\ failed \subseteq failed'
         /\ at = "raising" => \A m \in chat : m \in slash[c].doomed => m \in failed'
  BY DEF ClearCommits
<1>5. /\ slash' \in [Slashes -> SlashSet] /\ slash'[c].at = at
      /\ slash'[c].kind = slash[c].kind /\ slash'[c].doomed = slash[c].doomed
      /\ \A d \in Slashes : d # c => slash'[d] = slash[d]
  <2>1. at \in SlashPlaces BY <1>4 DEF SlashPlaces
  <2> QED BY <1>1, <1>4, <2>1, SlashMoves
<1>6. Logged' = {} BY <1>2 DEF Logged, ToSet
<1>7. \A m : Unheard(m) => Unheard(m)' BY <1>2, <1>5, <1>6 DEF Unheard
<1>8. \A p \in Prompts : TurnInv(p)' BY <1>1, <1>2, <1>6, <1>7 DEF TurnInv
<1>9. SlashInv(c)'
  <2>1. SlashInv(c) BY <1>1
  <2> QED BY <1>2, <1>4, <1>5, <1>6, <1>7, <2>1 DEF SlashInv
<1>10. ASSUME NEW d \in Slashes, d # c PROVE SlashInv(d)'
  <2>1. SlashInv(d) /\ slash'[d] = slash[d] BY <1>1, <1>5, <1>10
  <2>2. slash[d].at \notin {"clearing", "pruning"} BY <1>2, <1>10, <2>1 DEF SlashInv
  <2> QED BY <1>2, <1>6, <1>7, <2>1, <2>2 DEF SlashInv
<1>11. NoticeInv' BY <1>1, <1>2, <1>4, <1>6, <1>7 DEF NoticeInv
<1>12. missed' \subseteq {AnswerOf(d) : d \in Slashes}
  BY <1>1, <1>2, <1>3, MessagesAre DEF ChatTypes
<1>13. ChatTypes'
  <2>1. log' \in Seq(Messages) /\ IsInjective(log') BY <1>2 DEF IsInjective
  <2> QED BY <1>1, <1>2, <1>5, <1>12, <2>1 DEF ChatTypes
<1>14. ASSUME NEW m \in chat PROVE Kept(m)'
  <2>1. Kept(m) BY DEF ChatInv, AllKept
  <2>2. CASE m \in slash[c].doomed \/ m = SlashOf(c)
    <3>1. SlashHolds(c, m)' \/ m \in failed' BY <1>4, <1>5, <2>2 DEF SlashHolds
    <3> QED BY <3>1 DEF Kept
  <2>3. CASE m \in Logged /\ m \notin slash[c].doomed
    <3>1. \/ \E d \in Slashes : m = AnswerOf(d)
          \/ \E p \in Prompts : turn[p].at = "recorded" /\ m = StatusOf(p)
      BY <1>1, <1>2, <2>3 DEF SlashInv
    <3>2. CASE \E d \in Slashes : m = AnswerOf(d)
      <4>1. m[1] = "answer" BY <1>3, <2>3, <3>2, MessagesAre
      <4> QED BY <1>2, <2>3, <4>1 DEF Kept
    <3>3. CASE \E p \in Prompts : turn[p].at = "recorded" /\ m = StatusOf(p)
      BY <1>2, <3>3 DEF Kept, TurnHolds
    <3> QED BY <3>1, <3>2, <3>3
  <2>4. CASE \E p \in Prompts : TurnHolds(p, m) BY <1>2, <2>4 DEF Kept, TurnHolds
  <2>5. CASE \E d \in Slashes : SlashHolds(d, m)
    <3>1. PICK d \in Slashes : SlashHolds(d, m) BY <2>5
    <3>2. CASE d = c BY <1>2, <2>2, <3>1, <3>2 DEF SlashHolds
    <3>3. CASE d # c BY <1>5, <3>1, <3>3 DEF Kept, SlashHolds
    <3> QED BY <3>2, <3>3
  <2> QED BY <1>2, <1>4, <2>1, <2>2, <2>3, <2>4, <2>5 DEF Kept, NoticeHolds
<1>15. AllKept' /\ LogIsCurrent' BY <1>2, <1>6, <1>14 DEF AllKept, LogIsCurrent, Logged
<1> QED BY <1>8, <1>9, <1>10, <1>11, <1>13, <1>15 DEF ChatInv, HandlersInv

------------------------------------------------------------------------------
(* The chat                                                                 *)

LEMMA InitChat == ChatInit => ChatInv
<1> SUFFICES ASSUME ChatInit PROVE ChatInv OBVIOUS
<1>1. /\ chat = {} /\ log = <<>> /\ admitted = {} /\ locked = 0 /\ stops = 0 /\ clears = 0
      /\ turn = [p \in Prompts |-> [at |-> "new", token |-> Now, replyTo |-> 0,
                                    parent |-> 0, doomed |-> {}]]
      /\ slash = [c \in Slashes |-> [at |-> "new", kind |-> "none", target |-> 0, doomed |-> {}]]
      /\ notice = [at |-> "new", clears |-> 0, cancelled |-> FALSE]
      /\ missed = {}
  BY DEF ChatInit
<1>2. Logged = {} BY <1>1 DEF Logged, ToSet
<1>3. OfTurns(admitted) = {} BY <1>1 DEF OfTurns
<1>4. \A m : Unheard(m) BY <1>1, <1>2, <1>3 DEF Unheard
<1>5. turn \in [Prompts -> TurnSet] BY <1>1 DEF TurnSet, TurnPlaces, Now
<1>6. slash \in [Slashes -> SlashSet] BY <1>1 DEF SlashSet, SlashPlaces
<1>7. notice \in NoticeSet BY <1>1 DEF NoticeSet, NoticePlaces
<1>8. log \in Seq(Messages) /\ IsInjective(log) BY <1>1 DEF IsInjective
<1>9. ChatTypes BY <1>1, <1>5, <1>6, <1>7, <1>8 DEF ChatTypes
<1>10. \A p \in Prompts : TurnInv(p) BY <1>1, <1>4 DEF TurnInv, Now
<1>11. \A c \in Slashes : SlashInv(c) BY <1>1, <1>4 DEF SlashInv
<1>12. NoticeInv BY <1>1, <1>4 DEF NoticeInv
<1> QED BY <1>1, <1>2, <1>9, <1>10, <1>11, <1>12
        DEF ChatInv, HandlersInv, AllKept, LogIsCurrent, Logged

LEMMA NextChat == ChatInv /\ [ChatNext]_chatVars => ChatInv'
<1> SUFFICES ASSUME ChatInv, [ChatNext]_chatVars PROVE ChatInv' OBVIOUS
<1>1. ASSUME NEW p \in Prompts,
             \/ \E r \in {0} \cup Prompts : r < p /\ PromptArrives(p, r)
             \/ PromptReceived(p) \/ StatusPosted(p)
             \/ StatusRecorded(p) \/ Admission(p) \/ Rejected(p)
      PROVE  ChatInv'
  BY <1>1, PromptArrivesStep, PromptReceivedStep, StatusPostedStep, StatusRecordedStep,
     AdmissionStep, RejectedStep
<1>2. CASE \/ NoticeStarts \/ NoticePosted \/ NoticeCancelled \/ NoticeFinalized
           \/ NoticeDeleted \/ NoticeRetained \/ NoticeForgotten
  BY <1>2, NoticeSteps
<1>3. ASSUME NEW c \in Slashes,
             \/ \E kind \in {"clear", "clear_reply", "stop", "stats"}, r \in {0} \cup Prompts :
                   SlashArrives(c, kind, r)
             \/ SlashReceived(c)
             \/ ClearStarts(c) \/ ClearCommits(c) \/ ClearRaised(c) \/ ClearDeletes(c)
             \/ PruneStarts(c) \/ PruneCommits(c) \/ PruneDeletes(c)
             \/ Stop(c) \/ Stats(c) \/ AnswerPosted(c) \/ AnswerRecorded(c)
      PROVE  ChatInv'
  BY <1>3, SlashArrivesStep, SlashReceivedStep, ClearStartsStep, ClearCommitsStep,
     ClearRaisedStep, ClearDeletesStep, PruneStartsStep, PruneDeletesStep, QuietSteps,
     AnswerPostedStep, AnswerRecordedStep
<1>4. CASE UNCHANGED chatVars
  BY <1>4 DEF chatVars, ChatInv, ChatTypes, Logged, Unheard, Doomed, TurnInv, SlashInv, NoticeInv,
              HandlersInv, TurnHolds, SlashHolds, NoticeHolds, Kept, AllKept, LogIsCurrent
<1> QED BY <1>1, <1>2, <1>3, <1>4 DEF ChatNext

\* Every message of the chat is kept somewhere, and every handler has of it
\* what its place says, whatever is posted, recorded, cleared or refused.
THEOREM ChatInvariance == ChatSpec => []ChatInv
BY InitChat, NextChat, PTL DEF ChatSpec

\* The invariant implies the property.
LEMMA OwnedIs == ChatInv => ChatIsOwned
<1> SUFFICES ASSUME ChatInv PROVE ChatIsOwned OBVIOUS
<1>1. NothingIsOrphaned /\ LogIsCurrent BY OrphansAre DEF ChatInv
<1>2. /\ \A p \in Prompts : TurnInv(p)
      /\ NoticeInv /\ clears \in Nat /\ missed \subseteq {AnswerOf(c) : c \in Slashes}
  BY DEF ChatInv, HandlersInv, ChatTypes
<1>3. \A m : Doomed(m) => m \in InHand BY InHandIs DEF Doomed, SlashHolds
<1>4. ASSUME NEW p \in Prompts, turn[p].at = "over", turn[p].token.clears < clears,
             NEW m \in {PromptOf(p), StatusOf(p)}, m \in chat
      PROVE  m \in failed \cup dropped \cup InHand
  <2>1. CASE m \in Logged BY <1>2, <1>3, <1>4, <2>1 DEF TurnInv
  <2>2. m \notin OfTurns(admitted)
    <3>1. p \notin admitted BY <1>2, <1>4 DEF TurnInv
    <3> QED BY <1>4, <3>1, TurnsAre
  <2>3. m \notin missed BY <1>2, <1>4, Names
  <2> QED BY <1>1, <1>4, <2>1, <2>2, <2>3 DEF NothingIsOrphaned, Logged
<1>5. ASSUME notice.at = "over", notice.clears < clears, Notice \in chat
      PROVE  Notice \in failed \cup dropped \cup InHand
  <2>1. CASE Notice \in Logged BY <1>2, <1>3, <1>5, <2>1 DEF NoticeInv
  <2>2. Notice \notin OfTurns(admitted) BY TurnsAre
  <2>3. Notice \notin missed BY <1>2, Names
  <2> QED BY <1>1, <1>5, <2>1, <2>2, <2>3 DEF NothingIsOrphaned, Logged
<1>6. ClearedLeaveNothing BY <1>4, <1>5 DEF ClearedLeaveNothing
<1> QED BY <1>1, <1>6 DEF ChatIsOwned

\* No message of the chat is left that nothing will delete, the log names
\* nothing that was deleted, and what began before a /clear leaves nothing
\* behind it.
THEOREM OwnedChat == ChatSpec => []ChatIsOwned
BY ChatInvariance, OwnedIs, PTL

(***************************************************************************)
(* The pool of CLI sessions                                                *)
(***************************************************************************)

USE SessionBounds, TreesAreNotHolders

Places == {"idle", "entering", "reading", "killing", "draining", "removing", "stopping"}

\* The sessions the manager has created so far.
Existing == 1 .. (Created - 1)

StopperType ==
    /\ stopper = [at |-> stopper.at, nodes |-> stopper.nodes, todo |-> stopper.todo]
    /\ stopper.nodes \subseteq Conversations /\ stopper.todo \subseteq Sessions

TypeInv ==
    /\ closing \subseteq Sessions /\ shielded \subseteq Sessions
    /\ manager \in Conversations \cup {"free", "all"}
    /\ process \in [Sessions -> {"none", "alive", "doomed", "dead"}]
    /\ shut \in [Sessions -> BOOLEAN]
    /\ reading \in [Sessions -> Conversations \cup {"free"}]
    /\ stopHolder \in [Sessions -> Conversations \cup {"free", "shield", "all"}]
    /\ node \in [Conversations -> [at : Places, session : Sessions \cup {0},
                                   handle : Handles \cup {NoHandle}, fresh : BOOLEAN]]
    /\ \A t \in Conversations : node[t].at # "idle" => node[t].session \in Sessions
    /\ known \in [Conversations -> SUBSET Named]
    /\ StopperType
    /\ left \in [{"sessions", "troubles"} -> Nat] /\ left["sessions"] <= MaxSessions

\* A session is pending under one handle, and none is pending and registered;
\* a temporary id leads to a registered one and back.
MapsInv ==
    /\ \A h \in DOMAIN pending : /\ h \in Named \cup { Temp(s) : s \in Existing }
                                 /\ pending[h] \in Existing
    /\ \A g, h \in DOMAIN pending : pending[g] = pending[h] => g = h
    /\ DOMAIN sessions \subseteq Named
    /\ \A h \in DOMAIN sessions : sessions[h] \in Existing
    /\ Range(pending) \cap Range(sessions) = {}
    /\ \A h \in DOMAIN toReal : /\ toReal[h] \in DOMAIN sessions
                                /\ toReal[h] \in DOMAIN toTemp
                                /\ toTemp[toReal[h]] = h
                                /\ h \in Handles

\* A session is stopped for good before it is forgotten, and a node on its way
\* into a session that nobody owns any more will not start a subprocess.
GuardInv ==
    /\ \A s \in Sessions : process[s] \in {"alive", "doomed"} => s \in Owned
    /\ \A s \in Sessions : stopHolder[s] # "free" => shut[s]
    /\ \A t \in Conversations : node[t].at = "entering" =>
          node[t].session \in Owned \/ shut[node[t].session]

IInv == TypeInv /\ MapsInv /\ GuardInv

------------------------------------------------------------------------------
(* Lemmas                                                                   *)

\* Sessions are numbered from one, in the order they were created.
LEMMA ExistingSessions ==
    ASSUME TypeInv
    PROVE  /\ left["sessions"] \in Nat /\ Created \in Nat \ {0}
           /\ Existing \subseteq Sessions /\ Created \notin Existing
           /\ left["sessions"] > 0 => Created \in Sessions
BY DEF TypeInv, Existing, Created, Sessions

\* Looking up a real id gives a real id.
LEMMA LookupNamed == ASSUME MapsInv, NEW h \in Named PROVE Lookup(h) \in Named
BY DEF MapsInv, Lookup

\* Nobody is registered under no id.
LEMMA NothingNamed == NoHandle \notin Named /\ \A s : NoHandle # Temp(s) /\ Temp(s) \notin Named
BY DEF NoHandle, Named, Temp

\* SessionFor finds nothing, or an owned session.
LEMMA SessionForOf ==
    ASSUME TypeInv, MapsInv, NEW h
    PROVE  /\ SessionFor(h) # 0 => SessionFor(h) \in Owned /\ SessionFor(h) \in Sessions
           /\ SessionFor(h) = 0 => Lookup(h) \notin DOMAIN pending \cup DOMAIN sessions
           /\ Lookup(h) \in DOMAIN sessions => SessionFor(h) = sessions[Lookup(h)]
           /\ Lookup(h) \in DOMAIN pending /\ Lookup(h) \notin DOMAIN sessions
                 => SessionFor(h) = pending[Lookup(h)]
<1>1. Existing \subseteq Sessions /\ 0 \notin Existing BY ExistingSessions DEF Existing
<1>2. CASE Lookup(h) \in DOMAIN sessions
  <2>1. SessionFor(h) = sessions[Lookup(h)] BY <1>2 DEF SessionFor
  <2> QED BY <1>1, <1>2, <2>1 DEF MapsInv, Owned, Range
<1>3. CASE Lookup(h) \notin DOMAIN sessions /\ Lookup(h) \in DOMAIN pending
  <2>1. SessionFor(h) = pending[Lookup(h)] BY <1>3 DEF SessionFor
  <2> QED BY <1>1, <1>3, <2>1 DEF MapsInv, Owned, Range
<1>4. CASE Lookup(h) \notin DOMAIN sessions /\ Lookup(h) \notin DOMAIN pending
  <2>1. SessionFor(h) = 0 BY <1>4 DEF SessionFor
  <2> QED BY <1>4, <2>1
<1> QED BY <1>2, <1>3, <1>4

\* The maps agree as long as nobody touches them or creates a session.
LEMMA MapsFrame ==
    ASSUME MapsInv, UNCHANGED << pending, sessions, toReal, toTemp >>, left'["sessions"] = left["sessions"]
    PROVE  MapsInv'
BY DEF MapsInv, Existing, Created

\* Nothing is owned or lost as long as nobody touches the maps.
LEMMA OwnedFrame == ASSUME UNCHANGED << pending, sessions >> PROVE Owned' = Owned
BY DEF Owned, Range

\* Forgetting a session takes it, and only it, from the pool.
LEMMA Forgets ==
    ASSUME TypeInv, MapsInv, NEW s, ForgetSession(s), UNCHANGED left
    PROVE  MapsInv' /\ Owned' = Owned \ {s} /\ closing' \subseteq closing
<1>1. /\ DOMAIN pending' = DOMAIN pending \ { id \in DOMAIN pending : pending[id] = s }
      /\ \A h \in DOMAIN pending' : pending'[h] = pending[h]
  BY DEF ForgetSession, Without, Restrict
<1>2. /\ DOMAIN sessions' = DOMAIN sessions \ { id \in DOMAIN sessions : sessions[id] = s }
      /\ \A h \in DOMAIN sessions' : sessions'[h] = sessions[h]
  BY DEF ForgetSession, Without, Restrict
<1> DEFINE real == { id \in DOMAIN sessions : sessions[id] = s }
           temp == { toTemp[id] : id \in real \cap DOMAIN toTemp }
<1>3. /\ DOMAIN toTemp' = DOMAIN toTemp \ real
      /\ \A h \in DOMAIN toTemp' : toTemp'[h] = toTemp[h]
  BY DEF ForgetSession, Without, Restrict
<1>4. /\ DOMAIN toReal' = DOMAIN toReal \ temp
      /\ \A h \in DOMAIN toReal' : toReal'[h] = toReal[h]
  BY DEF ForgetSession, Without, Restrict
<1>5. ASSUME NEW h \in DOMAIN toReal'
      PROVE  /\ toReal'[h] \in DOMAIN sessions' /\ toReal'[h] \in DOMAIN toTemp'
             /\ toTemp'[toReal'[h]] = h /\ h \in Handles
  <2>1. toReal'[h] = toReal[h] /\ h \in DOMAIN toReal /\ h \notin temp BY <1>4
  <2>2. /\ toReal[h] \in DOMAIN sessions /\ toReal[h] \in DOMAIN toTemp
        /\ toTemp[toReal[h]] = h /\ h \in Handles
    BY <2>1 DEF MapsInv
  <2>3. toReal[h] \notin real BY <2>1, <2>2
  <2> QED BY <1>2, <1>3, <2>1, <2>2, <2>3
<1>6. Existing' = Existing BY DEF Existing, Created
<1>7. Range(pending') = Range(pending) \ {s} BY <1>1 DEF Range
<1>8. Range(sessions') = Range(sessions) \ {s} BY <1>2 DEF Range
<1>9. \A h \in DOMAIN toReal' : /\ toReal'[h] \in DOMAIN sessions' /\ toReal'[h] \in DOMAIN toTemp'
                                /\ toTemp'[toReal'[h]] = h /\ h \in Handles
  BY <1>5
<1>10. Handles' = Handles BY DEF Handles
<1>11. MapsInv'
  <2>1. Range(pending') \cap Range(sessions') = {} BY <1>7, <1>8 DEF MapsInv
  <2>2. /\ \A h \in DOMAIN pending' : /\ h \in Named \cup { Temp(x) : x \in Existing }
                                       /\ pending'[h] \in Existing
        /\ \A g, h \in DOMAIN pending' : pending'[g] = pending'[h] => g = h
        /\ DOMAIN sessions' \subseteq Named
        /\ \A h \in DOMAIN sessions' : sessions'[h] \in Existing
    BY <1>1, <1>2 DEF MapsInv
  <2> QED BY <1>6, <1>9, <2>1, <2>2 DEF MapsInv
<1> QED BY <1>7, <1>8, <1>11 DEF ForgetSession, Owned

\* A session that is stopped is shut; its process is left alone or killed.
LEMMA StopBeginsGuard ==
    ASSUME TypeInv, GuardInv, NEW s \in Sessions, NEW who \in Conversations \cup {"shield", "all"},
           StopBegins(s, who), UNCHANGED << pending, sessions, node >>
    PROVE  GuardInv'
<1>1. Owned' = Owned BY OwnedFrame
<1>2. \A x \in Sessions : /\ shut'[x] = (shut[x] \/ x = s)
                          /\ process'[x] \in {"alive", "doomed"} => process[x] \in {"alive", "doomed"}
                          /\ stopHolder'[x] # "free" => stopHolder[x] # "free" \/ x = s
  BY DEF StopBegins, TypeInv
<1> QED BY <1>1, <1>2 DEF GuardInv, TypeInv

------------------------------------------------------------------------------
(* Every action preserves the invariant                                     *)

\* get_or_create_session: the session is pending before anyone starts it.
LEMMA GetsNewStep ==
    ASSUME IInv, NEW t \in Conversations, NEW parent \in Named \cup {NoHandle}, GetsNew(t, parent)
    PROVE  IInv'
<1> DEFINE id == IF parent = NoHandle THEN Temp(Created) ELSE Lookup(parent)
<1>1. /\ TypeInv /\ MapsInv /\ GuardInv /\ Created \in Sessions
      /\ Existing \subseteq Sessions /\ Created \notin Existing
  BY ExistingSessions DEF IInv, GetsNew, Budget
<1>2. /\ pending' = With(pending, id, Created)
      /\ left' = [left EXCEPT !["sessions"] = @ - 1] /\ left["sessions"] > 0
      /\ node' = [node EXCEPT ![t] = [at |-> "entering", session |-> Created,
                                      handle |-> id, fresh |-> TRUE]]
      /\ UNCHANGED << procs, manager, sessions, toReal, toTemp, closing, known, stopper >>
  BY DEF GetsNew, Budget
<1>3. Existing' = Existing \cup {Created}
  <2>1. left["sessions"] \in Nat /\ MaxSessions \in Nat /\ left["sessions"] <= MaxSessions
    BY <1>1 DEF TypeInv
  <2>2. left'["sessions"] = left["sessions"] - 1 BY <1>1, <1>2 DEF TypeInv
  <2> QED BY <1>2, <2>1, <2>2 DEF Existing, Created
<1>4. /\ id \in Handles /\ id \notin DOMAIN pending
      /\ id \in Named \cup {Temp(Created)}
  <2>1. CASE parent = NoHandle
    <3>1. \A k \in Existing : Temp(k) # Temp(Created) BY <1>1 DEF Temp
    <3>2. Temp(Created) \notin DOMAIN pending BY <1>1, <3>1, NothingNamed DEF MapsInv
    <3> QED BY <1>1, <2>1, <3>2 DEF Handles
  <2>2. CASE parent # NoHandle
    <3>1. parent \in Named /\ id = Lookup(parent) BY <2>2
    <3>2. SessionFor(parent) = 0 BY DEF GetsNew
    <3>3. Lookup(parent) \notin DOMAIN pending BY <1>1, <3>2, SessionForOf
    <3>4. Lookup(parent) \in Named BY <1>1, <3>1, LookupNamed
    <3> QED BY <3>1, <3>3, <3>4 DEF Handles
  <2> QED BY <2>1, <2>2
<1> HIDE DEF id
<1>5. /\ DOMAIN pending' = DOMAIN pending \cup {id} /\ pending'[id] = Created
      /\ \A h \in DOMAIN pending : pending'[h] = pending[h]
  BY <1>2, <1>4 DEF With
<1>6. Range(pending') = Range(pending) \cup {Created} BY <1>4, <1>5 DEF Range
<1>7. Created \notin Range(pending) \cup Range(sessions) BY <1>1 DEF MapsInv, Range
<1>8. TypeInv'
  <2>1. node' \in [Conversations -> [at : Places, session : Sessions \cup {0},
                                     handle : Handles \cup {NoHandle}, fresh : BOOLEAN]]
    BY <1>1, <1>2, <1>4 DEF TypeInv, Places
  <2>2. \A u \in Conversations : node'[u].at # "idle" => node'[u].session \in Sessions
    BY <1>1, <1>2 DEF TypeInv
  <2>3. left' \in [{"sessions", "troubles"} -> Nat] /\ left'["sessions"] <= MaxSessions
    BY <1>1, <1>2 DEF TypeInv
  <2> QED BY <1>1, <1>2, <2>1, <2>2, <2>3 DEF TypeInv, StopperType, procs
<1>9. MapsInv'
  <2>1. \A h \in DOMAIN pending' : /\ h \in Named \cup { Temp(s) : s \in Existing' }
                                   /\ pending'[h] \in Existing'
    <3>1. ASSUME NEW h \in DOMAIN pending
          PROVE h \in Named \cup { Temp(s) : s \in Existing' } /\ pending'[h] \in Existing'
      BY <1>1, <1>3, <1>5 DEF MapsInv
    <3> QED BY <1>3, <1>4, <1>5, <3>1
  <2>2. \A g, h \in DOMAIN pending' : pending'[g] = pending'[h] => g = h
    <3>1. \A h \in DOMAIN pending : pending'[h] # Created BY <1>5, <1>7 DEF Range
    <3>2. \A g, h \in DOMAIN pending : pending'[g] = pending'[h] => g = h
      BY <1>1, <1>5 DEF MapsInv
    <3> QED BY <1>5, <3>1, <3>2
  <2>3. Range(pending') \cap Range(sessions') = {} BY <1>1, <1>2, <1>6, <1>7 DEF MapsInv
  <2> QED BY <1>1, <1>2, <1>3, <2>1, <2>2, <2>3 DEF MapsInv
<1>10. Owned' = Owned \cup {Created} BY <1>2, <1>6 DEF Owned
<1>11. GuardInv'
  <2>1. \A u \in Conversations : node'[u].at = "entering" =>
            (u = t /\ node'[u].session = Created) \/ node'[u] = node[u]
    BY <1>1, <1>2 DEF TypeInv
  <2> QED BY <1>1, <1>2, <1>10, <2>1 DEF GuardInv, procs
<1> QED BY <1>8, <1>9, <1>11 DEF IInv

\* A session that is there already is owned, too.
LEMMA GetsOwnedStep ==
    ASSUME IInv, NEW t \in Conversations, NEW parent \in Named \cup {NoHandle}, GetsOwned(t, parent)
    PROVE  IInv'
<1>1. TypeInv /\ MapsInv /\ GuardInv BY DEF IInv
<1>2. SessionFor(parent) \in Owned /\ SessionFor(parent) \in Sessions
  BY <1>1, SessionForOf DEF GetsOwned
<1>3. /\ node' = [node EXCEPT ![t] = [at |-> "entering", session |-> SessionFor(parent),
                                      handle |-> Lookup(parent), fresh |-> FALSE]]
      /\ UNCHANGED << maps, procs, manager, known, stopper, left >>
  BY DEF GetsOwned
<1>4. Lookup(parent) \in Handles \cup {NoHandle}
  <2>1. CASE parent \in Named BY <1>1, <2>1, LookupNamed DEF Handles
  <2>2. CASE parent = NoHandle
    BY <1>1, <2>2 DEF Lookup, MapsInv, Handles
  <2> QED BY <2>1, <2>2
<1>5. TypeInv'
  <2>1. node' \in [Conversations -> [at : Places, session : Sessions \cup {0},
                                     handle : Handles \cup {NoHandle}, fresh : BOOLEAN]]
    BY <1>1, <1>2, <1>3, <1>4 DEF TypeInv, Places
  <2>2. \A u \in Conversations : node'[u].at # "idle" => node'[u].session \in Sessions
    BY <1>1, <1>2, <1>3 DEF TypeInv
  <2> QED BY <1>1, <1>3, <2>1, <2>2 DEF TypeInv, StopperType, maps, procs
<1>6. MapsInv' BY <1>1, <1>3, MapsFrame DEF maps
<1>7. GuardInv'
  <2>1. Owned' = Owned BY <1>3, OwnedFrame DEF maps
  <2>2. \A u \in Conversations : node'[u].at = "entering" =>
            (u = t /\ node'[u].session = SessionFor(parent)) \/ node'[u] = node[u]
    BY <1>1, <1>3 DEF TypeInv
  <2> QED BY <1>1, <1>2, <1>3, <2>1, <2>2 DEF GuardInv, procs
<1> QED BY <1>5, <1>6, <1>7 DEF IInv

\* register_real_session_id moves the session, with a link from its temporary
\* id: an id of another session would have been refused.
LEMMA RegistersStep ==
    ASSUME IInv, NEW t \in Conversations, NEW id \in Named, Registers(t, id)
    PROVE  IInv'
<1> DEFINE temp == node[t].handle
<1>1. TypeInv /\ MapsInv /\ GuardInv BY DEF IInv
<1>2. IsAt(t, "reading") /\ UNCHANGED << procs, closing, manager, stopper, left >>
  BY DEF Registers
<1>3. CASE ~MayRegister(t, id)
  <2>1. Goes(t, "removing") /\ UNCHANGED << pending, sessions, toReal, toTemp, known >>
    BY <1>3 DEF Registers
  <2>2. TypeInv' BY <1>1, <1>2, <2>1 DEF TypeInv, StopperType, Goes, IsAt, Places, procs
  <2>3. MapsInv' BY <1>1, <1>2, <2>1, MapsFrame
  <2>4. GuardInv' BY <1>1, <1>2, <2>1, OwnedFrame DEF GuardInv, Goes, TypeInv, procs
  <2> QED BY <2>2, <2>3, <2>4 DEF IInv
<1>4. CASE MayRegister(t, id)
  <2>1. /\ pending' = Without(pending, {temp})
        /\ sessions' = With(sessions, id, pending[temp])
        /\ toReal' = With(toReal, temp, id)
        /\ toTemp' = With(toTemp, id, temp)
        /\ known' = [known EXCEPT ![t] = @ \cup {id}]
        /\ node' = [node EXCEPT ![t] = [@ EXCEPT !.handle = id, !.fresh = FALSE]]
        /\ temp \in DOMAIN pending /\ SessionFor(id) \in {0, pending[temp]}
    BY <1>4 DEF Registers, MayRegister
  <2>2. /\ temp \in Handles /\ pending[temp] \in Existing /\ pending[temp] \in Range(pending)
        /\ pending[temp] # 0 /\ pending[temp] \notin Range(sessions)
    <3>1. temp \in Named \cup { Temp(s) : s \in Existing } BY <1>1, <2>1 DEF MapsInv
    <3>2. temp \in Handles BY <1>1, <3>1, ExistingSessions DEF Handles
    <3>3. pending[temp] \in Existing /\ pending[temp] \in Range(pending)
      BY <1>1, <2>1 DEF MapsInv, Range
    <3>4. pending[temp] \notin Range(sessions) BY <1>1, <3>3 DEF MapsInv
    <3> QED BY <3>2, <3>3, <3>4 DEF Existing
  <2>3. id \notin DOMAIN sessions
    <3>1. SessionFor(id) # 0 => SessionFor(id) = pending[temp] BY <2>1
    <3>2. Lookup(id) \notin DOMAIN sessions
      <4>1. SUFFICES ASSUME Lookup(id) \in DOMAIN sessions PROVE FALSE OBVIOUS
      <4>2. SessionFor(id) = sessions[Lookup(id)] BY <1>1, <4>1, SessionForOf
      <4>3. sessions[Lookup(id)] \in Range(sessions) /\ sessions[Lookup(id)] \in Existing
        BY <1>1, <4>1 DEF MapsInv, Range
      <4>4. sessions[Lookup(id)] # 0 BY <4>3 DEF Existing
      <4> QED BY <2>2, <3>1, <4>2, <4>3, <4>4
    <3>3. id \notin DOMAIN toReal BY <1>1, <3>2 DEF MapsInv, Lookup
    <3> QED BY <3>2, <3>3 DEF Lookup
  <2> HIDE DEF temp
  <2>4. /\ DOMAIN pending' = DOMAIN pending \ {temp}
        /\ \A h \in DOMAIN pending' : pending'[h] = pending[h]
    BY <2>1 DEF Without, Restrict
  <2>5. /\ DOMAIN sessions' = DOMAIN sessions \cup {id} /\ sessions'[id] = pending[temp]
        /\ \A h \in DOMAIN sessions : sessions'[h] = sessions[h]
    BY <2>1, <2>3 DEF With
  <2>6. /\ DOMAIN toReal' = DOMAIN toReal \cup {temp} /\ toReal'[temp] = id
        /\ \A h \in DOMAIN toReal \ {temp} : toReal'[h] = toReal[h]
    BY <2>1 DEF With
  <2>7. /\ DOMAIN toTemp' = DOMAIN toTemp \cup {id} /\ toTemp'[id] = temp
        /\ \A h \in DOMAIN toTemp \ {id} : toTemp'[h] = toTemp[h]
    BY <2>1 DEF With
  <2>8. Range(pending') = Range(pending) \ {pending[temp]}
    BY <1>1, <2>1, <2>4 DEF MapsInv, Range
  <2>9. Range(sessions') = Range(sessions) \cup {pending[temp]}
    BY <2>3, <2>5 DEF Range
  <2>10. Owned' = Owned BY <2>2, <2>8, <2>9 DEF Owned
  <2>11. Existing' = Existing BY <1>2 DEF Existing, Created
  <2>12. MapsInv'
    <3>1. /\ \A h \in DOMAIN pending' : /\ h \in Named \cup { Temp(s) : s \in Existing }
                                        /\ pending'[h] \in Existing
          /\ \A g, h \in DOMAIN pending' : pending'[g] = pending'[h] => g = h
      BY <1>1, <2>4 DEF MapsInv
    <3>2. /\ DOMAIN sessions' \subseteq Named
          /\ \A h \in DOMAIN sessions' : sessions'[h] \in Existing
      BY <1>1, <2>2, <2>5 DEF MapsInv
    <3>3. Range(pending') \cap Range(sessions') = {} BY <1>1, <2>8, <2>9 DEF MapsInv
    <3>4. ASSUME NEW h \in DOMAIN toReal'
          PROVE  /\ toReal'[h] \in DOMAIN sessions' /\ toReal'[h] \in DOMAIN toTemp'
                 /\ toTemp'[toReal'[h]] = h /\ h \in Handles
      <4>1. CASE h = temp BY <2>2, <2>5, <2>6, <2>7, <4>1
      <4>2. CASE h # temp
        <5>1. h \in DOMAIN toReal /\ toReal'[h] = toReal[h] BY <2>6, <4>2
        <5>2. /\ toReal[h] \in DOMAIN sessions /\ toReal[h] \in DOMAIN toTemp
              /\ toTemp[toReal[h]] = h /\ h \in Handles
          BY <1>1, <5>1 DEF MapsInv
        <5> QED BY <2>3, <2>5, <2>7, <5>1, <5>2
      <4> QED BY <4>1, <4>2
    <3> QED BY <2>11, <3>1, <3>2, <3>3, <3>4 DEF MapsInv
  <2>13. TypeInv'
    <3>1. id \in Handles BY DEF Handles
    <3>2. node' \in [Conversations -> [at : Places, session : Sessions \cup {0},
                                       handle : Handles \cup {NoHandle}, fresh : BOOLEAN]]
      <4>1. [node[t] EXCEPT !.handle = id, !.fresh = FALSE]
                \in [at : Places, session : Sessions \cup {0},
                     handle : Handles \cup {NoHandle}, fresh : BOOLEAN]
        <5>1. node[t] \in [at : Places, session : Sessions \cup {0},
                           handle : Handles \cup {NoHandle}, fresh : BOOLEAN]
          BY <1>1 DEF TypeInv
        <5> QED BY <3>1, <5>1
      <4> QED BY <1>1, <2>1, <4>1 DEF TypeInv
    <3>3. \A u \in Conversations : node'[u].at # "idle" => node'[u].session \in Sessions
      BY <1>1, <2>1 DEF TypeInv
    <3>4. known' \in [Conversations -> SUBSET Named] BY <1>1, <2>1 DEF TypeInv
    <3> QED BY <1>1, <1>2, <3>2, <3>3, <3>4 DEF TypeInv, StopperType, procs
  <2>14. GuardInv'
    <3>1. \A u \in Conversations : node'[u].at = node[u].at /\ node'[u].session = node[u].session
      BY <1>1, <2>1 DEF TypeInv
    <3> QED BY <1>1, <1>2, <2>10, <3>1 DEF GuardInv, procs
  <2> QED BY <2>12, <2>13, <2>14 DEF IInv
<1> QED BY <1>3, <1>4

\* A session is forgotten once it is shut and its process is gone.
LEMMA ForgetsGuard ==
    ASSUME IInv, NEW s \in Sessions, NEW who \in Conversations \cup {"all"},
           StopEnds(s, who), ForgetSession(s), UNCHANGED left,
           \A t \in Conversations : node'[t] = node[t] \/ node'[t] = Resting
    PROVE  MapsInv' /\ GuardInv' /\ closing' \subseteq closing
<1>1. TypeInv /\ MapsInv /\ GuardInv BY DEF IInv
<1>2. MapsInv' /\ Owned' = Owned \ {s} /\ closing' \subseteq closing BY <1>1, Forgets
<1>3. who # "free" BY TreesAreNotHolders
<1>4. shut[s] /\ process[s] \in {"none", "dead"} /\ UNCHANGED << process, shut >>
  BY <1>1, <1>3 DEF StopEnds, GuardInv
<1>5. \A x \in Sessions : stopHolder'[x] # "free" => stopHolder[x] # "free"
  BY <1>1 DEF StopEnds, TypeInv
<1>6. \A t \in Conversations : node'[t].at = "entering" => node'[t] = node[t]
  BY DEF Resting
<1> QED BY <1>1, <1>2, <1>4, <1>5, <1>6 DEF GuardInv

\* A stop that failed leaves its session in the pool, its process running on.
LEMMA StopFailsGuard ==
    ASSUME IInv, NEW s \in Sessions, NEW who, StopFails(s, who), UNCHANGED << pending, sessions >>,
           \A t \in Conversations : node'[t] = node[t] \/ node'[t] = Resting
    PROVE  GuardInv'
<1>1. TypeInv /\ GuardInv /\ Owned' = Owned BY OwnedFrame DEF IInv
<1>2. \A x \in Sessions : /\ stopHolder'[x] # "free" => stopHolder[x] # "free"
                          /\ shut'[x] = shut[x]
                          /\ process'[x] \in {"alive", "doomed"} => process[x] \in {"alive", "doomed"}
  BY <1>1 DEF StopFails, TypeInv
<1>3. \A t \in Conversations : node'[t].at = "entering" => node'[t] = node[t]
  BY DEF Resting
<1> QED BY <1>1, <1>2, <1>3 DEF GuardInv, TypeInv

\* Both leave locks, processes and bounds in their ranges.
LEMMA StopsType ==
    ASSUME TypeInv, NEW s \in Sessions, NEW who \in Conversations \cup {"shield", "all"},
           \/ StopEnds(s, who) /\ UNCHANGED left
           \/ StopFails(s, who)
    PROVE  /\ process' \in [Sessions -> {"none", "alive", "doomed", "dead"}]
           /\ shut' = shut
           /\ stopHolder' \in [Sessions -> Conversations \cup {"free", "shield", "all"}]
           /\ left' \in [{"sessions", "troubles"} -> Nat] /\ left'["sessions"] = left["sessions"]
BY DEF TypeInv, StopEnds, StopFails, Budget

\* A node that goes to another place keeps what it has.
LEMMA PlaceChanges ==
    ASSUME TypeInv, NEW t \in Conversations, NEW place \in Places, Goes(t, place)
    PROVE  /\ node' \in [Conversations -> [at : Places, session : Sessions \cup {0},
                                            handle : Handles \cup {NoHandle}, fresh : BOOLEAN]]
           /\ node[t].at # "idle" =>
                 \A u \in Conversations : node'[u].at # "idle" => node'[u].session \in Sessions
           /\ \A u \in Conversations : node'[u] # node[u] => u = t /\ node'[u].at = place
<1>1. node' = [node EXCEPT ![t].at = place] BY DEF Goes
<1>2. \A u \in Conversations : /\ node'[u].at = IF u = t THEN place ELSE node[u].at
                               /\ node'[u].session = node[u].session
                               /\ u # t => node'[u] = node[u]
  BY <1>1 DEF TypeInv
<1>3. [node[t] EXCEPT !.at = place] \in [at : Places, session : Sessions \cup {0},
                                         handle : Handles \cup {NoHandle}, fresh : BOOLEAN]
  <2>1. node[t] \in [at : Places, session : Sessions \cup {0},
                     handle : Handles \cup {NoHandle}, fresh : BOOLEAN]
    BY DEF TypeInv
  <2> QED BY <2>1
<1>4. node' \in [Conversations -> [at : Places, session : Sessions \cup {0},
                                   handle : Handles \cup {NoHandle}, fresh : BOOLEAN]]
  BY <1>1, <1>3 DEF TypeInv
<1> QED BY <1>2, <1>4 DEF TypeInv

\* start_task runs the CLI only in a session that is not shut, so it is owned.
LEMMA LaunchesStep == ASSUME IInv, NEW t \in Conversations, Launches(t) PROVE IInv'
<1> DEFINE s == node[t].session
<1>1. TypeInv /\ MapsInv /\ GuardInv BY DEF IInv
<1>2. s \in Sessions /\ IsAt(t, "entering") BY <1>1 DEF TypeInv, Launches, IsAt
<1>3. UNCHANGED << maps, manager, shut, stopHolder, shielded, known, stopper, left >> BY DEF Launches
<1>4. MapsInv' BY <1>1, <1>3, MapsFrame DEF maps
<1>5. Owned' = Owned BY <1>3, OwnedFrame DEF maps
<1>6. CASE shut[s]
  <2>1. Goes(t, "removing") /\ UNCHANGED << process, reading >> BY <1>6 DEF Launches
  <2>2. TypeInv'
    <3>1. node' \in [Conversations -> [at : Places, session : Sessions \cup {0},
                                       handle : Handles \cup {NoHandle}, fresh : BOOLEAN]]
      BY <1>1, <2>1, PlaceChanges DEF Places
    <3>2. \A u \in Conversations : node'[u].at # "idle" => node'[u].session \in Sessions
      BY <1>1, <1>2, <2>1, PlaceChanges DEF IsAt, Places
    <3> QED BY <1>1, <1>3, <2>1, <3>1, <3>2 DEF TypeInv, StopperType, maps
  <2>3. GuardInv' BY <1>1, <1>3, <1>5, <2>1 DEF GuardInv, TypeInv, Goes
  <2> QED BY <1>4, <2>2, <2>3 DEF IInv
<1>7. CASE ~shut[s]
  <2>1. /\ process' = [process EXCEPT ![s] = "alive"]
        /\ reading' = [reading EXCEPT ![s] = t]
        /\ Goes(t, "reading")
    BY <1>7 DEF Launches
  <2>2. s \in Owned BY <1>1, <1>2, <1>7 DEF GuardInv, IsAt
  <2>3. TypeInv'
    <3>1. node' \in [Conversations -> [at : Places, session : Sessions \cup {0},
                                       handle : Handles \cup {NoHandle}, fresh : BOOLEAN]]
      BY <1>1, <2>1, PlaceChanges DEF Places
    <3>2. \A u \in Conversations : node'[u].at # "idle" => node'[u].session \in Sessions
      BY <1>1, <1>2, <2>1, PlaceChanges DEF IsAt, Places
    <3>3. process' \in [Sessions -> {"none", "alive", "doomed", "dead"}] BY <1>1, <2>1 DEF TypeInv
    <3>4. reading' \in [Sessions -> Conversations \cup {"free"}] BY <1>1, <2>1 DEF TypeInv
    <3> QED BY <1>1, <1>3, <3>1, <3>2, <3>3, <3>4 DEF TypeInv, StopperType, maps
  <2>4. GuardInv' BY <1>1, <1>3, <1>5, <2>1, <2>2 DEF GuardInv, TypeInv, Goes
  <2> QED BY <1>4, <2>3, <2>4 DEF IInv
<1> QED BY <1>6, <1>7

\* A node that moves on without touching the pool or a process.
LEMMA MovesStep ==
    ASSUME IInv, NEW t \in Conversations, NEW place \in Places \ {"entering"},
           \/ node[t].at # "idle" /\ Goes(t, place)
           \/ Ends(t)
           \/ UNCHANGED node,
           UNCHANGED << maps, process, shut, known >>,
           left' \in [{"sessions", "troubles"} -> Nat], left'["sessions"] = left["sessions"],
           manager' \in Conversations \cup {"free", "all"},
           shielded' \subseteq Sessions,
           reading' \in [Sessions -> Conversations \cup {"free"}],
           stopHolder' \in [Sessions -> Conversations \cup {"free", "shield", "all"}],
           \A s \in Sessions : stopHolder'[s] # "free" => stopHolder[s] # "free",
           StopperType'
    PROVE  IInv'
<1>1. TypeInv /\ MapsInv /\ GuardInv BY DEF IInv
<1>2. MapsInv' BY <1>1, MapsFrame DEF maps
<1>3. Owned' = Owned BY OwnedFrame DEF maps
<1>4. /\ node' \in [Conversations -> [at : Places, session : Sessions \cup {0},
                                      handle : Handles \cup {NoHandle}, fresh : BOOLEAN]]
      /\ \A u \in Conversations : node'[u].at # "idle" => node'[u].session \in Sessions
      /\ \A u \in Conversations : node'[u].at = "entering" => node'[u] = node[u]
  <2>1. CASE node[t].at # "idle" /\ Goes(t, place) BY <1>1, <2>1, PlaceChanges
  <2>2. CASE Ends(t) BY <1>1, <2>2 DEF TypeInv, Ends, Resting, Places
  <2>3. CASE UNCHANGED node BY <1>1, <2>3 DEF TypeInv
  <2> QED BY <2>1, <2>2, <2>3
<1>5. TypeInv' BY <1>1, <1>4 DEF TypeInv, StopperType, maps
<1>6. GuardInv' BY <1>1, <1>3, <1>4 DEF GuardInv
<1> QED BY <1>2, <1>5, <1>6 DEF IInv

\* Wherever a cancellation lands, it moves the node and gives locks back.
LEMMA CancelsMove ==
    ASSUME TypeInv, NEW t \in Conversations, Cancels(t)
    PROVE  /\ \/ \E place \in Places \ {"entering"} : node[t].at # "idle" /\ Goes(t, place)
              \/ Ends(t)
           /\ UNCHANGED << maps, process, shut >>
           /\ manager' \in Conversations \cup {"free", "all"}
           /\ shielded' \subseteq Sessions
           /\ reading' \in [Sessions -> Conversations \cup {"free"}]
           /\ stopHolder' \in [Sessions -> Conversations \cup {"free", "shield", "all"}]
           /\ \A s \in Sessions : stopHolder'[s] # "free" => stopHolder[s] # "free"
<1>1. CASE CancelsReading(t)
  BY <1>1 DEF CancelsReading, IsAt, Places, TypeInv, maps
<1>2. CASE CancelsOutside(t) BY <1>2 DEF CancelsOutside, Places, TypeInv, maps, procs
<1>3. CASE CancelsKilling(t) BY <1>3 DEF CancelsKilling, IsAt, Places, TypeInv, maps, procs
<1>4. CASE CancelsDraining(t) BY <1>4 DEF CancelsDraining, IsAt, Places, TypeInv, maps
<1>5. CASE CancelsWaiting(t) BY <1>5 DEF CancelsWaiting, TypeInv, maps, procs
<1>6. CASE CancelsRemoval(t) BY <1>6 DEF CancelsRemoval, TypeInv, maps
<1> QED BY <1>1, <1>2, <1>3, <1>4, <1>5, <1>6 DEF Cancels

\* So a cancelled node neither starts a process nor leaves one unowned.
LEMMA CancelsStep ==
    ASSUME IInv, NEW t \in Conversations, Cancels(t), UNCHANGED known, StopperType',
           left' \in [{"sessions", "troubles"} -> Nat], left'["sessions"] = left["sessions"]
    PROVE  IInv'
<1>1. TypeInv BY DEF IInv
<1>2. /\ UNCHANGED << maps, process, shut >>
      /\ manager' \in Conversations \cup {"free", "all"}
      /\ shielded' \subseteq Sessions
      /\ reading' \in [Sessions -> Conversations \cup {"free"}]
      /\ stopHolder' \in [Sessions -> Conversations \cup {"free", "shield", "all"}]
      /\ \A s \in Sessions : stopHolder'[s] # "free" => stopHolder[s] # "free"
  BY <1>1, CancelsMove
<1>3. CASE Ends(t) BY <1>2, <1>3, MovesStep DEF Places
<1>4. CASE ~Ends(t)
  <2>1. PICK place \in Places \ {"entering"} : node[t].at # "idle" /\ Goes(t, place)
    BY <1>1, <1>4, CancelsMove
  <2> QED BY <1>2, <2>1, MovesStep
<1> QED BY <1>3, <1>4

\* What one node does besides taking and giving back a session.
LEMMA NodeStep ==
    ASSUME IInv, NEW t \in Conversations,
           \/ LaunchFails(t) \/ NodeFails(t) \/ CancelNode(t) \/ Finishes(t) \/ DrainEnds(t)
    PROVE  IInv'
<1>1. TypeInv BY DEF IInv
<1>2. CASE LaunchFails(t)
  BY <1>1, <1>2, MovesStep DEF LaunchFails, IsAt, Places, TypeInv, StopperType, procs
<1>3. CASE NodeFails(t)
  BY <1>1, <1>3, MovesStep DEF NodeFails, IsAt, Places, TypeInv, StopperType, procs
<1>4. CASE CancelNode(t)
  <2>1. /\ left' \in [{"sessions", "troubles"} -> Nat] /\ left'["sessions"] = left["sessions"]
        /\ Cancels(t) /\ UNCHANGED << known, stopper >>
    BY <1>1, <1>4 DEF CancelNode, Budget, TypeInv
  <2>2. StopperType' /\ StopperType BY <1>1, <2>1 DEF TypeInv, StopperType
  <2> QED BY <1>1, <2>1, <2>2, CancelsStep
<1>5. CASE Finishes(t)
  BY <1>1, <1>5, MovesStep DEF Finishes, IsAt, Places, TypeInv, StopperType
<1>6. CASE DrainEnds(t)
  BY <1>1, <1>6, MovesStep DEF DrainEnds, Places, TypeInv, StopperType
<1> QED BY <1>2, <1>3, <1>4, <1>5, <1>6

\* A process that ends, and a generator that is finalised.
LEMMA EndStep ==
    ASSUME IInv, NEW s \in Sessions, Finalised(s) \/ ProcessEnds(s)
    PROVE  IInv'
<1>1. TypeInv /\ MapsInv /\ GuardInv BY DEF IInv
<1>2. UNCHANGED << maps, manager, shut, stopHolder, shielded, node, known, stopper, left >>
  BY DEF Finalised, ProcessEnds
<1>3. MapsInv' /\ Owned' = Owned BY <1>1, <1>2, MapsFrame, OwnedFrame DEF maps
<1>4. /\ process' \in [Sessions -> {"none", "alive", "doomed", "dead"}]
      /\ reading' \in [Sessions -> Conversations \cup {"free"}]
      /\ \A x \in Sessions : process'[x] \in {"alive", "doomed"} => process[x] \in {"alive", "doomed"}
  BY <1>1 DEF Finalised, ProcessEnds, TypeInv
<1> QED BY <1>1, <1>2, <1>3, <1>4 DEF IInv, TypeInv, StopperType, GuardInv, maps

\* stop() of one session, by whoever calls it.
LEMMA StopBeginsStep ==
    ASSUME IInv, NEW s \in Sessions, NEW who \in Conversations \cup {"shield", "all"},
           StopBegins(s, who),
           UNCHANGED << maps, manager, reading, shielded, node, known, stopper, left >>
    PROVE  IInv'
<1>1. TypeInv /\ MapsInv /\ GuardInv BY DEF IInv
<1>2. MapsInv' BY <1>1, MapsFrame DEF maps
<1>3. GuardInv' BY <1>1, StopBeginsGuard DEF maps
<1>4. /\ process' \in [Sessions -> {"none", "alive", "doomed", "dead"}]
      /\ shut' \in [Sessions -> BOOLEAN]
      /\ stopHolder' \in [Sessions -> Conversations \cup {"free", "shield", "all"}]
  BY <1>1 DEF StopBegins, TypeInv
<1>5. TypeInv' BY <1>1, <1>4 DEF TypeInv, StopperType, maps
<1> QED BY <1>2, <1>3, <1>5 DEF IInv

\* The stop of a cancelled reader forgets no session.
LEMMA ShieldEndsStep == ASSUME IInv, NEW s \in Sessions, ShieldEnds(s) PROVE IInv'
<1>1. TypeInv /\ MapsInv /\ GuardInv BY DEF IInv
<1>2. UNCHANGED << maps, manager, reading, node, known, stopper >> /\ shielded' \subseteq Sessions
  BY <1>1 DEF ShieldEnds, TypeInv
<1>3. /\ process' \in [Sessions -> {"none", "alive", "doomed", "dead"}]
      /\ shut' = shut
      /\ stopHolder' \in [Sessions -> Conversations \cup {"free", "shield", "all"}]
      /\ left' \in [{"sessions", "troubles"} -> Nat] /\ left'["sessions"] = left["sessions"]
  BY <1>1, StopsType DEF ShieldEnds
<1>4. MapsInv' BY <1>1, <1>2, <1>3, MapsFrame DEF maps
<1>5. TypeInv' BY <1>1, <1>2, <1>3 DEF TypeInv, StopperType, maps
<1>6. GuardInv'
  <2>1. CASE StopFails(s, "shield") BY <1>2, <2>1, StopFailsGuard DEF maps
  <2>2. CASE StopEnds(s, "shield")
    <3>1. /\ \A x \in Sessions : stopHolder'[x] # "free" => stopHolder[x] # "free"
          /\ process' = process
      BY <1>1, <2>2 DEF StopEnds, TypeInv
    <3> QED BY <1>1, <1>2, <1>3, <3>1, OwnedFrame DEF GuardInv, maps
  <2> QED BY <2>1, <2>2 DEF ShieldEnds
<1> QED BY <1>4, <1>5, <1>6 DEF IInv

\* remove_session takes a session of the pool, whatever id it was given.
LEMMA RemovesStep == ASSUME IInv, NEW t \in Conversations, Removes(t) PROVE IInv'
<1> DEFINE s == SessionFor(node[t].handle)
<1>1. TypeInv /\ MapsInv /\ GuardInv BY DEF IInv
<1>2. UNCHANGED << procs, pending, sessions, toReal, toTemp, known, stopper, left >> BY DEF Removes
<1>3. MapsInv' /\ Owned' = Owned BY <1>1, <1>2, MapsFrame, OwnedFrame
<1>4. CASE s = 0
  <2>1. Ends(t) /\ UNCHANGED << closing, manager >> BY <1>4 DEF Removes
  <2>2. TypeInv' BY <1>1, <1>2, <2>1 DEF TypeInv, StopperType, Ends, Resting, Places, procs
  <2>3. GuardInv' BY <1>1, <1>2, <1>3, <2>1 DEF GuardInv, Ends, Resting, TypeInv, procs
  <2> QED BY <1>3, <2>2, <2>3 DEF IInv
<1>5. CASE s # 0
  <2>1. /\ closing' = closing \cup {s} /\ manager' = t
        /\ node' = [node EXCEPT ![t] = [@ EXCEPT !.at = "stopping", !.session = s]]
    BY <1>5 DEF Removes
  <2>2. s \in Sessions BY <1>1, <1>5, SessionForOf
  <2> HIDE DEF s
  <2>3. [node[t] EXCEPT !.at = "stopping", !.session = s]
            \in [at : Places, session : Sessions \cup {0},
                 handle : Handles \cup {NoHandle}, fresh : BOOLEAN]
    <3>1. node[t] \in [at : Places, session : Sessions \cup {0},
                       handle : Handles \cup {NoHandle}, fresh : BOOLEAN]
      BY <1>1 DEF TypeInv
    <3> QED BY <2>2, <3>1 DEF Places
  <2>4. node' \in [Conversations -> [at : Places, session : Sessions \cup {0},
                                     handle : Handles \cup {NoHandle}, fresh : BOOLEAN]]
    BY <1>1, <2>1, <2>3 DEF TypeInv
  <2>5. \A u \in Conversations : u # t => node'[u] = node[u] BY <1>1, <2>1 DEF TypeInv
  <2>6. node'[t].at = "stopping" /\ node'[t].session = s BY <1>1, <2>1 DEF TypeInv
  <2>7. TypeInv' BY <1>1, <1>2, <2>1, <2>2, <2>4, <2>5, <2>6 DEF TypeInv, StopperType, procs
  <2>8. GuardInv' BY <1>1, <1>2, <1>3, <2>5, <2>6 DEF GuardInv, procs
  <2> QED BY <1>3, <2>7, <2>8 DEF IInv
<1> QED BY <1>4, <1>5

\* remove_session forgets a session only after its stop succeeded.
LEMMA RemoveEndsStep == ASSUME IInv, NEW t \in Conversations, RemoveEnds(t) PROVE IInv'
<1> DEFINE s == node[t].session
<1>1. TypeInv /\ MapsInv /\ GuardInv BY DEF IInv
<1>2. s \in Sessions /\ Ends(t) /\ manager' = "free" /\ UNCHANGED << reading, shielded, known, stopper >>
  BY <1>1 DEF RemoveEnds, IsAt, TypeInv
<1>3. \A u \in Conversations : node'[u] = node[u] \/ node'[u] = Resting
  BY <1>1, <1>2 DEF Ends, TypeInv
<1>4. \/ StopEnds(s, t) /\ ForgetSession(s) /\ UNCHANGED left
      \/ StopFails(s, t) /\ UNCHANGED maps
  BY DEF RemoveEnds
<1> HIDE DEF s
<1>5. /\ process' \in [Sessions -> {"none", "alive", "doomed", "dead"}]
      /\ shut' = shut
      /\ stopHolder' \in [Sessions -> Conversations \cup {"free", "shield", "all"}]
      /\ left' \in [{"sessions", "troubles"} -> Nat] /\ left'["sessions"] = left["sessions"]
  BY <1>1, <1>2, <1>4, StopsType
<1>6. MapsInv' /\ GuardInv' /\ closing' \subseteq closing
  <2>1. CASE StopEnds(s, t) /\ ForgetSession(s) /\ UNCHANGED left
    BY <1>2, <1>3, <2>1, ForgetsGuard
  <2>2. CASE StopFails(s, t) /\ UNCHANGED maps
    BY <1>1, <1>2, <1>3, <1>5, <2>2, StopFailsGuard, MapsFrame DEF maps
  <2> QED BY <1>4, <2>1, <2>2
<1>7. node' \in [Conversations -> [at : Places, session : Sessions \cup {0},
                                   handle : Handles \cup {NoHandle}, fresh : BOOLEAN]]
  BY <1>1, <1>2 DEF TypeInv, Ends, Resting, Places
<1>8. \A u \in Conversations : node'[u].at # "idle" => node'[u].session \in Sessions
  BY <1>1, <1>3 DEF TypeInv, Resting
<1>9. TypeInv' BY <1>1, <1>2, <1>5, <1>6, <1>7, <1>8 DEF TypeInv, StopperType
<1> QED BY <1>6, <1>9 DEF IInv

\* So does stop_all.
LEMMA StopAllEndsStep == ASSUME IInv, NEW s \in Sessions, StopAllEnds(s) PROVE IInv'
<1>1. TypeInv /\ MapsInv /\ GuardInv BY DEF IInv
<1>2. UNCHANGED << manager, reading, shielded, node, known >> BY DEF StopAllEnds
<1>3. StopperType' BY <1>1 DEF StopAllEnds, TypeInv, StopperType
<1>4. \/ StopEnds(s, "all") /\ ForgetSession(s) /\ UNCHANGED left
      \/ StopFails(s, "all") /\ UNCHANGED maps
  BY DEF StopAllEnds
<1>5. /\ process' \in [Sessions -> {"none", "alive", "doomed", "dead"}]
      /\ shut' = shut
      /\ stopHolder' \in [Sessions -> Conversations \cup {"free", "shield", "all"}]
      /\ left' \in [{"sessions", "troubles"} -> Nat] /\ left'["sessions"] = left["sessions"]
  BY <1>1, <1>4, StopsType
<1>6. MapsInv' /\ GuardInv' /\ closing' \subseteq closing
  <2>1. CASE StopEnds(s, "all") /\ ForgetSession(s) /\ UNCHANGED left
    BY <1>2, <2>1, ForgetsGuard
  <2>2. CASE StopFails(s, "all") /\ UNCHANGED maps
    BY <1>1, <1>2, <1>5, <2>2, StopFailsGuard, MapsFrame DEF maps
  <2> QED BY <1>4, <2>1, <2>2
<1>7. TypeInv' BY <1>1, <1>2, <1>3, <1>5, <1>6 DEF TypeInv
<1> QED BY <1>6, <1>7 DEF IInv

\* The rest of stop_all_tasks and stop_all.
LEMMA StopAllStep ==
    ASSUME IInv,
           \/ StopEverySession \/ StopAllTakes \/ StopAllReturns
           \/ \E t \in Conversations : StopAllCancels(t)
    PROVE  IInv'
<1>1. TypeInv /\ MapsInv /\ GuardInv BY DEF IInv
<1>2. CASE StopEverySession
  <2>1. /\ UNCHANGED << maps, procs, manager, node, known >>
        /\ left' \in [{"sessions", "troubles"} -> Nat] /\ left'["sessions"] = left["sessions"]
    BY <1>1, <1>2 DEF StopEverySession, Budget, TypeInv
  <2>2. StopperType' BY <1>2 DEF StopEverySession, StopperType
  <2>3. TypeInv' BY <1>1, <2>1, <2>2 DEF TypeInv, maps, procs
  <2> QED BY <1>1, <2>1, <2>3, MapsFrame, OwnedFrame DEF IInv, GuardInv, maps, procs
<1>3. CASE StopAllTakes
  <2>1. /\ UNCHANGED << pending, sessions, toReal, toTemp, procs, node, known, left >>
        /\ manager' = "all" /\ closing' = closing \cup Owned
    BY <1>3 DEF StopAllTakes
  <2>2. Owned \subseteq Sessions
    BY <1>1, ExistingSessions DEF MapsInv, Owned, Range
  <2>3. StopperType' BY <1>1, <1>3, <2>2 DEF StopAllTakes, StopperType, TypeInv
  <2>4. TypeInv' BY <1>1, <2>1, <2>2, <2>3 DEF TypeInv, procs
  <2> QED BY <1>1, <2>1, <2>4, MapsFrame, OwnedFrame DEF IInv, GuardInv, procs
<1>4. CASE StopAllReturns
  <2>1. UNCHANGED << maps, procs, node, known, left >> /\ manager' = "free"
    BY <1>4 DEF StopAllReturns
  <2>2. StopperType' BY <1>1, <1>4 DEF StopAllReturns, StopperType, TypeInv
  <2>3. TypeInv' BY <1>1, <2>1, <2>2 DEF TypeInv, maps, procs
  <2> QED BY <1>1, <2>1, <2>3, MapsFrame, OwnedFrame DEF IInv, GuardInv, maps, procs
<1>5. CASE \E t \in Conversations : StopAllCancels(t)
  <2>1. PICK t \in Conversations : StopAllCancels(t) BY <1>5
  <2>2. UNCHANGED << known, left >> /\ StopperType'
    BY <1>1, <2>1 DEF StopAllCancels, StopperType, TypeInv
  <2>3. left' \in [{"sessions", "troubles"} -> Nat] /\ left'["sessions"] = left["sessions"]
    BY <1>1, <2>2 DEF TypeInv
  <2>4. CASE IsAt(t, "idle")
    <3>1. UNCHANGED << maps, procs, manager, node >> BY <2>1, <2>4 DEF StopAllCancels
    <3>2. TypeInv' BY <1>1, <2>2, <3>1 DEF TypeInv, maps, procs
    <3> QED BY <1>1, <2>3, <3>1, <3>2, MapsFrame, OwnedFrame DEF IInv, GuardInv, maps, procs
  <2>5. CASE ~IsAt(t, "idle")
    <3>1. Cancels(t) BY <2>1, <2>5 DEF StopAllCancels
    <3> QED BY <2>2, <2>3, <3>1, CancelsStep
  <2> QED BY <2>4, <2>5
<1> QED BY <1>2, <1>3, <1>4, <1>5

------------------------------------------------------------------------------
(* Theorems                                                                 *)

\* The pool starts empty.
LEMMA InitIInv == SessionsInit => IInv
<1> SUFFICES ASSUME SessionsInit PROVE IInv OBVIOUS
<1>1. TypeInv
  BY DEF SessionsInit, TypeInv, StopperType, Resting, Places, NoHandle
<1>2. MapsInv BY DEF SessionsInit, MapsInv, Range
<1>3. GuardInv BY DEF SessionsInit, GuardInv, Resting
<1> QED BY <1>1, <1>2, <1>3 DEF IInv

\* Every step keeps the invariant.
LEMMA NextIInv == IInv /\ [SessionsNext]_sessionVars => IInv'
<1> SUFFICES ASSUME IInv, [SessionsNext]_sessionVars PROVE IInv' OBVIOUS
<1>1. ASSUME NEW t \in Conversations,
             \/ LaunchFails(t) \/ NodeFails(t) \/ CancelNode(t) \/ NodeWorks(t)
      PROVE  IInv'
  <2>1. CASE RemoveStops(t)
    <3>1. node[t].session \in Sessions BY <2>1 DEF RemoveStops, IsAt, IInv, TypeInv
    <3> QED BY <2>1, <3>1, StopBeginsStep DEF RemoveStops
  <2> QED BY <1>1, <2>1, LaunchesStep, RemovesStep, RemoveEndsStep, NodeStep DEF NodeWorks
<1>2. ASSUME NEW t \in Conversations, NEW h \in Named \cup {NoHandle},
             GetsNew(t, h) \/ GetsOwned(t, h)
      PROVE  IInv'
  BY <1>2, GetsNewStep, GetsOwnedStep
<1>3. ASSUME NEW t \in Conversations, NEW id \in Named, Registers(t, id) PROVE IInv'
  BY <1>3, RegistersStep
<1>4. ASSUME NEW s \in Sessions,
             Finalised(s) \/ ProcessEnds(s) \/ ShieldBegins(s) \/ ShieldEnds(s)
      PROVE  IInv'
  BY <1>4, EndStep, ShieldEndsStep, StopBeginsStep DEF ShieldBegins
<1>5. CASE StopEverySession BY <1>5, StopAllStep
<1>6. CASE StopAllWorks
  <2>1. ASSUME NEW s \in Sessions, StopAllBegins(s) PROVE IInv'
    BY <2>1, StopBeginsStep DEF StopAllBegins
  <2> QED BY <1>6, <2>1, StopAllStep, StopAllEndsStep DEF StopAllWorks
<1>7. CASE UNCHANGED sessionVars
  <2>1. TypeInv' BY <1>7 DEF sessionVars, IInv, TypeInv, StopperType
  <2>2. MapsInv' BY <1>7, MapsFrame DEF sessionVars, IInv
  <2>3. GuardInv' BY <1>7, OwnedFrame DEF sessionVars, IInv, GuardInv
  <2> QED BY <2>1, <2>2, <2>3 DEF IInv
<1> QED BY <1>1, <1>2, <1>3, <1>4, <1>5, <1>6, <1>7 DEF SessionsNext

\* The invariant holds in every reachable state of the pool.
THEOREM Invariance == SessionsSpec => []IInv
<1> QED BY InitIInv, NextIInv, PTL DEF SessionsSpec

\* Every variable of the pool stays in its range, and no session is pending and
\* registered at once.
THEOREM PoolTyping == SessionsSpec => []SessionsTypeOK
<1>1. IInv => SessionsTypeOK
  <2> SUFFICES ASSUME IInv PROVE SessionsTypeOK OBVIOUS
  <2>1. DOMAIN pending \subseteq Handles /\ DOMAIN sessions \subseteq Handles
    BY ExistingSessions DEF IInv, MapsInv, Handles
  <2> QED BY <2>1 DEF IInv, TypeInv, MapsInv, SessionsTypeOK
<1> QED BY <1>1, Invariance, PTL

\* A Claude subprocess that may still run is owned by the manager, so that the
\* next stop_all ends it, and the id maps of the pool lead to registered
\* sessions and back (manager.py:151-200).
THEOREM OwnedProcesses == SessionsSpec => []EveryProcessIsOwned
<1>1. IInv => EveryProcessIsOwned BY DEF IInv, GuardInv, MapsInv, EveryProcessIsOwned
<1> QED BY <1>1, Invariance, PTL

=============================================================================
