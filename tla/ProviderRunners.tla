--------------------------- MODULE ProviderRunners ---------------------------
(***************************************************************************)
(* The callers of the admission controller: run_with_retry (Unary), the    *)
(* OpenAI-chat stream runner with its early retries and mid-stream         *)
(* recovery (Chat), and the ChatGPT Responses runner (Codex).  Each        *)
(* session is one logical execution of one of them.  What an upstream      *)
(* answers, when a task is cancelled, and whether closing a stream or      *)
(* reading credentials fails is the environment's choice.                  *)
(***************************************************************************)
EXTENDS ProviderAdmission

CONSTANTS Unary, Chat, Codex,   \* which runner each session uses
          Events                \* environment events an instance admits

\* "cancel": cancellation while admitted or upstream; "close": cancellation
\* or an error while a stream is being closed; "auth": credentials missing or
\* cancellation while they are read; "correct": a 401 or a correctable request;
\* "midstream": a committed stream breaks and is continued by a recovery request.
EventKinds == {"cancel", "close", "auth", "correct", "midstream"}

ASSUME RunnersAssumption ==
    /\ Sessions = Unary \cup Chat \cup Codex
    /\ Unary \cap Chat = {} /\ Unary \cap Codex = {} /\ Chat \cap Codex = {}
    /\ Events \subseteq EventKinds

VARIABLES
    phase,      \* where each runner is
    plan,       \* what its finally block leads to: another attempt or the end
    outer,      \* attempt kept open across a mid-stream recovery, 0 for none
    renewed,    \* Codex: authentication_recovered
    outcome     \* how the execution ended

runnerVars == <<phase, plan, outer, renewed, outcome>>
vars == <<admissionVars, runnerVars>>

\* "between": at the top of the retry loop; "calling": the request is sent;
\* "streaming": its stream is open; "draining": the finally block awaits the
\* close of the stream; "closing": it closes the attempt; "unwinding": run()'s
\* own finally block, with the attempt a recovery left open.
Phases == {"new", "between", "admitting", "calling", "streaming", "draining",
           "closing", "unwinding", "ended"}
Streaming == Chat \cup Codex

Go(s, to) == phase' = [phase EXCEPT ![s] = to]

\* Leaving the retry loop, for good or back into run() after a recovery.
AfterLoop(s) == IF outer[s] = 0 THEN "ended" ELSE "unwinding"
Leave(s, result) ==
    /\ Go(s, AfterLoop(s))
    /\ outcome' = [outcome EXCEPT ![s] = result]
    /\ UNCHANGED <<plan, outer, renewed>>

\* Into the finally block, knowing whether another attempt follows.
Conclude(s, block, again, result) ==
    /\ Go(s, block)
    /\ plan' = [plan EXCEPT ![s] = IF again THEN "again" ELSE "stop"]
    /\ outcome' = [outcome EXCEPT ![s] = IF again THEN @ ELSE result]
    /\ UNCHANGED <<outer, renewed>>

HasBudget(s) == started[s] < MaxAttempts

------------------------------------------------------------------------------
(* Entering the controller                                                  *)

\* await self._auth.access() (Codex), then open_attempt.
Begin(s) ==
    /\ phase[s] \in {"new", "between"}
    /\ OpenAttempt(s)
    /\ Go(s, "admitting")
    /\ UNCHANGED <<plan, outer, renewed, outcome>>

\* The credentials cannot be read, or the task is cancelled meanwhile.
AuthFails(s, result) ==
    /\ s \in Codex /\ "auth" \in Events
    /\ phase[s] \in {"new", "between"}
    /\ HasBudget(s)
    /\ result \in {"failed", "cancelled"}
    /\ Leave(s, result)
    /\ UNCHANGED admissionVars

\* while retry_session.can_attempt: the loop ends in a RuntimeError.
OutOfBudget(s) ==
    /\ s \in Codex
    /\ phase[s] = "between"
    /\ ~HasBudget(s)
    /\ Leave(s, "failed")
    /\ UNCHANGED admissionVars

Admitted(s) ==
    /\ phase[s] = "admitting"
    /\ Admit(s)
    /\ stage'[s] # "out"
    /\ Go(s, IF stage'[s] = "open" THEN "calling" ELSE "admitting")
    /\ UNCHANGED <<plan, outer, renewed, outcome>>

Refused(s) ==
    /\ phase[s] = "admitting"
    /\ GateRefuses(s)
    /\ Leave(s, "failed")

CancelAdmitting(s) ==
    /\ "cancel" \in Events
    /\ phase[s] = "admitting"
    /\ CancelOpenAttempt(s)
    /\ Leave(s, "cancelled")

------------------------------------------------------------------------------
(* The upstream call                                                        *)

\* A failed call has no stream to close, except a Codex error response.
CallBlocks(s) == IF s \in Codex THEN {"closing", "draining"} ELSE {"closing"}

CallReturns(s) ==
    /\ phase[s] = "calling" /\ s \in Unary
    /\ Succeeded(s)
    /\ Conclude(s, "closing", FALSE, "ok")

CallOpensStream(s) ==
    /\ phase[s] = "calling" /\ s \in Streaming
    /\ Go(s, "streaming")
    /\ UNCHANGED <<admissionVars, plan, outer, renewed, outcome>>

CallRejected(s) ==
    /\ phase[s] = "calling"
    /\ Rejected(s)
    /\ \E block \in CallBlocks(s) : Conclude(s, block, FALSE, "failed")

\* run_with_retry and _create_stream obey retry(); Codex and the collector of a
\* recovery ignore its result and look only at the budget.
CallFails(s, quotaExhausted) ==
    /\ phase[s] = "calling"
    /\ Failed(s, quotaExhausted)
    /\ \E block \in CallBlocks(s) :
          Conclude(s, block,
                   IF s \in Codex \/ outer[s] # 0 THEN HasBudget(s)
                                                ELSE CanRetry(s, quotaExhausted),
                   "failed")

\* _create_stream resends a request the upstream told it how to correct.
ChatCorrects(s) ==
    /\ "correct" \in Events
    /\ phase[s] = "calling" /\ s \in Chat
    /\ HasBudget(s)
    /\ Corrected(s)
    /\ Conclude(s, "closing", TRUE, "none")

\* The first 401 renews the credentials; the budget is not consulted.
CodexUnauthorized(s) ==
    /\ "correct" \in Events
    /\ phase[s] = "calling" /\ s \in Codex
    /\ ~renewed[s]
    /\ Corrected(s)
    /\ Go(s, "draining")
    /\ plan' = [plan EXCEPT ![s] = "again"]
    /\ renewed' = [renewed EXCEPT ![s] = TRUE]
    /\ UNCHANGED <<outer, outcome>>

\* A plausible bug: cancellation leaves without the finally block.
CancelCall_SkipsFinally(s) ==
    /\ "cancel" \in Events
    /\ phase[s] \in {"calling", "streaming"}
    /\ Drop(s)
    /\ Leave(s, "cancelled")

CancelCall(s) ==
    /\ "cancel" \in Events
    /\ phase[s] \in {"calling", "streaming"}
    /\ \E block \in IF phase[s] = "streaming" THEN {"draining"} ELSE CallBlocks(s) :
          Conclude(s, block, FALSE, "cancelled")
    /\ UNCHANGED admissionVars

------------------------------------------------------------------------------
(* The stream                                                               *)

FirstEvent(s) ==
    /\ phase[s] = "streaming"
    /\ Succeeded(s)
    /\ UNCHANGED runnerVars

StreamRejected(s) ==
    /\ phase[s] = "streaming"
    /\ Rejected(s)
    /\ Conclude(s, "draining", FALSE, "failed")

\* Broken before its first event: retry() is told, its result is ignored.
StreamFails(s, quotaExhausted) ==
    /\ phase[s] = "streaming"
    /\ Failed(s, quotaExhausted)
    /\ Conclude(s, "draining", HasBudget(s), "failed")

\* Broken after acceptance: no retry() any more, only the runner's own choice
\* between another attempt, when nothing was committed, and giving up.
AcceptedStreamFails(s) ==
    /\ phase[s] = "streaming" /\ attempt[s] = "accepted"
    /\ \E again \in {FALSE, HasBudget(s)} : Conclude(s, "draining", again, "failed")
    /\ UNCHANGED admissionVars

StreamEnds(s) ==
    /\ phase[s] = "streaming" /\ attempt[s] = "accepted"
    /\ Conclude(s, "draining", FALSE, "ok")
    /\ UNCHANGED admissionVars

\* _recovery_events inside the except clause of run(): the broken attempt is
\* closed only by the finally block, after the recovery.
MidstreamRecovery(s) ==
    /\ "midstream" \in Events
    /\ phase[s] = "streaming" /\ s \in Chat
    /\ outer[s] = 0
    /\ HasBudget(s)
    /\ KeepOpen(s)
    /\ outer' = [outer EXCEPT ![s] = started[s]]
    /\ Go(s, "between")
    /\ UNCHANGED <<plan, renewed, outcome>>

------------------------------------------------------------------------------
(* The finally blocks                                                       *)

StreamCloses(s) ==
    /\ phase[s] = "draining"
    /\ Go(s, "closing")
    /\ UNCHANGED <<admissionVars, plan, outer, renewed, outcome>>

\* Cancellation at the close of the stream skips attempt.aclose(); so does an
\* error of the close, which only run()'s own finally block suppresses.
StreamCloseFails(s, result) ==
    /\ "close" \in Events
    /\ phase[s] = "draining"
    /\ \/ result = "cancelled"
       \/ result = "failed" /\ (s \in Codex \/ outer[s] # 0)
    /\ Drop(s)
    /\ Leave(s, result)

\* A plausible bug: the retry loop goes on without releasing the permit.
CloseAttempt_Leaks(s) ==
    /\ phase[s] = "closing"
    /\ stage[s] = "open" /\ attempt[s] \in {"accepted", "settled"}
    /\ attempt' = [attempt EXCEPT ![s] = "none"]
    /\ stage' = [stage EXCEPT ![s] = "out"]
    /\ UNCHANGED <<controller, permit, started, doomed>>
    /\ Go(s, IF plan[s] = "again" THEN "between" ELSE AfterLoop(s))
    /\ UNCHANGED <<plan, outer, renewed, outcome>>

CloseAttempt(s) ==
    /\ phase[s] = "closing"
    /\ CloseResolved(s)
    /\ Go(s, IF plan[s] = "again" THEN "between" ELSE AfterLoop(s))
    /\ UNCHANGED <<plan, outer, renewed, outcome>>

AbandonAttempt(s) ==
    /\ phase[s] = "closing"
    /\ CloseUnresolved(s)
    /\ UNCHANGED runnerVars

AbandonmentTask(s) == AbandonmentRuns(s) /\ UNCHANGED runnerVars

AbandonFinishes(s) ==
    /\ phase[s] = "closing"
    /\ FinishAbandoning(s)
    /\ Go(s, AfterLoop(s))
    /\ UNCHANGED <<plan, outer, renewed, outcome>>

Unwind(s) ==
    /\ phase[s] = "unwinding"
    /\ CloseKept(s, outer[s])
    /\ outer' = [outer EXCEPT ![s] = 0]
    /\ Go(s, "ended")
    /\ UNCHANGED <<plan, renewed, outcome>>

\* Cancelled while run() closes the broken stream: aclose is skipped.
CancelUnwind(s) ==
    /\ "close" \in Events
    /\ phase[s] = "unwinding"
    /\ Go(s, "ended")
    /\ outcome' = [outcome EXCEPT ![s] = "cancelled"]
    /\ UNCHANGED <<admissionVars, plan, outer, renewed>>

------------------------------------------------------------------------------

RunnersInit ==
    /\ Init
    /\ phase = [s \in Sessions |-> "new"]
    /\ plan = [s \in Sessions |-> "again"]
    /\ outer = [s \in Sessions |-> 0]
    /\ renewed = [s \in Sessions |-> FALSE]
    /\ outcome = [s \in Sessions |-> "none"]

\* Steps the event loop, the timers or the upstream eventually take.
Progress(s) ==
    \/ Begin(s) \/ OutOfBudget(s) \/ Admitted(s) \/ Refused(s)
    \/ CallReturns(s) \/ CallOpensStream(s) \/ CallRejected(s)
    \/ \E quotaExhausted \in BOOLEAN : CallFails(s, quotaExhausted)
                                       \/ StreamFails(s, quotaExhausted)
    \/ ChatCorrects(s) \/ CodexUnauthorized(s)
    \/ FirstEvent(s) \/ StreamRejected(s) \/ AcceptedStreamFails(s) \/ StreamEnds(s)
    \/ MidstreamRecovery(s)
    \/ StreamCloses(s) \/ CloseAttempt(s) \/ AbandonAttempt(s) \/ AbandonFinishes(s)
    \/ Unwind(s)

Disturbance(s) ==
    \/ CancelAdmitting(s) \/ CancelCall(s) \/ CancelUnwind(s)
    \/ \E result \in {"failed", "cancelled"} : AuthFails(s, result) \/ StreamCloseFails(s, result)

Clock == (BackoffElapses \/ CooldownElapses) /\ UNCHANGED runnerVars

AllEnded == \A s \in Sessions : phase[s] = "ended" /\ attempt[s] # "abandoning"
Quiet == AllEnded /\ UNCHANGED vars

RunnersNext ==
    \/ \E s \in Sessions : Progress(s) \/ AbandonmentTask(s) \/ Disturbance(s)
    \/ Clock
    \/ Quiet

Spec == RunnersInit /\ [][RunnersNext]_vars

\* The loop runs every ready task, timers fire, and an upstream call or stream
\* ends: read timeouts bound its silence and the model's stream has one event.
RunnersFairness ==
    /\ \A s \in Sessions : WF_vars(Progress(s)) /\ WF_vars(AbandonmentTask(s))
    /\ WF_vars(Clock)

FairSpec == Spec /\ RunnersFairness

------------------------------------------------------------------------------
(* Properties of the executions                                             *)

\* The values the variables of the executions take.
RunnersTypeOK ==
    /\ TypeOK
    /\ phase \in [Sessions -> Phases]
    /\ plan \in [Sessions -> {"again", "stop"}]
    /\ outer \in [Sessions -> 0..MaxAttempts]
    /\ renewed \in [Sessions -> BOOLEAN]
    /\ outcome \in [Sessions -> {"none", "ok", "failed", "cancelled"}]

\* Every permit of the bulkhead can be traced to an execution: one the
\* semaphore just chose, a latest attempt not yet closed, or the attempt a
\* mid-stream recovery keeps open.  Nothing else in the retry paths loses one.
PermitsAreTraceable ==
    \A slot \in slots :
        LET s == slot[1] n == slot[2] IN
        \/ n = started[s] + 1 /\ stage[s] = "granted"
        \/ n = started[s] /\ attempt[s] # "none"
        \/ n = outer[s]

\* An execution that ended has returned every permit: aclose releases the
\* attempt's slot exactly once on every way out.
EndedHoldsNoPermit ==
    \A slot \in slots : phase[slot[1]] # "ended"

\* The leader of a recovery is an execution still at work (or one whose
\* abandonment is about to vacate the lead): nobody waits for the dead.
LeaderIsAlive ==
    episode.leader \in Sessions =>
        phase[episode.leader] # "ended" \/ attempt[episode.leader] = "abandoning"

\* A cancelled leader has handed leadership on.
CancelledLeaderHandsOver ==
    \A s \in Sessions :
        phase[s] = "ended" /\ outcome[s] = "cancelled" /\ attempt[s] # "abandoning"
            => episode.leader # s

\* A leader whose attempts are all started is on its last probe; once that is
\* settled the episode is terminal, or closed.
ExhaustedLeaderEndsEpisode ==
    episode.leader \in Sessions /\ started[episode.leader] = MaxAttempts => episode.probing

\* No execution holds a permit of the bulkhead while it sleeps out a backoff
\* or waits for the leader of a recovery.
NoPermitDuringBackoff ==
    \A slot \in slots : stage[slot[1]] \notin {"leading", "waiting", "woken"}

\* What a close of the controller can break, see the violated runs, holds
\* without one: an execution that ended, a leader that has used up its attempts
\* and one that sleeps out a backoff leave the controller as they should.
UndisturbedIsClean ==
    /\ LeaderIsAlive
    /\ EndedHoldsNoPermit
    /\ ExhaustedLeaderEndsEpisode
    /\ NoPermitDuringBackoff

\* What an execution that ended may leave with the controller: a lead nobody
\* takes from it, or a permit.
Residue(s) ==
    \/ episode.leader = s /\ attempt[s] # "abandoning"
    \/ \E slot \in slots : slot[1] = s

\* An execution leaves nothing behind, whatever it retried, corrected, recovered
\* and was cancelled in, except where the violated runs say: when the close of
\* a stream fails or is cancelled, its own (draining) or one of its recovery
\* (unwinding); and when a ChatGPT execution leaves the top of its loop while
\* it leads, without credentials or without an attempt left.
EndsAreClean ==
    [][\A s \in Sessions : phase[s] # "ended" /\ phase'[s] = "ended" /\ Residue(s)' =>
          \/ phase[s] = "draining"
          \/ phase[s] = "unwinding" /\ (attempt[s] # "none" \/ outer'[s] # 0)
          \/ phase[s] = "between" /\ s \in Codex /\ \A slot \in slots' : slot[1] # s]_vars

\* Every execution that starts comes to an end.
EveryExecutionEnds == \A s \in Sessions : phase[s] = "admitting" ~> phase[s] = "ended"
==============================================================================
