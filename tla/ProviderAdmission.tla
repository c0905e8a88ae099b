-------------------------- MODULE ProviderAdmission --------------------------
(***************************************************************************)
(* The shared upstream-admission controller of one provider                *)
(* (providers/admission.py): the recovery gate, the rate window, the       *)
(* concurrency bulkhead and the coordinated retry episode.                 *)
(*                                                                         *)
(* A "session" is one logical execution (ProviderRetrySession) together    *)
(* with the task that runs it.  This module leaves the caller open: a      *)
(* session may call the controller in any order its interface allows, be   *)
(* cancelled wherever the controller suspends it, and walk away from an    *)
(* attempt without closing it.  ProviderRunners fixes the real callers.    *)
(*                                                                         *)
(* The event loop is single-threaded and no critical section of the        *)
(* condition suspends except in condition.wait(), so the condition's lock  *)
(* is never contended: one critical section is one action.  Clock values   *)
(* are abstracted to "has it passed": ready (ready_at) and cooldown        *)
(* (terminal_until).  The rate window's own bound is SlidingWindow's; here *)
(* admission by the window may take any time.                              *)
(***************************************************************************)
EXTENDS Integers, SequencesExt

CONSTANTS Sessions,        \* logical executions
          NoSession,       \* Python's None where a leader is expected
          MaxAttempts,     \* ProviderRetrySession._max_attempts
          MaxConcurrency   \* permits of ProviderAdmissionController._concurrency_sem

\* The constructors reject non-positive bounds; None is not a session.
ASSUME AdmissionAssumption ==
    /\ NoSession \notin Sessions
    /\ MaxAttempts \in Nat \ {0}
    /\ MaxConcurrency \in Nat \ {0}

VARIABLES
    episode,     \* the shared _RecoveryEpisode, NoEpisode for None
    nextGen,     \* _next_generation
    slots,       \* bulkhead permits in use: <<session, attempt number>>
    queue,       \* sessions suspended in _concurrency_sem.acquire(), FIFO
    stage,       \* where in the controller each session's task is
    permit,      \* the _GatePermit each session got last
    started,     \* _attempts_started of each session
    doomed,      \* whether _terminal_error of each session is set
    attempt      \* state of each session's latest ProviderAttempt

controller == <<episode, nextGen, slots, queue>>
admissionVars == <<episode, nextGen, slots, queue, stage, permit, started, doomed, attempt>>

Generations == Nat
Permits == [gen : Generations, probe : BOOLEAN]
Cooldowns == {"none", "active", "expired"}
Episodes == [gen : Generations, leader : Sessions \cup {NoSession}, ready : BOOLEAN,
             probing : BOOLEAN, cooldown : Cooldowns, waiters : SUBSET Sessions]
\* "out": the caller runs; "gate"/"woken": about to run the gate's critical
\* section, first time or after notify_all; "leading": the leader's backoff
\* sleep; "window", "queued", "granted": inside open_attempt after the gate;
\* "open": the caller holds the attempt; "abandoning": suspended in the
\* shielded abandonment of aclose.
Stages == {"out", "gate", "waiting", "woken", "leading", "window", "queued",
           "granted", "open", "abandoning"}
AttemptStates == {"none", "open", "accepted", "settled", "abandoning"}

NoEpisode == [gen |-> 0, leader |-> NoSession, ready |-> FALSE, probing |-> FALSE,
              cooldown |-> "none", waiters |-> {}]
NormalPermit == [gen |-> 0, probe |-> FALSE]

NewEpisode(leader, ready, cooldown) ==
    [gen |-> nextGen, leader |-> leader, ready |-> ready, probing |-> FALSE,
     cooldown |-> cooldown, waiters |-> {}]

------------------------------------------------------------------------------
(* State formulae of the controller                                         *)

Recovering == episode.gen # 0

\* The session's permit is the live probe of the current episode.
MatchingProbe(s) ==
    /\ permit[s].probe
    /\ Recovering
    /\ episode.gen = permit[s].gen
    /\ episode.leader = s
    /\ episode.probing

PermitIsCurrent(s) ==
    IF permit[s].probe THEN MatchingProbe(s) /\ episode.cooldown = "none" ELSE ~Recovering

\* condition.notify_all()
NotifyAll(st) == [t \in Sessions |-> IF st[t] = "waiting" THEN "woken" ELSE st[t]]

CanRetry(s, quotaExhausted) == started[s] < MaxAttempts /\ ~quotaExhausted

\* A plausible bug: one permit too many.
SlotFree_OffByOne == queue = <<>> /\ Cardinality(slots) <= MaxConcurrency

SlotFree == queue = <<>> /\ Cardinality(slots) < MaxConcurrency

------------------------------------------------------------------------------
(* Building blocks of the actions                                           *)

\* A plausible bug: the probe is not handed back.
EpisodeWithoutProbe_Kept(s) == episode

\* Handing back the probe: leadership and probe are vacated, ready at once,
\* and the waiters are notified.  st is every session's stage before that.
EpisodeWithoutProbe(s) ==
    IF MatchingProbe(s)
    THEN [episode EXCEPT !.leader = NoSession, !.probing = FALSE, !.ready = TRUE]
    ELSE episode

\* A plausible bug: the waiters are not notified.
StagesAfterVacating_NoNotify(s, st) == st

StagesAfterVacating(s, st) == IF MatchingProbe(s) THEN NotifyAll(st) ELSE st

\* A plausible bug: the queue's head is not woken.
Release_NoHandoff(slot, st) ==
    /\ slots' = slots \ {slot}
    /\ queue' = queue
    /\ stage' = st

\* Semaphore.release(): the freed permit goes to the queue's head, if any.
Release(slot, st) ==
    IF queue = <<>>
    THEN /\ slots' = slots \ {slot}
         /\ queue' = queue
         /\ stage' = st
    ELSE LET next == Head(queue) IN
         /\ slots' = (slots \ {slot}) \cup {<<next, started[next] + 1>>}
         /\ queue' = Tail(queue)
         /\ stage' = [st EXCEPT ![next] = "granted"]

\* session._claim_attempt() and the ProviderAttempt handed to the caller.
Claim(s) ==
    /\ started' = [started EXCEPT ![s] = @ + 1]
    /\ attempt' = [attempt EXCEPT ![s] = "open"]

------------------------------------------------------------------------------
(* open_attempt: gate, rate window, bulkhead                                *)

\* A plausible bug: the attempt budget is not checked.
OpenAttempt_NoBudget(s) ==
    /\ stage[s] = "out"
    /\ attempt[s] = "none"
    /\ stage' = [stage EXCEPT ![s] = "gate"]
    /\ UNCHANGED <<controller, permit, started, doomed, attempt>>

OpenAttempt(s) ==
    /\ stage[s] = "out"
    /\ attempt[s] = "none"
    /\ started[s] < MaxAttempts
    /\ stage' = [stage EXCEPT ![s] = "gate"]
    /\ UNCHANGED <<controller, permit, started, doomed, attempt>>

AtGate(s) == stage[s] \in {"gate", "woken"}

\* ProviderRecoveryExhausted: this session's episode ended terminally, or
\* the provider is in its cooldown.
GateRefuses(s) ==
    /\ AtGate(s)
    /\ doomed[s] \/ episode.cooldown = "active"
    /\ stage' = [stage EXCEPT ![s] = "out"]
    /\ UNCHANGED <<controller, permit, started, doomed, attempt>>

\* A plausible bug: the session's terminal outcome is not looked at.
GatePasses_Forgives(s) ==
    /\ AtGate(s)
    /\ ~Recovering
    /\ permit' = [permit EXCEPT ![s] = NormalPermit]
    /\ stage' = [stage EXCEPT ![s] = "window"]
    /\ UNCHANGED <<controller, started, doomed, attempt>>

GatePasses(s) ==
    /\ AtGate(s)
    /\ ~doomed[s]
    /\ ~Recovering
    /\ permit' = [permit EXCEPT ![s] = NormalPermit]
    /\ stage' = [stage EXCEPT ![s] = "window"]
    /\ UNCHANGED <<controller, started, doomed, attempt>>

\* The leader e of a recovery either probes at once or sleeps until ready_at.
Lead(s, e) ==
    /\ episode' = [e EXCEPT !.probing = e.ready]
    /\ permit' = [permit EXCEPT ![s] = [gen |-> e.gen, probe |-> e.ready]]
    /\ stage' = [stage EXCEPT ![s] = IF e.ready THEN "window" ELSE "leading"]
    /\ UNCHANGED <<slots, queue, started, doomed, attempt>>

\* The caller that first finds the cooldown expired starts the next episode.
GateReopens(s) ==
    /\ AtGate(s)
    /\ ~doomed[s]
    /\ episode.cooldown = "expired"
    /\ Lead(s, NewEpisode(s, TRUE, "none"))
    /\ nextGen' = nextGen + 1

\* A plausible bug: a session takes the lead from a sleeping leader.
GateLeads_Usurps(s) ==
    /\ AtGate(s)
    /\ ~doomed[s]
    /\ Recovering
    /\ episode.cooldown = "none"
    /\ ~episode.probing
    /\ Lead(s, [episode EXCEPT !.leader = s, !.waiters = @ \ {s}])
    /\ UNCHANGED nextGen

\* Leadership is vacant, or already this session's (after a failed or
\* corrected probe).  A leader whose own probe is still active would wait
\* here; that never happens (LeaderNeverWaits).
GateLeads(s) ==
    /\ AtGate(s)
    /\ ~doomed[s]
    /\ Recovering
    /\ episode.cooldown = "none"
    /\ episode.leader \in {NoSession, s}
    /\ ~episode.probing
    /\ Lead(s, [episode EXCEPT !.leader = s, !.waiters = @ \ {s}])
    /\ UNCHANGED nextGen

GateWaits(s) ==
    /\ AtGate(s)
    /\ ~doomed[s]
    /\ episode.cooldown = "none"
    /\ episode.leader \notin {NoSession, s}
    /\ episode' = [episode EXCEPT !.waiters = @ \cup {s}]
    /\ stage' = [stage EXCEPT ![s] = "waiting"]
    /\ UNCHANGED <<nextGen, slots, queue, permit, started, doomed, attempt>>

\* asyncio.sleep(sleep_delay) returns; the claimed generation is re-checked.
LeaderWakes(s) ==
    /\ stage[s] = "leading"
    /\ Recovering => episode.ready
    /\ IF /\ episode.gen = permit[s].gen
          /\ episode.cooldown = "none"
          /\ episode.leader = s
          /\ ~episode.probing
       THEN /\ episode' = [episode EXCEPT !.probing = TRUE]
            /\ permit' = [permit EXCEPT ![s].probe = TRUE]
            /\ stage' = [stage EXCEPT ![s] = "window"]
       ELSE /\ UNCHANGED <<episode, permit>>
            /\ stage' = [stage EXCEPT ![s] = "gate"]
    /\ UNCHANGED <<nextGen, slots, queue, started, doomed, attempt>>

\* The rate window has capacity but the permit went stale while waiting.
WindowRejects(s) ==
    /\ stage[s] = "window"
    /\ ~PermitIsCurrent(s)
    /\ episode' = EpisodeWithoutProbe(s)
    /\ stage' = StagesAfterVacating(s, [stage EXCEPT ![s] = "gate"])
    /\ UNCHANGED <<nextGen, slots, queue, permit, started, doomed, attempt>>

WindowAdmits(s) ==
    /\ stage[s] = "window"
    /\ PermitIsCurrent(s)
    /\ SlotFree
    /\ slots' = slots \cup {<<s, started[s] + 1>>}
    /\ Claim(s)
    /\ stage' = [stage EXCEPT ![s] = "open"]
    /\ UNCHANGED <<episode, nextGen, queue, permit, doomed>>

WindowQueues(s) ==
    /\ stage[s] = "window"
    /\ PermitIsCurrent(s)
    /\ ~SlotFree
    /\ queue' = Append(queue, s)
    /\ stage' = [stage EXCEPT ![s] = "queued"]
    /\ UNCHANGED <<episode, nextGen, slots, permit, started, doomed, attempt>>

\* The semaphore woke the session; the permit is checked once more.
SlotAdmits(s) ==
    /\ stage[s] = "granted"
    /\ PermitIsCurrent(s)
    /\ Claim(s)
    /\ stage' = [stage EXCEPT ![s] = "open"]
    /\ UNCHANGED <<controller, permit, doomed>>

\* A plausible bug: the stale permit's slot is not released.
SlotRejects_Leaks(s) ==
    /\ stage[s] = "granted"
    /\ ~PermitIsCurrent(s)
    /\ episode' = EpisodeWithoutProbe(s)
    /\ stage' = StagesAfterVacating(s, [stage EXCEPT ![s] = "gate"])
    /\ UNCHANGED <<nextGen, slots, queue, permit, started, doomed, attempt>>

SlotRejects(s) ==
    /\ stage[s] = "granted"
    /\ ~PermitIsCurrent(s)
    /\ episode' = EpisodeWithoutProbe(s)
    /\ Release(<<s, started[s] + 1>>, StagesAfterVacating(s, [stage EXCEPT ![s] = "gate"]))
    /\ UNCHANGED <<nextGen, permit, started, doomed, attempt>>

------------------------------------------------------------------------------
(* Cancellation at each suspension point of open_attempt                    *)

CancelWaiter(s) ==
    /\ stage[s] \in {"waiting", "woken"}
    /\ episode' = [episode EXCEPT !.waiters = @ \ {s}]
    /\ stage' = [stage EXCEPT ![s] = "out"]
    /\ UNCHANGED <<nextGen, slots, queue, permit, started, doomed, attempt>>

\* A plausible bug: a cancelled sleeping leader keeps the lead.
CancelLeader_KeepsLead(s) ==
    /\ stage[s] = "leading"
    /\ stage' = [stage EXCEPT ![s] = "out"]
    /\ UNCHANGED <<controller, permit, started, doomed, attempt>>

\* _abandon_waiting_leader
CancelLeader(s) ==
    LET owns == episode.gen = permit[s].gen /\ episode.leader = s /\ ~episode.probing
        left == [stage EXCEPT ![s] = "out"]
    IN  /\ stage[s] = "leading"
        /\ episode' = IF owns THEN [episode EXCEPT !.leader = NoSession] ELSE episode
        /\ stage' = IF owns THEN NotifyAll(left) ELSE left
        /\ UNCHANGED <<nextGen, slots, queue, permit, started, doomed, attempt>>

CancelInWindow(s) ==
    /\ stage[s] = "window"
    /\ episode' = EpisodeWithoutProbe(s)
    /\ stage' = StagesAfterVacating(s, [stage EXCEPT ![s] = "out"])
    /\ UNCHANGED <<nextGen, slots, queue, permit, started, doomed, attempt>>

CancelQueued(s) ==
    /\ stage[s] = "queued"
    /\ episode' = EpisodeWithoutProbe(s)
    /\ \E i \in DOMAIN queue : queue[i] = s /\ queue' = RemoveAt(queue, i)
    /\ stage' = StagesAfterVacating(s, [stage EXCEPT ![s] = "out"])
    /\ UNCHANGED <<nextGen, slots, permit, started, doomed, attempt>>

\* Cancelled after the semaphore chose it and before it ran: the permit is
\* passed on.
CancelGranted(s) ==
    /\ stage[s] = "granted"
    /\ episode' = EpisodeWithoutProbe(s)
    /\ Release(<<s, started[s] + 1>>, StagesAfterVacating(s, [stage EXCEPT ![s] = "out"]))
    /\ UNCHANGED <<nextGen, permit, started, doomed, attempt>>

CancelOpenAttempt(s) ==
    \/ CancelWaiter(s) \/ CancelLeader(s) \/ CancelInWindow(s)
    \/ CancelQueued(s) \/ CancelGranted(s)

------------------------------------------------------------------------------
(* ProviderAttempt: how an open attempt is resolved                         *)

Resolve(s, state) ==
    /\ stage[s] = "open"
    /\ attempt[s] = "open"
    /\ attempt' = [attempt EXCEPT ![s] = state]
    /\ UNCHANGED <<nextGen, slots, queue, permit, started>>

\* A plausible bug: any response closes the episode.
CloseEpisode_Stale(s) ==
    /\ episode' = NoEpisode
    /\ stage' = NotifyAll(stage)
    /\ UNCHANGED doomed

\* A plausible bug: the waiters are not notified.
CloseEpisode_NoNotify(s) ==
    /\ episode' = IF MatchingProbe(s) THEN NoEpisode ELSE episode
    /\ UNCHANGED <<stage, doomed>>

\* A response, accepted or finally rejected, closes the probe's episode.
CloseEpisode(s) ==
    /\ episode' = IF MatchingProbe(s) THEN NoEpisode ELSE episode
    /\ stage' = IF MatchingProbe(s) THEN NotifyAll(stage) ELSE stage
    /\ UNCHANGED doomed

\* succeeded()
Succeeded(s) == Resolve(s, "accepted") /\ CloseEpisode(s)

\* retry() of an error that is not retryable
Rejected(s) == Resolve(s, "settled") /\ CloseEpisode(s)

\* retry_immediately()
Corrected(s) ==
    /\ Resolve(s, "settled")
    /\ episode' = IF MatchingProbe(s)
                  THEN [episode EXCEPT !.probing = FALSE, !.ready = TRUE]
                  ELSE episode
    /\ stage' = IF MatchingProbe(s) THEN NotifyAll(stage) ELSE stage
    /\ UNCHANGED doomed

\* retry() of a retryable error: _attempt_failed, one action per outcome.
FailOpensEpisode(s) ==
    /\ stage[s] = "open" /\ attempt[s] = "open"
    /\ CanRetry(s, FALSE)
    /\ ~Recovering
    /\ episode' = NewEpisode(s, FALSE, "none")
    /\ nextGen' = nextGen + 1
    /\ attempt' = [attempt EXCEPT ![s] = "settled"]
    /\ stage' = NotifyAll(stage)
    /\ UNCHANGED <<slots, queue, permit, started, doomed>>

\* A plausible bug: probe_active stays set.
FailRearmsProbe_StillProbing(s) ==
    /\ Resolve(s, "settled")
    /\ CanRetry(s, FALSE)
    /\ MatchingProbe(s)
    /\ episode' = [episode EXCEPT !.ready = FALSE]
    /\ stage' = NotifyAll(stage)
    /\ UNCHANGED doomed

\* A plausible bug: a failure from before the episode extends its backoff.
FailRearmsProbe_Stale(s) ==
    /\ Resolve(s, "settled")
    /\ CanRetry(s, FALSE)
    /\ Recovering /\ episode.cooldown = "none"
    /\ episode' = [episode EXCEPT !.probing = FALSE, !.ready = FALSE]
    /\ stage' = NotifyAll(stage)
    /\ UNCHANGED doomed

FailRearmsProbe(s) ==
    /\ Resolve(s, "settled")
    /\ CanRetry(s, FALSE)
    /\ MatchingProbe(s)
    /\ episode' = [episode EXCEPT !.probing = FALSE, !.ready = FALSE]
    /\ stage' = NotifyAll(stage)
    /\ UNCHANGED doomed

\* A late failure of an episode that already ended terminally.
FailKeepsOutcome(s) ==
    /\ Resolve(s, "settled")
    /\ CanRetry(s, FALSE)
    /\ Recovering /\ ~MatchingProbe(s)
    /\ episode.cooldown # "none"
    /\ doomed' = [doomed EXCEPT ![s] = TRUE]
    /\ stage' = NotifyAll(stage)
    /\ UNCHANGED episode

FailCoalesces(s) ==
    /\ Resolve(s, "settled")
    /\ CanRetry(s, FALSE)
    /\ Recovering /\ ~MatchingProbe(s)
    /\ episode.cooldown = "none"
    /\ episode' = [episode EXCEPT !.waiters = @ \cup {s}]
    /\ stage' = NotifyAll(stage)
    /\ UNCHANGED doomed

\* No retry left, or the provider reports its quota spent: the provider as a
\* whole cools down, and everyone coalesced into the episode fails with it.
FailExhausts(s, quotaExhausted) ==
    /\ stage[s] = "open" /\ attempt[s] = "open"
    /\ ~CanRetry(s, quotaExhausted)
    /\ ~Recovering \/ MatchingProbe(s)
    /\ IF Recovering
       THEN /\ episode' = [episode EXCEPT !.leader = NoSession, !.probing = FALSE,
                                          !.cooldown = "active", !.waiters = {}]
            /\ UNCHANGED nextGen
       ELSE /\ episode' = NewEpisode(NoSession, TRUE, "active")
            /\ nextGen' = nextGen + 1
    /\ doomed' = [t \in Sessions |-> doomed[t] \/ t \in episode.waiters]
    /\ attempt' = [attempt EXCEPT ![s] = "settled"]
    /\ stage' = NotifyAll(stage)
    /\ UNCHANGED <<slots, queue, permit, started>>

FailIgnored(s, quotaExhausted) ==
    /\ Resolve(s, "settled")
    /\ ~CanRetry(s, quotaExhausted)
    /\ Recovering /\ ~MatchingProbe(s)
    /\ UNCHANGED <<episode, stage, doomed>>

\* retry() returns CanRetry(s, quotaExhausted).
Failed(s, quotaExhausted) ==
    \/ ~quotaExhausted /\ (FailOpensEpisode(s) \/ FailRearmsProbe(s)
                             \/ FailKeepsOutcome(s) \/ FailCoalesces(s))
    \/ FailExhausts(s, quotaExhausted)
    \/ FailIgnored(s, quotaExhausted)

------------------------------------------------------------------------------
(* ProviderAttempt.aclose                                                   *)

\* The latest attempt is resolved: closing it only frees its permit.
CloseResolved(s) ==
    /\ stage[s] = "open"
    /\ attempt[s] \in {"accepted", "settled"}
    /\ attempt' = [attempt EXCEPT ![s] = "none"]
    /\ Release(<<s, started[s]>>, [stage EXCEPT ![s] = "out"])
    /\ UNCHANGED <<episode, nextGen, permit, started, doomed>>

\* The attempt is unresolved: asyncio.shield starts the abandonment as a
\* task of its own and suspends the caller.
CloseUnresolved(s) ==
    /\ stage[s] = "open"
    /\ attempt[s] = "open"
    /\ attempt' = [attempt EXCEPT ![s] = "abandoning"]
    /\ stage' = [stage EXCEPT ![s] = "abandoning"]
    /\ UNCHANGED <<controller, permit, started, doomed>>

\* _attempt_abandoned, in the shielded task
AbandonmentRuns(s) ==
    /\ attempt[s] = "abandoning"
    /\ attempt' = [attempt EXCEPT ![s] = IF stage[s] = "abandoning" THEN "settled" ELSE "none"]
    /\ episode' = EpisodeWithoutProbe(s)
    /\ stage' = StagesAfterVacating(s, stage)
    /\ UNCHANGED <<nextGen, slots, queue, permit, started, doomed>>

\* aclose resumes, or is cancelled, possibly before the abandonment has run:
\* the permit is freed either way.
FinishAbandoning(s) ==
    /\ stage[s] = "abandoning"
    /\ attempt' = [attempt EXCEPT ![s] = IF @ = "settled" THEN "none" ELSE @]
    /\ Release(<<s, started[s]>>, [stage EXCEPT ![s] = "out"])
    /\ UNCHANGED <<episode, nextGen, permit, started, doomed>>

\* The caller keeps an accepted attempt open and goes on to open another.
KeepOpen(s) ==
    /\ stage[s] = "open"
    /\ attempt[s] = "accepted"
    /\ attempt' = [attempt EXCEPT ![s] = "none"]
    /\ stage' = [stage EXCEPT ![s] = "out"]
    /\ UNCHANGED <<controller, permit, started, doomed>>

\* aclose of an attempt kept open by KeepOpen.
CloseKept(s, n) ==
    /\ stage[s] = "out"
    /\ <<s, n>> \in slots
    /\ n = started[s] => attempt[s] = "none"
    /\ Release(<<s, n>>, stage)
    /\ UNCHANGED <<episode, nextGen, permit, started, doomed, attempt>>

\* The caller leaves without closing its attempt.
Drop(s) ==
    /\ stage[s] = "open"
    /\ stage' = [stage EXCEPT ![s] = "out"]
    /\ UNCHANGED <<controller, permit, started, doomed, attempt>>

------------------------------------------------------------------------------
(* Time                                                                     *)

BackoffElapses ==
    /\ Recovering
    /\ ~episode.ready
    /\ episode' = [episode EXCEPT !.ready = TRUE]
    /\ UNCHANGED <<nextGen, slots, queue, stage, permit, started, doomed, attempt>>

CooldownElapses ==
    /\ episode.cooldown = "active"
    /\ episode' = [episode EXCEPT !.cooldown = "expired"]
    /\ UNCHANGED <<nextGen, slots, queue, stage, permit, started, doomed, attempt>>

------------------------------------------------------------------------------

Init ==
    /\ episode = NoEpisode
    /\ nextGen = 1
    /\ slots = {}
    /\ queue = <<>>
    /\ stage = [s \in Sessions |-> "out"]
    /\ permit = [s \in Sessions |-> NormalPermit]
    /\ started = [s \in Sessions |-> 0]
    /\ doomed = [s \in Sessions |-> FALSE]
    /\ attempt = [s \in Sessions |-> "none"]

\* What the controller does by itself once a session is inside open_attempt.
Admit(s) ==
    \/ GateRefuses(s) \/ GatePasses(s) \/ GateReopens(s) \/ GateLeads(s) \/ GateWaits(s)
    \/ LeaderWakes(s)
    \/ WindowRejects(s) \/ WindowAdmits(s) \/ WindowQueues(s)
    \/ SlotAdmits(s) \/ SlotRejects(s)

Use(s) ==
    \/ OpenAttempt(s)
    \/ CancelOpenAttempt(s)
    \/ Succeeded(s) \/ Rejected(s) \/ Corrected(s)
    \/ \E quotaExhausted \in BOOLEAN : Failed(s, quotaExhausted)
    \/ CloseResolved(s) \/ CloseUnresolved(s) \/ AbandonmentRuns(s)
    \/ FinishAbandoning(s) \/ KeepOpen(s) \/ Drop(s)
    \/ \E n \in 1..MaxAttempts : CloseKept(s, n)

Next ==
    \/ \E s \in Sessions : Admit(s) \/ Use(s)
    \/ BackoffElapses
    \/ CooldownElapses

\* The controller by itself: whatever order its callers use it in.  Executions
\* that share it (ProviderRunners) must be one of these behaviours.
AdmissionSpec == Init /\ [][Next]_admissionVars

------------------------------------------------------------------------------
(* What the controller promises every caller                                *)

\* The values the controller's variables take.
TypeOK ==
    /\ episode \in Episodes
    /\ nextGen \in Nat \ {0}
    /\ slots \subseteq Sessions \X (1..MaxAttempts)
    /\ queue \in Seq(Sessions)
    /\ stage \in [Sessions -> Stages]
    /\ permit \in [Sessions -> Permits]
    /\ started \in [Sessions -> 0..MaxAttempts]
    /\ doomed \in [Sessions -> BOOLEAN]
    /\ attempt \in [Sessions -> AttemptStates]

\* The session has been told to probe and has not settled the probe yet.
HoldsProbe(s) ==
    /\ permit[s].probe
    /\ stage[s] \in {"window", "queued", "granted"} \/ attempt[s] \in {"open", "abandoning"}

\* The bulkhead never admits more attempts than its bound, although permits
\* are freed, passed on and given back on stale permits and cancellation.
BulkheadBound == Cardinality(slots) <= MaxConcurrency

\* No permit lies idle while a session is queued for one: no release, stale
\* permit or cancellation loses the wake-up of the queue's head.
NoIdlePermit == queue # <<>> => Cardinality(slots) = MaxConcurrency

\* At most one session probes: whoever holds a probe permit is the leader of
\* the current, unfinished episode, at every step on its way upstream.
ProbeIsNeverStale == \A s \in Sessions : HoldsProbe(s) => PermitIsCurrent(s)

\* An active probe is always in somebody's hands, so the episode cannot be
\* left probing with nobody to finish it.
ProbeIsHeld == episode.probing => episode.leader \in Sessions /\ HoldsProbe(episode.leader)

\* A session suspended on the condition has a leader other than itself whose
\* next move will notify it, and it is among the waiters who share that
\* leader's outcome: no wake-up is lost when an episode closes, changes
\* hands or ends terminally.
NoLostWakeup ==
    \A s \in Sessions : stage[s] = "waiting" =>
        /\ Recovering
        /\ episode.cooldown = "none"
        /\ episode.leader \notin {NoSession, s}
        /\ s \in episode.waiters

\* A leader in its backoff sleep still leads the episode it went to sleep for.
SleeperLeads ==
    \A s \in Sessions : stage[s] = "leading" =>
        /\ episode.leader = s
        /\ episode.gen = permit[s].gen
        /\ episode.cooldown = "none"
        /\ ~episode.probing

\* A session back at the gate never meets its own probe, so the leader's
\* condition.wait() in _wait_for_gate is never reached.
LeaderNeverWaits ==
    \A s \in Sessions : stage[s] \in {"gate", "woken", "waiting"} =>
        ~(episode.probing /\ episode.leader = s)

\* An execution coalesced into an episode that ended terminally fails with
\* that outcome: it starts no further attempt, even in a later generation.
OutcomeSticks == [][\A s \in Sessions : doomed[s] => started'[s] = started[s]]_admissionVars

\* Only the probe of the current episode can close it: the success or
\* rejection of an attempt from before the episode leaves it open.
OnlyProbeCloses ==
    [][(Recovering /\ ~Recovering') =>
        /\ episode.probing
        /\ attempt[episode.leader] = "open"
        /\ attempt'[episode.leader] \in {"accepted", "settled"}]_admissionVars

\* Only the probe of the current episode can extend its backoff or end it
\* terminally: a stale failure cannot.
OnlyProbeExtends ==
    [][(/\ Recovering
        /\ episode'.gen = episode.gen
        /\ \/ episode.ready /\ ~episode'.ready
           \/ episode.cooldown = "none" /\ episode'.cooldown # "none") =>
        /\ episode.probing
        /\ attempt[episode.leader] = "open"
        /\ attempt'[episode.leader] = "settled"]_admissionVars

\* The bulkhead lets in as many attempts as it may, neither more nor fewer.
BulkheadIsExact == BulkheadBound /\ NoIdlePermit

\* A recovery has one probe at most, and a probe that is out has a holder.
ProbeIsSound == ProbeIsNeverStale /\ ProbeIsHeld

\* Whoever is suspended in a recovery has somebody who will wake it: no leader
\* is forgotten, replaced in its sleep, or waits for itself.
WaitersAreLed == NoLostWakeup /\ SleeperLeads /\ LeaderNeverWaits

\* An episode ends, or goes on for another round, by its own probe.
OnlyProbesDecide == OnlyProbeCloses /\ OnlyProbeExtends

------------------------------------------------------------------------------
(* The inductive invariant behind those promises                            *)

InsideOpen == {"gate", "waiting", "woken", "leading", "window", "queued", "granted"}

\* Where a session is and what its latest attempt looks like go together.
ControlInv ==
    \A s \in Sessions :
        /\ stage[s] \in InsideOpen => attempt[s] = "none" /\ started[s] < MaxAttempts
        /\ stage[s] = "open" => attempt[s] \in {"open", "accepted", "settled"}
        /\ stage[s] = "abandoning" => attempt[s] \in {"abandoning", "settled"}

\* The queue holds sessions suspended for a permit, once each.
QueueInv ==
    /\ \A i \in DOMAIN queue : stage[queue[i]] = "queued"
    /\ \A i, j \in DOMAIN queue : queue[i] = queue[j] => i = j

\* Which permits are out.
SlotInv ==
    /\ \A s \in Sessions :
          /\ stage[s] = "granted" => <<s, started[s] + 1>> \in slots
          /\ stage[s] \in {"open", "abandoning"} => <<s, started[s]>> \in slots
    /\ \A s \in Sessions : \A n \in 1..MaxAttempts :
          <<s, n>> \in slots =>
             \/ n <= started[s]
             \/ n = started[s] + 1 /\ stage[s] = "granted"

\* Whoever shares, or may come to share, a terminal outcome is not past the
\* gate of a further attempt.
OutcomeInv ==
    \A s \in Sessions : doomed[s] \/ s \in episode.waiters =>
        stage[s] \notin {"leading", "window", "queued", "granted"}

\* The shape of an episode, and generations as a clock.
EpisodeInv ==
    /\ episode.gen < nextGen
    /\ ~Recovering => episode = NoEpisode
    /\ episode.cooldown # "none" => episode.leader = NoSession /\ ~episode.probing
    /\ \A s \in Sessions : permit[s].gen < nextGen

RecoveryInv ==
    /\ EpisodeInv
    /\ ProbeIsNeverStale
    /\ ProbeIsHeld
    /\ NoLostWakeup
    /\ SleeperLeads

BulkheadInv ==
    /\ QueueInv
    /\ SlotInv
    /\ IsFiniteSet(slots)
    /\ BulkheadBound
    /\ NoIdlePermit
==============================================================================
