---------------------- MODULE ProviderAdmission_proofs ----------------------
(***************************************************************************)
(* Proofs about the admission controller for any number of sessions,       *)
(* attempts and permits, and about the executions that use it.  Inv is the *)
(* inductive invariant of the controller, whatever its callers do: each of *)
(* its parts has a lemma with one step per action, and the promises of     *)
(* ProviderAdmission follow from it.  The executions of ProviderRunners    *)
(* take only steps of the controller, and a step of one of them is, to the *)
(* others, what Leaves says; TraceInv and CleanInv are about what each     *)
(* execution holds on its way through retries, recoveries and closes.      *)
(***************************************************************************)
EXTENDS ProviderRunners, SequenceTheorems, FiniteSetTheorems, TLAPS

------------------------------------------------------------------------------
(* Facts about the operators the actions are built from                     *)

\* RemoveAt closes the gap: later elements move up by one place and nothing else
\* changes.  It is how a cancelled acquire() leaves the semaphore's queue.
LEMMA RemoveAtProperties ==
  ASSUME NEW S, NEW q \in Seq(S), NEW i \in 1..Len(q)
  PROVE /\ RemoveAt(q, i) \in Seq(S)
        /\ Len(RemoveAt(q, i)) = Len(q) - 1
        /\ \A k \in 1..(Len(q) - 1) : RemoveAt(q, i)[k] = q[IF k < i THEN k ELSE k + 1]
<1> DEFINE front == SubSeq(q, 1, i - 1)
           back == SubSeq(q, i + 1, Len(q))
<1>1. /\ front \in Seq(S) /\ Len(front) = i - 1
      /\ \A k \in 1..(i - 1) : front[k] = q[k]
  OBVIOUS
<1>2. /\ back \in Seq(S) /\ Len(back) = Len(q) - i
      /\ \A k \in 1..(Len(q) - i) : back[k] = q[i + k]
  OBVIOUS
<1>3. RemoveAt(q, i) = front \o back
  BY DEF RemoveAt
<1> HIDE DEF front, back
<1>4. /\ front \o back \in Seq(S)
      /\ Len(front \o back) = Len(front) + Len(back)
      /\ \A k \in 1..(Len(front) + Len(back)) :
            (front \o back)[k] = IF k <= Len(front) THEN front[k] ELSE back[k - Len(front)]
  BY <1>1, <1>2, ConcatProperties, Zenon
<1>5. ASSUME NEW k \in 1..(Len(q) - 1)
      PROVE  (front \o back)[k] = q[IF k < i THEN k ELSE k + 1]
  <2>1. (front \o back)[k] = IF k <= i - 1 THEN front[k] ELSE back[k - (i - 1)]
    BY <1>1, <1>2, <1>4
  <2>2. CASE k < i
    BY <1>1, <2>1, <2>2
  <2>3. CASE ~(k < i)
    <3>1. k - (i - 1) \in 1..(Len(q) - i) /\ i + (k - (i - 1)) = k + 1
      BY <2>3
    <3> QED BY <1>2, <2>1, <2>3, <3>1
  <2> QED BY <2>2, <2>3
<1> QED BY <1>1, <1>2, <1>3, <1>4, <1>5

\* notify_all wakes exactly the sessions suspended in condition.wait().
LEMMA NotifyAllProperties ==
  ASSUME NEW st \in [Sessions -> Stages]
  PROVE  /\ NotifyAll(st) \in [Sessions -> Stages]
         /\ \A t \in Sessions : NotifyAll(st)[t] = IF st[t] = "waiting" THEN "woken" ELSE st[t]
BY DEF NotifyAll, Stages

\* Handing back the probe moves no session, except that it may wake waiters.
LEMMA VacatingProperties ==
  ASSUME NEW st \in [Sessions -> Stages], NEW s \in Sessions
  PROVE  /\ StagesAfterVacating(s, st) \in [Sessions -> Stages]
         /\ \A t \in Sessions :
               \/ StagesAfterVacating(s, st)[t] = st[t]
               \/ st[t] = "waiting" /\ StagesAfterVacating(s, st)[t] = "woken"
BY NotifyAllProperties DEF StagesAfterVacating

\* The head and the tail of a non-empty queue, element by element.
LEMMA HeadTail ==
  ASSUME NEW S, NEW q \in Seq(S), q # <<>>
  PROVE  /\ 1 \in DOMAIN q /\ Head(q) \in S /\ Head(q) = q[1]
         /\ Tail(q) \in Seq(S) /\ Len(Tail(q)) = Len(q) - 1
         /\ \A i \in DOMAIN Tail(q) : i \in Nat /\ i + 1 \in DOMAIN q /\ Tail(q)[i] = q[i + 1]
BY HeadTailProperties

\* The inductive invariant of the controller.
Inv == TypeOK /\ ControlInv /\ BulkheadInv /\ RecoveryInv /\ OutcomeInv

\* Releasing a permit keeps the types and moves at most the queue's head, to
\* "granted" with the permit of its next attempt.
LEMMA ReleaseProperties ==
  ASSUME Inv, NEW slot, NEW st \in [Sessions -> Stages],
         \A t \in Sessions : stage[t] = "queued" => st[t] = "queued",
         Release(slot, st)
  PROVE  /\ slots' \subseteq Sessions \X (1..MaxAttempts)
         /\ queue' \in Seq(Sessions)
         /\ stage' \in [Sessions -> Stages]
         /\ \A t \in Sessions :
               \/ stage'[t] = st[t]
               \/ stage'[t] = "granted" /\ stage[t] = "queued" /\ st[t] = "queued"
<1> USE DEF Inv, BulkheadInv
<1>1. CASE queue = <<>>
  BY <1>1 DEF Release, TypeOK
<1>2. CASE queue # <<>>
  <2>1. Head(queue) \in Sessions /\ st[Head(queue)] = "queued" /\ stage[Head(queue)] = "queued"
    BY <1>2, HeadTail DEF TypeOK, QueueInv
  <2>2. started[Head(queue)] + 1 \in 1..MaxAttempts
    BY <2>1, AdmissionAssumption DEF TypeOK, ControlInv, InsideOpen
  <2>3. Tail(queue) \in Seq(Sessions)
    BY <1>2, HeadTail DEF TypeOK
  <2>4. slots' \subseteq Sessions \X (1..MaxAttempts)
    BY <1>2, <2>1, <2>2 DEF Release, TypeOK
  <2>5. stage' = [st EXCEPT ![Head(queue)] = "granted"] /\ queue' = Tail(queue)
    BY <1>2 DEF Release
  <2>6. "granted" \in Stages
    BY DEF Stages
  <2> QED BY <2>1, <2>3, <2>4, <2>5, <2>6
<1> QED BY <1>1, <1>2

------------------------------------------------------------------------------
(* Types                                                                    *)

\* Every step of the controller and of its callers is well-typed.
LEMMA TypeStep == Inv /\ [Next]_admissionVars => TypeOK'
<1> SUFFICES ASSUME Inv, [Next]_admissionVars PROVE TypeOK'
  OBVIOUS
<1> USE AdmissionAssumption DEF Inv, TypeOK, Stages, controller
<1>1. ASSUME NEW s \in Sessions, OpenAttempt(s) PROVE TypeOK'
  BY <1>1 DEF OpenAttempt
<1>2. ASSUME NEW s \in Sessions, GateRefuses(s) PROVE TypeOK'
  BY <1>2 DEF GateRefuses
<1>3. ASSUME NEW s \in Sessions, GatePasses(s) PROVE TypeOK'
  BY <1>3 DEF GatePasses, NormalPermit, Permits, Generations
<1>4. ASSUME NEW s \in Sessions, GateReopens(s) PROVE TypeOK'
  <2>1. episode' \in Episodes
    BY <1>4 DEF GateReopens, Lead, NewEpisode, Episodes, Cooldowns, Generations
  <2>2. permit' \in [Sessions -> Permits]
    BY <1>4 DEF GateReopens, Lead, NewEpisode, Permits, Generations
  <2> QED BY <1>4, <2>1, <2>2 DEF GateReopens, Lead
<1>5. ASSUME NEW s \in Sessions, GateLeads(s) PROVE TypeOK'
  BY <1>5 DEF GateLeads, Lead, Episodes, Cooldowns, Generations, Permits
<1>6. ASSUME NEW s \in Sessions, GateWaits(s) PROVE TypeOK'
  BY <1>6 DEF GateWaits, Episodes, Cooldowns, Generations
<1>7. ASSUME NEW s \in Sessions, LeaderWakes(s) PROVE TypeOK'
  <2>1. episode' \in Episodes
    <3>1. episode' = episode \/ episode' = [episode EXCEPT !.probing = TRUE]
      BY <1>7 DEF LeaderWakes
    <3>2. [episode EXCEPT !.probing = TRUE] \in Episodes BY DEF Episodes
    <3> QED BY <3>1, <3>2
  <2>2. permit' \in [Sessions -> Permits]
    <3>1. permit' = permit \/ permit' = [permit EXCEPT ![s].probe = TRUE]
      BY <1>7 DEF LeaderWakes
    <3>2. [permit[s] EXCEPT !.probe = TRUE] \in Permits BY DEF Permits
    <3>3. [permit EXCEPT ![s].probe = TRUE] = [permit EXCEPT ![s] = [permit[s] EXCEPT !.probe = TRUE]]
      OBVIOUS
    <3> QED BY <3>1, <3>2, <3>3
  <2>3. stage' \in [Sessions -> Stages]
    BY <1>7 DEF LeaderWakes
  <2> QED BY <1>7, <2>1, <2>2, <2>3 DEF LeaderWakes
<1>8. ASSUME NEW s \in Sessions, WindowRejects(s) PROVE TypeOK'
  BY <1>8, VacatingProperties
     DEF WindowRejects, EpisodeWithoutProbe, Episodes, Cooldowns, Generations
<1>9. ASSUME NEW s \in Sessions, WindowAdmits(s) PROVE TypeOK'
  BY <1>9 DEF WindowAdmits, Claim, AttemptStates, ControlInv, InsideOpen
<1>10. ASSUME NEW s \in Sessions, WindowQueues(s) PROVE TypeOK'
  BY <1>10 DEF WindowQueues
<1>11. ASSUME NEW s \in Sessions, SlotAdmits(s) PROVE TypeOK'
  BY <1>11 DEF SlotAdmits, Claim, AttemptStates, ControlInv, InsideOpen
<1>12. ASSUME NEW s \in Sessions, SlotRejects(s) PROVE TypeOK'
  <2> DEFINE st == StagesAfterVacating(s, [stage EXCEPT ![s] = "gate"])
  <2>1. /\ st \in [Sessions -> Stages]
        /\ \A t \in Sessions : stage[t] = "queued" => st[t] = "queued"
    <3> DEFINE left == [stage EXCEPT ![s] = "gate"]
    <3>1. left \in [Sessions -> Stages]
      OBVIOUS
    <3>2. \A t \in Sessions : stage[t] = "queued" => left[t] = "queued"
      BY <1>12 DEF SlotRejects
    <3>3. st = StagesAfterVacating(s, left)
      OBVIOUS
    <3> HIDE DEF left, st
    <3>4. /\ st \in [Sessions -> Stages]
          /\ \A t \in Sessions : st[t] = left[t] \/ left[t] = "waiting"
      BY <3>1, <3>3, VacatingProperties DEF Stages
    <3> QED BY <3>2, <3>4
  <2>2. episode' \in Episodes
    BY <1>12 DEF SlotRejects, EpisodeWithoutProbe, Episodes
  <2>3. Release(<<s, started[s] + 1>>, st)
    BY <1>12 DEF SlotRejects
  <2> HIDE DEF st
  <2>4. /\ slots' \subseteq Sessions \X (1..MaxAttempts) /\ queue' \in Seq(Sessions)
        /\ stage' \in [Sessions -> Stages]
    BY <2>1, <2>3, ReleaseProperties
  <2> QED BY <1>12, <2>2, <2>4 DEF SlotRejects
<1>13. ASSUME NEW s \in Sessions, CancelWaiter(s) PROVE TypeOK'
  BY <1>13 DEF CancelWaiter, Episodes, Cooldowns, Generations
<1>14. ASSUME NEW s \in Sessions, CancelLeader(s) PROVE TypeOK'
  BY <1>14, NotifyAllProperties DEF CancelLeader, Episodes, Cooldowns, Generations
<1>15. ASSUME NEW s \in Sessions, CancelInWindow(s) PROVE TypeOK'
  BY <1>15, VacatingProperties
     DEF CancelInWindow, EpisodeWithoutProbe, Episodes, Cooldowns, Generations
<1>16. ASSUME NEW s \in Sessions, CancelQueued(s) PROVE TypeOK'
  <2>1. episode' \in Episodes
    BY <1>16 DEF CancelQueued, EpisodeWithoutProbe, Episodes
  <2>2. queue' \in Seq(Sessions)
    BY <1>16, RemoveAtProperties DEF CancelQueued
  <2>3. stage' \in [Sessions -> Stages]
    BY <1>16, VacatingProperties DEF CancelQueued
  <2> QED BY <1>16, <2>1, <2>2, <2>3 DEF CancelQueued
<1>17. ASSUME NEW s \in Sessions, CancelGranted(s) PROVE TypeOK'
  <2> DEFINE st == StagesAfterVacating(s, [stage EXCEPT ![s] = "out"])
  <2>1. /\ st \in [Sessions -> Stages]
        /\ \A t \in Sessions : stage[t] = "queued" => st[t] = "queued"
    <3> DEFINE left == [stage EXCEPT ![s] = "out"]
    <3>1. left \in [Sessions -> Stages]
      OBVIOUS
    <3>2. \A t \in Sessions : stage[t] = "queued" => left[t] = "queued"
      BY <1>17 DEF CancelGranted
    <3>3. st = StagesAfterVacating(s, left)
      OBVIOUS
    <3> HIDE DEF left, st
    <3>4. /\ st \in [Sessions -> Stages]
          /\ \A t \in Sessions : st[t] = left[t] \/ left[t] = "waiting"
      BY <3>1, <3>3, VacatingProperties DEF Stages
    <3> QED BY <3>2, <3>4
  <2>2. episode' \in Episodes
    BY <1>17 DEF CancelGranted, EpisodeWithoutProbe, Episodes
  <2>3. Release(<<s, started[s] + 1>>, st)
    BY <1>17 DEF CancelGranted
  <2> HIDE DEF st
  <2>4. /\ slots' \subseteq Sessions \X (1..MaxAttempts) /\ queue' \in Seq(Sessions)
        /\ stage' \in [Sessions -> Stages]
    BY <2>1, <2>3, ReleaseProperties
  <2> QED BY <1>17, <2>2, <2>4 DEF CancelGranted
<1>18. ASSUME NEW s \in Sessions, Succeeded(s) PROVE TypeOK'
  BY <1>18, NotifyAllProperties
     DEF Succeeded, Resolve, CloseEpisode, NoEpisode, Episodes, Cooldowns, Generations,
         AttemptStates
<1>19. ASSUME NEW s \in Sessions, Rejected(s) PROVE TypeOK'
  BY <1>19, NotifyAllProperties
     DEF Rejected, Resolve, CloseEpisode, NoEpisode, Episodes, Cooldowns, Generations,
         AttemptStates
<1>20. ASSUME NEW s \in Sessions, Corrected(s) PROVE TypeOK'
  BY <1>20, NotifyAllProperties
     DEF Corrected, Resolve, Episodes, Cooldowns, Generations, AttemptStates
<1>21. ASSUME NEW s \in Sessions, FailOpensEpisode(s) PROVE TypeOK'
  <2>1. episode' \in Episodes
    BY <1>21 DEF FailOpensEpisode, NewEpisode, Episodes, Cooldowns, Generations
  <2>2. stage' \in [Sessions -> Stages]
    BY <1>21, NotifyAllProperties DEF FailOpensEpisode
  <2>3. attempt' \in [Sessions -> AttemptStates]
    BY <1>21 DEF FailOpensEpisode, AttemptStates
  <2>4. nextGen' = nextGen + 1 /\ UNCHANGED <<slots, queue, permit, started, doomed>>
    BY <1>21 DEF FailOpensEpisode
  <2> QED BY <2>1, <2>2, <2>3, <2>4
<1>22. ASSUME NEW s \in Sessions, FailRearmsProbe(s) PROVE TypeOK'
  BY <1>22, NotifyAllProperties
     DEF FailRearmsProbe, Resolve, Episodes, Cooldowns, Generations, AttemptStates
<1>23. ASSUME NEW s \in Sessions, FailKeepsOutcome(s) PROVE TypeOK'
  BY <1>23, NotifyAllProperties DEF FailKeepsOutcome, Resolve, AttemptStates
<1>24. ASSUME NEW s \in Sessions, FailCoalesces(s) PROVE TypeOK'
  BY <1>24, NotifyAllProperties
     DEF FailCoalesces, Resolve, Episodes, Cooldowns, Generations, AttemptStates
<1>25. ASSUME NEW s \in Sessions, NEW q \in BOOLEAN, FailExhausts(s, q) PROVE TypeOK'
  <2>1. episode' \in Episodes
    <3>1. CASE Recovering
      <4>1. episode' = [episode EXCEPT !.leader = NoSession, !.probing = FALSE,
                                       !.cooldown = "active", !.waiters = {}]
        BY <1>25, <3>1 DEF FailExhausts
      <4> QED BY <4>1 DEF Episodes, Cooldowns
    <3>2. CASE ~Recovering
      <4>1. episode' = NewEpisode(NoSession, TRUE, "active")
        BY <1>25, <3>2 DEF FailExhausts
      <4> QED BY <4>1 DEF NewEpisode, Episodes, Cooldowns, Generations
    <3> QED BY <3>1, <3>2
  <2>2. stage' \in [Sessions -> Stages]
    BY <1>25, NotifyAllProperties DEF FailExhausts
  <2>3. nextGen' \in Nat \ {0}
    <3>1. nextGen' = nextGen \/ nextGen' = nextGen + 1
      BY <1>25 DEF FailExhausts
    <3> QED BY <3>1
  <2>4. doomed' \in [Sessions -> BOOLEAN]
    BY <1>25 DEF FailExhausts
  <2> QED BY <1>25, <2>1, <2>2, <2>3, <2>4 DEF FailExhausts, AttemptStates
<1>26. ASSUME NEW s \in Sessions, NEW q \in BOOLEAN, FailIgnored(s, q) PROVE TypeOK'
  BY <1>26 DEF FailIgnored, Resolve, AttemptStates
<1>27. ASSUME NEW s \in Sessions, CloseResolved(s) PROVE TypeOK'
  <2>1. /\ slots' \subseteq Sessions \X (1..MaxAttempts) /\ queue' \in Seq(Sessions)
        /\ stage' \in [Sessions -> Stages]
    <3> DEFINE st == [stage EXCEPT ![s] = "out"]
    <3>1. /\ st \in [Sessions -> Stages]
          /\ \A t \in Sessions : stage[t] = "queued" => st[t] = "queued"
      BY <1>27 DEF CloseResolved
    <3>2. Release(<<s, started[s]>>, st)
      BY <1>27 DEF CloseResolved
    <3> HIDE DEF st
    <3> QED BY <3>1, <3>2, ReleaseProperties
  <2> QED BY <1>27, <2>1 DEF CloseResolved, AttemptStates
<1>28. ASSUME NEW s \in Sessions, CloseUnresolved(s) PROVE TypeOK'
  BY <1>28 DEF CloseUnresolved, AttemptStates
<1>29. ASSUME NEW s \in Sessions, AbandonmentRuns(s) PROVE TypeOK'
  BY <1>29, VacatingProperties
     DEF AbandonmentRuns, EpisodeWithoutProbe, Episodes, Cooldowns, Generations,
         AttemptStates
<1>30. ASSUME NEW s \in Sessions, FinishAbandoning(s) PROVE TypeOK'
  <2>1. /\ slots' \subseteq Sessions \X (1..MaxAttempts) /\ queue' \in Seq(Sessions)
        /\ stage' \in [Sessions -> Stages]
    <3> DEFINE st == [stage EXCEPT ![s] = "out"]
    <3>1. /\ st \in [Sessions -> Stages]
          /\ \A t \in Sessions : stage[t] = "queued" => st[t] = "queued"
      BY <1>30 DEF FinishAbandoning
    <3>2. Release(<<s, started[s]>>, st)
      BY <1>30 DEF FinishAbandoning
    <3> HIDE DEF st
    <3> QED BY <3>1, <3>2, ReleaseProperties
  <2> QED BY <1>30, <2>1 DEF FinishAbandoning, AttemptStates
<1>31. ASSUME NEW s \in Sessions, KeepOpen(s) PROVE TypeOK'
  BY <1>31 DEF KeepOpen, AttemptStates
<1>32. ASSUME NEW s \in Sessions, NEW n \in 1..MaxAttempts, CloseKept(s, n) PROVE TypeOK'
  <2>1. /\ slots' \subseteq Sessions \X (1..MaxAttempts) /\ queue' \in Seq(Sessions)
        /\ stage' \in [Sessions -> Stages]
    <3> DEFINE st == stage
    <3>1. /\ st \in [Sessions -> Stages]
          /\ \A t \in Sessions : stage[t] = "queued" => st[t] = "queued"
      BY <1>32 DEF CloseKept
    <3>2. Release(<<s, n>>, st)
      BY <1>32 DEF CloseKept
    <3> HIDE DEF st
    <3> QED BY <3>1, <3>2, ReleaseProperties
  <2> QED BY <1>32, <2>1 DEF CloseKept
<1>33. ASSUME NEW s \in Sessions, Drop(s) PROVE TypeOK'
  BY <1>33 DEF Drop
<1>34. ASSUME BackoffElapses PROVE TypeOK'
  BY <1>34 DEF BackoffElapses, Episodes
<1>35. ASSUME CooldownElapses PROVE TypeOK'
  BY <1>35 DEF CooldownElapses, Episodes, Cooldowns
<1>36. CASE UNCHANGED admissionVars
  BY <1>36 DEF admissionVars
<1> QED
  BY <1>1, <1>2, <1>3, <1>4, <1>5, <1>6, <1>7, <1>8, <1>9, <1>10, <1>11, <1>12, <1>13,
     <1>14, <1>15, <1>16, <1>17, <1>18, <1>19, <1>20, <1>21, <1>22, <1>23, <1>24, <1>25,
     <1>26, <1>27, <1>28, <1>29, <1>30, <1>31, <1>32, <1>33, <1>34, <1>35, <1>36
  DEF Next, Admit, Use, CancelOpenAttempt, Failed

------------------------------------------------------------------------------
(* Where sessions are and what they hold                                    *)

\* Every step keeps a session's place and its latest attempt's state together.
LEMMA ControlStep == Inv /\ [Next]_admissionVars => ControlInv'
<1> SUFFICES ASSUME Inv, [Next]_admissionVars PROVE ControlInv'
  OBVIOUS
<1> /\ stage \in [Sessions -> Stages]
    /\ attempt \in [Sessions -> AttemptStates]
    /\ started \in [Sessions -> 0..MaxAttempts]
  BY DEF Inv, TypeOK
<1>c. ControlInv
  BY DEF Inv
<1> USE DEF ControlInv, InsideOpen, controller
<1>1. ASSUME NEW s \in Sessions, OpenAttempt(s) PROVE ControlInv'
  BY <1>1, <1>c DEF OpenAttempt
<1>2. ASSUME NEW s \in Sessions, GateRefuses(s) PROVE ControlInv'
  BY <1>2, <1>c DEF GateRefuses, AtGate
<1>3. ASSUME NEW s \in Sessions, GatePasses(s) PROVE ControlInv'
  BY <1>3, <1>c DEF GatePasses, AtGate
<1>4. ASSUME NEW s \in Sessions, GateReopens(s) PROVE ControlInv'
  BY <1>4, <1>c DEF GateReopens, Lead, AtGate
<1>5. ASSUME NEW s \in Sessions, GateLeads(s) PROVE ControlInv'
  BY <1>5, <1>c DEF GateLeads, Lead, AtGate
<1>6. ASSUME NEW s \in Sessions, GateWaits(s) PROVE ControlInv'
  BY <1>6, <1>c DEF GateWaits, AtGate
<1>7. ASSUME NEW s \in Sessions, LeaderWakes(s) PROVE ControlInv'
  BY <1>7, <1>c DEF LeaderWakes
<1>8. ASSUME NEW s \in Sessions, WindowRejects(s) PROVE ControlInv'
  <2> DEFINE left == [stage EXCEPT ![s] = "gate"]
  <2>1. /\ left \in [Sessions -> Stages] /\ left[s] = "gate"
        /\ \A t \in Sessions : t # s => left[t] = stage[t]
    BY DEF Stages
  <2>2. stage' = StagesAfterVacating(s, left) /\ UNCHANGED <<started, attempt>>
    BY <1>8 DEF WindowRejects
  <2>3. attempt[s] = "none" /\ started[s] < MaxAttempts
    BY <1>8, <1>c DEF WindowRejects
  <2> HIDE DEF left
  <2> QED BY <1>c, <2>1, <2>2, <2>3, VacatingProperties
<1>9. ASSUME NEW s \in Sessions, WindowAdmits(s) PROVE ControlInv'
  BY <1>9, <1>c DEF WindowAdmits, Claim
<1>10. ASSUME NEW s \in Sessions, WindowQueues(s) PROVE ControlInv'
  BY <1>10, <1>c DEF WindowQueues
<1>11. ASSUME NEW s \in Sessions, SlotAdmits(s) PROVE ControlInv'
  BY <1>11, <1>c DEF SlotAdmits, Claim
<1>12. ASSUME NEW s \in Sessions, SlotRejects(s) PROVE ControlInv'
  <2> DEFINE st == StagesAfterVacating(s, [stage EXCEPT ![s] = "gate"])
  <2>1. /\ st \in [Sessions -> Stages]
        /\ \A t \in Sessions : stage[t] = "queued" => st[t] = "queued"
        /\ \A t \in Sessions : t # s => (st[t] = stage[t] \/ (stage[t] = "waiting" /\ st[t] = "woken"))
        /\ st[s] \in {"gate", "out"}
    <3> DEFINE left == [stage EXCEPT ![s] = "gate"]
    <3>1. /\ left \in [Sessions -> Stages] /\ left[s] \in {"gate", "out"}
          /\ \A t \in Sessions : t # s => left[t] = stage[t]
      BY DEF Stages
    <3>2. stage[s] = "granted" /\ st = StagesAfterVacating(s, left)
      BY <1>12 DEF SlotRejects
    <3> HIDE DEF left, st
    <3>3. /\ st \in [Sessions -> Stages]
          /\ \A t \in Sessions : st[t] = left[t] \/ (left[t] = "waiting" /\ st[t] = "woken")
      BY <3>1, <3>2, VacatingProperties
    <3> QED BY <3>1, <3>2, <3>3
  <2>2. Release(<<s, started[s] + 1>>, st)
    BY <1>12 DEF SlotRejects
  <2> HIDE DEF st
  <2>3. \A t \in Sessions :
             stage'[t] = st[t] \/ (stage'[t] = "granted" /\ stage[t] = "queued" /\ st[t] = "queued")
    BY <2>1, <2>2, ReleaseProperties
  <2>4. /\ UNCHANGED started
        /\ st[s] = "gate" => attempt'[s] = "none" /\ started[s] < MaxAttempts
        /\ \A t \in Sessions : t # s => attempt'[t] = attempt[t]
    BY <1>12, <1>c DEF SlotRejects
  <2> QED BY <1>c, <2>1, <2>3, <2>4
<1>13. ASSUME NEW s \in Sessions, CancelWaiter(s) PROVE ControlInv'
  BY <1>13, <1>c DEF CancelWaiter
<1>14. ASSUME NEW s \in Sessions, CancelLeader(s) PROVE ControlInv'
  <2> DEFINE left == [stage EXCEPT ![s] = "out"]
  <2>1. /\ left \in [Sessions -> Stages] /\ left[s] = "out"
        /\ \A t \in Sessions : t # s => left[t] = stage[t]
    BY DEF Stages
  <2>2. (stage' = NotifyAll(left) \/ stage' = left) /\ UNCHANGED <<started, attempt>>
    BY <1>14 DEF CancelLeader
  <2> HIDE DEF left
  <2> QED BY <1>c, <2>1, <2>2, NotifyAllProperties
<1>15. ASSUME NEW s \in Sessions, CancelInWindow(s) PROVE ControlInv'
  <2> DEFINE left == [stage EXCEPT ![s] = "out"]
  <2>1. /\ left \in [Sessions -> Stages] /\ left[s] = "out"
        /\ \A t \in Sessions : t # s => left[t] = stage[t]
    BY DEF Stages
  <2>2. stage' = StagesAfterVacating(s, left) /\ UNCHANGED <<started, attempt>>
    BY <1>15 DEF CancelInWindow
  <2>3. attempt[s] = "none" /\ started[s] < MaxAttempts
    BY <1>15, <1>c DEF CancelInWindow
  <2> HIDE DEF left
  <2> QED BY <1>c, <2>1, <2>2, <2>3, VacatingProperties
<1>16. ASSUME NEW s \in Sessions, CancelQueued(s) PROVE ControlInv'
  <2> DEFINE left == [stage EXCEPT ![s] = "out"]
  <2>1. /\ left \in [Sessions -> Stages] /\ left[s] = "out"
        /\ \A t \in Sessions : t # s => left[t] = stage[t]
    BY DEF Stages
  <2>2. stage' = StagesAfterVacating(s, left) /\ UNCHANGED <<started, attempt>>
    BY <1>16 DEF CancelQueued
  <2>3. attempt[s] = "none" /\ started[s] < MaxAttempts
    BY <1>16, <1>c DEF CancelQueued
  <2> HIDE DEF left
  <2> QED BY <1>c, <2>1, <2>2, <2>3, VacatingProperties
<1>17. ASSUME NEW s \in Sessions, CancelGranted(s) PROVE ControlInv'
  <2> DEFINE st == StagesAfterVacating(s, [stage EXCEPT ![s] = "out"])
  <2>1. /\ st \in [Sessions -> Stages]
        /\ \A t \in Sessions : stage[t] = "queued" => st[t] = "queued"
        /\ \A t \in Sessions : t # s => (st[t] = stage[t] \/ (stage[t] = "waiting" /\ st[t] = "woken"))
        /\ st[s] \in {"gate", "out"}
    <3> DEFINE left == [stage EXCEPT ![s] = "out"]
    <3>1. /\ left \in [Sessions -> Stages] /\ left[s] \in {"gate", "out"}
          /\ \A t \in Sessions : t # s => left[t] = stage[t]
      BY DEF Stages
    <3>2. stage[s] = "granted" /\ st = StagesAfterVacating(s, left)
      BY <1>17 DEF CancelGranted
    <3> HIDE DEF left, st
    <3>3. /\ st \in [Sessions -> Stages]
          /\ \A t \in Sessions : st[t] = left[t] \/ (left[t] = "waiting" /\ st[t] = "woken")
      BY <3>1, <3>2, VacatingProperties
    <3> QED BY <3>1, <3>2, <3>3
  <2>2. Release(<<s, started[s] + 1>>, st)
    BY <1>17 DEF CancelGranted
  <2> HIDE DEF st
  <2>3. \A t \in Sessions :
             stage'[t] = st[t] \/ (stage'[t] = "granted" /\ stage[t] = "queued" /\ st[t] = "queued")
    BY <2>1, <2>2, ReleaseProperties
  <2>4. /\ UNCHANGED started
        /\ st[s] = "gate" => attempt'[s] = "none" /\ started[s] < MaxAttempts
        /\ \A t \in Sessions : t # s => attempt'[t] = attempt[t]
    BY <1>17, <1>c DEF CancelGranted
  <2> QED BY <1>c, <2>1, <2>3, <2>4
<1>18. ASSUME NEW s \in Sessions, Succeeded(s) PROVE ControlInv'
  BY <1>18, <1>c, NotifyAllProperties DEF Succeeded, Resolve, CloseEpisode
<1>19. ASSUME NEW s \in Sessions, Rejected(s) PROVE ControlInv'
  BY <1>19, <1>c, NotifyAllProperties DEF Rejected, Resolve, CloseEpisode
<1>20. ASSUME NEW s \in Sessions, Corrected(s) PROVE ControlInv'
  BY <1>20, <1>c, NotifyAllProperties DEF Corrected, Resolve
<1>21. ASSUME NEW s \in Sessions, FailOpensEpisode(s) PROVE ControlInv'
  BY <1>21, <1>c, NotifyAllProperties DEF FailOpensEpisode
<1>22. ASSUME NEW s \in Sessions, FailRearmsProbe(s) PROVE ControlInv'
  BY <1>22, <1>c, NotifyAllProperties DEF FailRearmsProbe, Resolve
<1>23. ASSUME NEW s \in Sessions, FailKeepsOutcome(s) PROVE ControlInv'
  BY <1>23, <1>c, NotifyAllProperties DEF FailKeepsOutcome, Resolve
<1>24. ASSUME NEW s \in Sessions, FailCoalesces(s) PROVE ControlInv'
  BY <1>24, <1>c, NotifyAllProperties DEF FailCoalesces, Resolve
<1>25. ASSUME NEW s \in Sessions, NEW q \in BOOLEAN, FailExhausts(s, q) PROVE ControlInv'
  BY <1>25, <1>c, NotifyAllProperties DEF FailExhausts
<1>26. ASSUME NEW s \in Sessions, NEW q \in BOOLEAN, FailIgnored(s, q) PROVE ControlInv'
  BY <1>26, <1>c DEF FailIgnored, Resolve
<1>27. ASSUME NEW s \in Sessions, CloseResolved(s) PROVE ControlInv'
  <2> DEFINE st == [stage EXCEPT ![s] = "out"]
  <2>1. /\ st \in [Sessions -> Stages]
        /\ \A t \in Sessions : stage[t] = "queued" => st[t] = "queued"
        /\ \A t \in Sessions : t # s => (st[t] = stage[t] \/ (stage[t] = "waiting" /\ st[t] = "woken"))
        /\ st[s] \in {"gate", "out"}
    BY <1>27, <1>c DEF CloseResolved, Stages
  <2>2. Release(<<s, started[s]>>, st)
    BY <1>27 DEF CloseResolved
  <2>3. \A t \in Sessions :
             stage'[t] = st[t] \/ (stage'[t] = "granted" /\ stage[t] = "queued" /\ st[t] = "queued")
    BY <2>1, <2>2, ReleaseProperties
  <2>4. /\ UNCHANGED started
        /\ st[s] = "gate" => attempt'[s] = "none" /\ started[s] < MaxAttempts
        /\ \A t \in Sessions : t # s => attempt'[t] = attempt[t]
    BY <1>27, <1>c, <2>1 DEF CloseResolved, st
  <2> QED BY <1>c, <2>1, <2>3, <2>4
<1>28. ASSUME NEW s \in Sessions, CloseUnresolved(s) PROVE ControlInv'
  BY <1>28, <1>c DEF CloseUnresolved
<1>29. ASSUME NEW s \in Sessions, AbandonmentRuns(s) PROVE ControlInv'
  BY <1>29, <1>c, VacatingProperties DEF AbandonmentRuns
<1>30. ASSUME NEW s \in Sessions, FinishAbandoning(s) PROVE ControlInv'
  <2> DEFINE st == [stage EXCEPT ![s] = "out"]
  <2>1. /\ st \in [Sessions -> Stages]
        /\ \A t \in Sessions : stage[t] = "queued" => st[t] = "queued"
        /\ \A t \in Sessions : t # s => (st[t] = stage[t] \/ (stage[t] = "waiting" /\ st[t] = "woken"))
        /\ st[s] \in {"gate", "out"}
    BY <1>30, <1>c DEF FinishAbandoning, Stages
  <2>2. Release(<<s, started[s]>>, st)
    BY <1>30 DEF FinishAbandoning
  <2>3. \A t \in Sessions :
             stage'[t] = st[t] \/ (stage'[t] = "granted" /\ stage[t] = "queued" /\ st[t] = "queued")
    BY <2>1, <2>2, ReleaseProperties
  <2>4. /\ UNCHANGED started
        /\ st[s] = "gate" => attempt'[s] = "none" /\ started[s] < MaxAttempts
        /\ \A t \in Sessions : t # s => attempt'[t] = attempt[t]
    BY <1>30, <1>c, <2>1 DEF FinishAbandoning, st
  <2> QED BY <1>c, <2>1, <2>3, <2>4
<1>31. ASSUME NEW s \in Sessions, KeepOpen(s) PROVE ControlInv'
  BY <1>31, <1>c DEF KeepOpen
<1>32. ASSUME NEW s \in Sessions, NEW n \in 1..MaxAttempts, CloseKept(s, n) PROVE ControlInv'
  <2> DEFINE st == stage
  <2>1. /\ st \in [Sessions -> Stages]
        /\ \A t \in Sessions : stage[t] = "queued" => st[t] = "queued"
        /\ \A t \in Sessions : t # s => (st[t] = stage[t] \/ (stage[t] = "waiting" /\ st[t] = "woken"))
        /\ st[s] \in {"gate", "out"}
    BY <1>32, <1>c DEF CloseKept, Stages
  <2>2. Release(<<s, n>>, st)
    BY <1>32 DEF CloseKept
  <2>3. \A t \in Sessions :
             stage'[t] = st[t] \/ (stage'[t] = "granted" /\ stage[t] = "queued" /\ st[t] = "queued")
    BY <2>1, <2>2, ReleaseProperties
  <2>4. /\ UNCHANGED started
        /\ st[s] = "gate" => attempt'[s] = "none" /\ started[s] < MaxAttempts
        /\ \A t \in Sessions : t # s => attempt'[t] = attempt[t]
    BY <1>32, <1>c, <2>1 DEF CloseKept, st
  <2> QED BY <1>c, <2>1, <2>3, <2>4
<1>33. ASSUME NEW s \in Sessions, Drop(s) PROVE ControlInv'
  BY <1>33, <1>c DEF Drop
<1>34. ASSUME BackoffElapses PROVE ControlInv'
  BY <1>34, <1>c DEF BackoffElapses
<1>35. ASSUME CooldownElapses PROVE ControlInv'
  BY <1>35, <1>c DEF CooldownElapses
<1>36. CASE UNCHANGED admissionVars
  BY <1>36, <1>c DEF admissionVars
<1> QED
  BY <1>1, <1>2, <1>3, <1>4, <1>5, <1>6, <1>7, <1>8, <1>9, <1>10, <1>11, <1>12, <1>13,
     <1>14, <1>15, <1>16, <1>17, <1>18, <1>19, <1>20, <1>21, <1>22, <1>23, <1>24, <1>25,
     <1>26, <1>27, <1>28, <1>29, <1>30, <1>31, <1>32, <1>33, <1>34, <1>35, <1>36
  DEF Next, Admit, Use, CancelOpenAttempt, Failed

------------------------------------------------------------------------------
(* The bulkhead                                                             *)

\* A step that neither gives out, takes back nor passes on a permit.
BulkheadUntouched ==
    /\ UNCHANGED <<slots, queue, started>>
    /\ \A t \in Sessions :
          /\ stage'[t] = "granted" <=> stage[t] = "granted"
          /\ stage[t] = "queued" => stage'[t] = "queued"
          /\ stage'[t] \in {"open", "abandoning"} => stage[t] \in {"open", "abandoning"}

\* A step that leaves permits, queue and their owners alone keeps the bulkhead.
LEMMA BulkheadFrame ==
  ASSUME Inv, BulkheadUntouched
  PROVE  BulkheadInv'
<1> USE DEF BulkheadUntouched
<1>1. QueueInv'
  <2>1. \A i \in DOMAIN queue : queue[i] \in Sessions
    BY DEF Inv, TypeOK
  <2> QED BY <2>1 DEF Inv, BulkheadInv, QueueInv
<1>2. SlotInv'
  BY DEF Inv, BulkheadInv, SlotInv
<1> QED BY <1>1, <1>2 DEF Inv, BulkheadInv, BulkheadBound, NoIdlePermit

\* Releasing a permit that nobody who stays relies on keeps the bulkhead: the
\* permit is either free with an empty queue or passed to the queue's head.
LEMMA ReleaseBulkhead ==
  ASSUME Inv, NEW slot \in slots, NEW st \in [Sessions -> Stages],
         UNCHANGED started,
         \A t \in Sessions :
            /\ stage[t] = "queued" => st[t] = "queued"
            /\ st[t] = "granted" => stage[t] = "granted" /\ slot # <<t, started[t] + 1>>
            /\ st[t] \in {"open", "abandoning"} =>
                  stage[t] \in {"open", "abandoning"} /\ slot # <<t, started[t]>>
            /\ stage[t] = "granted" /\ st[t] # "granted" => slot = <<t, started[t] + 1>>,
         Release(slot, st)
  PROVE  BulkheadInv'
<1> USE AdmissionAssumption
<1>1. /\ QueueInv /\ SlotInv /\ IsFiniteSet(slots)
      /\ Cardinality(slots) \in Nat /\ Cardinality(slots) <= MaxConcurrency
      /\ queue # <<>> => Cardinality(slots) = MaxConcurrency
      /\ queue \in Seq(Sessions) /\ slots \subseteq Sessions \X (1..MaxAttempts)
      /\ started \in [Sessions -> 0..MaxAttempts]
  BY FS_CardinalityType DEF Inv, BulkheadInv, BulkheadBound, NoIdlePermit, TypeOK
<1>2. IsFiniteSet(slots \ {slot}) /\ Cardinality(slots \ {slot}) = Cardinality(slots) - 1
  BY <1>1, FS_RemoveElement
<1>3. CASE queue = <<>>
  <2>1. slots' = slots \ {slot} /\ queue' = <<>> /\ stage' = st
    BY <1>3 DEF Release
  <2>2. QueueInv'
    BY <2>1 DEF QueueInv
  <2>3. SlotInv'
    <3>1. ASSUME NEW t \in Sessions
          PROVE  /\ stage'[t] = "granted" => <<t, started[t] + 1>> \in slots'
                 /\ stage'[t] \in {"open", "abandoning"} => <<t, started[t]>> \in slots'
      BY <1>1, <2>1 DEF SlotInv
    <3>2. ASSUME NEW t \in Sessions, NEW n \in 1..MaxAttempts, <<t, n>> \in slots'
          PROVE  n <= started[t] \/ (n = started[t] + 1 /\ stage'[t] = "granted")
      <4>1. <<t, n>> \in slots /\ <<t, n>> # slot
        BY <2>1, <3>2
      <4>2. n <= started[t] \/ (n = started[t] + 1 /\ stage[t] = "granted")
        BY <1>1, <4>1 DEF SlotInv
      <4> QED BY <2>1, <4>1, <4>2
    <3> QED BY <3>1, <3>2 DEF SlotInv
  <2> QED BY <1>1, <1>2, <2>1, <2>2, <2>3 DEF BulkheadInv, BulkheadBound, NoIdlePermit
<1>4. CASE queue # <<>>
  <2> DEFINE next == Head(queue)
             slot1 == <<next, started[next] + 1>>
  <2>1. /\ slots' = (slots \ {slot}) \cup {slot1}
        /\ queue' = Tail(queue)
        /\ stage' = [st EXCEPT ![next] = "granted"]
    BY <1>4 DEF Release
  <2>2. /\ next \in Sessions /\ next = queue[1] /\ 1 \in DOMAIN queue
        /\ stage[next] = "queued" /\ st[next] = "queued"
    BY <1>1, <1>4, HeadTail DEF QueueInv
  <2> HIDE DEF next
  <2>3. slot1 \notin slots
    <3>1. started[next] + 1 \notin 0..started[next]
      BY <1>1, <2>2
    <3>2. ASSUME slot1 \in slots PROVE FALSE
      <4>1. started[next] + 1 \in 1..MaxAttempts
        BY <1>1, <3>2
      <4> QED BY <1>1, <2>2, <3>2, <4>1 DEF SlotInv
    <3> QED BY <3>2
  <2>4. /\ IsFiniteSet(slots') /\ Cardinality(slots') = Cardinality(slots)
    <3> DEFINE rest == slots \ {slot}
    <3>1. slots' = rest \cup {slot1} /\ slot1 \notin rest
      BY <2>1, <2>3
    <3>2. IsFiniteSet(rest) /\ Cardinality(rest) = Cardinality(slots) - 1
      BY <1>2
    <3> HIDE DEF slot1, rest
    <3>3. IsFiniteSet(rest \cup {slot1}) /\ Cardinality(rest \cup {slot1}) = Cardinality(rest) + 1
      BY <3>1, <3>2, FS_AddElement
    <3> QED BY <1>1, <3>1, <3>2, <3>3
  <2>5. QueueInv'
    <3>1. \A i \in DOMAIN Tail(queue) :
             /\ i \in Nat /\ i + 1 \in DOMAIN queue /\ i + 1 # 1
             /\ Tail(queue)[i] = queue[i + 1] /\ queue[i + 1] \in Sessions
      BY <1>1, <1>4, HeadTail
    <3>2. ASSUME NEW i \in DOMAIN Tail(queue)
          PROVE  stage'[Tail(queue)[i]] = "queued"
      <4>1. queue[i + 1] # next
        BY <1>1, <2>2, <3>1 DEF QueueInv
      <4>2. st[queue[i + 1]] = "queued"
        BY <1>1, <3>1 DEF QueueInv
      <4> QED BY <2>1, <3>1, <4>1, <4>2
    <3>3. ASSUME NEW i \in DOMAIN Tail(queue), NEW j \in DOMAIN Tail(queue),
                 Tail(queue)[i] = Tail(queue)[j]
          PROVE  i = j
      <4>1. i + 1 = j + 1
        BY <1>1, <3>1, <3>3 DEF QueueInv
      <4> QED BY <3>1, <4>1
    <3> QED BY <2>1, <3>2, <3>3 DEF QueueInv
  <2>6. SlotInv'
    <3>1. \A t \in Sessions : stage'[t] = IF t = next THEN "granted" ELSE st[t]
      BY <2>1
    <3>2. ASSUME NEW t \in Sessions
          PROVE  /\ stage'[t] = "granted" => <<t, started[t] + 1>> \in slots'
                 /\ stage'[t] \in {"open", "abandoning"} => <<t, started[t]>> \in slots'
      BY <1>1, <2>1, <3>1 DEF SlotInv
    <3>3. ASSUME NEW t \in Sessions, NEW n \in 1..MaxAttempts, <<t, n>> \in slots'
          PROVE  n <= started[t] \/ (n = started[t] + 1 /\ stage'[t] = "granted")
      <4>1. CASE t = next /\ n = started[t] + 1
        BY <3>1, <4>1
      <4>2. CASE ~(t = next /\ n = started[t] + 1)
        <5>1. <<t, n>> \in slots /\ <<t, n>> # slot
          BY <2>1, <3>3, <4>2
        <5>2. n <= started[t] \/ (n = started[t] + 1 /\ stage[t] = "granted")
          BY <1>1, <5>1 DEF SlotInv
        <5>3. n = started[t] + 1 /\ stage[t] = "granted" => st[t] = "granted"
          BY <5>1
        <5> QED BY <3>1, <5>2, <5>3
      <4> QED BY <4>1, <4>2
    <3> QED BY <3>2, <3>3 DEF SlotInv
  <2>7. Cardinality(slots') = MaxConcurrency
    BY <1>1, <1>4, <2>4
  <2> QED BY <2>4, <2>5, <2>6, <2>7 DEF BulkheadInv, BulkheadBound, NoIdlePermit
<1> QED BY <1>3, <1>4

\* Every step keeps the bulkhead's bound, its queue and the owners of permits.
LEMMA BulkheadStep == Inv /\ [Next]_admissionVars => BulkheadInv'
<1> SUFFICES ASSUME Inv, [Next]_admissionVars PROVE BulkheadInv'
  OBVIOUS
<1>t. /\ stage \in [Sessions -> Stages]
      /\ attempt \in [Sessions -> AttemptStates]
      /\ started \in [Sessions -> 0..MaxAttempts]
      /\ queue \in Seq(Sessions)
  BY DEF Inv, TypeOK
<1>b. /\ QueueInv /\ SlotInv /\ IsFiniteSet(slots)
      /\ Cardinality(slots) \in Nat /\ Cardinality(slots) <= MaxConcurrency
      /\ queue # <<>> => Cardinality(slots) = MaxConcurrency
  BY FS_CardinalityType DEF Inv, BulkheadInv, BulkheadBound, NoIdlePermit
<1>c. \A t \in Sessions : stage[t] \in InsideOpen => started[t] < MaxAttempts
  BY DEF Inv, ControlInv
<1>1. ASSUME NEW s \in Sessions, OpenAttempt(s) PROVE BulkheadUntouched
  BY <1>1, <1>t DEF BulkheadUntouched, controller, OpenAttempt
<1>2. ASSUME NEW s \in Sessions, GateRefuses(s) PROVE BulkheadUntouched
  BY <1>2, <1>t DEF BulkheadUntouched, controller, GateRefuses, AtGate
<1>3. ASSUME NEW s \in Sessions, GatePasses(s) PROVE BulkheadUntouched
  BY <1>3, <1>t DEF BulkheadUntouched, controller, GatePasses, AtGate
<1>4. ASSUME NEW s \in Sessions, GateReopens(s) PROVE BulkheadUntouched
  BY <1>4, <1>t DEF BulkheadUntouched, controller, GateReopens, Lead, AtGate
<1>5. ASSUME NEW s \in Sessions, GateLeads(s) PROVE BulkheadUntouched
  BY <1>5, <1>t DEF BulkheadUntouched, controller, GateLeads, Lead, AtGate
<1>6. ASSUME NEW s \in Sessions, GateWaits(s) PROVE BulkheadUntouched
  BY <1>6, <1>t DEF BulkheadUntouched, controller, GateWaits, AtGate
<1>7. ASSUME NEW s \in Sessions, LeaderWakes(s) PROVE BulkheadUntouched
  BY <1>7, <1>t DEF BulkheadUntouched, controller, LeaderWakes
<1>8. ASSUME NEW s \in Sessions, WindowRejects(s) PROVE BulkheadUntouched
  <2> DEFINE left == [stage EXCEPT ![s] = "gate"]
  <2>1. /\ left \in [Sessions -> Stages] /\ left[s] = "gate"
        /\ \A t \in Sessions : t # s => left[t] = stage[t]
    BY <1>t DEF Stages
  <2>2. stage' = StagesAfterVacating(s, left) /\ UNCHANGED <<slots, queue, started>>
    BY <1>8 DEF WindowRejects
  <2>3. stage[s] \in {"leading", "window"}
    BY <1>8 DEF WindowRejects
  <2> HIDE DEF left
  <2> QED BY <2>1, <2>2, <2>3, VacatingProperties DEF BulkheadUntouched
<1>9. ASSUME NEW s \in Sessions, WindowAdmits(s) PROVE BulkheadInv'
  <2> DEFINE slot == <<s, started[s] + 1>>
  <2>1. /\ slots' = slots \cup {slot} /\ queue' = queue /\ queue = <<>>
        /\ Cardinality(slots) < MaxConcurrency
        /\ stage' = [stage EXCEPT ![s] = "open"] /\ stage[s] = "window"
        /\ started' = [started EXCEPT ![s] = @ + 1]
    BY <1>9 DEF WindowAdmits, Claim, SlotFree
  <2>2. IsFiniteSet(slots') /\ Cardinality(slots') <= MaxConcurrency
    <3> HIDE DEF slot
    <3>1. /\ IsFiniteSet(slots \cup {slot})
          /\ \/ Cardinality(slots \cup {slot}) = Cardinality(slots)
             \/ Cardinality(slots \cup {slot}) = Cardinality(slots) + 1
      BY <1>b, FS_AddElement
    <3> QED BY <1>b, <2>1, <3>1, AdmissionAssumption
  <2>3. QueueInv' /\ NoIdlePermit'
    BY <2>1 DEF QueueInv, NoIdlePermit
  <2>4. SlotInv'
    BY <1>t, <1>b, <2>1 DEF SlotInv
  <2> QED BY <2>2, <2>3, <2>4 DEF BulkheadInv, BulkheadBound
<1>10. ASSUME NEW s \in Sessions, WindowQueues(s) PROVE BulkheadInv'
  <2>1. /\ queue' = Append(queue, s) /\ UNCHANGED <<slots, started>>
        /\ stage' = [stage EXCEPT ![s] = "queued"] /\ stage[s] = "window"
        /\ queue # <<>> \/ ~(Cardinality(slots) < MaxConcurrency)
    BY <1>10 DEF WindowQueues, SlotFree
  <2>2. Cardinality(slots') = MaxConcurrency
    BY <1>b, <2>1, AdmissionAssumption
  <2>3. QueueInv'
    <3>1. \A k \in DOMAIN queue : queue[k] \in Sessions /\ stage[queue[k]] = "queued"
      BY <1>t, <1>b DEF QueueInv
    <3>2. /\ DOMAIN queue' = 1..(Len(queue) + 1) /\ queue'[Len(queue) + 1] = s
          /\ \A k \in DOMAIN queue : queue'[k] = queue[k]
          /\ DOMAIN queue = 1..Len(queue) /\ Len(queue) \in Nat
      BY <1>t, <2>1
    <3>3. \A k \in DOMAIN queue' : k = Len(queue) + 1 \/ k \in DOMAIN queue
      BY <3>2
    <3> QED BY <1>t, <1>b, <2>1, <3>1, <3>2, <3>3 DEF QueueInv
  <2>4. SlotInv'
    BY <1>t, <1>b, <2>1 DEF SlotInv
  <2> QED
    BY <1>b, <2>1, <2>2, <2>3, <2>4, AdmissionAssumption
       DEF BulkheadInv, BulkheadBound, NoIdlePermit
<1>11. ASSUME NEW s \in Sessions, SlotAdmits(s) PROVE BulkheadInv'
  <2>1. /\ UNCHANGED <<slots, queue>>
        /\ stage' = [stage EXCEPT ![s] = "open"] /\ stage[s] = "granted"
        /\ started' = [started EXCEPT ![s] = @ + 1]
    BY <1>11 DEF SlotAdmits, Claim, controller
  <2>2. QueueInv'
    <3>1. \A k \in DOMAIN queue : queue[k] \in Sessions /\ stage[queue[k]] = "queued"
      BY <1>t, <1>b DEF QueueInv
    <3> QED BY <1>t, <1>b, <2>1, <3>1 DEF QueueInv
  <2>3. SlotInv'
    BY <1>t, <1>b, <2>1 DEF SlotInv
  <2> QED BY <1>b, <2>1, <2>2, <2>3 DEF BulkheadInv, BulkheadBound, NoIdlePermit
<1>12. ASSUME NEW s \in Sessions, SlotRejects(s) PROVE BulkheadInv'
  <2> DEFINE slot == <<s, started[s] + 1>>
             left == [stage EXCEPT ![s] = "gate"]
             st == StagesAfterVacating(s, left)
  <2>1. UNCHANGED started /\ Release(slot, st)
    BY <1>12 DEF SlotRejects
  <2>2. slot \in slots
    BY <1>12, <1>b DEF SlotRejects, SlotInv
  <2>3. /\ left \in [Sessions -> Stages]
        /\ \A t \in Sessions :
              /\ t # s => left[t] = stage[t] /\ slot # <<t, started[t]>> /\ slot # <<t, started[t] + 1>>
              /\ left[s] \in {"gate", "out"} /\ stage[s] # "queued"
    BY <1>t, <1>12 DEF SlotRejects, Stages
  <2>4. stage[s] = "granted" => slot = <<s, started[s] + 1>>
    BY <1>12, <1>b DEF SlotRejects
  <2> HIDE DEF slot, left
  <2>5. /\ st \in [Sessions -> Stages]
        /\ \A t \in Sessions : st[t] = left[t] \/ (left[t] = "waiting" /\ st[t] = "woken")
    BY <2>3, VacatingProperties
  <2> HIDE DEF st
  <2> QED BY <2>1, <2>2, <2>3, <2>4, <2>5, ReleaseBulkhead
<1>13. ASSUME NEW s \in Sessions, CancelWaiter(s) PROVE BulkheadUntouched
  BY <1>13, <1>t DEF BulkheadUntouched, controller, CancelWaiter
<1>14. ASSUME NEW s \in Sessions, CancelLeader(s) PROVE BulkheadUntouched
  <2> DEFINE left == [stage EXCEPT ![s] = "out"]
  <2>1. /\ left \in [Sessions -> Stages] /\ left[s] = "out"
        /\ \A t \in Sessions : t # s => left[t] = stage[t]
    BY <1>t DEF Stages
  <2>2. (stage' = NotifyAll(left) \/ stage' = left) /\ UNCHANGED <<slots, queue, started>>
    BY <1>14 DEF CancelLeader
  <2>3. stage[s] \in {"leading", "window"}
    BY <1>14 DEF CancelLeader
  <2> HIDE DEF left
  <2> QED BY <2>1, <2>2, <2>3, NotifyAllProperties DEF BulkheadUntouched
<1>15. ASSUME NEW s \in Sessions, CancelInWindow(s) PROVE BulkheadUntouched
  <2> DEFINE left == [stage EXCEPT ![s] = "out"]
  <2>1. /\ left \in [Sessions -> Stages] /\ left[s] = "out"
        /\ \A t \in Sessions : t # s => left[t] = stage[t]
    BY <1>t DEF Stages
  <2>2. stage' = StagesAfterVacating(s, left) /\ UNCHANGED <<slots, queue, started>>
    BY <1>15 DEF CancelInWindow
  <2>3. stage[s] \in {"leading", "window"}
    BY <1>15 DEF CancelInWindow
  <2> HIDE DEF left
  <2> QED BY <2>1, <2>2, <2>3, VacatingProperties DEF BulkheadUntouched
<1>16. ASSUME NEW s \in Sessions, CancelQueued(s) PROVE BulkheadInv'
  <2> DEFINE left == [stage EXCEPT ![s] = "out"]
  <2>1. PICK k \in DOMAIN queue : queue[k] = s /\ queue' = RemoveAt(queue, k)
    BY <1>16 DEF CancelQueued
  <2>2. UNCHANGED <<slots, started>> /\ stage' = StagesAfterVacating(s, left) /\ stage[s] = "queued"
    BY <1>16 DEF CancelQueued
  <2>3. /\ left \in [Sessions -> Stages] /\ left[s] = "out"
        /\ \A t \in Sessions : t # s => left[t] = stage[t]
    BY <1>t DEF Stages
  <2> HIDE DEF left
  <2>4. \A t \in Sessions : stage'[t] = left[t] \/ (left[t] = "waiting" /\ stage'[t] = "woken")
    BY <2>2, <2>3, VacatingProperties
  <2>5. /\ queue' \in Seq(Sessions) /\ Len(queue') = Len(queue) - 1 /\ Len(queue) \in Nat
        /\ DOMAIN queue = 1..Len(queue) /\ DOMAIN queue' = 1..(Len(queue) - 1)
        /\ \A m \in 1..(Len(queue) - 1) : queue'[m] = queue[IF m < k THEN m ELSE m + 1]
    <3>1. k \in 1..Len(queue) /\ Len(queue) \in Nat /\ DOMAIN queue = 1..Len(queue)
      BY <1>t, <2>1
    <3>2. /\ queue' \in Seq(Sessions) /\ Len(queue') = Len(queue) - 1
          /\ \A m \in 1..(Len(queue) - 1) : queue'[m] = queue[IF m < k THEN m ELSE m + 1]
      BY <1>t, <2>1, <3>1, RemoveAtProperties
    <3> QED BY <3>1, <3>2
  <2>6. QueueInv'
    <3> DEFINE at(m) == IF m < k THEN m ELSE m + 1
    <3>1. \A m \in DOMAIN queue' : at(m) \in DOMAIN queue /\ at(m) # k /\ queue'[m] = queue[at(m)]
      BY <2>1, <2>5
    <3>2. \A m, n \in DOMAIN queue' : at(m) = at(n) => m = n
      BY <2>1, <2>5
    <3> HIDE DEF at
    <3>3. \A m \in DOMAIN queue' : queue'[m] # s /\ stage[queue'[m]] = "queued" /\ queue'[m] \in Sessions
      BY <1>t, <1>b, <2>1, <3>1 DEF QueueInv
    <3>4. \A m \in DOMAIN queue' : stage'[queue'[m]] = "queued"
      BY <2>3, <2>4, <3>3
    <3>5. \A m, n \in DOMAIN queue' : queue'[m] = queue'[n] => m = n
      BY <1>b, <3>1, <3>2 DEF QueueInv
    <3> QED BY <3>4, <3>5 DEF QueueInv
  <2>7. SlotInv'
    <3>1. \A t \in Sessions :
             /\ stage'[t] = "granted" <=> stage[t] = "granted"
             /\ stage'[t] \in {"open", "abandoning"} => stage[t] \in {"open", "abandoning"}
      BY <2>2, <2>3, <2>4
    <3> QED BY <1>b, <2>2, <3>1 DEF SlotInv
  <2>8. NoIdlePermit'
    BY <1>b, <2>1, <2>2 DEF NoIdlePermit
  <2> QED BY <1>b, <2>2, <2>6, <2>7, <2>8 DEF BulkheadInv, BulkheadBound
<1>17. ASSUME NEW s \in Sessions, CancelGranted(s) PROVE BulkheadInv'
  <2> DEFINE slot == <<s, started[s] + 1>>
             left == [stage EXCEPT ![s] = "out"]
             st == StagesAfterVacating(s, left)
  <2>1. UNCHANGED started /\ Release(slot, st)
    BY <1>17 DEF CancelGranted
  <2>2. slot \in slots
    BY <1>17, <1>b DEF CancelGranted, SlotInv
  <2>3. /\ left \in [Sessions -> Stages]
        /\ \A t \in Sessions :
              /\ t # s => left[t] = stage[t] /\ slot # <<t, started[t]>> /\ slot # <<t, started[t] + 1>>
              /\ left[s] \in {"gate", "out"} /\ stage[s] # "queued"
    BY <1>t, <1>17 DEF CancelGranted, Stages
  <2>4. stage[s] = "granted" => slot = <<s, started[s] + 1>>
    BY <1>17, <1>b DEF CancelGranted
  <2> HIDE DEF slot, left
  <2>5. /\ st \in [Sessions -> Stages]
        /\ \A t \in Sessions : st[t] = left[t] \/ (left[t] = "waiting" /\ st[t] = "woken")
    BY <2>3, VacatingProperties
  <2> HIDE DEF st
  <2> QED BY <2>1, <2>2, <2>3, <2>4, <2>5, ReleaseBulkhead
<1>18. ASSUME NEW s \in Sessions, Succeeded(s) PROVE BulkheadUntouched
  BY <1>18, <1>t, NotifyAllProperties
     DEF BulkheadUntouched, controller, Succeeded, Resolve, CloseEpisode
<1>19. ASSUME NEW s \in Sessions, Rejected(s) PROVE BulkheadUntouched
  BY <1>19, <1>t, NotifyAllProperties
     DEF BulkheadUntouched, controller, Rejected, Resolve, CloseEpisode
<1>20. ASSUME NEW s \in Sessions, Corrected(s) PROVE BulkheadUntouched
  BY <1>20, <1>t, NotifyAllProperties DEF BulkheadUntouched, controller, Corrected, Resolve
<1>21. ASSUME NEW s \in Sessions, FailOpensEpisode(s) PROVE BulkheadUntouched
  BY <1>21, <1>t, NotifyAllProperties DEF BulkheadUntouched, controller, FailOpensEpisode
<1>22. ASSUME NEW s \in Sessions, FailRearmsProbe(s) PROVE BulkheadUntouched
  BY <1>22, <1>t, NotifyAllProperties
     DEF BulkheadUntouched, controller, FailRearmsProbe, Resolve
<1>23. ASSUME NEW s \in Sessions, FailKeepsOutcome(s) PROVE BulkheadUntouched
  BY <1>23, <1>t, NotifyAllProperties
     DEF BulkheadUntouched, controller, FailKeepsOutcome, Resolve
<1>24. ASSUME NEW s \in Sessions, FailCoalesces(s) PROVE BulkheadUntouched
  BY <1>24, <1>t, NotifyAllProperties
     DEF BulkheadUntouched, controller, FailCoalesces, Resolve
<1>25. ASSUME NEW s \in Sessions, NEW q \in BOOLEAN, FailExhausts(s, q) PROVE BulkheadUntouched
  BY <1>25, <1>t, NotifyAllProperties DEF BulkheadUntouched, controller, FailExhausts
<1>26. ASSUME NEW s \in Sessions, NEW q \in BOOLEAN, FailIgnored(s, q) PROVE BulkheadUntouched
  BY <1>26, <1>t DEF BulkheadUntouched, controller, FailIgnored, Resolve
<1>27. ASSUME NEW s \in Sessions, CloseResolved(s) PROVE BulkheadInv'
  <2> DEFINE slot == <<s, started[s]>>
             left == [stage EXCEPT ![s] = "out"]
             st == left
  <2>1. UNCHANGED started /\ Release(slot, st)
    BY <1>27 DEF CloseResolved
  <2>2. slot \in slots
    BY <1>27, <1>b DEF CloseResolved, SlotInv
  <2>3. /\ left \in [Sessions -> Stages]
        /\ \A t \in Sessions :
              /\ t # s => left[t] = stage[t] /\ slot # <<t, started[t]>> /\ slot # <<t, started[t] + 1>>
              /\ left[s] \in {"gate", "out"} /\ stage[s] # "queued"
    BY <1>t, <1>27 DEF CloseResolved, Stages
  <2>4. stage[s] = "granted" => slot = <<s, started[s] + 1>>
    BY <1>27, <1>b DEF CloseResolved
  <2> HIDE DEF slot, left
  <2> QED BY <2>1, <2>2, <2>3, <2>4, ReleaseBulkhead
<1>28. ASSUME NEW s \in Sessions, CloseUnresolved(s) PROVE BulkheadUntouched
  BY <1>28, <1>t DEF BulkheadUntouched, controller, CloseUnresolved
<1>29. ASSUME NEW s \in Sessions, AbandonmentRuns(s) PROVE BulkheadUntouched
  <2>1. stage' = StagesAfterVacating(s, stage) /\ UNCHANGED <<slots, queue, started>>
    BY <1>29 DEF AbandonmentRuns
  <2>2. \A t \in Sessions :
           stage'[t] = stage[t] \/ (stage[t] = "waiting" /\ stage'[t] = "woken")
    BY <1>t, <2>1, VacatingProperties
  <2> QED BY <1>t, <2>1, <2>2 DEF BulkheadUntouched
<1>30. ASSUME NEW s \in Sessions, FinishAbandoning(s) PROVE BulkheadInv'
  <2> DEFINE slot == <<s, started[s]>>
             left == [stage EXCEPT ![s] = "out"]
             st == left
  <2>1. UNCHANGED started /\ Release(slot, st)
    BY <1>30 DEF FinishAbandoning
  <2>2. slot \in slots
    BY <1>30, <1>b DEF FinishAbandoning, SlotInv
  <2>3. /\ left \in [Sessions -> Stages]
        /\ \A t \in Sessions :
              /\ t # s => left[t] = stage[t] /\ slot # <<t, started[t]>> /\ slot # <<t, started[t] + 1>>
              /\ left[s] \in {"gate", "out"} /\ stage[s] # "queued"
    BY <1>t, <1>30 DEF FinishAbandoning, Stages
  <2>4. stage[s] = "granted" => slot = <<s, started[s] + 1>>
    BY <1>30, <1>b DEF FinishAbandoning
  <2> HIDE DEF slot, left
  <2> QED BY <2>1, <2>2, <2>3, <2>4, ReleaseBulkhead
<1>31. ASSUME NEW s \in Sessions, KeepOpen(s) PROVE BulkheadUntouched
  BY <1>31, <1>t DEF BulkheadUntouched, controller, KeepOpen
<1>32. ASSUME NEW s \in Sessions, NEW n \in 1..MaxAttempts, CloseKept(s, n) PROVE BulkheadInv'
  <2> DEFINE slot == <<s, n>>
             left == stage
             st == left
  <2>1. UNCHANGED started /\ Release(slot, st)
    BY <1>32 DEF CloseKept
  <2>2. slot \in slots
    BY <1>32, <1>b DEF CloseKept, SlotInv
  <2>3. /\ left \in [Sessions -> Stages]
        /\ \A t \in Sessions :
              /\ t # s => left[t] = stage[t] /\ slot # <<t, started[t]>> /\ slot # <<t, started[t] + 1>>
              /\ left[s] \in {"gate", "out"} /\ stage[s] # "queued"
    BY <1>t, <1>32 DEF CloseKept, Stages
  <2>4. stage[s] = "granted" => slot = <<s, started[s] + 1>>
    BY <1>32 DEF CloseKept
  <2> HIDE DEF slot, left
  <2> QED BY <2>1, <2>2, <2>3, <2>4, ReleaseBulkhead
<1>33. ASSUME NEW s \in Sessions, Drop(s) PROVE BulkheadUntouched
  BY <1>33, <1>t DEF BulkheadUntouched, controller, Drop
<1>34. ASSUME BackoffElapses PROVE BulkheadUntouched
  BY <1>34 DEF BackoffElapses, BulkheadUntouched
<1>35. ASSUME CooldownElapses PROVE BulkheadUntouched
  BY <1>35 DEF CooldownElapses, BulkheadUntouched
<1>36. ASSUME UNCHANGED admissionVars PROVE BulkheadUntouched
  BY <1>36 DEF admissionVars, BulkheadUntouched
<1> QED
  BY <1>1, <1>2, <1>3, <1>4, <1>5, <1>6, <1>7, <1>8, <1>9, <1>10, <1>11, <1>12, <1>13,
     <1>14, <1>15, <1>16, <1>17, <1>18, <1>19, <1>20, <1>21, <1>22, <1>23, <1>24, <1>25,
     <1>26, <1>27, <1>28, <1>29, <1>30, <1>31, <1>32, <1>33, <1>34, <1>35, <1>36,
     BulkheadFrame
  DEF Next, Admit, Use, CancelOpenAttempt, Failed

------------------------------------------------------------------------------
(* The recovery episode                                                     *)

\* The probe of the current episode, if there is one, is in one session's
\* hands, and nobody sleeps or waits unless somebody leads.
LEMMA ProbeFacts ==
  ASSUME Inv
  PROVE  /\ \A t \in Sessions : HoldsProbe(t) =>
                MatchingProbe(t) /\ episode.cooldown = "none"
         /\ \A s, t \in Sessions : MatchingProbe(s) /\ HoldsProbe(t) => t = s
         /\ \A s, t \in Sessions : MatchingProbe(s) => stage[t] # "leading"
         /\ ~episode.probing => \A t \in Sessions : ~HoldsProbe(t)
         /\ ~Recovering => episode = NoEpisode
         /\ ~Recovering \/ episode.cooldown # "none" =>
               \A t \in Sessions : ~HoldsProbe(t) /\ stage[t] \notin {"waiting", "leading"}
<1>1. \A t \in Sessions : HoldsProbe(t) => MatchingProbe(t) /\ episode.cooldown = "none"
  BY DEF Inv, RecoveryInv, ProbeIsNeverStale, HoldsProbe, PermitIsCurrent
<1>2. \A s, t \in Sessions : MatchingProbe(s) => stage[t] # "leading"
  BY DEF Inv, RecoveryInv, SleeperLeads, MatchingProbe
<1>3. ~Recovering => episode = NoEpisode
  BY DEF Inv, RecoveryInv, EpisodeInv
<1>4. ~Recovering => \A t \in Sessions : stage[t] \notin {"waiting", "leading"}
  BY <1>3, AdmissionAssumption DEF Inv, RecoveryInv, NoLostWakeup, SleeperLeads, NoEpisode
<1>5. episode.cooldown # "none" => \A t \in Sessions : stage[t] \notin {"waiting", "leading"}
  BY DEF Inv, RecoveryInv, NoLostWakeup, SleeperLeads
<1> QED BY <1>1, <1>2, <1>3, <1>4, <1>5 DEF MatchingProbe

\* A step after which nobody probes, sleeps or waits.
LEMMA NobodyProbes ==
  ASSUME EpisodeInv', ~episode'.probing,
         \A t \in Sessions : HoldsProbe(t)' => FALSE,
         \A t \in Sessions : stage'[t] \notin {"waiting", "leading"}
  PROVE  RecoveryInv'
BY DEF RecoveryInv, ProbeIsNeverStale, ProbeIsHeld, NoLostWakeup, SleeperLeads

\* A step that leaves the probe where it is.
RecoveryUntouched ==
    /\ UNCHANGED <<nextGen, permit>>
    /\ episode' = [episode EXCEPT !.waiters = episode'.waiters]
    /\ ~Recovering => episode' = episode
    /\ \A t \in Sessions :
          /\ HoldsProbe(t)' <=> HoldsProbe(t)
          /\ stage'[t] = "waiting" => stage[t] = "waiting"
          /\ stage'[t] = "waiting" /\ t \in episode.waiters => t \in episode'.waiters
          /\ stage'[t] = "leading" => stage[t] = "leading"

\* Such a step keeps what is known of the recovery.
LEMMA RecoveryFrame ==
  ASSUME Inv, RecoveryUntouched
  PROVE  RecoveryInv'
<1>1. /\ episode \in Episodes
      /\ RecoveryInv /\ EpisodeInv /\ ProbeIsNeverStale /\ ProbeIsHeld
      /\ NoLostWakeup /\ SleeperLeads
  BY DEF Inv, TypeOK, RecoveryInv
<1>2. /\ episode'.gen = episode.gen /\ episode'.leader = episode.leader
      /\ episode'.probing = episode.probing /\ episode'.cooldown = episode.cooldown
  BY <1>1 DEF RecoveryUntouched, Episodes
<1>3. UNCHANGED <<nextGen, permit>>
  BY DEF RecoveryUntouched
<1>4. EpisodeInv'
  BY <1>1, <1>2, <1>3 DEF EpisodeInv, RecoveryUntouched, Recovering
<1>5. ProbeIsNeverStale'
  <2>1. \A t \in Sessions : PermitIsCurrent(t)' <=> PermitIsCurrent(t)
    BY <1>2, <1>3 DEF PermitIsCurrent, MatchingProbe, Recovering
  <2> QED BY <1>1, <2>1 DEF ProbeIsNeverStale, RecoveryUntouched
<1>6. ProbeIsHeld'
  <2>1. \A t \in Sessions : HoldsProbe(t)' <=> HoldsProbe(t)
    BY DEF RecoveryUntouched
  <2>2. ASSUME episode'.probing
        PROVE  \E t \in Sessions : t = episode'.leader /\ HoldsProbe(t)'
    <3>1. PICK t \in Sessions : t = episode.leader /\ HoldsProbe(t)
      BY <1>1, <1>2, <2>2 DEF ProbeIsHeld
    <3> QED BY <1>2, <2>1, <3>1
  <2> QED BY <2>2 DEF ProbeIsHeld, HoldsProbe
<1>7. NoLostWakeup'
  BY <1>1, <1>2 DEF NoLostWakeup, RecoveryUntouched, Recovering
<1>8. SleeperLeads'
  BY <1>1, <1>2, <1>3 DEF SleeperLeads, RecoveryUntouched
<1> QED BY <1>4, <1>5, <1>6, <1>7, <1>8 DEF RecoveryInv

\* Handing back the probe, by whoever may hold it.
LEMMA VacatingKeepsRecovery ==
  ASSUME Inv, NEW s \in Sessions,
         episode' = EpisodeWithoutProbe(s), UNCHANGED <<nextGen, permit>>,
         HoldsProbe(s)' => FALSE,
         \A t \in Sessions :
            /\ t # s => (HoldsProbe(t)' <=> HoldsProbe(t))
            /\ stage'[t] = "waiting" => stage[t] = "waiting" /\ ~MatchingProbe(s)
            /\ stage'[t] = "leading" => stage[t] = "leading"
  PROVE  RecoveryInv'
<1>1. CASE MatchingProbe(s)
  <2>1. episode' = [episode EXCEPT !.leader = NoSession, !.probing = FALSE, !.ready = TRUE]
    BY <1>1 DEF EpisodeWithoutProbe
  <2>2. /\ episode'.gen = episode.gen /\ episode'.leader = NoSession
        /\ ~episode'.probing /\ episode'.cooldown = episode.cooldown
    BY <2>1 DEF Inv, TypeOK, Episodes
  <2>3. EpisodeInv'
    BY <1>1, <2>2 DEF EpisodeInv, Recovering, MatchingProbe, Inv, RecoveryInv
  <2>4. \A t \in Sessions : HoldsProbe(t)' => FALSE
    BY <1>1, ProbeFacts
  <2>5. \A t \in Sessions : stage'[t] \notin {"waiting", "leading"}
    BY <1>1, ProbeFacts
  <2> QED BY <2>2, <2>3, <2>4, <2>5, NobodyProbes
<1>2. CASE ~MatchingProbe(s)
  <2>1. episode' = episode
    BY <1>2 DEF EpisodeWithoutProbe
  <2>2. ~HoldsProbe(s)
    BY <1>2, ProbeFacts
  <2>3. \A t \in Sessions : HoldsProbe(t)' <=> HoldsProbe(t)
    BY <2>2
  <2>4. episode' = [episode EXCEPT !.waiters = episode'.waiters]
    BY <2>1 DEF Inv, TypeOK, Episodes
  <2>5. RecoveryUntouched
    BY <2>1, <2>3, <2>4 DEF RecoveryUntouched
  <2> QED BY <2>5, RecoveryFrame
<1> QED BY <1>1, <1>2

\* Leaving open_attempt after the gate, by cancellation or on a stale permit;
\* st is the stages before a freed permit is passed on.
LEMMA LeavingKeepsRecovery ==
  ASSUME Inv, NEW s \in Sessions, NEW to \in {"gate", "out"},
         NEW st, st = StagesAfterVacating(s, [stage EXCEPT ![s] = to]),
         stage[s] \in {"window", "queued", "granted"},
         episode' = EpisodeWithoutProbe(s), UNCHANGED <<nextGen, permit, attempt>>,
         \A t \in Sessions :
            stage'[t] = st[t] \/ (stage'[t] = "granted" /\ stage[t] = "queued" /\ st[t] = "queued")
  PROVE  RecoveryInv'
<1> DEFINE left == [stage EXCEPT ![s] = to]
<1>1. /\ left \in [Sessions -> Stages] /\ left[s] = to
      /\ \A t \in Sessions : t # s => left[t] = stage[t]
  BY DEF Stages, Inv, TypeOK
<1>2. st = StagesAfterVacating(s, left)
  OBVIOUS
<1> HIDE DEF left
<1>3. /\ \A t \in Sessions : st[t] = left[t] \/ (left[t] = "waiting" /\ st[t] = "woken")
      /\ MatchingProbe(s) => \A t \in Sessions : st[t] # "waiting"
  <2>1. \A t \in Sessions : st[t] = left[t] \/ (left[t] = "waiting" /\ st[t] = "woken")
    BY <1>1, <1>2, VacatingProperties
  <2>2. MatchingProbe(s) => st = NotifyAll(left)
    BY <1>2 DEF StagesAfterVacating
  <2>3. \A t \in Sessions : NotifyAll(left)[t] # "waiting"
    BY <1>1, NotifyAllProperties
  <2> QED BY <2>1, <2>2, <2>3
<1>4. attempt[s] = "none"
  BY DEF InsideOpen, Inv, ControlInv
<1>5. HoldsProbe(s)' => FALSE
  BY <1>1, <1>3, <1>4 DEF HoldsProbe
<1>6. \A t \in Sessions : t # s => (HoldsProbe(t)' <=> HoldsProbe(t))
  BY <1>1, <1>3 DEF HoldsProbe
<1>7. \A t \in Sessions :
         /\ stage'[t] = "waiting" => stage[t] = "waiting" /\ ~MatchingProbe(s)
         /\ stage'[t] = "leading" => stage[t] = "leading"
  BY <1>1, <1>3
<1> QED BY <1>5, <1>6, <1>7, VacatingKeepsRecovery

\* A resolution that ends the probe, e being the episode it leaves behind, or
\* touches nothing when it is not the probe's.
LEMMA ResolvingKeepsRecovery ==
  ASSUME Inv, NEW s \in Sessions, stage[s] = "open", attempt[s] = "open",
         UNCHANGED <<nextGen, permit>>, attempt'[s] \in {"accepted", "settled"},
         \A t \in Sessions : t # s => attempt'[t] = attempt[t],
         MatchingProbe(s) => stage' = NotifyAll(stage) /\ EpisodeInv' /\ ~episode'.probing,
         ~MatchingProbe(s) => episode' = episode /\ stage' = stage
  PROVE  RecoveryInv'
<1>1. stage \in [Sessions -> Stages] /\ episode \in Episodes
  BY DEF Inv, TypeOK
<1>2. \A t \in Sessions : NotifyAll(stage)[t] = IF stage[t] = "waiting" THEN "woken" ELSE stage[t]
  BY <1>1, NotifyAllProperties
<1>3. HoldsProbe(s)' => FALSE
  BY <1>2 DEF HoldsProbe
<1>4. \A t \in Sessions : t # s => (HoldsProbe(t)' <=> HoldsProbe(t))
  BY <1>2 DEF HoldsProbe
<1>5. CASE MatchingProbe(s)
  <2>1. \A t \in Sessions : HoldsProbe(t)' => FALSE
    BY <1>3, <1>4, <1>5, ProbeFacts
  <2>2. \A t \in Sessions : stage'[t] \notin {"waiting", "leading"}
    BY <1>2, <1>5, ProbeFacts
  <2> QED BY <1>5, <2>1, <2>2, NobodyProbes
<1>6. CASE ~MatchingProbe(s)
  <2>1. \A t \in Sessions : HoldsProbe(t)' <=> HoldsProbe(t)
    BY <1>3, <1>4, <1>6, ProbeFacts
  <2>2. episode' = [episode EXCEPT !.waiters = episode'.waiters]
    BY <1>1, <1>6 DEF Episodes
  <2> QED BY <1>6, <2>1, <2>2, RecoveryFrame DEF RecoveryUntouched
<1> QED BY <1>5, <1>6

\* A failure that opens, extends or ends an episode.
LEMMA FailingKeepsRecovery ==
  ASSUME Inv, NEW s \in Sessions, stage[s] = "open", attempt[s] = "open",
         ~Recovering \/ MatchingProbe(s), UNCHANGED permit,
         stage' = NotifyAll(stage), attempt' = [attempt EXCEPT ![s] = "settled"],
         EpisodeInv', ~episode'.probing
  PROVE  RecoveryInv'
<1>1. stage \in [Sessions -> Stages] /\ attempt \in [Sessions -> AttemptStates]
  BY DEF Inv, TypeOK
<1>2. \A t \in Sessions : stage'[t] = IF stage[t] = "waiting" THEN "woken" ELSE stage[t]
  BY <1>1, NotifyAllProperties
<1>3. \A t \in Sessions : HoldsProbe(t) => t = s
  BY ProbeFacts
<1>4. \A t \in Sessions : HoldsProbe(t)' => FALSE
  BY <1>1, <1>2, <1>3 DEF HoldsProbe
<1>5. \A t \in Sessions : stage'[t] \notin {"waiting", "leading"}
  BY <1>2, ProbeFacts
<1> QED BY <1>4, <1>5, NobodyProbes

\* A failure from before the episode, which at most joins its waiters.
LEMMA StaleFailureKeepsRecovery ==
  ASSUME Inv, NEW s \in Sessions, stage[s] = "open", attempt[s] = "open",
         Recovering, ~MatchingProbe(s), UNCHANGED <<nextGen, permit>>,
         attempt' = [attempt EXCEPT ![s] = "settled"],
         stage' = NotifyAll(stage) \/ stage' = stage,
         episode' = [episode EXCEPT !.waiters = episode.waiters \cup {s}] \/ episode' = episode
  PROVE  RecoveryInv'
<1>1. /\ stage \in [Sessions -> Stages] /\ attempt \in [Sessions -> AttemptStates]
      /\ episode \in Episodes
  BY DEF Inv, TypeOK
<1>2. \A t \in Sessions : stage'[t] = stage[t] \/ (stage[t] = "waiting" /\ stage'[t] = "woken")
  BY <1>1, NotifyAllProperties
<1>3. \A t \in Sessions : HoldsProbe(t)' <=> HoldsProbe(t)
  BY <1>1, <1>2, ProbeFacts DEF HoldsProbe
<1>4. /\ episode' = [episode EXCEPT !.waiters = episode'.waiters]
      /\ episode.waiters \subseteq episode'.waiters
  BY <1>1 DEF Episodes
<1> QED BY <1>2, <1>3, <1>4, RecoveryFrame DEF RecoveryUntouched

\* Closing an attempt, which passes its permit on.
LEMMA ClosingKeepsRecovery ==
  ASSUME Inv, NEW s \in Sessions, NEW st, NEW slot,
         st \in [Sessions -> Stages], st[s] = "out", Release(slot, st),
         \A t \in Sessions : t # s => st[t] = stage[t],
         stage[s] \in {"open", "abandoning", "out"},
         UNCHANGED <<episode, nextGen, permit>>,
         \A t \in Sessions :
            attempt'[t] \in {"open", "abandoning"} <=> attempt[t] \in {"open", "abandoning"}
  PROVE  RecoveryInv'
<1>1. \A t \in Sessions :
         stage'[t] = st[t] \/ (stage'[t] = "granted" /\ stage[t] = "queued" /\ st[t] = "queued")
  <2>1. \A t \in Sessions : stage[t] = "queued" => st[t] = "queued"
    OBVIOUS
  <2> QED BY <2>1, ReleaseProperties
<1>2. \A t \in Sessions : HoldsProbe(t)' <=> HoldsProbe(t)
  BY <1>1 DEF HoldsProbe
<1>3. \A t \in Sessions : stage'[t] \in {"waiting", "leading"} => stage[t] = stage'[t]
  BY <1>1
<1>4. episode = [episode EXCEPT !.waiters = episode.waiters]
  BY DEF Inv, TypeOK, Episodes
<1> QED BY <1>2, <1>3, <1>4, RecoveryFrame DEF RecoveryUntouched

\* Every step keeps the recovery episode: one probe, a live leader, no lost
\* wake-up.
LEMMA RecoveryStep == Inv /\ [Next]_admissionVars => RecoveryInv'
<1> SUFFICES ASSUME Inv, [Next]_admissionVars PROVE RecoveryInv'
  OBVIOUS
<1>t. /\ stage \in [Sessions -> Stages]
      /\ attempt \in [Sessions -> AttemptStates]
      /\ permit \in [Sessions -> Permits]
      /\ episode \in Episodes
      /\ nextGen \in Nat /\ nextGen # 0
  BY DEF Inv, TypeOK
<1>r. /\ EpisodeInv /\ ProbeIsNeverStale /\ ProbeIsHeld /\ NoLostWakeup /\ SleeperLeads
  BY DEF Inv, RecoveryInv
<1>c. /\ \A t \in Sessions : stage[t] \in InsideOpen => attempt[t] = "none"
      /\ \A t \in Sessions : stage[t] = "abandoning" => attempt[t] \in {"abandoning", "settled"}
      /\ \A t \in Sessions : stage[t] = "open" => attempt[t] \in {"open", "accepted", "settled"}
  BY DEF Inv, ControlInv
<1>e. episode = [episode EXCEPT !.waiters = episode.waiters]
  BY <1>t DEF Episodes
<1>1. ASSUME NEW s \in Sessions, OpenAttempt(s) PROVE RecoveryInv'
  <2>1. /\ UNCHANGED <<episode, nextGen, permit>>
        /\ \A t \in Sessions : stage'[t] \in {"waiting", "leading"} => stage[t] = stage'[t]
    BY <1>1, <1>t DEF OpenAttempt, controller
  <2>2. \A t \in Sessions : HoldsProbe(t)' <=> HoldsProbe(t)
    BY <1>1, <1>t, <1>c, <2>1 DEF OpenAttempt, HoldsProbe, InsideOpen
  <2> QED BY <1>e, <2>1, <2>2, RecoveryFrame DEF RecoveryUntouched
<1>2. ASSUME NEW s \in Sessions, GateRefuses(s) PROVE RecoveryInv'
  <2>1. /\ UNCHANGED <<episode, nextGen, permit>>
        /\ \A t \in Sessions : stage'[t] \in {"waiting", "leading"} => stage[t] = stage'[t]
    BY <1>2, <1>t DEF GateRefuses, controller, AtGate
  <2>2. \A t \in Sessions : HoldsProbe(t)' <=> HoldsProbe(t)
    BY <1>2, <1>t, <1>c, <2>1 DEF GateRefuses, HoldsProbe, InsideOpen, AtGate
  <2> QED BY <1>e, <2>1, <2>2, RecoveryFrame DEF RecoveryUntouched
<1>3. ASSUME NEW s \in Sessions, GatePasses(s) PROVE RecoveryInv'
  <2>1. /\ UNCHANGED <<episode, nextGen, attempt>> /\ ~Recovering /\ stage[s] \in {"gate", "woken"}
        /\ permit' = [permit EXCEPT ![s] = NormalPermit]
        /\ stage' = [stage EXCEPT ![s] = "window"]
    BY <1>3 DEF GatePasses, AtGate, controller
  <2>2. EpisodeInv'
    BY <1>t, <1>r, <2>1 DEF EpisodeInv, Recovering, NormalPermit, NoEpisode
  <2>3. \A t \in Sessions : HoldsProbe(t)' => FALSE
    BY <1>t, <2>1, ProbeFacts DEF HoldsProbe, NormalPermit
  <2>4. \A t \in Sessions : stage'[t] \notin {"waiting", "leading"}
    BY <1>t, <2>1, ProbeFacts
  <2>5. ~episode'.probing
    BY <2>1, ProbeFacts DEF NoEpisode
  <2> QED BY <2>2, <2>3, <2>4, <2>5, NobodyProbes
<1>4. ASSUME NEW s \in Sessions, GateReopens(s) PROVE RecoveryInv'
  <2>1. /\ episode' = [gen |-> nextGen, leader |-> s, ready |-> TRUE, probing |-> TRUE,
                       cooldown |-> "none", waiters |-> {}]
        /\ permit' = [permit EXCEPT ![s] = [gen |-> nextGen, probe |-> TRUE]]
        /\ stage' = [stage EXCEPT ![s] = "window"]
        /\ nextGen' = nextGen + 1 /\ UNCHANGED attempt
        /\ episode.cooldown # "none" /\ stage[s] \in {"gate", "woken"}
    BY <1>4 DEF GateReopens, Lead, NewEpisode, AtGate
  <2>2. nextGen # 0
    BY DEF Inv, TypeOK
  <2>3. EpisodeInv'
    BY <1>t, <1>r, <2>1, <2>2 DEF EpisodeInv, Recovering, Permits, Generations
  <2>4. \A t \in Sessions : HoldsProbe(t)' => t = s
    BY <1>t, <2>1, ProbeFacts DEF HoldsProbe
  <2>5. permit'[s] = [gen |-> nextGen, probe |-> TRUE] /\ stage'[s] = "window"
    BY <1>t, <2>1
  <2>6. PermitIsCurrent(s)'
    BY <2>1, <2>2, <2>5 DEF PermitIsCurrent, MatchingProbe, Recovering
  <2>7. HoldsProbe(s)'
    BY <2>5 DEF HoldsProbe
  <2>8. ProbeIsNeverStale'
    BY <2>4, <2>6 DEF ProbeIsNeverStale, PermitIsCurrent, MatchingProbe, Recovering
  <2>9. ProbeIsHeld'
    <3>1. episode'.leader = s
      BY <2>1
    <3>2. HoldsProbe(episode.leader)'
      BY <2>7, <3>1 DEF HoldsProbe
    <3> QED BY <3>1, <3>2 DEF ProbeIsHeld
  <2>10. \A t \in Sessions : stage'[t] \notin {"waiting", "leading"}
    BY <1>t, <2>1, ProbeFacts
  <2> QED BY <2>3, <2>8, <2>9, <2>10 DEF RecoveryInv, NoLostWakeup, SleeperLeads
<1>5. ASSUME NEW s \in Sessions, GateLeads(s) PROVE RecoveryInv'
  <2> DEFINE ready == episode.ready
  <2>1. /\ episode' = [episode EXCEPT !.leader = s, !.waiters = @ \ {s}, !.probing = ready]
        /\ permit' = [permit EXCEPT ![s] = [gen |-> episode.gen, probe |-> ready]]
        /\ stage' = [stage EXCEPT ![s] = IF ready THEN "window" ELSE "leading"]
        /\ UNCHANGED <<nextGen, attempt>>
        /\ episode.cooldown = "none" /\ stage[s] \in {"gate", "woken"}
        /\ Recovering /\ episode.leader \in {NoSession, s} /\ ~episode.probing
    BY <1>5, <1>t DEF GateLeads, Lead, AtGate, Episodes
  <2>2. /\ episode'.gen = episode.gen /\ episode'.leader = s /\ episode'.probing = ready
        /\ episode'.cooldown = "none" /\ episode'.waiters = episode.waiters \ {s}
        /\ ready \in BOOLEAN
    BY <1>t, <2>1 DEF Episodes
  <2>3. /\ permit'[s] = [gen |-> episode.gen, probe |-> ready]
        /\ stage'[s] = IF ready THEN "window" ELSE "leading"
        /\ \A t \in Sessions : t # s => permit'[t] = permit[t] /\ stage'[t] = stage[t]
        /\ attempt' = attempt /\ attempt[s] = "none" /\ s # NoSession
    BY <1>t, <1>c, <2>1, AdmissionAssumption DEF InsideOpen
  <2> HIDE DEF ready
  <2>4. EpisodeInv'
    BY <1>t, <1>r, <2>1, <2>2, <2>3 DEF EpisodeInv, Recovering
  <2>5. \A t \in Sessions : HoldsProbe(t)' => t = s /\ ready
    BY <2>1, <2>3, ProbeFacts DEF HoldsProbe
  <2>6. ready => PermitIsCurrent(s)'
    BY <2>1, <2>2, <2>3 DEF PermitIsCurrent, MatchingProbe, Recovering
  <2>7. ready => HoldsProbe(s)'
    BY <2>3 DEF HoldsProbe
  <2>8. ProbeIsNeverStale'
    BY <2>5, <2>6 DEF ProbeIsNeverStale, PermitIsCurrent, MatchingProbe, Recovering
  <2>9. ProbeIsHeld'
    <3>1. ready => HoldsProbe(episode.leader)'
      BY <2>2, <2>7 DEF HoldsProbe
    <3> QED BY <2>2, <3>1 DEF ProbeIsHeld
  <2>10. NoLostWakeup'
    BY <1>r, <2>1, <2>2, <2>3 DEF NoLostWakeup, Recovering
  <2>11. SleeperLeads'
    BY <1>r, <2>1, <2>2, <2>3, AdmissionAssumption DEF SleeperLeads
  <2> QED BY <2>4, <2>8, <2>9, <2>10, <2>11 DEF RecoveryInv
<1>6. ASSUME NEW s \in Sessions, GateWaits(s) PROVE RecoveryInv'
  <2>1. /\ episode' = [episode EXCEPT !.waiters = episode.waiters \cup {s}]
        /\ stage' = [stage EXCEPT ![s] = "waiting"] /\ stage[s] \in {"gate", "woken"}
        /\ UNCHANGED <<nextGen, attempt, permit>>
        /\ episode.cooldown = "none" /\ episode.leader \notin {NoSession, s}
    BY <1>6 DEF GateWaits, AtGate
  <2>2. /\ episode'.gen = episode.gen /\ episode'.leader = episode.leader
        /\ episode'.probing = episode.probing /\ episode'.cooldown = episode.cooldown
        /\ episode'.waiters = episode.waiters \cup {s}
    BY <1>t, <2>1 DEF Episodes
  <2>3. Recovering
    BY <2>1, ProbeFacts DEF NoEpisode
  <2>4. /\ stage'[s] = "waiting" /\ attempt[s] = "none"
        /\ \A t \in Sessions : t # s => stage'[t] = stage[t]
    BY <1>t, <1>c, <2>1 DEF InsideOpen
  <2>5. \A t \in Sessions : HoldsProbe(t)' <=> HoldsProbe(t)
    BY <2>1, <2>4 DEF HoldsProbe
  <2>6. EpisodeInv'
    BY <1>r, <2>1, <2>2, <2>3 DEF EpisodeInv, Recovering
  <2>7. ProbeIsNeverStale'
    <3>1. \A t \in Sessions : PermitIsCurrent(t)' <=> PermitIsCurrent(t)
      BY <2>1, <2>2 DEF PermitIsCurrent, MatchingProbe, Recovering
    <3> QED BY <1>r, <2>5, <3>1 DEF ProbeIsNeverStale
  <2>8. ProbeIsHeld'
    <3>1. ASSUME episode'.probing
          PROVE  \E t \in Sessions : t = episode'.leader /\ HoldsProbe(t)'
      <4>1. PICK t \in Sessions : t = episode.leader /\ HoldsProbe(t)
        BY <1>r, <2>2, <3>1 DEF ProbeIsHeld
      <4> QED BY <2>2, <2>5, <4>1
    <3> QED BY <3>1 DEF ProbeIsHeld, HoldsProbe
  <2>9. NoLostWakeup'
    BY <1>r, <2>1, <2>2, <2>3, <2>4 DEF NoLostWakeup, Recovering
  <2>10. SleeperLeads'
    BY <1>r, <2>1, <2>2, <2>4 DEF SleeperLeads
  <2> QED BY <2>6, <2>7, <2>8, <2>9, <2>10 DEF RecoveryInv
<1>7. ASSUME NEW s \in Sessions, LeaderWakes(s) PROVE RecoveryInv'
  <2>1. /\ episode.gen = permit[s].gen /\ episode.cooldown = "none"
        /\ episode.leader = s /\ ~episode.probing /\ stage[s] = "leading"
    BY <1>7, <1>r DEF LeaderWakes, SleeperLeads
  <2>2. /\ episode' = [episode EXCEPT !.probing = TRUE]
        /\ permit' = [permit EXCEPT ![s].probe = TRUE]
        /\ stage' = [stage EXCEPT ![s] = "window"]
        /\ UNCHANGED <<nextGen, attempt>>
    BY <1>7, <2>1 DEF LeaderWakes
  <2>3. Recovering
    BY <2>1, ProbeFacts
  <2>4. /\ episode'.gen = episode.gen /\ episode'.leader = s /\ episode'.probing = TRUE
        /\ episode'.cooldown = "none" /\ episode'.waiters = episode.waiters
    BY <1>t, <2>1, <2>2 DEF Episodes
  <2>5. /\ permit'[s].gen = episode.gen /\ permit'[s].probe = TRUE /\ stage'[s] = "window"
        /\ \A t \in Sessions : t # s => permit'[t] = permit[t] /\ stage'[t] = stage[t]
    BY <1>t, <2>1, <2>2 DEF Permits
  <2>6. EpisodeInv'
    BY <1>r, <2>1, <2>2, <2>3, <2>4, <2>5 DEF EpisodeInv, Recovering
  <2>7. \A t \in Sessions : HoldsProbe(t)' => t = s
    BY <2>1, <2>2, <2>5, ProbeFacts DEF HoldsProbe
  <2>8. PermitIsCurrent(s)' /\ HoldsProbe(s)'
    BY <2>3, <2>4, <2>5 DEF PermitIsCurrent, MatchingProbe, Recovering, HoldsProbe
  <2>9. ProbeIsNeverStale'
    BY <2>7, <2>8 DEF ProbeIsNeverStale, PermitIsCurrent, MatchingProbe, Recovering
  <2>10. ProbeIsHeld'
    <3>1. HoldsProbe(episode.leader)'
      BY <2>4, <2>8 DEF HoldsProbe
    <3> QED BY <2>4, <3>1 DEF ProbeIsHeld
  <2>11. NoLostWakeup'
    BY <1>r, <2>1, <2>3, <2>4, <2>5 DEF NoLostWakeup, Recovering
  <2>12. SleeperLeads'
    BY <1>r, <2>1, <2>5 DEF SleeperLeads
  <2> QED BY <2>6, <2>9, <2>10, <2>11, <2>12 DEF RecoveryInv
<1>8. ASSUME NEW s \in Sessions, WindowRejects(s) PROVE RecoveryInv'
  <2> DEFINE st == StagesAfterVacating(s, [stage EXCEPT ![s] = "gate"])
  <2>1. /\ episode' = EpisodeWithoutProbe(s) /\ stage' = st
        /\ UNCHANGED <<nextGen, permit, attempt>> /\ stage[s] \in {"window", "queued"}
    BY <1>8 DEF WindowRejects
  <2> QED BY <2>1, LeavingKeepsRecovery
<1>9. ASSUME NEW s \in Sessions, WindowAdmits(s) PROVE RecoveryInv'
  <2>1. /\ UNCHANGED <<episode, nextGen, permit>>
        /\ \A t \in Sessions : stage'[t] \in {"waiting", "leading"} => stage[t] = stage'[t]
    BY <1>9, <1>t DEF WindowAdmits, controller, Claim
  <2>2. \A t \in Sessions : HoldsProbe(t)' <=> HoldsProbe(t)
    BY <1>9, <1>t, <1>c, <2>1 DEF WindowAdmits, HoldsProbe, InsideOpen, Claim
  <2> QED BY <1>e, <2>1, <2>2, RecoveryFrame DEF RecoveryUntouched
<1>10. ASSUME NEW s \in Sessions, WindowQueues(s) PROVE RecoveryInv'
  <2>1. /\ UNCHANGED <<episode, nextGen, permit>>
        /\ \A t \in Sessions : stage'[t] \in {"waiting", "leading"} => stage[t] = stage'[t]
    BY <1>10, <1>t DEF WindowQueues, controller
  <2>2. \A t \in Sessions : HoldsProbe(t)' <=> HoldsProbe(t)
    BY <1>10, <1>t, <1>c, <2>1 DEF WindowQueues, HoldsProbe, InsideOpen
  <2> QED BY <1>e, <2>1, <2>2, RecoveryFrame DEF RecoveryUntouched
<1>11. ASSUME NEW s \in Sessions, SlotAdmits(s) PROVE RecoveryInv'
  <2>1. /\ UNCHANGED <<episode, nextGen, permit>>
        /\ \A t \in Sessions : stage'[t] \in {"waiting", "leading"} => stage[t] = stage'[t]
    BY <1>11, <1>t DEF SlotAdmits, controller, Claim
  <2>2. \A t \in Sessions : HoldsProbe(t)' <=> HoldsProbe(t)
    BY <1>11, <1>t, <1>c, <2>1 DEF SlotAdmits, HoldsProbe, InsideOpen, Claim
  <2> QED BY <1>e, <2>1, <2>2, RecoveryFrame DEF RecoveryUntouched
<1>12. ASSUME NEW s \in Sessions, SlotRejects(s) PROVE RecoveryInv'
  <2> DEFINE left == [stage EXCEPT ![s] = "gate"]
             st == StagesAfterVacating(s, left)
  <2>1. /\ episode' = EpisodeWithoutProbe(s) /\ Release(<<s, started[s] + 1>>, st)
        /\ UNCHANGED <<nextGen, permit, attempt>> /\ stage[s] = "granted"
    BY <1>12 DEF SlotRejects
  <2>2. /\ left \in [Sessions -> Stages]
        /\ \A t \in Sessions : stage[t] = "queued" => left[t] = "queued"
    BY <1>t, <2>1 DEF Stages
  <2>3. \A t \in Sessions :
           stage'[t] = st[t] \/ (stage'[t] = "granted" /\ stage[t] = "queued" /\ st[t] = "queued")
    <3> HIDE DEF left
    <3>1. st \in [Sessions -> Stages] /\ \A t \in Sessions : stage[t] = "queued" => st[t] = "queued"
      BY <2>2, VacatingProperties
    <3> HIDE DEF st
    <3> QED BY <2>1, <3>1, ReleaseProperties
  <2> QED BY <2>1, <2>3, LeavingKeepsRecovery
<1>13. ASSUME NEW s \in Sessions, CancelWaiter(s) PROVE RecoveryInv'
  <2>1. /\ episode' = [episode EXCEPT !.waiters = episode.waiters \ {s}]
        /\ stage' = [stage EXCEPT ![s] = "out"] /\ stage[s] \in {"waiting", "woken"}
        /\ UNCHANGED <<nextGen, attempt, permit>>
    BY <1>13 DEF CancelWaiter
  <2>2. episode'.waiters = episode.waiters \ {s}
    BY <1>t, <2>1 DEF Episodes
  <2>3. ~Recovering => episode' = episode
    BY <1>t, <2>1, ProbeFacts DEF NoEpisode
  <2>4. \A t \in Sessions : HoldsProbe(t)' <=> HoldsProbe(t)
    BY <1>t, <1>c, <2>1 DEF HoldsProbe, InsideOpen
  <2> QED BY <1>t, <2>1, <2>2, <2>3, <2>4, RecoveryFrame DEF RecoveryUntouched
<1>14. ASSUME NEW s \in Sessions, CancelLeader(s) PROVE RecoveryInv'
  <2> DEFINE left == [stage EXCEPT ![s] = "out"]
  <2>1. /\ episode.gen = permit[s].gen /\ episode.cooldown = "none"
        /\ episode.leader = s /\ ~episode.probing /\ stage[s] = "leading"
    BY <1>14, <1>r DEF CancelLeader, SleeperLeads
  <2>2. /\ episode' = [episode EXCEPT !.leader = NoSession] /\ stage' = NotifyAll(left)
        /\ UNCHANGED <<nextGen, attempt, permit>>
    BY <1>14, <2>1 DEF CancelLeader
  <2>3. /\ episode'.gen = episode.gen /\ episode'.leader = NoSession
        /\ ~episode'.probing /\ episode'.cooldown = "none"
    BY <1>t, <2>1, <2>2 DEF Episodes
  <2>4. /\ left \in [Sessions -> Stages] /\ left[s] = "out"
        /\ \A t \in Sessions : t # s => left[t] = stage[t]
    BY <1>t DEF Stages
  <2> HIDE DEF left
  <2>5. \A t \in Sessions : stage'[t] = IF left[t] = "waiting" THEN "woken" ELSE left[t]
    BY <2>2, <2>4, NotifyAllProperties
  <2>6. \A t \in Sessions : stage'[t] \notin {"waiting", "leading"}
    BY <1>r, <2>1, <2>4, <2>5 DEF SleeperLeads
  <2>7. \A t \in Sessions : HoldsProbe(t)' => FALSE
    BY <1>c, <2>1, <2>2, <2>4, <2>5, ProbeFacts DEF HoldsProbe, InsideOpen
  <2>8. EpisodeInv'
    BY <1>r, <2>1, <2>2, <2>3, ProbeFacts DEF EpisodeInv, Recovering
  <2> QED BY <2>3, <2>6, <2>7, <2>8, NobodyProbes
<1>15. ASSUME NEW s \in Sessions, CancelInWindow(s) PROVE RecoveryInv'
  <2> DEFINE st == StagesAfterVacating(s, [stage EXCEPT ![s] = "out"])
  <2>1. /\ episode' = EpisodeWithoutProbe(s) /\ stage' = st
        /\ UNCHANGED <<nextGen, permit, attempt>> /\ stage[s] \in {"window", "queued"}
    BY <1>15 DEF CancelInWindow
  <2> QED BY <2>1, LeavingKeepsRecovery
<1>16. ASSUME NEW s \in Sessions, CancelQueued(s) PROVE RecoveryInv'
  <2> DEFINE st == StagesAfterVacating(s, [stage EXCEPT ![s] = "out"])
  <2>1. /\ episode' = EpisodeWithoutProbe(s) /\ stage' = st
        /\ UNCHANGED <<nextGen, permit, attempt>> /\ stage[s] \in {"window", "queued"}
    BY <1>16 DEF CancelQueued
  <2> QED BY <2>1, LeavingKeepsRecovery
<1>17. ASSUME NEW s \in Sessions, CancelGranted(s) PROVE RecoveryInv'
  <2> DEFINE left == [stage EXCEPT ![s] = "out"]
             st == StagesAfterVacating(s, left)
  <2>1. /\ episode' = EpisodeWithoutProbe(s) /\ Release(<<s, started[s] + 1>>, st)
        /\ UNCHANGED <<nextGen, permit, attempt>> /\ stage[s] = "granted"
    BY <1>17 DEF CancelGranted
  <2>2. /\ left \in [Sessions -> Stages]
        /\ \A t \in Sessions : stage[t] = "queued" => left[t] = "queued"
    BY <1>t, <2>1 DEF Stages
  <2>3. \A t \in Sessions :
           stage'[t] = st[t] \/ (stage'[t] = "granted" /\ stage[t] = "queued" /\ st[t] = "queued")
    <3> HIDE DEF left
    <3>1. st \in [Sessions -> Stages] /\ \A t \in Sessions : stage[t] = "queued" => st[t] = "queued"
      BY <2>2, VacatingProperties
    <3> HIDE DEF st
    <3> QED BY <2>1, <3>1, ReleaseProperties
  <2> QED BY <2>1, <2>3, LeavingKeepsRecovery
<1>18. ASSUME NEW s \in Sessions, Succeeded(s) PROVE RecoveryInv'
  <2>1. /\ stage[s] = "open" /\ attempt[s] = "open" /\ UNCHANGED <<nextGen, permit>>
        /\ attempt'[s] \in {"accepted", "settled"}
        /\ \A t \in Sessions : t # s => attempt'[t] = attempt[t]
        /\ MatchingProbe(s) => episode' = NoEpisode /\ stage' = NotifyAll(stage)
        /\ ~MatchingProbe(s) => episode' = episode /\ stage' = stage
    BY <1>18, <1>t DEF Succeeded, Resolve, CloseEpisode
  <2>2. MatchingProbe(s) => EpisodeInv' /\ ~episode'.probing
    BY <1>t, <1>r, <2>1 DEF EpisodeInv, Recovering, MatchingProbe, NoEpisode
  <2> QED BY <2>1, <2>2, ResolvingKeepsRecovery
<1>19. ASSUME NEW s \in Sessions, Rejected(s) PROVE RecoveryInv'
  <2>1. /\ stage[s] = "open" /\ attempt[s] = "open" /\ UNCHANGED <<nextGen, permit>>
        /\ attempt'[s] \in {"accepted", "settled"}
        /\ \A t \in Sessions : t # s => attempt'[t] = attempt[t]
        /\ MatchingProbe(s) => episode' = NoEpisode /\ stage' = NotifyAll(stage)
        /\ ~MatchingProbe(s) => episode' = episode /\ stage' = stage
    BY <1>19, <1>t DEF Rejected, Resolve, CloseEpisode
  <2>2. MatchingProbe(s) => EpisodeInv' /\ ~episode'.probing
    BY <1>t, <1>r, <2>1 DEF EpisodeInv, Recovering, MatchingProbe, NoEpisode
  <2> QED BY <2>1, <2>2, ResolvingKeepsRecovery
<1>20. ASSUME NEW s \in Sessions, Corrected(s) PROVE RecoveryInv'
  <2>1. /\ stage[s] = "open" /\ attempt[s] = "open" /\ UNCHANGED <<nextGen, permit>>
        /\ attempt'[s] \in {"accepted", "settled"}
        /\ \A t \in Sessions : t # s => attempt'[t] = attempt[t]
        /\ MatchingProbe(s) => episode' = [episode EXCEPT !.probing = FALSE, !.ready = TRUE] /\ stage' = NotifyAll(stage)
        /\ ~MatchingProbe(s) => episode' = episode /\ stage' = stage
    BY <1>20, <1>t DEF Corrected, Resolve
  <2>2. MatchingProbe(s) => EpisodeInv' /\ ~episode'.probing
    BY <1>t, <1>r, <2>1 DEF EpisodeInv, Recovering, MatchingProbe, Episodes
  <2> QED BY <2>1, <2>2, ResolvingKeepsRecovery
<1>21. ASSUME NEW s \in Sessions, FailOpensEpisode(s) PROVE RecoveryInv'
  <2>1. /\ stage[s] = "open" /\ attempt[s] = "open" /\ UNCHANGED permit
        /\ stage' = NotifyAll(stage) /\ (~Recovering \/ MatchingProbe(s))
        /\ attempt' = [attempt EXCEPT ![s] = "settled"]
    BY <1>21 DEF FailOpensEpisode
  <2>2. EpisodeInv' /\ ~episode'.probing
    <3>1. /\ episode' = [gen |-> nextGen, leader |-> s, ready |-> FALSE, probing |-> FALSE,
                          cooldown |-> "none", waiters |-> {}]
          /\ nextGen' = nextGen + 1
      BY <1>21 DEF FailOpensEpisode, NewEpisode
    <3> QED BY <1>t, <1>r, <2>1, <3>1 DEF EpisodeInv, Recovering, Permits, Generations
  <2> QED BY <2>1, <2>2, FailingKeepsRecovery
<1>22. ASSUME NEW s \in Sessions, FailRearmsProbe(s) PROVE RecoveryInv'
  <2>1. /\ stage[s] = "open" /\ attempt[s] = "open" /\ UNCHANGED permit
        /\ stage' = NotifyAll(stage) /\ (~Recovering \/ MatchingProbe(s))
        /\ attempt' = [attempt EXCEPT ![s] = "settled"]
    BY <1>22 DEF FailRearmsProbe, Resolve
  <2>2. EpisodeInv' /\ ~episode'.probing
    <3>1. /\ episode' = [episode EXCEPT !.probing = FALSE, !.ready = FALSE]
          /\ nextGen' = nextGen /\ MatchingProbe(s)
      BY <1>22 DEF FailRearmsProbe, Resolve
    <3> QED BY <1>t, <1>r, <2>1, <3>1 DEF EpisodeInv, Recovering, MatchingProbe, Episodes
  <2> QED BY <2>1, <2>2, FailingKeepsRecovery
<1>23. ASSUME NEW s \in Sessions, FailKeepsOutcome(s) PROVE RecoveryInv'
  BY <1>23, StaleFailureKeepsRecovery DEF FailKeepsOutcome, Resolve
<1>24. ASSUME NEW s \in Sessions, FailCoalesces(s) PROVE RecoveryInv'
  BY <1>24, StaleFailureKeepsRecovery DEF FailCoalesces, Resolve
<1>25. ASSUME NEW s \in Sessions, NEW q \in BOOLEAN, FailExhausts(s, q) PROVE RecoveryInv'
  <2>1. /\ stage[s] = "open" /\ attempt[s] = "open" /\ UNCHANGED permit
        /\ stage' = NotifyAll(stage) /\ (~Recovering \/ MatchingProbe(s))
        /\ attempt' = [attempt EXCEPT ![s] = "settled"]
    BY <1>25 DEF FailExhausts
  <2>2. EpisodeInv' /\ ~episode'.probing
    <3>1. CASE Recovering
      <4>1. /\ episode' = [episode EXCEPT !.leader = NoSession, !.probing = FALSE,
                                          !.cooldown = "active", !.waiters = {}]
            /\ nextGen' = nextGen
        BY <1>25, <3>1 DEF FailExhausts
      <4> QED BY <1>t, <1>r, <2>1, <3>1, <4>1 DEF EpisodeInv, Recovering, Episodes
    <3>2. CASE ~Recovering
      <4>1. /\ episode' = [gen |-> nextGen, leader |-> NoSession, ready |-> TRUE, probing |-> FALSE,
                            cooldown |-> "active", waiters |-> {}]
            /\ nextGen' = nextGen + 1
        BY <1>25, <3>2 DEF FailExhausts, NewEpisode
      <4> QED BY <1>t, <1>r, <2>1, <4>1 DEF EpisodeInv, Recovering, Permits, Generations
    <3> QED BY <3>1, <3>2
  <2> QED BY <2>1, <2>2, FailingKeepsRecovery
<1>26. ASSUME NEW s \in Sessions, NEW q \in BOOLEAN, FailIgnored(s, q) PROVE RecoveryInv'
  BY <1>26, StaleFailureKeepsRecovery DEF FailIgnored, Resolve
<1>27. ASSUME NEW s \in Sessions, CloseResolved(s) PROVE RecoveryInv'
  <2> DEFINE st == [stage EXCEPT ![s] = "out"]
  <2>1. /\ UNCHANGED <<episode, nextGen, permit>> /\ Release(<<s, started[s]>>, st)
        /\ \A t \in Sessions :
              attempt'[t] \in {"open", "abandoning"} <=> attempt[t] \in {"open", "abandoning"}
        /\ stage[s] \in {"open", "abandoning", "out"}
    BY <1>27, <1>t, <1>c DEF CloseResolved
  <2>2. /\ st \in [Sessions -> Stages] /\ st[s] = "out"
        /\ \A t \in Sessions : t # s => st[t] = stage[t]
    BY <1>27, <1>t DEF Stages, CloseResolved
  <2> HIDE DEF st
  <2> QED BY <2>1, <2>2, ClosingKeepsRecovery
<1>28. ASSUME NEW s \in Sessions, CloseUnresolved(s) PROVE RecoveryInv'
  <2>1. /\ UNCHANGED <<episode, nextGen, permit>>
        /\ \A t \in Sessions : stage'[t] \in {"waiting", "leading"} => stage[t] = stage'[t]
    BY <1>28, <1>t DEF CloseUnresolved, controller
  <2>2. \A t \in Sessions : HoldsProbe(t)' <=> HoldsProbe(t)
    BY <1>28, <1>t, <1>c, <2>1 DEF CloseUnresolved, HoldsProbe, InsideOpen
  <2> QED BY <1>e, <2>1, <2>2, RecoveryFrame DEF RecoveryUntouched
<1>29. ASSUME NEW s \in Sessions, AbandonmentRuns(s) PROVE RecoveryInv'
  <2>1. /\ episode' = EpisodeWithoutProbe(s) /\ stage' = StagesAfterVacating(s, stage)
        /\ UNCHANGED <<nextGen, permit>> /\ attempt[s] = "abandoning"
        /\ attempt' = [attempt EXCEPT ![s] = IF stage[s] = "abandoning" THEN "settled" ELSE "none"]
    BY <1>29 DEF AbandonmentRuns
  <2>2. /\ \A t \in Sessions : stage'[t] = stage[t] \/ (stage[t] = "waiting" /\ stage'[t] = "woken")
        /\ MatchingProbe(s) => \A t \in Sessions : stage'[t] # "waiting"
    BY <1>t, <2>1, VacatingProperties, NotifyAllProperties DEF StagesAfterVacating
  <2>3. stage[s] \notin InsideOpen
    BY <1>c, <2>1
  <2>4. /\ attempt'[s] \in {"settled", "none"}
        /\ \A t \in Sessions : t # s => attempt'[t] = attempt[t]
    BY <1>t, <2>1
  <2>5. HoldsProbe(s)' => FALSE
    BY <2>1, <2>2, <2>3, <2>4 DEF HoldsProbe, InsideOpen
  <2>6. \A t \in Sessions : t # s => (HoldsProbe(t)' <=> HoldsProbe(t))
    BY <2>1, <2>2, <2>4 DEF HoldsProbe
  <2>7. \A t \in Sessions :
           /\ stage'[t] = "waiting" => stage[t] = "waiting" /\ ~MatchingProbe(s)
           /\ stage'[t] = "leading" => stage[t] = "leading"
    BY <2>1, <2>2
  <2> QED BY <2>1, <2>5, <2>6, <2>7, VacatingKeepsRecovery
<1>30. ASSUME NEW s \in Sessions, FinishAbandoning(s) PROVE RecoveryInv'
  <2> DEFINE st == [stage EXCEPT ![s] = "out"]
  <2>1. /\ UNCHANGED <<episode, nextGen, permit>> /\ Release(<<s, started[s]>>, st)
        /\ \A t \in Sessions :
              attempt'[t] \in {"open", "abandoning"} <=> attempt[t] \in {"open", "abandoning"}
        /\ stage[s] \in {"open", "abandoning", "out"}
    BY <1>30, <1>t, <1>c DEF FinishAbandoning
  <2>2. /\ st \in [Sessions -> Stages] /\ st[s] = "out"
        /\ \A t \in Sessions : t # s => st[t] = stage[t]
    BY <1>30, <1>t DEF Stages, FinishAbandoning
  <2> HIDE DEF st
  <2> QED BY <2>1, <2>2, ClosingKeepsRecovery
<1>31. ASSUME NEW s \in Sessions, KeepOpen(s) PROVE RecoveryInv'
  <2>1. /\ UNCHANGED <<episode, nextGen, permit>>
        /\ \A t \in Sessions : stage'[t] \in {"waiting", "leading"} => stage[t] = stage'[t]
    BY <1>31, <1>t DEF KeepOpen, controller
  <2>2. \A t \in Sessions : HoldsProbe(t)' <=> HoldsProbe(t)
    BY <1>31, <1>t, <1>c, <2>1 DEF KeepOpen, HoldsProbe, InsideOpen
  <2> QED BY <1>e, <2>1, <2>2, RecoveryFrame DEF RecoveryUntouched
<1>32. ASSUME NEW s \in Sessions, NEW n \in 1..MaxAttempts, CloseKept(s, n) PROVE RecoveryInv'
  <2> DEFINE st == stage
  <2>1. /\ UNCHANGED <<episode, nextGen, permit>> /\ Release(<<s, n>>, st)
        /\ \A t \in Sessions :
              attempt'[t] \in {"open", "abandoning"} <=> attempt[t] \in {"open", "abandoning"}
        /\ stage[s] \in {"open", "abandoning", "out"}
    BY <1>32, <1>t, <1>c DEF CloseKept
  <2>2. /\ st \in [Sessions -> Stages] /\ st[s] = "out"
        /\ \A t \in Sessions : t # s => st[t] = stage[t]
    BY <1>32, <1>t DEF Stages, CloseKept
  <2> HIDE DEF st
  <2> QED BY <2>1, <2>2, ClosingKeepsRecovery
<1>33. ASSUME NEW s \in Sessions, Drop(s) PROVE RecoveryInv'
  <2>1. /\ UNCHANGED <<episode, nextGen, permit>>
        /\ \A t \in Sessions : stage'[t] \in {"waiting", "leading"} => stage[t] = stage'[t]
    BY <1>33, <1>t DEF Drop, controller
  <2>2. \A t \in Sessions : HoldsProbe(t)' <=> HoldsProbe(t)
    BY <1>33, <1>t, <1>c, <2>1 DEF Drop, HoldsProbe, InsideOpen
  <2> QED BY <1>e, <2>1, <2>2, RecoveryFrame DEF RecoveryUntouched
<1>34. ASSUME BackoffElapses PROVE RecoveryInv'
  <2>1. /\ episode' = [episode EXCEPT !.ready = TRUE] /\ Recovering
        /\ UNCHANGED <<nextGen, stage, permit, attempt>>
    BY <1>34 DEF BackoffElapses
  <2>2. /\ episode'.gen = episode.gen /\ episode'.leader = episode.leader
        /\ episode'.probing = episode.probing /\ episode'.cooldown = episode.cooldown
        /\ episode'.waiters = episode.waiters
    BY <1>t, <2>1 DEF Episodes
  <2>3. EpisodeInv'
    BY <1>r, <2>1, <2>2 DEF EpisodeInv, Recovering
  <2>4. ProbeIsNeverStale' /\ ProbeIsHeld'
    BY <1>r, <2>1, <2>2
       DEF ProbeIsNeverStale, ProbeIsHeld, HoldsProbe, PermitIsCurrent, MatchingProbe,
           Recovering
  <2>5. NoLostWakeup' /\ SleeperLeads'
    BY <1>r, <2>1, <2>2 DEF NoLostWakeup, SleeperLeads, Recovering
  <2> QED BY <2>3, <2>4, <2>5 DEF RecoveryInv
<1>35. ASSUME CooldownElapses PROVE RecoveryInv'
  <2>1. /\ episode' = [episode EXCEPT !.cooldown = "expired"] /\ episode.cooldown = "active"
        /\ UNCHANGED <<nextGen, stage, permit, attempt>>
    BY <1>35 DEF CooldownElapses
  <2>2. ~episode.probing /\ episode.leader = NoSession /\ Recovering
    BY <1>r, <2>1, ProbeFacts DEF EpisodeInv, NoEpisode
  <2>3. /\ episode'.gen = episode.gen /\ episode'.leader = NoSession /\ ~episode'.probing
    BY <1>t, <2>1, <2>2 DEF Episodes
  <2>4. EpisodeInv'
    BY <1>r, <2>1, <2>2, <2>3 DEF EpisodeInv, Recovering
  <2>5. \A t \in Sessions : HoldsProbe(t)' => FALSE
    BY <2>1, <2>2, ProbeFacts DEF HoldsProbe
  <2>6. \A t \in Sessions : stage'[t] \notin {"waiting", "leading"}
    BY <2>1, ProbeFacts
  <2> QED BY <2>3, <2>4, <2>5, <2>6, NobodyProbes
<1>36. ASSUME UNCHANGED admissionVars PROVE RecoveryInv'
  <2>1. UNCHANGED <<episode, nextGen, permit, stage, attempt>>
    BY <1>36 DEF admissionVars
  <2>2. \A t \in Sessions : HoldsProbe(t)' <=> HoldsProbe(t)
    BY <2>1 DEF HoldsProbe
  <2> QED BY <1>e, <2>1, <2>2, RecoveryFrame DEF RecoveryUntouched
<1> QED
  BY <1>1, <1>2, <1>3, <1>4, <1>5, <1>6, <1>7, <1>8, <1>9, <1>10, <1>11, <1>12, <1>13,
     <1>14, <1>15, <1>16, <1>17, <1>18, <1>19, <1>20, <1>21, <1>22, <1>23, <1>24, <1>25,
     <1>26, <1>27, <1>28, <1>29, <1>30, <1>31, <1>32, <1>33, <1>34, <1>35, <1>36
  DEF Next, Admit, Use, CancelOpenAttempt, Failed

------------------------------------------------------------------------------
(* Shared outcomes                                                          *)

\* A step that lets nobody through the gate and gives nobody a new outcome.
OutcomeUntouched ==
    \A t \in Sessions :
        /\ doomed'[t] \/ t \in episode'.waiters => doomed[t] \/ t \in episode.waiters
        /\ stage'[t] \in {"leading", "window", "queued", "granted"} =>
              stage[t] \in {"leading", "window", "queued", "granted"}

\* Whoever shares a terminal outcome, or is coalesced and may come to share it,
\* stays before the gate.
LEMMA OutcomeStep == Inv /\ [Next]_admissionVars => OutcomeInv'
<1> SUFFICES ASSUME Inv, [Next]_admissionVars PROVE OutcomeInv'
  OBVIOUS
<1>t. /\ stage \in [Sessions -> Stages]
      /\ doomed \in [Sessions -> BOOLEAN]
      /\ episode \in Episodes
  BY DEF Inv, TypeOK
<1>o. OutcomeInv
  BY DEF Inv
<1>f. OutcomeUntouched => OutcomeInv'
  BY <1>o DEF OutcomeInv, OutcomeUntouched
<1>1. ASSUME NEW s \in Sessions, OpenAttempt(s) PROVE OutcomeInv'
  BY <1>1, <1>t, <1>f DEF OutcomeUntouched, controller, OpenAttempt
<1>2. ASSUME NEW s \in Sessions, GateRefuses(s) PROVE OutcomeInv'
  BY <1>2, <1>t, <1>f DEF OutcomeUntouched, controller, GateRefuses
<1>3. ASSUME NEW s \in Sessions, GatePasses(s) PROVE OutcomeInv'
  <2>1. episode.waiters = {} /\ UNCHANGED <<episode, doomed>> /\ ~doomed[s]
        /\ stage' = [stage EXCEPT ![s] = "window"]
    BY <1>3, ProbeFacts DEF GatePasses, controller, NoEpisode
  <2> QED BY <1>t, <1>o, <2>1 DEF OutcomeInv
<1>4. ASSUME NEW s \in Sessions, GateReopens(s) PROVE OutcomeInv'
  BY <1>4, <1>t, <1>o DEF GateReopens, OutcomeInv, Lead, NewEpisode
<1>5. ASSUME NEW s \in Sessions, GateLeads(s) PROVE OutcomeInv'
  BY <1>5, <1>t, <1>o DEF GateLeads, OutcomeInv, Lead, Episodes
<1>6. ASSUME NEW s \in Sessions, GateWaits(s) PROVE OutcomeInv'
  BY <1>6, <1>t, <1>o DEF GateWaits, OutcomeInv, Episodes
<1>7. ASSUME NEW s \in Sessions, LeaderWakes(s) PROVE OutcomeInv'
  BY <1>7, <1>t, <1>f DEF OutcomeUntouched, controller, LeaderWakes, Episodes
<1>8. ASSUME NEW s \in Sessions, WindowRejects(s) PROVE OutcomeInv'
  <2> DEFINE left == [stage EXCEPT ![s] = "gate"]
  <2>1. /\ left \in [Sessions -> Stages] /\ left[s] = "gate"
        /\ \A t \in Sessions : t # s => left[t] = stage[t]
    BY <1>t DEF Stages
  <2>2. stage' = StagesAfterVacating(s, left) /\ UNCHANGED doomed
    BY <1>8 DEF WindowRejects
  <2>3. episode'.waiters = episode.waiters
    BY <1>8, <1>t DEF WindowRejects, EpisodeWithoutProbe, Episodes
  <2> HIDE DEF left
  <2> QED BY <1>f, <2>1, <2>2, <2>3, VacatingProperties DEF OutcomeUntouched
<1>9. ASSUME NEW s \in Sessions, WindowAdmits(s) PROVE OutcomeInv'
  BY <1>9, <1>t, <1>f DEF OutcomeUntouched, controller, WindowAdmits, Claim
<1>10. ASSUME NEW s \in Sessions, WindowQueues(s) PROVE OutcomeInv'
  BY <1>10, <1>t, <1>f DEF OutcomeUntouched, controller, WindowQueues
<1>11. ASSUME NEW s \in Sessions, SlotAdmits(s) PROVE OutcomeInv'
  BY <1>11, <1>t, <1>f DEF OutcomeUntouched, controller, SlotAdmits, Claim
<1>12. ASSUME NEW s \in Sessions, SlotRejects(s) PROVE OutcomeInv'
  <2> DEFINE left == [stage EXCEPT ![s] = "gate"]
             st == StagesAfterVacating(s, left)
  <2>1. /\ UNCHANGED doomed /\ Release(<<s, started[s] + 1>>, st)
        /\ episode' = EpisodeWithoutProbe(s) /\ stage[s] # "queued"
    BY <1>12 DEF SlotRejects
  <2>2. /\ left \in [Sessions -> Stages] /\ left[s] \in {"gate", "out"}
        /\ \A t \in Sessions : t # s => left[t] = stage[t]
    BY <1>t, <1>12 DEF SlotRejects, Stages
  <2> HIDE DEF left
  <2>3. /\ st \in [Sessions -> Stages]
        /\ \A t \in Sessions : st[t] = left[t] \/ (left[t] = "waiting" /\ st[t] = "woken")
    BY <2>2, VacatingProperties
  <2> HIDE DEF st
  <2>4. \A t \in Sessions :
           stage'[t] = st[t] \/ (stage'[t] = "granted" /\ stage[t] = "queued" /\ st[t] = "queued")
    <3>1. \A t \in Sessions : stage[t] = "queued" => st[t] = "queued"
      BY <2>1, <2>2, <2>3
    <3> QED BY <2>1, <2>3, <3>1, ReleaseProperties
  <2>5. episode'.waiters = episode.waiters
    BY <1>t, <2>1 DEF EpisodeWithoutProbe, Episodes
  <2> QED BY <1>f, <2>1, <2>2, <2>3, <2>4, <2>5 DEF OutcomeUntouched
<1>13. ASSUME NEW s \in Sessions, CancelWaiter(s) PROVE OutcomeInv'
  BY <1>13, <1>t, <1>f DEF OutcomeUntouched, controller, CancelWaiter, Episodes
<1>14. ASSUME NEW s \in Sessions, CancelLeader(s) PROVE OutcomeInv'
  <2> DEFINE left == [stage EXCEPT ![s] = "out"]
  <2>1. /\ left \in [Sessions -> Stages] /\ left[s] = "out"
        /\ \A t \in Sessions : t # s => left[t] = stage[t]
    BY <1>t DEF Stages
  <2>2. (stage' = NotifyAll(left) \/ stage' = left) /\ UNCHANGED doomed
    BY <1>14 DEF CancelLeader
  <2>3. episode'.waiters = episode.waiters
    BY <1>14, <1>t DEF CancelLeader, EpisodeWithoutProbe, Episodes
  <2> HIDE DEF left
  <2> QED BY <1>f, <2>1, <2>2, <2>3, NotifyAllProperties DEF OutcomeUntouched
<1>15. ASSUME NEW s \in Sessions, CancelInWindow(s) PROVE OutcomeInv'
  <2> DEFINE left == [stage EXCEPT ![s] = "out"]
  <2>1. /\ left \in [Sessions -> Stages] /\ left[s] = "out"
        /\ \A t \in Sessions : t # s => left[t] = stage[t]
    BY <1>t DEF Stages
  <2>2. stage' = StagesAfterVacating(s, left) /\ UNCHANGED doomed
    BY <1>15 DEF CancelInWindow
  <2>3. episode'.waiters = episode.waiters
    BY <1>15, <1>t DEF CancelInWindow, EpisodeWithoutProbe, Episodes
  <2> HIDE DEF left
  <2> QED BY <1>f, <2>1, <2>2, <2>3, VacatingProperties DEF OutcomeUntouched
<1>16. ASSUME NEW s \in Sessions, CancelQueued(s) PROVE OutcomeInv'
  <2> DEFINE left == [stage EXCEPT ![s] = "out"]
  <2>1. /\ left \in [Sessions -> Stages] /\ left[s] = "out"
        /\ \A t \in Sessions : t # s => left[t] = stage[t]
    BY <1>t DEF Stages
  <2>2. stage' = StagesAfterVacating(s, left) /\ UNCHANGED doomed
    BY <1>16 DEF CancelQueued
  <2>3. episode'.waiters = episode.waiters
    BY <1>16, <1>t DEF CancelQueued, EpisodeWithoutProbe, Episodes
  <2> HIDE DEF left
  <2> QED BY <1>f, <2>1, <2>2, <2>3, VacatingProperties DEF OutcomeUntouched
<1>17. ASSUME NEW s \in Sessions, CancelGranted(s) PROVE OutcomeInv'
  <2> DEFINE left == [stage EXCEPT ![s] = "out"]
             st == StagesAfterVacating(s, left)
  <2>1. /\ UNCHANGED doomed /\ Release(<<s, started[s] + 1>>, st)
        /\ episode' = EpisodeWithoutProbe(s) /\ stage[s] # "queued"
    BY <1>17 DEF CancelGranted
  <2>2. /\ left \in [Sessions -> Stages] /\ left[s] \in {"gate", "out"}
        /\ \A t \in Sessions : t # s => left[t] = stage[t]
    BY <1>t, <1>17 DEF CancelGranted, Stages
  <2> HIDE DEF left
  <2>3. /\ st \in [Sessions -> Stages]
        /\ \A t \in Sessions : st[t] = left[t] \/ (left[t] = "waiting" /\ st[t] = "woken")
    BY <2>2, VacatingProperties
  <2> HIDE DEF st
  <2>4. \A t \in Sessions :
           stage'[t] = st[t] \/ (stage'[t] = "granted" /\ stage[t] = "queued" /\ st[t] = "queued")
    <3>1. \A t \in Sessions : stage[t] = "queued" => st[t] = "queued"
      BY <2>1, <2>2, <2>3
    <3> QED BY <2>1, <2>3, <3>1, ReleaseProperties
  <2>5. episode'.waiters = episode.waiters
    BY <1>t, <2>1 DEF EpisodeWithoutProbe, Episodes
  <2> QED BY <1>f, <2>1, <2>2, <2>3, <2>4, <2>5 DEF OutcomeUntouched
<1>18. ASSUME NEW s \in Sessions, Succeeded(s) PROVE OutcomeInv'
  BY <1>18, <1>t, <1>f, NotifyAllProperties
     DEF OutcomeUntouched, controller, Succeeded, Resolve, CloseEpisode, NoEpisode
<1>19. ASSUME NEW s \in Sessions, Rejected(s) PROVE OutcomeInv'
  BY <1>19, <1>t, <1>f, NotifyAllProperties
     DEF OutcomeUntouched, controller, Rejected, Resolve, CloseEpisode, NoEpisode
<1>20. ASSUME NEW s \in Sessions, Corrected(s) PROVE OutcomeInv'
  BY <1>20, <1>t, <1>f, NotifyAllProperties
     DEF OutcomeUntouched, controller, Corrected, Resolve, Episodes
<1>21. ASSUME NEW s \in Sessions, FailOpensEpisode(s) PROVE OutcomeInv'
  BY <1>21, <1>t, <1>f, NotifyAllProperties
     DEF OutcomeUntouched, controller, FailOpensEpisode, NewEpisode
<1>22. ASSUME NEW s \in Sessions, FailRearmsProbe(s) PROVE OutcomeInv'
  BY <1>22, <1>t, <1>f, NotifyAllProperties
     DEF OutcomeUntouched, controller, FailRearmsProbe, Resolve, Episodes
<1>23. ASSUME NEW s \in Sessions, FailKeepsOutcome(s) PROVE OutcomeInv'
  BY <1>23, <1>t, <1>o, NotifyAllProperties DEF FailKeepsOutcome, OutcomeInv, Resolve
<1>24. ASSUME NEW s \in Sessions, FailCoalesces(s) PROVE OutcomeInv'
  BY <1>24, <1>t, <1>o, NotifyAllProperties DEF FailCoalesces, OutcomeInv, Resolve, Episodes
<1>25. ASSUME NEW s \in Sessions, NEW q \in BOOLEAN, FailExhausts(s, q) PROVE OutcomeInv'
  <2>1. episode'.waiters = {}
    <3>1. \/ episode' = [episode EXCEPT !.leader = NoSession, !.probing = FALSE,
                                       !.cooldown = "active", !.waiters = {}]
          \/ episode' = NewEpisode(NoSession, TRUE, "active")
      BY <1>25 DEF FailExhausts
    <3>2. NewEpisode(NoSession, TRUE, "active").waiters = {}
      BY DEF NewEpisode
    <3>3. [episode EXCEPT !.leader = NoSession, !.probing = FALSE,
                          !.cooldown = "active", !.waiters = {}].waiters = {}
      BY <1>t DEF Episodes
    <3> QED BY <3>1, <3>2, <3>3
  <2>2. \A t \in Sessions : doomed'[t] = (doomed[t] \/ t \in episode.waiters)
    BY <1>25 DEF FailExhausts
  <2>3. \A t \in Sessions : stage'[t] = stage[t] \/ stage'[t] = "woken"
    BY <1>25, <1>t, NotifyAllProperties DEF FailExhausts
  <2> QED BY <1>f, <2>1, <2>2, <2>3 DEF OutcomeUntouched
<1>26. ASSUME NEW s \in Sessions, NEW q \in BOOLEAN, FailIgnored(s, q) PROVE OutcomeInv'
  BY <1>26, <1>t, <1>f DEF OutcomeUntouched, controller, FailIgnored, Resolve
<1>27. ASSUME NEW s \in Sessions, CloseResolved(s) PROVE OutcomeInv'
  <2> DEFINE left == [stage EXCEPT ![s] = "out"]
             st == left
  <2>1. /\ UNCHANGED doomed /\ Release(<<s, started[s]>>, st)
        /\ episode' = episode /\ stage[s] # "queued"
    BY <1>27 DEF CloseResolved
  <2>2. /\ left \in [Sessions -> Stages] /\ left[s] \in {"gate", "out"}
        /\ \A t \in Sessions : t # s => left[t] = stage[t]
    BY <1>t, <1>27 DEF CloseResolved, Stages
  <2> HIDE DEF left
  <2>3. /\ st \in [Sessions -> Stages]
        /\ \A t \in Sessions : st[t] = left[t] \/ (left[t] = "waiting" /\ st[t] = "woken")
    BY <2>2
  <2> HIDE DEF st
  <2>4. \A t \in Sessions :
           stage'[t] = st[t] \/ (stage'[t] = "granted" /\ stage[t] = "queued" /\ st[t] = "queued")
    <3>1. \A t \in Sessions : stage[t] = "queued" => st[t] = "queued"
      BY <2>1, <2>2, <2>3
    <3> QED BY <2>1, <2>3, <3>1, ReleaseProperties
  <2>5. episode'.waiters = episode.waiters
    BY <1>t, <2>1 DEF EpisodeWithoutProbe, Episodes
  <2> QED BY <1>f, <2>1, <2>2, <2>3, <2>4, <2>5 DEF OutcomeUntouched
<1>28. ASSUME NEW s \in Sessions, CloseUnresolved(s) PROVE OutcomeInv'
  BY <1>28, <1>t, <1>f DEF OutcomeUntouched, controller, CloseUnresolved
<1>29. ASSUME NEW s \in Sessions, AbandonmentRuns(s) PROVE OutcomeInv'
  BY <1>29, <1>t, <1>f, VacatingProperties
     DEF OutcomeUntouched, controller, AbandonmentRuns, EpisodeWithoutProbe, Episodes
<1>30. ASSUME NEW s \in Sessions, FinishAbandoning(s) PROVE OutcomeInv'
  <2> DEFINE left == [stage EXCEPT ![s] = "out"]
             st == left
  <2>1. /\ UNCHANGED doomed /\ Release(<<s, started[s]>>, st)
        /\ episode' = episode /\ stage[s] # "queued"
    BY <1>30 DEF FinishAbandoning
  <2>2. /\ left \in [Sessions -> Stages] /\ left[s] \in {"gate", "out"}
        /\ \A t \in Sessions : t # s => left[t] = stage[t]
    BY <1>t, <1>30 DEF FinishAbandoning, Stages
  <2> HIDE DEF left
  <2>3. /\ st \in [Sessions -> Stages]
        /\ \A t \in Sessions : st[t] = left[t] \/ (left[t] = "waiting" /\ st[t] = "woken")
    BY <2>2
  <2> HIDE DEF st
  <2>4. \A t \in Sessions :
           stage'[t] = st[t] \/ (stage'[t] = "granted" /\ stage[t] = "queued" /\ st[t] = "queued")
    <3>1. \A t \in Sessions : stage[t] = "queued" => st[t] = "queued"
      BY <2>1, <2>2, <2>3
    <3> QED BY <2>1, <2>3, <3>1, ReleaseProperties
  <2>5. episode'.waiters = episode.waiters
    BY <1>t, <2>1 DEF EpisodeWithoutProbe, Episodes
  <2> QED BY <1>f, <2>1, <2>2, <2>3, <2>4, <2>5 DEF OutcomeUntouched
<1>31. ASSUME NEW s \in Sessions, KeepOpen(s) PROVE OutcomeInv'
  BY <1>31, <1>t, <1>f DEF OutcomeUntouched, controller, KeepOpen
<1>32. ASSUME NEW s \in Sessions, NEW n \in 1..MaxAttempts, CloseKept(s, n) PROVE OutcomeInv'
  <2> DEFINE left == stage
             st == left
  <2>1. /\ UNCHANGED doomed /\ Release(<<s, n>>, st)
        /\ episode' = episode /\ stage[s] # "queued"
    BY <1>32 DEF CloseKept
  <2>2. /\ left \in [Sessions -> Stages] /\ left[s] \in {"gate", "out"}
        /\ \A t \in Sessions : t # s => left[t] = stage[t]
    BY <1>t, <1>32 DEF CloseKept, Stages
  <2> HIDE DEF left
  <2>3. /\ st \in [Sessions -> Stages]
        /\ \A t \in Sessions : st[t] = left[t] \/ (left[t] = "waiting" /\ st[t] = "woken")
    BY <2>2
  <2> HIDE DEF st
  <2>4. \A t \in Sessions :
           stage'[t] = st[t] \/ (stage'[t] = "granted" /\ stage[t] = "queued" /\ st[t] = "queued")
    <3>1. \A t \in Sessions : stage[t] = "queued" => st[t] = "queued"
      BY <2>1, <2>2, <2>3
    <3> QED BY <2>1, <2>3, <3>1, ReleaseProperties
  <2>5. episode'.waiters = episode.waiters
    BY <1>t, <2>1 DEF EpisodeWithoutProbe, Episodes
  <2> QED BY <1>f, <2>1, <2>2, <2>3, <2>4, <2>5 DEF OutcomeUntouched
<1>33. ASSUME NEW s \in Sessions, Drop(s) PROVE OutcomeInv'
  BY <1>33, <1>t, <1>f DEF OutcomeUntouched, controller, Drop
<1>34. ASSUME BackoffElapses PROVE OutcomeInv'
  BY <1>34, <1>t, <1>f DEF BackoffElapses, OutcomeUntouched, Episodes
<1>35. ASSUME CooldownElapses PROVE OutcomeInv'
  BY <1>35, <1>t, <1>f DEF CooldownElapses, OutcomeUntouched, Episodes
<1>36. ASSUME UNCHANGED admissionVars PROVE OutcomeInv'
  BY <1>36, <1>f DEF admissionVars, OutcomeUntouched
<1> QED
  BY <1>1, <1>2, <1>3, <1>4, <1>5, <1>6, <1>7, <1>8, <1>9, <1>10, <1>11, <1>12, <1>13,
     <1>14, <1>15, <1>16, <1>17, <1>18, <1>19, <1>20, <1>21, <1>22, <1>23, <1>24, <1>25,
     <1>26, <1>27, <1>28, <1>29, <1>30, <1>31, <1>32, <1>33, <1>34, <1>35, <1>36
  DEF Next, Admit, Use, CancelOpenAttempt, Failed

------------------------------------------------------------------------------
(* The theorems                                                             *)

\* The controller is constructed in a state of the invariant.
LEMMA InvInitially == Init => Inv
<1> SUFFICES ASSUME Init PROVE Inv
  OBVIOUS
<1> USE AdmissionAssumption DEF Init
<1>1. TypeOK
  BY DEF TypeOK, NoEpisode, NormalPermit, Episodes, Permits, Generations, Cooldowns,
         Stages, AttemptStates
<1>2. ControlInv /\ OutcomeInv
  BY DEF ControlInv, InsideOpen, OutcomeInv, NoEpisode
<1>3. BulkheadInv
  BY FS_EmptySet DEF BulkheadInv, QueueInv, SlotInv, BulkheadBound, NoIdlePermit
<1>4. RecoveryInv
  BY DEF RecoveryInv, EpisodeInv, ProbeIsNeverStale, ProbeIsHeld, NoLostWakeup,
         SleeperLeads,
         HoldsProbe, NoEpisode, NormalPermit, Recovering
<1> QED BY <1>1, <1>2, <1>3, <1>4 DEF Inv

\* The invariant is inductive.
LEMMA InvStep == Inv /\ [Next]_admissionVars => Inv'
BY TypeStep, ControlStep, BulkheadStep, RecoveryStep, OutcomeStep DEF Inv

\* The invariant behind the theorems below: every state the controller can
\* reach, under any callers, is well-typed and satisfies its five parts.
THEOREM Invariance == AdmissionSpec => []Inv
BY InvInitially, InvStep, PTL DEF AdmissionSpec

\* Type correctness of the controller.
THEOREM Typing == AdmissionSpec => []TypeOK
<1>1. Inv => TypeOK
  BY DEF Inv
<1> QED BY <1>1, Invariance, PTL

\* The bulkhead (_concurrency_sem) admits at most provider_max_concurrency
\* attempts at any time, whatever its callers do.
THEOREM Bulkhead == AdmissionSpec => []BulkheadBound
<1>1. Inv => BulkheadBound
  BY DEF Inv, BulkheadInv
<1> QED BY <1>1, Invariance, PTL

\* Work conservation of the bulkhead: while a session is queued in
\* _concurrency_sem.acquire(), every permit is in use.
THEOREM WorkConservation == AdmissionSpec => []NoIdlePermit
<1>1. Inv => NoIdlePermit
  BY DEF Inv, BulkheadInv
<1> QED BY <1>1, Invariance, PTL

\* A probe permit is honoured only for the current episode, so at most one
\* session probes an unhealthy provider (_permit_is_current).
THEOREM SingleProbe == AdmissionSpec => []ProbeIsNeverStale
<1>1. Inv => ProbeIsNeverStale
  BY DEF Inv, RecoveryInv
<1> QED BY <1>1, Invariance, PTL

\* probe_active is never left set with nobody holding the probe.
THEOREM ProbeHasHolder == AdmissionSpec => []ProbeIsHeld
<1>1. Inv => ProbeIsHeld
  BY DEF Inv, RecoveryInv
<1> QED BY <1>1, Invariance, PTL

\* Whoever is suspended in condition.wait() waits for somebody else's live
\* recovery: no notify_all is missed.
THEOREM WakeupsAreNotLost == AdmissionSpec => []NoLostWakeup
<1>1. Inv => NoLostWakeup
  BY DEF Inv, RecoveryInv
<1> QED BY <1>1, Invariance, PTL

\* A leader's claim on the episode survives its backoff sleep.
THEOREM SleepersLead == AdmissionSpec => []SleeperLeads
<1>1. Inv => SleeperLeads
  BY DEF Inv, RecoveryInv
<1> QED BY <1>1, Invariance, PTL

\* The wait of a leader for its own probe in _wait_for_gate is unreachable.
THEOREM LeadersNeverWait == AdmissionSpec => []LeaderNeverWaits
<1>1. Inv => LeaderNeverWaits
  <2> SUFFICES ASSUME Inv, NEW s \in Sessions, stage[s] \in {"gate", "woken", "waiting"},
                      episode.probing, episode.leader = s
               PROVE  FALSE
    BY DEF LeaderNeverWaits
  <2>1. HoldsProbe(s)
    BY DEF Inv, RecoveryInv, ProbeIsHeld
  <2>2. attempt[s] = "none"
    BY DEF Inv, ControlInv, InsideOpen
  <2> QED BY <2>1, <2>2 DEF HoldsProbe
<1> QED BY <1>1, Invariance, PTL

\* An execution that shares a terminal outcome starts no further attempt.
THEOREM OutcomesStick == AdmissionSpec => OutcomeSticks
<1>1. Inv /\ [Next]_admissionVars => [\A s \in Sessions : doomed[s] => started'[s] = started[s]]_admissionVars
  <2> SUFFICES ASSUME Inv, Next, NEW s \in Sessions, doomed[s]
               PROVE  started'[s] = started[s]
    OBVIOUS
  <2>1. started \in [Sessions -> 0..MaxAttempts] /\ stage[s] \notin {"window", "granted"}
    BY DEF Inv, TypeOK, OutcomeInv
  <2>2. ASSUME NEW t \in Sessions, WindowAdmits(t) \/ SlotAdmits(t)
        PROVE  started'[s] = started[s]
    BY <2>1, <2>2 DEF WindowAdmits, SlotAdmits, Claim
  <2>3. ASSUME NEW t \in Sessions, Admit(t), ~WindowAdmits(t), ~SlotAdmits(t)
        PROVE  started' = started
    BY <2>3 DEF Admit, GateRefuses, GatePasses, GateReopens, GateLeads, GateWaits, Lead,
                LeaderWakes, WindowRejects, WindowQueues, SlotRejects
  <2>4. ASSUME NEW t \in Sessions, Use(t)
        PROVE  started' = started
    BY <2>4
       DEF Use, OpenAttempt, CancelOpenAttempt, CancelWaiter, CancelLeader, CancelInWindow,
                CancelQueued, CancelGranted, Succeeded, Rejected, Corrected, Resolve, Failed,
                FailOpensEpisode, FailRearmsProbe, FailKeepsOutcome, FailCoalesces, FailExhausts,
                FailIgnored, CloseResolved, CloseUnresolved, AbandonmentRuns, FinishAbandoning,
                KeepOpen, Drop, CloseKept
  <2>5. BackoffElapses \/ CooldownElapses => started' = started
    BY DEF BackoffElapses, CooldownElapses
  <2> QED BY <2>2, <2>3, <2>4, <2>5 DEF Next
<1> QED BY <1>1, Invariance, PTL DEF AdmissionSpec, OutcomeSticks

\* The bulkhead never lets too many attempts through and never keeps one out
\* for nothing (_concurrency_sem).
THEOREM ExactBulkhead == AdmissionSpec => []BulkheadIsExact
<1>1. BulkheadBound /\ NoIdlePermit => BulkheadIsExact
  BY DEF BulkheadIsExact
<1> QED BY <1>1, Bulkhead, WorkConservation, PTL

\* A recovery is probed by one session, which is there to report the outcome
\* (_permit_is_current, probe_active).
THEOREM SoundProbe == AdmissionSpec => []ProbeIsSound
<1>1. ProbeIsNeverStale /\ ProbeIsHeld => ProbeIsSound
  BY DEF ProbeIsSound
<1> QED BY <1>1, SingleProbe, ProbeHasHolder, PTL

\* Whoever waits in a recovery will be woken, by another session that is alive
\* and leads it (_wait_for_gate, leader_token).
THEOREM LedWaiters == AdmissionSpec => []WaitersAreLed
<1>1. NoLostWakeup /\ SleeperLeads /\ LeaderNeverWaits => WaitersAreLed
  BY DEF WaitersAreLed
<1> QED BY <1>1, WakeupsAreNotLost, SleepersLead, LeadersNeverWait, PTL

------------------------------------------------------------------------------
(* Who ends an episode                                                      *)

\* What every step does to an episode that goes on, or ends.
LEMMA EpisodeSteps ==
    ASSUME Inv, Next, Recovering
    PROVE  \/ episode' = episode
           \/ \* a step of the gate, the window or the clock
              /\ Recovering'
              /\ episode'.gen = episode.gen =>
                    /\ episode.ready => episode'.ready
                    /\ episode'.cooldown = "none" \/ episode.cooldown # "none"
           \/ \* the probe is settled
              \E s \in Sessions :
                 /\ MatchingProbe(s) /\ attempt[s] = "open" /\ attempt' = [attempt EXCEPT ![s] = attempt'[s]]
                 /\ \/ attempt'[s] = "accepted" /\ episode' = NoEpisode
                    \/ attempt'[s] = "settled" /\ (episode' = NoEpisode \/ episode'.gen = episode.gen)
<1> /\ episode \in Episodes /\ nextGen \in Nat \ {0} /\ episode.gen < nextGen
    /\ attempt \in [Sessions -> AttemptStates]
  BY DEF Inv, TypeOK, RecoveryInv, EpisodeInv
<1> USE DEF Recovering, Episodes, Generations
<1>1. ASSUME NEW s \in Sessions, Admit(s)
      PROVE  \/ episode' = episode
             \/ /\ Recovering'
                /\ episode'.gen = episode.gen =>
                      /\ episode.ready => episode'.ready
                      /\ episode'.cooldown = "none" \/ episode.cooldown # "none"
  <2>1. CASE GateReopens(s) BY <2>1 DEF GateReopens, Lead, NewEpisode
  <2>2. CASE GateLeads(s) BY <2>2 DEF GateLeads, Lead
  <2>3. CASE GateWaits(s) BY <2>3 DEF GateWaits
  <2>4. CASE LeaderWakes(s) BY <2>4 DEF LeaderWakes
  <2>5. CASE WindowRejects(s) \/ SlotRejects(s)
    BY <2>5 DEF WindowRejects, SlotRejects, EpisodeWithoutProbe
  <2>6. CASE GateRefuses(s) \/ GatePasses(s) \/ WindowAdmits(s) \/ WindowQueues(s) \/ SlotAdmits(s)
    BY <2>6 DEF GateRefuses, GatePasses, WindowAdmits, WindowQueues, SlotAdmits, controller
  <2> QED BY <1>1, <2>1, <2>2, <2>3, <2>4, <2>5, <2>6 DEF Admit
<1>2. ASSUME NEW s \in Sessions, CancelOpenAttempt(s) \/ AbandonmentRuns(s)
      PROVE  \/ episode' = episode
             \/ /\ Recovering'
                /\ episode'.gen = episode.gen =>
                      /\ episode.ready => episode'.ready
                      /\ episode'.cooldown = "none" \/ episode.cooldown # "none"
  BY <1>2 DEF CancelOpenAttempt, CancelWaiter, CancelLeader, CancelInWindow, CancelQueued,
              CancelGranted, AbandonmentRuns, EpisodeWithoutProbe
<1>3. ASSUME NEW s \in Sessions,
             \/ OpenAttempt(s) \/ CloseResolved(s) \/ CloseUnresolved(s) \/ FinishAbandoning(s)
             \/ KeepOpen(s) \/ Drop(s) \/ \E n \in 1..MaxAttempts : CloseKept(s, n)
      PROVE  episode' = episode
  BY <1>3 DEF OpenAttempt, CloseResolved, CloseUnresolved, FinishAbandoning, KeepOpen, Drop,
              CloseKept, controller
<1>4. ASSUME NEW s \in Sessions,
             \/ Succeeded(s) \/ Rejected(s) \/ Corrected(s)
             \/ \E quotaExhausted \in BOOLEAN : Failed(s, quotaExhausted)
      PROVE  \/ episode' = episode
             \/ /\ Recovering'
                /\ episode'.gen = episode.gen =>
                      /\ episode.ready => episode'.ready
                      /\ episode'.cooldown = "none" \/ episode.cooldown # "none"
             \/ /\ MatchingProbe(s) /\ attempt[s] = "open" /\ attempt' = [attempt EXCEPT ![s] = attempt'[s]]
                /\ \/ attempt'[s] = "accepted" /\ episode' = NoEpisode
                   \/ attempt'[s] = "settled" /\ (episode' = NoEpisode \/ episode'.gen = episode.gen)
  <2>1. CASE Succeeded(s) BY <2>1 DEF Succeeded, Resolve, CloseEpisode
  <2>2. CASE Rejected(s) BY <2>2 DEF Rejected, Resolve, CloseEpisode
  <2>3. CASE Corrected(s) BY <2>3 DEF Corrected, Resolve
  <2>4. ASSUME NEW q \in BOOLEAN, Failed(s, q)
        PROVE  \/ episode' = episode
               \/ episode'.gen = episode.gen /\ episode'.cooldown = episode.cooldown
                  /\ episode'.ready = episode.ready
               \/ /\ MatchingProbe(s) /\ attempt[s] = "open" /\ attempt' = [attempt EXCEPT ![s] = "settled"]
                  /\ episode'.gen = episode.gen
    <3>1. CASE FailOpensEpisode(s) BY <3>1 DEF FailOpensEpisode
    <3>2. CASE FailRearmsProbe(s) BY <3>2 DEF FailRearmsProbe, Resolve
    <3>3. CASE FailKeepsOutcome(s) \/ FailIgnored(s, q) BY <3>3 DEF FailKeepsOutcome, FailIgnored
    <3>4. CASE FailCoalesces(s) BY <3>4 DEF FailCoalesces
    <3>5. CASE FailExhausts(s, q) BY <3>5 DEF FailExhausts
    <3> QED BY <2>4, <3>1, <3>2, <3>3, <3>4, <3>5 DEF Failed
  <2> QED BY <1>4, <2>1, <2>2, <2>3, <2>4
<1>5. CASE BackoffElapses \/ CooldownElapses BY <1>5 DEF BackoffElapses, CooldownElapses
<1> QED BY <1>1, <1>2, <1>3, <1>4, <1>5 DEF Next, Use

\* Whatever came too late, an episode is closed, prolonged or ended terminally
\* only by the outcome of its own probe (_matching_probe, _attempt_failed).
THEOREM ProbesDecide == AdmissionSpec => OnlyProbesDecide
<1>1. ASSUME Inv, Next, Recovering PROVE 
        /\ ~Recovering' =>
             /\ episode.probing /\ attempt[episode.leader] = "open"
             /\ attempt'[episode.leader] \in {"accepted", "settled"}
        /\ (/\ episode'.gen = episode.gen
            /\ \/ episode.ready /\ ~episode'.ready
               \/ episode.cooldown = "none" /\ episode'.cooldown # "none") =>
             /\ episode.probing /\ attempt[episode.leader] = "open"
             /\ attempt'[episode.leader] = "settled"
  BY <1>1, EpisodeSteps DEF MatchingProbe, Recovering, NoEpisode
<1>2. Inv /\ [Next]_admissionVars =>
         [(Recovering /\ ~Recovering') =>
            /\ episode.probing
            /\ attempt[episode.leader] = "open"
            /\ attempt'[episode.leader] \in {"accepted", "settled"}]_admissionVars
  BY <1>1
<1>3. Inv /\ [Next]_admissionVars =>
         [(/\ Recovering
           /\ episode'.gen = episode.gen
           /\ \/ episode.ready /\ ~episode'.ready
              \/ episode.cooldown = "none" /\ episode'.cooldown # "none") =>
            /\ episode.probing
            /\ attempt[episode.leader] = "open"
            /\ attempt'[episode.leader] = "settled"]_admissionVars
  BY <1>1
<1> QED BY <1>2, <1>3, Invariance, PTL
        DEF AdmissionSpec, OnlyProbesDecide, OnlyProbeCloses, OnlyProbeExtends

------------------------------------------------------------------------------
(* The executions use the controller only in ways it allows                 *)

\* A step of an execution is a step of the controller, or none of its, so what
\* is proved of the controller with any caller holds beside the executions.
LEMMA RunnersStep == Inv /\ [RunnersNext]_vars => [Next]_admissionVars
<1> SUFFICES ASSUME Inv, RunnersNext PROVE [Next]_admissionVars
  BY DEF vars, admissionVars
<1>1. ASSUME NEW s \in Sessions, Progress(s) PROVE [Next]_admissionVars
  <2>1. CASE Begin(s) BY <2>1 DEF Begin, Next, Use
  <2>2. CASE Admitted(s) BY <2>2 DEF Admitted, Next
  <2>3. CASE Refused(s) BY <2>3 DEF Refused, Next, Admit
  <2>4. CASE CallReturns(s) \/ FirstEvent(s) BY <2>4 DEF CallReturns, FirstEvent, Next, Use
  <2>5. CASE CallRejected(s) \/ StreamRejected(s) BY <2>5 DEF CallRejected, StreamRejected, Next, Use
  <2>6. CASE \E quotaExhausted \in BOOLEAN : CallFails(s, quotaExhausted) \/ StreamFails(s, quotaExhausted)
    BY <2>6 DEF CallFails, StreamFails, Next, Use
  <2>7. CASE ChatCorrects(s) \/ CodexUnauthorized(s)
    BY <2>7 DEF ChatCorrects, CodexUnauthorized, Next, Use
  <2>8. CASE MidstreamRecovery(s) BY <2>8 DEF MidstreamRecovery, Next, Use
  <2>9. CASE CloseAttempt(s) BY <2>9 DEF CloseAttempt, Next, Use
  <2>10. CASE AbandonAttempt(s) BY <2>10 DEF AbandonAttempt, Next, Use
  <2>11. CASE AbandonFinishes(s) BY <2>11 DEF AbandonFinishes, Next, Use
  <2>12. CASE Unwind(s)
    <3>1. CloseKept(s, outer[s]) BY <2>12 DEF Unwind
    <3>2. outer[s] \in 1..MaxAttempts BY <3>1 DEF CloseKept, Inv, TypeOK
    <3> QED BY <3>1, <3>2 DEF Next, Use
  <2>13. CASE OutOfBudget(s) \/ CallOpensStream(s) \/ AcceptedStreamFails(s) \/ StreamEnds(s) \/ StreamCloses(s)
    BY <2>13 DEF OutOfBudget, CallOpensStream, AcceptedStreamFails, StreamEnds, StreamCloses
  <2> QED BY <1>1, <2>1, <2>2, <2>3, <2>4, <2>5, <2>6, <2>7, <2>8, <2>9, <2>10, <2>11, <2>12, <2>13
          DEF Progress
<1>2. ASSUME NEW s \in Sessions, AbandonmentTask(s) PROVE [Next]_admissionVars
  BY <1>2 DEF AbandonmentTask, Next, Use
<1>3. ASSUME NEW s \in Sessions, Disturbance(s) PROVE [Next]_admissionVars
  <2>1. CASE CancelAdmitting(s) BY <2>1 DEF CancelAdmitting, Next, Use
  <2>2. CASE CancelCall(s) \/ CancelUnwind(s) BY <2>2 DEF CancelCall, CancelUnwind
  <2>3. CASE \E result \in {"failed", "cancelled"} : AuthFails(s, result) BY <2>3 DEF AuthFails
  <2>4. CASE \E result \in {"failed", "cancelled"} : StreamCloseFails(s, result)
    BY <2>4 DEF StreamCloseFails, Next, Use
  <2> QED BY <1>3, <2>1, <2>2, <2>3, <2>4 DEF Disturbance
<1>4. CASE Clock BY <1>4 DEF Clock, Next
<1>5. CASE Quiet BY <1>5 DEF Quiet, vars
<1> QED BY <1>1, <1>2, <1>3, <1>4, <1>5 DEF RunnersNext

------------------------------------------------------------------------------
(* What a step of one session is to itself and to the others                *)

\* A step of s leaves t alone, but that it may wake it, pass it a permit, or
\* take the lead when t has none.
Leaves(s, t) ==
    /\ attempt'[t] = attempt[t] /\ started'[t] = started[t] /\ permit'[t] = permit[t]
    /\ \/ stage'[t] = stage[t]
       \/ stage[t] = "waiting" /\ stage'[t] = "woken"
       \/ stage[t] = "queued" /\ stage'[t] = "granted"
    /\ \A n : <<t, n>> \in slots' =>
          <<t, n>> \in slots \/ (n = started[t] + 1 /\ stage'[t] = "granted")
    /\ episode'.leader = t =>
          /\ episode.leader = t /\ episode'.gen = episode.gen
          /\ episode'.probing = episode.probing /\ episode'.cooldown = episode.cooldown

\* The stages f are those after s moved there, and maybe those who wait were notified.
MovedTo(f, s, at) ==
    /\ f \in [Sessions -> Stages] /\ f[s] = at
    /\ \A t \in Sessions : t # s => f[t] = stage[t] \/ (stage[t] = "waiting" /\ f[t] = "woken")

LEMMA NotifyMoves ==
    ASSUME NEW s \in Sessions, NEW at \in Stages, at # "waiting", stage \in [Sessions -> Stages]
    PROVE  LET st == [stage EXCEPT ![s] = at]
           IN  /\ MovedTo(st, s, at) /\ MovedTo(NotifyAll(st), s, at)
               /\ MovedTo(StagesAfterVacating(s, st), s, at)
               /\ stage[s] = at => MovedTo(NotifyAll(stage), s, at) /\ MovedTo(stage, s, at)
                                   /\ MovedTo(StagesAfterVacating(s, stage), s, at)
<1> DEFINE st == [stage EXCEPT ![s] = at]
<1>1. st \in [Sessions -> Stages] /\ st[s] = at /\ \A t \in Sessions : t # s => st[t] = stage[t]
  OBVIOUS
<1>2. MovedTo(st, s, at) BY <1>1 DEF MovedTo
<1>3. stage[s] = at => stage = st OBVIOUS
<1> HIDE DEF st
<1>4. MovedTo(NotifyAll(st), s, at)
  <2>1. NotifyAll(st) \in [Sessions -> Stages]
        /\ \A t \in Sessions : NotifyAll(st)[t] = IF st[t] = "waiting" THEN "woken" ELSE st[t]
    BY <1>1, NotifyAllProperties
  <2> QED BY <1>1, <2>1 DEF MovedTo
<1>5. MovedTo(StagesAfterVacating(s, st), s, at) BY <1>2, <1>4 DEF StagesAfterVacating
<1>6. stage[s] = at => MovedTo(NotifyAll(stage), s, at) /\ MovedTo(stage, s, at)
                      /\ MovedTo(StagesAfterVacating(s, stage), s, at)
  BY <1>2, <1>3, <1>4, <1>5
<1> QED BY <1>2, <1>4, <1>5, <1>6 DEF st

\* Permits that are out for t, no more than before, or than the queue's head gets.
KeepsPermits(t) ==
    \A n : <<t, n>> \in slots' => <<t, n>> \in slots \/ (n = started[t] + 1 /\ stage'[t] = "granted")

\* Releasing a permit of s takes it from s and may pass it to another.
LEMMA ReleaseMoves ==
    ASSUME Inv, NEW s \in Sessions, NEW k, NEW st, NEW at \in Stages,
           stage[s] # "queued", at # "queued", MovedTo(st, s, at), Release(<<s, k>>, st)
    PROVE  /\ stage'[s] = at
           /\ \A n : <<s, n>> \in slots' => <<s, n>> \in slots /\ n # k
           /\ \A t \in Sessions : t # s =>
                 /\ \/ stage'[t] = stage[t]
                    \/ stage[t] = "waiting" /\ stage'[t] = "woken"
                    \/ stage[t] = "queued" /\ stage'[t] = "granted"
                 /\ KeepsPermits(t)
<1> USE DEF MovedTo, KeepsPermits
<1>1. CASE queue = <<>> BY <1>1 DEF Release
<1>2. CASE queue # <<>>
  <2> DEFINE next == Head(queue)
  <2>1. next \in Sessions /\ stage[next] = "queued" /\ next # s
    BY <1>2, HeadTail DEF Inv, TypeOK, BulkheadInv, QueueInv
  <2>2. /\ slots' = (slots \ {<<s, k>>}) \cup {<<next, started[next] + 1>>}
        /\ stage' = [st EXCEPT ![next] = "granted"]
    BY <1>2 DEF Release
  <2> HIDE DEF next
  <2>3. stage'[next] = "granted" /\ \A t \in Sessions : t # next => stage'[t] = st[t]
    BY <2>1, <2>2
  <2>4. stage'[s] = at /\ \A n : <<s, n>> \in slots' => <<s, n>> \in slots /\ n # k
    BY <2>1, <2>2, <2>3
  <2>5. ASSUME NEW t \in Sessions, t # s
        PROVE  /\ \/ stage'[t] = stage[t]
                  \/ stage[t] = "waiting" /\ stage'[t] = "woken"
                  \/ stage[t] = "queued" /\ stage'[t] = "granted"
               /\ KeepsPermits(t)
    <3>1. CASE t = next BY <2>1, <2>2, <2>3, <3>1
    <3>2. CASE t # next BY <2>2, <2>3, <2>5, <3>2
    <3> QED BY <3>1, <3>2
  <2> QED BY <2>4, <2>5
<1> QED BY <1>1, <1>2

\* Where a step of s inside open_attempt leads, and what it is to the others.
Inside(s) ==
    /\ stage[s] \in InsideOpen /\ attempt'[s] = attempt[s] /\ started'[s] = started[s]
    /\ stage'[s] \in {"out", "gate", "waiting", "leading", "window", "queued"}
    /\ \A n : <<s, n>> \in slots' =>
          <<s, n>> \in slots /\ (stage[s] = "granted" => n # started[s] + 1)

Claims(s) ==
    /\ stage[s] \in {"window", "granted"} /\ stage'[s] = "open"
    /\ attempt'[s] = "open" /\ started'[s] = started[s] + 1
    /\ \A n : <<s, n>> \in slots' => <<s, n>> \in slots \/ n = started[s] + 1

LEMMA AdmitMoves ==
    ASSUME Inv, NEW s \in Sessions, Admit(s)
    PROVE  /\ Inside(s) \/ Claims(s)
           /\ \A t \in Sessions : t # s => Leaves(s, t)
<1>1. /\ stage \in [Sessions -> Stages] /\ attempt \in [Sessions -> AttemptStates]
      /\ started \in [Sessions -> 0..MaxAttempts] /\ permit \in [Sessions -> Permits]
      /\ episode \in Episodes /\ (episode.cooldown # "none" => episode.leader = NoSession)
      /\ NoSession \notin Sessions
  BY AdmissionAssumption DEF Inv, TypeOK, RecoveryInv, EpisodeInv
<1> USE DEF Episodes, InsideOpen, AtGate
<1>2. CASE GateRefuses(s) \/ GatePasses(s) \/ WindowQueues(s)
  BY <1>1, <1>2 DEF GateRefuses, GatePasses, WindowQueues, controller, Inside, Leaves, Stages
<1>3. CASE GateReopens(s) \/ GateLeads(s)
  BY <1>1, <1>3 DEF GateReopens, GateLeads, Lead, NewEpisode, Inside, Leaves, Stages
<1>4. CASE GateWaits(s)
  BY <1>1, <1>4 DEF GateWaits, Inside, Leaves, Stages
<1>5. CASE LeaderWakes(s)
  <2>1. SleeperLeads BY DEF Inv, RecoveryInv
  <2>2. /\ stage[s] = "leading" /\ episode.leader = s
        /\ episode' = [episode EXCEPT !.probing = TRUE]
        /\ permit' = [permit EXCEPT ![s].probe = TRUE]
        /\ stage' = [stage EXCEPT ![s] = "window"]
        /\ UNCHANGED <<nextGen, slots, queue, started, doomed, attempt>>
    BY <1>5, <2>1 DEF LeaderWakes, SleeperLeads
  <2> QED BY <1>1, <2>2 DEF Inside, Leaves
<1>6. CASE WindowRejects(s)
  <2> DEFINE st == StagesAfterVacating(s, [stage EXCEPT ![s] = "gate"])
  <2>1. MovedTo(st, s, "gate") BY <1>1, NotifyMoves DEF Stages
  <2>2. /\ stage[s] = "window" /\ stage' = st /\ episode' = EpisodeWithoutProbe(s)
        /\ UNCHANGED <<nextGen, slots, queue, permit, started, doomed, attempt>>
    BY <1>6 DEF WindowRejects
  <2> HIDE DEF st
  <2> QED BY <1>1, <2>1, <2>2 DEF MovedTo, EpisodeWithoutProbe, MatchingProbe, Inside, Leaves
<1>7. CASE WindowAdmits(s)
  <2>1. /\ stage[s] = "window" /\ slots' = slots \cup {<<s, started[s] + 1>>}
        /\ started' = [started EXCEPT ![s] = @ + 1] /\ attempt' = [attempt EXCEPT ![s] = "open"]
        /\ stage' = [stage EXCEPT ![s] = "open"]
        /\ UNCHANGED <<episode, nextGen, queue, permit, doomed>>
    BY <1>7 DEF WindowAdmits, Claim
  <2> QED BY <1>1, <2>1 DEF Claims, Leaves
<1>8. CASE SlotAdmits(s)
  <2>1. /\ stage[s] = "granted" /\ UNCHANGED slots
        /\ started' = [started EXCEPT ![s] = @ + 1] /\ attempt' = [attempt EXCEPT ![s] = "open"]
        /\ stage' = [stage EXCEPT ![s] = "open"]
        /\ UNCHANGED <<episode, nextGen, queue, permit, doomed>>
    BY <1>8 DEF SlotAdmits, Claim, controller
  <2> QED BY <1>1, <2>1 DEF Claims, Leaves
<1>9. CASE SlotRejects(s)
  <2> DEFINE st == StagesAfterVacating(s, [stage EXCEPT ![s] = "gate"])
  <2>1. MovedTo(st, s, "gate") /\ "gate" \in Stages BY <1>1, NotifyMoves DEF Stages
  <2>2. /\ stage[s] = "granted" /\ Release(<<s, started[s] + 1>>, st)
        /\ episode' = EpisodeWithoutProbe(s)
        /\ UNCHANGED <<nextGen, permit, started, doomed, attempt>>
    BY <1>9 DEF SlotRejects
  <2> HIDE DEF st
  <2>3. /\ stage'[s] = "gate" /\ \A n : <<s, n>> \in slots' => <<s, n>> \in slots /\ n # started[s] + 1
        /\ \A t \in Sessions : t # s =>
              /\ \/ stage'[t] = stage[t]
                 \/ stage[t] = "waiting" /\ stage'[t] = "woken"
                 \/ stage[t] = "queued" /\ stage'[t] = "granted"
              /\ KeepsPermits(t)
    BY <2>1, <2>2, ReleaseMoves
  <2> QED BY <1>1, <2>2, <2>3 DEF KeepsPermits, EpisodeWithoutProbe, MatchingProbe, Inside, Leaves
<1> QED BY <1>2, <1>3, <1>4, <1>5, <1>6, <1>7, <1>8, <1>9 DEF Admit

LEMMA CancelMoves ==
    ASSUME Inv, NEW s \in Sessions, CancelOpenAttempt(s)
    PROVE  /\ Inside(s) /\ stage'[s] = "out"
           /\ \A t \in Sessions : t # s => Leaves(s, t)
<1>1. /\ stage \in [Sessions -> Stages] /\ attempt \in [Sessions -> AttemptStates]
      /\ started \in [Sessions -> 0..MaxAttempts] /\ permit \in [Sessions -> Permits]
      /\ episode \in Episodes /\ NoSession \notin Sessions
  BY AdmissionAssumption DEF Inv, TypeOK
<1> USE DEF Episodes, InsideOpen
<1> DEFINE left == [stage EXCEPT ![s] = "out"]
           st == StagesAfterVacating(s, left)
<1>2. /\ MovedTo(left, s, "out") /\ MovedTo(NotifyAll(left), s, "out") /\ MovedTo(st, s, "out")
      /\ "out" \in Stages
  BY <1>1, NotifyMoves DEF Stages
<1>3. CASE CancelWaiter(s) BY <1>1, <1>3 DEF CancelWaiter, Inside, Leaves, Stages
<1>4. CASE CancelLeader(s)
  <2>1. /\ stage[s] = "leading" /\ (stage' = left \/ stage' = NotifyAll(left))
        /\ (episode' = episode \/ episode' = [episode EXCEPT !.leader = NoSession])
        /\ UNCHANGED <<nextGen, slots, queue, permit, started, doomed, attempt>>
    BY <1>4 DEF CancelLeader
  <2>2. MovedTo(stage', s, "out") BY <1>2, <2>1
  <2> HIDE DEF left
  <2> QED BY <1>1, <2>1, <2>2 DEF MovedTo, Inside, Leaves
<1>5. CASE CancelInWindow(s) \/ CancelQueued(s)
  <2>1. /\ stage[s] \in {"window", "queued"} /\ stage' = st /\ episode' = EpisodeWithoutProbe(s)
        /\ UNCHANGED <<nextGen, slots, permit, started, doomed, attempt>>
    BY <1>5 DEF CancelInWindow, CancelQueued
  <2> HIDE DEF st
  <2> QED BY <1>1, <1>2, <2>1 DEF MovedTo, EpisodeWithoutProbe, MatchingProbe, Inside, Leaves
<1>6. CASE CancelGranted(s)
  <2>1. /\ stage[s] = "granted" /\ Release(<<s, started[s] + 1>>, st)
        /\ episode' = EpisodeWithoutProbe(s)
        /\ UNCHANGED <<nextGen, permit, started, doomed, attempt>>
    BY <1>6 DEF CancelGranted
  <2> HIDE DEF st
  <2>2. /\ stage'[s] = "out" /\ \A n : <<s, n>> \in slots' => <<s, n>> \in slots /\ n # started[s] + 1
        /\ \A t \in Sessions : t # s =>
              /\ \/ stage'[t] = stage[t]
                 \/ stage[t] = "waiting" /\ stage'[t] = "woken"
                 \/ stage[t] = "queued" /\ stage'[t] = "granted"
              /\ KeepsPermits(t)
    BY <1>2, <2>1, ReleaseMoves
  <2> QED BY <1>1, <2>1, <2>2 DEF KeepsPermits, EpisodeWithoutProbe, MatchingProbe, Inside, Leaves
<1> QED BY <1>3, <1>4, <1>5, <1>6 DEF CancelOpenAttempt

\* An attempt is resolved: accepted, or settled.
Resolves(s) ==
    /\ stage[s] = "open" /\ attempt[s] = "open" /\ stage'[s] = "open"
    /\ attempt'[s] \in {"accepted", "settled"} /\ started'[s] = started[s] /\ slots' = slots

LEMMA ResolveMoves ==
    ASSUME Inv, NEW s \in Sessions,
           \/ Succeeded(s) \/ Rejected(s) \/ Corrected(s)
           \/ \E quotaExhausted \in BOOLEAN : Failed(s, quotaExhausted)
    PROVE  Resolves(s) /\ \A t \in Sessions : t # s => Leaves(s, t)
<1>1. /\ stage \in [Sessions -> Stages] /\ attempt \in [Sessions -> AttemptStates]
      /\ started \in [Sessions -> 0..MaxAttempts] /\ permit \in [Sessions -> Permits]
      /\ episode \in Episodes /\ NoSession \notin Sessions
  BY AdmissionAssumption DEF Inv, TypeOK
<1> USE DEF Episodes
<1>2. stage[s] = "open" =>
         MovedTo(stage, s, "open") /\ MovedTo(NotifyAll(stage), s, "open")
  BY <1>1, NotifyMoves DEF Stages
<1>3. /\ stage[s] = "open" /\ attempt[s] = "open"
      /\ \E a \in {"accepted", "settled"} : attempt' = [attempt EXCEPT ![s] = a]
      /\ stage' = stage \/ stage' = NotifyAll(stage)
      /\ UNCHANGED <<slots, permit, started>>
      /\ \/ episode'.leader \in {NoSession, s}
         \/ /\ episode'.leader = episode.leader /\ episode'.gen = episode.gen
            /\ episode'.probing = episode.probing /\ episode'.cooldown = episode.cooldown
  <2>1. CASE Succeeded(s) \/ Rejected(s)
    <3>1. /\ \E a \in {"accepted", "settled"} : Resolve(s, a)
          /\ stage' = stage \/ stage' = NotifyAll(stage)
          /\ episode' = NoEpisode \/ episode' = episode
      BY <2>1 DEF Succeeded, Rejected, CloseEpisode
    <3>2. PICK a \in {"accepted", "settled"} : Resolve(s, a) BY <3>1
    <3>3. /\ stage[s] = "open" /\ attempt[s] = "open" /\ attempt' = [attempt EXCEPT ![s] = a]
          /\ UNCHANGED <<slots, permit, started>>
      BY <3>2 DEF Resolve
    <3>4. NoEpisode.leader = NoSession BY DEF NoEpisode
    <3> QED BY <3>1, <3>3, <3>4
  <2>2. CASE Corrected(s)
    <3>1. /\ Resolve(s, "settled")
          /\ stage' = stage \/ stage' = NotifyAll(stage)
          /\ \/ episode' = episode
             \/ episode.leader = s /\ episode' = [episode EXCEPT !.probing = FALSE, !.ready = TRUE]
      BY <2>2 DEF Corrected, MatchingProbe
    <3> QED BY <1>1, <3>1 DEF Resolve
  <2>3. CASE FailOpensEpisode(s) BY <1>1, <2>3 DEF FailOpensEpisode, NewEpisode
  <2>4. CASE FailRearmsProbe(s) BY <1>1, <2>4 DEF FailRearmsProbe, Resolve, MatchingProbe
  <2>5. CASE FailKeepsOutcome(s) BY <1>1, <2>5 DEF FailKeepsOutcome, Resolve
  <2>6. CASE FailCoalesces(s) BY <1>1, <2>6 DEF FailCoalesces, Resolve
  <2>7. ASSUME NEW q \in BOOLEAN, FailExhausts(s, q)
        PROVE  /\ stage[s] = "open" /\ attempt[s] = "open" /\ stage' = NotifyAll(stage)
               /\ attempt' = [attempt EXCEPT ![s] = "settled"] /\ UNCHANGED <<slots, permit, started>>
               /\ episode'.leader = NoSession
    <3>1. CASE Recovering BY <1>1, <2>7, <3>1 DEF FailExhausts
    <3>2. CASE ~Recovering BY <2>7, <3>2 DEF FailExhausts, NewEpisode
    <3> QED BY <3>1, <3>2
  <2>8. ASSUME NEW q \in BOOLEAN, FailIgnored(s, q)
        PROVE  Resolve(s, "settled") /\ UNCHANGED <<episode, stage>>
    BY <2>8 DEF FailIgnored
  <2>9. CASE \E q \in BOOLEAN : FailExhausts(s, q) BY <2>9, <2>7
  <2>10. CASE \E q \in BOOLEAN : FailIgnored(s, q) BY <2>10, <2>8 DEF Resolve
  <2> QED BY <2>1, <2>2, <2>3, <2>4, <2>5, <2>6, <2>9, <2>10 DEF Failed
<1>4. MovedTo(stage', s, "open") BY <1>2, <1>3
<1> QED BY <1>1, <1>3, <1>4 DEF MovedTo, Resolves, Leaves

\* The latest attempt is closed: its permit goes back.
Closes(s) ==
    /\ stage[s] \in {"open", "abandoning"} /\ stage'[s] = "out" /\ started'[s] = started[s]
    /\ IF attempt[s] = "abandoning" THEN attempt'[s] = "abandoning" ELSE attempt'[s] = "none"
    /\ \A n : <<s, n>> \in slots' => <<s, n>> \in slots /\ n # started[s]

LEMMA CloseMoves ==
    ASSUME Inv, NEW s \in Sessions, CloseResolved(s) \/ FinishAbandoning(s)
    PROVE  Closes(s) /\ \A t \in Sessions : t # s => Leaves(s, t)
<1>1. /\ stage \in [Sessions -> Stages] /\ attempt \in [Sessions -> AttemptStates]
      /\ (stage[s] = "abandoning" => attempt[s] \in {"abandoning", "settled"})
  BY DEF Inv, TypeOK, ControlInv
<1> DEFINE st == [stage EXCEPT ![s] = "out"]
<1>2. MovedTo(st, s, "out") /\ "out" \in Stages BY <1>1, NotifyMoves DEF Stages
<1>3. /\ stage[s] \in {"open", "abandoning"} /\ Release(<<s, started[s]>>, st)
      /\ attempt' = [attempt EXCEPT ![s] = IF @ = "abandoning" THEN @ ELSE "none"]
      /\ UNCHANGED <<episode, nextGen, permit, started, doomed>>
  BY <1>1 DEF CloseResolved, FinishAbandoning
<1> HIDE DEF st
<1>4. /\ stage'[s] = "out" /\ \A n : <<s, n>> \in slots' => <<s, n>> \in slots /\ n # started[s]
      /\ \A t \in Sessions : t # s =>
            /\ \/ stage'[t] = stage[t]
               \/ stage[t] = "waiting" /\ stage'[t] = "woken"
               \/ stage[t] = "queued" /\ stage'[t] = "granted"
            /\ KeepsPermits(t)
  BY <1>2, <1>3, ReleaseMoves
<1> QED BY <1>1, <1>3, <1>4 DEF KeepsPermits, Closes, Leaves

LEMMA KeptMoves ==
    ASSUME Inv, NEW s \in Sessions, NEW k, CloseKept(s, k)
    PROVE  /\ stage[s] = "out" /\ stage'[s] = "out" /\ attempt'[s] = attempt[s] /\ started'[s] = started[s]
           /\ \A n : <<s, n>> \in slots' => <<s, n>> \in slots /\ n # k
           /\ \A t \in Sessions : t # s => Leaves(s, t)
<1>1. stage \in [Sessions -> Stages] BY DEF Inv, TypeOK
<1>2. /\ stage[s] = "out" /\ Release(<<s, k>>, stage)
      /\ UNCHANGED <<episode, nextGen, permit, started, doomed, attempt>>
  BY DEF CloseKept
<1>3. MovedTo(stage, s, "out") /\ "out" \in Stages BY <1>1, <1>2, NotifyMoves DEF Stages
<1>4. /\ stage'[s] = "out" /\ \A n : <<s, n>> \in slots' => <<s, n>> \in slots /\ n # k
      /\ \A t \in Sessions : t # s =>
            /\ \/ stage'[t] = stage[t]
               \/ stage[t] = "waiting" /\ stage'[t] = "woken"
               \/ stage[t] = "queued" /\ stage'[t] = "granted"
            /\ KeepsPermits(t)
  BY <1>2, <1>3, ReleaseMoves
<1> QED BY <1>2, <1>4 DEF KeepsPermits, Leaves

\* The shielded abandonment settles the attempt, or finds it already left.
Abandons(s) ==
    /\ attempt[s] = "abandoning" /\ stage'[s] = stage[s] /\ started'[s] = started[s] /\ slots' = slots
    /\ IF stage[s] = "abandoning" THEN attempt'[s] = "settled" ELSE attempt'[s] = "none"

LEMMA AbandonMoves ==
    ASSUME Inv, NEW s \in Sessions, AbandonmentRuns(s)
    PROVE  Abandons(s) /\ \A t \in Sessions : t # s => Leaves(s, t)
<1>1. /\ stage \in [Sessions -> Stages] /\ attempt \in [Sessions -> AttemptStates]
      /\ episode \in Episodes /\ NoSession \notin Sessions
      /\ stage[s] \in Stages /\ stage[s] # "waiting"
  BY AdmissionAssumption DEF Inv, TypeOK, ControlInv, InsideOpen, AbandonmentRuns
<1> DEFINE st == StagesAfterVacating(s, stage)
<1>2. MovedTo(st, s, stage[s]) BY <1>1, NotifyMoves
<1>3. /\ attempt[s] = "abandoning" /\ stage' = st /\ episode' = EpisodeWithoutProbe(s)
      /\ attempt' = [attempt EXCEPT ![s] = IF stage[s] = "abandoning" THEN "settled" ELSE "none"]
      /\ UNCHANGED <<nextGen, slots, queue, permit, started, doomed>>
  BY DEF AbandonmentRuns
<1> HIDE DEF st
<1> QED BY <1>1, <1>2, <1>3 DEF Episodes, MovedTo, EpisodeWithoutProbe, MatchingProbe, Abandons, Leaves

\* What the caller does to its own session only.
LEMMA CallerMoves ==
    ASSUME Inv, NEW s \in Sessions, OpenAttempt(s) \/ CloseUnresolved(s) \/ KeepOpen(s) \/ Drop(s)
    PROVE  \A t \in Sessions : t # s => Leaves(s, t)
<1>1. stage \in [Sessions -> Stages] /\ attempt \in [Sessions -> AttemptStates] BY DEF Inv, TypeOK
<1>2. /\ \E at \in Stages : stage' = [stage EXCEPT ![s] = at]
      /\ attempt' = attempt \/ \E a \in AttemptStates : attempt' = [attempt EXCEPT ![s] = a]
      /\ UNCHANGED <<episode, slots, permit, started>>
  BY DEF OpenAttempt, CloseUnresolved, KeepOpen, Drop, controller, Stages, AttemptStates
<1> QED BY <1>1, <1>2 DEF Leaves

------------------------------------------------------------------------------
(* Every permit has a holder that will give it back                         *)

\* Where the permits of a session come from.
Traced(s) ==
    /\ \A n : <<s, n>> \in slots =>
          \/ n = started[s] + 1 /\ stage[s] = "granted"
          \/ n = started[s] /\ attempt[s] # "none"
          \/ n = outer[s]
    /\ attempt[s] = "abandoning" /\ stage[s] # "abandoning" => <<s, started[s]>> \notin slots

TraceInv == outer \in [Sessions -> 0..MaxAttempts] /\ \A s \in Sessions : Traced(s)

\* What an execution does with the controller, its kept attempt aside.
PlainUse(s) ==
    \/ Admit(s) \/ CancelOpenAttempt(s)
    \/ Succeeded(s) \/ Rejected(s) \/ Corrected(s)
    \/ \E quotaExhausted \in BOOLEAN : Failed(s, quotaExhausted)
    \/ CloseResolved(s) \/ FinishAbandoning(s) \/ AbandonmentRuns(s)
    \/ OpenAttempt(s) \/ CloseUnresolved(s) \/ Drop(s)

\* A step of an execution, as far as the controller and its kept attempt go.
Steps(s) ==
    \/ outer' = outer /\ (PlainUse(s) \/ UNCHANGED admissionVars)
    \/ KeepOpen(s) /\ outer[s] = 0 /\ outer' = [outer EXCEPT ![s] = started[s]]
    \/ CloseKept(s, outer[s]) /\ outer' = [outer EXCEPT ![s] = 0]

LEMMA ExecutionSteps ==
    ASSUME NEW s \in Sessions, Progress(s) \/ AbandonmentTask(s) \/ Disturbance(s)
    PROVE  Steps(s)
<1> USE DEF Leave, Conclude
<1>1. ASSUME Progress(s) PROVE Steps(s)
  <2>1. CASE Begin(s) BY <2>1 DEF Begin, Steps, PlainUse
  <2>2. CASE Admitted(s) BY <2>2 DEF Admitted, Steps, PlainUse
  <2>3. CASE Refused(s) BY <2>3 DEF Refused, Steps, PlainUse, Admit
  <2>4. CASE CallReturns(s) \/ FirstEvent(s)
    BY <2>4 DEF CallReturns, FirstEvent, runnerVars, Steps, PlainUse
  <2>5. CASE CallRejected(s) \/ StreamRejected(s)
    BY <2>5 DEF CallRejected, StreamRejected, Steps, PlainUse
  <2>6. CASE \E quotaExhausted \in BOOLEAN : CallFails(s, quotaExhausted) \/ StreamFails(s, quotaExhausted)
    <3>1. PICK q \in BOOLEAN : CallFails(s, q) \/ StreamFails(s, q) BY <2>6
    <3>2. Failed(s, q) /\ outer' = outer BY <3>1 DEF CallFails, StreamFails
    <3> QED BY <3>2 DEF Steps, PlainUse
  <2>7. CASE ChatCorrects(s) \/ CodexUnauthorized(s)
    BY <2>7 DEF ChatCorrects, CodexUnauthorized, Steps, PlainUse
  <2>8. CASE MidstreamRecovery(s) BY <2>8 DEF MidstreamRecovery, Steps
  <2>9. CASE CloseAttempt(s) BY <2>9 DEF CloseAttempt, Steps, PlainUse
  <2>10. CASE AbandonAttempt(s) BY <2>10 DEF AbandonAttempt, runnerVars, Steps, PlainUse
  <2>11. CASE AbandonFinishes(s) BY <2>11 DEF AbandonFinishes, Steps, PlainUse
  <2>12. CASE Unwind(s) BY <2>12 DEF Unwind, Steps
  <2>13. CASE OutOfBudget(s) \/ CallOpensStream(s) \/ AcceptedStreamFails(s) \/ StreamEnds(s) \/ StreamCloses(s)
    <3>1. UNCHANGED admissionVars /\ outer' = outer
      BY <2>13 DEF OutOfBudget, CallOpensStream, AcceptedStreamFails, StreamEnds, StreamCloses
    <3> QED BY <3>1 DEF Steps
  <2> QED BY <1>1, <2>1, <2>2, <2>3, <2>4, <2>5, <2>6, <2>7, <2>8, <2>9, <2>10, <2>11, <2>12, <2>13
          DEF Progress
<1>2. ASSUME AbandonmentTask(s) PROVE Steps(s)
  BY <1>2 DEF AbandonmentTask, runnerVars, Steps, PlainUse
<1>3. ASSUME Disturbance(s) PROVE Steps(s)
  <2>1. CASE CancelAdmitting(s) BY <2>1 DEF CancelAdmitting, Steps, PlainUse
  <2>2. CASE CancelCall(s) \/ CancelUnwind(s)
    <3>1. UNCHANGED admissionVars /\ outer' = outer BY <2>2 DEF CancelCall, CancelUnwind
    <3> QED BY <3>1 DEF Steps
  <2>3. CASE \E result \in {"failed", "cancelled"} : AuthFails(s, result)
    <3>1. UNCHANGED admissionVars /\ outer' = outer BY <2>3 DEF AuthFails
    <3> QED BY <3>1 DEF Steps
  <2>4. CASE \E result \in {"failed", "cancelled"} : StreamCloseFails(s, result)
    <3>1. Drop(s) /\ outer' = outer BY <2>4 DEF StreamCloseFails
    <3> QED BY <3>1 DEF Steps, PlainUse
  <2> QED BY <1>3, <2>1, <2>2, <2>3, <2>4 DEF Disturbance
<1> QED BY <1>1, <1>2, <1>3

\* A step of s leaves every other session as Leaves says.
LEMMA OthersAreLeft ==
    ASSUME Inv, NEW s \in Sessions, Steps(s)
    PROVE  \A t \in Sessions : t # s => Leaves(s, t)
<1>1. CASE UNCHANGED admissionVars BY <1>1 DEF admissionVars, controller, Leaves
<1>2. CASE PlainUse(s)
  BY <1>2, AdmitMoves, CancelMoves, ResolveMoves, CloseMoves, AbandonMoves, CallerMoves DEF PlainUse
<1>3. CASE KeepOpen(s) BY <1>3, CallerMoves
<1>4. CASE CloseKept(s, outer[s]) BY <1>4, KeptMoves
<1> QED BY <1>1, <1>2, <1>3, <1>4 DEF Steps

LEMMA TraceKept ==
    ASSUME Inv, TraceInv, NEW s \in Sessions, Steps(s)
    PROVE  Traced(s)'
<1>1. /\ stage[s] \in Stages /\ attempt[s] \in AttemptStates /\ started[s] \in 0..MaxAttempts
      /\ stage \in [Sessions -> Stages] /\ attempt \in [Sessions -> AttemptStates]
      /\ MaxAttempts \in Nat /\ slots \subseteq Sessions \X (1..MaxAttempts)
      /\ (stage[s] \in InsideOpen => attempt[s] = "none")
      /\ (stage[s] = "open" => attempt[s] \in {"open", "accepted", "settled"})
      /\ outer \in [Sessions -> 0..MaxAttempts] /\ Traced(s)
  BY AdmissionAssumption DEF Inv, TypeOK, ControlInv, TraceInv
<1> USE DEF Traced
<1>2. ASSUME UNCHANGED admissionVars, outer' = outer PROVE Traced(s)'
  BY <1>1, <1>2 DEF admissionVars, controller
<1>3. ASSUME outer' = outer, PlainUse(s) PROVE Traced(s)'
  <2>1. CASE Admit(s) \/ CancelOpenAttempt(s)
    <3>1. Inside(s) \/ Claims(s) BY <2>1, AdmitMoves, CancelMoves
    <3>2. CASE Inside(s) BY <1>1, <1>3, <3>2 DEF Inside
    <3>3. CASE Claims(s) BY <1>1, <1>3, <3>3 DEF Claims, InsideOpen
    <3> QED BY <3>1, <3>2, <3>3
  <2>2. CASE \/ Succeeded(s) \/ Rejected(s) \/ Corrected(s)
             \/ \E quotaExhausted \in BOOLEAN : Failed(s, quotaExhausted)
    <3>1. Resolves(s) BY <2>2, ResolveMoves
    <3> QED BY <1>1, <1>3, <3>1 DEF Resolves
  <2>3. CASE CloseResolved(s) \/ FinishAbandoning(s)
    <3>1. Closes(s) BY <2>3, CloseMoves
    <3> QED BY <1>1, <1>3, <3>1 DEF Closes
  <2>4. CASE AbandonmentRuns(s)
    <3>1. Abandons(s) BY <2>4, AbandonMoves
    <3> QED BY <1>1, <1>3, <3>1 DEF Abandons
  <2>5. CASE OpenAttempt(s) BY <1>1, <1>3, <2>5 DEF OpenAttempt, controller
  <2>6. CASE CloseUnresolved(s) BY <1>1, <1>3, <2>6 DEF CloseUnresolved, controller
  <2>7. CASE Drop(s) BY <1>1, <1>3, <2>7 DEF Drop, controller
  <2> QED BY <1>3, <2>1, <2>2, <2>3, <2>4, <2>5, <2>6, <2>7 DEF PlainUse
<1>4. ASSUME KeepOpen(s), outer[s] = 0, outer' = [outer EXCEPT ![s] = started[s]] PROVE Traced(s)'
  BY <1>1, <1>4 DEF KeepOpen, controller
<1>5. ASSUME CloseKept(s, outer[s]), outer' = [outer EXCEPT ![s] = 0] PROVE Traced(s)'
  <2>1. /\ stage'[s] = stage[s] /\ attempt'[s] = attempt[s] /\ started'[s] = started[s]
        /\ \A n : <<s, n>> \in slots' => <<s, n>> \in slots /\ n # outer[s]
    BY <1>5, KeptMoves
  <2> QED BY <1>1, <1>5, <2>1
<1> QED BY <1>2, <1>3, <1>4, <1>5 DEF Steps

LEMMA TraceStep == Inv /\ TraceInv /\ [RunnersNext]_vars => TraceInv'
<1> SUFFICES ASSUME Inv, TraceInv, [RunnersNext]_vars PROVE TraceInv'
  OBVIOUS
<1>1. ASSUME NEW s \in Sessions, Progress(s) \/ AbandonmentTask(s) \/ Disturbance(s)
      PROVE  TraceInv'
  <2>1. Steps(s) /\ Traced(s)' /\ \A t \in Sessions : t # s => Leaves(s, t)
    BY <1>1, ExecutionSteps, TraceKept, OthersAreLeft
  <2>2. /\ outer' \in [Sessions -> 0..MaxAttempts]
        /\ \A t \in Sessions : t # s => outer'[t] = outer[t]
    <3>1. /\ outer \in [Sessions -> 0..MaxAttempts] /\ started[s] \in 0..MaxAttempts
          /\ MaxAttempts \in Nat
      BY AdmissionAssumption DEF TraceInv, Inv, TypeOK
    <3>2. outer' = outer \/ \E n \in 0..MaxAttempts : outer' = [outer EXCEPT ![s] = n]
      BY <2>1, <3>1 DEF Steps
    <3> QED BY <3>1, <3>2
  <2>3. ASSUME NEW t \in Sessions, t # s PROVE Traced(t)'
    <3>1. Leaves(s, t) /\ Traced(t) /\ outer'[t] = outer[t] /\ started[t] \in Nat
      BY <2>1, <2>2, <2>3, AdmissionAssumption DEF TraceInv, Inv, TypeOK
    <3> QED BY <3>1 DEF Leaves, Traced
  <2> QED BY <2>1, <2>2, <2>3 DEF TraceInv
<1>2. ASSUME Clock \/ Quiet \/ UNCHANGED vars PROVE TraceInv'
  <2>1. UNCHANGED <<slots, stage, attempt, started, outer>>
    BY <1>2 DEF Clock, BackoffElapses, CooldownElapses, Quiet, vars, admissionVars, controller, runnerVars
  <2> QED BY <2>1 DEF TraceInv, Traced
<1> QED BY <1>1, <1>2 DEF RunnersNext

\* Every permit of the bulkhead belongs to an execution on its way upstream, to
\* an attempt that is still to be closed, or to the one a mid-stream recovery
\* keeps open: no retry, cancellation or failed close makes one untraceable.
THEOREM TraceablePermits == Spec => []PermitsAreTraceable
<1>1. RunnersInit => Inv /\ TraceInv
  <2> SUFFICES ASSUME RunnersInit PROVE Inv /\ TraceInv
    OBVIOUS
  <2>1. Inv BY InvInitially DEF RunnersInit
  <2>2. MaxAttempts \in Nat BY AdmissionAssumption
  <2>3. TraceInv BY <2>2 DEF RunnersInit, Init, TraceInv, Traced
  <2> QED BY <2>1, <2>3
<1>2. Inv /\ TraceInv /\ [RunnersNext]_vars => Inv' /\ TraceInv'
  BY RunnersStep, InvStep, TraceStep
<1>3. Inv /\ TraceInv => PermitsAreTraceable
  <2> SUFFICES ASSUME Inv, TraceInv, NEW slot \in slots
               PROVE  \/ slot[2] = started[slot[1]] + 1 /\ stage[slot[1]] = "granted"
                      \/ slot[2] = started[slot[1]] /\ attempt[slot[1]] # "none"
                      \/ slot[2] = outer[slot[1]]
    BY DEF PermitsAreTraceable
  <2>1. slot[1] \in Sessions /\ slot = <<slot[1], slot[2]>> BY DEF Inv, TypeOK
  <2> QED BY <2>1 DEF TraceInv, Traced
<1> QED BY <1>1, <1>2, <1>3, PTL DEF Spec

\* The runners' own variables keep their types.
RunnersTyped ==
    /\ phase \in [Sessions -> Phases]
    /\ plan \in [Sessions -> {"again", "stop"}]
    /\ renewed \in [Sessions -> BOOLEAN]
    /\ outcome \in [Sessions -> {"none", "ok", "failed", "cancelled"}]

LEMMA RunnersTypedStep == RunnersTyped /\ [RunnersNext]_vars => RunnersTyped'
<1> SUFFICES ASSUME RunnersTyped, [RunnersNext]_vars PROVE RunnersTyped'
  OBVIOUS
<1> USE DEF RunnersTyped, Go
<1>1. ASSUME NEW s \in Sessions, NEW result \in {"ok", "failed", "cancelled"}, Leave(s, result)
      PROVE  RunnersTyped'
  <2>1. AfterLoop(s) \in Phases BY DEF AfterLoop, Phases
  <2> QED BY <1>1, <2>1 DEF Leave
<1>2. ASSUME NEW s \in Sessions, NEW block \in {"closing", "draining"}, NEW again,
             NEW result \in {"ok", "failed", "cancelled", "none"}, Conclude(s, block, again, result)
      PROVE  RunnersTyped'
  <2>1. /\ block \in Phases
        /\ phase' = [phase EXCEPT ![s] = block]
        /\ plan' = [plan EXCEPT ![s] = IF again THEN "again" ELSE "stop"]
        /\ outcome' = outcome \/ outcome' = [outcome EXCEPT ![s] = result]
        /\ renewed' = renewed
    BY <1>2 DEF Conclude, Phases
  <2> QED BY <2>1
<1>3. ASSUME NEW s \in Sessions, NEW to \in Phases, Go(s, to), UNCHANGED <<plan, renewed, outcome>>
      PROVE  RunnersTyped'
  BY <1>3
<1>4. ASSUME NEW s \in Sessions, Progress(s) PROVE RunnersTyped'
  <2>1. CASE Begin(s) \/ CallOpensStream(s) \/ MidstreamRecovery(s) \/ StreamCloses(s) \/ Unwind(s)
    <3>1. /\ \E to \in {"admitting", "streaming", "between", "closing", "ended"} : Go(s, to)
          /\ UNCHANGED <<plan, renewed, outcome>>
      BY <2>1 DEF Begin, CallOpensStream, MidstreamRecovery, StreamCloses, Unwind
    <3> QED BY <1>3, <3>1 DEF Phases
  <2>2. CASE Admitted(s) BY <2>2 DEF Admitted, Phases
  <2>3. CASE OutOfBudget(s) \/ Refused(s) BY <1>1, <2>3 DEF OutOfBudget, Refused
  <2>4. CASE CallReturns(s) \/ CallRejected(s) \/ StreamRejected(s) \/ StreamEnds(s)
    BY <1>2, <2>4 DEF CallReturns, CallRejected, CallBlocks, StreamRejected, StreamEnds
  <2>5. ASSUME NEW q \in BOOLEAN, CallFails(s, q) \/ StreamFails(s, q) PROVE RunnersTyped'
    BY <1>2, <2>5 DEF CallFails, CallBlocks, StreamFails
  <2>6. CASE ChatCorrects(s) \/ AcceptedStreamFails(s)
    BY <1>2, <2>6 DEF ChatCorrects, AcceptedStreamFails
  <2>7. CASE CodexUnauthorized(s) BY <2>7 DEF CodexUnauthorized, Phases
  <2>8. CASE FirstEvent(s) \/ AbandonAttempt(s) BY <2>8 DEF FirstEvent, AbandonAttempt, runnerVars
  <2>9. CASE CloseAttempt(s) \/ AbandonFinishes(s)
    <3>1. (IF plan[s] = "again" THEN "between" ELSE AfterLoop(s)) \in Phases /\ AfterLoop(s) \in Phases
      BY DEF AfterLoop, Phases
    <3> QED BY <1>3, <2>9, <3>1 DEF CloseAttempt, AbandonFinishes
  <2> QED BY <1>4, <2>1, <2>2, <2>3, <2>4, <2>5, <2>6, <2>7, <2>8, <2>9 DEF Progress
<1>5. ASSUME NEW s \in Sessions, Disturbance(s) PROVE RunnersTyped'
  <2>1. CASE CancelAdmitting(s) BY <1>1, <2>1 DEF CancelAdmitting
  <2>2. CASE CancelCall(s) BY <1>2, <2>2 DEF CancelCall, CallBlocks
  <2>3. CASE CancelUnwind(s) BY <2>3 DEF CancelUnwind, Phases
  <2>4. ASSUME NEW result \in {"failed", "cancelled"}, AuthFails(s, result) \/ StreamCloseFails(s, result)
        PROVE  RunnersTyped'
    BY <1>1, <2>4 DEF AuthFails, StreamCloseFails
  <2> QED BY <1>5, <2>1, <2>2, <2>3, <2>4 DEF Disturbance
<1>6. CASE (\E s \in Sessions : AbandonmentTask(s)) \/ Clock \/ Quiet \/ UNCHANGED vars
  <2>1. UNCHANGED runnerVars BY <1>6 DEF AbandonmentTask, Clock, Quiet, vars
  <2> QED BY <2>1 DEF runnerVars
<1> QED BY <1>4, <1>5, <1>6 DEF RunnersNext

\* Every variable of an execution, and of the controller it shares, stays in range.
THEOREM RunnersTyping == Spec => []RunnersTypeOK
<1>1. RunnersInit => Inv /\ TraceInv /\ RunnersTyped
  <2> SUFFICES ASSUME RunnersInit PROVE Inv /\ TraceInv /\ RunnersTyped
    OBVIOUS
  <2>1. Inv BY InvInitially DEF RunnersInit
  <2>2. MaxAttempts \in Nat BY AdmissionAssumption
  <2>3. TraceInv BY <2>2 DEF RunnersInit, Init, TraceInv, Traced
  <2>4. RunnersTyped BY DEF RunnersInit, RunnersTyped, Phases
  <2> QED BY <2>1, <2>3, <2>4
<1>2. Inv /\ TraceInv /\ RunnersTyped /\ [RunnersNext]_vars => Inv' /\ TraceInv' /\ RunnersTyped'
  BY RunnersStep, InvStep, TraceStep, RunnersTypedStep
<1>3. Inv /\ TraceInv /\ RunnersTyped => RunnersTypeOK
  BY DEF Inv, TraceInv, RunnersTyped, RunnersTypeOK
<1> QED BY <1>1, <1>2, <1>3, PTL DEF Spec

------------------------------------------------------------------------------
(* Executions that are cancelled only where the controller can see it       *)

\* Who shares a terminal outcome has no open attempt, and does not lead.
DoomInv ==
    /\ \A s \in Sessions : doomed[s] \/ s \in episode.waiters => attempt[s] # "open"
    /\ \A s \in Sessions : episode.leader = s => ~doomed[s]

\* Outcomes, waiters and the lead stay as they are, but for s leaving the waiters
\* or the lead.
DoomUntouched(s) ==
    /\ doomed' = doomed
    /\ episode'.waiters \subseteq episode.waiters
    /\ episode'.leader \in {episode.leader, NoSession}

LEMMA DoomStep == Inv /\ DoomInv /\ [Next]_admissionVars => DoomInv'
<1> SUFFICES ASSUME Inv, DoomInv, [Next]_admissionVars PROVE DoomInv'
  OBVIOUS
<1>1. /\ episode \in Episodes /\ NoSession \notin Sessions
      /\ attempt \in [Sessions -> AttemptStates] /\ doomed \in [Sessions -> BOOLEAN]
      /\ (episode.cooldown # "none" => episode.leader = NoSession)
      /\ \A s \in Sessions : stage[s] \in InsideOpen => attempt[s] = "none"
  BY AdmissionAssumption DEF Inv, TypeOK, RecoveryInv, EpisodeInv, ControlInv
<1> USE DEF DoomInv, Episodes
<1>2. ASSUME NEW s \in Sessions, DoomUntouched(s),
             \/ attempt' = attempt
             \/ \E a \in AttemptStates \ {"open"} : attempt' = [attempt EXCEPT ![s] = a]
      PROVE  DoomInv'
  BY <1>1, <1>2 DEF DoomUntouched
<1>4. ASSUME NEW s \in Sessions, Admit(s) PROVE DoomInv'
  <2>1. CASE GateRefuses(s) \/ GatePasses(s) \/ WindowQueues(s)
    BY <1>1, <1>2, <2>1 DEF GateRefuses, GatePasses, WindowQueues, controller, DoomUntouched
  <2>2. CASE GateReopens(s) \/ GateLeads(s)
    <3>1. /\ doomed' = doomed /\ attempt' = attempt /\ ~doomed[s]
          /\ episode' = [NewEpisode(s, TRUE, "none") EXCEPT !.probing = NewEpisode(s, TRUE, "none").ready]
             \/ episode' = [[episode EXCEPT !.leader = s, !.waiters = @ \ {s}] EXCEPT !.probing = episode'.probing]
      BY <1>1, <2>2 DEF GateReopens, GateLeads, Lead
    <3>2. CASE episode' = [NewEpisode(s, TRUE, "none") EXCEPT !.probing = NewEpisode(s, TRUE, "none").ready]
      BY <1>1, <3>1, <3>2 DEF NewEpisode
    <3>3. CASE episode' = [[episode EXCEPT !.leader = s, !.waiters = @ \ {s}] EXCEPT !.probing = episode'.probing]
      <4>1. episode'.leader = s /\ episode'.waiters \subseteq episode.waiters BY <1>1, <3>3
      <4> QED BY <1>1, <3>1, <4>1
    <3> QED BY <3>1, <3>2, <3>3
  <2>3. CASE GateWaits(s)
    <3>1. stage[s] \in InsideOpen BY <2>3 DEF GateWaits, AtGate, InsideOpen
    <3>2. /\ doomed' = doomed /\ attempt' = attempt /\ episode'.leader = episode.leader
          /\ episode'.waiters = episode.waiters \cup {s} /\ attempt[s] = "none"
      BY <1>1, <2>3, <3>1 DEF GateWaits
    <3> QED BY <1>1, <3>2
  <2>4. CASE LeaderWakes(s)
    BY <1>1, <1>2, <2>4 DEF LeaderWakes, DoomUntouched
  <2>5. CASE WindowRejects(s) \/ SlotRejects(s)
    BY <1>1, <1>2, <2>5 DEF WindowRejects, SlotRejects, EpisodeWithoutProbe, DoomUntouched
  <2>6. CASE WindowAdmits(s) \/ SlotAdmits(s)
    <3>1. /\ episode' = episode /\ doomed' = doomed /\ attempt' = [attempt EXCEPT ![s] = "open"]
          /\ stage[s] \in {"window", "granted"}
      BY <2>6 DEF WindowAdmits, SlotAdmits, Claim, controller
    <3>2. ~doomed[s] /\ s \notin episode.waiters BY <3>1 DEF Inv, OutcomeInv
    <3> QED BY <1>1, <3>1, <3>2
  <2> QED BY <1>4, <2>1, <2>2, <2>3, <2>4, <2>5, <2>6 DEF Admit
<1>5. ASSUME NEW s \in Sessions, CancelOpenAttempt(s) \/ AbandonmentRuns(s) PROVE DoomInv'
  <2>1. /\ doomed' = doomed
        /\ \/ episode' = episode \/ episode' = [episode EXCEPT !.leader = NoSession]
           \/ episode' = [episode EXCEPT !.waiters = @ \ {s}]
           \/ episode' = [episode EXCEPT !.leader = NoSession, !.probing = FALSE, !.ready = TRUE]
        /\ \/ attempt' = attempt
           \/ attempt' = [attempt EXCEPT ![s] = IF stage[s] = "abandoning" THEN "settled" ELSE "none"]
    BY <1>5 DEF CancelOpenAttempt, CancelWaiter, CancelLeader, CancelInWindow, CancelQueued,
                CancelGranted, AbandonmentRuns, EpisodeWithoutProbe
  <2>2. CASE episode' = episode BY <1>2, <2>1, <2>2 DEF DoomUntouched, AttemptStates
  <2>3. CASE episode' = [episode EXCEPT !.leader = NoSession]
    BY <1>1, <1>2, <2>1, <2>3 DEF DoomUntouched, AttemptStates
  <2>4. CASE episode' = [episode EXCEPT !.waiters = @ \ {s}]
    BY <1>1, <1>2, <2>1, <2>4 DEF DoomUntouched, AttemptStates
  <2>5. CASE episode' = [episode EXCEPT !.leader = NoSession, !.probing = FALSE, !.ready = TRUE]
    BY <1>1, <1>2, <2>1, <2>5 DEF DoomUntouched, AttemptStates
  <2> QED BY <2>1, <2>2, <2>3, <2>4, <2>5
<1>6. ASSUME NEW s \in Sessions,
             \/ OpenAttempt(s) \/ CloseResolved(s) \/ CloseUnresolved(s) \/ FinishAbandoning(s)
             \/ KeepOpen(s) \/ Drop(s) \/ \E n \in 1..MaxAttempts : CloseKept(s, n)
      PROVE  DoomInv'
  <2>1. /\ doomed' = doomed /\ episode' = episode
        /\ \/ attempt' = attempt
           \/ \E a \in {"none", "abandoning"} : attempt' = [attempt EXCEPT ![s] = a]
           \/ attempt' = [attempt EXCEPT ![s] = IF @ = "settled" THEN "none" ELSE @]
    BY <1>6 DEF OpenAttempt, CloseResolved, CloseUnresolved, FinishAbandoning, KeepOpen, Drop,
                CloseKept, controller
  <2> QED BY <1>1, <2>1
<1>7. ASSUME NEW s \in Sessions,
             \/ Succeeded(s) \/ Rejected(s) \/ Corrected(s)
             \/ \E quotaExhausted \in BOOLEAN : Failed(s, quotaExhausted)
      PROVE  DoomInv'
  <2>1. ASSUME NEW a \in {"accepted", "settled"}, Resolve(s, a)
        PROVE  /\ attempt[s] = "open" /\ attempt' = [attempt EXCEPT ![s] = a]
               /\ ~doomed[s] /\ s \notin episode.waiters
    BY <2>1 DEF Resolve
  <2>2. CASE Succeeded(s) \/ Rejected(s)
    <3>1. PICK a \in {"accepted", "settled"} : Resolve(s, a) BY <2>2 DEF Succeeded, Rejected
    <3>2. doomed' = doomed /\ (episode' = NoEpisode \/ episode' = episode)
      BY <2>2 DEF Succeeded, Rejected, CloseEpisode
    <3>3. NoEpisode.leader = NoSession /\ NoEpisode.waiters = {} BY DEF NoEpisode
    <3> QED BY <1>1, <2>1, <3>1, <3>2, <3>3
  <2>3. CASE Corrected(s)
    <3>1. Resolve(s, "settled") /\ doomed' = doomed
          /\ episode'.leader = episode.leader /\ episode'.waiters = episode.waiters
      BY <1>1, <2>3 DEF Corrected
    <3> QED BY <1>1, <2>1, <3>1
  <2>4. CASE FailOpensEpisode(s)
    <3>1. /\ doomed' = doomed /\ episode'.leader = s /\ episode'.waiters = {} /\ attempt[s] = "open"
          /\ attempt' = [attempt EXCEPT ![s] = "settled"]
      BY <2>4 DEF FailOpensEpisode, NewEpisode
    <3> QED BY <1>1, <3>1
  <2>5. CASE FailRearmsProbe(s)
    <3>1. Resolve(s, "settled") /\ doomed' = doomed
          /\ episode'.leader = episode.leader /\ episode'.waiters = episode.waiters
      BY <1>1, <2>5 DEF FailRearmsProbe
    <3> QED BY <1>1, <2>1, <3>1
  <2>6. CASE FailKeepsOutcome(s)
    <3>1. Resolve(s, "settled") /\ doomed' = [doomed EXCEPT ![s] = TRUE] /\ episode' = episode
          /\ episode.cooldown # "none"
      BY <2>6 DEF FailKeepsOutcome
    <3> QED BY <1>1, <2>1, <3>1
  <2>7. CASE FailCoalesces(s)
    <3>1. Resolve(s, "settled") /\ doomed' = doomed
          /\ episode' = [episode EXCEPT !.waiters = @ \cup {s}]
      BY <2>7 DEF FailCoalesces
    <3> QED BY <1>1, <2>1, <3>1
  <2>8. ASSUME NEW q \in BOOLEAN, FailExhausts(s, q) PROVE DoomInv'
    <3>1. /\ attempt' = [attempt EXCEPT ![s] = "settled"]
          /\ doomed' = [t \in Sessions |-> doomed[t] \/ t \in episode.waiters]
      BY <2>8 DEF FailExhausts
    <3>2. episode'.leader = NoSession /\ episode'.waiters = {}
      <4>1. CASE Recovering BY <1>1, <2>8, <4>1 DEF FailExhausts
      <4>2. CASE ~Recovering BY <2>8, <4>2 DEF FailExhausts, NewEpisode
      <4> QED BY <4>1, <4>2
    <3> QED BY <1>1, <3>1, <3>2
  <2>9. ASSUME NEW q \in BOOLEAN, FailIgnored(s, q) PROVE DoomInv'
    <3>1. Resolve(s, "settled") /\ doomed' = doomed /\ episode' = episode
      BY <2>9 DEF FailIgnored
    <3> QED BY <1>1, <2>1, <3>1
  <2> QED BY <1>7, <2>2, <2>3, <2>4, <2>5, <2>6, <2>7, <2>8, <2>9 DEF Failed
<1>8. CASE BackoffElapses \/ CooldownElapses
  <2>1. doomed' = doomed /\ attempt' = attempt /\ episode'.leader = episode.leader
        /\ episode'.waiters = episode.waiters
    BY <1>1, <1>8 DEF BackoffElapses, CooldownElapses
  <2> QED BY <1>1, <2>1
<1>9. CASE UNCHANGED admissionVars BY <1>9 DEF admissionVars, controller
<1> QED BY <1>4, <1>5, <1>6, <1>7, <1>8, <1>9 DEF Next, Use

\* How an execution that leads a recovery stands with the controller until its
\* probe is settled.
LeadsInside(s) ==
    \/ stage[s] \in {"gate", "leading"}
    \/ MatchingProbe(s) /\ (stage[s] \in {"window", "queued", "granted"} \/ attempt[s] = "open")

LEMMA AdmitLeads ==
    ASSUME Inv, NEW s \in Sessions, Admit(s),
           episode.leader = s => ~doomed[s] /\ LeadsInside(s),
           episode'.leader = s
    PROVE  LeadsInside(s)'
<1>1. /\ stage \in [Sessions -> Stages] /\ attempt \in [Sessions -> AttemptStates]
      /\ permit \in [Sessions -> Permits] /\ episode \in Episodes /\ nextGen \in Nat \ {0}
      /\ (episode.cooldown # "none" => episode.leader = NoSession)
      /\ (~Recovering => episode.leader = NoSession)
      /\ NoSession \notin Sessions
      /\ (stage[s] \in InsideOpen => attempt[s] = "none")
  BY AdmissionAssumption DEF Inv, TypeOK, RecoveryInv, EpisodeInv, ControlInv, NoEpisode
<1> USE DEF Episodes, Permits, LeadsInside
<1>2. CASE GateRefuses(s) \/ GatePasses(s) \/ GateWaits(s)
  <2>1. episode.leader # s
    BY <1>1, <1>2 DEF GateRefuses, GatePasses, GateWaits
  <2>2. episode'.leader = episode.leader
    BY <1>1, <1>2 DEF GateRefuses, GatePasses, GateWaits, controller
  <2> QED BY <2>1, <2>2
<1>3. CASE GateReopens(s) \/ GateLeads(s)
  <2>1. PICK e \in {NewEpisode(s, TRUE, "none"), [episode EXCEPT !.leader = s, !.waiters = @ \ {s}]} :
           Lead(s, e) /\ (e = NewEpisode(s, TRUE, "none") \/ Recovering)
    BY <1>3 DEF GateReopens, GateLeads
  <2>2. /\ e.gen # 0 /\ [e EXCEPT !.probing = e.ready].gen = e.gen
        /\ [e EXCEPT !.probing = e.ready].leader = s
        /\ e.ready => [e EXCEPT !.probing = e.ready].probing
    <3>1. CASE e = NewEpisode(s, TRUE, "none") BY <1>1, <3>1 DEF NewEpisode
    <3>2. CASE e = [episode EXCEPT !.leader = s, !.waiters = @ \ {s}] /\ Recovering
      BY <1>1, <3>2 DEF Recovering
    <3> QED BY <2>1, <3>1, <3>2
  <2>3. /\ episode' = [e EXCEPT !.probing = e.ready]
        /\ permit' = [permit EXCEPT ![s] = [gen |-> e.gen, probe |-> e.ready]]
        /\ stage' = [stage EXCEPT ![s] = IF e.ready THEN "window" ELSE "leading"]
    BY <2>1 DEF Lead
  <2>4. CASE e.ready
    <3>1. /\ episode'.gen = e.gen /\ episode'.leader = s /\ episode'.probing
          /\ permit'[s].gen = e.gen /\ permit'[s].probe /\ stage'[s] = "window"
      BY <1>1, <2>2, <2>3, <2>4
    <3> QED BY <2>2, <3>1 DEF MatchingProbe, Recovering
  <2>5. CASE ~e.ready BY <1>1, <2>3, <2>5
  <2> QED BY <2>4, <2>5
<1>4. CASE LeaderWakes(s)
  <2>1. SleeperLeads BY DEF Inv, RecoveryInv
  <2>2. /\ stage[s] = "leading" /\ episode.leader = s /\ episode.gen = permit[s].gen /\ episode.gen # 0
        /\ episode' = [episode EXCEPT !.probing = TRUE]
        /\ permit' = [permit EXCEPT ![s].probe = TRUE]
        /\ stage' = [stage EXCEPT ![s] = "window"]
    BY <1>1, <1>4, <2>1 DEF LeaderWakes, SleeperLeads, Recovering
  <2>3. /\ episode'.gen = episode.gen /\ episode'.leader = s /\ episode'.probing
        /\ permit'[s].gen = permit[s].gen /\ permit'[s].probe /\ stage'[s] = "window"
    BY <1>1, <2>2
  <2> QED BY <2>2, <2>3 DEF MatchingProbe, Recovering
<1>5. CASE WindowRejects(s) \/ SlotRejects(s)
  <2>1. stage[s] \in {"window", "granted"} /\ episode' = EpisodeWithoutProbe(s)
    BY <1>5 DEF WindowRejects, SlotRejects
  <2>2. MatchingProbe(s) => episode'.leader = NoSession
    BY <1>1, <2>1 DEF EpisodeWithoutProbe
  <2>3. ~MatchingProbe(s) => episode' = episode BY <2>1 DEF EpisodeWithoutProbe
  <2> QED BY <1>1, <2>1, <2>2, <2>3
<1>6. CASE WindowAdmits(s) \/ WindowQueues(s) \/ SlotAdmits(s)
  <2>1. /\ stage[s] \in {"window", "granted"} /\ UNCHANGED <<episode, permit>>
        /\ stage'[s] \in {"open", "queued"}
        /\ stage'[s] = "open" => attempt'[s] = "open"
    BY <1>1, <1>6 DEF WindowAdmits, WindowQueues, SlotAdmits, Claim, controller
  <2>2. MatchingProbe(s) BY <1>1, <2>1, AdmissionAssumption DEF InsideOpen
  <2>3. MatchingProbe(s)' BY <2>1, <2>2 DEF MatchingProbe, Recovering
  <2> QED BY <2>1, <2>3
<1> QED BY <1>2, <1>3, <1>4, <1>5, <1>6 DEF Admit

LEMMA CancelLeads ==
    ASSUME Inv, NEW s \in Sessions, CancelOpenAttempt(s),
           episode.leader = s => LeadsInside(s)
    PROVE  episode'.leader # s
<1>1. /\ episode \in Episodes /\ NoSession \notin Sessions
      /\ (stage[s] \in InsideOpen => attempt[s] = "none")
  BY AdmissionAssumption DEF Inv, TypeOK, ControlInv
<1> USE DEF Episodes, LeadsInside
<1>2. CASE CancelWaiter(s) BY <1>1, <1>2 DEF CancelWaiter, InsideOpen
<1>3. CASE CancelLeader(s)
  <2>1. SleeperLeads BY DEF Inv, RecoveryInv
  <2> QED BY <1>1, <1>3, <2>1 DEF CancelLeader, SleeperLeads
<1>4. CASE CancelInWindow(s) \/ CancelQueued(s) \/ CancelGranted(s)
  <2>1. stage[s] \in {"window", "queued", "granted"} /\ episode' = EpisodeWithoutProbe(s)
    BY <1>4 DEF CancelInWindow, CancelQueued, CancelGranted
  <2>2. MatchingProbe(s) => episode'.leader = NoSession
    BY <1>1, <2>1 DEF EpisodeWithoutProbe
  <2>3. ~MatchingProbe(s) => episode' = episode BY <2>1 DEF EpisodeWithoutProbe
  <2> QED BY <1>1, <2>1, <2>2, <2>3
<1> QED BY <1>2, <1>3, <1>4 DEF CancelOpenAttempt

\* Who still leads once its attempt is resolved has a retry left.
LEMMA ResolveLeads ==
    ASSUME Inv, NEW s \in Sessions, episode.leader = s => MatchingProbe(s)
    PROVE  /\ Succeeded(s) \/ Rejected(s) => episode'.leader # s
           /\ \A q \in BOOLEAN : Failed(s, q) /\ episode'.leader = s =>
                 ~q /\ started[s] < MaxAttempts /\ attempt'[s] = "settled"
<1>1. /\ episode \in Episodes /\ NoSession \notin Sessions
      /\ attempt \in [Sessions -> AttemptStates]
      /\ (episode.cooldown # "none" => episode.leader = NoSession)
  BY AdmissionAssumption DEF Inv, TypeOK, RecoveryInv, EpisodeInv
<1> USE DEF Episodes
<1>2. Succeeded(s) \/ Rejected(s) => episode'.leader # s
  <2>1. NoEpisode.leader = NoSession BY DEF NoEpisode
  <2> QED BY <1>1, <2>1 DEF Succeeded, Rejected, CloseEpisode
<1>3. ASSUME NEW q \in BOOLEAN, Failed(s, q), episode'.leader = s
      PROVE  ~q /\ started[s] < MaxAttempts /\ attempt'[s] = "settled"
  <2>1. CASE ~q /\ (FailOpensEpisode(s) \/ FailRearmsProbe(s))
    BY <1>1, <2>1 DEF FailOpensEpisode, FailRearmsProbe, Resolve, CanRetry
  <2>2. ASSUME FailKeepsOutcome(s) \/ FailCoalesces(s) \/ FailIgnored(s, q) PROVE FALSE
    BY <1>1, <1>3, <2>2 DEF FailKeepsOutcome, FailCoalesces, FailIgnored
  <2>3. ASSUME FailExhausts(s, q) PROVE FALSE
    <3>1. CASE Recovering BY <1>1, <1>3, <2>3, <3>1 DEF FailExhausts
    <3>2. CASE ~Recovering BY <1>1, <1>3, <2>3, <3>2 DEF FailExhausts, NewEpisode
    <3> QED BY <3>1, <3>2
  <2> QED BY <1>3, <2>1, <2>2, <2>3 DEF Failed
<1> QED BY <1>2, <1>3

\* How far an execution is, and what it holds meanwhile.
Phased(s) ==
    /\ outer[s] = 0 /\ phase[s] # "unwinding"
    /\ phase[s] \in {"new", "between", "ended"} => stage[s] = "out"
    /\ phase[s] \in {"new", "between"} => attempt[s] = "none"
    /\ phase[s] = "ended" => attempt[s] \in {"none", "abandoning"}
    /\ phase[s] = "admitting" => stage[s] \in InsideOpen
    /\ phase[s] \in {"calling", "streaming", "draining"} => stage[s] = "open"
    /\ phase[s] = "calling" => attempt[s] = "open"
    /\ phase[s] = "streaming" => attempt[s] \in {"open", "accepted"}
    /\ phase[s] = "closing" => stage[s] \in {"open", "abandoning"}
    /\ phase[s] = "between" => HasBudget(s)
    /\ phase[s] \in {"draining", "closing"} /\ plan[s] = "again" =>
          HasBudget(s) /\ stage[s] = "open" /\ attempt[s] \in {"accepted", "settled"}

\* What the leader of a recovery is doing: it gets its probe, or waits to; it is
\* about to give it back; or, with its probe settled, it goes on to the next.
Leads(s) ==
    \/ LeadsInside(s)
    \/ MatchingProbe(s) /\ attempt[s] = "abandoning"
    \/ attempt[s] = "settled" /\ stage[s] = "open" /\ phase[s] \in {"draining", "closing"} /\ plan[s] = "again"
    \/ phase[s] = "between"

Clean(s) == Phased(s) /\ (episode.leader = s => Leads(s))

CleanInv ==
    /\ phase \in [Sessions -> Phases] /\ plan \in [Sessions -> {"again", "stop"}]
    /\ \A s \in Sessions : Clean(s)

LEMMA CleanOthers ==
    ASSUME Inv, NEW s \in Sessions, NEW t \in Sessions, Clean(t), Leaves(s, t),
           phase'[t] = phase[t], plan'[t] = plan[t], outer'[t] = outer[t]
    PROVE  Clean(t)'
<1>1. Phased(t)' BY DEF Clean, Phased, Leaves, HasBudget, InsideOpen
<1>2. ASSUME episode'.leader = t PROVE Leads(t)'
  <2>1. Leads(t) /\ (MatchingProbe(t) => MatchingProbe(t)')
    BY <1>2 DEF Clean, Leaves, MatchingProbe, Recovering
  <2> QED BY <2>1 DEF Leads, LeadsInside, Leaves
<1> QED BY <1>1, <1>2 DEF Clean

\* The steps of an execution that cancellations, but no other events, disturb.
LEMMA CleanProgress ==
    ASSUME Inv, DoomInv, CleanInv, Events \subseteq {"cancel"}, NEW s \in Sessions,
           Progress(s) \/ AbandonmentTask(s) \/ Disturbance(s)
    PROVE  /\ Clean(s)'
           /\ phase' \in [Sessions -> Phases] /\ plan' \in [Sessions -> {"again", "stop"}]
           /\ \A t \in Sessions : t # s => phase'[t] = phase[t] /\ plan'[t] = plan[t] /\ outer'[t] = outer[t]
<1>1. /\ phase \in [Sessions -> Phases] /\ plan \in [Sessions -> {"again", "stop"}] /\ Clean(s)
      /\ attempt \in [Sessions -> AttemptStates] /\ stage \in [Sessions -> Stages]
      /\ started[s] \in 0..MaxAttempts /\ MaxAttempts \in Nat /\ NoSession \notin Sessions
      /\ (stage[s] \in InsideOpen => attempt[s] = "none" /\ started[s] < MaxAttempts)
      /\ (stage[s] = "open" => attempt[s] \in {"open", "accepted", "settled"})
      /\ (stage[s] = "abandoning" => attempt[s] \in {"abandoning", "settled"})
      /\ (episode.leader = s => ~doomed[s])
  BY AdmissionAssumption DEF Inv, TypeOK, ControlInv, DoomInv, CleanInv
<1>2. phase[s] \in Phases /\ plan[s] \in {"again", "stop"} BY <1>1
\* What the environment does not do.
<1>3. /\ ~ChatCorrects(s) /\ ~CodexUnauthorized(s) /\ ~MidstreamRecovery(s) /\ ~CancelUnwind(s)
      /\ \A result : ~AuthFails(s, result) /\ ~StreamCloseFails(s, result)
      /\ ~Unwind(s) /\ ~OutOfBudget(s)
  BY <1>1 DEF ChatCorrects, CodexUnauthorized, MidstreamRecovery, CancelUnwind, AuthFails,
              StreamCloseFails, Unwind, OutOfBudget, Clean, Phased, HasBudget
\* A step into another phase, with the same plan or a new one.
<1>4. ASSUME NEW to \in Phases, Go(s, to), outer' = outer,
             plan' = plan \/ \E p \in {"again", "stop"} : plan' = [plan EXCEPT ![s] = p]
      PROVE  /\ phase'[s] = to /\ outer'[s] = 0
             /\ phase' \in [Sessions -> Phases] /\ plan' \in [Sessions -> {"again", "stop"}]
             /\ \A t \in Sessions : t # s => phase'[t] = phase[t] /\ plan'[t] = plan[t] /\ outer'[t] = outer[t]
  BY <1>1, <1>4 DEF Go, Clean, Phased
<1> DEFINE Goal == /\ Clean(s)'
                   /\ phase' \in [Sessions -> Phases] /\ plan' \in [Sessions -> {"again", "stop"}]
                   /\ \A t \in Sessions : t # s =>
                         phase'[t] = phase[t] /\ plan'[t] = plan[t] /\ outer'[t] = outer[t]
<1>5. AfterLoop(s) = "ended" BY <1>1 DEF AfterLoop, Clean, Phased
<1>6. ASSUME Begin(s) PROVE Goal
  <2>1. /\ phase[s] \in {"new", "between"} /\ stage'[s] = "gate" /\ UNCHANGED <<attempt, started, episode, plan, outer>>
        /\ Go(s, "admitting")
    BY <1>1, <1>6 DEF Begin, OpenAttempt, controller
  <2>2. phase'[s] = "admitting" BY <1>1, <2>1 DEF Go, Phases
  <2>3. Clean(s)' BY <1>1, <2>1, <2>2 DEF Clean, Phased, Leads, LeadsInside, InsideOpen
  <2> QED BY <1>4, <2>1, <2>3 DEF Phases
<1>7. ASSUME Admitted(s) \/ Refused(s) PROVE Goal
  <2>1. Admit(s) /\ phase[s] = "admitting" BY <1>7 DEF Admitted, Refused, Admit
  <2>2. attempt[s] = "none" /\ (episode.leader = s => ~doomed[s] /\ LeadsInside(s))
    BY <1>1, <2>1 DEF Clean, Phased, Leads
  <2>3. /\ Inside(s) \/ Claims(s)
        /\ episode'.leader = s => LeadsInside(s)'
    BY <2>1, <2>2, AdmitMoves, AdmitLeads
  <2>4. CASE Admitted(s)
    <3>1. /\ Go(s, IF stage'[s] = "open" THEN "calling" ELSE "admitting")
          /\ stage'[s] # "out" /\ UNCHANGED <<plan, outer>>
      BY <2>4 DEF Admitted
    <3>2. CASE Claims(s)
      <4>1. Go(s, "calling") /\ stage'[s] = "open" /\ attempt'[s] = "open" BY <3>1, <3>2 DEF Claims
      <4>2. /\ phase'[s] = "calling" /\ outer'[s] = 0 /\ (Clean(s)' => Goal) BY <1>4, <3>1, <4>1 DEF Phases
      <4> QED BY <2>3, <4>1, <4>2 DEF Clean, Phased, Leads
    <3>3. CASE Inside(s)
      <4>1. Go(s, "admitting") /\ stage'[s] \in InsideOpen BY <3>1, <3>3 DEF Inside, InsideOpen
      <4>2. /\ phase'[s] = "admitting" /\ outer'[s] = 0 /\ (Clean(s)' => Goal) BY <1>4, <3>1, <4>1 DEF Phases
      <4> QED BY <2>3, <4>1, <4>2 DEF Clean, Phased, Leads
    <3> QED BY <2>3, <3>2, <3>3
  <2>5. CASE Refused(s)
    <3>1. /\ Go(s, "ended") /\ UNCHANGED <<plan, outer, attempt>> /\ stage'[s] = "out"
      BY <1>1, <1>5, <2>5 DEF Refused, Leave, GateRefuses
    <3>2. phase'[s] = "ended" /\ outer'[s] = 0 /\ (Clean(s)' => Goal) BY <1>4, <3>1 DEF Phases
    <3>3. episode'.leader # s BY <2>2, <2>3, <3>1 DEF LeadsInside
    <3> QED BY <2>2, <3>1, <3>2, <3>3 DEF Clean, Phased
  <2> QED BY <1>7, <2>4, <2>5
<1>8. ASSUME CancelAdmitting(s) PROVE Goal
  <2>1. /\ CancelOpenAttempt(s) /\ phase[s] = "admitting" /\ Go(s, "ended") /\ UNCHANGED <<plan, outer>>
    BY <1>5, <1>8 DEF CancelAdmitting, Leave
  <2>2. attempt[s] = "none" /\ (episode.leader = s => LeadsInside(s))
    BY <1>1, <2>1 DEF Clean, Phased, Leads
  <2>3. Inside(s) /\ stage'[s] = "out" /\ episode'.leader # s BY <2>1, <2>2, CancelMoves, CancelLeads
  <2>4. phase'[s] = "ended" /\ outer'[s] = 0 /\ (Clean(s)' => Goal) BY <1>4, <2>1 DEF Phases
  <2> QED BY <2>2, <2>3, <2>4 DEF Inside, Clean, Phased
\* The attempt is resolved.
<1>9. ASSUME Succeeded(s) \/ Rejected(s) \/ \E q \in BOOLEAN : Failed(s, q)
      PROVE  Resolves(s) /\ (episode.leader = s => MatchingProbe(s))
  <2>1. Resolves(s) BY <1>9, ResolveMoves
  <2> QED BY <1>1, <2>1 DEF Resolves, Clean, Phased, Leads, LeadsInside
<1>10. ASSUME CallReturns(s) \/ CallRejected(s) \/ StreamRejected(s) PROVE Goal
  <2>1. PICK b \in {"closing", "draining"} :
           /\ Succeeded(s) \/ Rejected(s)
           /\ Go(s, b) /\ plan' = [plan EXCEPT ![s] = "stop"] /\ outer' = outer
    BY <1>10 DEF CallReturns, CallRejected, StreamRejected, CallBlocks, Conclude
  <2>2. Resolves(s) /\ episode'.leader # s BY <1>9, <2>1, ResolveLeads
  <2>3. phase'[s] = b /\ outer'[s] = 0 /\ (Clean(s)' => Goal) BY <1>4, <2>1 DEF Phases
  <2>4. plan'[s] = "stop" BY <1>1, <2>1
  <2> QED BY <2>2, <2>3, <2>4 DEF Resolves, Clean, Phased
<1>11. ASSUME FirstEvent(s) PROVE Goal
  <2>1. Succeeded(s) /\ phase[s] = "streaming" /\ UNCHANGED <<phase, plan, outer>>
    BY <1>11 DEF FirstEvent, runnerVars
  <2>2. Resolves(s) /\ episode'.leader # s BY <1>9, <2>1, ResolveLeads
  <2>3. attempt'[s] = "accepted" BY <1>1, <2>1 DEF Succeeded, Resolve
  <2>4. Clean(s)' BY <1>1, <2>1, <2>2, <2>3 DEF Resolves, Clean, Phased
  <2> QED BY <1>1, <2>1, <2>4
<1>12. ASSUME NEW q \in BOOLEAN, CallFails(s, q) \/ StreamFails(s, q) PROVE Goal
  <2>1. PICK b \in {"closing", "draining"} :
           /\ Failed(s, q) /\ Go(s, b) /\ outer' = outer
           /\ \/ plan' = [plan EXCEPT ![s] = IF HasBudget(s) THEN "again" ELSE "stop"]
              \/ plan' = [plan EXCEPT ![s] = IF CanRetry(s, q) THEN "again" ELSE "stop"]
    <3>1. CASE CallFails(s, q) BY <3>1 DEF CallFails, CallBlocks, Conclude
    <3>2. CASE StreamFails(s, q) BY <3>2 DEF StreamFails, Conclude
    <3> QED BY <1>12, <3>1, <3>2
  <2>2. Resolves(s) /\ (episode'.leader = s => ~q /\ HasBudget(s) /\ attempt'[s] = "settled")
    BY <1>9, <2>1, ResolveLeads DEF HasBudget
  <2>3. \E p \in {"again", "stop"} : plan' = [plan EXCEPT ![s] = p]
    BY <2>1
  <2>4. phase'[s] = b /\ outer'[s] = 0 /\ (Clean(s)' => Goal) BY <1>4, <2>1, <2>3 DEF Phases
  <2>5. /\ (plan'[s] = "again" => HasBudget(s)) /\ (HasBudget(s) /\ ~q => plan'[s] = "again")
        /\ (HasBudget(s) => HasBudget(s)')
    BY <1>1, <2>1, <2>2 DEF HasBudget, CanRetry, Resolves
  <2>6. Phased(s)' BY <2>2, <2>4, <2>5 DEF Resolves, Phased
  <2>7. episode'.leader = s => Leads(s)' BY <2>2, <2>4, <2>5 DEF Resolves, Leads
  <2> QED BY <2>4, <2>6, <2>7 DEF Clean
\* Steps that leave the controller alone.
<1>13. ASSUME UNCHANGED admissionVars
       PROVE  /\ UNCHANGED <<stage, attempt, started, episode>> /\ (HasBudget(s) => HasBudget(s)')
              /\ LeadsInside(s) => LeadsInside(s)'
  BY <1>13 DEF admissionVars, controller, HasBudget, LeadsInside, MatchingProbe, Recovering
<1>14. ASSUME CallOpensStream(s) PROVE Goal
  <2>1. phase[s] = "calling" /\ Go(s, "streaming") /\ UNCHANGED <<admissionVars, plan, outer>>
    BY <1>14 DEF CallOpensStream
  <2>2. phase'[s] = "streaming" /\ outer'[s] = 0 /\ (Clean(s)' => Goal) BY <1>4, <2>1 DEF Phases
  <2> QED BY <1>1, <1>13, <2>1, <2>2 DEF Clean, Phased, Leads
<1>15. ASSUME StreamEnds(s) \/ AcceptedStreamFails(s) PROVE Goal
  <2>1. PICK again \in BOOLEAN :
           /\ phase[s] = "streaming" /\ attempt[s] = "accepted" /\ Go(s, "draining")
           /\ UNCHANGED <<admissionVars, outer>> /\ (again => HasBudget(s))
           /\ plan' = [plan EXCEPT ![s] = IF again THEN "again" ELSE "stop"]
    BY <1>15 DEF StreamEnds, AcceptedStreamFails, Conclude, HasBudget
  <2>2. phase'[s] = "draining" /\ outer'[s] = 0 /\ (Clean(s)' => Goal) BY <1>4, <2>1 DEF Phases
  <2>3. plan'[s] = (IF again THEN "again" ELSE "stop") BY <1>1, <2>1
  <2>4. episode.leader # s BY <1>1, <2>1 DEF Clean, Phased, Leads, LeadsInside
  <2> QED BY <1>1, <1>13, <2>1, <2>2, <2>3, <2>4 DEF Clean, Phased
<1>16. ASSUME CancelCall(s) PROVE Goal
  <2>1. PICK b \in {"closing", "draining"} :
           /\ phase[s] \in {"calling", "streaming"} /\ Go(s, b) /\ UNCHANGED <<admissionVars, outer>>
           /\ plan' = [plan EXCEPT ![s] = "stop"]
    BY <1>16 DEF CancelCall, CallBlocks, Conclude
  <2>2. phase'[s] = b /\ outer'[s] = 0 /\ (Clean(s)' => Goal) BY <1>4, <2>1 DEF Phases
  <2>3. plan'[s] = "stop" BY <1>1, <2>1
  <2> QED BY <1>1, <1>13, <2>1, <2>2, <2>3 DEF Clean, Phased, Leads
<1>17. ASSUME StreamCloses(s) PROVE Goal
  <2>1. phase[s] = "draining" /\ Go(s, "closing") /\ UNCHANGED <<admissionVars, plan, outer>>
    BY <1>17 DEF StreamCloses
  <2>2. phase'[s] = "closing" /\ outer'[s] = 0 /\ (Clean(s)' => Goal) BY <1>4, <2>1 DEF Phases
  <2>3. MatchingProbe(s) => MatchingProbe(s)'
    BY <2>1 DEF admissionVars, controller, MatchingProbe, Recovering
  <2> QED BY <1>1, <1>13, <2>1, <2>2, <2>3 DEF Clean, Phased, Leads
\* The attempt is closed.
<1>18. ASSUME CloseAttempt(s) PROVE Goal
  <2>1. /\ phase[s] = "closing" /\ CloseResolved(s) /\ UNCHANGED <<plan, outer, episode, started>>
        /\ Go(s, IF plan[s] = "again" THEN "between" ELSE "ended")
        /\ attempt[s] \in {"accepted", "settled"}
    BY <1>5, <1>18 DEF CloseAttempt, CloseResolved
  <2>2. Closes(s) BY <2>1, CloseMoves
  <2>3. /\ phase'[s] = (IF plan[s] = "again" THEN "between" ELSE "ended")
        /\ outer'[s] = 0 /\ (Clean(s)' => Goal)
    BY <1>4, <2>1 DEF Phases
  <2>4. plan[s] # "again" => episode.leader # s
    BY <1>1, <2>1, <2>2 DEF Closes, Clean, Phased, Leads, LeadsInside
  <2>5. plan[s] = "again" => HasBudget(s)' BY <1>1, <2>1 DEF Clean, Phased, HasBudget
  <2> QED BY <2>1, <2>2, <2>3, <2>4, <2>5 DEF Closes, Clean, Phased, Leads
<1>19. ASSUME AbandonAttempt(s) PROVE Goal
  <2>1. /\ phase[s] = "closing" /\ stage[s] = "open" /\ attempt[s] = "open"
        /\ stage'[s] = "abandoning" /\ attempt'[s] = "abandoning"
        /\ UNCHANGED <<phase, plan, outer, episode, permit>>
    BY <1>1, <1>19 DEF AbandonAttempt, CloseUnresolved, controller, runnerVars
  <2>2. MatchingProbe(s) => MatchingProbe(s)' BY <2>1 DEF MatchingProbe, Recovering
  <2> QED BY <1>1, <2>1, <2>2 DEF Clean, Phased, Leads, LeadsInside
<1>20. ASSUME AbandonmentTask(s) PROVE Goal
  <2>1. /\ AbandonmentRuns(s) /\ UNCHANGED <<phase, plan, outer>>
        /\ attempt[s] = "abandoning" /\ episode' = EpisodeWithoutProbe(s)
    BY <1>20 DEF AbandonmentTask, AbandonmentRuns, runnerVars
  <2>2. Abandons(s) BY <2>1, AbandonMoves
  <2>3. episode.leader = s => MatchingProbe(s)
    BY <1>1, <2>1 DEF Clean, Phased, Leads, LeadsInside, InsideOpen
  <2>4. MatchingProbe(s) => episode'.leader = NoSession
    BY <2>1 DEF EpisodeWithoutProbe, Inv, TypeOK, Episodes
  <2>5. episode'.leader # s BY <1>1, <2>1, <2>3, <2>4 DEF EpisodeWithoutProbe
  <2> QED BY <1>1, <2>1, <2>2, <2>5 DEF Abandons, Clean, Phased, InsideOpen
<1>21. ASSUME AbandonFinishes(s) PROVE Goal
  <2>1. /\ phase[s] = "closing" /\ FinishAbandoning(s) /\ UNCHANGED <<plan, outer, episode, permit>>
        /\ Go(s, "ended") /\ stage[s] = "abandoning"
    BY <1>5, <1>21 DEF AbandonFinishes, FinishAbandoning
  <2>2. Closes(s) BY <2>1, CloseMoves
  <2>3. phase'[s] = "ended" /\ outer'[s] = 0 /\ (Clean(s)' => Goal) BY <1>4, <2>1 DEF Phases
  <2>4. MatchingProbe(s) => MatchingProbe(s)' BY <2>1 DEF MatchingProbe, Recovering
  <2> QED BY <1>1, <2>1, <2>2, <2>3, <2>4 DEF Closes, Clean, Phased, Leads, LeadsInside
<1>22. CASE Progress(s)
  BY <1>3, <1>6, <1>7, <1>10, <1>11, <1>12, <1>14, <1>15, <1>17, <1>18, <1>19, <1>21, <1>22 DEF Progress
<1>23. CASE Disturbance(s) BY <1>3, <1>8, <1>16, <1>23 DEF Disturbance
<1> QED BY <1>20, <1>22, <1>23

LEMMA CleanStep ==
    Inv /\ DoomInv /\ CleanInv /\ Events \subseteq {"cancel"} /\ [RunnersNext]_vars => CleanInv'
<1> SUFFICES ASSUME Inv, DoomInv, CleanInv, Events \subseteq {"cancel"}, [RunnersNext]_vars
             PROVE  CleanInv'
  OBVIOUS
<1>1. ASSUME NEW s \in Sessions, Progress(s) \/ AbandonmentTask(s) \/ Disturbance(s)
      PROVE  CleanInv'
  <2>1. /\ Clean(s)'
        /\ phase' \in [Sessions -> Phases] /\ plan' \in [Sessions -> {"again", "stop"}]
        /\ \A t \in Sessions : t # s => phase'[t] = phase[t] /\ plan'[t] = plan[t] /\ outer'[t] = outer[t]
    BY <1>1, CleanProgress
  <2>2. \A t \in Sessions : t # s => Leaves(s, t) BY <1>1, ExecutionSteps, OthersAreLeft
  <2>3. ASSUME NEW t \in Sessions, t # s PROVE Clean(t)'
    <3>1. Clean(t) BY DEF CleanInv
    <3> QED BY <2>1, <2>2, <2>3, <3>1, CleanOthers
  <2> QED BY <2>1, <2>3 DEF CleanInv
<1>2. CASE Clock
  <2>1. /\ UNCHANGED <<stage, permit, started, attempt, phase, plan, outer>>
        /\ episode'.gen = episode.gen /\ episode'.leader = episode.leader
        /\ episode'.probing = episode.probing
    BY <1>2 DEF Clock, BackoffElapses, CooldownElapses, runnerVars, Inv, TypeOK, Episodes
  <2>2. ASSUME NEW s \in Sessions PROVE Clean(s)'
    <3>1. Clean(s) /\ (MatchingProbe(s) => MatchingProbe(s)')
      BY <2>1 DEF CleanInv, MatchingProbe, Recovering
    <3> QED BY <2>1, <3>1 DEF Clean, Phased, HasBudget, Leads, LeadsInside
  <2> QED BY <2>1, <2>2 DEF CleanInv
<1>3. CASE Quiet \/ UNCHANGED vars
  <2>1. UNCHANGED <<stage, permit, started, attempt, phase, plan, outer, episode>>
    BY <1>3 DEF Quiet, vars, admissionVars, controller, runnerVars
  <2> QED BY <2>1 DEF CleanInv, Clean, Phased, HasBudget, Leads, LeadsInside, MatchingProbe, Recovering
<1> QED BY <1>1, <1>2, <1>3 DEF RunnersNext

\* What that invariant says of the ends, the backoffs and the budgets.
LEMMA CleanImplies ==
    ASSUME Inv, TraceInv, CleanInv
    PROVE  UndisturbedIsClean
<1>1. ASSUME NEW s \in Sessions
      PROVE  /\ Traced(s) /\ Clean(s) /\ started[s] \in Nat
             /\ (stage[s] \in InsideOpen => attempt[s] = "none" /\ started[s] < MaxAttempts)
             /\ \A n : <<s, n>> \in slots => n # 0
  BY AdmissionAssumption DEF TraceInv, CleanInv, Inv, TypeOK, ControlInv
<1>2. LeaderIsAlive
  BY <1>1 DEF LeaderIsAlive, Clean, Phased, Leads, LeadsInside
<1>3. ASSUME NEW slot \in slots
      PROVE  phase[slot[1]] # "ended" /\ stage[slot[1]] \notin {"leading", "waiting", "woken"}
  <2>1. slot[1] \in Sessions /\ slot = <<slot[1], slot[2]>> BY <1>3 DEF Inv, TypeOK
  <2> DEFINE s == slot[1]
  <2>2. /\ Traced(s) /\ Clean(s) /\ <<s, slot[2]>> \in slots /\ slot[2] # 0
        /\ (stage[s] \in InsideOpen => attempt[s] = "none")
    BY <1>1, <1>3, <2>1
  <2> HIDE DEF s
  <2>3. phase[s] # "ended" /\ stage[s] \notin {"leading", "waiting", "woken"}
    BY <2>2 DEF Traced, Clean, Phased, InsideOpen
  <2> QED BY <2>3 DEF s
<1>4. ExhaustedLeaderEndsEpisode
  BY <1>1, AdmissionAssumption
     DEF ExhaustedLeaderEndsEpisode, Clean, Phased, Leads, LeadsInside, MatchingProbe, InsideOpen, HasBudget
<1> QED BY <1>2, <1>3, <1>4 DEF UndisturbedIsClean, EndedHoldsNoPermit, NoPermitDuringBackoff

\* As long as executions are cancelled only while they are admitted or call
\* upstream, one that ends has returned its permits and passed on the lead, no
\* leader has used up its attempts but for its probe, and none sleeps out a
\* backoff with a permit.
THEOREM CleanExecutions == Spec => [](Events \subseteq {"cancel"} => UndisturbedIsClean)
<1> DEFINE Only == Events \subseteq {"cancel"}
           All == Inv /\ TraceInv /\ DoomInv /\ (Only => CleanInv)
<1>1. RunnersInit => All
  <2> SUFFICES ASSUME RunnersInit PROVE All
    OBVIOUS
  <2>1. Inv BY InvInitially DEF RunnersInit
  <2>2. MaxAttempts \in Nat /\ NoSession \notin Sessions BY AdmissionAssumption
  <2>3. TraceInv BY <2>2 DEF RunnersInit, Init, TraceInv, Traced
  <2>4. DoomInv BY <2>2 DEF RunnersInit, Init, NoEpisode, DoomInv
  <2>5. CleanInv BY <2>2 DEF RunnersInit, Init, NoEpisode, CleanInv, Clean, Phased, Phases
  <2> QED BY <2>1, <2>3, <2>4, <2>5
<1>2. All /\ [RunnersNext]_vars => All'
  BY RunnersStep, InvStep, TraceStep, DoomStep, CleanStep
<1>3. All => (Only => UndisturbedIsClean) BY CleanImplies
<1> QED BY <1>1, <1>2, <1>3, PTL DEF Spec
==============================================================================
