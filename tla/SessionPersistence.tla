------------------------- MODULE SessionPersistence --------------------------
(***************************************************************************)
(* The session file: messaging/session/persistence.py under                *)
(* messaging/session/store.py.  The event loop changes the state in memory *)
(* and arms a timer; every timer fires in a thread of its own.  A clear    *)
(* and the last flush write from the event loop at once.                   *)
(*                                                                         *)
(* Threads meet at three locks: the store's (held over a change and its    *)
(* scheduling, and over a whole clear), the writer's, and the timer's,     *)
(* whose critical sections are single steps here.  A process that dies     *)
(* takes its timers with it, and the next one loads the file.              *)
(***************************************************************************)
EXTENDS Naturals

CONSTANTS MaxChanges,   \* changes of the state, clears included
          MaxCrashes,   \* how often the process dies
          MaxWriteErrors, \* how many writes of the file fail
          MaxFlushes    \* how often flush_pending_save is called

ASSUME PersistenceBounds ==
    /\ MaxChanges \in Nat /\ MaxCrashes \in Nat
    /\ MaxWriteErrors \in Nat /\ MaxFlushes \in Nat

\* A change is a version; so are the file's content and a snapshot.
Versions == 0 .. MaxChanges
Timers   == 1 .. MaxChanges
Loop     == 0                  \* the event loop, beside the timers' threads
Writers  == {Loop} \cup Timers

VARIABLES
    state,      \* the version in memory
    file,       \* the version in the session file
    versions,   \* how many versions there have been
    generation, \* _save_generation
    timer,      \* _save_timer: the generation it was armed for, or 0
    alive,      \* the timers whose thread has not been cancelled or ended
    store,      \* the holder of the store's _lock, or "free"
    writing,    \* the holder of _writer_lock, or "free"
    doing,      \* by thread: where it stands in a write
    claimed,    \* by thread: the generation it writes for
    snapshot,   \* by thread: the version it writes
    promised,   \* the newest version a clear or a flush reported as written
    trouble     \* crashes, failed writes and flushes so far

persistenceVars == << state, file, versions, generation, timer, alive, store,
                      writing, doing, claimed, snapshot, promised, trouble >>

memory  == << state, versions, generation, timer >>
threads == << doing, claimed, snapshot >>

PersistenceInit ==
    /\ state = 0 /\ file = 0 /\ versions = 0
    /\ generation = 0 /\ timer = 0 /\ alive = {}
    /\ store = "free" /\ writing = "free"
    /\ doing = [w \in Writers |-> "nothing"]
    /\ claimed = [w \in Writers |-> 0]
    /\ snapshot = [w \in Writers |-> 0]
    /\ promised = 0
    /\ trouble = [crashes |-> 0, errors |-> 0, flushes |-> 0]

Does(w, what)     == doing' = [doing EXCEPT ![w] = what]
Takes(w, g, v)    == /\ claimed' = [claimed EXCEPT ![w] = g]
                     /\ snapshot' = [snapshot EXCEPT ![w] = v]
Happens(what, cap) == /\ trouble[what] < cap
                      /\ trouble' = [trouble EXCEPT ![what] = @ + 1]

(***************************************************************************)
(* The event loop.                                                         *)
(***************************************************************************)

\* A change, still under the store's lock: schedule_save has not run yet.
Changes ==
    /\ doing[Loop] = "nothing" /\ store = "free" /\ versions < MaxChanges
    /\ versions' = versions + 1 /\ state' = versions + 1
    /\ store' = "loop" /\ Does(Loop, "scheduling")
    /\ UNCHANGED << file, generation, timer, alive, writing, claimed, snapshot, promised, trouble >>

\* schedule_save: the armed timer is cancelled, which a thread that already
\* fired does not notice, and a new one is armed for the next generation.
Schedules ==
    /\ doing[Loop] = "scheduling"
    /\ generation' = generation + 1 /\ timer' = generation + 1
    /\ alive' = { t \in alive : doing[t] # "nothing" } \cup {generation + 1}
    /\ store' = "free" /\ Does(Loop, "nothing")
    /\ UNCHANGED << state, file, versions, writing, claimed, snapshot, promised, trouble >>

\* clear_scope: the state without the chat is written under the store's lock,
\* after every pending snapshot has been made obsolete (write_data).
Clears ==
    /\ doing[Loop] = "nothing" /\ store = "free" /\ versions < MaxChanges
    /\ versions' = versions + 1 /\ state' = versions + 1
    /\ timer' = 0 /\ generation' = generation + 1
    /\ alive' = { t \in alive : doing[t] # "nothing" }
    /\ store' = "clear" /\ Does(Loop, "writing")
    /\ Takes(Loop, generation + 1, versions + 1)
    /\ UNCHANGED << file, writing, promised, trouble >>

\* flush: the armed timer's work is taken over, without a new generation.
Flushes ==
    /\ doing[Loop] = "nothing" /\ Happens("flushes", MaxFlushes)
    /\ timer' = 0 /\ alive' = { t \in alive : doing[t] # "nothing" }
    /\ claimed' = [claimed EXCEPT ![Loop] = generation]
    /\ Does(Loop, "copying")
    /\ UNCHANGED << state, file, versions, generation, store, writing, snapshot, promised >>

(***************************************************************************)
(* A timer's thread: _save_from_timer.                                     *)
(***************************************************************************)

Fires(t) ==
    /\ t \in alive /\ doing[t] = "nothing"
    /\ Does(t, "claiming")
    /\ UNCHANGED << memory, file, alive, store, writing, claimed, snapshot, promised, trouble >>

\* _claim_timer: only the timer that was armed last goes on.
Claims(t) ==
    /\ doing[t] = "claiming"
    /\ IF t = generation /\ timer # 0
       THEN /\ timer' = 0 /\ Does(t, "copying")
            /\ claimed' = [claimed EXCEPT ![t] = t]
            /\ UNCHANGED alive
       ELSE /\ alive' = alive \ {t} /\ Does(t, "nothing")
            /\ UNCHANGED << timer, claimed >>
    /\ UNCHANGED << state, file, versions, generation, store, writing, snapshot, promised, trouble >>

(***************************************************************************)
(* Writing the file, from any thread.                                      *)
(***************************************************************************)

\* _snapshot_for_persistence waits for the store's lock.
Copies(w) ==
    /\ doing[w] = "copying" /\ store = "free"
    /\ snapshot' = [snapshot EXCEPT ![w] = state]
    /\ Does(w, "writing")
    /\ UNCHANGED << memory, file, alive, store, writing, claimed, promised, trouble >>

\* A plausible bug: a snapshot is written however old it has become.
Admits_Stale(w) ==
    /\ doing[w] = "writing" /\ writing = "free"
    /\ writing' = "held" /\ Does(w, "replacing")
    /\ UNCHANGED << memory, file, alive, store, claimed, snapshot, promised, trouble >>

\* _write_if_current: under the writer's lock a superseded snapshot is dropped.
Admits(w) ==
    /\ doing[w] = "writing" /\ writing = "free" /\ claimed[w] = generation
    /\ writing' = "held" /\ Does(w, "replacing")
    /\ UNCHANGED << memory, file, alive, store, claimed, snapshot, promised, trouble >>

\* What the thread leaves behind when its write is over.
Leaves(w) ==
    /\ Does(w, "nothing")
    /\ alive' = alive \ {w}
    /\ store' = IF w = Loop /\ store = "clear" THEN "free" ELSE store

Drops(w) ==
    /\ doing[w] = "writing" /\ writing = "free" /\ claimed[w] # generation
    /\ Leaves(w)
    /\ UNCHANGED << memory, file, writing, claimed, snapshot, promised, trouble >>

\* A plausible bug: the store's lock is taken while the writer's is held.
Replaces_UnderStore(w) ==
    /\ doing[w] = "replacing" /\ (w # Loop => store = "free")
    /\ file' = snapshot[w]
    /\ writing' = "free" /\ Leaves(w)
    /\ promised' = IF w = Loop THEN snapshot[w] ELSE promised
    /\ UNCHANGED << memory, claimed, snapshot, trouble >>

\* os.replace puts the whole temporary file in the place of the old one.
Replaces(w) ==
    /\ doing[w] = "replacing"
    /\ file' = snapshot[w]
    /\ writing' = "free" /\ Leaves(w)
    /\ promised' = IF w = Loop THEN snapshot[w] ELSE promised
    /\ UNCHANGED << memory, claimed, snapshot, trouble >>

\* The temporary file is removed; the error is raised to a clear or a flush and
\* logged by a timer, which arms no other.
WriteFails(w) ==
    /\ doing[w] = "replacing" /\ Happens("errors", MaxWriteErrors)
    /\ writing' = "free" /\ Leaves(w)
    /\ UNCHANGED << memory, file, claimed, snapshot, promised >>

\* The process dies and starts again from the file.
Crashes ==
    /\ Happens("crashes", MaxCrashes)
    /\ state' = file
    /\ generation' = 0 /\ timer' = 0 /\ alive' = {}
    /\ store' = "free" /\ writing' = "free"
    /\ doing' = [w \in Writers |-> "nothing"]
    /\ claimed' = [w \in Writers |-> 0]
    /\ snapshot' = [w \in Writers |-> 0]
    /\ UNCHANGED << file, versions, promised >>

Works(w) == Copies(w) \/ Admits(w) \/ Drops(w) \/ Replaces(w)

PersistenceWork == \E w \in Writers : Works(w)

PersistenceNext ==
    \/ Changes \/ Schedules \/ Clears \/ Flushes \/ Crashes
    \/ \E t \in Timers : Fires(t) \/ Claims(t)
    \/ \E w \in Writers : Works(w) \/ WriteFails(w)

\* The event loop and the timer threads run; a write may fail instead.
PersistenceFairness ==
    /\ WF_persistenceVars(Schedules)
    /\ \A t \in Timers : WF_persistenceVars(Fires(t)) /\ WF_persistenceVars(Claims(t))
    /\ \A w \in Writers : WF_persistenceVars(Works(w))

PersistenceSpec ==
    PersistenceInit /\ [][PersistenceNext]_persistenceVars /\ PersistenceFairness

(***************************************************************************)
(* Properties.                                                             *)
(***************************************************************************)

\* Every variable stays in its range.
PersistenceTypeOK ==
    /\ state \in Versions /\ file \in Versions /\ versions \in Versions
    /\ promised \in Versions
    /\ timer \in {0, generation} /\ alive \subseteq Timers
    /\ store \in {"free", "loop", "clear"} /\ writing \in {"free", "held"}

\* The file never goes back to an older state, whatever the threads that still
\* hold an older snapshot do: what /clear removed is not written again by a
\* timer that fired before it, and no later process loads it (persistence.py:
\* 93-100, 130-142).
FileMovesForward == file' >= file

\* What a clear or a flush that returned has written stays written, also when
\* the process dies next (store.py:153-158, workflow.py:328).
PromisesHold == file >= promised

\* What is on disk moves forward only, and no promise of the store is lost.
SavesAreKept == [][FileMovesForward /\ PromisesHold']_persistenceVars

\* Every change reaches the file without another one, and the event loop is
\* never held up for ever by the locks it shares with the timers, unless a
\* write failed.
ChangesAreSaved == <>[](doing[Loop] = "nothing" /\ (file = state \/ trouble.errors > 0))
=============================================================================
