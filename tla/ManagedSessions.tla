--------------------------- MODULE ManagedSessions ---------------------------
(***************************************************************************)
(* The pool of Claude CLI subprocesses behind the messaging workflow:      *)
(* cli/managed/manager.py (who owns a session, and under which id) and     *)
(* cli/managed/session.py (one subprocess, its locks, its stop), driven by *)
(* the node runner of messaging/node_runner.py.                            *)
(*                                                                         *)
(* A tree runs its nodes one after another; a node asks for a session,     *)
(* reads its events, registers the id the CLI reports and removes the      *)
(* session when it ends.  A cancellation lands at whatever the node waits  *)
(* for at that moment.  /stop cancels every node, waits for them at most   *)
(* CANCEL_TASK_DRAIN_TIMEOUT_S and then stops every session, nodes that    *)
(* did not end in time running on; no node starts meanwhile                *)
(* (workflow._state_lock).                                                 *)
(***************************************************************************)
EXTENDS Naturals, FiniteSets, Functions

CONSTANTS Conversations, \* the message trees that run nodes at the same time
          Ids,           \* the session ids a CLI may report
          MaxSessions,   \* how many sessions the manager creates
          MaxTroubles    \* how many nodes are cancelled one by one, commands
                         \* stop everything and stops fail, together

ASSUME SessionBounds == MaxSessions \in Nat /\ MaxTroubles \in Nat

\* A tree is not taken for another holder of a lock, or for none.
ASSUME TreesAreNotHolders == Conversations \cap {"free", "all", "shield"} = {}

VARIABLES
    pending,    \* _pending_sessions: session by temporary id
    sessions,   \* _sessions: session by real id
    toReal,     \* _temp_to_real
    toTemp,     \* _real_to_temp
    closing,    \* _closing_sessions
    manager,    \* the tree that holds the manager's _lock, "all" or "free"
    process,    \* by session: its subprocess
    shut,       \* by session: _closed
    reading,    \* by session: the tree that holds _cli_lock, or "free"
    stopHolder, \* by session: who holds _lifecycle_lock inside stop()
    shielded,   \* the sessions whose stop() was called from start_task
    node,       \* by tree: the node it runs
    known,      \* by tree: the ids recorded in its nodes
    stopper,    \* stop_all_tasks: where it is, nodes to cancel, sessions to stop
    left,       \* what is left of the two bounds
    stopFailed  \* whether a stop has failed

sessionVars == << pending, sessions, toReal, toTemp, closing, manager, process,
                  shut, reading, stopHolder, shielded, node, known, stopper, left,
                  stopFailed >>

maps  == << pending, sessions, toReal, toTemp, closing >>
procs == << process, shut, reading, stopHolder, shielded >>

Sessions == 1 .. MaxSessions
Temp(s)  == << "pending", s >>
Named    == { << "claude", i >> : i \in Ids }
Handles  == Named \cup { Temp(s) : s \in Sessions }
NoHandle == << "none", 0 >>

\* What a node does: `handle` is what it will remove at its end.
Resting == [at |-> "idle", session |-> 0, handle |-> NoHandle, fresh |-> FALSE]

Owned == Range(pending) \cup Range(sessions)

Lookup(h)   == IF h \in DOMAIN toReal THEN toReal[h] ELSE h
SessionFor(h) ==
    LET id == Lookup(h)
    IN  CASE id \in DOMAIN sessions -> sessions[id]
          [] id \in DOMAIN pending /\ id \notin DOMAIN sessions -> pending[id]
          [] OTHER -> 0

Without(f, dropped) == Restrict(f, DOMAIN f \ dropped)
With(f, x, y) == [z \in DOMAIN f \cup {x} |-> IF z = x THEN y ELSE f[z]]

Budget(what) == /\ left[what] > 0
                /\ left' = [left EXCEPT ![what] = @ - 1]

SessionsInit ==
    /\ pending = [h \in {} |-> 0] /\ sessions = [h \in {} |-> 0]
    /\ toReal = [h \in {} |-> NoHandle] /\ toTemp = [h \in {} |-> NoHandle]
    /\ closing = {} /\ manager = "free"
    /\ process = [s \in Sessions |-> "none"]
    /\ shut = [s \in Sessions |-> FALSE]
    /\ reading = [s \in Sessions |-> "free"]
    /\ stopHolder = [s \in Sessions |-> "free"]
    /\ shielded = {}
    /\ node = [t \in Conversations |-> Resting]
    /\ known = [t \in Conversations |-> {}]
    /\ stopper = [at |-> "idle", nodes |-> {}, todo |-> {}]
    /\ left = [sessions |-> MaxSessions, troubles |-> MaxTroubles]
    /\ stopFailed = FALSE

Rests == {"idle", "stopped", "failed"}

IsAt(t, place) == node[t].at = place
Goes(t, place) == node' = [node EXCEPT ![t].at = place]
Ends(t) == node' = [node EXCEPT ![t] = Resting]

(***************************************************************************)
(* Taking a session: get_or_create_session.                                *)
(***************************************************************************)

Created == MaxSessions - left.sessions + 1

\* A reply names the session its parent recorded; a first node names none.
Asks(t, parent) ==
    /\ IsAt(t, "idle") /\ stopper.at \in Rests /\ manager = "free"
    /\ parent \in known[t] \cup {NoHandle}

GetsNew(t, parent) ==
    /\ Asks(t, parent) /\ SessionFor(parent) = 0 /\ Budget("sessions")
    /\ LET id == IF parent = NoHandle THEN Temp(Created) ELSE Lookup(parent)
       IN  /\ pending' = With(pending, id, Created)
           /\ node' = [node EXCEPT ![t] = [at |-> "entering", session |-> Created,
                                           handle |-> id, fresh |-> TRUE]]
    /\ UNCHANGED << procs, manager, sessions, toReal, toTemp, closing, known, stopper, stopFailed >>

\* A closing session is refused, and the node ends without having taken anything.
GetsOwned(t, parent) ==
    /\ Asks(t, parent) /\ SessionFor(parent) \notin closing \cup {0}
    /\ node' = [node EXCEPT ![t] = [at |-> "entering", session |-> SessionFor(parent),
                                    handle |-> Lookup(parent), fresh |-> FALSE]]
    /\ UNCHANGED << maps, procs, manager, known, stopper, left, stopFailed >>

(***************************************************************************)
(* Running the CLI: ManagedClaudeSession.start_task.                       *)
(***************************************************************************)

\* _cli_lock, then _lifecycle_lock: a session stopped meanwhile starts nothing.
Launches(t) ==
    LET s == node[t].session IN
    /\ IsAt(t, "entering") /\ reading[s] = "free" /\ stopHolder[s] = "free"
    /\ IF shut[s]
       THEN Goes(t, "removing") /\ UNCHANGED << process, reading >>
       ELSE /\ process' = [process EXCEPT ![s] = "alive"]
            /\ reading' = [reading EXCEPT ![s] = t]
            /\ Goes(t, "reading")
    /\ UNCHANGED << maps, manager, shut, stopHolder, shielded, known, stopper, left, stopFailed >>

LaunchFails(t) ==
    /\ IsAt(t, "entering") /\ reading[node[t].session] = "free"
    /\ stopHolder[node[t].session] = "free" /\ ~shut[node[t].session]
    /\ Goes(t, "removing")
    /\ UNCHANGED << maps, procs, manager, known, stopper, left, stopFailed >>

\* The subprocess ended and both pipes are drained.
Finishes(t) ==
    LET s == node[t].session IN
    /\ IsAt(t, "reading") /\ process[s] = "dead"
    /\ reading' = [reading EXCEPT ![s] = "free"]
    /\ Goes(t, "removing")
    /\ UNCHANGED << maps, process, shut, stopHolder, shielded, manager, known, stopper, left, stopFailed >>

\* register_real_session_id: an id another session owns is refused.
MayRegister(t, id) ==
    LET temp == node[t].handle IN
    /\ temp \in DOMAIN pending
    /\ pending[temp] \notin closing
    /\ SessionFor(id) \in {0, pending[temp]}

\* session_info: only the first id of a session this node created is registered;
\* a refusal fails the node.
Registers(t, id) ==
    LET temp == node[t].handle IN
    /\ IsAt(t, "reading") /\ node[t].fresh /\ manager = "free"
    /\ process[node[t].session] # "none"
    /\ IF MayRegister(t, id)
       THEN /\ pending' = Without(pending, {temp})
            /\ sessions' = With(sessions, id, pending[temp])
            /\ toReal' = With(toReal, temp, id)
            /\ toTemp' = With(toTemp, id, temp)
            /\ known' = [known EXCEPT ![t] = @ \cup {id}]
            /\ node' = [node EXCEPT ![t] = [@ EXCEPT !.handle = id, !.fresh = FALSE]]
       ELSE /\ Goes(t, "removing")
            /\ UNCHANGED << pending, sessions, toReal, toTemp, known >>
    /\ UNCHANGED << procs, closing, manager, stopper, left, stopFailed >>

\* The node fails between two events: its generator is left where it stands,
\* with _cli_lock held and the subprocess running.
NodeFails(t) ==
    /\ IsAt(t, "reading")
    /\ Goes(t, "removing")
    /\ UNCHANGED << maps, procs, manager, known, stopper, left, stopFailed >>

\* The abandoned generator is finalised once its subprocess is gone.
Finalised(s) ==
    /\ reading[s] # "free" /\ process[s] = "dead"
    /\ \/ node[reading[s]].session # s
       \/ node[reading[s]].at \notin {"reading", "killing", "draining"}
    /\ reading' = [reading EXCEPT ![s] = "free"]
    /\ UNCHANGED << maps, manager, process, shut, stopHolder, shielded, node, known, stopper, left, stopFailed >>

(***************************************************************************)
(* Stopping a session: ManagedClaudeSession.stop.                          *)
(***************************************************************************)

\* Under _lifecycle_lock: nothing to do, or the process tree is signalled.
StopBegins(s, who) ==
    /\ stopHolder[s] = "free"
    /\ shut' = [shut EXCEPT ![s] = TRUE]
    /\ process' = [process EXCEPT ![s] = IF @ = "alive" THEN "doomed" ELSE @]
    /\ stopHolder' = [stopHolder EXCEPT ![s] = who]

StopEnds(s, who) ==
    /\ stopHolder[s] = who /\ process[s] \in {"none", "dead"}
    /\ stopHolder' = [stopHolder EXCEPT ![s] = "free"]
    /\ UNCHANGED << process, shut >>

\* kill() raised: the process runs on, and stop returns False.
StopFails(s, who) ==
    /\ stopHolder[s] = who /\ process[s] = "doomed"
    /\ Budget("troubles") /\ stopFailed' = TRUE
    /\ process' = [process EXCEPT ![s] = "alive"]
    /\ stopHolder' = [stopHolder EXCEPT ![s] = "free"]
    /\ UNCHANGED shut

ProcessEnds(s) ==
    /\ process[s] \in {"alive", "doomed"}
    /\ process' = [process EXCEPT ![s] = "dead"]
    /\ UNCHANGED << maps, manager, shut, reading, stopHolder, shielded, node, known, stopper, left, stopFailed >>

ShieldBegins(s) ==
    /\ s \in shielded /\ StopBegins(s, "shield")
    /\ UNCHANGED << maps, manager, reading, shielded, node, known, stopper, left, stopFailed >>

ShieldEnds(s) ==
    /\ \/ StopEnds(s, "shield") /\ UNCHANGED << left, stopFailed >>
       \/ StopFails(s, "shield")
    /\ shielded' = shielded \ {s}
    /\ UNCHANGED << maps, manager, reading, node, known, stopper >>

\* The shielded stop is over, and stderr was read to its end.
DrainEnds(t) ==
    LET s == node[t].session IN
    /\ node[t].at \in {"killing", "draining"}
    /\ IsAt(t, "killing") => s \notin shielded
    /\ process[s] = "dead"
    /\ reading' = [reading EXCEPT ![s] = "free"]
    /\ Goes(t, "removing")
    /\ UNCHANGED << maps, manager, process, shut, stopHolder, shielded, known, stopper, left, stopFailed >>

(***************************************************************************)
(* Giving the session back: remove_session.                                *)
(***************************************************************************)

\* _forget_session: every id of the session, and the link between them.
ForgetSession(s) ==
    LET real == { id \in DOMAIN sessions : sessions[id] = s }
        temp == { toTemp[id] : id \in real \cap DOMAIN toTemp }
    IN  /\ pending' = Without(pending, { id \in DOMAIN pending : pending[id] = s })
        /\ sessions' = Without(sessions, real)
        /\ toTemp' = Without(toTemp, real)
        /\ toReal' = Without(toReal, temp)
        /\ closing' = closing \ {s}

Removes(t) ==
    LET s == SessionFor(node[t].handle) IN
    /\ IsAt(t, "removing") /\ manager = "free"
    /\ IF s = 0
       THEN Ends(t) /\ UNCHANGED << closing, manager >>
       ELSE /\ closing' = closing \cup {s}
            /\ manager' = t
            /\ node' = [node EXCEPT ![t] = [@ EXCEPT !.at = "stopping", !.session = s]]
    /\ UNCHANGED << procs, pending, sessions, toReal, toTemp, known, stopper, left, stopFailed >>

RemoveStops(t) ==
    /\ IsAt(t, "stopping") /\ StopBegins(node[t].session, t)
    /\ UNCHANGED << maps, manager, reading, shielded, node, known, stopper, left, stopFailed >>

\* A plausible bug: a session whose stop failed is forgotten all the same.
RemoveEnds_Anyway(t) ==
    /\ IsAt(t, "stopping")
    /\ ForgetSession(node[t].session)
    /\ \/ StopEnds(node[t].session, t) /\ UNCHANGED << left, stopFailed >>
       \/ StopFails(node[t].session, t)
    /\ manager' = "free" /\ Ends(t)
    /\ UNCHANGED << reading, shielded, known, stopper >>

RemoveEnds(t) ==
    /\ IsAt(t, "stopping")
    /\ \/ StopEnds(node[t].session, t) /\ ForgetSession(node[t].session) /\ UNCHANGED << left, stopFailed >>
       \/ StopFails(node[t].session, t) /\ UNCHANGED maps
    /\ manager' = "free" /\ Ends(t)
    /\ UNCHANGED << reading, shielded, known, stopper >>

(***************************************************************************)
(* Cancelling a node, wherever it waits, and stopping everything.          *)
(***************************************************************************)

\* A plausible bug: a cancelled read leaves the subprocess alone.
CancelsReading_Alone(t) ==
    /\ IsAt(t, "reading") /\ Goes(t, "draining")
    /\ UNCHANGED << maps, manager, procs >>

\* Inside start_task the subprocess is stopped behind a shield; outside it
\* the generator is abandoned and remove_session has to stop it.
CancelsReading(t) ==
    /\ IsAt(t, "reading") /\ shielded' = shielded \cup {node[t].session}
    /\ Goes(t, "killing")
    /\ UNCHANGED << maps, manager, process, shut, reading, stopHolder >>

CancelsOutside(t) ==
    /\ node[t].at \in {"entering", "reading"}
    /\ Goes(t, "removing")
    /\ UNCHANGED << maps, manager, procs >>

CancelsKilling(t) ==
    /\ IsAt(t, "killing") /\ Goes(t, "draining")
    /\ UNCHANGED << maps, manager, procs >>

CancelsDraining(t) ==
    /\ IsAt(t, "draining") /\ Goes(t, "removing")
    /\ reading' = [reading EXCEPT ![node[t].session] = "free"]
    /\ UNCHANGED << maps, manager, process, shut, stopHolder, shielded >>

\* While it waits for the manager the node gives up and removes nothing.
CancelsWaiting(t) ==
    /\ IsAt(t, "removing") /\ Ends(t)
    /\ UNCHANGED << maps, manager, procs >>

\* Inside remove_session the session stays among the closing ones.
CancelsRemoval(t) ==
    LET s == node[t].session IN
    /\ IsAt(t, "stopping") /\ Ends(t) /\ manager' = "free"
    /\ stopHolder' = [stopHolder EXCEPT ![s] = IF @ = t THEN "free" ELSE @]
    /\ UNCHANGED << maps, process, shut, reading, shielded >>

Cancels(t) ==
    \/ CancelsReading(t) \/ CancelsOutside(t) \/ CancelsKilling(t)
    \/ CancelsDraining(t) \/ CancelsWaiting(t) \/ CancelsRemoval(t)

CancelNode(t) ==
    /\ stopper.at \in Rests /\ Budget("troubles") /\ Cancels(t)
    /\ UNCHANGED << known, stopper, stopFailed >>

\* stop_all_tasks: every node that runs is cancelled once and waited for.
StopEverySession ==
    /\ stopper.at \in Rests /\ Budget("troubles")
    /\ stopper' = [at |-> "draining", nodes |-> { t \in Conversations : ~IsAt(t, "idle") }, todo |-> {}]
    /\ UNCHANGED << maps, procs, manager, node, known, stopFailed >>

StopAllCancels(t) ==
    /\ t \in stopper.nodes
    /\ IF IsAt(t, "idle") THEN UNCHANGED << maps, procs, manager, node >> ELSE Cancels(t)
    /\ stopper' = [stopper EXCEPT !.nodes = @ \ {t}]
    /\ UNCHANGED << known, left, stopFailed >>

\* ManagedClaudeSessionManager.stop_all, under the manager's lock throughout.
StopAllTakes ==
    /\ stopper.at = "draining" /\ stopper.nodes = {} /\ manager = "free"
    /\ manager' = "all"
    /\ closing' = closing \cup Owned
    /\ stopper' = [at |-> "stopping", nodes |-> {}, todo |-> closing \cup Owned]
    /\ UNCHANGED << pending, sessions, toReal, toTemp, procs, node, known, left, stopFailed >>

StopAllBegins(s) ==
    /\ s \in stopper.todo /\ \A other \in Sessions : stopHolder[other] # "all"
    /\ StopBegins(s, "all")
    /\ UNCHANGED << maps, manager, reading, shielded, node, known, stopper, left, stopFailed >>

StopAllEnds(s) ==
    /\ s \in stopper.todo
    /\ \/ StopEnds(s, "all") /\ ForgetSession(s) /\ UNCHANGED << left, stopFailed >>
       \/ StopFails(s, "all") /\ UNCHANGED maps
    /\ stopper' = [stopper EXCEPT !.todo = @ \ {s}]
    /\ UNCHANGED << manager, reading, shielded, node, known >>

\* A session that is still owned failed to stop: stop_all raises.
StopAllReturns ==
    /\ stopper.at = "stopping" /\ stopper.todo = {}
    /\ manager' = "free"
    /\ stopper' = [stopper EXCEPT !.at = IF closing = {} THEN "stopped" ELSE "failed"]
    /\ UNCHANGED << maps, procs, node, known, left, stopFailed >>

NodeWorks(t) ==
    \/ Launches(t) \/ Finishes(t) \/ DrainEnds(t) \/ Removes(t) \/ RemoveStops(t) \/ RemoveEnds(t)

StopAllWorks ==
    \/ StopAllTakes \/ StopAllReturns
    \/ \E t \in Conversations : StopAllCancels(t)
    \/ \E s \in Sessions : StopAllBegins(s) \/ StopAllEnds(s)

SessionsNext ==
    \/ \E t \in Conversations : LaunchFails(t) \/ NodeFails(t) \/ CancelNode(t) \/ NodeWorks(t)
    \/ \E t \in Conversations, h \in Named \cup {NoHandle} :
          GetsNew(t, h) \/ GetsOwned(t, h)
    \/ \E t \in Conversations, id \in Named : Registers(t, id)
    \/ \E s \in Sessions : Finalised(s) \/ ProcessEnds(s) \/ ShieldBegins(s) \/ ShieldEnds(s)
    \/ StopEverySession \/ StopAllWorks

\* Ready tasks run, a process that was killed dies, and a shielded stop goes
\* through; a node's own run may go on for ever.
SessionsFairness ==
    /\ \A t \in Conversations : WF_sessionVars(NodeWorks(t))
    /\ WF_sessionVars(StopAllWorks)
    /\ \A s \in Sessions :
          /\ WF_sessionVars(process[s] = "doomed" /\ ProcessEnds(s))
          /\ WF_sessionVars(ShieldBegins(s)) /\ WF_sessionVars(ShieldEnds(s))
          /\ WF_sessionVars(Finalised(s))

SessionsSpec == SessionsInit /\ [][SessionsNext]_sessionVars /\ SessionsFairness

(***************************************************************************)
(* Properties.                                                             *)
(***************************************************************************)

\* Every variable stays in its range, and no session is pending and registered.
SessionsTypeOK ==
    /\ DOMAIN pending \subseteq Handles /\ DOMAIN sessions \subseteq Handles
    /\ Range(pending) \cap Range(sessions) = {}
    /\ closing \subseteq Sessions /\ shielded \subseteq Sessions
    /\ manager \in Conversations \cup {"free", "all"}
    /\ process \in [Sessions -> {"none", "alive", "doomed", "dead"}]
    /\ shut \in [Sessions -> BOOLEAN]
    /\ reading \in [Sessions -> Conversations \cup {"free"}]
    /\ stopHolder \in [Sessions -> Conversations \cup {"free", "shield", "all"}]

\* A Claude subprocess that may still run is one the manager can reach, so that
\* the next stop_all ends it (manager.py:151-200), and the pool's two id maps
\* lead from each temporary id to the session it stands for and back, whatever
\* node failed, was cancelled, or could not stop its session.
EveryProcessIsOwned ==
    /\ \A s \in Sessions : process[s] \in {"alive", "doomed"} => s \in Owned
    /\ \A id \in DOMAIN toReal : /\ toReal[id] \in DOMAIN sessions
                                 /\ toTemp[toReal[id]] = id

\* A node cancelled while it reads ends, and /stop ends, unless a stop failed:
\* the shielded stop lets the pipes of the subprocess reach their end
\* (session.py:192-201), and no lock of the pool is waited for for ever.
CancelledNodesEnd ==
    <>[](/\ \/ stopFailed
            \/ \A t \in Conversations :
                  node[t].at \notin {"killing", "draining", "removing", "stopping"}
         /\ stopper.at \in Rests)
=============================================================================
