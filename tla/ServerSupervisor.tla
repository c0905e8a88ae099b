-------------------------- MODULE ServerSupervisor --------------------------
(***************************************************************************)
(* ServerSupervisor (cli/commands.py) under the DesktopController that     *)
(* drives it (cli/desktop.py): a worker thread builds and runs one server  *)
(* after another, the tray's thread and the admin API of the running       *)
(* server ask for restarts, and the tray for the end.                      *)
(*                                                                         *)
(* Every field is read and written under one threading.Lock; between two   *)
(* critical sections anything may happen, so each is an action.  uvicorn   *)
(* is external: run() returns after should_exit was set, or on its own     *)
(* (a signal, a port in use, a failed start-up).                           *)
(***************************************************************************)
EXTENDS Naturals

CONSTANTS MaxRequests,   \* bound: restarts asked for
          MaxExits       \* bound: servers that end on their own

ASSUME SupervisorAssumption == MaxRequests \in Nat /\ MaxExits \in Nat

VARIABLES
    scheduled,    \* _run_scheduled
    running,      \* _running
    stopped,      \* _stop_requested
    generation,   \* _restart_generation
    server,       \* _server: none, or whether its should_exit is set
    worker,       \* where the worker thread is
    seen,         \* restart_generation of the round
    clean,        \* whether the last runtime was fully closed
    tray,         \* restart_server found the thread alive
    admin,        \* an admin update is committed, its restart not yet asked for
    owed,         \* history: an accepted restart whose settings are not loaded yet
    exits         \* history: servers that ended on their own

supervisorVars == << scheduled, running, stopped, generation, server, worker, seen,
                     clean, tray, admin, owed, exits >>

SupervisorInit ==
    /\ scheduled = FALSE /\ running = FALSE /\ stopped = FALSE /\ generation = 0
    /\ server = "none" /\ worker = "none" /\ seen = 0 /\ clean = TRUE
    /\ tray = "idle" /\ admin = "idle" /\ owed = FALSE /\ exits = 0

ThreadIsAlive == worker \notin {"none", "dead"}

(***************************************************************************)
(* The tray and the admin API.                                             *)
(***************************************************************************)

\* _start_server: reserve a run and start the thread, under _thread_lock.
StartServer ==
    /\ ~ThreadIsAlive /\ ~stopped /\ ~scheduled /\ ~running
    /\ scheduled' = TRUE /\ worker' = "born"
    /\ UNCHANGED << running, stopped, generation, server, seen, clean, tray, admin, owed, exits >>

\* request_restart(): refused once stopped, or when nothing runs.
RequestRestart ==
    LET accepted == ~stopped /\ (scheduled \/ running) /\ generation < MaxRequests
    IN  /\ generation' = IF accepted THEN generation + 1 ELSE generation
        /\ server' = IF accepted /\ ~scheduled /\ server # "none" THEN "exiting" ELSE server
        /\ owed' = (owed \/ accepted)
        /\ UNCHANGED << scheduled, running, stopped, worker, seen, clean, exits >>

\* restart_server looks at the thread first; a dead one is started again
\* (StartServer).
TrayRestart ==
    /\ tray = "idle" /\ ThreadIsAlive
    /\ tray' = "restarting"
    /\ UNCHANGED << scheduled, running, stopped, generation, server, worker, seen,
                    clean, admin, owed, exits >>

TrayRequests == tray = "restarting" /\ RequestRestart /\ tray' = "idle" /\ UNCHANGED admin

\* An update that needs a restart is on disk; its response is on its way.
AdminApplies ==
    /\ worker = "serving" /\ admin = "idle"
    /\ admin' = "committed"
    /\ UNCHANGED << scheduled, running, stopped, generation, server, worker, seen,
                    clean, tray, owed, exits >>

\* The background task of that response runs, also while the server shuts down.
AdminRequests ==
    /\ admin = "committed" /\ worker = "serving"
    /\ RequestRestart /\ admin' = "idle" /\ UNCHANGED tray

\* quit(), or the end of the tray's loop: request_stop().
Quit ==
    /\ ~stopped
    /\ stopped' = TRUE /\ scheduled' = FALSE
    /\ server' = IF server # "none" THEN "exiting" ELSE server
    /\ UNCHANGED << running, generation, worker, seen, clean, tray, admin, owed, exits >>

(***************************************************************************)
(* The worker thread: run() and _run_once().                               *)
(***************************************************************************)

Goes(from, to) ==
    /\ worker = from /\ worker' = to
    /\ UNCHANGED << stopped, tray, admin >>

\* A second run is refused; one that was stopped meanwhile ends at once.
RunBegins ==
    /\ Goes("born", IF running THEN "refused" ELSE IF stopped THEN "dead" ELSE "top")
    /\ running' = (running \/ ~stopped)
    /\ scheduled' = FALSE
    /\ UNCHANGED << generation, server, seen, clean, owed, exits >>

ChecksStop ==
    /\ Goes("top", IF stopped THEN "leaving" ELSE "reading")
    /\ UNCHANGED << scheduled, running, generation, server, seen, clean, owed, exits >>

\* The generation is read before the settings are.
ReadsGeneration ==
    /\ Goes("reading", "loading") /\ seen' = generation
    /\ UNCHANGED << scheduled, running, generation, server, clean, owed, exits >>

\* Settings as they are now; a server is built from them.
LoadsSettings ==
    /\ Goes("loading", "building") /\ owed' = FALSE
    /\ UNCHANGED << scheduled, running, generation, server, seen, clean, exits >>

\* Invalid settings, or an unsafe exposure.
LoadFails ==
    /\ exits < MaxExits /\ exits' = exits + 1
    /\ Goes("loading", "leaving")
    /\ UNCHANGED << scheduled, running, generation, server, seen, clean, owed >>

\* A plausible bug: only a stop is looked for when the server is published.
Publishes_Unchecked ==
    /\ Goes("building", "serving")
    /\ server' = IF stopped THEN "exiting" ELSE "up"
    /\ UNCHANGED << scheduled, running, generation, seen, clean, owed, exits >>

\* The server is published; what was asked meanwhile could not reach it.
Publishes ==
    /\ Goes("building", "serving")
    /\ server' = IF stopped \/ generation # seen THEN "exiting" ELSE "up"
    /\ UNCHANGED << scheduled, running, generation, seen, clean, owed, exits >>

\* uvicorn was told to exit; the runtime closes completely, or not.
ServerStops ==
    /\ server = "exiting" /\ Goes("serving", "deciding")
    /\ \/ clean' = TRUE /\ UNCHANGED exits
       \/ exits < MaxExits /\ exits' = exits + 1 /\ clean' = FALSE
    /\ UNCHANGED << scheduled, running, generation, server, seen, owed >>

ServerExits ==
    /\ exits < MaxExits /\ exits' = exits + 1
    /\ Goes("serving", "deciding")
    /\ clean' \in BOOLEAN
    /\ UNCHANGED << scheduled, running, generation, server, seen, owed >>

\* Another round only for a restart, without a stop, after a full close.
Decides ==
    /\ Goes("deciding", IF generation # seen /\ ~stopped /\ clean THEN "top" ELSE "leaving")
    /\ server' = "none"
    /\ UNCHANGED << scheduled, running, generation, seen, clean, owed, exits >>

\* The finally clause of run().
Leaves ==
    /\ Goes("leaving", "killing") /\ running' = FALSE /\ server' = "none"
    /\ UNCHANGED << scheduled, generation, seen, clean, owed, exits >>

\* kill_all_best_effort, and the end of the thread.
ThreadEnds ==
    /\ Goes("killing", "dead")
    /\ UNCHANGED << scheduled, running, generation, server, seen, clean, owed, exits >>

WorkerStep ==
    \/ RunBegins \/ ChecksStop \/ ReadsGeneration \/ LoadsSettings \/ LoadFails
    \/ Publishes \/ ServerStops \/ Decides \/ Leaves \/ ThreadEnds

SupervisorNext ==
    \/ StartServer \/ TrayRestart \/ TrayRequests \/ AdminApplies \/ AdminRequests \/ Quit
    \/ WorkerStep \/ ServerExits

\* The thread runs, and a server told to exit does.
SupervisorFairness == WF_supervisorVars(WorkerStep)

(***************************************************************************)
(* Properties.                                                             *)
(***************************************************************************)

\* The types of the fields, and one run at a time: schedule_run, the thread's
\* life and _running keep a second run() from being refused.
SupervisorTypeOK ==
    /\ {scheduled, running, stopped, clean, owed} \subseteq BOOLEAN
    /\ generation \in 0..MaxRequests /\ seen \in 0..generation
    /\ server \in {"none", "up", "exiting"}
    /\ worker \in {"none", "born", "top", "reading", "loading", "building", "serving",
                   "deciding", "leaving", "killing", "dead"}
    /\ exits \in 0..MaxExits

\* "Stop" ends the server whenever it is asked for, and a restart that
\* request_restart accepted loads the settings once more, unless a server ended
\* on its own or did not close completely (commands.py:161-175, 190-232).
RequestsTakeEffect ==
    /\ <>[](stopped => ~ThreadIsAlive)
    /\ <>[](owed => stopped \/ exits > 0)
=============================================================================
