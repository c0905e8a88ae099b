------------------------- MODULE ProviderGenerations -------------------------
(***************************************************************************)
(* The owner of provider generations (runtime/provider_manager.py).  Each  *)
(* generation is a ProviderRuntime built from one configuration; requests  *)
(* hold leases on the one that was current when they started.  Replacing   *)
(* the configuration publishes a new generation and retires the old one,   *)
(* which is cleaned up once its last lease is gone; a background task       *)
(* lists the models of the current generation; close() ends it all.        *)
(*                                                                         *)
(* A generation is named by its runtime, numbered in the order of          *)
(* construction.  Code between two awaits is one action.  replace(), the   *)
(* explicit refresh and the change of a connected account run under        *)
(* _replace_lock; of an operation waiting for the lock nothing is visible, *)
(* so only its holder is a variable.  Any operation may be cancelled at    *)
(* any await, any cleanup may fail, and close() may be called again.       *)
(* start_model_list_refresh() runs once, when the process starts, before   *)
(* it serves anything, and is part of the initial state.                   *)
(***************************************************************************)
EXTENDS Integers, FiniteSets

CONSTANTS Requests,      \* tasks that use providers through a lease
          MaxRuntimes    \* bound: runtimes ever constructed

ASSUME GenerationsAssumption == MaxRuntimes \in Nat \ {0}

VARIABLES
    current,      \* _current
    built,        \* number of runtimes constructed so far
    retired,      \* _retired: published generations still to be closed
    unpublished,  \* _unpublished: candidates still to be closed
    cleaned,      \* runtimes whose cleanup succeeded
    leases,       \* active_leases of each generation
    cleanups,     \* live tasks running _run_generation_cleanup of each one
    request,      \* each request: where it is, and on which generation
    refreshTask,  \* generation of _refresh_task, 0 for None
    background,   \* state of each generation's background refresh
    holder,       \* the operation that holds _replace_lock
    step,         \* where that operation is suspended
    todo,         \* runtimes it, or close(), is still cleaning up or awaiting
    closer,       \* where close() is suspended
    closing,      \* _closing
    closed,       \* _closed
    catalog,      \* what was cached last: models of which generation, by what
    broken        \* history: runtimes whose cleanup failed once

requestVars == <<request>>
ownership == <<current, built, retired, unpublished, cleaned, broken>>
refreshVars == <<refreshTask, background, catalog>>
adminVars == <<holder, step, todo>>
closeVars == <<closer, closing, closed>>
vars == <<ownership, leases, cleanups, requestVars, refreshVars, adminVars, closeVars>>

Runtimes == 1..MaxRuntimes
Backgrounds == {"none", "created", "listing", "cancelled", "finished"}
Steps == {"none", "cancelling", "retrying", "discarding", "awaiting", "listing", "connecting"}

NoCatalog == [gen |-> 0, by |-> "none"]
Catalogs == [gen : Runtimes, by : {"refresh", "check"}] \cup {NoCatalog}

\* A refresh of r caches what it listed, or nothing when listing failed.
Listed(r) == {catalog, [gen |-> r, by |-> "refresh"]}

------------------------------------------------------------------------------
(* Leases and cleanup                                                       *)

\* A plausible bug: the cleanup already under way is not joined.
CleanupsAfter_NotJoined(rs, ls) ==
    [r \in Runtimes |-> IF r \in rs \ cleaned /\ ls[r] = 0 THEN cleanups[r] + 1 ELSE cleanups[r]]

\* _close_generation of each of rs, when ls are the leases: it starts the
\* cleanup task, or joins the one that runs.
CleanupsAfter(rs, ls) ==
    [r \in Runtimes |-> IF r \in rs \ cleaned /\ ls[r] = 0 /\ cleanups[r] = 0
                        THEN 1 ELSE cleanups[r]]

\* A plausible bug: any release of a retired generation closes it.
ReleaseLease_Early(r) ==
    /\ leases' = [leases EXCEPT ![r] = @ - 1]
    /\ cleanups' = IF r \in retired /\ ~closing
                   THEN CleanupsAfter({r}, [leases EXCEPT ![r] = 0]) ELSE cleanups

\* _release
ReleaseLease(r) ==
    /\ leases' = [leases EXCEPT ![r] = @ - 1]
    /\ cleanups' = IF r \in retired /\ ~closing THEN CleanupsAfter({r}, leases') ELSE cleanups

\* acquire: rejected while the manager shuts down.
Acquire(q) ==
    /\ request[q].at = "idle"
    /\ ~closing
    /\ request' = [request EXCEPT ![q] = [at |-> "using", on |-> current]]
    /\ leases' = [leases EXCEPT ![current] = @ + 1]
    /\ UNCHANGED <<ownership, cleanups, refreshVars, adminVars, closeVars>>

\* A plausible bug: release() is not idempotent.
Release_Twice(q) ==
    /\ request[q].at \in {"using", "awaiting"}
    /\ request' = [request EXCEPT ![q].at = "awaiting"]
    /\ ReleaseLease(request[q].on)
    /\ UNCHANGED <<ownership, refreshVars, adminVars, closeVars>>

\* release(), once per lease; it awaits the cleanup it may have started.
Release(q) ==
    /\ request[q].at = "using"
    /\ request' = [request EXCEPT ![q].at = "awaiting"]
    /\ ReleaseLease(request[q].on)
    /\ UNCHANGED <<ownership, refreshVars, adminVars, closeVars>>

\* The admin's provider check caches what it listed when its lease is gone.
ReleaseReturns(q) ==
    /\ request[q].at = "awaiting"
    /\ cleanups[request[q].on] = 0 \/ leases[request[q].on] > 0 \/ closing
    /\ request' = [request EXCEPT ![q] = [at |-> "idle", on |-> 0]]
    /\ catalog' \in {catalog, [gen |-> request[q].on, by |-> "check"]}
    /\ UNCHANGED <<ownership, leases, cleanups, refreshTask, background, adminVars, closeVars>>

\* A plausible bug: cancelling the waiter cancels the cleanup.
CancelRelease_Unshielded(q) ==
    /\ request[q].at = "awaiting"
    /\ request' = [request EXCEPT ![q] = [at |-> "idle", on |-> 0]]
    /\ cleanups' = [cleanups EXCEPT ![request[q].on] = 0]
    /\ UNCHANGED <<ownership, leases, refreshVars, adminVars, closeVars>>

\* The request is cancelled meanwhile: asyncio.shield keeps the cleanup.
CancelRelease(q) ==
    /\ request[q].at = "awaiting"
    /\ request' = [request EXCEPT ![q] = [at |-> "idle", on |-> 0]]
    /\ UNCHANGED <<ownership, leases, cleanups, refreshVars, adminVars, closeVars>>

CleanupSucceeds(r) ==
    /\ cleanups[r] > 0
    /\ cleanups' = [cleanups EXCEPT ![r] = @ - 1]
    /\ cleaned' = cleaned \cup {r}
    /\ retired' = retired \ {r}
    /\ UNCHANGED <<current, built, unpublished, broken, leases, requestVars,
                   refreshVars, adminVars, closeVars>>

\* A plausible bug: the generation is forgotten whatever its cleanup says.
CleanupFails_Forgets(r) ==
    /\ cleanups[r] > 0
    /\ cleanups' = [cleanups EXCEPT ![r] = @ - 1]
    /\ broken' = broken \cup {r}
    /\ retired' = retired \ {r}
    /\ UNCHANGED <<current, built, unpublished, cleaned, leases, requestVars,
                   refreshVars, adminVars, closeVars>>

\* The generation stays in _retired; only close() tries again.
CleanupFails(r) ==
    /\ cleanups[r] > 0
    /\ cleanups' = [cleanups EXCEPT ![r] = @ - 1]
    /\ broken' = broken \cup {r}
    /\ UNCHANGED <<current, built, retired, unpublished, cleaned, leases, requestVars,
                   refreshVars, adminVars, closeVars>>

------------------------------------------------------------------------------
(* The background refresh                                                   *)

BackgroundStarts(r) ==
    /\ background[r] = "created"
    /\ IF r \in cleaned
       THEN /\ background' = [background EXCEPT ![r] = "finished"]
            /\ UNCHANGED leases
       ELSE /\ background' = [background EXCEPT ![r] = "listing"]
            /\ leases' = [leases EXCEPT ![r] = @ + 1]
    /\ UNCHANGED <<ownership, cleanups, requestVars, refreshTask, catalog, adminVars, closeVars>>

BackgroundEnds(r) ==
    /\ background[r] = "listing"
    /\ background' = [background EXCEPT ![r] = "finished"]
    /\ catalog' \in Listed(r)
    /\ ReleaseLease(r)
    /\ UNCHANGED <<ownership, requestVars, refreshTask, adminVars, closeVars>>

BackgroundStops(r) ==
    /\ background[r] = "cancelled"
    /\ background' = [background EXCEPT ![r] = "finished"]
    /\ ReleaseLease(r)
    /\ UNCHANGED <<ownership, requestVars, refreshTask, catalog, adminVars, closeVars>>

\* A plausible bug: the refresh is forgotten, not cancelled.
CancelRefresh_Forgets ==
    /\ refreshTask' = 0
    /\ UNCHANGED background

\* _cancel_refresh up to its await.  A task that has not run yet never will.
CancelRefresh ==
    /\ refreshTask' = 0
    /\ background' = [r \in Runtimes |->
           IF r # refreshTask THEN background[r]
           ELSE CASE background[r] = "created" -> "finished"
                  [] background[r] = "listing" -> "cancelled"
                  [] OTHER -> background[r]]

\* What it awaits; when the caller is cancelled, gather() still waits for it.
RefreshStopped == \A r \in Runtimes : background[r] # "cancelled"

------------------------------------------------------------------------------
(* Operations under _replace_lock                                           *)

Hold(op, at) == holder' = op /\ step' = at
Unlock == holder' = "none" /\ step' = "none" /\ todo' = {}

\* replace(), refresh_model_list_cache(): both cancel the background refresh.
Enter(op) ==
    /\ holder = "none" /\ ~closing
    /\ op \in {"replace", "refresh"}
    /\ CancelRefresh
    /\ Hold(op, "cancelling")
    /\ UNCHANGED <<ownership, leases, cleanups, requestVars, catalog, todo, closeVars>>

\* connected_provider_changed(connected=True): uses the current runtime
\* without a lease.
Connect ==
    /\ holder = "none" /\ ~closing
    /\ Hold("connect", "connecting")
    /\ UNCHANGED <<ownership, leases, cleanups, requestVars, refreshVars, todo, closeVars>>

ConnectEnds ==
    /\ step = "connecting"
    /\ catalog' \in Listed(current)
    /\ Unlock
    /\ UNCHANGED <<ownership, leases, cleanups, requestVars, refreshTask, background, closeVars>>

ExplicitStarts ==
    /\ holder = "refresh" /\ step = "cancelling"
    /\ RefreshStopped
    /\ leases' = [leases EXCEPT ![current] = @ + 1]
    /\ Hold("refresh", "listing")
    /\ UNCHANGED <<ownership, cleanups, requestVars, refreshVars, todo, closeVars>>

ExplicitEnds ==
    /\ step = "listing"
    /\ catalog' \in Listed(current)
    /\ ReleaseLease(current)
    /\ Unlock
    /\ UNCHANGED <<ownership, requestVars, refreshTask, background, closeVars>>

\* _retry_unpublished_cleanup works on a snapshot of _unpublished.
ReplaceRetries ==
    /\ holder = "replace" /\ step = "cancelling"
    /\ RefreshStopped
    /\ Hold("replace", "retrying")
    /\ todo' = unpublished
    /\ UNCHANGED <<ownership, leases, cleanups, requestVars, refreshVars, closeVars>>

\* _cleanup_unpublished of one of todo
CleanUnpublished(r) ==
    /\ r \in todo
    /\ \/ /\ unpublished' = unpublished \ {r}
          /\ cleaned' = cleaned \cup {r}
          /\ UNCHANGED broken
       \/ /\ broken' = broken \cup {r}
          /\ UNCHANGED <<unpublished, cleaned>>
    /\ todo' = todo \ {r}
    /\ UNCHANGED <<current, built, retired, leases, cleanups, requestVars, refreshVars,
                   holder, step, closeVars>>

AdminCleans == step \in {"retrying", "discarding"} /\ \E r \in todo : CleanUnpublished(r)

Building ==
    /\ step = "retrying" /\ todo = {}
    /\ built < MaxRuntimes

\* The factory raises.
BuildFails ==
    /\ step = "retrying" /\ todo = {}
    /\ Unlock
    /\ UNCHANGED <<ownership, leases, cleanups, requestVars, refreshVars, closeVars>>

\* commit() raises: the candidate is cleaned up, and owned until it is.
CommitFails ==
    /\ Building
    /\ built' = built + 1
    /\ unpublished' = unpublished \cup {built'}
    /\ todo' = {built'}
    /\ Hold("replace", "discarding")
    /\ UNCHANGED <<current, retired, cleaned, broken, leases, cleanups, requestVars,
                   refreshVars, closeVars>>

Discarded ==
    /\ step = "discarding" /\ todo = {}
    /\ Unlock
    /\ UNCHANGED <<ownership, leases, cleanups, requestVars, refreshVars, closeVars>>

\* Publication is one step: the previous generation retires and, unless it
\* is leased, its cleanup starts.
Publish ==
    /\ Building
    /\ built' = built + 1
    /\ current' = built'
    /\ retired' = retired \cup {current}
    /\ refreshTask' = built'
    /\ background' = [background EXCEPT ![built'] = "created"]
    /\ cleanups' = CleanupsAfter({current}, leases)
    /\ IF leases[current] = 0
       THEN Hold("replace", "awaiting") /\ todo' = {current}
       ELSE Unlock
    /\ UNCHANGED <<unpublished, cleaned, broken, leases, requestVars, catalog, closeVars>>

ReplaceReturns ==
    /\ step = "awaiting"
    /\ \A r \in todo : cleanups[r] = 0
    /\ Unlock
    /\ UNCHANGED <<ownership, leases, cleanups, requestVars, refreshVars, closeVars>>

\* Cancelled at its await: a refresh gives its lease back, a cleanup of an
\* unpublished runtime breaks off, that of a generation goes on.
CancelAdmin ==
    /\ holder \in {"replace", "refresh", "connect"}
    /\ step = "cancelling" => RefreshStopped
    /\ IF step = "listing" THEN ReleaseLease(current) ELSE UNCHANGED <<leases, cleanups>>
    /\ Unlock
    /\ UNCHANGED <<ownership, requestVars, refreshVars, closeVars>>

------------------------------------------------------------------------------
(* close()                                                                  *)

CloseStarts ==
    /\ closer = "idle" /\ ~closed
    /\ holder = "none"
    /\ closing' = TRUE
    /\ CancelRefresh
    /\ Hold("close", "cancelling")
    /\ closer' = "cancelling"
    /\ UNCHANGED <<ownership, leases, cleanups, requestVars, catalog, todo, closed>>

CloseRetires ==
    /\ closer = "cancelling"
    /\ RefreshStopped
    /\ retired' = retired \cup ({current} \ cleaned)
    /\ holder' = "none" /\ step' = "none" /\ todo' = retired'
    /\ closer' = "draining"
    /\ UNCHANGED <<current, built, unpublished, cleaned, broken, leases, cleanups, requestVars,
                   refreshVars, closing, closed>>

CloseDrained ==
    /\ closer = "draining"
    /\ \A r \in todo : leases[r] = 0
    /\ cleanups' = CleanupsAfter(todo, leases)
    /\ closer' = "cleaning"
    /\ UNCHANGED <<ownership, leases, requestVars, refreshVars, adminVars, closing, closed>>

CloseCollects ==
    /\ closer = "cleaning"
    /\ \A r \in todo : cleanups[r] = 0
    /\ todo' = unpublished
    /\ closer' = "retrying"
    /\ UNCHANGED <<ownership, leases, cleanups, requestVars, refreshVars, holder, step,
                   closing, closed>>

CloserCleans == closer = "retrying" /\ \E r \in todo : CleanUnpublished(r)

\* A plausible bug: the results of the cleanups are not looked at.
CloseReturns_Always ==
    /\ closer = "retrying" /\ todo = {}
    /\ closer' = "idle"
    /\ closed' = TRUE
    /\ catalog' = NoCatalog
    /\ UNCHANGED <<ownership, leases, cleanups, requestVars, refreshTask, background,
                   adminVars, closing>>

\* The manager is terminal only when everything it owned is closed;
\* otherwise close() raises and may be called again.
CloseReturns ==
    /\ closer = "retrying" /\ todo = {}
    /\ closer' = "idle"
    /\ IF retired \cup unpublished = {}
       THEN closed' = TRUE /\ catalog' = NoCatalog
       ELSE UNCHANGED <<closed, catalog>>
    /\ UNCHANGED <<ownership, leases, cleanups, requestVars, refreshTask, background,
                   adminVars, closing>>

\* Cancelled at its await; _closing stays set.
CancelClose ==
    /\ closer # "idle"
    /\ closer = "cancelling" => RefreshStopped
    /\ closer' = "idle"
    /\ Unlock
    /\ UNCHANGED <<ownership, leases, cleanups, requestVars, refreshVars, closing, closed>>

------------------------------------------------------------------------------

Init ==
    /\ current = 1
    /\ built = 1
    /\ retired = {}
    /\ unpublished = {}
    /\ cleaned = {}
    /\ broken = {}
    /\ leases = [r \in Runtimes |-> 0]
    /\ cleanups = [r \in Runtimes |-> 0]
    /\ request = [q \in Requests |-> [at |-> "idle", on |-> 0]]
    /\ refreshTask = 1
    /\ background = [r \in Runtimes |-> IF r = 1 THEN "created" ELSE "none"]
    /\ catalog = NoCatalog
    /\ holder = "none"
    /\ step = "none"
    /\ todo = {}
    /\ closer = "idle"
    /\ closing = FALSE
    /\ closed = FALSE

AdminStep ==
    \/ ConnectEnds \/ ExplicitStarts \/ ExplicitEnds
    \/ ReplaceRetries \/ AdminCleans \/ BuildFails \/ CommitFails \/ Publish \/ Discarded
    \/ ReplaceReturns

CloseStep == CloseRetires \/ CloseDrained \/ CloseCollects \/ CloserCleans \/ CloseReturns

BackgroundStep(r) == BackgroundStarts(r) \/ BackgroundEnds(r) \/ BackgroundStops(r)

CleanupEnds(r) == CleanupSucceeds(r) \/ CleanupFails(r)

Begin ==
    \/ \E q \in Requests : Acquire(q)
    \/ \E op \in {"replace", "refresh"} : Enter(op)
    \/ Connect
    \/ CloseStarts

Cancel == (\E q \in Requests : CancelRelease(q)) \/ CancelAdmin \/ CancelClose

Next ==
    \/ Begin \/ Cancel \/ AdminStep \/ CloseStep
    \/ \E q \in Requests : Release(q) \/ ReleaseReturns(q)
    \/ \E r \in Runtimes : BackgroundStep(r) \/ CleanupEnds(r)

\* Ready tasks run, listings and cleanups end, and so do requests.
Spec ==
    /\ Init /\ [][Next]_vars
    /\ WF_vars(AdminStep) /\ WF_vars(CloseStep)
    /\ \A q \in Requests : WF_vars(Release(q))
    /\ \A r \in Runtimes : WF_vars(BackgroundStep(r)) /\ WF_vars(CleanupEnds(r))

------------------------------------------------------------------------------
(* Properties                                                               *)

\* The values the variables of the generations take.
TypeOK ==
    /\ current \in Runtimes /\ built \in Runtimes
    /\ retired \subseteq Runtimes /\ unpublished \subseteq Runtimes
    /\ cleaned \subseteq Runtimes /\ broken \subseteq Runtimes
    /\ leases \in [Runtimes -> Nat] /\ cleanups \in [Runtimes -> Nat]
    /\ request \in [Requests -> [at : {"idle", "using", "awaiting"}, on : Runtimes \cup {0}]]
    /\ refreshTask \in Runtimes \cup {0}
    /\ background \in [Runtimes -> Backgrounds]
    /\ catalog \in Catalogs
    /\ holder \in {"none", "replace", "refresh", "connect", "close"}
    /\ step \in Steps /\ todo \subseteq Runtimes
    /\ closer \in {"idle", "cancelling", "draining", "cleaning", "retrying"}
    /\ closing \in BOOLEAN /\ closed \in BOOLEAN

InUse(r) ==
    \/ \E q \in Requests : request[q] = [at |-> "using", on |-> r]
    \/ background[r] \in {"listing", "cancelled"}
    \/ step \in {"listing", "connecting"} /\ r = current

\* Nobody works with a runtime that is being cleaned up or has been: not a
\* request, not the background refresh of an earlier generation, and not a
\* change of a connected account, which takes no lease.
RuntimeInUseIsOpen == \A r \in Runtimes : InUse(r) => cleanups[r] = 0 /\ r \notin cleaned

\* A generation is closed exactly once, although its last release, its
\* replacement and close() may each want to.
ClosedExactlyOnce == \A r \in Runtimes : cleanups[r] <= 1 /\ (r \in cleaned => cleanups[r] = 0)

\* Every runtime ever built is closed or still owned by the manager, also
\* when its cleanup failed or was cancelled half-way.
EveryRuntimeIsOwned == 1..built \subseteq cleaned \cup {current} \cup retired \cup unpublished

\* The manager is terminal only when every runtime it owned is closed and
\* nothing of it is left running.
TerminalMeansClosed ==
    closed => /\ 1..built \subseteq cleaned
              /\ \A r \in Runtimes : leases[r] = 0 /\ background[r] \in {"none", "finished"}

\* A runtime is there as long as somebody uses it, and never out of reach.
RuntimesAreKept == RuntimeInUseIsOpen /\ EveryRuntimeIsOwned

\* Cleanups are neither repeated nor skipped.
CleanupsAreExact == ClosedExactlyOnce /\ TerminalMeansClosed

\* A refresh caches models only for the generation that is current when it
\* does.  (The admin's check of one provider may cache those of an older one.)
CatalogIsCurrent ==
    [][catalog' # catalog /\ catalog'.by = "refresh" => catalog'.gen = current]_vars

\* A retired generation is closed once its requests are done, unless its
\* cleanup fails, or a close() that took over breaks off and has to be
\* called again.
RetiredGenerationCloses ==
    \A r \in Runtimes :
        r \in retired ~> (r \in cleaned \cup broken \/ (closing /\ closer = "idle"))

------------------------------------------------------------------------------
(* The inductive invariant behind those promises                            *)

Users(r) == {q \in Requests : request[q].at = "using" /\ request[q].on = r}
One(condition) == IF condition THEN 1 ELSE 0

\* active_leases counts the requests, the background refresh and the explicit
\* refresh that use the generation, and nothing else.
LeaseInv ==
    /\ \A q \in Requests : request[q].at # "idle" => request[q].on # 0
    /\ \A r \in Runtimes :
          /\ IsFiniteSet(Users(r))
          /\ leases[r] = Cardinality(Users(r))
                           + One(background[r] \in {"listing", "cancelled"})
                           + One(step = "listing" /\ r = current)

\* Who owns which runtime; a cleanup runs on a retired one without leases.
LifecycleInv ==
    /\ current <= built
    /\ retired \cup unpublished \cup cleaned \subseteq 1..built
    /\ retired \cap cleaned = {} /\ unpublished \cap cleaned = {}
    /\ unpublished \cap (retired \cup {current}) = {}
    /\ ~closing => current \notin retired \cup cleaned
    /\ \A r \in Runtimes :
          /\ cleanups[r] > 0 => cleanups[r] = 1 /\ r \in retired /\ leases[r] = 0
          /\ leases[r] > 0 => r \in (retired \cup {current}) \ cleaned

\* A refresh that may still cache something is the current generation's, is
\* the one _cancel_refresh will find, and not under replacement.
RefreshInv ==
    /\ \A r \in Runtimes : background[r] \in {"created", "listing"} => refreshTask = r
    /\ refreshTask # 0 => refreshTask = current /\ ~closing
    /\ holder \in {"replace", "refresh"} /\ step # "awaiting" => refreshTask = 0

\* What the holder of the lock and close() are doing.
ControlInv ==
    /\ holder = "none" <=> step = "none"
    /\ step \in {"retrying", "discarding", "awaiting"} => holder = "replace"
    /\ step = "listing" => holder = "refresh"
    /\ step = "connecting" => holder = "connect"
    /\ holder \in {"replace", "refresh", "connect"} => ~closing
    /\ holder = "close" <=> closer = "cancelling"
    /\ closer \notin {"idle", "cancelling"} => holder = "none"
    /\ closer # "idle" => closing /\ ~closed
    /\ closed => closing
    /\ closer \notin {"idle", "cancelling"} => current \in retired \cup cleaned
    /\ closer \in {"draining", "cleaning"} => todo \subseteq retired \cup cleaned
    /\ closer = "retrying" \/ step \in {"retrying", "discarding"} => todo \subseteq unpublished

IInv ==
    /\ TypeOK
    /\ LeaseInv
    /\ LifecycleInv
    /\ RefreshInv
    /\ ControlInv
    /\ EveryRuntimeIsOwned
    /\ TerminalMeansClosed
==============================================================================
