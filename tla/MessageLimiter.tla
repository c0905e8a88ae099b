---------------------------- MODULE MessageLimiter ---------------------------
(***************************************************************************)
(* messaging/limiter.py: the queue of outbound messages of one platform.   *)
(* Calls queue an operation under a key; an operation queued under a key   *)
(* that is waiting replaces the one there and shares its answer            *)
(* (compaction).  One worker pops a key, waits out a flood pause, waits    *)
(* for the sliding window (SlidingWindow) and runs the operation.  A call  *)
(* either awaits its answer or is a task of the limiter that may retry     *)
(* (fire_and_forget).  The condition's lock is never held across a         *)
(* suspension, so each block under it is one step.                         *)
(***************************************************************************)
EXTENDS Naturals, Sequences, FiniteSets

CONSTANTS Calls,          \* the calls of enqueue and fire_and_forget
          Keys,           \* dedup keys
          MaxRetries      \* max_retries of fire_and_forget

ASSUME MessageLimiterAssumption == MaxRetries \in Nat

VARIABLES
    worker,      \* where the worker task is
    job,         \* the key, operation and futures it popped
    queueList,   \* _queue_list
    queueMap,    \* _queue_map: operation and futures of each waiting key
    paused,      \* _paused_until is in the future
    closed,      \* _closed, and _shutdown with it
    stopping,    \* where shutdown is
    calls,       \* each caller: what it does, its key, its retries
    future,      \* each caller's future
    newest       \* history: whose operation was queued last under each key

limiterVars == <<worker, job, queueList, queueMap, paused, closed, stopping, calls,
                 future, newest>>

NoCall == [state |-> "unused", key |-> "none", forget |-> FALSE, retries |-> 0]
Over   == [NoCall EXCEPT !.state = "over"]
NoWork == [op |-> "none", futures |-> {}]
NoJob  == [key |-> "none", op |-> "none", futures |-> {}]

LimiterInit ==
    /\ worker = "off" /\ job = NoJob
    /\ queueList = <<>> /\ queueMap = [k \in Keys |-> NoWork]
    /\ paused = FALSE /\ closed = FALSE /\ stopping = "no"
    /\ calls = [c \in Calls |-> NoCall] /\ future = [c \in Calls |-> "none"]
    /\ newest = [k \in Keys |-> "none"]

WorkerAlive == worker \notin {"off", "ended"}

Running == ~closed /\ WorkerAlive

StartLimiter ==
    /\ ~closed /\ ~WorkerAlive
    /\ worker' = "idle"
    /\ UNCHANGED <<job, queueList, queueMap, paused, closed, stopping, calls, future,
                   newest>>

------------------------------------------------------------------------------
(* Callers.                                                                 *)

Waits(c) == calls[c].state = "waiting"

\* A plausible bug: the operation that was there is kept.
Enqueue_Keeps(c, k) ==
    /\ newest' = [newest EXCEPT ![k] = c]
    /\ IF queueMap[k] = NoWork
       THEN /\ queueMap' = [queueMap EXCEPT ![k] = [op |-> c, futures |-> {c}]]
            /\ queueList' = Append(queueList, k)
       ELSE /\ queueMap' = [queueMap EXCEPT ![k].futures = @ \cup {c}]
            /\ UNCHANGED queueList

\* _enqueue_internal_multi: the operation of c is queued under k.
Enqueue(c, k) ==
    /\ newest' = [newest EXCEPT ![k] = c]
    /\ queueMap' = [queueMap EXCEPT ![k] = [op |-> c, futures |-> @.futures \cup {c}]]
    /\ queueList' = IF queueMap[k] = NoWork THEN Append(queueList, k) ELSE queueList

\* enqueue: awaited by its caller.
Call(c) ==
    /\ calls[c] = NoCall /\ Running
    /\ \E k \in Keys :
          /\ calls' = [calls EXCEPT ![c] = [@ EXCEPT !.state = "waiting", !.key = k]]
          /\ Enqueue(c, k)
    /\ future' = [future EXCEPT ![c] = "pending"]
    /\ UNCHANGED <<worker, job, paused, closed, stopping>>

\* fire_and_forget: a task that has not started yet.
Forget(c) ==
    /\ calls[c] = NoCall /\ Running
    /\ \E k \in Keys :
          calls' = [calls EXCEPT ![c] = [@ EXCEPT !.state = "starting", !.key = k,
                                                  !.forget = TRUE]]
    /\ UNCHANGED <<worker, job, queueList, queueMap, paused, closed, stopping, future,
                   newest>>

\* The task runs, or has slept before another attempt.
ForgottenQueues(c) ==
    /\ calls[c].state \in {"starting", "retrying"}
    /\ IF Running
       THEN /\ Enqueue(c, calls[c].key)
            /\ calls' = [calls EXCEPT ![c].state = "waiting"]
            /\ future' = [future EXCEPT ![c] = "pending"]
       ELSE /\ calls' = [calls EXCEPT ![c] = Over]
            /\ UNCHANGED <<queueList, queueMap, future, newest>>
    /\ UNCHANGED <<worker, job, paused, closed, stopping>>

\* The answer is there.  A forgotten call retries a connection failure.
Resumes(c) ==
    /\ Waits(c) /\ future[c] # "pending"
    /\ IF calls[c].forget /\ future[c] = "lost" /\ calls[c].retries < MaxRetries
       THEN calls' = [calls EXCEPT ![c].state = "retrying", ![c].retries = @ + 1]
       ELSE calls' = [calls EXCEPT ![c] = Over]
    /\ future' = [future EXCEPT ![c] = "none"]
    /\ UNCHANGED <<worker, job, queueList, queueMap, paused, closed, stopping, newest>>

\* The caller is cancelled, and its future with it; the operation stays queued.
CallerCancelled(c) ==
    /\ Waits(c) /\ ~calls[c].forget /\ future[c] = "pending"
    /\ future' = [future EXCEPT ![c] = "cancelled"]
    /\ calls' = [calls EXCEPT ![c] = Over]
    /\ UNCHANGED <<worker, job, queueList, queueMap, paused, closed, stopping, newest>>

------------------------------------------------------------------------------
(* The worker.                                                              *)

Pop ==
    /\ worker = "idle" /\ queueList # <<>> /\ ~closed
    /\ LET k == Head(queueList)
       IN  /\ job' = [key |-> k, op |-> queueMap[k].op, futures |-> queueMap[k].futures]
           /\ queueMap' = [queueMap EXCEPT ![k] = NoWork]
    /\ queueList' = Tail(queueList)
    /\ worker' = IF paused THEN "paused" ELSE "gated"
    /\ UNCHANGED <<paused, closed, stopping, calls, future, newest>>

PauseEnds ==
    /\ paused /\ paused' = FALSE
    /\ worker' = IF worker = "paused" THEN "gated" ELSE worker
    /\ UNCHANGED <<job, queueList, queueMap, closed, stopping, calls, future, newest>>

\* The window has room.
Admitted ==
    /\ worker = "gated" /\ ~closed
    /\ worker' = "operating"
    /\ UNCHANGED <<job, queueList, queueMap, paused, closed, stopping, calls, future,
                   newest>>

\* Futures that are done keep their answer.
Answer(futures, how) ==
    future' = [c \in Calls |-> IF c \in futures /\ future[c] = "pending" THEN how
                               ELSE future[c]]

\* A plausible bug: the cancellation an operation raised ends the worker.
OperationCancelled_Raises ==
    /\ worker = "operating"
    /\ Answer(job.futures, "cancelled")
    /\ worker' = "ended" /\ job' = NoJob
    /\ UNCHANGED <<queueList, queueMap, paused, closed, stopping, calls, newest>>

\* CancelledError from the operation: the worker goes on unless it is being
\* cancelled itself.
OperationCancelled ==
    /\ worker = "operating"
    /\ Answer(job.futures, "cancelled")
    /\ worker' = IF closed THEN "ended" ELSE "idle"
    /\ job' = NoJob
    /\ UNCHANGED <<queueList, queueMap, paused, closed, stopping, calls, newest>>

\* The operation returns, fails, loses its connection, or is told to wait; a
\* wait that is no number is an error of the worker itself, which sleeps.
OperationEnds ==
    /\ worker = "operating"
    /\ \E how \in {<<"sent", "idle", paused>>, <<"failed", "idle", paused>>,
                   <<"lost", "idle", paused>>, <<"failed", "idle", TRUE>>,
                   <<"failed", "backoff", paused>>} :
          /\ Answer(job.futures, how[1])
          /\ worker' = IF closed /\ how[2] = "idle" THEN "ended" ELSE how[2]
          /\ paused' = how[3]
    /\ job' = NoJob
    /\ UNCHANGED <<queueList, queueMap, closed, stopping, calls, newest>>

BackoffEnds ==
    /\ worker = "backoff" /\ worker' = IF closed THEN "ended" ELSE "idle"
    /\ UNCHANGED <<job, queueList, queueMap, paused, closed, stopping, calls, future,
                   newest>>

\* The cancellation of shutdown lands where the worker waits.
WorkerCancelled ==
    /\ closed /\ stopping # "no" /\ worker \in {"idle", "paused", "gated", "backoff"}
    /\ Answer(job.futures, "cancelled")
    /\ worker' = "ended" /\ job' = NoJob
    /\ UNCHANGED <<queueList, queueMap, paused, closed, stopping, calls, newest>>

------------------------------------------------------------------------------
(* shutdown.                                                                *)

QueuedFutures == UNION {queueMap[k].futures : k \in Keys}

\* A plausible bug: what is queued is dropped with its futures pending.
Shutdown_DropsQueue ==
    /\ stopping = "no"
    /\ closed' = TRUE /\ stopping' = "worker"
    /\ queueList' = <<>> /\ queueMap' = [k \in Keys |-> NoWork]
    /\ Answer(job.futures, "cancelled")
    /\ UNCHANGED <<worker, job, paused, calls, newest>>

Shutdown ==
    /\ stopping = "no"
    /\ closed' = TRUE /\ stopping' = "worker"
    /\ queueList' = <<>> /\ queueMap' = [k \in Keys |-> NoWork]
    /\ Answer(QueuedFutures \cup job.futures, "cancelled")
    /\ UNCHANGED <<worker, job, paused, calls, newest>>

Forgotten == {c \in Calls : calls[c].forget /\ calls[c].state # "over"}

\* The worker has ended, or the timeout has; then the tasks are cancelled.
CancelForgotten ==
    /\ stopping = "worker"
    /\ stopping' = IF WorkerAlive THEN "late" ELSE "done"
    /\ calls' = [c \in Calls |-> IF c \in Forgotten THEN Over
                                 ELSE calls[c]]
    /\ Answer(Forgotten, "cancelled")
    /\ UNCHANGED <<worker, job, queueList, queueMap, paused, closed, newest>>

------------------------------------------------------------------------------

LimiterNext ==
    \/ StartLimiter
    \/ \E c \in Calls : \/ Call(c) \/ Forget(c) \/ ForgottenQueues(c)
                        \/ Resumes(c) \/ CallerCancelled(c)
    \/ Pop \/ PauseEnds \/ Admitted \/ OperationCancelled \/ OperationEnds
    \/ BackoffEnds \/ WorkerCancelled \/ Shutdown \/ CancelForgotten

\* The event loop runs every task that can run; pauses, backoffs, the window
\* and operations end.  Nobody has to call, cancel or shut down.
LimiterWork ==
    \/ Pop \/ PauseEnds \/ Admitted \/ OperationCancelled \/ OperationEnds
    \/ BackoffEnds \/ WorkerCancelled

LimiterFairness ==
    /\ WF_limiterVars(LimiterWork)
    /\ \A c \in Calls : WF_limiterVars(Resumes(c)) /\ WF_limiterVars(ForgottenQueues(c))

LimiterSpec == LimiterInit /\ [][LimiterNext]_limiterVars /\ LimiterFairness

------------------------------------------------------------------------------
(* Properties.                                                              *)

\* The values the limiter's variables take.
LimiterTypeOK ==
    /\ worker \in {"off", "idle", "paused", "gated", "operating", "backoff", "ended"}
    /\ job \in [key : Keys \cup {"none"}, op : Calls \cup {"none"}, futures : SUBSET Calls]
    /\ queueList \in Seq(Keys)
    /\ queueMap \in [Keys -> [op : Calls \cup {"none"}, futures : SUBSET Calls]]
    /\ paused \in BOOLEAN /\ closed \in BOOLEAN
    /\ stopping \in {"no", "worker", "late", "done"}
    /\ calls \in [Calls -> [state : {"unused", "starting", "waiting", "retrying", "over"},
                            key : Keys \cup {"none"}, forget : BOOLEAN,
                            retries : 0..MaxRetries]]
    /\ future \in [Calls -> {"none", "pending", "sent", "failed", "lost", "cancelled"}]
    /\ newest \in [Keys -> Calls \cup {"none"}]

\* Compaction: what waits under a key is the operation queued last under it,
\* and each pending future is with exactly one operation of its own key, the
\* one that waits or the one the worker holds.
AnswersAreCurrent ==
    /\ \A k \in Keys : queueMap[k] # NoWork => queueMap[k].op = newest[k]
    /\ \A c \in Calls : future[c] = "pending" =>
          c \in queueMap[calls[c].key].futures <=>
              ~(c \in job.futures /\ job.key = calls[c].key)

\* Every caller gets an answer: through pauses, failures, operations that
\* raise CancelledError, errors of the worker and shutdown.  (A call is made
\* once, so nobody is left waiting in the end.)
EveryCallAnswered == <>[](\A c \in Calls : ~Waits(c))
==============================================================================
