-------------------------- MODULE ConnectedAccounts --------------------------
(***************************************************************************)
(* The ChatGPT account behind the OpenAI provider:                         *)
(* providers/openai_codex/auth.py (one manager, two asyncio locks, a login *)
(* task, a credential file it shares with other FCC processes) and the     *)
(* part of runtime/application.py that keeps the model catalog in step.    *)
(*                                                                         *)
(* The file is read and written in worker threads.  Cancelling a task that *)
(* awaits such a thread does not stop the thread: `writer` is one that     *)
(* still has a credential to write.  What OpenAI and the user do (a grant, *)
(* a refusal, an expiry) and other processes are free choices.             *)
(***************************************************************************)
EXTENDS Naturals

CONSTANT MaxCredentials,  \* credentials OpenAI issues, to all processes
         MaxOperations    \* admin operations: logins, cancels, disconnects

\* A file left by an earlier process holds one of them.
ASSUME AccountBounds == MaxCredentials \in Nat \ {0} /\ MaxOperations \in Nat

VARIABLES
    credentials, \* _credentials: which one is held in memory, or None
    file,        \* the one in the credential file
    revision,    \* _revision
    operation,   \* what holds _operation_lock, and the step it is at
    login,       \* the login task: its stage and the credential it got
    writer,      \* the credential a worker thread is about to write, or None
    fileLock,    \* the interprocess lock: who holds it
    refresh,     \* a request inside access or recover_unauthorized
    shutting,    \* _closed
    offered,     \* whether the provider's models are offered
    synced,      \* _connected_account_revisions of the application
    poll,        \* a status request: the revision and connection it has read
    removed,     \* history: a disconnect returned and nobody signed in since
    spent        \* credentials issued and operations begun so far

accountVars == << credentials, file, revision, operation, login, writer, fileLock,
                  refresh, shutting, offered, synced, poll, removed, spent >>

None == 0
Issued == 1 .. MaxCredentials

NoOperation == [what |-> "none", step |-> "none"]
NoLogin     == [stage |-> "none", got |-> None]
NoPoll      == [reading |-> FALSE, revision |-> 0, connected |-> FALSE]

\* A process finds no file, or one a process before it left.
AccountsInit ==
    /\ file \in {None, 1} /\ credentials = file
    /\ revision = file
    /\ operation = NoOperation /\ login = NoLogin /\ writer = None
    /\ fileLock = "free" /\ refresh = "none" /\ shutting = FALSE
    /\ offered = (file # None) /\ synced = revision /\ poll = NoPoll
    /\ removed = FALSE
    /\ spent = [credentials |-> file, operations |-> 0]

\* OpenAI issues one more credential.
Issue(c) ==
    /\ c \in Issued /\ c = spent.credentials + 1
    /\ spent' = [spent EXCEPT !.credentials = c]

\* A plausible bug: a login is waited for with _state_lock held, which its last step needs.
StateFree_Draining == refresh = "none" /\ operation.step \notin {"revoking", "draining"}

\* _state_lock is held by a refresh, and by a disconnect that revokes.
StateFree == refresh = "none" /\ operation.step # "revoking"

Performs(what, step) == operation' = [what |-> what, step |-> step]

held  == << credentials, revision >>
views == << offered, synced, poll >>

(***************************************************************************)
(* Signing in: start_login and the login task.                             *)
(***************************************************************************)

\* The attempt waits for the browser's callback port or for a device code.
StartLogin ==
    /\ operation = NoOperation /\ ~shutting /\ login = NoLogin /\ StateFree
    /\ spent.operations < MaxOperations
    /\ spent' = [spent EXCEPT !.operations = @ + 1]
    /\ Performs("login", "starting")
    /\ removed' = FALSE
    /\ UNCHANGED << held, file, login, writer, fileLock, refresh, shutting, views >>

LoginStarted ==
    /\ operation.what = "login" /\ StateFree
    /\ \/ login' = [stage |-> "waiting", got |-> None]
       \/ UNCHANGED login             \* it could not start, or was cancelled
    /\ operation' = NoOperation
    /\ UNCHANGED << held, file, writer, fileLock, refresh, shutting, views, removed, spent >>

\* The user grants access and the code is exchanged for credentials.
Granted ==
    /\ login.stage = "waiting"
    /\ \E c \in Issued : Issue(c) /\ login' = [stage |-> "locking", got |-> c]
    /\ UNCHANGED << held, file, operation, writer, fileLock, refresh, shutting, views, removed >>

\* _write_credentials: under the file's lock, in a thread.
LoginWrites ==
    /\ login.stage = "locking" /\ fileLock = "free"
    /\ fileLock' = "login" /\ writer' = login.got
    /\ login' = [login EXCEPT !.stage = "writing"]
    /\ UNCHANGED << held, file, operation, refresh, shutting, views, removed, spent >>

ThreadWrites ==
    /\ writer # None
    /\ file' = writer /\ writer' = None
    /\ UNCHANGED << held, operation, login, fileLock, refresh, shutting, views, removed, spent >>

LoginWritten ==
    /\ login.stage = "writing" /\ writer = None
    /\ fileLock' = "free"
    /\ login' = [login EXCEPT !.stage = "settling"]
    /\ UNCHANGED << held, file, operation, writer, refresh, shutting, views, removed, spent >>

LoginSettles ==
    /\ login.stage = "settling" /\ StateFree
    /\ credentials' = login.got /\ revision' = revision + 1
    /\ login' = NoLogin
    /\ UNCHANGED << file, operation, writer, fileLock, refresh, shutting, views, removed, spent >>

\* The grant or the exchange fails, or the file's lock times out.
LoginFails ==
    /\ login.stage \in {"waiting", "locking"} /\ StateFree
    /\ login' = NoLogin
    /\ UNCHANGED << held, file, operation, writer, fileLock, refresh, shutting, views, removed, spent >>

(***************************************************************************)
(* cancel_login, disconnect and close.                                     *)
(***************************************************************************)

\* The login task is detached under _state_lock and cancelled after it.
Detaches(what) ==
    /\ operation = NoOperation /\ StateFree /\ ~shutting
    /\ spent.operations < MaxOperations
    /\ spent' = [spent EXCEPT !.operations = @ + 1]
    /\ Performs(what, "draining")
    /\ shutting' = (what = "close")
    /\ UNCHANGED << held, file, login, writer, fileLock, refresh, views, removed >>

\* The task ends wherever it waits; the thread it waits for writes on.
LoginCancelled ==
    /\ operation.step = "draining" /\ login # NoLogin /\ StateFree
    /\ login' = NoLogin
    /\ fileLock' = IF login.stage = "writing" THEN "free" ELSE fileLock
    /\ UNCHANGED << held, file, operation, writer, refresh, shutting, views, removed, spent >>

LoginDrained ==
    /\ operation.step = "draining" /\ login = NoLogin /\ StateFree
    /\ IF operation.what = "disconnect" THEN Performs("disconnect", "revoking")
                                        ELSE operation' = NoOperation
    /\ UNCHANGED << held, file, login, writer, fileLock, refresh, shutting, views, removed, spent >>

\* Revoked, as far as OpenAI answers; then file and memory are emptied.
Disconnects ==
    /\ operation.step = "revoking" /\ fileLock = "free"
    /\ file' = None /\ credentials' = None /\ revision' = revision + 1
    /\ Performs("disconnect", "publishing")
    /\ removed' = TRUE
    /\ UNCHANGED << login, writer, fileLock, refresh, shutting, views, spent >>

\* Another process has kept the file's lock for 30 s.
DisconnectTimesOut ==
    /\ operation.step = "revoking"
    /\ operation' = NoOperation
    /\ UNCHANGED << held, file, login, writer, fileLock, refresh, shutting, views, removed, spent >>

\* ApplicationRuntime.disconnect_connected_account.
Disconnected ==
    /\ operation.step = "publishing"
    /\ offered' = FALSE /\ synced' = revision
    /\ operation' = NoOperation
    /\ UNCHANGED << held, file, login, writer, fileLock, refresh, shutting, poll, removed, spent >>

(***************************************************************************)
(* A request's credentials: access and recover_unauthorized.               *)
(***************************************************************************)

\* _refresh_locked begins: the file's lock is awaited with _state_lock held.
RefreshBegins ==
    /\ StateFree /\ ~shutting /\ credentials # None
    /\ refresh' = "locking"
    /\ UNCHANGED << held, file, operation, login, writer, fileLock, shutting, views, removed, spent >>

\* A 401: credentials another process wrote are taken from the file instead.
Reloads ==
    /\ StateFree /\ file \notin {None, credentials}
    /\ credentials' = file
    /\ UNCHANGED << file, revision, operation, login, writer, fileLock, refresh, shutting, views,
                    removed, spent >>

RefreshLocks ==
    /\ refresh = "locking" /\ fileLock = "free"
    /\ fileLock' = "refresh" /\ refresh' = "asking"
    /\ UNCHANGED << held, file, operation, login, writer, shutting, views, removed, spent >>

\* The lock is another process's, or the login's, for 30 s.
RefreshTimesOut ==
    /\ refresh = "locking"
    /\ refresh' = "none"
    /\ UNCHANGED << held, file, operation, login, writer, fileLock, shutting, views, removed, spent >>

RefreshLeaves == refresh = "asking" /\ refresh' = "none" /\ fileLock' = "free"

\* Another process was faster.
RefreshFindsNewer ==
    /\ RefreshLeaves /\ file \notin {None, credentials}
    /\ credentials' = file
    /\ UNCHANGED << file, revision, operation, login, writer, shutting, views, removed, spent >>

RefreshSucceeds ==
    /\ RefreshLeaves
    /\ \E c \in Issued : Issue(c) /\ credentials' = c /\ file' = c
    /\ revision' = revision + 1
    /\ UNCHANGED << operation, login, writer, shutting, views, removed >>

\* 400, 401 or 403: the sign-in is over.
RefreshRejected ==
    /\ RefreshLeaves
    /\ credentials' = None /\ file' = None /\ revision' = revision + 1
    /\ UNCHANGED << operation, login, writer, shutting, views, removed, spent >>

\* Any other answer, or none.
RefreshFails ==
    /\ RefreshLeaves
    /\ UNCHANGED << held, file, operation, login, writer, shutting, views, removed, spent >>

\* Another FCC process signs in, refreshes or signs out.
OtherProcess ==
    /\ fileLock = "free"
    /\ \/ \E c \in Issued : Issue(c) /\ file' = c
       \/ file # None /\ file' = None /\ UNCHANGED spent
    /\ removed' = FALSE
    /\ UNCHANGED << held, operation, login, writer, fileLock, refresh, shutting, views >>

(***************************************************************************)
(* ApplicationRuntime.connected_account_status.                            *)
(***************************************************************************)

PollReads ==
    /\ ~poll.reading /\ revision # synced
    /\ poll' = [reading |-> TRUE, revision |-> revision, connected |-> credentials # None]
    /\ UNCHANGED << held, file, operation, login, writer, fileLock, refresh, shutting, offered,
                    synced, removed, spent >>

\* A plausible bug: the revision is read again after the models were listed.
PollApplies_Rereads ==
    /\ poll.reading /\ poll' = NoPoll
    /\ offered' = poll.connected /\ synced' = revision
    /\ UNCHANGED << held, file, operation, login, writer, fileLock, refresh, shutting, removed, spent >>

\* The models are listed, or dropped, for the connection that was read.
PollApplies ==
    /\ poll.reading /\ poll' = NoPoll
    /\ offered' = poll.connected /\ synced' = poll.revision
    /\ UNCHANGED << held, file, operation, login, writer, fileLock, refresh, shutting, removed, spent >>

LoginWork   == LoginWrites \/ LoginWritten \/ LoginSettles \/ LoginCancelled
RefreshWork == RefreshLocks \/ RefreshTimesOut \/ RefreshSucceeds \/ RefreshRejected
               \/ RefreshFails \/ RefreshFindsNewer
OperationWork == LoginStarted \/ LoginDrained \/ Disconnects \/ DisconnectTimesOut \/ Disconnected

AccountsNext ==
    \/ StartLogin \/ Granted \/ LoginFails \/ LoginWork \/ ThreadWrites
    \/ Detaches("cancel") \/ Detaches("disconnect") \/ Detaches("close")
    \/ OperationWork \/ RefreshBegins \/ Reloads \/ RefreshWork
    \/ OtherProcess \/ PollReads \/ PollApplies

\* Ready tasks run and the writer thread ends.  An asyncio.Lock is handed to
\* its waiters in order, hence the strong fairness of what waits for _state_lock.
AccountsFairness ==
    /\ WF_accountVars(LoginWork) /\ SF_accountVars(LoginCancelled)
    /\ WF_accountVars(RefreshWork) /\ WF_accountVars(ThreadWrites)
    /\ SF_accountVars(OperationWork)

AccountsSpec == AccountsInit /\ [][AccountsNext]_accountVars /\ AccountsFairness

(***************************************************************************)
(* Properties.                                                             *)
(***************************************************************************)

\* Every variable stays in its range.
AccountsTypeOK ==
    /\ {credentials, file, writer, login.got} \subseteq Issued \cup {None}
    /\ fileLock \in {"free", "login", "refresh"}
    /\ (fileLock = "login") = (login.stage = "writing")
    /\ (fileLock = "refresh") = (refresh = "asking")

\* Once the application has taken note of the account's revision, it does not
\* offer models of an account that is gone, whichever of a status request, a
\* sign-in, a rejected refresh and a disconnect was slow to tell it
\* (application.py:258-300).
OfferedModelsHaveAccount == synced = revision /\ offered => credentials # None

\* Every admin operation ends: none waits for a lock that what it waits for
\* needs (auth.py:271-305, 355-398).
AccountOperationsEnd == []<>(operation = NoOperation)

\* disconnect "always remove[s] FCC-owned credentials" (auth.py:282): until
\* somebody signs in again, neither memory nor the file holds any.
DisconnectRemoves == removed => credentials = None /\ file = None
=============================================================================
