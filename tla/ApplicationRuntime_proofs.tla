--------------------- MODULE ApplicationRuntime_proofs ---------------------
(***************************************************************************)
(* Proofs about what runtime/application.py holds together, for any        *)
(* bounds: the connected account and its offered models                    *)
(* (ConnectedAccounts, inductive invariant AccountsIInv), the order in     *)
(* which the server lets go of what it is made of (ServerLifecycle,        *)
(* LifecycleIInv), and the managed configuration (ManagedConfig,           *)
(* ConfigInv).                                                             *)
(***************************************************************************)
EXTENDS ConnectedAccounts, ServerLifecycle, ManagedConfig, TLAPS

USE AccountBounds, LifecycleAssumption

LoginStages == {"none", "waiting", "locking", "writing", "settling"}

\* The ranges of what the account keeps, and who holds the file's lock.
AccountsInv ==
    /\ AccountsTypeOK
    /\ login \in [stage : LoginStages, got : Issued \cup {None}]
    /\ operation.what = "login" => login = NoLogin
    /\ spent.credentials \in 0..MaxCredentials
    /\ spent = [credentials |-> spent.credentials, operations |-> spent.operations]
    /\ revision \in Nat /\ synced \in Nat
    /\ poll \in [reading : BOOLEAN, revision : Nat, connected : BOOLEAN]

\* The revision grows whenever the account is lost, so that nobody who knows
\* the current one takes the account for connected when it is not.
RevisionInv ==
    /\ synced <= revision
    /\ poll.reading => poll.revision <= revision
    /\ poll.reading /\ poll.revision = revision /\ poll.connected => credentials # None
    /\ OfferedModelsHaveAccount

AccountsIInv == AccountsInv /\ RevisionInv

\* Stages of a cleanup that come after every turn has ended.
AfterTurns == {"closing delivery", "closing transcriber", "closing providers",
               "closing accounts", "closed"}

Running == { m \in Messages : handler[m] = "running" }

\* Messages are accepted only while everything they need is there.
IngressInv ==
    /\ accepting => /\ Messaging \cup Lasting \subseteq holds
                    /\ delivery = "open"
    /\ owner = "starting" => holds = Lasting /\ delivery = "open" /\ ~accepting /\ ~Busy
    /\ owner \in {"draining", "stopping turns"} \cup AfterTurns => ~accepting
    /\ owner = "stopping turns" => Running = {}
    /\ owner \in AfterTurns => ~Busy

\* What is closed later is held longer.
HoldsInv ==
    /\ holds \cap {"workflow", "cli"} # {} => "platform" \in holds
    /\ owner = "closing delivery" => holds \subseteq Lasting \cup {"platform"}
    /\ owner = "closing transcriber" => holds \subseteq Lasting
    /\ owner = "closing providers" => holds \subseteq {"providers", "accounts"}
    /\ owner = "closing accounts" => holds \subseteq {"accounts"}

LifecycleIInv == LifecycleTypeOK /\ IngressInv /\ HoldsInv /\ ShutdownIsOrdered

------------------------------------------------------------------------------
(* The connected account                                                    *)

\* A credential that OpenAI issues is one of those it can issue.
LEMMA Issues ==
    ASSUME AccountsInv, NEW c \in Issued, Issue(c)
    PROVE  /\ spent'.credentials \in 0..MaxCredentials
           /\ spent' = [credentials |-> spent'.credentials, operations |-> spent'.operations]
<1>1. c \in 1..MaxCredentials /\ spent' = [spent EXCEPT !.credentials = c]
  BY DEF Issue, Issued
<1>2. spent = [credentials |-> spent.credentials, operations |-> spent.operations]
  BY DEF AccountsInv
<1>3. spent'.credentials = c BY <1>1, <1>2
<1> QED BY <1>1, <1>2, <1>3

\* Beginning an operation leaves the credentials that were issued.
LEMMA Begins ==
    ASSUME AccountsInv, spent' = [spent EXCEPT !.operations = @ + 1]
    PROVE  /\ spent'.credentials = spent.credentials
           /\ spent' = [credentials |-> spent'.credentials, operations |-> spent'.operations]
<1>1. spent = [credentials |-> spent.credentials, operations |-> spent.operations]
  BY DEF AccountsInv
<1> QED BY <1>1

\* The revision matters to the models as long as nobody touches the account.
LEMMA RevisionFrame ==
    ASSUME RevisionInv, UNCHANGED << held, views >>
    PROVE  RevisionInv'
BY DEF RevisionInv, OfferedModelsHaveAccount, held, views

\* A new revision outdates what everybody knows.
LEMMA RevisionGrows ==
    ASSUME AccountsInv, RevisionInv, UNCHANGED views, revision' = revision + 1
    PROVE  RevisionInv' /\ revision' \in Nat
BY DEF AccountsInv, RevisionInv, OfferedModelsHaveAccount, views

\* A credential in memory is what the offered models need.
LEMMA RevisionReloads ==
    ASSUME RevisionInv, UNCHANGED << revision, views >>, credentials' # None
    PROVE  RevisionInv'
BY DEF RevisionInv, OfferedModelsHaveAccount, views

\* Starting a sign-in, and the login task up to its credential.
LEMMA LoginKeeps ==
    ASSUME AccountsIInv,
           StartLogin \/ LoginStarted \/ Granted \/ LoginWrites \/ LoginWritten \/ LoginFails
    PROVE  AccountsIInv'
<1>1. AccountsInv /\ RevisionInv BY DEF AccountsIInv
<1>2. UNCHANGED << held, views >> /\ UNCHANGED << file, refresh >>
  BY DEF StartLogin, LoginStarted, Granted, LoginWrites, LoginWritten, LoginFails
<1>3. RevisionInv' BY <1>1, <1>2, RevisionFrame
<1>4. CASE StartLogin
  BY <1>1, <1>2, <1>3, <1>4, Begins
     DEF StartLogin, Performs, AccountsIInv, AccountsInv, AccountsTypeOK, held, views
<1>5. CASE LoginStarted
  BY <1>1, <1>2, <1>3, <1>5 DEF LoginStarted, NoOperation, NoLogin, LoginStages, AccountsIInv,
     AccountsInv, AccountsTypeOK, held, views
<1>6. CASE Granted
  <2>1. PICK c \in Issued : Issue(c) /\ login' = [stage |-> "locking", got |-> c]
    BY <1>6 DEF Granted
  <2>2. login.stage = "waiting" /\ UNCHANGED << operation, writer, fileLock >>
    BY <1>6 DEF Granted
  <2>3. operation.what # "login" BY <1>1, <2>2 DEF AccountsInv, NoLogin
  <2>4. login' \in [stage : LoginStages, got : Issued \cup {None}] BY <2>1 DEF LoginStages
  <2> QED BY <1>1, <1>2, <1>3, <2>1, <2>2, <2>3, <2>4, Issues
          DEF AccountsIInv, AccountsInv, AccountsTypeOK, held, views
<1>7. CASE LoginWrites \/ LoginWritten
  <2>1. /\ UNCHANGED << operation, spent >>
        /\ login' = [login EXCEPT !.stage = IF LoginWrites THEN "writing" ELSE "settling"]
        /\ login.stage \in {"locking", "writing"}
        /\ writer' \in {login.got, writer}
    BY <1>7 DEF LoginWrites, LoginWritten
  <2>2. (fileLock' = "login") = (login'.stage = "writing")
    BY <1>1, <1>7, <2>1 DEF LoginWrites, LoginWritten, AccountsInv, AccountsTypeOK
  <2>3. (fileLock' = "refresh") = (refresh' = "asking") /\ fileLock' \in {"free", "login", "refresh"}
    BY <1>1, <1>2, <1>7 DEF LoginWrites, LoginWritten, AccountsInv, AccountsTypeOK
  <2>4. operation.what # "login" BY <1>1, <2>1 DEF AccountsInv, NoLogin
  <2>5. login' \in [stage : LoginStages, got : Issued \cup {None}]
    BY <1>1, <2>1 DEF AccountsInv, LoginStages
  <2>6. login'.got \in Issued \cup {None} /\ writer' \in Issued \cup {None}
    BY <1>1, <2>1, <2>5 DEF AccountsInv, AccountsTypeOK
  <2> QED BY <1>1, <1>2, <1>3, <2>1, <2>2, <2>3, <2>4, <2>5, <2>6
          DEF AccountsIInv, AccountsInv, AccountsTypeOK, held, views
<1>8. CASE LoginFails
  BY <1>1, <1>2, <1>3, <1>8 DEF LoginFails, NoLogin, LoginStages, AccountsIInv, AccountsInv,
     AccountsTypeOK, held, views
<1> QED BY <1>4, <1>5, <1>6, <1>7, <1>8

\* What the end of a login, a refresh or a disconnect does to the account.
LEMMA AccountKeeps ==
    ASSUME AccountsIInv,
           \/ LoginSettles \/ Reloads \/ Disconnects \/ RefreshFindsNewer \/ RefreshSucceeds
           \/ RefreshRejected
    PROVE  AccountsIInv'
<1>1. AccountsInv /\ RevisionInv BY DEF AccountsIInv
<1>2. /\ UNCHANGED << views, writer >>
      /\ operation' = operation \/ operation' = [what |-> "disconnect", step |-> "publishing"]
      /\ login' = login \/ (login' = NoLogin /\ login.stage = "settling")
  BY DEF LoginSettles, Reloads, Disconnects, RefreshFindsNewer, RefreshSucceeds, RefreshRejected,
         Performs
<1>3. RevisionInv' /\ revision' \in Nat
  <2>1. CASE Reloads \/ RefreshFindsNewer
    BY <1>1, <1>2, <2>1, RevisionReloads
       DEF Reloads, RefreshFindsNewer, AccountsInv, AccountsTypeOK
  <2>2. CASE LoginSettles \/ Disconnects \/ RefreshSucceeds \/ RefreshRejected
    BY <1>1, <1>2, <2>2, RevisionGrows DEF LoginSettles, Disconnects, RefreshSucceeds, RefreshRejected
  <2> QED BY <2>1, <2>2
<1>4. {credentials', file'} \subseteq Issued \cup {None}
  <2>1. {credentials, file, login.got} \subseteq Issued \cup {None}
    BY <1>1 DEF AccountsInv, AccountsTypeOK
  <2> QED BY <2>1 DEF LoginSettles, Reloads, Disconnects, RefreshFindsNewer, RefreshSucceeds, RefreshRejected
<1>5. /\ spent'.credentials \in 0..MaxCredentials
      /\ spent' = [credentials |-> spent'.credentials, operations |-> spent'.operations]
  <2>1. CASE RefreshSucceeds BY <1>1, <2>1, Issues DEF RefreshSucceeds
  <2>2. CASE ~RefreshSucceeds
    <3>1. UNCHANGED spent
      BY <2>2 DEF LoginSettles, Reloads, Disconnects, RefreshFindsNewer, RefreshRejected
    <3> QED BY <1>1, <3>1 DEF AccountsInv
  <2> QED BY <2>1, <2>2
<1>6. /\ login' \in [stage : LoginStages, got : Issued \cup {None}] /\ login'.got \in Issued \cup {None}
      /\ operation'.what = "login" => login' = NoLogin
  BY <1>1, <1>2 DEF AccountsInv, NoLogin, LoginStages
<1>7. /\ fileLock' \in {"free", "login", "refresh"}
      /\ (fileLock' = "login") = (login'.stage = "writing")
      /\ (fileLock' = "refresh") = (refresh' = "asking")
  <2>1. CASE LoginSettles \/ Reloads \/ Disconnects
    BY <1>1, <2>1 DEF LoginSettles, Reloads, Disconnects, NoLogin, AccountsInv, AccountsTypeOK
  <2>2. CASE RefreshFindsNewer \/ RefreshSucceeds \/ RefreshRejected
    BY <1>1, <2>2 DEF RefreshFindsNewer, RefreshSucceeds, RefreshRejected, RefreshLeaves,
       AccountsInv, AccountsTypeOK
  <2> QED BY <2>1, <2>2
<1>8. AccountsInv' BY <1>1, <1>2, <1>3, <1>4, <1>5, <1>6, <1>7 DEF AccountsInv, AccountsTypeOK, views
<1> QED BY <1>3, <1>8 DEF AccountsIInv

\* The other steps leave the account alone, and the application takes note of
\* what it has read.
LEMMA OthersKeep ==
    ASSUME AccountsIInv,
           \/ ThreadWrites \/ LoginCancelled \/ LoginDrained \/ DisconnectTimesOut \/ Disconnected
           \/ Detaches("cancel") \/ Detaches("disconnect") \/ Detaches("close")
           \/ RefreshBegins \/ RefreshLocks \/ RefreshTimesOut \/ RefreshFails
           \/ OtherProcess \/ PollReads \/ PollApplies
    PROVE  AccountsIInv'
<1>1. AccountsInv /\ RevisionInv BY DEF AccountsIInv
<1>2. UNCHANGED held
  BY DEF ThreadWrites, LoginCancelled, LoginDrained, DisconnectTimesOut, Disconnected, Detaches,
         RefreshBegins, RefreshLocks, RefreshTimesOut, RefreshFails, RefreshLeaves, OtherProcess,
         PollReads, PollApplies, held
<1>3. CASE Disconnected \/ PollReads \/ PollApplies
  <2>1. /\ UNCHANGED << credentials, revision, file, login, writer, fileLock, refresh, spent >>
        /\ operation' \in {operation, NoOperation}
    BY <1>2, <1>3 DEF Disconnected, PollReads, PollApplies, held
  <2>2. revision \in Nat /\ synced \in Nat
        /\ poll \in [reading : BOOLEAN, revision : Nat, connected : BOOLEAN]
    BY <1>1 DEF AccountsInv
  <2>3. CASE Disconnected
    <3>1. RevisionInv' BY <1>1, <2>1, <2>2, <2>3
          DEF Disconnected, RevisionInv, OfferedModelsHaveAccount
    <3>2. AccountsInv' BY <1>1, <2>1, <2>2, <2>3
          DEF Disconnected, AccountsInv, AccountsTypeOK, NoOperation
    <3> QED BY <3>1, <3>2 DEF AccountsIInv
  <2>4. CASE PollReads
    <3>1. RevisionInv' BY <1>1, <2>1, <2>2, <2>4
          DEF PollReads, RevisionInv, OfferedModelsHaveAccount
    <3>2. AccountsInv' BY <1>1, <2>1, <2>2, <2>4 DEF PollReads, AccountsInv, AccountsTypeOK
    <3> QED BY <3>1, <3>2 DEF AccountsIInv
  <2>5. CASE PollApplies
    <3>1. RevisionInv' BY <1>1, <2>1, <2>2, <2>5
          DEF PollApplies, NoPoll, RevisionInv, OfferedModelsHaveAccount
    <3>2. AccountsInv' BY <1>1, <2>1, <2>2, <2>5
          DEF PollApplies, NoPoll, AccountsInv, AccountsTypeOK
    <3> QED BY <3>1, <3>2 DEF AccountsIInv
  <2> QED BY <1>3, <2>3, <2>4, <2>5
<1>4. CASE ~(Disconnected \/ PollReads \/ PollApplies)
  <2>1. UNCHANGED views
    BY <1>4 DEF ThreadWrites, LoginCancelled, LoginDrained, DisconnectTimesOut, Detaches,
       RefreshBegins, RefreshLocks, RefreshTimesOut, RefreshFails, OtherProcess
  <2>2. RevisionInv' BY <1>1, <1>2, <2>1, RevisionFrame
  <2>3. CASE OtherProcess
    <3>1. /\ UNCHANGED << held, operation, login, writer, fileLock, refresh, views >>
          /\ \/ \E c \in Issued : Issue(c) /\ file' = c
             \/ file' = None /\ UNCHANGED spent
      BY <2>3 DEF OtherProcess
    <3>2. /\ spent'.credentials \in 0..MaxCredentials
          /\ spent' = [credentials |-> spent'.credentials, operations |-> spent'.operations]
      BY <1>1, <3>1, Issues DEF AccountsInv
    <3>3. file' \in Issued \cup {None} BY <3>1
    <3> QED BY <1>1, <2>2, <3>1, <3>2, <3>3 DEF AccountsIInv, AccountsInv, AccountsTypeOK, held, views
  <2>4. CASE Detaches("cancel") \/ Detaches("disconnect") \/ Detaches("close")
    <3>1. /\ spent' = [spent EXCEPT !.operations = @ + 1]
          /\ UNCHANGED << file, login, writer, fileLock, refresh >>
          /\ operation'.what \in {"cancel", "disconnect", "close"}
      BY <2>4 DEF Detaches, Performs
    <3>2. /\ spent'.credentials \in 0..MaxCredentials
          /\ spent' = [credentials |-> spent'.credentials, operations |-> spent'.operations]
      BY <1>1, <3>1, Begins DEF AccountsInv
    <3> QED BY <1>1, <1>2, <2>1, <2>2, <3>1, <3>2 DEF AccountsIInv, AccountsInv, AccountsTypeOK, held, views
  <2>5. CASE ThreadWrites
    BY <1>1, <2>2, <2>5 DEF ThreadWrites, AccountsIInv, AccountsInv, AccountsTypeOK, held, views
  <2>6. CASE LoginCancelled
    <3>1. /\ UNCHANGED << file, operation, writer, refresh, spent >>
          /\ login' = NoLogin
          /\ fileLock' = IF login.stage = "writing" THEN "free" ELSE fileLock
      BY <2>6 DEF LoginCancelled
    <3>2. /\ fileLock' \in {"free", "login", "refresh"} /\ fileLock' # "login"
          /\ (fileLock' = "refresh") = (refresh = "asking")
      BY <1>1, <3>1 DEF AccountsInv, AccountsTypeOK
    <3> QED BY <1>1, <1>2, <2>1, <2>2, <3>1, <3>2
            DEF AccountsIInv, AccountsInv, AccountsTypeOK, NoLogin, LoginStages, held, views
  <2>7. CASE LoginDrained \/ DisconnectTimesOut
    BY <1>1, <2>2, <2>7 DEF LoginDrained, DisconnectTimesOut, Performs, NoOperation,
       AccountsIInv, AccountsInv, AccountsTypeOK, held, views
  <2>8. CASE RefreshBegins \/ RefreshLocks \/ RefreshTimesOut \/ RefreshFails
    <3>1. UNCHANGED << file, operation, login, writer, spent >>
      BY <2>8 DEF RefreshBegins, RefreshLocks, RefreshTimesOut, RefreshFails
    <3>2. /\ fileLock' \in {"free", "login", "refresh"}
          /\ (fileLock' = "login") = (fileLock = "login")
          /\ (fileLock' = "refresh") = (refresh' = "asking")
      BY <1>1, <2>8 DEF RefreshBegins, RefreshLocks, RefreshTimesOut, RefreshFails,
         RefreshLeaves, StateFree, AccountsInv, AccountsTypeOK
    <3> QED BY <1>1, <1>2, <2>1, <2>2, <3>1, <3>2 DEF AccountsIInv, AccountsInv, AccountsTypeOK, held, views
  <2> QED BY <1>4, <2>3, <2>4, <2>5, <2>6, <2>7, <2>8
<1> QED BY <1>3, <1>4

\* A process that starts has taken note of the file it found.
LEMMA AccountsInitIInv == AccountsInit => AccountsIInv
<1> SUFFICES ASSUME AccountsInit PROVE AccountsIInv OBVIOUS
<1>1. file \in Issued \cup {None} /\ file \in Nat /\ file \in 0..MaxCredentials
  BY DEF AccountsInit, Issued, None
<1>2. RevisionInv
  <2>1. ~poll.reading /\ synced = revision /\ revision \in Nat
    BY <1>1 DEF AccountsInit, NoPoll
  <2>2. offered => credentials # None BY DEF AccountsInit
  <2> QED BY <2>1, <2>2 DEF RevisionInv, OfferedModelsHaveAccount
<1>3. AccountsInv
  BY <1>1 DEF AccountsInit, AccountsInv, AccountsTypeOK, NoLogin, NoOperation, NoPoll, LoginStages, None
<1> QED BY <1>2, <1>3 DEF AccountsIInv

\* Every step of the account keeps its invariant.
LEMMA AccountsNextIInv == AccountsIInv /\ [AccountsNext]_accountVars => AccountsIInv'
<1> SUFFICES ASSUME AccountsIInv, [AccountsNext]_accountVars PROVE AccountsIInv' OBVIOUS
<1>1. CASE AccountsNext
  BY <1>1, LoginKeeps, AccountKeeps, OthersKeep
     DEF AccountsNext, LoginWork, RefreshWork, OperationWork
<1>2. CASE UNCHANGED accountVars
  BY <1>2 DEF accountVars, AccountsIInv, AccountsInv, AccountsTypeOK, RevisionInv, OfferedModelsHaveAccount
<1> QED BY <1>1, <1>2

\* The invariant of the account holds in every reachable state.
THEOREM AccountsInvariance == AccountsSpec => []AccountsIInv
<1> QED BY AccountsInitIInv, AccountsNextIInv, PTL DEF AccountsSpec

\* Every variable of the account stays in its range, and the interprocess lock
\* is held by the login or the refresh that says so.
THEOREM AccountsTyping == AccountsSpec => []AccountsTypeOK
<1>1. AccountsIInv => AccountsTypeOK BY DEF AccountsIInv, AccountsInv
<1> QED BY <1>1, AccountsInvariance, PTL

\* An application that knows the current revision does not offer models of an
\* account that is gone (application.py:258-300).
THEOREM OfferedModels == AccountsSpec => []OfferedModelsHaveAccount
<1>1. AccountsIInv => OfferedModelsHaveAccount BY DEF AccountsIInv, RevisionInv
<1> QED BY <1>1, AccountsInvariance, PTL

------------------------------------------------------------------------------
(* The server                                                               *)

\* Handlers and turns that have not begun use nothing.
LEMMA IdleFrame ==
    ASSUME UNCHANGED << handler, turn >>
    PROVE  Busy' = Busy /\ Running' = Running
BY DEF Busy, Running

\* Messages come in and turns end wherever the owner is.
LEMMA MessageKeeps ==
    ASSUME LifecycleIInv, NEW m \in Messages,
           Dispatch(m) \/ HandlerBegins(m) \/ HandlerEnds(m) \/ TurnEnds(m)
    PROVE  LifecycleIInv'
<1>1. LifecycleTypeOK /\ IngressInv /\ HoldsInv /\ ShutdownIsOrdered BY DEF LifecycleIInv
<1>2. UNCHANGED << owner, purpose, trouble, holds, accepting, sdk, delivery, faults >>
  BY DEF Dispatch, HandlerBegins, HandlerEnds, TurnEnds
<1>3. LifecycleTypeOK'
  <2>1. handler' \in [Messages -> {"none", "dispatched", "running", "over"}]
    BY <1>1 DEF Dispatch, HandlerBegins, HandlerEnds, TurnEnds, LifecycleTypeOK
  <2>2. turn' \in [Messages -> {"none", "running", "over"}]
    <3>1. [turn EXCEPT ![m] = "running"] \in [Messages -> {"none", "running", "over"}]
      BY <1>1 DEF LifecycleTypeOK
    <3> QED BY <1>1, <3>1 DEF Dispatch, HandlerBegins, HandlerEnds, TurnEnds, LifecycleTypeOK
  <2> QED BY <1>1, <1>2, <2>1, <2>2 DEF LifecycleTypeOK
<1>4. /\ Busy' => Busy \/ accepting
      /\ Running' # {} => Running # {} \/ accepting
  <2>1. CASE Dispatch(m) BY <1>1, <2>1 DEF Dispatch, LifecycleTypeOK, Busy, Running
  <2>2. CASE HandlerBegins(m) BY <1>1, <2>2 DEF HandlerBegins, LifecycleTypeOK, Busy, Running
  <2>3. CASE HandlerEnds(m)
    <3>1. Busy BY <2>3 DEF HandlerEnds, Busy
    <3>2. Running' \subseteq Running BY <1>1, <2>3 DEF HandlerEnds, LifecycleTypeOK, Running
    <3> QED BY <3>1, <3>2
  <2>4. CASE TurnEnds(m) BY <1>1, <2>4 DEF TurnEnds, LifecycleTypeOK, Busy, Running
  <2> QED BY <2>1, <2>2, <2>3, <2>4
<1>5. owner = "starting" => ~accepting BY <1>1 DEF IngressInv
<1>6. IngressInv' BY <1>1, <1>2, <1>4, <1>5 DEF IngressInv, AfterTurns
<1>7. HoldsInv' BY <1>1, <1>2 DEF HoldsInv
<1>8. ShutdownIsOrdered'
  BY <1>1, <1>2, <1>4 DEF IngressInv, ShutdownIsOrdered, AfterTurns, Messaging, Lasting
<1> QED BY <1>3, <1>6, <1>7, <1>8 DEF LifecycleIInv

\* Nobody needs the outbox any more when a step may close it.
DeliveryMayClose == delivery' = delivery \/ (delivery' = "closed" /\ ~accepting /\ ~Busy)

\* A cleanup that begins, whatever of the graph was made.
LEMMA CleansKeeps ==
    ASSUME LifecycleIInv, NEW what \in {"startup", "close"}, Cleans(what, holds'),
           \/ UNCHANGED holds
           \/ owner = "starting" /\ holds' \subseteq Messaging \cup Lasting /\ holds \subseteq holds'
                /\ "platform" \in holds',
           UNCHANGED << accepting, sdk, handler, turn >>, DeliveryMayClose,
           faults' \in 0..MaxFaults
    PROVE  LifecycleIInv'
<1>1. LifecycleTypeOK /\ IngressInv /\ HoldsInv /\ ShutdownIsOrdered BY DEF LifecycleIInv
<1>2. /\ owner' \in {"closing client", "closing transcriber"} /\ purpose' = what /\ trouble' = "none"
      /\ owner' = "closing transcriber" => "platform" \notin holds'
  BY DEF Cleans
<1>3. owner = "starting" => holds = Lasting BY <1>1 DEF IngressInv
<1>4. Busy' = Busy /\ Running' = Running BY IdleFrame
<1>5. LifecycleTypeOK' BY <1>1, <1>2 DEF LifecycleTypeOK, DeliveryMayClose
<1>6. /\ holds' \subseteq Messaging \cup Lasting /\ holds \subseteq holds'
      /\ holds' \cap {"workflow", "cli"} # {} => "platform" \in holds'
  BY <1>1 DEF LifecycleTypeOK, HoldsInv
<1>7. owner' = "closing transcriber" => ~accepting /\ ~Busy
  BY <1>1, <1>2, <1>6 DEF IngressInv, ShutdownIsOrdered, Messaging
<1>8. IngressInv' BY <1>1, <1>2, <1>4, <1>6, <1>7 DEF IngressInv, AfterTurns, DeliveryMayClose
<1>9. HoldsInv' BY <1>2, <1>6 DEF HoldsInv, Messaging, Lasting
<1>10. ShutdownIsOrdered' BY <1>1, <1>2, <1>4, <1>6 DEF ShutdownIsOrdered, DeliveryMayClose
<1> QED BY <1>5, <1>8, <1>9, <1>10 DEF LifecycleIInv

\* The bound on faults is respected.
LEMMA Faults == ASSUME LifecycleTypeOK, Fault PROVE faults' \in 0..MaxFaults
BY DEF LifecycleTypeOK, Fault

\* A server that is up serves, or can be closed; an incomplete close can be repeated.
LEMMA ServesKeeps ==
    ASSUME LifecycleIInv, owner' \in {"serving", "incomplete", "raised"}, UNCHANGED << holds, accepting, sdk, handler, turn >>,
           purpose' \in {"none", "startup", "close"}, trouble' \in {"none", "failed", "cancelled"},
           faults' \in 0..MaxFaults,
           DeliveryMayClose
    PROVE  LifecycleIInv'
<1>1. LifecycleTypeOK /\ IngressInv /\ HoldsInv /\ ShutdownIsOrdered BY DEF LifecycleIInv
<1>2. Busy' = Busy /\ Running' = Running BY IdleFrame
<1>3. LifecycleTypeOK' BY <1>1 DEF LifecycleTypeOK, DeliveryMayClose
<1>4. IngressInv' BY <1>1, <1>2 DEF IngressInv, AfterTurns, DeliveryMayClose
<1>5. HoldsInv' BY <1>1 DEF HoldsInv
<1>6. ShutdownIsOrdered' BY <1>1, <1>2 DEF ShutdownIsOrdered, DeliveryMayClose
<1> QED BY <1>3, <1>4, <1>5, <1>6 DEF LifecycleIInv

\* A cleanup step that gives up: close() ends, or a failed start closes everything.
LEMMA GivesUpKeeps ==
    ASSUME LifecycleIInv, NEW how, GivesUp(how), UNCHANGED << holds, accepting, sdk, handler, turn >>,
           DeliveryMayClose, faults' \in 0..MaxFaults
    PROVE  LifecycleIInv'
<1>1. CASE purpose = "startup"
  <2>1. Cleans("close", holds') BY <1>1 DEF GivesUp
  <2> QED BY <2>1, CleansKeeps
<1>2. CASE purpose # "startup"
  <2>1. owner' \in {"incomplete", "raised"} /\ purpose' = "none" /\ trouble' = "none"
    BY <1>2 DEF GivesUp
  <2> QED BY <2>1, ServesKeeps
<1> QED BY <1>1, <1>2

\* start(), up to serving or its own cleanup.
LEMMA StartKeeps ==
    ASSUME LifecycleIInv,
           \/ StartsPlain \/ Composes \/ CompositionFails \/ Connected \/ ConnectFails
           \/ StartAborted \/ Close
    PROVE  LifecycleIInv'
<1>1. LifecycleTypeOK /\ IngressInv /\ HoldsInv /\ ShutdownIsOrdered BY DEF LifecycleIInv
<1>2. CASE StartsPlain \/ Connected
  <2>1. /\ owner' = "serving" /\ UNCHANGED << holds, accepting, sdk, handler, turn >>
        /\ UNCHANGED << purpose, trouble, faults, delivery >>
    BY <1>2 DEF StartsPlain, Connected, platform
  <2> QED BY <1>1, <2>1, ServesKeeps DEF LifecycleTypeOK, DeliveryMayClose
<1>3. CASE Composes
  <2>1. /\ owner = "starting" /\ owner' = "connecting" /\ holds' = holds \cup Messaging
        /\ accepting' = TRUE /\ sdk' = "live"
        /\ UNCHANGED << purpose, trouble, handler, turn, delivery, faults >>
    BY <1>3 DEF Composes
  <2>2. holds = Lasting /\ delivery = "open" /\ ~Busy BY <1>1, <2>1 DEF IngressInv
  <2>3. Busy' = Busy /\ Running' = Running BY <2>1, IdleFrame
  <2>4. LifecycleTypeOK' BY <1>1, <2>1 DEF LifecycleTypeOK
  <2>5. IngressInv' BY <2>1, <2>2 DEF IngressInv, AfterTurns
  <2>6. HoldsInv' BY <2>1 DEF HoldsInv, Messaging
  <2>7. ShutdownIsOrdered' BY <2>1, <2>2, <2>3 DEF ShutdownIsOrdered
  <2> QED BY <2>4, <2>5, <2>6, <2>7 DEF LifecycleIInv
<1>4. CASE CompositionFails
  <2>1. /\ owner = "starting" /\ Fault /\ Cleans("startup", holds' \ Lasting)
        /\ holds' = holds \cup (holds' \ Lasting) /\ "platform" \in holds'
        /\ holds' \subseteq Messaging \cup Lasting
        /\ UNCHANGED platform
    <3>1. PICK has \in {{"platform"}, {"platform", "cli"}, Messaging} :
              holds' = holds \cup has /\ Cleans("startup", has)
      BY <1>4 DEF CompositionFails
    <3>2. owner = "starting" /\ Fault /\ UNCHANGED platform BY <1>4 DEF CompositionFails
    <3>3. holds = Lasting BY <1>1, <3>2 DEF IngressInv
    <3>4. has \subseteq Messaging /\ "platform" \in has BY DEF Messaging
    <3>5. holds' \ Lasting = has BY <3>1, <3>3, <3>4 DEF Messaging, Lasting
    <3> QED BY <3>1, <3>2, <3>3, <3>4, <3>5
  <2>2. Cleans("startup", holds') BY <2>1 DEF Cleans, Lasting
  <2>3. faults' \in 0..MaxFaults BY <1>1, <2>1, Faults
  <2>4. DeliveryMayClose /\ UNCHANGED << accepting, sdk, handler, turn >>
    BY <2>1 DEF DeliveryMayClose, platform
  <2> QED BY <2>1, <2>2, <2>3, <2>4, CleansKeeps
<1>5. CASE ConnectFails \/ StartAborted \/ Close
  <2>1. /\ UNCHANGED << holds, accepting, sdk, handler, turn, delivery >>
        /\ Cleans("close", holds') \/ Cleans("startup", holds')
        /\ Fault \/ UNCHANGED faults
    BY <1>5 DEF ConnectFails, StartAborted, Close, platform
  <2>2. faults' \in 0..MaxFaults BY <1>1, <2>1, Faults DEF LifecycleTypeOK
  <2> QED BY <2>1, <2>2, CleansKeeps DEF DeliveryMayClose
<1> QED BY <1>2, <1>3, <1>4, <1>5

\* The platform's steps: ingress is off before the handlers are awaited, and
\* the turns end before anything is closed.
LEMMA QuiesceKeeps ==
    ASSUME LifecycleIInv,
           ClosesClient \/ ClientTrouble \/ DrainCancelled \/ Drained \/ TurnsStop
    PROVE  LifecycleIInv'
<1>1. LifecycleTypeOK /\ IngressInv /\ HoldsInv /\ ShutdownIsOrdered BY DEF LifecycleIInv
<1>2. CASE ClosesClient \/ ClientTrouble \/ DrainCancelled
  <2>1. /\ owner' = "draining" /\ trouble' \in {"none", "failed", "cancelled"}
        /\ UNCHANGED << purpose, holds, handler, turn, delivery >>
        /\ accepting' = FALSE /\ sdk' \in {"off", "live", "closed"}
        /\ Fault \/ UNCHANGED faults
    BY <1>1, <1>2 DEF ClosesClient, ClientTrouble, DrainCancelled, Passes, platform,
       LifecycleTypeOK, IngressInv
  <2>2. Busy' = Busy /\ Running' = Running BY <2>1, IdleFrame
  <2>3. faults' \in 0..MaxFaults BY <1>1, <2>1, Faults DEF LifecycleTypeOK
  <2>4. LifecycleTypeOK' BY <1>1, <2>1, <2>3 DEF LifecycleTypeOK
  <2>5. IngressInv' BY <2>1 DEF IngressInv, AfterTurns
  <2>6. HoldsInv' BY <1>1, <2>1 DEF HoldsInv
  <2>7. ShutdownIsOrdered' BY <1>1, <2>1, <2>2 DEF ShutdownIsOrdered
  <2> QED BY <2>4, <2>5, <2>6, <2>7 DEF LifecycleIInv
<1>3. CASE Drained
  <2>1. /\ owner = "draining" /\ Running = {}
        /\ UNCHANGED << holds, accepting, sdk, handler, turn, delivery, faults >>
    BY <1>3 DEF Drained, Running, platform
  <2>2. CASE trouble # "none"
    BY <1>1, <1>3, <2>1, <2>2, GivesUpKeeps DEF Drained, DeliveryMayClose, LifecycleTypeOK
  <2>3. CASE trouble = "none"
    <3>1. owner' = "stopping turns" /\ UNCHANGED << purpose, trouble >>
      BY <1>3, <2>3 DEF Drained
    <3>2. Busy' = Busy /\ Running' = Running BY <2>1, IdleFrame
    <3>3. LifecycleTypeOK' BY <1>1, <2>1, <3>1 DEF LifecycleTypeOK
    <3>4. IngressInv' BY <1>1, <2>1, <3>1, <3>2 DEF IngressInv, AfterTurns
    <3>5. HoldsInv' BY <1>1, <2>1, <3>1 DEF HoldsInv
    <3>6. ShutdownIsOrdered' BY <1>1, <2>1, <3>1, <3>2 DEF ShutdownIsOrdered
    <3> QED BY <3>3, <3>4, <3>5, <3>6 DEF LifecycleIInv
  <2> QED BY <2>2, <2>3
<1>4. CASE TurnsStop
  <2>1. /\ owner = "stopping turns" /\ owner' = "closing delivery"
        /\ holds' = holds \ {"workflow", "cli"}
        /\ UNCHANGED << purpose, trouble, accepting, sdk, handler, delivery, faults >>
        /\ IF "workflow" \in holds
           THEN turn' = [m \in Messages |-> IF turn[m] = "running" THEN "over" ELSE turn[m]]
           ELSE UNCHANGED turn
    BY <1>4 DEF TurnsStop, Passes
  <2>2. Running = {} /\ ~accepting BY <1>1, <2>1 DEF IngressInv
  <2>3. turn' \in [Messages -> {"none", "running", "over"}]
    BY <1>1, <2>1 DEF LifecycleTypeOK
  <2>4. ~Busy'
    <3>1. \A m \in Messages : handler'[m] # "running" BY <2>1, <2>2 DEF Running
    <3>2. \A m \in Messages : turn'[m] # "running"
      <4>1. CASE "workflow" \in holds BY <2>1, <4>1
      <4>2. CASE "workflow" \notin holds
        <5>1. ~Busy BY <1>1, <4>2 DEF ShutdownIsOrdered
        <5> QED BY <2>1, <4>2, <5>1 DEF Busy
      <4> QED BY <4>1, <4>2
    <3> QED BY <3>1, <3>2 DEF Busy
  <2>5. LifecycleTypeOK' BY <1>1, <2>1, <2>3 DEF LifecycleTypeOK
  <2>6. IngressInv' BY <2>1, <2>2, <2>4 DEF IngressInv, AfterTurns
  <2>7. HoldsInv' BY <1>1, <2>1 DEF HoldsInv, LifecycleTypeOK, Messaging
  <2>8. ShutdownIsOrdered' BY <2>1, <2>4 DEF ShutdownIsOrdered
  <2> QED BY <2>5, <2>6, <2>7, <2>8 DEF LifecycleIInv
<1> QED BY <1>2, <1>3, <1>4

\* The steps after that close one thing each, or fail and keep it.
LEMMA ClosingKeeps ==
    ASSUME LifecycleIInv,
           DeliveryCloses \/ TranscriberCloses \/ ProvidersClose \/ AccountsClose \/ StepFails
    PROVE  LifecycleIInv'
<1>1. LifecycleTypeOK /\ IngressInv /\ HoldsInv /\ ShutdownIsOrdered BY DEF LifecycleIInv
<1>2. CASE DeliveryCloses \/ TranscriberCloses \/ ProvidersClose \/ AccountsClose
  <2>1. owner \in AfterTurns /\ UNCHANGED << trouble, accepting, sdk, handler, turn, faults >>
    BY <1>2 DEF DeliveryCloses, TranscriberCloses, ProvidersClose, AccountsClose, Passes,
       platform, AfterTurns
  <2>2. ~accepting /\ ~Busy BY <1>1, <2>1 DEF IngressInv
  <2>3. Busy' = Busy BY <2>1, IdleFrame
  <2>4. /\ holds' \subseteq holds /\ delivery' \in {delivery, "closed"}
        /\ purpose' \in {purpose, "none"}
        /\ \/ owner' = "serving" /\ holds' = holds \ {"platform"}
           \/ owner' = "closing transcriber" /\ owner = "closing delivery" /\ holds' = holds \ {"platform"}
           \/ owner' = "closing providers" /\ owner = "closing transcriber" /\ holds' = holds \ {"transcriber"}
           \/ owner' = "closing accounts" /\ owner = "closing providers" /\ holds' = holds \ {"providers"}
           \/ owner' = "closed" /\ owner = "closing accounts" /\ holds' = holds \ {"accounts"}
    BY <1>2 DEF DeliveryCloses, TranscriberCloses, ProvidersClose, AccountsClose, Passes, platform
  <2>5. owner' = "serving" => owner = "closing delivery"
    BY <1>2 DEF DeliveryCloses, TranscriberCloses, ProvidersClose, AccountsClose, Passes
  <2>6. LifecycleTypeOK' BY <1>1, <2>1, <2>4 DEF LifecycleTypeOK
  <2>7. IngressInv' BY <2>1, <2>2, <2>3, <2>4 DEF IngressInv
  <2>8. HoldsInv' BY <1>1, <2>4, <2>5 DEF HoldsInv, Lasting
  <2>9. ShutdownIsOrdered' BY <1>1, <2>2, <2>3, <2>4 DEF ShutdownIsOrdered, HoldsInv
  <2> QED BY <2>6, <2>7, <2>8, <2>9 DEF LifecycleIInv
<1>3. CASE StepFails
  <2>1. /\ Fault /\ UNCHANGED << holds, accepting, sdk, handler, turn >>
        /\ \E how \in {"failed", "cancelled"} : GivesUp(how)
        /\ delivery' = delivery \/ (owner = "closing delivery" /\ delivery' = "closed")
    BY <1>3 DEF StepFails
  <2>2. DeliveryMayClose BY <1>1, <2>1 DEF IngressInv, AfterTurns, DeliveryMayClose
  <2>3. faults' \in 0..MaxFaults BY <1>1, <2>1, Faults
  <2> QED BY <2>1, <2>2, <2>3, GivesUpKeeps
<1> QED BY <1>2, <1>3

\* A server that starts holds what every server needs, and nothing runs.
LEMMA LifecycleInitIInv == LifecycleInit => LifecycleIInv
<1> SUFFICES ASSUME LifecycleInit PROVE LifecycleIInv OBVIOUS
<1>1. ~Busy /\ Running = {} BY DEF LifecycleInit, Busy, Running
<1>2. LifecycleTypeOK
  <2>1. faults \in 0..MaxFaults /\ holds \subseteq Messaging \cup Lasting BY DEF LifecycleInit
  <2>2. /\ handler \in [Messages -> {"none", "dispatched", "running", "over"}]
        /\ turn \in [Messages -> {"none", "running", "over"}]
    BY DEF LifecycleInit
  <2>3. /\ purpose = "none" /\ trouble = "none" /\ accepting = FALSE /\ sdk = "off"
        /\ delivery = "open"
    BY DEF LifecycleInit
  <2> QED BY <2>1, <2>2, <2>3 DEF LifecycleTypeOK
<1>3. IngressInv BY <1>1 DEF LifecycleInit, IngressInv, AfterTurns
<1>4. HoldsInv BY DEF LifecycleInit, HoldsInv, Lasting
<1>5. ShutdownIsOrdered BY <1>1 DEF LifecycleInit, ShutdownIsOrdered
<1> QED BY <1>2, <1>3, <1>4, <1>5 DEF LifecycleIInv

\* Every step of the server keeps its invariant.
LEMMA LifecycleNextIInv == LifecycleIInv /\ [LifecycleNext]_lifecycleVars => LifecycleIInv'
<1> SUFFICES ASSUME LifecycleIInv, [LifecycleNext]_lifecycleVars PROVE LifecycleIInv' OBVIOUS
<1>1. CASE LifecycleNext
  BY <1>1, MessageKeeps, StartKeeps, QuiesceKeeps, ClosingKeeps DEF LifecycleNext
<1>2. CASE UNCHANGED lifecycleVars
  <2>1. Busy' = Busy /\ Running' = Running BY <1>2, IdleFrame DEF lifecycleVars
  <2>2. LifecycleTypeOK' BY <1>2 DEF lifecycleVars, LifecycleIInv, LifecycleTypeOK
  <2>3. IngressInv' BY <1>2, <2>1 DEF lifecycleVars, LifecycleIInv, IngressInv
  <2>4. HoldsInv' BY <1>2 DEF lifecycleVars, LifecycleIInv, HoldsInv
  <2>5. ShutdownIsOrdered' BY <1>2, <2>1 DEF lifecycleVars, LifecycleIInv, ShutdownIsOrdered
  <2> QED BY <2>2, <2>3, <2>4, <2>5 DEF LifecycleIInv
<1> QED BY <1>1, <1>2

\* The invariant of the server holds in every reachable state.
THEOREM LifecycleInvariance == LifecycleSpec => []LifecycleIInv
<1> QED BY LifecycleInitIInv, LifecycleNextIInv, PTL DEF LifecycleSpec

\* Every variable of the server stays in its range.
THEOREM LifecycleTyping == LifecycleSpec => []LifecycleTypeOK
<1>1. LifecycleIInv => LifecycleTypeOK BY DEF LifecycleIInv
<1> QED BY <1>1, LifecycleInvariance, PTL

\* Whatever fails or is cancelled while the server starts or closes, nothing is
\* closed that a handler or a turn may still use, and nothing is forgotten before
\* it is closed (application.py:474-526).
THEOREM OrderedShutdown == LifecycleSpec => []ShutdownIsOrdered
<1>1. LifecycleIInv => ShutdownIsOrdered BY DEF LifecycleIInv
<1> QED BY <1>1, LifecycleInvariance, PTL

(***************************************************************************)
(* ManagedConfig.  Every file is described by what it tells of a key: what *)
(* a consolidation (ConsolidatedIs) and a request (RequestIsKept) make of  *)
(* one follows key by key.  The inductive invariant ConfigInv names the    *)
(* one place each file came from: the managed file of the beginning, its   *)
(* consolidation, or the last request.                                     *)
(***************************************************************************)


\* The file that consolidating a file makes, in steps: what is written in the
\* file itself or the older one, what FCC_ENV_FILE lays over it, what is kept of it.
OwnWords(f) == IF f # NoFile THEN Migrated(Contents(f)) ELSE OnlyKnown(Migrated(Contents(base)))
KeptWords(f) ==
    Without(Over(OnlyKnown(Migrated(Contents(explicit))), OwnWords(f)), Retired \cup {"SCHEMA"})
HadState(f) == f # NoFile \/ base # NoFile
ConsolidatedFrom(f) ==
    Over([SCHEMA |-> "1"],
         NotBlank(Over(AuthState(KeptWords(f), HadState(f)), KeptWords(f)), Known))

\* What a request makes of a file.
SkippedIn(f, k, value) ==
    k \notin Fields \/ OwnedByProcess(f, k) \/ (k \in Secret /\ value \in {Masked, Blank})
EffectiveIn(f, updates) == RestrictDomain(updates, LAMBDA k : ~SkippedIn(f, k, updates[k]))
GoneIn(f, updates) ==
    LET given == EffectiveIn(f, updates)
    IN { k \in DOMAIN given : given[k] = Null \/ (k \in Nullable /\ given[k] = Blank) }
TargetIn(f, updates) ==
    Over([SCHEMA |-> "1"],
         Without(Over(EffectiveIn(f, updates), NotBlank(Contents(f), Known)), GoneIn(f, updates)))

PendingIn(f, updates) ==
    { k \in DOMAIN EffectiveIn(f, updates) \cap NeedsRestart : updates[k] # Settings(f)[k] }

\* A request that was prepared from a file that was serving.
IsRequest(r) ==
    /\ IsCurrent(r.from) /\ Valid(r.from) /\ Valid(r.target)
    /\ r.updates \in Submissions /\ ~Refused(r.updates)
    /\ r.keys = DOMAIN r.updates /\ r.target = TargetIn(r.from, r.updates)
    /\ r.pending = PendingIn(r.from, r.updates)

\* What the files and the process may say of the flag.
AuthTyped(f) == "AUTH" \in DOMAIN f => f["AUTH"] \in {Blank, "true", "false"}
OriginsTyped ==
    /\ \A f \in {first, base, explicit, process} : AuthTyped(f)
    /\ first # Broken /\ base # Broken
    /\ "AUTH" \in DOMAIN process => process["AUTH"] # Blank

\* What serves is current and can be loaded; the runtime has its settings, and the
\* server those it took at its start, unless a restart is announced for them.
RuntimeInv ==
    \A k \in SettingsKeys \ NeedsRestart :
        live[k] = Settings(managed)[k] \/ due \/ pendingFields # {}
ServerInv ==
    \A k \in NeedsRestart :
        (live[k] = Settings(managed)[k] /\ bound[k] = Settings(managed)[k]) \/ due \/ k \in told
ServingInv ==
    stage = "serving" =>
        IsCurrent(managed) /\ Valid(managed) /\ RuntimeInv /\ ServerInv

RequestsInv ==
    /\ applying # NoRequest =>
          stage = "serving" /\ IsRequest(applying) /\ applying.from = managed
    /\ granted # NoRequest => IsRequest(granted) /\ managed = granted.target

\* Before the first request no restart is announced, and the file is what it was, or
\* was consolidated once.
FirstInv ==
    granted = NoRequest =>
        /\ ~due /\ told = {}
        /\ \/ managed = first
           \/ /\ ~IsCurrent(first) /\ explicit # Broken /\ stage # "new"
              /\ managed = ConsolidatedFrom(first)

ConfigInv == OriginsTyped /\ ServingInv /\ RequestsInv /\ FirstInv

-----------------------------------------------------------------------------
LEMMA OverIs ==
    ASSUME NEW f, NEW g
    PROVE  /\ DOMAIN Over(g, f) = DOMAIN f \cup DOMAIN g
           /\ \A k \in DOMAIN f \cup DOMAIN g :
                 Over(g, f)[k] = IF k \in DOMAIN g THEN g[k] ELSE f[k]
BY DEF Over

LEMMA WithoutIs ==
    ASSUME NEW f, NEW keys
    PROVE  /\ DOMAIN Without(f, keys) = DOMAIN f \ keys
           /\ \A k \in DOMAIN f \ keys : Without(f, keys)[k] = f[k]
BY DEF Without, RestrictDomain, Restrict

LEMMA OnlyKnownIs ==
    ASSUME NEW f
    PROVE  /\ DOMAIN OnlyKnown(f) = DOMAIN f \cap Known
           /\ \A k \in DOMAIN f \cap Known : OnlyKnown(f)[k] = f[k]
BY DEF OnlyKnown, RestrictDomain, Restrict

LEMMA NotBlankIs ==
    ASSUME NEW f, NEW keys
    PROVE  /\ DOMAIN NotBlank(f, keys) = { k \in DOMAIN f : k \in keys => f[k] # Blank }
           /\ \A k \in DOMAIN NotBlank(f, keys) : NotBlank(f, keys)[k] = f[k]
BY DEF NotBlank, RestrictDomain, Restrict

\* A setting is told by its name or its old one.
Tells(f, k) == k \in DOMAIN f \/ (k = "REASONING" /\ "THINKING" \in DOMAIN f)

\* What the migration makes of it.
Survives(f, k) == IF Lost(f, k) THEN Blank ELSE Said(f, k)

LEMMA MigratedIs ==
    ASSUME NEW f
    PROVE  /\ \A k \in SettingsKeys : k \in DOMAIN Migrated(f) <=> Tells(f, k)
           /\ \A k \in SettingsKeys : Tells(f, k) => Migrated(f)[k] = Survives(f, k)
           /\ "CUSTOM" \in DOMAIN f => "CUSTOM" \in DOMAIN Migrated(f)
<1> DEFINE rename == "THINKING" \in DOMAIN f /\ "REASONING" \notin DOMAIN f
           keys == IF rename THEN (DOMAIN f \ {"THINKING"}) \cup {"REASONING"} ELSE DOMAIN f
<1>1. /\ DOMAIN Migrated(f) = keys
      /\ \A k \in keys : Migrated(f)[k] = IF k = "REASONING" /\ rename
                                          THEN Renamed(f["THINKING"])
                                          ELSE IF k = "MODEL" THEN Prefixed(f[k]) ELSE f[k]
  BY DEF Migrated
<1>2. \A k \in SettingsKeys : k \in keys <=> Tells(f, k) BY DEF SettingsKeys, Tells
<1>3. ASSUME NEW k \in SettingsKeys, Tells(f, k) PROVE Migrated(f)[k] = Survives(f, k)
  <2>1. CASE k = "REASONING" /\ rename
    <3>1. ~Lost(f, k) /\ Said(f, k) = Renamed(f["THINKING"]) BY <2>1 DEF Lost, Said, Gives
    <3> QED BY <1>1, <1>2, <1>3, <2>1, <3>1 DEF Survives
  <2>2. CASE k # "REASONING" \/ ~rename
    <3>1. k \in DOMAIN f BY <1>3, <2>2 DEF Tells
    <3>2. CASE k = "MODEL" BY <1>1, <1>2, <1>3, <2>2, <3>1, <3>2 DEF Said, Lost, Survives
    <3>3. CASE k # "MODEL" /\ ~Lost(f, k)
      <4>1. Said(f, k) = f[k] BY <2>2, <3>1, <3>3 DEF Said, Lost, Gives
      <4> QED BY <1>1, <1>2, <1>3, <2>2, <3>1, <3>3, <4>1 DEF Survives
    <3>4. CASE Lost(f, k) BY <1>1, <1>2, <1>3, <2>2, <3>1, <3>4 DEF Lost, Survives
    <3> QED BY <3>2, <3>3, <3>4
  <2> QED BY <2>1, <2>2
<1>4. "CUSTOM" \in DOMAIN f => "CUSTOM" \in keys OBVIOUS
<1> QED BY <1>1, <1>2, <1>3, <1>4

\* The file whose word counts, of which FCC_ENV_FILE's is the last.
WordOf(f, k) ==
    IF Tells(Contents(explicit), k) THEN Contents(explicit)
    ELSE IF f # NoFile THEN Contents(f) ELSE Contents(base)

LEMMA KeptWordsAre ==
    ASSUME NEW f
    PROVE  /\ \A k \in SettingsKeys : k \in DOMAIN KeptWords(f) <=> Tells(WordOf(f, k), k)
           /\ \A k \in SettingsKeys :
                 Tells(WordOf(f, k), k) => KeptWords(f)[k] = Survives(WordOf(f, k), k)
           /\ DOMAIN KeptWords(f) \cap (Retired \cup {"SCHEMA"}) = {}
           /\ f # NoFile /\ "CUSTOM" \in DOMAIN f => "CUSTOM" \in DOMAIN KeptWords(f)
<1> DEFINE upper == OnlyKnown(Migrated(Contents(explicit)))
           lower == OwnWords(f)
           under == IF f # NoFile THEN Contents(f) ELSE Contents(base)
           laid  == Over(upper, lower)
<1>0. \A k \in SettingsKeys : k \in Known /\ k \notin Retired \cup {"SCHEMA"}
  BY DEF SettingsKeys, Known, Retired
<1>1. /\ \A k \in SettingsKeys : k \in DOMAIN upper <=> Tells(Contents(explicit), k)
      /\ \A k \in SettingsKeys :
            Tells(Contents(explicit), k) => upper[k] = Survives(Contents(explicit), k)
  <2>1. /\ DOMAIN upper = DOMAIN Migrated(Contents(explicit)) \cap Known
        /\ \A k \in DOMAIN Migrated(Contents(explicit)) \cap Known :
              upper[k] = Migrated(Contents(explicit))[k]
    BY OnlyKnownIs
  <2> QED BY <1>0, <2>1, MigratedIs
<1>2. /\ \A k \in SettingsKeys : k \in DOMAIN lower <=> Tells(under, k)
      /\ \A k \in SettingsKeys : Tells(under, k) => lower[k] = Survives(under, k)
      /\ f # NoFile /\ "CUSTOM" \in DOMAIN f => "CUSTOM" \in DOMAIN lower
  <2>1. CASE f # NoFile
    <3>1. lower = Migrated(Contents(f)) /\ under = Contents(f) /\ Contents(f) = f
      BY <2>1 DEF OwnWords, Contents
    <3> QED BY <3>1, MigratedIs
  <2>2. CASE f = NoFile
    <3>1. lower = OnlyKnown(Migrated(Contents(base))) /\ under = Contents(base)
      BY <2>2 DEF OwnWords
    <3> DEFINE old == Migrated(Contents(base))
    <3> HIDE DEF old, lower
    <3>2. DOMAIN lower = DOMAIN old \cap Known /\ \A k \in DOMAIN old \cap Known : lower[k] = old[k]
      <4>1. lower = OnlyKnown(old) BY <3>1 DEF old
      <4> QED BY <4>1, OnlyKnownIs
    <3> USE DEF old
    <3> QED BY <1>0, <2>2, <3>1, <3>2, MigratedIs
  <2> QED BY <2>1, <2>2
<1> HIDE DEF upper, lower, under
<1>3. /\ DOMAIN laid = DOMAIN lower \cup DOMAIN upper
      /\ \A k \in DOMAIN lower \cup DOMAIN upper :
            laid[k] = IF k \in DOMAIN upper THEN upper[k] ELSE lower[k]
  BY OverIs
<1> HIDE DEF laid
<1>4. /\ DOMAIN KeptWords(f) = DOMAIN laid \ (Retired \cup {"SCHEMA"})
      /\ \A k \in DOMAIN laid \ (Retired \cup {"SCHEMA"}) : KeptWords(f)[k] = laid[k]
  BY WithoutIs DEF KeptWords, laid, upper, lower
<1>5. \A k \in SettingsKeys :
          /\ Tells(Contents(explicit), k) => WordOf(f, k) = Contents(explicit)
          /\ ~Tells(Contents(explicit), k) => WordOf(f, k) = under
  BY DEF WordOf, under
<1>6. ASSUME NEW k \in SettingsKeys
      PROVE  /\ k \in DOMAIN KeptWords(f) <=> Tells(WordOf(f, k), k)
             /\ Tells(WordOf(f, k), k) => KeptWords(f)[k] = Survives(WordOf(f, k), k)
  <2>1. CASE Tells(Contents(explicit), k) BY <1>0, <1>1, <1>3, <1>4, <1>5, <2>1
  <2>2. CASE ~Tells(Contents(explicit), k) BY <1>0, <1>1, <1>2, <1>3, <1>4, <1>5, <2>2
  <2> QED BY <2>1, <2>2
<1>7. "CUSTOM" \notin Retired \cup {"SCHEMA"} BY DEF Retired
<1> QED BY <1>2, <1>3, <1>4, <1>6, <1>7

LEMMA ConsolidatedIs ==
    ASSUME NEW f
    PROVE  LET auth == AuthState(KeptWords(f), HadState(f))
               made == ConsolidatedFrom(f)
           IN  /\ \A k \in SettingsKeys \ {"AUTH"} :
                     /\ k \in DOMAIN made <=> (k \in DOMAIN KeptWords(f) /\ KeptWords(f)[k] # Blank)
                     /\ k \in DOMAIN made => made[k] = KeptWords(f)[k]
               /\ "CUSTOM" \in DOMAIN KeptWords(f) => "CUSTOM" \in DOMAIN made
               /\ DOMAIN made \cap Retired = {}
               /\ IsCurrent(made)
               /\ Value(made, "AUTH") = IF "AUTH" \in DOMAIN process THEN process["AUTH"]
                                        ELSE IF "AUTH" \in DOMAIN auth THEN auth["AUTH"]
                                        ELSE IF Gives(KeptWords(f), "AUTH") THEN KeptWords(f)["AUTH"]
                                        ELSE "true"
<1> DEFINE kept == KeptWords(f)
           auth == AuthState(kept, HadState(f))
           made == ConsolidatedFrom(f)
           both == Over(auth, kept)
           full == NotBlank(both, Known)
<1>1. /\ DOMAIN auth \subseteq {"AUTH"}
      /\ "AUTH" \in DOMAIN auth => auth["AUTH"] \in {"true", "false"}
      /\ "AUTH" \in DOMAIN kept => "AUTH" \notin DOMAIN auth
  BY DEF AuthState
<1>2. /\ DOMAIN kept \cap (Retired \cup {"SCHEMA"}) = {}
  BY KeptWordsAre
<1> HIDE DEF kept, auth
<1>3. /\ DOMAIN both = DOMAIN kept \cup DOMAIN auth
      /\ \A k \in DOMAIN kept \cup DOMAIN auth :
            both[k] = IF k \in DOMAIN auth THEN auth[k] ELSE kept[k]
  BY OverIs
<1> HIDE DEF both, made
<1>4. /\ DOMAIN full = { k \in DOMAIN both : k \in Known => both[k] # Blank }
      /\ \A k \in DOMAIN full : full[k] = both[k]
  BY NotBlankIs
<1> HIDE DEF full
<1>5. /\ DOMAIN made = DOMAIN full \cup {"SCHEMA"}
      /\ made["SCHEMA"] = "1"
      /\ \A k \in DOMAIN full : k # "SCHEMA" => made[k] = full[k]
  <2> DEFINE schema == [SCHEMA |-> "1"]
  <2>1. made = Over(schema, full) BY DEF made, ConsolidatedFrom, full, both, auth, kept
  <2>2. DOMAIN schema = {"SCHEMA"} /\ schema["SCHEMA"] = "1" OBVIOUS
  <2> HIDE DEF schema
  <2> QED BY <2>1, <2>2, OverIs
<1>6. IsCurrent(made)
  <2>1. made # NoFile
    <3>1. "SCHEMA" \notin DOMAIN NoFile BY DEF NoFile
    <3> QED BY <1>5, <3>1
  <2> QED BY <1>5, <2>1 DEF IsCurrent
<1>7. ASSUME NEW k \in SettingsKeys \ {"AUTH"}
      PROVE  /\ k \in DOMAIN made <=> (k \in DOMAIN kept /\ kept[k] # Blank)
             /\ k \in DOMAIN made => made[k] = kept[k]
  <2>1. k \in Known /\ k # "SCHEMA" BY DEF SettingsKeys, Known
  <2>2. k \notin DOMAIN auth BY <1>1
  <2> QED BY <1>3, <1>4, <1>5, <2>1, <2>2
<1>8. "CUSTOM" \in DOMAIN kept => "CUSTOM" \in DOMAIN made
  BY <1>3, <1>4, <1>5 DEF Known, SettingsKeys, Retired
<1>9. DOMAIN made \cap Retired = {}
  BY <1>1, <1>2, <1>3, <1>4, <1>5 DEF Retired
<1>10. Value(made, "AUTH") = IF "AUTH" \in DOMAIN process THEN process["AUTH"]
                             ELSE IF "AUTH" \in DOMAIN auth THEN auth["AUTH"]
                             ELSE IF Gives(kept, "AUTH") THEN kept["AUTH"] ELSE "true"
  <2>1. "AUTH" \in Known /\ "AUTH" # "SCHEMA" /\ "AUTH" # "TOKEN" BY DEF SettingsKeys, Known
  <2>2. Default["AUTH"] = "true" BY DEF Default
  <2>3. Value(made, "AUTH") = IF "AUTH" \in DOMAIN process THEN process["AUTH"]
                              ELSE IF "AUTH" \in DOMAIN made THEN made["AUTH"] ELSE "true"
    BY <2>1, <2>2 DEF Value, OwnedByProcess
  <2>4. CASE "AUTH" \in DOMAIN auth
    <3>1. "AUTH" \in DOMAIN both /\ both["AUTH"] = auth["AUTH"] /\ both["AUTH"] # Blank
      BY <1>1, <1>3, <2>4 DEF Blank
    <3> QED BY <1>4, <1>5, <2>1, <2>3, <2>4, <3>1
  <2>5. CASE "AUTH" \notin DOMAIN auth
    <3>1. /\ "AUTH" \in DOMAIN made <=> Gives(kept, "AUTH")
          /\ "AUTH" \in DOMAIN made => made["AUTH"] = kept["AUTH"]
      BY <1>3, <1>4, <1>5, <2>1, <2>5 DEF Gives
    <3> QED BY <2>3, <2>5, <3>1
  <2> QED BY <2>4, <2>5
<1> QED BY <1>6, <1>7, <1>8, <1>9, <1>10 DEF made, auth, kept

-----------------------------------------------------------------------------
LEMMA RequestIsKept ==
    ASSUME NEW f, NEW updates
    PROVE  LET given == EffectiveIn(f, updates)
               gone  == GoneIn(f, updates)
               made  == TargetIn(f, updates)
           IN  /\ \A k : k \in DOMAIN given <=> k \in DOMAIN updates /\ ~SkippedIn(f, k, updates[k])
               /\ \A k : k # "SCHEMA" =>
                     (k \in DOMAIN made <=>
                        /\ k \notin gone
                        /\ \/ k \in DOMAIN given
                           \/ k \in DOMAIN Contents(f) /\ (k \in Known => Contents(f)[k] # Blank))
               /\ \A k \in DOMAIN made : k # "SCHEMA" =>
                     made[k] = IF k \in DOMAIN given THEN updates[k] ELSE Contents(f)[k]
               /\ IsCurrent(made)
<1> DEFINE given == EffectiveIn(f, updates)
           gone  == GoneIn(f, updates)
           kept  == NotBlank(Contents(f), Known)
           both  == Over(given, kept)
           full  == Without(both, gone)
           schema == [SCHEMA |-> "1"]
           made  == TargetIn(f, updates)
<1>1. /\ DOMAIN given = { k \in DOMAIN updates : ~SkippedIn(f, k, updates[k]) }
      /\ \A k \in DOMAIN given : given[k] = updates[k]
  BY DEF EffectiveIn, RestrictDomain, Restrict
<1>2. made = Over(schema, full) BY DEF TargetIn
<1>3. DOMAIN schema = {"SCHEMA"} /\ schema["SCHEMA"] = "1" OBVIOUS
<1> HIDE DEF given, gone, schema, made
<1>4. /\ DOMAIN kept = { k \in DOMAIN Contents(f) : k \in Known => Contents(f)[k] # Blank }
      /\ \A k \in DOMAIN kept : kept[k] = Contents(f)[k]
  BY NotBlankIs
<1> HIDE DEF kept
<1>5. /\ DOMAIN both = DOMAIN kept \cup DOMAIN given
      /\ \A k \in DOMAIN kept \cup DOMAIN given :
            both[k] = IF k \in DOMAIN given THEN given[k] ELSE kept[k]
  BY OverIs
<1> HIDE DEF both
<1>6. DOMAIN full = DOMAIN both \ gone /\ \A k \in DOMAIN both \ gone : full[k] = both[k]
  BY WithoutIs
<1> HIDE DEF full
<1>7. /\ DOMAIN made = DOMAIN full \cup {"SCHEMA"} /\ made["SCHEMA"] = "1"
      /\ \A k \in DOMAIN full : k # "SCHEMA" => made[k] = full[k]
  BY <1>2, <1>3, OverIs
<1>8. IsCurrent(made)
  <2>1. "SCHEMA" \notin DOMAIN NoFile BY DEF NoFile
  <2> QED BY <1>7, <2>1 DEF IsCurrent
<1>9. \A k : k # "SCHEMA" =>
         (k \in DOMAIN made <=>
            /\ k \notin gone
            /\ \/ k \in DOMAIN given
               \/ k \in DOMAIN Contents(f) /\ (k \in Known => Contents(f)[k] # Blank))
  BY <1>4, <1>5, <1>6, <1>7
<1>10. \A k \in DOMAIN made : k # "SCHEMA" =>
          made[k] = IF k \in DOMAIN given THEN updates[k] ELSE Contents(f)[k]
  BY <1>1, <1>4, <1>5, <1>6, <1>7
<1> QED BY <1>1, <1>8, <1>9, <1>10 DEF given, gone, made

\* What the admin page may submit.
LEMMA SubmissionsAre ==
    ASSUME NEW u \in Submissions, ~Refused(u)
    PROVE  \A k \in DOMAIN u \cap Fields :
              /\ u[k] = Null => k \in Nullable
              /\ u[k] = Blank => k \in Secret
<1>1. ASSUME NEW k \in DOMAIN u \cap Fields, u[k] = Null PROVE k \in Nullable
  BY <1>1 DEF Refused
<1>2. ASSUME NEW k \in DOMAIN u \cap Fields, u[k] = Blank PROVE k \in Secret
  <2>1. CASE k \notin Nullable BY <1>2, <2>1 DEF Refused
  <2>2. CASE k \in Nullable
    <3>1. k = "MODEL" BY <2>2 DEF Nullable
    <3>2. "MODEL" \in DOMAIN u => u["MODEL"] # Blank
      <4> USE DEF Blank, Null
      <4>1. CASE u = [TOKEN |-> Masked]
        <5>1. "MODEL" \notin DOMAIN u BY <4>1
        <5> QED BY <5>1
      <4>2. CASE u = [TOKEN |-> "n"]
        <5>1. "MODEL" \notin DOMAIN u BY <4>2
        <5> QED BY <5>1
      <4>3. CASE u = [AUTH |-> "false"]
        <5>1. "MODEL" \notin DOMAIN u BY <4>3
        <5> QED BY <5>1
      <4>4. CASE u = [REASONING |-> "client"]
        <5>1. "MODEL" \notin DOMAIN u BY <4>4
        <5> QED BY <5>1
      <4>5. CASE u = [REASONING |-> Null]
        <5>1. "MODEL" \notin DOMAIN u BY <4>5
        <5> QED BY <5>1
      <4>6. CASE u = [MODEL |-> "zen"] BY <4>6
      <4>7. CASE u = [MODEL |-> Null] BY <4>7
      <4>8. CASE u = [PORT |-> "3"]
        <5>1. "MODEL" \notin DOMAIN u BY <4>8
        <5> QED BY <5>1
      <4>9. CASE u = [CUSTOM |-> "c"]
        <5>1. "MODEL" \notin DOMAIN u BY <4>9
        <5> QED BY <5>1
      <4>10. CASE u = [MODEL |-> "zen", PORT |-> "3"] BY <4>10
      <4>11. CASE u = [TOKEN |-> Blank, REASONING |-> "off"]
        <5>1. "MODEL" \notin DOMAIN u BY <4>11
        <5> QED BY <5>1
      <4> QED BY <4>1, <4>2, <4>3, <4>4, <4>5, <4>6, <4>7, <4>8, <4>9, <4>10, <4>11 DEF Submissions
    <3> QED BY <1>2, <3>1, <3>2
  <2> QED BY <2>1, <2>2
<1> QED BY <1>1, <1>2

\* A setting the request does not name, or may not, keeps its value.
LEMMA UnaskedStays ==
    ASSUME NEW f, NEW updates, IsCurrent(f), Valid(f),
           NEW k \in SettingsKeys, k \notin DOMAIN EffectiveIn(f, updates)
    PROVE  Settings(TargetIn(f, updates))[k] = Settings(f)[k]
<1> DEFINE made == TargetIn(f, updates)
<1>1. Contents(f) = f BY DEF Contents, IsCurrent
<1>2. k \in Known /\ k # "SCHEMA" BY DEF SettingsKeys, Known
<1>3. k \notin GoneIn(f, updates) BY DEF GoneIn
<1>4. /\ k \in DOMAIN made <=> k \in DOMAIN f /\ f[k] # Blank
      /\ k \in DOMAIN made => made[k] = f[k]
  BY <1>1, <1>2, <1>3, RequestIsKept
<1>5. Value(f, k) # Blank \/ k = "MODEL" BY DEF Valid, Settings
<1> HIDE DEF made
<1>6. OwnedByProcess(made, k) <=> OwnedByProcess(f, k) BY <1>4 DEF OwnedByProcess, Gives
<1>7. CASE OwnedByProcess(f, k) BY <1>6, <1>7 DEF Settings, Value, made
<1>8. CASE ~OwnedByProcess(f, k) /\ k = "MODEL"
  BY <1>4, <1>6, <1>8 DEF Settings, Value, made
<1>9. CASE ~OwnedByProcess(f, k) /\ k # "MODEL"
  <2>1. Value(made, k) = Value(f, k) BY <1>4, <1>5, <1>6, <1>9 DEF Value
  <2> QED BY <1>9, <2>1 DEF Settings, made
<1> QED BY <1>7, <1>8, <1>9

\* One that it names has the value it was given.
LEMMA AskedIsMade ==
    ASSUME NEW r, IsRequest(r), NEW k \in DOMAIN EffectiveIn(r.from, r.updates)
    PROVE  /\ k \in DOMAIN r.updates \cap Fields
           /\ r.updates[k] = Null => k = "MODEL"
           /\ Settings(r.target)[k] = IF r.updates[k] = Null THEN Default[k] ELSE r.updates[k]
<1> DEFINE u == r.updates
           given == EffectiveIn(r.from, u)
           gone == GoneIn(r.from, u)
           made == TargetIn(r.from, u)
<1>1. /\ IsCurrent(r.from) /\ Valid(r.from) /\ r.target = made
      /\ u \in Submissions /\ ~Refused(u)
  BY DEF IsRequest
<1>2. Contents(r.from) = r.from BY <1>1 DEF Contents, IsCurrent
<1>3. /\ k \in DOMAIN u /\ ~SkippedIn(r.from, k, u[k])
      /\ k # "SCHEMA" => (k \in DOMAIN made <=> k \notin gone)
      /\ k \in DOMAIN made /\ k # "SCHEMA" => made[k] = u[k]
  BY <1>2, RequestIsKept
<1>4. k \in SettingsKeys /\ k \in Fields /\ k \in Known /\ k # "SCHEMA"
  BY <1>3 DEF SkippedIn, Fields, SettingsKeys, Known
<1>5. given[k] = u[k] BY DEF EffectiveIn, RestrictDomain, Restrict
<1>6. k \in gone <=> u[k] = Null \/ (k \in Nullable /\ u[k] = Blank)
  BY <1>5 DEF GoneIn
<1>7. u[k] # Blank
  <2>1. u[k] = Blank => k \in Secret BY <1>1, <1>3, <1>4, SubmissionsAre
  <2> QED BY <1>3, <2>1 DEF SkippedIn
<1>8. u[k] = Null => k = "MODEL" BY <1>1, <1>3, <1>4, SubmissionsAre DEF Nullable
<1>9. ~OwnedByProcess(r.from, k) BY <1>3 DEF SkippedIn
<1> HIDE DEF made, given, gone, u
<1>10. Settings(made)[k] = IF u[k] = Null THEN Default[k] ELSE u[k]
  <2>1. CASE u[k] = Null
    <3>1. k \notin DOMAIN made BY <1>3, <1>4, <1>6, <2>1
    <3>2. ~OwnedByProcess(made, k) BY <1>8, <1>9, <2>1 DEF OwnedByProcess
    <3> QED BY <1>4, <1>8, <2>1, <3>1, <3>2 DEF Settings, Value
  <2>2. CASE u[k] # Null
    <3>1. k \in DOMAIN made /\ made[k] = u[k] BY <1>3, <1>4, <1>6, <1>7, <2>2
    <3>2. ~OwnedByProcess(made, k) BY <1>7, <1>9, <3>1 DEF OwnedByProcess, Gives
    <3> QED BY <1>4, <1>7, <2>2, <3>1, <3>2 DEF Settings, Value
  <2> QED BY <2>1, <2>2
<1> QED BY <1>1, <1>3, <1>4, <1>8, <1>10 DEF u

\* What is not announced to need a restart is what it was.
LEMMA UnannouncedStays ==
    ASSUME NEW r, IsRequest(r), NEW k \in NeedsRestart, k \notin r.pending
    PROVE  Settings(r.target)[k] = Settings(r.from)[k]
<1>1. k \in SettingsKeys BY DEF NeedsRestart, SettingsKeys
<1>2. CASE k \notin DOMAIN EffectiveIn(r.from, r.updates)
  BY <1>1, <1>2, UnaskedStays DEF IsRequest
<1>3. CASE k \in DOMAIN EffectiveIn(r.from, r.updates)
  <2>1. r.updates[k] = Settings(r.from)[k] BY <1>3 DEF IsRequest, PendingIn
  <2>2. k # "MODEL" BY DEF NeedsRestart
  <2> QED BY <1>3, <2>1, <2>2, AskedIsMade
<1> QED BY <1>2, <1>3

LEMMA RequestsAreKept == ASSUME RequestsInv PROVE AppliedIsKept
<1> SUFFICES ASSUME granted # NoRequest PROVE AppliedIsKept
  BY DEF AppliedIsKept
<1> DEFINE u == granted.updates
           from == granted.from
           given == EffectiveIn(from, u)
           gone == GoneIn(from, u)
<1>1. /\ IsRequest(granted) /\ managed = TargetIn(from, u)
      /\ IsCurrent(from) /\ Valid(from) /\ Valid(managed)
      /\ u \in Submissions /\ ~Refused(u) /\ granted.keys = DOMAIN u
  BY DEF RequestsInv, IsRequest
<1>2. Contents(from) = from /\ from["SCHEMA"] = "1" BY <1>1 DEF Contents, IsCurrent
<1>3. /\ \A k : k \in DOMAIN given <=> k \in DOMAIN u /\ ~SkippedIn(from, k, u[k])
      /\ \A k : k # "SCHEMA" =>
            (k \in DOMAIN managed <=>
               /\ k \notin gone
               /\ \/ k \in DOMAIN given
                  \/ k \in DOMAIN from /\ (k \in Known => from[k] # Blank))
      /\ \A k \in DOMAIN managed : k # "SCHEMA" =>
            managed[k] = IF k \in DOMAIN given THEN u[k] ELSE from[k]
      /\ IsCurrent(managed)
  BY <1>1, <1>2, RequestIsKept
<1>4. \A k : k \in gone <=> /\ k \in DOMAIN given
                            /\ \/ given[k] = Null
                               \/ k \in Nullable /\ given[k] = Blank
  BY DEF GoneIn
<1>5. \A k \in DOMAIN given : given[k] = u[k]
  BY DEF EffectiveIn, RestrictDomain, Restrict
<1>6. managed["SCHEMA"] = "1" BY <1>3 DEF IsCurrent
<1> HIDE DEF given, gone, from, u
<1>7. ASSUME NEW k \in AllKeys \ {"SCHEMA"}
      PROVE  \/ k \in granted.keys /\ k \in Fields
             \/ k \in DOMAIN managed <=> k \in DOMAIN from /\ (k \in Known => from[k] # Blank)
  BY <1>1, <1>3, <1>4 DEF SkippedIn
<1>8. ASSUME NEW k \in DOMAIN managed \cap DOMAIN from, k \notin granted.keys
      PROVE  managed[k] = from[k]
  BY <1>1, <1>2, <1>3, <1>6, <1>8
<1>9. ASSUME NEW k \in DOMAIN u \cap Fields
      PROVE  IF \/ OwnedByProcess(from, k)
                \/ k \in Secret /\ u[k] \in {Masked, Blank}
             THEN Settings(managed)[k] = Settings(from)[k]
             ELSE Settings(managed)[k] = IF u[k] = Null THEN Default[k] ELSE u[k]
  <2>0. k \in SettingsKeys BY <1>9 DEF Fields
  <2>1. CASE OwnedByProcess(from, k) \/ (k \in Secret /\ u[k] \in {Masked, Blank})
    <3>1. k \notin DOMAIN EffectiveIn(from, u) BY <1>3, <2>1 DEF SkippedIn, given
    <3> QED BY <1>1, <2>0, <2>1, <3>1, UnaskedStays
  <2>2. CASE ~(OwnedByProcess(from, k) \/ (k \in Secret /\ u[k] \in {Masked, Blank}))
    <3>1. k \in DOMAIN EffectiveIn(granted.from, granted.updates)
      BY <1>3, <1>9, <2>2 DEF SkippedIn, given, from, u
    <3>2. managed = granted.target BY DEF RequestsInv
    <3> QED BY <1>1, <2>2, <3>1, <3>2, AskedIsMade DEF u
  <2> QED BY <2>1, <2>2
<1>10. ASSUME NEW k \in granted.keys \cap Fields
       PROVE  LET new == granted.updates[k] IN
              IF \/ /\ k \in DOMAIN process
                    /\ k # "TOKEN" \/ (Gives(process, k) /\ ~Gives(granted.from, k))
                 \/ k \in Secret /\ new \in {Masked, Blank}
              THEN Settings(managed)[k] = Settings(granted.from)[k]
              ELSE Settings(managed)[k] = IF new = Null THEN Default[k] ELSE new
  <2>1. OwnedByProcess(from, k) <=>
           k \in DOMAIN process /\ (k # "TOKEN" \/ (Gives(process, k) /\ ~Gives(from, k)))
    BY DEF OwnedByProcess, Gives
  <2>2. k \in DOMAIN u \cap Fields BY <1>1
  <2> QED BY <1>9, <2>1, <2>2 DEF from, u
<1> QED BY <1>7, <1>8, <1>10 DEF AppliedIsKept, from

-----------------------------------------------------------------------------
LEMMA WordsAreFiles ==
    ASSUME OriginsTyped, explicit # Broken, NEW k \in SettingsKeys
    PROVE  LET f == LastWord(k) IN
           /\ Says(f, k) <=> Tells(WordOf(first, k), k)
           /\ Says(f, k) => Survives(f, k) = Survives(WordOf(first, k), k)
           /\ f \in {first, base, explicit}
<1>0. \A f : f = NoFile => ~Says(f, k) /\ ~Tells(Contents(f), k)
  BY DEF Says, IsFile, Tells, Contents
<1>1. \A f : f \notin {NoFile, Broken} =>
             Contents(f) = f /\ (Says(f, k) <=> Tells(f, k))
  BY DEF Says, IsFile, Tells, Contents
<1>2. first # Broken /\ base # Broken BY DEF OriginsTyped
<1> QED BY <1>0, <1>1, <1>2 DEF LastWord, WordOf

LEMMA ConsolidationHolds ==
    ASSUME OriginsTyped, explicit # Broken, managed = ConsolidatedFrom(first)
    PROVE  /\ \A k \in SettingsKeys \ {"AUTH"} :
                 LET f == LastWord(k) IN
                 IF Says(f, k) /\ ~Lost(f, k) /\ Said(f, k) # Blank
                 THEN k \in DOMAIN managed /\ managed[k] = Said(f, k)
                 ELSE k \notin DOMAIN managed
           /\ first # NoFile /\ "CUSTOM" \in DOMAIN first => "CUSTOM" \in DOMAIN managed
           /\ DOMAIN managed \cap Retired = {}
<1>1. /\ \A k \in SettingsKeys \ {"AUTH"} :
            /\ k \in DOMAIN managed <=>
                  k \in DOMAIN KeptWords(first) /\ KeptWords(first)[k] # Blank
            /\ k \in DOMAIN managed => managed[k] = KeptWords(first)[k]
      /\ "CUSTOM" \in DOMAIN KeptWords(first) => "CUSTOM" \in DOMAIN managed
      /\ DOMAIN managed \cap Retired = {}
  BY ConsolidatedIs
<1>2. ASSUME NEW k \in SettingsKeys \ {"AUTH"}
      PROVE  IF /\ Says(LastWord(k), k) /\ ~Lost(LastWord(k), k)
                /\ Said(LastWord(k), k) # Blank
             THEN k \in DOMAIN managed /\ managed[k] = Said(LastWord(k), k)
             ELSE k \notin DOMAIN managed
  <2>1. /\ k \in DOMAIN KeptWords(first) <=> Tells(WordOf(first, k), k)
        /\ Tells(WordOf(first, k), k) => KeptWords(first)[k] = Survives(WordOf(first, k), k)
    BY KeptWordsAre
  <2>2. /\ Says(LastWord(k), k) <=> Tells(WordOf(first, k), k)
        /\ Says(LastWord(k), k) =>
              Survives(LastWord(k), k) = Survives(WordOf(first, k), k)
    BY WordsAreFiles
  <2> QED BY <1>1, <2>1, <2>2 DEF Survives
<1> QED BY <1>1, <1>2, KeptWordsAre

\* Who is asked for a token after a consolidation.
LEMMA FlagIsKept ==
    ASSUME OriginsTyped, explicit # Broken, managed = ConsolidatedFrom(first)
    PROVE  LET flag == IF "AUTH" \in DOMAIN process THEN process["AUTH"]
                       ELSE IF Says(LastWord("AUTH"), "AUTH")
                            THEN Said(LastWord("AUTH"), "AUTH") ELSE "unset"
               token == IF Says(LastWord("TOKEN"), "TOKEN")
                        THEN Said(LastWord("TOKEN"), "TOKEN")
                        ELSE IF "TOKEN" \in DOMAIN process THEN process["TOKEN"] ELSE Blank
           IN  /\ flag \in {"true", "false", Blank, "unset"}
               /\ flag \in {"true", "false"} => Value(managed, "AUTH") = flag
               /\ flag = Blank => Value(managed, "AUTH") = "true"
               /\ flag = "unset" =>
                     Value(managed, "AUTH") =
                        IF token # Blank \/ (first = NoFile /\ base = NoFile
                                             /\ ~Says(explicit, "TOKEN"))
                        THEN "true" ELSE "false"
<1> DEFINE flag == IF "AUTH" \in DOMAIN process THEN process["AUTH"]
                   ELSE IF Says(LastWord("AUTH"), "AUTH")
                        THEN Said(LastWord("AUTH"), "AUTH") ELSE "unset"
           token == IF Says(LastWord("TOKEN"), "TOKEN")
                    THEN Said(LastWord("TOKEN"), "TOKEN")
                    ELSE IF "TOKEN" \in DOMAIN process THEN process["TOKEN"] ELSE Blank
           kept == KeptWords(first)
           auth == AuthState(kept, HadState(first))
<1>0. "AUTH" \in SettingsKeys /\ "TOKEN" \in SettingsKeys BY DEF SettingsKeys
<1>1. Value(managed, "AUTH") = IF "AUTH" \in DOMAIN process THEN process["AUTH"]
                               ELSE IF "AUTH" \in DOMAIN auth THEN auth["AUTH"]
                               ELSE IF Gives(kept, "AUTH") THEN kept["AUTH"] ELSE "true"
  BY ConsolidatedIs
<1>2. \A k \in {"AUTH", "TOKEN"} :
         /\ k \in DOMAIN kept <=> Says(LastWord(k), k)
         /\ k \in DOMAIN kept => kept[k] = Said(LastWord(k), k)
  BY <1>0, KeptWordsAre, WordsAreFiles DEF Survives, Lost
<1>3. "AUTH" \in DOMAIN kept => kept["AUTH"] \in {Blank, "true", "false"}
  <2>1. SUFFICES ASSUME "AUTH" \in DOMAIN kept PROVE kept["AUTH"] \in {Blank, "true", "false"}
    OBVIOUS
  <2> DEFINE f == LastWord("AUTH")
  <2>2. f \in {first, base, explicit} BY <1>0, WordsAreFiles
  <2>3. Says(f, "AUTH") BY <1>2, <2>1
  <2>4. "AUTH" \in DOMAIN f BY <2>3 DEF Says
  <2>5. Said(f, "AUTH") = f["AUTH"] BY <2>4 DEF Said
  <2> QED BY <1>2, <2>1, <2>2, <2>4, <2>5 DEF OriginsTyped, AuthTyped
<1>4. "AUTH" \in DOMAIN process => process["AUTH"] \in {"true", "false"}
  BY DEF OriginsTyped, AuthTyped
<1>5. HadState(first) <=> ~(first = NoFile /\ base = NoFile) BY DEF HadState
<1>6. "AUTH" \notin DOMAIN process /\ "AUTH" \notin DOMAIN kept /\ "TOKEN" \in DOMAIN kept =>
         "AUTH" \in DOMAIN auth /\ auth["AUTH"] = IF kept["TOKEN"] # Blank THEN "true" ELSE "false"
  BY DEF AuthState
<1>7. "AUTH" \notin DOMAIN process /\ "AUTH" \notin DOMAIN kept /\ "TOKEN" \notin DOMAIN kept =>
         /\ Gives(process, "TOKEN") => "AUTH" \in DOMAIN auth /\ auth["AUTH"] = "true"
         /\ ~Gives(process, "TOKEN") /\ HadState(first) =>
               "AUTH" \in DOMAIN auth /\ auth["AUTH"] = "false"
         /\ ~Gives(process, "TOKEN") /\ ~HadState(first) => "AUTH" \notin DOMAIN auth
  BY DEF AuthState
<1>8. "AUTH" \in DOMAIN process \cup DOMAIN kept => "AUTH" \notin DOMAIN auth
  BY DEF AuthState
<1> HIDE DEF kept, auth
<1>9. CASE "AUTH" \in DOMAIN process BY <1>1, <1>4, <1>9 DEF Blank
<1>10. CASE "AUTH" \notin DOMAIN process /\ "AUTH" \in DOMAIN kept
  BY <1>1, <1>2, <1>3, <1>8, <1>10 DEF Blank, Gives
<1>11. CASE "AUTH" \notin DOMAIN process /\ "AUTH" \notin DOMAIN kept
  <2>1. flag = "unset" BY <1>2, <1>11
  <2>2. Value(managed, "AUTH") = IF "AUTH" \in DOMAIN auth THEN auth["AUTH"] ELSE "true"
    BY <1>1, <1>11 DEF Gives
  <2>3. CASE "TOKEN" \in DOMAIN kept
    <3>1. token = kept["TOKEN"] BY <1>2, <2>3
    <3>2. ~(token = Blank /\ first = NoFile /\ base = NoFile /\ ~Says(explicit, "TOKEN"))
      BY <1>2, <2>3 DEF LastWord, Says, IsFile
    <3> QED BY <1>6, <1>11, <2>1, <2>2, <2>3, <3>1, <3>2 DEF Blank
  <2>4. CASE "TOKEN" \notin DOMAIN kept
    <3>1. token # Blank <=> Gives(process, "TOKEN") BY <1>2, <2>4 DEF Gives
    <3>2. ~Says(explicit, "TOKEN") BY <1>2, <2>4 DEF LastWord
    <3> QED BY <1>5, <1>7, <1>11, <2>1, <2>2, <2>4, <3>1, <3>2 DEF Blank
  <2> QED BY <2>3, <2>4
<1> QED BY <1>9, <1>10, <1>11

LEMMA ConfigInvKeeps == ASSUME ConfigInv PROVE ConfigIsKept
<1> USE DEF ConfigInv
<1>1. ASSUME stage = "serving", granted = NoRequest, ~IsCurrent(first)
      PROVE  /\ explicit # Broken /\ managed = ConsolidatedFrom(first)
             /\ live["AUTH"] = Settings(managed)["AUTH"]
  BY <1>1 DEF ServingInv, ServerInv, FirstInv, NeedsRestart
<1>2. ConsolidationKeeps BY <1>1, ConsolidationHolds DEF ConsolidationKeeps
<1>3. AuthIsKept
  <2>1. SUFFICES ASSUME stage = "serving", granted = NoRequest, ~IsCurrent(first)
                 PROVE  AuthIsKept
    BY DEF AuthIsKept
  <2>2. live["AUTH"] = Value(managed, "AUTH") BY <1>1, <2>1 DEF Settings, SettingsKeys
  <2> QED BY <1>1, <2>1, <2>2, FlagIsKept DEF AuthIsKept, Blank
<1>4. OthersAreInert
  <2>1. SUFFICES ASSUME granted = NoRequest PROVE OthersAreInert BY DEF OthersAreInert
  <2>2. CASE managed = first BY <2>2 DEF OthersAreInert
  <2>3. CASE managed # first
    <3>1. ~IsCurrent(first) /\ stage # "new" /\ managed = ConsolidatedFrom(first)
      BY <2>1, <2>3 DEF FirstInv
    <3>2. IsCurrent(managed) BY <3>1, ConsolidatedIs
    <3> QED BY <3>1, <3>2 DEF OthersAreInert
  <2> QED BY <2>2, <2>3
<1>5. AppliedIsKept BY RequestsAreKept
<1>6. AppliedIsLive BY DEF ServingInv, RuntimeInv, ServerInv, AppliedIsLive
<1> QED BY <1>2, <1>3, <1>4, <1>5, <1>6 DEF ConfigIsKept

-----------------------------------------------------------------------------
LEMMA FilesAreTyped ==
    ASSUME NEW place \in DOMAIN Assigned, NEW those \in SUBSET Assignments
    PROVE  LET f == FileOf(place, those) IN
           /\ f = NoFile \/ \A k \in DOMAIN f : k \in DOMAIN Assigned[place] /\ f[k] \in Assigned[place][k]
<1> DEFINE own == { a \in those : a[1] = place }
           f == FileOf(place, those)
<1>1. \A a \in own : a[2] \in DOMAIN Assigned[place] /\ a[3] \in Assigned[place][a[2]]
  <2>1. TAKE a \in own
  <2>2. a \in Assignments /\ a[1] = place OBVIOUS
  <2>3. PICK p \in DOMAIN Assigned :
           \E key \in DOMAIN Assigned[p] : \E v \in Assigned[p][key] : a = <<p, key, v>>
    BY <2>2 DEF Assignments
  <2>5. PICK key \in DOMAIN Assigned[p] : \E v \in Assigned[p][key] : a = <<p, key, v>>
    BY <2>3
  <2>6. PICK v \in Assigned[p][key] : a = <<p, key, v>> BY <2>5
  <2>4. a[1] = p /\ a[2] = key /\ a[3] = v BY <2>6
  <2> QED BY <2>2, <2>3, <2>4
<1>2. CASE own = {} BY <1>2 DEF FileOf
<1>3. CASE own # {}
  <2>1. f = [k \in { a[2] : a \in own } |-> (CHOOSE a \in own : a[2] = k)[3]]
    BY <1>3 DEF FileOf
  <2>2. ASSUME NEW k \in { a[2] : a \in own }
        PROVE  /\ k \in DOMAIN Assigned[place]
               /\ (CHOOSE a \in own : a[2] = k)[3] \in Assigned[place][k]
    <3>1. (CHOOSE a \in own : a[2] = k) \in own /\ (CHOOSE a \in own : a[2] = k)[2] = k
      <4>1. \E a \in own : a[2] = k OBVIOUS
      <4> HIDE DEF own
      <4> QED BY <4>1
    <3> HIDE DEF own
    <3> QED BY <1>1, <3>1
  <2> HIDE DEF own, f
  <2> QED BY <2>1, <2>2 DEF f
<1> QED BY <1>2, <1>3

LEMMA ConfigInitInv == ConfigInit => ConfigInv
<1> SUFFICES ASSUME ConfigInit PROVE ConfigInv OBVIOUS
<1>1. PICK picked \in [1..MaxAssigned -> Assignments \cup {NoAssignment}] :
        LET those == Range(picked) \ {NoAssignment} IN
        /\ managed = FileOf("managed", those)
        /\ base = FileOf("base", those)
        /\ explicit \in {FileOf("explicit", those), Broken}
        /\ process = Contents(FileOf("process", those))
        /\ first = managed
        /\ stage = "new" /\ due = FALSE /\ told = {}
        /\ applying = NoRequest /\ granted = NoRequest
  BY DEF ConfigInit, ConfigStarts
<1> DEFINE those == Range(picked) \ {NoAssignment}
<1>2. those \in SUBSET Assignments BY <1>1 DEF Range
<1> HIDE DEF those
<1>3. \A place \in DOMAIN Assigned :
        LET f == FileOf(place, those)
        IN  f = NoFile \/ \A k \in DOMAIN f : k \in DOMAIN Assigned[place] /\ f[k] \in Assigned[place][k]
  BY <1>2, FilesAreTyped
<1>4. /\ DOMAIN Assigned = {"managed", "base", "explicit", "process"}
      /\ Assigned["process"]["AUTH"] = {"false"}
      /\ \A p \in {"managed", "base", "explicit"} : Assigned[p]["AUTH"] = {Blank, "true", "false"}
      /\ \A p \in DOMAIN Assigned : "broken" \notin DOMAIN Assigned[p]
  BY DEF Assigned, FileValues
<1>5. "AUTH" \notin DOMAIN NoFile /\ "AUTH" \notin DOMAIN Broken /\ "broken" \in DOMAIN Broken
      /\ NoFile # Broken
  BY DEF NoFile, Broken
<1>6. \A p \in {"managed", "base", "explicit"} :
         AuthTyped(FileOf(p, those)) /\ FileOf(p, those) # Broken
  BY <1>3, <1>4, <1>5 DEF AuthTyped
<1>7. "AUTH" \in DOMAIN process => process["AUTH"] = "false"
  <2> DEFINE F == FileOf("process", those)
  <2>1. process = Contents(F) BY <1>1 DEF those
  <2>2. F = NoFile \/ \A k \in DOMAIN F : F[k] \in Assigned["process"][k] BY <1>3, <1>4
  <2> HIDE DEF F
  <2>3. CASE F = NoFile
    <3>1. process = << >> BY <2>1, <2>3 DEF Contents
    <3>2. "AUTH" \notin DOMAIN process BY <3>1
    <3> QED BY <3>2
  <2>4. CASE F # NoFile
    <3>1. process = F BY <2>1, <2>4 DEF Contents
    <3> QED BY <1>4, <2>2, <2>4, <3>1
  <2> QED BY <2>3, <2>4
<1>8. OriginsTyped
  BY <1>1, <1>5, <1>6, <1>7 DEF OriginsTyped, AuthTyped, Blank, those
<1> QED BY <1>1, <1>8 DEF ConfigInv, ServingInv, RequestsInv, FirstInv

\* The origins stay, and what is made of them.
LEMMA OriginsStay ==
    ASSUME UNCHANGED << base, explicit, process, first >>
    PROVE  /\ OriginsTyped' <=> OriginsTyped
           /\ \A f : Settings(f)' = Settings(f)
           /\ \A f : Valid(f)' <=> Valid(f)
           /\ \A f : ConsolidatedFrom(f)' = ConsolidatedFrom(f)
           /\ \A r : IsRequest(r)' <=> IsRequest(r)
<1>1. OriginsTyped' <=> OriginsTyped BY DEF OriginsTyped, AuthTyped
<1>2. \A f, k : OwnedByProcess(f, k)' <=> OwnedByProcess(f, k) BY DEF OwnedByProcess, Gives
<1>3. ASSUME NEW f, NEW k PROVE Value(f, k)' = Value(f, k)
  BY <1>2 DEF Value
<1>4. ASSUME NEW f PROVE Settings(f)' = Settings(f) BY <1>3 DEF Settings
<1>5. ASSUME NEW f PROVE Valid(f)' <=> Valid(f) BY <1>4 DEF Valid
<1>6. ASSUME NEW f PROVE ConsolidatedFrom(f)' = ConsolidatedFrom(f)
  <2>1. KeptWords(f)' = KeptWords(f)
    <3>1. Contents(explicit)' = Contents(explicit) /\ Contents(base)' = Contents(base)
      BY DEF Contents
    <3> QED BY <3>1 DEF KeptWords, OwnWords
  <2>2. HadState(f)' = HadState(f) BY DEF HadState
  <2>3. \A v, h : AuthState(v, h)' = AuthState(v, h) BY DEF AuthState, Gives
  <2> QED BY <2>1, <2>2, <2>3 DEF ConsolidatedFrom
<1>7. ASSUME NEW f, NEW u
      PROVE  TargetIn(f, u)' = TargetIn(f, u) /\ PendingIn(f, u)' = PendingIn(f, u)
  <2>1. \A k, v : SkippedIn(f, k, v)' <=> SkippedIn(f, k, v) BY <1>2 DEF SkippedIn
  <2>2. EffectiveIn(f, u)' = EffectiveIn(f, u)
    BY <2>1 DEF EffectiveIn, RestrictDomain, Restrict
  <2>3. GoneIn(f, u)' = GoneIn(f, u) BY <2>2 DEF GoneIn
  <2> QED BY <1>4, <2>2, <2>3 DEF TargetIn, PendingIn
<1>8. ASSUME NEW r PROVE IsRequest(r)' <=> IsRequest(r)
  BY <1>5, <1>7 DEF IsRequest, IsCurrent, Refused
<1> QED BY <1>1, <1>4, <1>5, <1>6, <1>8

\* A value read in a step as it was before it.
LEMMA ValidStays ==
    ASSUME UNCHANGED << base, explicit, process, first >>, NEW f
    PROVE  /\ managed' = f => (Valid(managed)' <=> Valid(f)) /\ Settings(managed)' = Settings(f)
<1>1. ASSUME managed' = f PROVE Settings(managed)' = Settings(f)'
  BY <1>1 DEF Settings, Value, OwnedByProcess, Gives
<1>2. ASSUME managed' = f PROVE Valid(managed)' <=> Valid(f)'
  BY <1>1, <1>2 DEF Valid
<1> QED BY <1>1, <1>2, OriginsStay

LEMMA RequestStays ==
    ASSUME UNCHANGED << base, explicit, process, first >>, NEW r, IsRequest(r)
    PROVE  /\ applying' = r => IsRequest(applying)'
           /\ granted' = r => IsRequest(granted)'
<1>1. IsRequest(r)' BY OriginsStay
<1>2. ASSUME applying' = r PROVE IsRequest(applying)'
  BY <1>1, <1>2 DEF IsRequest, Valid, TargetIn
<1>3. ASSUME granted' = r PROVE IsRequest(granted)'
  BY <1>1, <1>3 DEF IsRequest, Valid, TargetIn
<1> QED BY <1>2, <1>3

LEMMA MadeStays ==
    ASSUME UNCHANGED << base, explicit, process, first >>
    PROVE  ConsolidatedFrom(first)' = ConsolidatedFrom(first)
BY OriginsStay DEF ConsolidatedFrom, KeptWords, OwnWords, HadState

\* Before the first request the file is the one of the beginning or was made of it.
LEMMA FirstIsMade ==
    ASSUME ConfigInv, granted = NoRequest, ~IsCurrent(managed)
    PROVE  managed = first
BY ConsolidatedIs DEF ConfigInv, FirstInv

\* What serves is judged by the file that is there.
LEMMA ServingStays ==
    ASSUME UNCHANGED << base, explicit, process, first >>, NEW f, managed' = f,
           IsCurrent(f), Valid(f),
           \A k \in SettingsKeys \ NeedsRestart :
               live'[k] = Settings(f)[k] \/ due' \/ pendingFields' # {},
           \A k \in NeedsRestart :
               (live'[k] = Settings(f)[k] /\ bound'[k] = Settings(f)[k]) \/ due' \/ k \in told'
    PROVE  ServingInv'
<1>1. Settings(managed)' = Settings(f) /\ Valid(managed)' BY ValidStays
<1>2. RuntimeInv' /\ ServerInv' BY <1>1 DEF RuntimeInv, ServerInv
<1>3. IsCurrent(managed)' BY DEF IsCurrent
<1> QED BY <1>1, <1>2, <1>3 DEF ServingInv

\* Nothing of what it is judged by changes.
LEMMA ServingFrame ==
    ASSUME UNCHANGED << base, explicit, process, first, managed, stage, serverVars >>, ServingInv
    PROVE  ServingInv'
<1>1. CASE stage = "serving"
  BY <1>1, ServingStays DEF serverVars, ServingInv, RuntimeInv, ServerInv
<1>2. CASE stage # "serving" BY <1>2 DEF ServingInv
<1> QED BY <1>1, <1>2

LEMMA LoadInv ==
    ASSUME UNCHANGED << base, explicit, process, first >>, NEW f, IsCurrent(f), Load(f)
    PROVE  ServingInv'
<1>1. CASE Valid(f)
  <2>1. managed' = f /\ live' = Settings(f) /\ bound' = Captured(Settings(f))
    BY <1>1 DEF Load
  <2>2. \A k \in NeedsRestart : Captured(Settings(f))[k] = Settings(f)[k]
    BY DEF Captured, RestrictDomain, Restrict, Settings, NeedsRestart, SettingsKeys
  <2> QED BY <1>1, <2>1, <2>2, ServingStays
<1>2. CASE ~Valid(f) BY <1>2 DEF Load, ServingInv
<1> QED BY <1>1, <1>2

LEMMA StartInv == ASSUME ConfigInv, Start PROVE ConfigInv'
<1>1. UNCHANGED << base, explicit, process, first, granted, applying >> BY DEF Start, origins
<1>2. applying = NoRequest BY DEF Start, ConfigInv, RequestsInv
<1>3. OriginsTyped' BY <1>1, OriginsStay DEF ConfigInv
<1>4. managed' = managed => RequestsInv'
  BY <1>1, <1>2, OriginsStay DEF ConfigInv, RequestsInv
<1>5. CASE IsCurrent(managed) /\ Load(managed)
  <2>1. managed' = managed /\ UNCHANGED << due, told >> /\ stage' # "new" BY <1>5 DEF Load
  <2>2. ServingInv' BY <1>1, <1>5, LoadInv
  <2>3. FirstInv' BY <1>1, <2>1, OriginsStay DEF ConfigInv, FirstInv, IsCurrent
  <2> QED BY <1>3, <1>4, <2>1, <2>2, <2>3 DEF ConfigInv
<1>6. CASE Raise
  <2>1. managed' = managed /\ UNCHANGED << due, told >> /\ stage' = "raised"
    BY <1>6 DEF Raise, serverVars
  <2>2. FirstInv' BY <1>1, <2>1, OriginsStay DEF ConfigInv, FirstInv, IsCurrent
  <2> QED BY <1>3, <1>4, <2>1, <2>2 DEF ConfigInv, ServingInv
<1>7. CASE ~IsCurrent(managed) /\ explicit # Broken /\ Load(Consolidated)
  <2>1. granted = NoRequest
    <3>1. granted # NoRequest => IsCurrent(managed)
      BY RequestIsKept DEF ConfigInv, RequestsInv, IsRequest
    <3> QED BY <1>7, <3>1
  <2>2. managed = first BY <1>7, <2>1, FirstIsMade
  <2>3. Consolidated = ConsolidatedFrom(first)
    BY <2>2 DEF Consolidated, ConsolidatedFrom, Source, KeptWords, OwnWords, HadState
  <2>4. IsCurrent(ConsolidatedFrom(first)) BY ConsolidatedIs
  <2>5. ServingInv' BY <1>1, <1>7, <2>3, <2>4, LoadInv
  <2>6. managed' = ConsolidatedFrom(first) /\ UNCHANGED << due, told >> /\ stage' # "new"
    BY <1>7, <2>3 DEF Load
  <2>7. FirstInv'
    <3>1. ConsolidatedFrom(first)' = ConsolidatedFrom(first)
      BY <1>1, OriginsStay DEF ConsolidatedFrom, KeptWords, OwnWords, HadState
    <3> QED BY <1>1, <1>7, <2>2, <2>6, <3>1 DEF ConfigInv, FirstInv, IsCurrent
  <2>8. RequestsInv' BY <1>1, <1>2, <2>1 DEF RequestsInv
  <2> QED BY <1>3, <2>5, <2>7, <2>8 DEF ConfigInv
<1> QED BY <1>5, <1>6, <1>7 DEF Start

LEMMA PrepareInv == ASSUME ConfigInv, NEW u \in Submissions, Prepare(u) PROVE ConfigInv'
<1>1. UNCHANGED << managed, base, explicit, process, first, stage, live, bound,
                   pendingFields, due, told, granted >>
  BY DEF Prepare, origins, serverVars
<1>2. OriginsTyped' /\ ServingInv' /\ FirstInv'
  <2>1. ServingInv'
    BY <1>1, ServingFrame DEF ConfigInv, serverVars
  <2>2. FirstInv'
    <3>1. ConsolidatedFrom(first)' = ConsolidatedFrom(first)
      BY <1>1 DEF ConsolidatedFrom, KeptWords, OwnWords, HadState, AuthState, Contents, Gives
    <3> QED BY <1>1, <3>1 DEF ConfigInv, FirstInv, IsCurrent
  <2> QED BY <1>1, <2>1, <2>2, OriginsStay DEF ConfigInv
<1>3. RequestsInv'
  <2>1. granted' # NoRequest => IsRequest(granted)' /\ managed' = granted'.target
    <3>1. IsRequest(granted)' <=> IsRequest(granted)
      BY <1>1, OriginsStay DEF IsRequest, TargetIn, Valid
    <3> QED BY <1>1, <3>1 DEF ConfigInv, RequestsInv
  <2>2. applying' # NoRequest =>
           stage' = "serving" /\ IsRequest(applying)' /\ applying'.from = managed'
    <3>1. SUFFICES ASSUME applying' # NoRequest
                   PROVE  stage' = "serving" /\ IsRequest(applying)' /\ applying'.from = managed'
      OBVIOUS
    <3>2. /\ ~Refused(u) /\ Valid(Target(u)) /\ stage = "serving"
          /\ applying' = [keys |-> DOMAIN u, updates |-> u, from |-> managed,
                          target |-> Target(u), pending |-> Pending(u)]
      BY <3>1 DEF Prepare
    <3> DEFINE r == [keys |-> DOMAIN u, updates |-> u, from |-> managed,
                     target |-> Target(u), pending |-> Pending(u)]
    <3>3. /\ r.keys = DOMAIN u /\ r.updates = u /\ r.from = managed /\ r.target = Target(u)
          /\ r.pending = Pending(u) /\ applying' = r
      BY <3>2
    <3> HIDE DEF r
    <3>4. Target(u) = TargetIn(managed, u)
      BY DEF Target, TargetIn, Effective, EffectiveIn, GoneIn, Skipped, SkippedIn,
             RestrictDomain, Restrict
    <3>5. Pending(u) = PendingIn(managed, u)
      BY DEF Pending, PendingIn, Effective, EffectiveIn, Skipped, SkippedIn,
             RestrictDomain, Restrict
    <3>7. IsRequest(r)
      BY <3>2, <3>3, <3>4, <3>5 DEF IsRequest, ConfigInv, ServingInv
    <3>6. IsRequest(applying)' BY <1>1, <3>3, <3>7, RequestStays
    <3> QED BY <1>1, <3>2, <3>3, <3>6
  <2> QED BY <2>1, <2>2 DEF RequestsInv
<1> QED BY <1>2, <1>3 DEF ConfigInv

LEMMA CommitInv == ASSUME ConfigInv, Commit PROVE ConfigInv'
<1>1. /\ UNCHANGED << base, explicit, process, first, stage >>
      /\ applying # NoRequest /\ applying' = NoRequest
  BY DEF Commit, origins
<1>2. /\ stage = "serving" /\ IsRequest(applying) /\ applying.from = managed
      /\ IsCurrent(applying.target) /\ Valid(applying.target)
  <2>1. IsRequest(applying) BY <1>1 DEF ConfigInv, RequestsInv
  <2>2. IsCurrent(applying.target) BY <2>1, RequestIsKept DEF IsRequest
  <2> QED BY <1>1, <2>1, <2>2 DEF ConfigInv, RequestsInv, IsRequest
<1>3. OriginsTyped' BY <1>1, OriginsStay DEF ConfigInv
<1>4. ASSUME Written, ServingInv' PROVE ConfigInv'
  <2>1. managed' = applying.target /\ granted' = applying BY <1>4 DEF Written
  <2>2. IsRequest(granted)' BY <1>1, <1>2, <2>1, RequestStays
  <2>3. RequestsInv' BY <1>1, <2>1, <2>2 DEF RequestsInv
  <2>4. FirstInv' BY <1>1, <2>1 DEF FirstInv
  <2> QED BY <1>3, <1>4, <2>3, <2>4 DEF ConfigInv
\* What the server has of a setting that needs no restart for it.
<1>5. ASSUME NEW k \in NeedsRestart, k \notin applying.pending
      PROVE  \/ live[k] = Settings(applying.target)[k] /\ bound[k] = Settings(applying.target)[k]
             \/ due \/ k \in told
  <2>1. Settings(applying.target)[k] = Settings(managed)[k]
    BY <1>2, <1>5, UnannouncedStays
  <2> QED BY <1>2, <2>1 DEF ConfigInv, ServingInv, ServerInv
<1>6. CASE Announces
  <2>1. /\ Written /\ applying.pending # {} /\ UNCHANGED << live, bound >>
        /\ told' = told \cup applying.pending
        /\ due => due'
        /\ (due' \/ pendingFields' # {})
    BY <1>6 DEF Announces
  <2>2. ServingInv' BY <1>1, <1>2, <1>5, <2>1, ServingStays DEF Written
  <2> QED BY <1>4, <2>1, <2>2
<1>7. CASE Replaces
  <2>1. /\ Written /\ applying.pending = {} /\ live' = Settings(applying.target)
        /\ UNCHANGED << bound, due, told >>
    BY <1>7 DEF Replaces
  <2>2. ServingInv' BY <1>1, <1>2, <1>5, <2>1, ServingStays DEF Written
  <2> QED BY <1>4, <2>1, <2>2
<1>8. CASE Fails
  <2>1. UNCHANGED << managed, live, bound, pendingFields, due, told, granted >>
    BY <1>8 DEF Fails, serverVars
  <2>2. ServingInv' BY <1>1, <2>1, ServingFrame DEF ConfigInv, serverVars
  <2>3. RequestsInv' BY <1>1, <2>1, RequestStays DEF ConfigInv, RequestsInv
  <2>4. FirstInv' BY <1>1, <2>1, MadeStays DEF ConfigInv, FirstInv, IsCurrent
  <2> QED BY <1>3, <2>2, <2>3, <2>4 DEF ConfigInv
<1> QED BY <1>6, <1>7, <1>8 DEF Commit

LEMMA GoneInv == ASSUME ConfigInv, Gone, granted # NoRequest PROVE ConfigInv'
<1>1. /\ UNCHANGED << base, explicit, process, first, managed, applying, granted >>
      /\ stage' = "new" /\ applying = NoRequest
  BY DEF Gone, origins
<1>2. OriginsTyped' BY <1>1, OriginsStay DEF ConfigInv
<1>3. RequestsInv' BY <1>1, RequestStays DEF ConfigInv, RequestsInv
<1> QED BY <1>1, <1>2, <1>3 DEF ConfigInv, ServingInv, FirstInv

LEMMA ConfigStepInv == ConfigInv /\ [ConfigNext]_configVars => ConfigInv'
<1> SUFFICES ASSUME ConfigInv, [ConfigNext]_configVars PROVE ConfigInv' OBVIOUS
<1>1. CASE Start BY <1>1, StartInv
<1>2. CASE \E u \in Submissions : Prepare(u) BY <1>2, PrepareInv
<1>3. CASE Commit BY <1>3, CommitInv
<1>4. CASE Restarted BY <1>4, GoneInv DEF Restarted, ConfigInv, FirstInv
<1>5. CASE Stop BY <1>5, GoneInv DEF Stop
<1>6. CASE UNCHANGED configVars
  <2>1. UNCHANGED << managed, base, explicit, process, first, stage, serverVars, due, told,
                     applying, granted >>
    BY <1>6 DEF configVars, origins, serverVars
  <2>2. ServingInv' BY <2>1, ServingFrame DEF ConfigInv
  <2>3. RequestsInv' BY <2>1, RequestStays DEF ConfigInv, RequestsInv
  <2>4. FirstInv' BY <2>1, MadeStays DEF ConfigInv, FirstInv, IsCurrent
  <2> QED BY <2>1, <2>2, <2>3, <2>4, OriginsStay DEF ConfigInv
<1> QED BY <1>1, <1>2, <1>3, <1>4, <1>5, <1>6 DEF ConfigNext

\* Whatever the files and the process say at first, and however requests, failures,
\* crashes and restarts follow: consolidation keeps what was in effect, but for the
\* one value that is Lost, and who is asked for a token, and happens once; an
\* applied request changes what it names; and what it changed is in use, or a
\* restart for it is on its way or was announced (env_migrations.py, persistence.py,
\* application.py:186-213).
THEOREM KeptConfig == ConfigSpec => []ConfigIsKept
<1>1. ConfigInit => ConfigInv BY ConfigInitInv
<1>2. ConfigInv /\ [ConfigNext]_configVars => ConfigInv' BY ConfigStepInv
<1>3. ConfigInv => ConfigIsKept BY ConfigInvKeeps
<1> QED BY <1>1, <1>2, <1>3, PTL DEF ConfigSpec
=============================================================================
