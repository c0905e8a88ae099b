--------------------------- MODULE ServerLifecycle ---------------------------
(***************************************************************************)
(* ApplicationRuntime (runtime/application.py) from start() to close(),    *)
(* with the Discord platform (messaging/platforms/discord.py) as its       *)
(* messaging runtime: one task owns the server and opens and closes what   *)
(* it is made of, each step of which may raise or be cancelled, while the  *)
(* client library hands in messages and the workflow runs their turns.     *)
(*                                                                         *)
(* The inner life of what is closed is modelled elsewhere (MessageTrees,   *)
(* ManagedSessions, ProviderGenerations, ConnectedAccounts).               *)
(***************************************************************************)
EXTENDS Naturals

CONSTANTS Messages,    \* the messages that come in, one handler task each
          MaxFaults    \* bound: steps that raise or are cancelled, and retries

ASSUME LifecycleAssumption == MaxFaults \in Nat

VARIABLES
    owner,      \* the step the owner's task is in
    purpose,    \* what a cleanup is for: close(), or a failed messaging start
    trouble,    \* what went wrong in the cleanup step at hand
    holds,      \* the references the runtime has not let go
    accepting,  \* _accepting_messages
    sdk,        \* the Discord client
    handler,    \* the task of each message
    turn,       \* the workflow's task for each message
    delivery,   \* the outbox and its limiter
    faults      \* what the bound has left

lifecycleVars == << owner, purpose, trouble, holds, accepting, sdk, handler,
                    turn, delivery, faults >>

platform == << accepting, sdk, handler, turn, delivery >>

Messaging == {"platform", "cli", "workflow"}
Lasting   == {"transcriber", "providers", "accounts"}

LifecycleInit ==
    /\ owner = "starting" /\ purpose = "none" /\ trouble = "none"
    /\ holds = Lasting
    /\ accepting = FALSE /\ sdk = "off"
    /\ handler = [m \in Messages |-> "none"] /\ turn = [m \in Messages |-> "none"]
    /\ delivery = "open"
    /\ faults = MaxFaults

Fault == faults > 0 /\ faults' = faults - 1

(***************************************************************************)
(* Messages and their turns.                                               *)
(***************************************************************************)

\* The client library makes a task for a message.
Dispatch(m) ==
    /\ sdk = "live" /\ handler[m] = "none"
    /\ handler' = [handler EXCEPT ![m] = "dispatched"]
    /\ UNCHANGED << owner, purpose, trouble, holds, accepting, sdk, turn, delivery, faults >>

\* The task's first step: it joins _inbound_tasks, or comes too late.
HandlerBegins(m) ==
    /\ handler[m] = "dispatched"
    /\ handler' = [handler EXCEPT ![m] = IF accepting THEN "running" ELSE "over"]
    /\ UNCHANGED << owner, purpose, trouble, holds, accepting, sdk, turn, delivery, faults >>

\* The handler ends, with or without a turn in the workflow.
HandlerEnds(m) ==
    /\ handler[m] = "running"
    /\ handler' = [handler EXCEPT ![m] = "over"]
    /\ turn' \in {turn, [turn EXCEPT ![m] = "running"]}
    /\ UNCHANGED << owner, purpose, trouble, holds, accepting, sdk, delivery, faults >>

TurnEnds(m) ==
    /\ turn[m] = "running"
    /\ turn' = [turn EXCEPT ![m] = "over"]
    /\ UNCHANGED << owner, purpose, trouble, holds, accepting, sdk, handler, delivery, faults >>

(***************************************************************************)
(* start().                                                                *)
(***************************************************************************)

\* A cleanup begins: its first step belongs to the platform, if there is one.
Cleans(what, made) ==
    /\ purpose' = what /\ trouble' = "none"
    /\ owner' = IF "platform" \in made THEN "closing client" ELSE "closing transcriber"

\* Models are cached, messaging is off.
StartsPlain ==
    /\ owner = "starting" /\ owner' = "serving"
    /\ UNCHANGED << purpose, trouble, holds, platform, faults >>

\* The messaging graph is put together, and Discord's start() begins.
Composes ==
    /\ owner = "starting" /\ owner' = "connecting"
    /\ holds' = holds \cup Messaging
    /\ accepting' = TRUE /\ sdk' = "live"
    /\ UNCHANGED << purpose, trouble, handler, turn, delivery, faults >>

\* A directory, the store or the workflow cannot be made.
CompositionFails ==
    /\ owner = "starting" /\ Fault
    /\ \E has \in {{"platform"}, {"platform", "cli"}, Messaging} :
          holds' = holds \cup has /\ Cleans("startup", has)
    /\ UNCHANGED platform

\* The client is ready; statuses are repaired and the notice is sent.
Connected ==
    /\ owner = "connecting" /\ owner' = "serving"
    /\ UNCHANGED << purpose, trouble, holds, platform, faults >>

\* The client ends, fails or is not ready in time.
ConnectFails ==
    /\ owner = "connecting" /\ Fault
    /\ Cleans("startup", holds)
    /\ UNCHANGED << holds, platform >>

\* start() fails elsewhere or is cancelled: it closes what there is.
StartAborted ==
    /\ owner \in {"starting", "connecting"} /\ Fault
    /\ Cleans("close", holds)
    /\ UNCHANGED << holds, platform >>

(***************************************************************************)
(* close(), and the cleanup of a failed messaging start.                   *)
(***************************************************************************)

\* The server shuts down, or a close that was incomplete is called again.
Close ==
    /\ \/ owner = "serving" /\ UNCHANGED faults
       \/ owner \in {"incomplete", "raised"} /\ Fault
    /\ Cleans("close", holds)
    /\ UNCHANGED << holds, platform >>

\* A cleanup step has ended without trouble.
Passes(from, to) == owner = from /\ owner' = to /\ UNCHANGED << purpose, trouble >>

\* best_effort reports a step that raised: close() returns False, and a start
\* whose messaging cannot be cleaned up fails and closes everything.  A
\* cancellation goes through best_effort; start() closes everything then, too.
GivesUp(how) ==
    IF purpose = "startup" THEN Cleans("close", holds)
    ELSE /\ owner' = IF how = "failed" THEN "incomplete" ELSE "raised"
         /\ purpose' = "none" /\ trouble' = "none"

\* quiesce(): ingress is off before anything else happens.
ClosesClient ==
    /\ owner = "closing client"
    /\ accepting' = FALSE /\ sdk' = "closed"
    /\ Passes("closing client", "draining")
    /\ UNCHANGED << holds, handler, turn, delivery, faults >>

\* Closing the client raises or is cancelled; the tasks are drained all the same.
ClientTrouble ==
    /\ owner = "closing client" /\ Fault
    /\ accepting' = FALSE /\ sdk' \in {"live", "closed"}
    /\ owner' = "draining" /\ trouble' \in {"failed", "cancelled"}
    /\ UNCHANGED << purpose, holds, handler, turn, delivery >>

\* The drain is cancelled, and the handlers with it; gather still awaits their end.
DrainCancelled ==
    /\ owner = "draining" /\ Fault
    /\ trouble' = "cancelled"
    /\ UNCHANGED << owner, purpose, holds, platform >>

\* Client and handlers have ended; delivery stays open unless they really have.
Drained ==
    /\ owner = "draining" /\ \A m \in Messages : handler[m] # "running"
    /\ IF trouble # "none" THEN GivesUp(trouble)
       ELSE owner' = "stopping turns" /\ UNCHANGED << purpose, trouble >>
    /\ UNCHANGED << holds, platform, faults >>

\* A plausible bug: the turns are cancelled but not awaited.
TurnsStop_Unawaited ==
    /\ Passes("stopping turns", "closing delivery")
    /\ holds' = holds \ {"workflow", "cli"}
    /\ UNCHANGED << platform, faults >>

\* workflow.close(): every turn is cancelled and awaited, the store flushed; or
\* the CLI sessions are stopped where there is no workflow yet.
TurnsStop ==
    /\ Passes("stopping turns", "closing delivery")
    /\ "workflow" \in holds => turn' = [m \in Messages |-> IF turn[m] = "running" THEN "over" ELSE turn[m]]
    /\ "workflow" \notin holds => UNCHANGED turn
    /\ holds' = holds \ {"workflow", "cli"}
    /\ UNCHANGED << accepting, sdk, handler, delivery, faults >>

DeliveryCloses ==
    /\ owner = "closing delivery"
    /\ delivery' = "closed"
    /\ holds' = holds \ {"platform"}
    /\ owner' = IF purpose = "startup" THEN "serving" ELSE "closing transcriber"
    /\ purpose' = IF purpose = "startup" THEN "none" ELSE purpose
    /\ UNCHANGED << trouble, accepting, sdk, handler, turn, faults >>

TranscriberCloses ==
    /\ Passes("closing transcriber", "closing providers")
    /\ holds' = holds \ {"transcriber"}
    /\ UNCHANGED << platform, faults >>

ProvidersClose ==
    /\ Passes("closing providers", "closing accounts")
    /\ holds' = holds \ {"providers"}
    /\ UNCHANGED << platform, faults >>

AccountsClose ==
    /\ owner = "closing accounts" /\ owner' = "closed"
    /\ holds' = holds \ {"accounts"} /\ purpose' = "none"
    /\ UNCHANGED << trouble, platform, faults >>

\* What the step at hand closes.
Closes ==
    CASE owner = "stopping turns"      -> {"workflow", "cli"}
      [] owner = "closing delivery"    -> {"platform"}
      [] owner = "closing transcriber" -> {"transcriber"}
      [] owner = "closing providers"   -> {"providers"}
      [] owner = "closing accounts"    -> {"accounts"}
      [] OTHER                         -> {}

\* A step raises or is cancelled: its reference stays, for the next close().
\* The outbox refuses messages from the first step of its close.
StepFails ==
    /\ Closes \cap holds # {} /\ Fault
    /\ delivery' = delivery \/ (owner = "closing delivery" /\ delivery' = "closed")
    /\ \E how \in {"failed", "cancelled"} : GivesUp(how)
    /\ UNCHANGED << holds, accepting, sdk, handler, turn >>

LifecycleNext ==
    \/ \E m \in Messages : Dispatch(m) \/ HandlerBegins(m) \/ HandlerEnds(m) \/ TurnEnds(m)
    \/ StartsPlain \/ Composes \/ CompositionFails \/ Connected \/ ConnectFails
    \/ StartAborted \/ Close
    \/ ClosesClient \/ ClientTrouble \/ DrainCancelled \/ Drained \/ TurnsStop
    \/ DeliveryCloses \/ TranscriberCloses \/ ProvidersClose \/ AccountsClose \/ StepFails

LifecycleSpec == LifecycleInit /\ [][LifecycleNext]_lifecycleVars

(***************************************************************************)
(* Properties.                                                             *)
(***************************************************************************)

\* The values the variables take while the server starts, runs and closes.
LifecycleTypeOK ==
    /\ purpose \in {"none", "startup", "close"}
    /\ trouble \in {"none", "failed", "cancelled"}
    /\ holds \subseteq Messaging \cup Lasting
    /\ accepting \in BOOLEAN /\ sdk \in {"off", "live", "closed"}
    /\ handler \in [Messages -> {"none", "dispatched", "running", "over"}]
    /\ turn \in [Messages -> {"none", "running", "over"}]
    /\ delivery \in {"open", "closed"} /\ faults \in 0..MaxFaults

Busy == \E m \in Messages : handler[m] = "running" \/ turn[m] = "running"

\* Whatever fails or is cancelled while the server starts or closes, nothing is
\* closed that a handler or a turn may still use, nothing is forgotten before
\* it is closed, and a message that came too late starts nothing
\* (application.py:474-526).
ShutdownIsOrdered ==
    /\ delivery = "closed" => ~Busy
    /\ ~(Lasting \subseteq holds) => ~Busy
    /\ Busy => {"platform", "workflow"} \subseteq holds
    /\ owner = "closed" => holds = {} /\ ~Busy
=============================================================================
