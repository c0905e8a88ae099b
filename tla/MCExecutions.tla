----------------------------- MODULE MCExecutions -----------------------------
(***************************************************************************)
(* TLC instance of the executions of a provider: the runners that share    *)
(* its admission controller, whose kinds differ, so there is no symmetry   *)
(* between sessions to use, and the stream that one of them sends.  A      *)
(* behaviour is one of the runners or one of a stream, the other rests in  *)
(* its initial state.                                                      *)
(***************************************************************************)
EXTENDS ProviderRunners, ProviderStream

CONSTANT Parts  \* the parts a run is about

VARIABLE part

ExecutionsInit ==
    /\ part \in Parts
    /\ RunnersInit /\ ProviderInit
    /\ part # "stream" => flavour = "chat"

ExecutionsNext ==
    /\ UNCHANGED part
    /\ \/ part = "runners" /\ RunnersNext /\ UNCHANGED providerVars
       \/ part = "stream" /\ ProviderNext /\ UNCHANGED vars

ExecutionsSpec == ExecutionsInit /\ [][ExecutionsNext]_<< part, vars, providerVars >>

\* The fairness of the runners is asked where the runners are at work.
FairExecutionsSpec == ExecutionsSpec /\ RunnersFairness

\* A stream stays in its ranges, each event it yields is one that may come
\* next, and its tool calls can be used.
StreamsAreSound == ProviderTypeOK /\ EventsFit /\ ToolCallsAreUsable
==============================================================================
