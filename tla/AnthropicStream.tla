--------------------------- MODULE AnthropicStream ---------------------------
(***************************************************************************)
(* What a generator of Anthropic events promises its consumer: each event  *)
(* may follow those before it (AnthropicEvents), a generator that returns  *)
(* has sent message_stop, and one that fails leaves no open block behind,  *)
(* so the error event that reports the failure is a legal end of it.       *)
(***************************************************************************)
EXTENDS AnthropicEvents

VARIABLES stream,     \* what the consumer has assembled from the events it got
          ending      \* how the stream ended, "none" while it runs

streamVars == <<stream, ending>>

------------------------------------------------------------------------------

StreamInit == stream = Nothing /\ ending = "none"

\* A delta leaves what was assembled as it is, and is no step here.
SendEvent ==
    /\ ending = "none" /\ stream' # stream
    /\ \E e \in MessageEvents \cup BlockEvents :
          AllowedAfter(stream, e) /\ stream' = After(stream, e)
    /\ UNCHANGED ending

Completes ==
    /\ ending = "none" /\ stream.phase = "stopped"
    /\ ending' = "complete" /\ UNCHANGED stream

\* An exception leaves the generator.
FailsCleanly ==
    /\ ending = "none" /\ AllClosed(stream)
    /\ stream = Nothing \/ SomeBlock(stream)
    /\ ending' = "failed" /\ UNCHANGED stream

\* The consumer closes the generator or is cancelled.
IsAbandoned ==
    /\ ending = "none"
    /\ ending' = "abandoned" /\ UNCHANGED stream

StreamNext == SendEvent \/ Completes \/ FailsCleanly \/ IsAbandoned

StreamSpec == StreamInit /\ [][StreamNext]_streamVars
==============================================================================
