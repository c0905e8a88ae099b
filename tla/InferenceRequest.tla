-------------------------- MODULE InferenceRequest ---------------------------
(***************************************************************************)
(* One inference request, from the ASGI boundary to the provider streams   *)
(* and back: the lifetime middleware with its receiver and application     *)
(* tasks (api/request_lifetime.py), the route that holds a generation      *)
(* lease (api/routes.py), the two handlers, the executor that walks the    *)
(* candidate models under a progress deadline (application/execution.py)   *)
(* and the response that closes its body before it releases the lease      *)
(* (api/response_streams.py).                                              *)
(*                                                                         *)
(* A task's steps run from one suspension to the next, so app names the    *)
(* await the application task is suspended in.  The nested generators of a *)
(* body are one object: it is suspended in the provider's anext ("pull"),  *)
(* at a yield ("sending") or it has finished.  upstream says of each       *)
(* candidate's provider stream whether its generator is live.              *)
(***************************************************************************)
EXTENDS Naturals, Sequences

CONSTANTS MaxCandidates,   \* the primary model and its fallbacks
          MaxParts,        \* ASGI messages the request body comes in
          MaxChunks        \* bound: chunks one request yields

ASSUME RequestAssumption ==
    /\ MaxCandidates \in Nat \ {0}
    /\ MaxParts \in Nat \ {0}
    /\ MaxChunks \in Nat

VARIABLES
    client,      \* the HTTP client: "connected" or "gone"
    unsent,      \* body messages the server has not handed over yet
    queued,      \* messages, the queue of one between receiver and application
    receiver,    \* receive_until_disconnect
    boundary,    \* the middleware's own call
    shut,        \* the server has cancelled that call
    app,         \* where the application task is suspended
    cancelled,   \* a cancel() of the application task has not landed yet
    wire,        \* what the request asked for
    lease,       \* the generation lease of the route
    cleanup,     \* _cleanup_task of the streaming response
    candidate,   \* index of the model in use, 0 before the executor
    upstream,    \* the provider stream of each candidate
    committed,   \* candidate_committed
    late,        \* progress_deadline has passed
    why,         \* why a live provider stream is being closed
    status,      \* the response line the client has got
    out          \* history: whose chunks the answer is made of

boundaryVars == <<client, unsent, queued, receiver, boundary, shut>>
executorVars == <<candidate, upstream, committed, late>>
answerVars   == <<wire, lease, cleanup, status, out>>
callVars  == <<boundaryVars, app, cancelled, why, executorVars, answerVars>>

Candidates == 1..MaxCandidates

\* The error frame that ends a stream which has already begun.
ErrorFrame == 0

RequestInit ==
    /\ client = "connected" /\ unsent = MaxParts /\ queued = 0
    /\ receiver = "listening" /\ boundary = "waiting" /\ shut = FALSE
    /\ app = "reading" /\ cancelled = FALSE /\ why = "none"
    /\ wire = "none" /\ lease = "none" /\ cleanup = "none"
    /\ candidate = 0 /\ upstream = [i \in Candidates |-> "unopened"]
    /\ committed = FALSE /\ late = FALSE
    /\ status = "none" /\ out = <<>>

------------------------------------------------------------------------------
(* The client and the middleware.                                           *)

ClientLeaves ==
    /\ client = "connected" /\ boundary # "returned"
    /\ client' = "gone"
    /\ UNCHANGED <<unsent, queued, receiver, boundary, shut, app, cancelled, why,
                   executorVars, answerVars>>

\* receive() returns a body message; put() blocks while the queue is full.
ReceivePart ==
    /\ receiver = "listening" /\ client = "connected"
    /\ unsent > 0
    /\ unsent' = unsent - 1 /\ queued' = 1
    /\ receiver' = IF queued = 1 THEN "blocked" ELSE receiver
    /\ UNCHANGED <<client, boundary, shut, app, cancelled, why, executorVars,
                   answerVars>>

ReceiveDisconnect ==
    /\ receiver = "listening" /\ client = "gone"
    /\ receiver' = "seen"
    /\ UNCHANGED <<client, unsent, queued, boundary, shut, app, cancelled, why,
                   executorVars, answerVars>>

StopReceiver == IF receiver = "seen" THEN receiver ELSE "cancelled"

\* A plausible bug: the call returns as soon as the disconnect is seen.
BoundaryWakes_Abandons ==
    /\ boundary = "waiting"
    /\ app = "ended" \/ receiver = "seen"
    /\ boundary' = "returned"
    /\ receiver' = StopReceiver
    /\ UNCHANGED <<client, unsent, queued, shut, app, cancelled, why,
                   executorVars, answerVars>>

\* The application finished first: the receiver is cancelled.  The client
\* left first: the application is cancelled and awaited.
BoundaryWakes ==
    /\ boundary = "waiting"
    /\ \/ /\ app = "ended"
          /\ boundary' = "returned"
          /\ receiver' = StopReceiver
          /\ UNCHANGED cancelled
       \/ /\ app # "ended" /\ receiver = "seen"
          /\ boundary' = "stopping"
          /\ cancelled' = TRUE
          /\ UNCHANGED receiver
    /\ UNCHANGED <<client, unsent, queued, shut, app, why, executorVars, answerVars>>

\* The server cancels the call itself.  While it awaits the application that
\* cancels the application once more; the cleanup task is shielded.
ServerCancels ==
    /\ boundary \in {"waiting", "stopping"} /\ app # "ended"
    /\ ~shut /\ shut' = TRUE
    /\ boundary' = IF boundary = "waiting" THEN "cleaning" ELSE boundary
    /\ receiver' = StopReceiver
    /\ cancelled' = TRUE
    /\ UNCHANGED <<client, unsent, queued, app, why, executorVars, answerVars>>

\* _cancel_and_wait has seen every task end.
BoundaryReturns ==
    /\ boundary \in {"stopping", "cleaning"} /\ app = "ended"
    /\ boundary' = "returned"
    /\ UNCHANGED <<client, unsent, queued, receiver, shut, app, cancelled, why,
                   executorVars, answerVars>>

------------------------------------------------------------------------------
(* The route, up to the first pull.                                         *)

\* The framework reads the body and resolves the dependencies.
ReadPart ==
    /\ app = "reading" /\ ~cancelled /\ queued = 1
    /\ \/ /\ receiver = "blocked" /\ receiver' = "listening"
          /\ UNCHANGED <<queued, app>>
       \/ /\ receiver # "blocked" /\ queued' = 0
          /\ app' = IF unsent = 0 THEN "handling" ELSE app
          /\ UNCHANGED receiver
    /\ UNCHANGED <<client, unsent, boundary, shut, cancelled, why, executorVars,
                   answerVars>>

\* The lease is given back; a last release may wait for a generation to close.
ReleaseAndAnswer(kind) ==
    /\ lease' = "released"
    /\ status' = kind
    /\ app' = "releasing"

\* acquire refuses: the manager is closing.
HandlerRefuses ==
    /\ app = "handling" /\ ~cancelled
    /\ status' = "error" /\ app' = "answering"
    /\ UNCHANGED <<boundaryVars, cancelled, why, executorVars, wire, lease,
                   cleanup, out>>

\* Routing, redaction or the primary's preflight fails, or an optimisation
\* answers without a provider.
HandlerAnswers ==
    /\ app = "handling" /\ ~cancelled
    /\ \E kind \in {"error", "json"} : ReleaseAndAnswer(kind)
    /\ UNCHANGED <<boundaryVars, cancelled, why, executorVars, wire, cleanup, out>>

\* The executor's body is built and its first chunk awaited.
HandlerStreams ==
    /\ app = "handling" /\ ~cancelled
    /\ lease' = "held"
    /\ \E w \in {"json", "sse", "responses"} : wire' = w
    /\ candidate' = 1 /\ upstream' = [upstream EXCEPT ![1] = "open"]
    /\ app' = "pull"
    /\ UNCHANGED <<boundaryVars, cancelled, why, committed, late, cleanup,
                   status, out>>

------------------------------------------------------------------------------
(* The executor.                                                            *)

Pulling == app = "pull" /\ ~cancelled

\* A plausible bug: the deadline guards the first chunk only.
DeadlinePasses_Committed ==
    /\ app = "pull" /\ ~late /\ ~committed
    /\ late' = TRUE
    /\ UNCHANGED <<boundaryVars, app, cancelled, why, candidate, upstream,
                   committed, answerVars>>

\* Nothing has been yielded since the deadline was set.
DeadlinePasses ==
    /\ app = "pull" /\ ~late
    /\ late' = TRUE
    /\ UNCHANGED <<boundaryVars, app, cancelled, why, candidate, upstream,
                   committed, answerVars>>

\* A chunk is yielded: a JSON answer and the Responses adapter may take it in
\* and pull again, a stream sends it.  The first one starts the response,
\* which binds the lease.
TakeChunk ==
    /\ Pulling /\ ~late /\ Len(out) < MaxChunks
    /\ committed' = TRUE
    /\ out' = Append(out, candidate)
    /\ \/ /\ wire \in {"json", "responses"}
          /\ UNCHANGED <<app, status>>
       \/ /\ wire \in {"sse", "responses"}
          /\ status' = "stream" /\ app' = "sending"
    /\ UNCHANGED <<boundaryVars, cancelled, why, candidate, upstream, late, wire,
                   lease, cleanup>>

\* An ordinary exception leaves the body: an error response before the first
\* chunk was sent, a terminal frame after it.
BodyRaises ==
    IF status = "stream"
    THEN /\ out' = Append(out, ErrorFrame) /\ app' = "sending"
         /\ UNCHANGED <<lease, status>>
    ELSE ReleaseAndAnswer("error") /\ UNCHANGED out

CloseUpstream == [upstream EXCEPT ![candidate] = "closed"]

\* The provider stream ends.  A stream that sent nothing is an error, except
\* for Responses, which then closes the response it opens.
ProviderEnds ==
    /\ Pulling
    /\ upstream' = CloseUpstream
    /\ \/ /\ wire = "json" /\ ReleaseAndAnswer("json") /\ UNCHANGED out
       \/ /\ wire = "sse" /\ status = "none" /\ BodyRaises
       \/ /\ wire = "responses" \/ status = "stream"
          /\ wire # "json"
          /\ app' = "closing" /\ status' = "stream"
          /\ UNCHANGED <<lease, out>>
    /\ UNCHANGED <<boundaryVars, cancelled, why, candidate, committed, late,
                   wire, cleanup>>

\* The failure is the answer's: it is not retryable, the candidate has
\* committed, or it was the last one.
ProviderFails(retryable) ==
    /\ Pulling
    /\ committed \/ ~retryable \/ candidate = MaxCandidates
    /\ upstream' = CloseUpstream
    /\ BodyRaises
    /\ UNCHANGED <<boundaryVars, cancelled, why, candidate, committed, late, wire,
                   cleanup>>

\* A plausible bug: what the failed candidate has yielded does not matter.
Fallback_Committed ==
    /\ Pulling /\ candidate < MaxCandidates
    /\ candidate' = candidate + 1
    /\ upstream' = [CloseUpstream EXCEPT ![candidate + 1] = "open"]
    /\ committed' = FALSE
    /\ UNCHANGED <<boundaryVars, app, cancelled, why, late, answerVars>>

\* The next candidate starts, under the same deadline.
Fallback ==
    /\ Pulling /\ ~committed /\ candidate < MaxCandidates
    /\ candidate' = candidate + 1
    /\ upstream' = [CloseUpstream EXCEPT ![candidate + 1] = "open"]
    /\ committed' = FALSE
    /\ UNCHANGED <<boundaryVars, app, cancelled, why, late, answerVars>>

\* The next candidate cannot be resolved or fails its preflight.
FallbackFails ==
    /\ Pulling /\ ~committed /\ candidate < MaxCandidates
    /\ candidate' = candidate + 1
    /\ upstream' = CloseUpstream
    /\ BodyRaises
    /\ UNCHANGED <<boundaryVars, cancelled, why, committed, late, wire, cleanup>>

\* A plausible bug: the failure leaves the executor without its provider stream closed.
DeadlineFires_Unclosed ==
    /\ Pulling /\ late
    /\ BodyRaises
    /\ UNCHANGED <<boundaryVars, cancelled, why, executorVars, wire, cleanup>>

\* The deadline cancels the pull, or is found passed before the next one: the
\* provider stream is closed first.
DeadlineFires ==
    /\ Pulling /\ late
    /\ app' = "drain" /\ why' = "timeout"
    /\ UNCHANGED <<boundaryVars, cancelled, executorVars, answerVars>>

\* The Responses adapter has sent its terminal event and closes its input.
AdapterStops ==
    /\ Pulling /\ wire = "responses" /\ status = "stream"
    /\ app' = "drain" /\ why' = "end"
    /\ UNCHANGED <<boundaryVars, cancelled, executorVars, answerVars>>

\* The provider stream has unwound; what closed it goes on.
BodyDrained ==
    /\ app = "drain" /\ ~cancelled
    /\ upstream' = CloseUpstream
    /\ why' = "none"
    /\ \/ why = "timeout" /\ BodyRaises
       \/ why = "end" /\ app' = "closing" /\ UNCHANGED <<lease, status, out>>
       \/ /\ why = "cancel" /\ status = "stream"
          /\ app' = "closing" /\ UNCHANGED <<lease, status, out>>
       \/ /\ why = "cancel" /\ status # "stream"
          /\ lease' = "released" /\ app' = "ended" /\ UNCHANGED <<status, out>>
    /\ UNCHANGED <<boundaryVars, cancelled, candidate, committed, late, wire,
                   cleanup>>

------------------------------------------------------------------------------
(* The response.                                                            *)

\* send() returned: the body is resumed, which sets a new deadline, or it has
\* ended with its error frame.
Sent ==
    /\ app = "sending" /\ ~cancelled
    /\ \/ out[Len(out)] = ErrorFrame /\ app' = "closing" /\ UNCHANGED late
       \/ out[Len(out)] # ErrorFrame /\ app' = "pull" /\ late' = FALSE
    /\ UNCHANGED <<boundaryVars, cancelled, why, candidate, upstream, committed,
                   answerVars>>

\* send() fails because the client has left.
SendFails ==
    /\ app = "sending" /\ ~cancelled /\ client = "gone"
    /\ app' = "closing"
    /\ UNCHANGED <<boundaryVars, cancelled, why, executorVars, answerVars>>

\* A plausible bug: the lease is released while the body is being closed.
StartCleanup_ReleasesFirst ==
    /\ app = "closing" /\ cleanup = "none"
    /\ cleanup' = "body" /\ lease' = "released"
    /\ UNCHANGED <<boundaryVars, app, cancelled, why, executorVars, wire, status,
                   out>>

\* _close starts the cleanup task once and waits for it.
StartCleanup ==
    /\ app = "closing" /\ cleanup = "none"
    /\ cleanup' = "body"
    /\ UNCHANGED <<boundaryVars, app, cancelled, why, executorVars, wire, lease,
                   status, out>>

\* The body is closed, whether or not that raises: a live provider stream
\* under it unwinds.
CleanupClosesBody ==
    /\ cleanup = "body"
    /\ upstream' = [i \in Candidates |-> IF upstream[i] = "open" THEN "closed"
                                         ELSE upstream[i]]
    /\ cleanup' = "release"
    /\ UNCHANGED <<boundaryVars, app, cancelled, why, candidate, committed, late,
                   wire, lease, status, out>>

CleanupReleases ==
    /\ cleanup = "release"
    /\ lease' = "released"
    /\ cleanup' = "done"
    /\ UNCHANGED <<boundaryVars, app, cancelled, why, executorVars, wire, status,
                   out>>

\* The wait ends with the cleanup task, however often it was cancelled.
Closed ==
    /\ app = "closing" /\ cleanup = "done"
    /\ app' = "ended" /\ cancelled' = FALSE
    /\ UNCHANGED <<boundaryVars, why, executorVars, answerVars>>

Released ==
    /\ app = "releasing" /\ ~cancelled
    /\ app' = "answering"
    /\ UNCHANGED <<boundaryVars, cancelled, why, executorVars, answerVars>>

Answered ==
    /\ app = "answering" /\ ~cancelled
    /\ app' = "ended"
    /\ UNCHANGED <<boundaryVars, cancelled, why, executorVars, answerVars>>

------------------------------------------------------------------------------
(* Cancellation lands where the application task is suspended.              *)

\* A plausible bug: a response that has begun just ends when it is cancelled.
CancelLands_SkipsCleanup ==
    /\ cancelled /\ app \notin {"closing", "ended"}
    /\ cancelled' = FALSE
    /\ IF app \in {"pull", "drain"}
       THEN app' = "drain" /\ why' = "cancel"
       ELSE app' = "ended" /\ UNCHANGED why
    /\ UNCHANGED <<boundaryVars, executorVars, answerVars>>

\* Inside a provider stream it unwinds that first; a response that has begun
\* closes itself; anything else just ends.  A closing response absorbs it.
CancelLands ==
    /\ cancelled /\ app \notin {"closing", "ended"}
    /\ cancelled' = FALSE
    /\ \/ /\ app \in {"pull", "drain"}
          /\ app' = "drain" /\ why' = "cancel"
       \/ /\ app = "sending"
          /\ app' = "closing" /\ UNCHANGED why
       \/ /\ app \in {"reading", "handling", "releasing", "answering"}
          /\ app' = "ended" /\ UNCHANGED why
    /\ UNCHANGED <<boundaryVars, executorVars, answerVars>>

------------------------------------------------------------------------------

AppStep ==
    \/ ReadPart \/ HandlerRefuses \/ HandlerAnswers \/ HandlerStreams
    \/ DeadlineFires \/ BodyDrained \/ StartCleanup \/ CleanupClosesBody
    \/ CleanupReleases \/ Closed \/ Released \/ Answered \/ CancelLands

ProviderStep ==
    \/ TakeChunk \/ ProviderEnds \/ Fallback \/ FallbackFails \/ AdapterStops
    \/ \E retryable \in BOOLEAN : ProviderFails(retryable)

BoundaryStep ==
    ReceivePart \/ ReceiveDisconnect \/ BoundaryWakes \/ BoundaryReturns

RequestNext ==
    \/ AppStep \/ ProviderStep \/ BoundaryStep
    \/ DeadlinePasses \/ Sent \/ SendFails \/ ClientLeaves \/ ServerCancels

\* Nothing is assumed of the provider, of the client or of the server: the
\* event loop runs what is ready, and time passes.
RequestFairness ==
    /\ WF_callVars(AppStep)
    /\ WF_callVars(BoundaryStep)
    /\ WF_callVars(DeadlinePasses)

RequestSpec == RequestInit /\ [][RequestNext]_callVars /\ RequestFairness

------------------------------------------------------------------------------
(* Properties.                                                              *)

\* The values the variables of one request take.
RequestTypeOK ==
    /\ client \in {"connected", "gone"}
    /\ unsent \in 0..MaxParts /\ queued \in 0..1
    /\ receiver \in {"listening", "blocked", "seen", "cancelled"}
    /\ boundary \in {"waiting", "stopping", "cleaning", "returned"}
    /\ app \in {"reading", "handling", "pull", "drain", "releasing", "answering",
                "sending", "closing", "ended"}
    /\ shut \in BOOLEAN /\ cancelled \in BOOLEAN /\ committed \in BOOLEAN /\ late \in BOOLEAN
    /\ why \in {"none", "timeout", "end", "cancel"}
    /\ wire \in {"none", "json", "sse", "responses"}
    /\ lease \in {"none", "held", "released"}
    /\ cleanup \in {"none", "body", "release", "done"}
    /\ candidate \in 0..MaxCandidates
    /\ upstream \in [Candidates -> {"unopened", "open", "closed"}]
    /\ status \in {"none", "error", "json", "stream"}
    /\ out \in Seq(0..MaxCandidates)

\* No answer mixes two models: every chunk in it comes from the candidate in
\* use, and an error frame ends it (candidate_committed, _terminal_chunk).
OneVoice ==
    \A k \in DOMAIN out :
        out[k] = candidate \/ (k > 1 /\ k = Len(out) /\ out[k] = ErrorFrame)

\* A provider stream is live only under a lease that is still held, so its
\* generation cannot close under it (the order in _cleanup and in the finally
\* clauses of provider_body), and one candidate at a time is live.
LeaseCoversStreams ==
    \A i \in Candidates :
        upstream[i] = "open" => lease = "held" /\ i = candidate

\* When the middleware's call returns nothing of the request is left behind:
\* no task, no live provider stream, no held lease.
NothingOutlivesCall ==
    boundary = "returned" =>
        /\ app = "ended" /\ receiver \notin {"listening", "blocked"}
        /\ lease # "held"
        /\ \A i \in Candidates : upstream[i] # "open"

\* An answer is one model's, and what a request opens is live under its lease
\* only, and never after its call.
RequestIsContained == OneVoice /\ LeaseCoversStreams /\ NothingOutlivesCall

\* A client that leaves ends its request, wherever it is, and a provider that
\* goes silent ends its pull, whoever waits.
RequestEnds ==
    /\ <>[](client = "gone" => boundary = "returned")
    /\ []<>(app # "pull")
==============================================================================
