---------------------- MODULE InferenceRequest_proofs ----------------------
(***************************************************************************)
(* Proofs about InferenceRequest, for any number of candidate models, of   *)
(* body messages and of chunks.  What the request may still have open      *)
(* depends on where the application task is suspended: the inductive       *)
(* invariant IInv says so for its lease (LeaseInv), its provider streams   *)
(* (StreamInv), its answer (VoiceInv) and for the middleware's own call    *)
(* (CallInv).                                                              *)
(***************************************************************************)
EXTENDS InferenceRequest, WebTools, SequenceTheorems, TLAPS

USE RequestAssumption

\* Where the body of the answer, and so a provider stream, may be live.
InBody == {"pull", "drain", "sending"}

\* The lease is taken with the body and given back by the last step before
\* the end: by the cleanup task once a response has begun.
LeaseInv ==
    /\ app \in {"reading", "handling"} => lease = "none" /\ candidate = 0
    /\ app \in InBody => lease = "held" /\ candidate \in Candidates
    /\ app = "closing" => lease = IF cleanup = "done" THEN "released" ELSE "held"
    /\ app \in {"releasing", "answering", "ended"} => lease # "held"
    /\ app \notin {"closing", "ended"} => cleanup = "none"
    /\ app = "ended" => cleanup \in {"none", "done"}

\* Only the candidate in use is live, in a body that is not closed yet.
StreamInv ==
    \A i \in Candidates : upstream[i] = "open" =>
        /\ i = candidate
        /\ app \in InBody \cup {"closing"}
        /\ cleanup \in {"none", "body"}

\* A candidate that has yielded anything has committed; an error frame is the
\* last thing that is sent.
VoiceInv ==
    /\ app \in {"reading", "handling"} => out = <<>> /\ status = "none"
    /\ app \in InBody /\ ~committed => out = <<>>
    /\ app \in InBody /\ status = "stream" => out # <<>>
    /\ app = "sending" => status = "stream"
    /\ app \in {"pull", "drain"} => \A k \in DOMAIN out : out[k] # ErrorFrame
    /\ app = "drain" /\ why = "end" => status = "stream"
    /\ OneVoice

\* The call stops its receiver before it returns, and waits for the application.
CallInv ==
    /\ boundary # "waiting" => receiver \in {"seen", "cancelled"}
    /\ boundary = "returned" => app = "ended"

IInv == RequestTypeOK /\ LeaseInv /\ StreamInv /\ VoiceInv /\ CallInv

------------------------------------------------------------------------------
(* Lemmas                                                                   *)

\* What one more chunk, or the error frame, does to an answer.
LEMMA Longer ==
    ASSUME out \in Seq(0..MaxCandidates), NEW x \in 0..MaxCandidates, out' = Append(out, x)
    PROVE  /\ out' \in Seq(0..MaxCandidates) /\ out' # <<>>
           /\ Len(out) \in Nat /\ Len(out') = Len(out) + 1 /\ out'[Len(out')] = x
           /\ DOMAIN out = 1..Len(out) /\ DOMAIN out' = 1..(Len(out) + 1)
           /\ \A k \in DOMAIN out : out'[k] = out[k]
BY AppendProperties, LenProperties, EmptySeq

\* An answer that is not empty has a last chunk.
LEMMA LastChunk ==
    ASSUME out \in Seq(0..MaxCandidates)
    PROVE  /\ Len(out) \in Nat /\ DOMAIN out = 1..Len(out)
           /\ out # <<>> => Len(out) \in DOMAIN out
BY LenProperties, EmptySeq

\* Steps of the client and of the middleware leave the application alone.
LEMMA BoundaryFrame ==
    ASSUME LeaseInv, StreamInv, VoiceInv, UNCHANGED <<app, why, executorVars, answerVars>>
    PROVE  LeaseInv' /\ StreamInv' /\ VoiceInv'
BY DEF LeaseInv, StreamInv, VoiceInv, OneVoice, executorVars, answerVars

\* Steps of the application leave the client and the middleware alone.
LEMMA CallFrame ==
    ASSUME CallInv, UNCHANGED <<boundary, receiver>>, app = "ended" => app' = "ended"
    PROVE  CallInv'
BY DEF CallInv

\* A step that neither opens a provider stream nor moves a live one.
LEMMA StreamFrame ==
    ASSUME RequestTypeOK, StreamInv, UNCHANGED <<candidate, cleanup>>,
           upstream' \in [Candidates -> {"unopened", "open", "closed"}],
           \A i \in Candidates : upstream'[i] = "open" => upstream[i] = "open",
           app' \in InBody \cup {"closing"} \/ upstream'[candidate] # "open"
    PROVE  StreamInv'
BY DEF StreamInv, Candidates, RequestTypeOK

\* Closing the candidate's stream leaves none that is live.
LEMMA NoneIsLive ==
    ASSUME RequestTypeOK, StreamInv, candidate \in Candidates, upstream' = CloseUpstream
    PROVE  /\ upstream' \in [Candidates -> {"unopened", "open", "closed"}]
           /\ \A i \in Candidates : upstream'[i] # "open"
BY DEF StreamInv, CloseUpstream, RequestTypeOK

\* An exception ends the answer with its error frame, or the lease.
LEMMA Raises ==
    ASSUME IInv, app \in {"pull", "drain"}, BodyRaises,
           candidate' = candidate \/ out = <<>>, UNCHANGED <<cleanup, committed>>,
           candidate' \in Candidates,
           \A i \in Candidates : upstream'[i] # "open"
    PROVE  /\ LeaseInv' /\ StreamInv' /\ VoiceInv'
           /\ app' \in {"sending", "releasing"} /\ lease' \in {"held", "released"}
           /\ status' \in {"none", "error", "json", "stream"} /\ out' \in Seq(0..MaxCandidates)
<1>1. RequestTypeOK /\ LeaseInv /\ StreamInv /\ VoiceInv BY DEF IInv
<1>2. StreamInv' BY DEF StreamInv
<1>3. CASE status = "stream"
  <2>1. out' = Append(out, ErrorFrame) /\ app' = "sending" /\ UNCHANGED <<lease, status>>
    BY <1>3 DEF BodyRaises
  <2>2. out \in Seq(0..MaxCandidates) /\ ErrorFrame \in 0..MaxCandidates /\ out # <<>>
    BY <1>1, <1>3 DEF RequestTypeOK, ErrorFrame, VoiceInv, InBody
  <2>3. candidate' = candidate BY <2>2
  <2>4. OneVoice'
    <3>1. \A k \in DOMAIN out : out[k] = candidate
      BY <1>1 DEF VoiceInv, OneVoice
    <3> QED BY <2>1, <2>2, <2>3, <3>1, Longer, LastChunk DEF OneVoice
  <2>5. VoiceInv' BY <1>1, <1>3, <2>1, <2>2, <2>4, Longer DEF VoiceInv, InBody
  <2>6. LeaseInv' BY <1>1, <2>1, <2>3 DEF LeaseInv, InBody
  <2> QED BY <1>1, <1>2, <1>3, <2>1, <2>2, <2>5, <2>6, Longer DEF LeaseInv, InBody
<1>4. CASE status # "stream"
  <2>1. ReleaseAndAnswer("error") /\ UNCHANGED out BY <1>4 DEF BodyRaises
  <2>2. OneVoice' BY <1>1, <2>1 DEF VoiceInv, OneVoice
  <2>3. VoiceInv' BY <1>1, <2>1, <2>2 DEF VoiceInv, ReleaseAndAnswer, InBody
  <2>4. LeaseInv' BY <1>1, <2>1 DEF LeaseInv, ReleaseAndAnswer, InBody
  <2> QED BY <1>1, <1>2, <2>1, <2>3, <2>4 DEF ReleaseAndAnswer, RequestTypeOK
<1> QED BY <1>3, <1>4

------------------------------------------------------------------------------
(* Every action preserves the invariant                                     *)

\* The client, the middleware and the server.
LEMMA BoundaryStepKeeps ==
    ASSUME IInv, BoundaryStep \/ ClientLeaves \/ ServerCancels
    PROVE  IInv'
<1>1. RequestTypeOK /\ LeaseInv /\ StreamInv /\ VoiceInv /\ CallInv BY DEF IInv
<1>2. UNCHANGED <<app, why, executorVars, answerVars>>
  BY DEF BoundaryStep, ReceivePart, ReceiveDisconnect, BoundaryWakes, BoundaryReturns,
         ClientLeaves, ServerCancels
<1>3. LeaseInv' /\ StreamInv' /\ VoiceInv' BY <1>1, <1>2, BoundaryFrame
<1>4. /\ client' \in {"connected", "gone"} /\ unsent' \in 0..MaxParts /\ queued' \in 0..1
      /\ receiver' \in {"listening", "blocked", "seen", "cancelled"}
      /\ boundary' \in {"waiting", "stopping", "cleaning", "returned"}
      /\ shut' \in BOOLEAN /\ cancelled' \in BOOLEAN
  <2>1. CASE ReceivePart BY <1>1, <2>1 DEF RequestTypeOK, ReceivePart
  <2>2. CASE ReceiveDisconnect \/ BoundaryReturns \/ ClientLeaves
    BY <1>1, <2>2 DEF RequestTypeOK, ReceiveDisconnect, BoundaryReturns, ClientLeaves
  <2>3. CASE BoundaryWakes BY <1>1, <2>3 DEF RequestTypeOK, BoundaryWakes, StopReceiver
  <2>4. CASE ServerCancels BY <1>1, <2>4 DEF RequestTypeOK, ServerCancels, StopReceiver
  <2> QED BY <2>1, <2>2, <2>3, <2>4 DEF BoundaryStep
<1>5. RequestTypeOK' BY <1>1, <1>2, <1>4 DEF RequestTypeOK, executorVars, answerVars
<1>6. CallInv'
  BY <1>1 DEF CallInv, RequestTypeOK, BoundaryStep, ReceivePart, ReceiveDisconnect,
         BoundaryWakes, BoundaryReturns, ClientLeaves, ServerCancels, StopReceiver
<1> QED BY <1>3, <1>5, <1>6 DEF IInv

\* The framework reads the body: nothing is open yet.
LEMMA ReadPartKeeps == ASSUME IInv, ReadPart PROVE IInv'
<1>1. RequestTypeOK /\ LeaseInv /\ StreamInv /\ VoiceInv /\ CallInv BY DEF IInv
<1>2. /\ UNCHANGED <<client, unsent, boundary, shut, cancelled, why, executorVars, answerVars>>
      /\ app = "reading" /\ app' \in {"reading", "handling"}
      /\ queued' \in 0..1 /\ (receiver = "blocked" \/ receiver' = receiver)
      /\ receiver' \in {"listening", receiver}
  BY <1>1 DEF ReadPart, RequestTypeOK
<1>3. RequestTypeOK' BY <1>1, <1>2 DEF RequestTypeOK, executorVars, answerVars
<1>4. LeaseInv' BY <1>1, <1>2 DEF LeaseInv, InBody, executorVars, answerVars
<1>5. StreamInv' BY <1>1, <1>2 DEF StreamInv, InBody, executorVars, answerVars
<1>6. VoiceInv' BY <1>1, <1>2 DEF VoiceInv, InBody, OneVoice, executorVars, answerVars
<1>7. CallInv' BY <1>1, <1>2 DEF CallInv
<1> QED BY <1>3, <1>4, <1>5, <1>6, <1>7 DEF IInv

\* The handler takes the lease together with the first candidate's stream.
LEMMA HandlerKeeps ==
    ASSUME IInv, HandlerRefuses \/ HandlerAnswers \/ HandlerStreams
    PROVE  IInv'
<1>1. RequestTypeOK /\ LeaseInv /\ StreamInv /\ VoiceInv /\ CallInv BY DEF IInv
<1>2. /\ app = "handling" /\ UNCHANGED <<boundaryVars, cancelled, why, cleanup, committed, late, out>>
      /\ lease = "none" /\ cleanup = "none" /\ out = <<>> /\ candidate = 0
      /\ \A i \in Candidates : upstream[i] # "open"
  BY <1>1 DEF HandlerRefuses, HandlerAnswers, HandlerStreams, executorVars, LeaseInv,
         VoiceInv, StreamInv, Candidates
<1>3. CallInv' BY <1>1, <1>2 DEF CallInv, boundaryVars
<1>4. OneVoice' BY <1>1, <1>2 DEF OneVoice
<1>5. CASE HandlerRefuses \/ HandlerAnswers
  <2>1. /\ app' \in {"answering", "releasing"} /\ lease' \in {"none", "released"}
        /\ status' \in {"error", "json"} /\ UNCHANGED <<executorVars, wire>>
    BY <1>2, <1>5 DEF HandlerRefuses, HandlerAnswers, ReleaseAndAnswer
  <2>2. RequestTypeOK' BY <1>1, <1>2, <2>1 DEF RequestTypeOK, boundaryVars, executorVars
  <2>3. LeaseInv' BY <1>1, <1>2, <2>1 DEF LeaseInv, InBody
  <2>4. StreamInv' BY <1>1, <1>2, <2>1 DEF StreamInv, InBody, executorVars
  <2>5. VoiceInv' BY <1>1, <1>2, <1>4, <2>1 DEF VoiceInv, InBody
  <2> QED BY <1>3, <2>2, <2>3, <2>4, <2>5 DEF IInv
<1>6. CASE HandlerStreams
  <2>1. /\ app' = "pull" /\ lease' = "held" /\ wire' \in {"json", "sse", "responses"}
        /\ candidate' = 1 /\ upstream' = [upstream EXCEPT ![1] = "open"] /\ UNCHANGED status
    BY <1>6 DEF HandlerStreams
  <2>2. 1 \in Candidates BY DEF Candidates
  <2>3. RequestTypeOK' BY <1>1, <1>2, <2>1, <2>2 DEF RequestTypeOK, boundaryVars
  <2>4. LeaseInv' BY <1>1, <1>2, <2>1, <2>2 DEF LeaseInv, InBody
  <2>5. StreamInv' BY <1>1, <1>2, <2>1, <2>2 DEF StreamInv, InBody, RequestTypeOK
  <2>6. status # "stream"
    BY <1>1, <1>2 DEF VoiceInv
  <2>7. VoiceInv' BY <1>1, <1>2, <1>4, <2>1, <2>6 DEF VoiceInv, InBody
  <2> QED BY <1>3, <2>3, <2>4, <2>5, <2>7 DEF IInv
<1> QED BY <1>5, <1>6

\* A chunk comes from the candidate in use, which has committed with it.
LEMMA TakeChunkKeeps == ASSUME IInv, TakeChunk PROVE IInv'
<1>1. RequestTypeOK /\ LeaseInv /\ StreamInv /\ VoiceInv /\ CallInv BY DEF IInv
<1>2. /\ app = "pull" /\ app' \in {"pull", "sending"} /\ committed' = TRUE
      /\ out' = Append(out, candidate)
      /\ app' = "sending" => status' = "stream"
      /\ status' \in {status, "stream"}
      /\ UNCHANGED <<boundaryVars, cancelled, why, candidate, upstream, late, wire, lease, cleanup>>
  BY DEF TakeChunk, Pulling
<1>3. candidate \in Candidates /\ candidate \in 0..MaxCandidates /\ candidate # ErrorFrame
  BY <1>1, <1>2 DEF LeaseInv, InBody, Candidates, ErrorFrame
<1>4. out \in Seq(0..MaxCandidates) BY <1>1 DEF RequestTypeOK
<1>5. /\ out' \in Seq(0..MaxCandidates) /\ out' # <<>>
      /\ DOMAIN out' = 1..(Len(out) + 1) /\ out'[Len(out) + 1] = candidate
      /\ \A k \in DOMAIN out : out'[k] = out[k]
      /\ DOMAIN out = 1..Len(out) /\ Len(out) \in Nat
  BY <1>2, <1>3, <1>4, Longer
<1>6. \A k \in DOMAIN out' : out'[k] = candidate
  <2>1. \A k \in DOMAIN out : out[k] = candidate BY <1>1, <1>2 DEF VoiceInv, OneVoice
  <2> QED BY <1>5, <2>1
<1>7. RequestTypeOK' BY <1>1, <1>2, <1>5 DEF RequestTypeOK, boundaryVars
<1>8. LeaseInv' BY <1>1, <1>2 DEF LeaseInv, InBody
<1>9. StreamInv' BY <1>1, <1>2 DEF StreamInv, InBody
<1>10. VoiceInv' BY <1>2, <1>3, <1>5, <1>6 DEF VoiceInv, InBody, OneVoice
<1>11. CallInv' BY <1>1, <1>2 DEF CallInv, boundaryVars
<1> QED BY <1>7, <1>8, <1>9, <1>10, <1>11 DEF IInv

\* The provider stream ends or fails: it is not live any more.
LEMMA ProviderLeavesKeeps ==
    ASSUME IInv, ProviderEnds \/ (\E retryable \in BOOLEAN : ProviderFails(retryable)) \/ FallbackFails
    PROVE  IInv'
<1>1. RequestTypeOK /\ LeaseInv /\ StreamInv /\ VoiceInv /\ CallInv BY DEF IInv
<1>2. /\ app = "pull" /\ UNCHANGED <<boundaryVars, cancelled, why, committed, late, wire, cleanup>>
      /\ upstream' = CloseUpstream
  BY DEF ProviderEnds, ProviderFails, FallbackFails, Pulling
<1>3. candidate \in Candidates /\ lease = "held" /\ cleanup = "none"
  BY <1>1, <1>2 DEF LeaseInv, InBody
<1>4. /\ upstream' \in [Candidates -> {"unopened", "open", "closed"}]
      /\ \A i \in Candidates : upstream'[i] # "open"
  BY <1>1, <1>2, <1>3, NoneIsLive
<1>5. candidate' \in Candidates /\ (candidate' = candidate \/ out = <<>>)
  BY <1>1, <1>2, <1>3 DEF ProviderEnds, ProviderFails, FallbackFails, Pulling, VoiceInv,
         InBody, Candidates
<1>6. CallInv' BY <1>1, <1>2 DEF CallInv, boundaryVars
<1>7. CASE BodyRaises
  <2>1. /\ LeaseInv' /\ StreamInv' /\ VoiceInv'
        /\ app' \in {"sending", "releasing"} /\ lease' \in {"held", "released"}
        /\ status' \in {"none", "error", "json", "stream"} /\ out' \in Seq(0..MaxCandidates)
    BY <1>2, <1>4, <1>5, <1>7, Raises
  <2>2. RequestTypeOK' BY <1>1, <1>2, <1>4, <1>5, <2>1 DEF RequestTypeOK, boundaryVars, Candidates
  <2> QED BY <1>6, <2>1, <2>2 DEF IInv
<1>8. CASE ~BodyRaises
  <2>1. /\ UNCHANGED <<candidate, out>>
        /\ \/ ReleaseAndAnswer("json")
           \/ app' = "closing" /\ status' = "stream" /\ UNCHANGED lease
    BY <1>8 DEF ProviderEnds, ProviderFails, FallbackFails
  <2>2. /\ app' \in {"releasing", "closing"} /\ status' \in {"json", "stream"}
        /\ lease' = IF app' = "closing" THEN "held" ELSE "released"
    BY <1>3, <2>1 DEF ReleaseAndAnswer
  <2>3. RequestTypeOK' BY <1>1, <1>2, <1>4, <2>1, <2>2 DEF RequestTypeOK, boundaryVars
  <2>4. LeaseInv' BY <1>1, <1>2, <1>3, <2>1, <2>2 DEF LeaseInv, InBody
  <2>5. StreamInv' BY <1>4 DEF StreamInv
  <2>6. VoiceInv' BY <1>1, <2>1, <2>2 DEF VoiceInv, InBody, OneVoice
  <2> QED BY <1>6, <2>3, <2>4, <2>5, <2>6 DEF IInv
<1> QED BY <1>7, <1>8

\* Another candidate's stream goes live where nobody has said anything.
LEMMA FallbackKeeps == ASSUME IInv, Fallback PROVE IInv'
<1>1. RequestTypeOK /\ LeaseInv /\ StreamInv /\ VoiceInv /\ CallInv BY DEF IInv
<1>2. /\ app = "pull" /\ ~committed /\ candidate < MaxCandidates
      /\ candidate' = candidate + 1
      /\ upstream' = [CloseUpstream EXCEPT ![candidate + 1] = "open"] /\ committed' = FALSE
      /\ UNCHANGED <<boundaryVars, app, cancelled, why, late, answerVars>>
  BY DEF Fallback, Pulling
<1>3. /\ candidate \in Candidates /\ candidate + 1 \in Candidates /\ out = <<>>
      /\ candidate + 1 # candidate
  BY <1>1, <1>2 DEF LeaseInv, InBody, VoiceInv, Candidates
<1>4. /\ upstream' \in [Candidates -> {"unopened", "open", "closed"}]
      /\ \A i \in Candidates : upstream'[i] = "open" => i = candidate + 1
  BY <1>1, <1>2, <1>3 DEF RequestTypeOK, StreamInv, CloseUpstream
<1>5. RequestTypeOK'
  <2>1. candidate' \in 0..MaxCandidates BY <1>2, <1>3 DEF Candidates
  <2>2. committed' \in BOOLEAN BY <1>2
  <2>3. UNCHANGED <<client, unsent, queued, receiver, boundary, shut, app, cancelled, why, late,
                    wire, lease, cleanup, status, out>>
    BY <1>2 DEF boundaryVars, answerVars
  <2> QED BY <1>1, <1>4, <2>1, <2>2, <2>3 DEF RequestTypeOK
<1>6. LeaseInv' BY <1>1, <1>2, <1>3 DEF LeaseInv, InBody, answerVars
<1>7. StreamInv' BY <1>1, <1>2, <1>4 DEF StreamInv, LeaseInv, InBody, answerVars
<1>8. VoiceInv' BY <1>1, <1>2, <1>3 DEF VoiceInv, InBody, OneVoice, answerVars
<1>9. CallInv' BY <1>1, <1>2 DEF CallInv, boundaryVars
<1> QED BY <1>5, <1>6, <1>7, <1>8, <1>9 DEF IInv

\* Steps that only move the application on, inside a body or out of it.
LEMMA MoveKeeps ==
    ASSUME IInv,
           \/ DeadlinePasses \/ DeadlineFires \/ AdapterStops \/ Sent \/ SendFails
           \/ Released \/ Answered \/ CancelLands
    PROVE  IInv'
<1>1. RequestTypeOK /\ LeaseInv /\ StreamInv /\ VoiceInv /\ CallInv BY DEF IInv
<1>2. /\ UNCHANGED <<boundaryVars, candidate, upstream, committed, answerVars>>
      /\ late' \in BOOLEAN /\ cancelled' \in BOOLEAN
      /\ app \notin {"closing", "ended"}
  BY <1>1 DEF DeadlinePasses, DeadlineFires, AdapterStops, Sent, SendFails, Released,
         Answered, CancelLands, Pulling, executorVars, RequestTypeOK
<1>3. \/ app' = "pull" /\ app = "pull" /\ UNCHANGED why
      \/ app' = "pull" /\ app = "sending" /\ out[Len(out)] # ErrorFrame /\ UNCHANGED why
      \/ app' = "drain" /\ app \in {"pull", "drain"} /\ why' \in {"timeout", "cancel"}
      \/ app' = "drain" /\ app = "pull" /\ why' = "end" /\ status = "stream"
      \/ app' = "closing" /\ app = "sending" /\ UNCHANGED why
      \/ app' = "answering" /\ app = "releasing" /\ UNCHANGED why
      \/ app' = "ended" /\ app \in {"answering", "reading", "handling", "releasing"} /\ UNCHANGED why
  BY DEF DeadlinePasses, DeadlineFires, AdapterStops, Sent, SendFails, Released, Answered,
         CancelLands, Pulling
<1>4. RequestTypeOK' BY <1>1, <1>2, <1>3 DEF RequestTypeOK, boundaryVars, answerVars
<1>5. LeaseInv' BY <1>1, <1>2, <1>3 DEF LeaseInv, InBody, answerVars
<1>6. StreamInv' BY <1>1, <1>2, <1>3 DEF StreamInv, LeaseInv, InBody, answerVars
<1>7. VoiceInv'
  <2>1. OneVoice' BY <1>1, <1>2 DEF VoiceInv, OneVoice, answerVars
  <2>2. app = "sending" /\ out[Len(out)] # ErrorFrame => \A k \in DOMAIN out : out[k] # ErrorFrame
    <3>1. app \in InBody => candidate # ErrorFrame
      BY <1>1 DEF LeaseInv, Candidates, ErrorFrame
    <3> QED BY <1>1, <3>1 DEF VoiceInv, OneVoice, InBody
  <2> QED BY <1>1, <1>2, <1>3, <2>1, <2>2 DEF VoiceInv, InBody, answerVars
<1>8. CallInv' BY <1>1, <1>2, <1>3 DEF CallInv, boundaryVars
<1> QED BY <1>4, <1>5, <1>6, <1>7, <1>8 DEF IInv

\* The provider stream has unwound; what closed it goes on.
LEMMA BodyDrainedKeeps == ASSUME IInv, BodyDrained PROVE IInv'
<1>1. RequestTypeOK /\ LeaseInv /\ StreamInv /\ VoiceInv /\ CallInv BY DEF IInv
<1>2. /\ app = "drain" /\ upstream' = CloseUpstream /\ why' = "none"
      /\ UNCHANGED <<boundaryVars, cancelled, candidate, committed, late, wire, cleanup>>
  BY DEF BodyDrained
<1>3. candidate \in Candidates /\ lease = "held" /\ cleanup = "none"
  BY <1>1, <1>2 DEF LeaseInv, InBody
<1>4. /\ upstream' \in [Candidates -> {"unopened", "open", "closed"}]
      /\ \A i \in Candidates : upstream'[i] # "open"
  BY <1>1, <1>2, <1>3, NoneIsLive
<1>5. StreamInv' BY <1>4 DEF StreamInv
<1>6. CallInv' BY <1>1, <1>2 DEF CallInv, boundaryVars
<1>7. CASE BodyRaises
  <2>1. /\ LeaseInv' /\ VoiceInv'
        /\ app' \in {"sending", "releasing"} /\ lease' \in {"held", "released"}
        /\ status' \in {"none", "error", "json", "stream"} /\ out' \in Seq(0..MaxCandidates)
    BY <1>2, <1>3, <1>4, <1>7, Raises
  <2>2. RequestTypeOK' BY <1>1, <1>2, <1>4, <2>1 DEF RequestTypeOK, boundaryVars
  <2> QED BY <1>5, <1>6, <2>1, <2>2 DEF IInv
<1>8. CASE ~BodyRaises
  <2>1. /\ UNCHANGED <<status, out>>
        /\ \/ app' = "closing" /\ UNCHANGED lease
           \/ app' = "ended" /\ lease' = "released"
    BY <1>8 DEF BodyDrained
  <2>2. RequestTypeOK' BY <1>1, <1>2, <1>4, <2>1 DEF RequestTypeOK, boundaryVars
  <2>3. LeaseInv' BY <1>1, <1>2, <1>3, <2>1 DEF LeaseInv, InBody
  <2>4. VoiceInv' BY <1>1, <1>2, <2>1 DEF VoiceInv, InBody, OneVoice
  <2> QED BY <1>5, <1>6, <2>2, <2>3, <2>4 DEF IInv
<1> QED BY <1>7, <1>8

\* The cleanup task closes the body before it gives back the lease.
LEMMA CleanupKeeps ==
    ASSUME IInv, StartCleanup \/ CleanupClosesBody \/ CleanupReleases \/ Closed
    PROVE  IInv'
<1>1. RequestTypeOK /\ LeaseInv /\ StreamInv /\ VoiceInv /\ CallInv BY DEF IInv
<1>2. /\ app = "closing"
      /\ UNCHANGED <<boundaryVars, why, candidate, committed, late, wire, status, out>>
      /\ cancelled' \in BOOLEAN
  BY <1>1 DEF StartCleanup, CleanupClosesBody, CleanupReleases, Closed, executorVars,
         answerVars, LeaseInv, RequestTypeOK
<1>3. \/ cleanup = "none" /\ cleanup' = "body" /\ UNCHANGED <<app, lease, upstream>>
      \/ /\ cleanup = "body" /\ cleanup' = "release" /\ UNCHANGED <<app, lease>>
         /\ upstream' = [i \in Candidates |-> IF upstream[i] = "open" THEN "closed"
                                              ELSE upstream[i]]
      \/ cleanup = "release" /\ cleanup' = "done" /\ lease' = "released" /\ UNCHANGED <<app, upstream>>
      \/ cleanup = "done" /\ app' = "ended" /\ UNCHANGED <<cleanup, lease, upstream>>
  BY DEF StartCleanup, CleanupClosesBody, CleanupReleases, Closed, executorVars, answerVars
<1>4. /\ upstream' \in [Candidates -> {"unopened", "open", "closed"}]
      /\ \A i \in Candidates : upstream'[i] = "open" => upstream[i] = "open" /\ cleanup # "body"
  BY <1>1, <1>2, <1>3 DEF RequestTypeOK, StreamInv
<1>5. RequestTypeOK' BY <1>1, <1>2, <1>3, <1>4 DEF RequestTypeOK, boundaryVars
<1>6. LeaseInv' BY <1>1, <1>2, <1>3 DEF LeaseInv, InBody
<1>7. StreamInv' BY <1>1, <1>2, <1>3, <1>4 DEF StreamInv, InBody
<1>8. VoiceInv' BY <1>1, <1>2, <1>3 DEF VoiceInv, InBody, OneVoice
<1>9. CallInv' BY <1>1, <1>2, <1>3 DEF CallInv, boundaryVars
<1> QED BY <1>5, <1>6, <1>7, <1>8, <1>9 DEF IInv

------------------------------------------------------------------------------
(* Theorems                                                                 *)

\* A request starts with nothing open.
LEMMA InitIInv == RequestInit => IInv
<1> SUFFICES ASSUME RequestInit PROVE IInv OBVIOUS
<1>1. RequestTypeOK
  <2>1. out \in Seq(0..MaxCandidates) BY EmptySeq DEF RequestInit
  <2>2. upstream \in [Candidates -> {"unopened", "open", "closed"}] BY DEF RequestInit
  <2>3. unsent \in 0..MaxParts /\ candidate \in 0..MaxCandidates BY DEF RequestInit
  <2>4. queued \in 0..1 BY DEF RequestInit
  <2>5. /\ client \in {"connected", "gone"}
        /\ receiver \in {"listening", "blocked", "seen", "cancelled"}
        /\ boundary \in {"waiting", "stopping", "cleaning", "returned"}
        /\ app \in {"reading", "handling", "pull", "drain", "releasing", "answering",
                    "sending", "closing", "ended"}
        /\ why \in {"none", "timeout", "end", "cancel"}
        /\ wire \in {"none", "json", "sse", "responses"}
        /\ lease \in {"none", "held", "released"}
        /\ cleanup \in {"none", "body", "release", "done"}
        /\ status \in {"none", "error", "json", "stream"}
    BY DEF RequestInit
  <2>6. shut \in BOOLEAN /\ cancelled \in BOOLEAN /\ committed \in BOOLEAN /\ late \in BOOLEAN
    BY DEF RequestInit
  <2> QED BY <2>1, <2>2, <2>3, <2>4, <2>5, <2>6 DEF RequestTypeOK
<1>2. LeaseInv BY DEF RequestInit, LeaseInv, InBody
<1>3. StreamInv BY DEF RequestInit, StreamInv
<1>4. VoiceInv BY DEF RequestInit, VoiceInv, InBody, OneVoice
<1>5. CallInv BY DEF RequestInit, CallInv
<1> QED BY <1>1, <1>2, <1>3, <1>4, <1>5 DEF IInv

\* Every step keeps the invariant.
LEMMA NextIInv == IInv /\ [RequestNext]_callVars => IInv'
<1> SUFFICES ASSUME IInv, [RequestNext]_callVars PROVE IInv' OBVIOUS
<1>1. CASE AppStep
  BY <1>1, ReadPartKeeps, HandlerKeeps, MoveKeeps, BodyDrainedKeeps, CleanupKeeps DEF AppStep
<1>2. CASE ProviderStep
  BY <1>2, TakeChunkKeeps, ProviderLeavesKeeps, FallbackKeeps, MoveKeeps DEF ProviderStep
<1>3. CASE BoundaryStep \/ ClientLeaves \/ ServerCancels BY <1>3, BoundaryStepKeeps
<1>4. CASE DeadlinePasses \/ Sent \/ SendFails BY <1>4, MoveKeeps
<1>5. CASE UNCHANGED callVars
  <2>1. RequestTypeOK'
    BY <1>5 DEF callVars, boundaryVars, executorVars, answerVars, IInv, RequestTypeOK
  <2>2. LeaseInv' /\ StreamInv' /\ VoiceInv' BY <1>5, BoundaryFrame DEF callVars, IInv
  <2>3. CallInv' BY <1>5 DEF callVars, boundaryVars, IInv, CallInv
  <2> QED BY <2>1, <2>2, <2>3 DEF IInv
<1> QED BY <1>1, <1>2, <1>3, <1>4, <1>5 DEF RequestNext

\* The invariant holds in every reachable state of a request.
THEOREM Invariance == RequestSpec => []IInv
<1> QED BY InitIInv, NextIInv, PTL DEF RequestSpec

\* Every variable of a request stays in its range.
THEOREM RequestTyping == RequestSpec => []RequestTypeOK
<1>1. IInv => RequestTypeOK BY DEF IInv
<1> QED BY <1>1, Invariance, PTL

\* An answer is one model's, and what a request opens is live under its lease
\* only, and never after its call (execution.py, response_streams.py,
\* request_lifetime.py).
THEOREM ContainedRequests == RequestSpec => []RequestIsContained
<1>1. IInv => RequestIsContained
  <2> SUFFICES ASSUME IInv PROVE RequestIsContained OBVIOUS
  <2>1. OneVoice BY DEF IInv, VoiceInv
  <2>2. LeaseCoversStreams
    BY DEF IInv, StreamInv, LeaseInv, InBody, LeaseCoversStreams
  <2>3. NothingOutlivesCall
    BY DEF IInv, StreamInv, LeaseInv, CallInv, InBody, NothingOutlivesCall
  <2> QED BY <2>1, <2>2, <2>3 DEF RequestIsContained
<1> QED BY <1>1, Invariance, PTL

-----------------------------------------------------------------------------
(***************************************************************************)
(* WebTools.  What was sent follows from the stage of the request and from *)
(* who answers it: the inductive invariant WebInv has it for the stages    *)
(* (WebStagesInv), the frames (WebFramesInv), the connection of a fetch    *)
(* (HopInv) and the hosts that are shown (HostsInv).                       *)
(***************************************************************************)
Running == {"searching", "resolving", "fetching"}

\* What the stage of a request says of its answer.
WebStagesInv ==
    /\ webStage \in {"received", "refused", "passed", "deciding", "failed", "replaying"} =>
          localAnswer = NoAnswer
    /\ webStage \in {"received", "refused", "passed", "deciding", "failed"} =>
          webSent = << >>
    /\ webStage = "received" => decision = NoDecision
    /\ webStage = "replaying" => decision.calls = << >>
    /\ decision.open => webStage = "deciding"
    /\ webStage \in {"answering"} \cup Running => localAnswer.by \in ServerTools
    /\ webStage \in {"resolving", "fetching"} => localAnswer.by = "web_fetch"
    /\ localAnswer.by = "web_fetch" => webSettings.web
    /\ decision.given # << >> /\ localAnswer.by # Nobody =>
          localAnswer.by = "web_search" /\ IsSearch(decision.calls)

LocalFramesSent ==
    /\ Len(webSent) <= Len(LocalFrames)
    /\ \A k \in 1..Len(webSent) : webSent[k] = LocalFrames[k]

\* What the client got: a part of the local answer, or of the provider's words.
WebFramesInv ==
    /\ localAnswer.by \in ServerTools =>
          /\ LocalFramesSent
          /\ Len(webSent) > Announced => localAnswer.outcome # "none"
          /\ webStage = "answered" => Len(webSent) = Len(LocalFrames)
    /\ localAnswer.by = Nobody /\ webSent # << >> =>
          /\ decision.calls = << >> /\ Len(webSent) <= decision.chunks
          /\ \A k \in 1..Len(webSent) : webSent[k] = Chunk(k)
    /\ localAnswer.by \in FastPathsSet => webSent = << >>
    /\ webStage \in Running => Len(webSent) = Announced
    /\ webStage = "answering" =>
          /\ Len(webSent) < Len(LocalFrames)
          /\ Len(webSent) < Announced \/ localAnswer.outcome # "none"

\* What is connected, and what is shown.
HopInv ==
    hop.pinned # {} =>
        /\ webStage = "fetching"
        /\ WebPlaces[hop.place].scheme \in webSettings.schemes
        /\ webSettings.private \/ hop.pinned = {"public"}
HostsInv ==
    IsAutomatic(webAsk) => \A host \in localAnswer.hosts : Admitted(host, webAsk.tools[1])

WebInv ==
    WebToolsTypeOK /\ ProvidersSeeFunctions /\ WebStagesInv /\ WebFramesInv /\ HopInv /\ HostsInv

LEMMA FastPathNames ==
    /\ FastPathsSet = {"quota", "prefix", "title", "suggestion", "filepath"}
    /\ Len(FastPaths) = 5
    /\ \A k \in 1..5 : FastPaths[k] \in FastPathsSet
<1>1. Len(FastPaths) = 5 BY DEF FastPaths
<1>2. FastPathsSet = {FastPaths[1], FastPaths[2], FastPaths[3], FastPaths[4], FastPaths[5]}
  <2>1. 1..Len(FastPaths) = {1, 2, 3, 4, 5} BY <1>1
  <2> QED BY <2>1 DEF FastPathsSet
<1>3. /\ FastPaths[1] = "quota" /\ FastPaths[2] = "prefix" /\ FastPaths[3] = "title"
      /\ FastPaths[4] = "suggestion" /\ FastPaths[5] = "filepath"
  BY DEF FastPaths
<1>4. \A k \in 1..5 : FastPaths[k] \in FastPathsSet BY <1>1 DEF FastPathsSet
<1> QED BY <1>1, <1>2, <1>3, <1>4

\* The first of the fast paths that apply is one of them.
LEMMA FastPathIsOne ==
    ASSUME NEW a, NEW s, Applying(a, s) # {}
    PROVE  FastPathOf(a, s) \in FastPathsSet
<1> DEFINE S == Applying(a, s)
<1>1. S \subseteq 1..5 /\ S # {} BY FastPathNames DEF Applying
<1> HIDE DEF S
<1>2. \E k \in S : \A j \in S : k <= j
  <2>1. CASE 1 \in S BY <1>1, <2>1
  <2>2. CASE 1 \notin S /\ 2 \in S BY <1>1, <2>2
  <2>3. CASE 1 \notin S /\ 2 \notin S /\ 3 \in S BY <1>1, <2>3
  <2>4. CASE 1 \notin S /\ 2 \notin S /\ 3 \notin S /\ 4 \in S BY <1>1, <2>4
  <2>5. CASE 1 \notin S /\ 2 \notin S /\ 3 \notin S /\ 4 \notin S
    <3>1. PICK k \in S : TRUE BY <1>1
    <3>2. \A j \in S : j = 5 BY <1>1, <2>5
    <3> QED BY <3>1, <3>2
  <2> QED BY <2>1, <2>2, <2>3, <2>4, <2>5
<1>3. (CHOOSE k \in S : \A j \in S : k <= j) \in 1..5 BY <1>1, <1>2
<1> QED BY <1>3, FastPathNames DEF FastPathOf, S

\* The frames of a local answer, by their places.
LEMMA LocalFramesAre ==
    /\ Len(LocalFrames) = 10
    /\ \A k \in 1..10 : LocalFrames[k] \in Frames
    /\ LocalFrames[1] = Frame("message_start", 0)
    /\ LocalFrames[2] = Frame("block_start", 0) /\ LocalFrames[3] = Frame("block_stop", 0)
    /\ LocalFrames[4] = Frame("block_start", 1) /\ LocalFrames[5] = Frame("block_stop", 1)
    /\ LocalFrames[6] = Frame("block_start", 2) /\ LocalFrames[7] = Frame("block_delta", 2)
    /\ LocalFrames[8] = Frame("block_stop", 2)
    /\ LocalFrames[9] = Frame("message_delta", 0)
    /\ LocalFrames[10] = Frame("message_stop", 0)
<1>3. Len(LocalFrames) = 10 BY DEF LocalFrames
<1>4. /\ LocalFrames[1] = Frame("message_start", 0)
      /\ LocalFrames[2] = Frame("block_start", 0) /\ LocalFrames[3] = Frame("block_stop", 0)
      /\ LocalFrames[4] = Frame("block_start", 1) /\ LocalFrames[5] = Frame("block_stop", 1)
      /\ LocalFrames[6] = Frame("block_start", 2) /\ LocalFrames[7] = Frame("block_delta", 2)
      /\ LocalFrames[8] = Frame("block_stop", 2)
      /\ LocalFrames[9] = Frame("message_delta", 0)
      /\ LocalFrames[10] = Frame("message_stop", 0)
  BY DEF LocalFrames
<1>2. \A k \in 1..10 : k \in {1, 2, 3, 4, 5, 6, 7, 8, 9, 10} OBVIOUS
<1>5. ASSUME NEW k \in 1..10 PROVE LocalFrames[k] \in Frames
  <2>2. LocalFrames[1] \in Frames /\ LocalFrames[9] \in Frames /\ LocalFrames[10] \in Frames
    BY <1>4 DEF Frame, Frames
  <2>3. LocalFrames[2] \in Frames /\ LocalFrames[4] \in Frames /\ LocalFrames[6] \in Frames
    BY <1>4 DEF Frame, Frames
  <2>4. LocalFrames[3] \in Frames /\ LocalFrames[5] \in Frames /\ LocalFrames[7] \in Frames
    BY <1>4 DEF Frame, Frames
  <2>5. LocalFrames[8] \in Frames BY <1>4 DEF Frame, Frames
  <2> QED BY <1>2, <2>2, <2>3, <2>4, <2>5
<1> QED BY <1>3, <1>4, <1>5

FrameInPlace(k) ==
    /\ k = 1 <=> webSent[k].event = "message_start"
    /\ webSent[k].event = "block_start" =>
          \A j \in 1..(k - 1) : webSent[j].event = "block_start" =>
             webSent[j].index < webSent[k].index /\ ClosedBetween(j, k - 1)
    /\ webSent[k].event \in {"block_delta", "block_stop"} =>
          \E j \in 1..(k - 1) :
             /\ webSent[j] = Frame("block_start", webSent[k].index)
             /\ ~ClosedBetween(j, k - 1)
    /\ webSent[k].event = "message_stop" =>
          \A j \in 1..(k - 1) :
             webSent[j].event = "block_start" => ClosedBetween(j, k)

\* A part of the local answer from its begin has its blocks closed in order, and
\* ends with the end of the message only if it is whole.
LEMMA LocalPrefixIsWhole ==
    ASSUME LocalFramesSent, NEW n \in Nat, n = Len(webSent)
    PROVE  \A k \in 1..n : FrameInPlace(k)
<1> DEFINE starts == {2, 4, 6}
           E(k) == webSent[k].event
           I(k) == webSent[k].index
<1>1. n <= 10 /\ \A k \in 1..n : k \in 1..10 /\ webSent[k] = LocalFrames[k]
  <2>1. n <= Len(LocalFrames) /\ \A k \in 1..n : webSent[k] = LocalFrames[k]
    BY DEF LocalFramesSent
  <2>2. n <= 10 BY <2>1, LocalFramesAre
  <2>3. \A k \in 1..n : k \in 1..10 BY <2>2
  <2> QED BY <2>1, <2>2, <2>3
<1>3. /\ n >= 1 => E(1) = "message_start" /\ I(1) = 0
      /\ n >= 2 => E(2) = "block_start" /\ I(2) = 0
      /\ n >= 3 => E(3) = "block_stop" /\ I(3) = 0
      /\ n >= 4 => E(4) = "block_start" /\ I(4) = 1
      /\ n >= 5 => E(5) = "block_stop" /\ I(5) = 1
      /\ n >= 6 => E(6) = "block_start" /\ I(6) = 2
      /\ n >= 7 => E(7) = "block_delta" /\ I(7) = 2
      /\ n >= 8 => E(8) = "block_stop" /\ I(8) = 2
      /\ n >= 9 => E(9) = "message_delta" /\ I(9) = 0
      /\ n >= 10 => E(10) = "message_stop" /\ I(10) = 0
  BY <1>1, LocalFramesAre DEF Frame
<1>4. /\ n >= 2 => webSent[2] = Frame("block_start", 0)
      /\ n >= 3 => webSent[3] = Frame("block_stop", 0)
      /\ n >= 4 => webSent[4] = Frame("block_start", 1)
      /\ n >= 5 => webSent[5] = Frame("block_stop", 1)
      /\ n >= 6 => webSent[6] = Frame("block_start", 2)
      /\ n >= 8 => webSent[8] = Frame("block_stop", 2)
  BY <1>1, LocalFramesAre
<1> HIDE DEF E, I
<1>2. /\ \A k \in 1..n : k = 1 <=> E(k) = "message_start"
      /\ \A k \in 1..n : E(k) = "block_start" <=> k \in starts
      /\ \A k \in 1..n : E(k) \in {"block_delta", "block_stop"} <=> k \in {3, 5, 7, 8}
      /\ \A k \in 1..n : E(k) = "message_stop" <=> k = 10
      /\ \A k \in 1..n : E(k) = "block_stop" <=> k \in {3, 5, 8}
  <2> SUFFICES ASSUME NEW k \in 1..n
               PROVE  /\ k = 1 <=> E(k) = "message_start"
                      /\ E(k) = "block_start" <=> k \in starts
                      /\ E(k) \in {"block_delta", "block_stop"} <=> k \in {3, 5, 7, 8}
                      /\ E(k) = "message_stop" <=> k = 10
                      /\ E(k) = "block_stop" <=> k \in {3, 5, 8}
    OBVIOUS
  <2>1. n >= k /\ k \in {1, 2, 3, 4, 5, 6, 7, 8, 9, 10} BY <1>1
  <2> QED BY <1>3, <2>1
<1>6. \A j \in 1..n : \A k \in 1..n :
         \/ j = 2 /\ k >= 3
         \/ j = 4 /\ k >= 5
         \/ j = 6 /\ k >= 8
         => ClosedBetween(j, k)
  <2> SUFFICES ASSUME NEW j \in 1..n, NEW k \in 1..n
               PROVE  /\ j = 2 /\ k >= 3 => ClosedBetween(j, k)
                      /\ j = 4 /\ k >= 5 => ClosedBetween(j, k)
                      /\ j = 6 /\ k >= 8 => ClosedBetween(j, k)
    OBVIOUS
  <2>1. ASSUME j = 2, k >= 3 PROVE ClosedBetween(j, k)
    <3>1. 3 \in j..k /\ n >= 3 BY <1>1, <2>1
    <3>2. webSent[3] = Frame("block_stop", webSent[j].index) BY <1>3, <1>4, <2>1, <3>1 DEF I
    <3> QED BY <3>1, <3>2 DEF ClosedBetween
  <2>2. ASSUME j = 4, k >= 5 PROVE ClosedBetween(j, k)
    <3>1. 5 \in j..k /\ n >= 5 BY <1>1, <2>2
    <3>2. webSent[5] = Frame("block_stop", webSent[j].index) BY <1>3, <1>4, <2>2, <3>1 DEF I
    <3> QED BY <3>1, <3>2 DEF ClosedBetween
  <2>3. ASSUME j = 6, k >= 8 PROVE ClosedBetween(j, k)
    <3>1. 8 \in j..k /\ n >= 8 BY <1>1, <2>3
    <3>2. webSent[8] = Frame("block_stop", webSent[j].index) BY <1>3, <1>4, <2>3, <3>1 DEF I
    <3> QED BY <3>1, <3>2 DEF ClosedBetween
  <2> QED BY <2>1, <2>2, <2>3
<1>7. ASSUME NEW j \in 1..n, NEW k \in 1..n, \A i \in j..k : i \notin {3, 5, 8}
      PROVE  ~ClosedBetween(j, k)
  <2>1. ASSUME ClosedBetween(j, k) PROVE FALSE
    <3>1. PICK i \in j..k : webSent[i] = Frame("block_stop", webSent[j].index)
      BY <2>1 DEF ClosedBetween
    <3>2. i \in 1..n BY <1>1, <3>1
    <3>3. E(i) = "block_stop" BY <3>1 DEF Frame, E
    <3> QED BY <1>2, <1>7, <3>1, <3>2, <3>3
  <2> QED BY <2>1
<1> TAKE k \in 1..n
<1>8. n \in Int /\ k \in 1..10 /\ k <= n BY <1>1
<1>9. ASSUME E(k) = "block_start", NEW j \in 1..(k - 1), E(j) = "block_start"
      PROVE  I(j) < I(k) /\ ClosedBetween(j, k - 1)
  <2>1. j \in 1..n /\ k - 1 \in 1..n /\ k \in starts /\ j \in starts /\ j < k
    BY <1>2, <1>8, <1>9
  <2>2. \/ j = 2 /\ k = 4
        \/ j = 2 /\ k = 6
        \/ j = 4 /\ k = 6
    BY <2>1
  <2>3. I(j) < I(k) BY <1>3, <1>8, <2>2
  <2> QED BY <1>6, <2>1, <2>2, <2>3
<1>10. ASSUME E(k) \in {"block_delta", "block_stop"}
       PROVE  \E j \in 1..(k - 1) :
                 webSent[j] = Frame("block_start", I(k)) /\ ~ClosedBetween(j, k - 1)
  <2>1. k \in {3, 5, 7, 8} BY <1>2, <1>10
  <2>2. CASE k = 3
    <3>1. webSent[2] = Frame("block_start", I(k)) BY <1>3, <1>4, <1>8, <2>2
    <3>2. ~ClosedBetween(2, k - 1) BY <1>7, <1>8, <2>2
    <3> QED BY <2>2, <3>1, <3>2
  <2>3. CASE k = 5
    <3>1. webSent[4] = Frame("block_start", I(k)) BY <1>3, <1>4, <1>8, <2>3
    <3>2. ~ClosedBetween(4, k - 1) BY <1>7, <1>8, <2>3
    <3> QED BY <2>3, <3>1, <3>2
  <2>4. CASE k \in {7, 8}
    <3>1. webSent[6] = Frame("block_start", I(k)) BY <1>3, <1>4, <1>8, <2>4
    <3>2. ~ClosedBetween(6, k - 1) BY <1>7, <1>8, <2>4
    <3> QED BY <2>4, <3>1, <3>2
  <2> QED BY <2>1, <2>2, <2>3, <2>4
<1>11. ASSUME E(k) = "message_stop", NEW j \in 1..(k - 1), E(j) = "block_start"
       PROVE  ClosedBetween(j, k)
  <2>1. j \in 1..n /\ k = 10 /\ j \in starts BY <1>2, <1>8, <1>11
  <2> QED BY <1>6, <2>1
<1>12. k = 1 <=> E(k) = "message_start" BY <1>2
<1> QED BY <1>9, <1>10, <1>11, <1>12 DEF FrameInPlace, E, I

Decisions == [given : Seq(MessageRequests), open : BOOLEAN, chunks : 0..MaxBuffered,
              calls : Seq(Calls)]
LocalAnswers == [by : {Nobody} \cup ServerTools \cup FastPathsSet,
                 outcome : {"none", "results", "page", "error"}, hosts : SUBSET Hosts]
Hops == [place : DOMAIN WebPlaces, redirects : 0..MaxRedirects,
         pinned : SUBSET {"public", "private"}, body : 0..BodyCap]

LEMMA WebInitInv == WebToolsInit => WebInv
<1> SUFFICES ASSUME WebToolsInit PROVE WebInv OBVIOUS
<1> USE DEF WebToolsInit, WebStarts
<1>1. webAsk \in MessageRequests /\ webSettings \in WebSettings BY WebToolsAssumption
<1>2. decision \in Decisions
  <2>1. << >> \in Seq(MessageRequests) /\ << >> \in Seq(Calls) OBVIOUS
  <2>2. 0 \in 0..MaxBuffered BY WebToolsAssumption
  <2> QED BY <2>1, <2>2 DEF Decisions, NoDecision
<1>3. localAnswer \in LocalAnswers BY DEF LocalAnswers, NoAnswer
<1>4. hop \in Hops
  <2>1. webAsk.place \in DOMAIN WebPlaces BY <1>1 DEF MessageRequests
  <2>2. 0 \in 0..MaxRedirects /\ 0 \in 0..BodyCap BY WebToolsAssumption
  <2> QED BY <2>1, <2>2 DEF Hops, HopTo
<1>5. webSent \in Seq(Frames) OBVIOUS
<1>6. WebToolsTypeOK
  BY <1>1, <1>2, <1>3, <1>4, <1>5 DEF WebToolsTypeOK, Decisions, LocalAnswers, Hops
<1>7. ProvidersSeeFunctions BY DEF ProvidersSeeFunctions, NoDecision
<1>8. WebStagesInv BY FastPathNames DEF WebStagesInv, NoAnswer, NoDecision, Running, ServerTools, Nobody
<1>9. WebFramesInv BY FastPathNames DEF WebFramesInv, NoAnswer, Running, ServerTools, Nobody
<1>10. HopInv /\ HostsInv BY DEF HopInv, HostsInv, HopTo, NoAnswer
<1> QED BY <1>6, <1>7, <1>8, <1>9, <1>10 DEF WebInv

LEMMA WebTypes ==
    ASSUME WebToolsTypeOK
    PROVE  /\ decision \in Decisions /\ localAnswer \in LocalAnswers /\ hop \in Hops
           /\ webSent \in Seq(Frames) /\ Len(webSent) \in Nat
BY LenProperties DEF WebToolsTypeOK, Decisions, LocalAnswers, Hops

\* What the steps change of a typed record.
LEMMA DecisionChanges ==
    ASSUME NEW d \in Decisions
    PROVE  /\ \A o \in BOOLEAN : \A g \in Seq(MessageRequests) :
                 [d EXCEPT !.open = o, !.given = g] \in Decisions
           /\ \A g \in Seq(MessageRequests) : [d EXCEPT !.given = g] \in Decisions
           /\ \A n \in 0..MaxBuffered : [d EXCEPT !.chunks = n] \in Decisions
           /\ \A o \in BOOLEAN : \A c \in Seq(Calls) :
                 [d EXCEPT !.open = o, !.calls = c] \in Decisions
           /\ \A o \in BOOLEAN : [d EXCEPT !.open = o] \in Decisions
BY DEF Decisions

LEMMA AnswerChanges ==
    ASSUME NEW l \in LocalAnswers
    PROVE  /\ \A b \in ServerTools \cup FastPathsSet : [l EXCEPT !.by = b] \in LocalAnswers
           /\ \A o \in {"none", "results", "page", "error"} : \A h \in SUBSET Hosts :
                 [l EXCEPT !.outcome = o, !.hosts = h] \in LocalAnswers
BY DEF LocalAnswers

\* What a step that leaves its variables alone keeps.
LEMMA SameProviders ==
    ASSUME ProvidersSeeFunctions, decision'.given = decision.given, webAsk' = webAsk
    PROVE  ProvidersSeeFunctions'
BY DEF ProvidersSeeFunctions

LEMMA SameHosts ==
    ASSUME HostsInv, webAsk' = webAsk, localAnswer'.hosts = localAnswer.hosts
    PROVE  HostsInv'
BY DEF HostsInv

LEMMA ClosedHop == ASSUME hop'.pinned = {} PROVE HopInv'
BY DEF HopInv

LEMMA SameFrames == ASSUME LocalFramesSent, webSent' = webSent PROVE LocalFramesSent'
BY DEF LocalFramesSent

LEMMA Parties ==
    /\ ServerTools = {"web_search", "web_fetch"} /\ Nobody \notin ServerTools
    /\ FastPathsSet \cap ServerTools = {} /\ Nobody \notin FastPathsSet
    /\ Nobody # "web_search" /\ Nobody # "web_fetch"
BY FastPathNames DEF ServerTools, Nobody

LEMMA RefuseInv == WebInv /\ Refuse => WebInv'
<1> SUFFICES ASSUME WebInv, Refuse PROVE WebInv' OBVIOUS
<1> USE DEF Refuse, Arrives
<1>1. WebToolsTypeOK' BY DEF WebInv, WebToolsTypeOK
<1>2. ProvidersSeeFunctions' BY SameProviders DEF WebInv
<1>3. webSent = << >> /\ localAnswer = NoAnswer /\ decision = NoDecision
  BY DEF WebInv, WebStagesInv
<1>4. WebStagesInv' BY <1>3, Parties DEF WebStagesInv, NoAnswer, NoDecision, Running
<1>5. WebFramesInv' BY <1>3, Parties DEF WebFramesInv, NoAnswer, Running
<1>6. HopInv' /\ HostsInv' BY SameHosts DEF WebInv, HopInv
<1> QED BY <1>1, <1>2, <1>4, <1>5, <1>6 DEF WebInv

LEMMA AskForDecisionInv == WebInv /\ AskForDecision => WebInv'
<1> SUFFICES ASSUME WebInv, AskForDecision PROVE WebInv' OBVIOUS
<1> USE DEF AskForDecision, Arrives
<1> DEFINE r == [webAsk EXCEPT !.tools = <<HiddenSearch>>]
<1>1. webSent = << >> /\ localAnswer = NoAnswer /\ decision = NoDecision
  BY DEF WebInv, WebStagesInv
<1>2. decision' = [decision EXCEPT !.open = TRUE, !.given = <<r>>] OBVIOUS
<1>3. HiddenSearch \in ToolDefinitions BY DEF HiddenSearch, ToolDefinitions, ServerTools
<1>4. r \in MessageRequests
  <2>1. webAsk \in MessageRequests BY DEF WebInv, WebToolsTypeOK
  <2>2. <<HiddenSearch>> \in Seq(ToolDefinitions) BY <1>3
  <2> QED BY <2>1, <2>2 DEF MessageRequests
<1>5. /\ decision' \in Decisions /\ decision'.given = <<r>> /\ decision'.open = TRUE
      /\ decision'.calls = << >>
  <2>1. decision \in Decisions BY WebTypes DEF WebInv
  <2>2. <<r>> \in Seq(MessageRequests) BY <1>4
  <2>3. decision.calls = << >> BY <1>1 DEF NoDecision
  <2> HIDE DEF r
  <2>4. decision' \in Decisions BY <1>2, <2>1, <2>2, DecisionChanges
  <2> QED BY <1>2, <2>1, <2>3, <2>4 DEF Decisions
<1>6. WebToolsTypeOK' BY <1>5 DEF WebInv, WebToolsTypeOK, Decisions
<1>7. ServerToolsOf(r) = {} /\ ~ForcesOne(r) /\ ~IsClassifier(r)
  <2>1. webAsk \in MessageRequests BY DEF WebInv, WebToolsTypeOK
  <2>2. r.tools = <<HiddenSearch>> /\ r.choice = webAsk.choice BY <2>1 DEF MessageRequests
  <2>3. r.choice \in {"absent", "auto"} BY <2>2 DEF IsAutomatic
  <2> HIDE DEF r
  <2>4. \A i \in 1..Len(r.tools) : r.tools[i] = HiddenSearch BY <2>2
  <2>5. ServerToolsOf(r) = {} BY <2>4 DEF ServerToolsOf, IsServerTool, HiddenSearch
  <2>6. ~ForcesOne(r) BY <2>3 DEF ForcesOne, Forces, ServerTools
  <2>7. ~IsClassifier(r) BY <2>2 DEF IsClassifier
  <2> QED BY <2>5, <2>6, <2>7
<1> HIDE DEF r
<1>8. ProvidersSeeFunctions'
  <2>1. \A request \in {decision'.given[k] : k \in 1..Len(decision'.given)} : request = r
    BY <1>5
  <2> QED BY <1>7, <2>1 DEF ProvidersSeeFunctions
<1>9. WebStagesInv' BY <1>1, <1>5, Parties DEF WebStagesInv, NoAnswer, Running
<1>10. WebFramesInv' BY <1>1, Parties DEF WebFramesInv, NoAnswer, Running
<1>11. HopInv' /\ HostsInv' BY SameHosts DEF WebInv, HopInv
<1> QED BY <1>6, <1>8, <1>9, <1>10, <1>11 DEF WebInv

LEMMA RunForcedInv == ASSUME NEW tool \in ServerTools PROVE WebInv /\ RunForced(tool) => WebInv'
<1> SUFFICES ASSUME WebInv, RunForced(tool) PROVE WebInv' OBVIOUS
<1> USE DEF RunForced, Arrives
<1>1. webSent = << >> /\ localAnswer = NoAnswer /\ decision = NoDecision
  BY DEF WebInv, WebStagesInv
<1>2. localAnswer' \in LocalAnswers /\ localAnswer'.by = tool /\ localAnswer'.hosts = localAnswer.hosts
  <2>1. localAnswer \in LocalAnswers BY WebTypes DEF WebInv
  <2>2. localAnswer' \in LocalAnswers BY <2>1, AnswerChanges
  <2> QED BY <2>1, <2>2 DEF LocalAnswers
<1>3. WebToolsTypeOK' BY <1>2 DEF WebInv, WebToolsTypeOK, LocalAnswers
<1>4. ProvidersSeeFunctions' BY SameProviders DEF WebInv
<1>5. WebStagesInv' BY <1>1, <1>2, Parties DEF WebStagesInv, NoAnswer, NoDecision, Running
<1>6. WebFramesInv' BY <1>1, <1>2, Parties, LocalFramesAre DEF WebFramesInv, LocalFramesSent, Announced, Running
<1>7. HopInv' /\ HostsInv' BY <1>2, SameHosts DEF WebInv, HopInv
<1> QED BY <1>3, <1>4, <1>5, <1>6, <1>7 DEF WebInv

LEMMA AnswerAtOnceInv == WebInv /\ AnswerAtOnce => WebInv'
<1> SUFFICES ASSUME WebInv, AnswerAtOnce PROVE WebInv' OBVIOUS
<1> USE DEF AnswerAtOnce, Arrives
<1> DEFINE path == FastPathOf(webAsk, webSettings)
<1>1. webSent = << >> /\ localAnswer = NoAnswer /\ decision = NoDecision
  BY DEF WebInv, WebStagesInv
<1>2. path \in FastPathsSet BY FastPathIsOne
<1>3. localAnswer' = [localAnswer EXCEPT !.by = path] OBVIOUS
<1> HIDE DEF path
<1>4. localAnswer' \in LocalAnswers /\ localAnswer'.by = path /\ localAnswer'.hosts = localAnswer.hosts
  <2>1. localAnswer \in LocalAnswers BY WebTypes DEF WebInv
  <2>2. localAnswer' \in LocalAnswers BY <1>2, <1>3, <2>1, AnswerChanges
  <2> QED BY <1>3, <2>1, <2>2 DEF LocalAnswers
<1>5. WebToolsTypeOK' BY <1>4 DEF WebInv, WebToolsTypeOK, LocalAnswers
<1>6. ProvidersSeeFunctions' BY SameProviders DEF WebInv
<1>7. WebStagesInv' BY <1>1, <1>2, <1>4, Parties DEF WebStagesInv, NoAnswer, NoDecision, Running
<1>8. WebFramesInv' BY <1>1, <1>2, <1>4, Parties DEF WebFramesInv, Running
<1>9. HopInv' /\ HostsInv' BY <1>4, SameHosts DEF WebInv, HopInv
<1> QED BY <1>5, <1>6, <1>7, <1>8, <1>9 DEF WebInv

LEMMA PassOnInv == WebInv /\ PassOn => WebInv'
<1> SUFFICES ASSUME WebInv, PassOn PROVE WebInv' OBVIOUS
<1> USE DEF PassOn, Arrives
<1> DEFINE r == Classified(webAsk)
<1>1. webSent = << >> /\ localAnswer = NoAnswer /\ decision = NoDecision
  BY DEF WebInv, WebStagesInv
<1>2. webAsk \in MessageRequests BY DEF WebInv, WebToolsTypeOK
<1>3. /\ r \in MessageRequests /\ r.tools = webAsk.tools /\ r.choice = webAsk.choice
      /\ r.words = webAsk.words
      /\ IsClassifier(webAsk) => ~r.reasoning /\ r.stops = webAsk.stops \ {"classifier"}
  <2>1. CASE IsClassifier(webAsk)
    <3>1. r = [webAsk EXCEPT !.stops = @ \ {"classifier"}, !.reasoning = FALSE]
      BY <2>1 DEF Classified
    <3>2. webAsk.stops \ {"classifier"} \in SUBSET {"classifier", "own"} BY <1>2 DEF MessageRequests
    <3> HIDE DEF r
    <3> QED BY <1>2, <3>1, <3>2 DEF MessageRequests
  <2>2. CASE ~IsClassifier(webAsk) BY <1>2, <2>2 DEF Classified
  <2> QED BY <2>1, <2>2
<1>4. decision' = [decision EXCEPT !.given = <<r>>] OBVIOUS
<1>5. ServerToolsOf(webAsk) = {} /\ ~ForcesOne(webAsk) BY DEF Rejected
<1> HIDE DEF r
<1>6. /\ decision' \in Decisions /\ decision'.given = <<r>> /\ decision'.open = FALSE
  <2>1. decision \in Decisions BY WebTypes DEF WebInv
  <2>2. <<r>> \in Seq(MessageRequests) BY <1>3
  <2>3. decision.open = FALSE BY <1>1 DEF NoDecision
  <2>4. decision' \in Decisions BY <1>4, <2>1, <2>2, DecisionChanges
  <2> QED BY <1>4, <2>1, <2>3, <2>4 DEF Decisions
<1>7. WebToolsTypeOK' BY <1>6 DEF WebInv, WebToolsTypeOK, Decisions
<1>8. ProvidersSeeFunctions'
  <2>1. \A request \in {decision'.given[k] : k \in 1..Len(decision'.given)} : request = r
    BY <1>6
  <2>2. ServerToolsOf(r) = {} /\ ~ForcesOne(r)
    BY <1>3, <1>5 DEF ServerToolsOf, ForcesOne, Forces
  <2>3. IsClassifier(r) => ~r.reasoning /\ r.stops = webAsk'.stops \ {"classifier"}
    BY <1>3 DEF IsClassifier
  <2> QED BY <2>1, <2>2, <2>3 DEF ProvidersSeeFunctions
<1>9. WebStagesInv' BY <1>1, <1>6, Parties DEF WebStagesInv, NoAnswer, Running
<1>10. WebFramesInv' BY <1>1, Parties DEF WebFramesInv, NoAnswer, Running
<1>11. HopInv' /\ HostsInv' BY SameHosts DEF WebInv, HopInv
<1> QED BY <1>7, <1>8, <1>9, <1>10, <1>11 DEF WebInv

LEMMA BufferInv == WebInv /\ Buffer => WebInv'
<1> SUFFICES ASSUME WebInv, Buffer PROVE WebInv' OBVIOUS
<1> USE DEF Buffer
<1>1. webSent = << >> /\ localAnswer = NoAnswer BY DEF WebInv, WebStagesInv
<1>2. /\ decision' \in Decisions /\ decision'.given = decision.given
      /\ decision'.open = decision.open /\ decision'.calls = decision.calls
  <2>1. decision \in Decisions BY WebTypes DEF WebInv
  <2>2. decision.chunks + 1 \in 0..MaxBuffered BY <2>1, WebToolsAssumption DEF Decisions
  <2>3. decision' \in Decisions BY <2>1, <2>2, DecisionChanges
  <2> QED BY <2>1, <2>3 DEF Decisions
<1>3. WebToolsTypeOK' BY <1>2 DEF WebInv, WebToolsTypeOK, Decisions
<1>4. ProvidersSeeFunctions' BY <1>2, SameProviders DEF WebInv
<1>5. WebStagesInv' BY <1>1, <1>2, Parties DEF WebStagesInv, NoAnswer, Running
<1>6. WebFramesInv' BY <1>1, Parties DEF WebFramesInv, NoAnswer, Running
<1>7. HopInv' /\ HostsInv' BY SameHosts DEF WebInv, HopInv
<1> QED BY <1>3, <1>4, <1>5, <1>6, <1>7 DEF WebInv

\* What the end of the provider's decision leaves.
LEMMA Settled ==
    ASSUME WebInv, NEW stage, NEW calls \in Seq(Calls), Settles(stage, calls)
    PROVE  /\ webSent = << >> /\ localAnswer = NoAnswer
           /\ decision' \in Decisions /\ decision'.given = decision.given
           /\ decision'.open = FALSE /\ decision'.calls = calls
<1> USE DEF Settles
<1>1. webSent = << >> /\ localAnswer = NoAnswer BY DEF WebInv, WebStagesInv
<1>2. decision \in Decisions BY WebTypes DEF WebInv
<1>3. decision' \in Decisions BY <1>2, DecisionChanges
<1> QED BY <1>1, <1>2, <1>3 DEF Decisions

LEMMA DecisionFailsInv == WebInv /\ DecisionFails => WebInv'
<1> SUFFICES ASSUME WebInv, DecisionFails PROVE WebInv' OBVIOUS
<1> USE DEF DecisionFails
<1>1. << >> \in Seq(Calls) OBVIOUS
<1>2. /\ webSent = << >> /\ localAnswer = NoAnswer
      /\ decision' \in Decisions /\ decision'.given = decision.given
      /\ decision'.open = FALSE
  BY <1>1, Settled
<1> USE DEF Settles
<1>3. WebToolsTypeOK' BY <1>2 DEF WebInv, WebToolsTypeOK, Decisions
<1>4. ProvidersSeeFunctions' BY <1>2, SameProviders DEF WebInv
<1>5. WebStagesInv' BY <1>2, Parties DEF WebStagesInv, NoAnswer, Running
<1>6. WebFramesInv' BY <1>2, Parties DEF WebFramesInv, NoAnswer, Running
<1>7. HopInv' /\ HostsInv' BY SameHosts DEF WebInv, HopInv
<1> QED BY <1>3, <1>4, <1>5, <1>6, <1>7 DEF WebInv

LEMMA DecideInv == ASSUME NEW calls \in Seq(Calls) PROVE WebInv /\ Decide(calls) => WebInv'
<1> SUFFICES ASSUME WebInv, Decide(calls) PROVE WebInv' OBVIOUS
<1>1. PICK stage \in {"replaying", "answering", "failed"} :
         /\ Settles(stage, calls)
         /\ stage = "replaying" => calls = << >>
         /\ IF stage = "answering"
            THEN IsSearch(calls) /\ localAnswer' = [localAnswer EXCEPT !.by = "web_search"]
            ELSE localAnswer' = localAnswer
  BY DEF Decide
<1>2. /\ webSent = << >> /\ localAnswer = NoAnswer
      /\ decision' \in Decisions /\ decision'.given = decision.given
      /\ decision'.open = FALSE /\ decision'.calls = calls
  BY <1>1, Settled
<1>3. /\ localAnswer' \in LocalAnswers /\ localAnswer'.hosts = localAnswer.hosts
      /\ localAnswer'.by = IF stage = "answering" THEN "web_search" ELSE Nobody
  <2>1. localAnswer \in LocalAnswers /\ localAnswer.by = Nobody
    BY <1>2, WebTypes DEF WebInv, NoAnswer
  <2>2. CASE stage = "answering"
    <3>1. "web_search" \in ServerTools \cup FastPathsSet BY Parties
    <3>2. localAnswer' = [localAnswer EXCEPT !.by = "web_search"] BY <1>1, <2>2
    <3>3. localAnswer' \in LocalAnswers BY <2>1, <3>1, <3>2, AnswerChanges
    <3> QED BY <2>1, <2>2, <3>2, <3>3 DEF LocalAnswers
  <2>3. CASE stage # "answering" BY <1>1, <2>1, <2>3
  <2> QED BY <2>2, <2>3
<1>4. WebToolsTypeOK' BY <1>1, <1>2, <1>3 DEF Settles, WebInv, WebToolsTypeOK, Decisions, LocalAnswers
<1>5. ProvidersSeeFunctions' BY <1>1, <1>2, SameProviders DEF WebInv, Settles
<1>6. WebStagesInv'
  <2>1. CASE stage = "answering" BY <1>1, <1>2, <1>3, <2>1, Parties DEF WebStagesInv, Settles, Running
  <2>2. CASE stage # "answering"
    <3>1. localAnswer' = NoAnswer /\ stage \in {"replaying", "failed"} BY <1>1, <1>2, <2>2
    <3> QED BY <1>1, <1>2, <3>1, Parties DEF WebStagesInv, Settles, Running, NoAnswer
  <2> QED BY <2>1, <2>2
<1>7. WebFramesInv'
  BY <1>1, <1>2, <1>3, Parties, LocalFramesAre
  DEF WebFramesInv, LocalFramesSent, Announced, Settles, Running
<1>8. HopInv' /\ HostsInv' BY <1>1, <1>3, SameHosts DEF WebInv, HopInv, Settles
<1> QED BY <1>4, <1>5, <1>6, <1>7, <1>8 DEF WebInv

LEMMA ReplayInv == WebInv /\ Replay => WebInv'
<1> SUFFICES ASSUME WebInv, Replay PROVE WebInv' OBVIOUS
<1> USE DEF Replay
<1>1. localAnswer = NoAnswer /\ localAnswer.by = Nobody /\ decision.calls = << >>
  BY DEF WebInv, WebStagesInv, NoAnswer
<1>2. webSent \in Seq(Frames) /\ Len(webSent) \in Nat BY WebTypes DEF WebInv
<1>3. CASE Len(webSent) < decision.chunks
  <2> DEFINE c == Chunk(Len(webSent) + 1)
  <2>1. c \in Frames BY <1>2 DEF Chunk, Frame, Frames
  <2>2. webSent' = Append(webSent, c) /\ webStage' = webStage BY <1>3
  <2> HIDE DEF c
  <2>3. /\ webSent' \in Seq(Frames) /\ Len(webSent') = Len(webSent) + 1
        /\ \A k \in 1..Len(webSent) : webSent'[k] = webSent[k]
        /\ webSent'[Len(webSent) + 1] = c
    BY <1>2, <2>1, <2>2, AppendProperties
  <2>4. WebToolsTypeOK' BY <2>2, <2>3 DEF WebInv, WebToolsTypeOK
  <2>5. ProvidersSeeFunctions' BY SameProviders DEF WebInv
  <2>6. WebStagesInv' BY <1>1, <2>2 DEF WebInv, WebStagesInv
  <2>7. \A k \in 1..Len(webSent') : webSent'[k] = Chunk(k)
    <3>1. \A k \in 1..Len(webSent) : webSent[k] = Chunk(k)
      BY <1>1, <1>2 DEF WebInv, WebFramesInv
    <3>2. \A k \in 1..Len(webSent') : k \in 1..Len(webSent) \/ k = Len(webSent) + 1
      BY <1>2, <2>3
    <3> QED BY <2>3, <3>1, <3>2 DEF c
  <2>8. decision \in Decisions /\ decision.chunks \in Int BY WebTypes DEF WebInv, Decisions
  <2>9. Len(webSent') <= decision.chunks BY <1>2, <1>3, <2>3, <2>8
  <2>10. WebFramesInv' BY <1>1, <2>2, <2>7, <2>9, Parties DEF WebFramesInv, Running
  <2>11. HopInv' /\ HostsInv' BY SameHosts DEF WebInv, HopInv
  <2> QED BY <2>4, <2>5, <2>6, <2>10, <2>11 DEF WebInv
<1>4. CASE ~(Len(webSent) < decision.chunks)
  <2>1. webStage' = "answered" /\ webSent' = webSent BY <1>4
  <2>2. WebToolsTypeOK' BY <2>1 DEF WebInv, WebToolsTypeOK
  <2>3. ProvidersSeeFunctions' BY SameProviders DEF WebInv
  <2>4. WebStagesInv' BY <1>1, <2>1, Parties DEF WebInv, WebStagesInv, Running
  <2>5. WebFramesInv' BY <1>1, <2>1, Parties DEF WebInv, WebFramesInv, Running
  <2>6. HopInv' /\ HostsInv' BY SameHosts DEF WebInv, HopInv
  <2> QED BY <2>2, <2>3, <2>4, <2>5, <2>6 DEF WebInv
<1> QED BY <1>3, <1>4

LEMMA SendFrameInv == WebInv /\ SendFrame => WebInv'
<1> SUFFICES ASSUME WebInv, SendFrame PROVE WebInv' OBVIOUS
<1> USE DEF SendFrame
<1> DEFINE n == Len(webSent) + 1
           f == LocalFrames[n]
<1>1. /\ localAnswer.by \in ServerTools /\ ~decision.open
      /\ LocalFramesSent /\ Len(webSent) < Len(LocalFrames)
      /\ Len(webSent) < Announced \/ localAnswer.outcome # "none"
  BY DEF WebInv, WebStagesInv, WebFramesInv
<1>2. webSent \in Seq(Frames) /\ Len(webSent) \in Nat BY WebTypes DEF WebInv
<1>3. n \in 1..10 /\ f \in Frames
  <2>1. Len(webSent) < 10 BY <1>1, LocalFramesAre
  <2>2. n \in 1..10 BY <1>2, <2>1
  <2> QED BY <2>2, LocalFramesAre
<1>4. webSent' = Append(webSent, f) OBVIOUS
<1> HIDE DEF f
<1>5. /\ webSent' \in Seq(Frames) /\ Len(webSent') = n
      /\ \A k \in 1..Len(webSent) : webSent'[k] = webSent[k]
      /\ webSent'[n] = f
  BY <1>2, <1>3, <1>4, AppendProperties
<1>6. /\ n = 10 => webStage' = "answered"
      /\ n # 10 /\ n # 3 => webStage' = "answering"
      /\ n = 3 => webStage' = IF localAnswer.by = "web_search" THEN "searching" ELSE "resolving"
  <2>1. n = Len(LocalFrames) <=> n = 10 BY LocalFramesAre
  <2>2. n # Announced <=> n # 3 BY DEF Announced
  <2> DEFINE m == n
  <2>3. webStage' = IF m = Len(LocalFrames) THEN "answered"
                    ELSE IF m # Announced THEN "answering"
                    ELSE IF localAnswer.by = "web_search" THEN "searching"
                    ELSE "resolving"
    OBVIOUS
  <2>4. CASE n = 10 BY <2>1, <2>2, <2>3, <2>4
  <2>5. CASE n # 10 /\ n # 3 BY <2>1, <2>2, <2>3, <2>5
  <2>6. CASE n = 3 BY <2>1, <2>2, <2>3, <2>6
  <2> QED BY <2>4, <2>5, <2>6
<1>7. webStage' \in {"answered", "answering", "searching", "resolving"} BY <1>6
<1>8. WebToolsTypeOK' BY <1>5, <1>7 DEF WebInv, WebToolsTypeOK
<1>9. ProvidersSeeFunctions' BY SameProviders DEF WebInv
<1>10. WebStagesInv' BY <1>1, <1>6, <1>7, Parties DEF WebInv, WebStagesInv, Running
<1>11. LocalFramesSent'
  <2>1. \A k \in 1..Len(webSent') : k \in 1..Len(webSent) \/ k = n BY <1>2, <1>5
  <2>2. \A k \in 1..Len(webSent') : webSent'[k] = LocalFrames[k]
    BY <1>1, <1>5, <2>1 DEF LocalFramesSent, f
  <2>3. Len(webSent') <= Len(LocalFrames) BY <1>3, <1>5, LocalFramesAre
  <2> QED BY <2>2, <2>3 DEF LocalFramesSent
<1>12. WebFramesInv'
  <2>1. Len(LocalFrames) = 10 /\ Announced = 3 BY LocalFramesAre DEF Announced
  <2>2. localAnswer.by # Nobody /\ localAnswer.by \notin FastPathsSet BY <1>1, Parties
  <2>3. n > 3 => localAnswer.outcome # "none" BY <1>1, <1>2, <2>1
  <2>4. webStage' = "answering" => n < 10 /\ n # 3 BY <1>3, <1>6
  <2>5. webStage' = "answered" => n = 10 BY <1>3, <1>6
  <2>6. webStage' \in Running => n = 3 BY <1>3, <1>6 DEF Running
  <2>7. n \in 1..10 /\ (n < 3 \/ n = 3 \/ n > 3) BY <1>3
  <2> HIDE DEF n
  <2> QED BY <1>5, <1>11, <2>1, <2>2, <2>3, <2>4, <2>5, <2>6, <2>7 DEF WebFramesInv
<1>13. HopInv' /\ HostsInv' BY SameHosts DEF WebInv, HopInv
<1> QED BY <1>8, <1>9, <1>10, <1>12, <1>13 DEF WebInv

\* The end of a tool's run: the answer goes on with what it found.
LEMMA ConcludesInv ==
    ASSUME WebInv, webStage \in Running, hop' \in Hops, hop'.pinned = {},
           NEW outcome \in {"results", "page", "error"}, NEW hosts \in SUBSET Hosts,
           Concludes(outcome, hosts),
           IsAutomatic(webAsk) => \A host \in hosts : Admitted(host, webAsk.tools[1])
    PROVE  WebInv'
<1> USE DEF Concludes
<1>1. /\ localAnswer' \in LocalAnswers /\ localAnswer'.by = localAnswer.by
      /\ localAnswer'.outcome = outcome /\ localAnswer'.hosts = hosts
  <2>1. localAnswer \in LocalAnswers BY WebTypes DEF WebInv
  <2>2. localAnswer' \in LocalAnswers BY <2>1, AnswerChanges
  <2> QED BY <2>1, <2>2 DEF LocalAnswers
<1>2. localAnswer.by \in ServerTools /\ ~decision.open /\ Len(webSent) = Announced
  BY DEF WebInv, WebStagesInv, WebFramesInv, Running
<1>3. WebToolsTypeOK' BY <1>1 DEF WebInv, WebToolsTypeOK, LocalAnswers, Hops
<1>4. ProvidersSeeFunctions' BY SameProviders DEF WebInv
<1>5. WebStagesInv' BY <1>1, <1>2, Parties DEF WebInv, WebStagesInv, Running
<1>6. WebFramesInv'
  <2>1. Len(LocalFrames) = 10 /\ Announced = 3 BY LocalFramesAre DEF Announced
  <2>2. LocalFramesSent' BY <1>2, SameFrames DEF WebInv, WebFramesInv
  <2>3. localAnswer.by # Nobody /\ localAnswer.by \notin FastPathsSet BY <1>2, Parties
  <2> QED BY <1>1, <1>2, <2>1, <2>2, <2>3 DEF WebFramesInv, Running
<1>7. HopInv' BY DEF HopInv
<1>8. HostsInv' BY <1>1 DEF HostsInv
<1> QED BY <1>3, <1>4, <1>5, <1>6, <1>7, <1>8 DEF WebInv

LEMMA HopChanges ==
    ASSUME NEW h \in Hops
    PROVE  /\ [h EXCEPT !.pinned = {}] \in Hops /\ [h EXCEPT !.pinned = {}].pinned = {}
           /\ \A p \in SUBSET {"public", "private"} : [h EXCEPT !.pinned = p] \in Hops
           /\ \A b \in 0..BodyCap : [h EXCEPT !.body = b] \in Hops
BY DEF Hops

LEMMA SearchInv == ASSUME NEW hosts \in SUBSET Hosts PROVE WebInv /\ Search(hosts) => WebInv'
<1> SUFFICES ASSUME WebInv, Search(hosts) PROVE WebInv' OBVIOUS
<1> USE DEF Search
<1>1. webStage \in Running /\ hop' \in Hops /\ hop'.pinned = {}
  <2>1. hop \in Hops BY WebTypes DEF WebInv
  <2>2. hop.pinned = {} BY DEF WebInv, HopInv
  <2> QED BY <2>1, <2>2 DEF Running
<1>2. CASE Concludes("results", Shown(webAsk, hosts))
  <2>1. Shown(webAsk, hosts) \in SUBSET Hosts BY DEF Shown
  <2>2. IsAutomatic(webAsk) =>
           \A host \in Shown(webAsk, hosts) : Admitted(host, webAsk.tools[1])
    BY DEF Shown
  <2> QED BY <1>1, <1>2, <2>1, <2>2, ConcludesInv
<1>3. CASE Concludes("error", {}) BY <1>1, <1>3, ConcludesInv
<1> QED BY <1>2, <1>3

LEMMA ResolveInv == WebInv /\ Resolve => WebInv'
<1> SUFFICES ASSUME WebInv, Resolve PROVE WebInv' OBVIOUS
<1>1. webStage = "resolving" /\ webStage \in Running /\ hop \in Hops /\ hop.pinned = {}
  BY WebTypes DEF Resolve, WebInv, HopInv, Running
<1>2. CASE hop' = hop /\ Concludes("error", {}) BY <1>1, <1>2, ConcludesInv
<1>3. ASSUME NEW addresses \in WebPlaces[hop.place].answers,
             MayConnect(webSettings, WebPlaces[hop.place], addresses),
             hop' = [hop EXCEPT !.pinned = addresses], webStage' = "fetching",
             UNCHANGED << webSettings, webAsk, decision, localAnswer, webSent >>
      PROVE  WebInv'
  <2>1. hop.place \in DOMAIN WebPlaces BY <1>1 DEF Hops
  <2>2. addresses \in SUBSET {"public", "private"} BY <1>3, <2>1, WebToolsAssumption DEF WebPlace
  <2>3. hop' \in Hops /\ hop'.place = hop.place /\ hop'.pinned = addresses
    <3>1. hop' \in Hops BY <1>1, <1>3, <2>2, HopChanges
    <3> QED BY <1>1, <1>3, <3>1 DEF Hops
  <2>4. WebToolsTypeOK' BY <1>3, <2>3 DEF WebInv, WebToolsTypeOK, Hops
  <2>5. ProvidersSeeFunctions' BY <1>3, SameProviders DEF WebInv
  <2>6. localAnswer.by = "web_fetch" /\ ~decision.open /\ Len(webSent) = Announced
    BY <1>1 DEF WebInv, WebStagesInv, WebFramesInv
  <2>7. WebStagesInv' BY <1>1, <1>3, <2>6, Parties DEF WebInv, WebStagesInv, Running
  <2>8. WebFramesInv'
    <3>1. LocalFramesSent' BY <1>3, <2>6, Parties, SameFrames DEF WebInv, WebFramesInv
    <3> QED BY <1>1, <1>3, <2>6, <3>1, Parties DEF WebInv, WebFramesInv, Running
  <2>9. HopInv'
    <3>1. WebPlaces[hop.place].scheme \in webSettings.schemes BY <1>3 DEF MayConnect
    <3>2. webSettings.private \/ addresses = {"public"}
      <4>1. CASE webSettings.private BY <4>1
      <4>2. CASE ~webSettings.private
        <5>1. addresses # {} /\ addresses \subseteq {"public"} BY <1>3, <4>2 DEF MayConnect
        <5> QED BY <5>1
      <4> QED BY <4>1, <4>2
    <3> QED BY <1>3, <2>3, <3>1, <3>2 DEF HopInv
  <2>10. HostsInv' BY <1>3, SameHosts DEF WebInv
  <2> QED BY <2>4, <2>5, <2>7, <2>8, <2>9, <2>10 DEF WebInv
<1> QED BY <1>2, <1>3 DEF Resolve

LEMMA RedirectInv ==
    ASSUME NEW place \in DOMAIN WebPlaces PROVE WebInv /\ Redirect(place) => WebInv'
<1> SUFFICES ASSUME WebInv, Redirect(place) PROVE WebInv' OBVIOUS
<1>1. webStage = "fetching" /\ webStage \in Running /\ hop \in Hops /\ hop.redirects \in 0..MaxRedirects
  BY WebTypes DEF Redirect, WebInv, Running, Hops
<1>2. CASE hop.redirects < MaxRedirects
  <2>1. /\ hop' = HopTo(place, hop.redirects + 1) /\ webStage' = "resolving"
        /\ UNCHANGED << webSettings, webAsk, decision, localAnswer, webSent >>
    BY <1>2 DEF Redirect
  <2>2. hop' \in Hops /\ hop'.pinned = {}
    <3>1. hop.redirects + 1 \in 0..MaxRedirects /\ 0 \in 0..BodyCap
      BY <1>1, <1>2, WebToolsAssumption
    <3> QED BY <2>1, <3>1 DEF HopTo, Hops
  <2>3. WebToolsTypeOK' BY <2>1, <2>2 DEF WebInv, WebToolsTypeOK, Hops
  <2>4. ProvidersSeeFunctions' BY <2>1, SameProviders DEF WebInv
  <2>5. localAnswer.by = "web_fetch" /\ ~decision.open /\ Len(webSent) = Announced
    BY <1>1 DEF WebInv, WebStagesInv, WebFramesInv
  <2>6. WebStagesInv' BY <1>1, <2>1, <2>5, Parties DEF WebInv, WebStagesInv, Running
  <2>7. WebFramesInv'
    <3>1. LocalFramesSent' BY <2>1, <2>5, Parties, SameFrames DEF WebInv, WebFramesInv
    <3> QED BY <1>1, <2>1, <2>5, <3>1, Parties DEF WebInv, WebFramesInv, Running
  <2>8. HopInv' /\ HostsInv' BY <2>1, <2>2, ClosedHop, SameHosts DEF WebInv
  <2> QED BY <2>3, <2>4, <2>6, <2>7, <2>8 DEF WebInv
<1>3. CASE ~(hop.redirects < MaxRedirects)
  <2>1. hop' = [hop EXCEPT !.pinned = {}] /\ Concludes("error", {}) BY <1>3 DEF Redirect
  <2>2. hop' \in Hops /\ hop'.pinned = {} BY <1>1, <2>1, HopChanges
  <2> QED BY <1>1, <2>1, <2>2, ConcludesInv
<1> QED BY <1>2, <1>3

LEMMA ReceiveInv == ASSUME NEW n \in 1..BodyCap PROVE WebInv /\ Receive(n) => WebInv'
<1> SUFFICES ASSUME WebInv, Receive(n) PROVE WebInv' OBVIOUS
<1> USE DEF Receive
<1>1. hop \in Hops BY WebTypes DEF WebInv
<1> DEFINE b == IF hop.body + n <= BodyCap THEN hop.body + n ELSE BodyCap
<1>2. hop' = [hop EXCEPT !.body = b] OBVIOUS
<1>3. b \in 0..BodyCap BY <1>1, WebToolsAssumption DEF Hops
<1> HIDE DEF b
<1>4. hop' \in Hops /\ hop'.place = hop.place /\ hop'.pinned = hop.pinned
  <2>1. [hop EXCEPT !.body = b] \in Hops BY <1>1, <1>3 DEF Hops
  <2>2. hop' \in Hops BY <1>2, <2>1
  <2> QED BY <1>1, <1>2, <2>2 DEF Hops
<1>5. WebToolsTypeOK' BY <1>4 DEF WebInv, WebToolsTypeOK, Hops
<1>6. ProvidersSeeFunctions' BY SameProviders DEF WebInv
<1>7. WebStagesInv' BY DEF WebInv, WebStagesInv
<1>8. WebFramesInv' BY DEF WebInv, WebFramesInv, LocalFramesSent
<1>9. HopInv' BY <1>4 DEF WebInv, HopInv
<1>10. HostsInv' BY SameHosts DEF WebInv
<1> QED BY <1>5, <1>6, <1>7, <1>8, <1>9, <1>10 DEF WebInv

LEMMA FetchEndsInv == WebInv /\ FetchEnds => WebInv'
<1> SUFFICES ASSUME WebInv, FetchEnds PROVE WebInv' OBVIOUS
<1>1. webStage \in Running /\ hop \in Hops BY WebTypes DEF FetchEnds, WebInv, Running
<1>2. hop' \in Hops /\ hop'.pinned = {} BY <1>1, HopChanges DEF FetchEnds
<1>3. CASE Concludes("page", {}) BY <1>1, <1>2, <1>3, ConcludesInv
<1>4. CASE Concludes("error", {}) BY <1>1, <1>2, <1>4, ConcludesInv
<1> QED BY <1>3, <1>4 DEF FetchEnds

LEMMA AbandonInv == WebInv /\ Abandon => WebInv'
<1> SUFFICES ASSUME WebInv, Abandon PROVE WebInv' OBVIOUS
<1> USE DEF Abandon
<1>1. /\ decision' \in Decisions /\ decision'.given = decision.given
      /\ decision'.open = FALSE /\ decision'.calls = decision.calls
      /\ decision'.chunks = decision.chunks
  <2>1. decision \in Decisions BY WebTypes DEF WebInv
  <2>2. decision' \in Decisions BY <2>1, DecisionChanges
  <2> QED BY <2>1, <2>2 DEF Decisions
<1>2. hop' \in Hops /\ hop'.pinned = {}
  <2>1. hop \in Hops BY WebTypes DEF WebInv
  <2> QED BY <2>1, HopChanges
<1>3. WebToolsTypeOK' BY <1>1, <1>2 DEF WebInv, WebToolsTypeOK, Decisions, Hops
<1>4. ProvidersSeeFunctions' BY <1>1, SameProviders DEF WebInv
<1>5. WebStagesInv' BY <1>1, Parties DEF WebInv, WebStagesInv, Running
<1>6. WebFramesInv'
  <2>1. LocalFramesSent => LocalFramesSent' BY SameFrames
  <2> QED BY <1>1, <2>1, Parties DEF WebInv, WebFramesInv, Running
<1>7. HopInv' /\ HostsInv' BY <1>2, ClosedHop, SameHosts DEF WebInv
<1> QED BY <1>3, <1>4, <1>5, <1>6, <1>7 DEF WebInv

LEMMA WebStutterInv == WebInv /\ UNCHANGED webVars => WebInv'
<1> SUFFICES ASSUME WebInv, UNCHANGED webVars PROVE WebInv' OBVIOUS
<1> USE DEF webVars
<1>1. WebToolsTypeOK' BY DEF WebInv, WebToolsTypeOK
<1>2. ProvidersSeeFunctions' BY SameProviders DEF WebInv
<1>3. WebStagesInv' BY DEF WebInv, WebStagesInv
<1>4. WebFramesInv' BY DEF WebInv, WebFramesInv, LocalFramesSent
<1>5. HopInv' /\ HostsInv' BY SameHosts DEF WebInv, HopInv
<1> QED BY <1>1, <1>2, <1>3, <1>4, <1>5 DEF WebInv

LEMMA WebStepInv == WebInv /\ [WebToolsNext]_webVars => WebInv'
<1> SUFFICES ASSUME WebInv, [WebToolsNext]_webVars PROVE WebInv' OBVIOUS
<1>1. ASSUME NEW n \in 0..2, NEW calls \in [1..n -> Calls], Decide(calls) PROVE WebInv'
  <2>1. calls \in Seq(Calls) BY SeqDef
  <2> QED BY <1>1, <2>1, DecideInv
<1> QED
  BY <1>1, RefuseInv, AskForDecisionInv, RunForcedInv, AnswerAtOnceInv, PassOnInv, BufferInv,
     DecisionFailsInv, ReplayInv, SendFrameInv, SearchInv, ResolveInv, RedirectInv, ReceiveInv,
     FetchEndsInv, AbandonInv, WebStutterInv
  DEF WebToolsNext

\* The invariant says what the request can rely on.
LEMMA WebInvContains == WebInv => WebToolsAreContained
<1> SUFFICES ASSUME WebInv PROVE WebToolsAreContained OBVIOUS
<1> DEFINE n == Len(webSent)
<1>1. webSent \in Seq(Frames) /\ n \in Nat /\ localAnswer \in LocalAnswers /\ hop \in Hops
      /\ decision \in Decisions
  BY WebTypes DEF WebInv
<1>2. ProvidersSeeFunctions BY DEF WebInv
<1>3. OneAnswer
  <2>1. decision.given # << >> /\ localAnswer.by # Nobody =>
           localAnswer.by = "web_search" /\ IsSearch(decision.calls)
    BY DEF WebInv, WebStagesInv
  <2>2. ASSUME webSent # << >> PROVE ~decision.open BY <2>2 DEF WebInv, WebStagesInv
  <2>3. localAnswer.by = Nobody \/ localAnswer.by \in ServerTools \/ localAnswer.by \in FastPathsSet
    BY <1>1 DEF LocalAnswers
  <2>4. webSent # << >> /\ localAnswer.by = Nobody =>
          /\ decision.calls = << >> /\ Len(webSent) <= decision.chunks
          /\ \A k \in 1..Len(webSent) : webSent[k] = Chunk(k)
    BY DEF WebInv, WebFramesInv
  <2>5. localAnswer.by \in FastPathsSet => webSent = << >> BY DEF WebInv, WebFramesInv
  <2> QED BY <2>1, <2>2, <2>3, <2>4, <2>5 DEF OneAnswer
<1>4. LocalAnswerIsWhole
  <2> SUFFICES ASSUME localAnswer.by \in ServerTools
               PROVE  /\ \A k \in 1..Len(webSent) : FrameInPlace(k)
                      /\ Len(webSent) > Announced => localAnswer.outcome # "none"
                      /\ webStage = "answered" => webSent[Len(webSent)].event = "message_stop"
    BY DEF LocalAnswerIsWhole, FrameInPlace
  <2>1. LocalFramesSent BY DEF WebInv, WebFramesInv
  <2>2. \A k \in 1..n : FrameInPlace(k) BY <1>1, <2>1, LocalPrefixIsWhole
  <2>3. Len(webSent) > Announced => localAnswer.outcome # "none" BY DEF WebInv, WebFramesInv
  <2>4. ASSUME webStage = "answered" PROVE webSent[Len(webSent)].event = "message_stop"
    <3>1. Len(webSent) = 10 BY <2>4, LocalFramesAre DEF WebInv, WebFramesInv
    <3>2. webSent[10] = LocalFrames[10] BY <2>1, <3>1 DEF LocalFramesSent
    <3> QED BY <3>1, <3>2, LocalFramesAre DEF Frame
  <2> QED BY <2>2, <2>3, <2>4
<1>5. WebIsBounded
  <2>1. hop.pinned # {} =>
          /\ webStage = "fetching" /\ localAnswer.by = "web_fetch" /\ webSettings.web
          /\ WebPlaces[hop.place].scheme \in webSettings.schemes
          /\ webSettings.private \/ hop.pinned = {"public"}
    BY DEF WebInv, HopInv, WebStagesInv
  <2>2. decision.open => webStage = "deciding" BY DEF WebInv, WebStagesInv
  <2>3. hop.redirects <= MaxRedirects /\ hop.body <= BodyCap BY <1>1 DEF Hops
  <2>4. ASSUME IsAutomatic(webAsk), NEW host \in localAnswer.hosts, NEW tool \in {webAsk.tools[1]}
        PROVE  /\ tool.allowed # {} => \E domain \in tool.allowed : IsUnder(host, domain)
               /\ ~\E domain \in tool.blocked : IsUnder(host, domain)
    <3>1. Admitted(host, tool) BY <2>4 DEF WebInv, HostsInv
    <3> QED BY <3>1 DEF Admitted
  <2> QED BY <2>1, <2>2, <2>3, <2>4 DEF WebIsBounded
<1> QED BY <1>2, <1>3, <1>4, <1>5 DEF WebToolsAreContained

\* For any tools, settings, redirects and chunks: no provider sees a server tool,
\* one party answers, a local answer is well formed to its end, and a fetch is
\* connected only to what the settings allow.
THEOREM ContainedWebTools == WebToolsSpec => [](WebToolsTypeOK /\ WebToolsAreContained)
<1>1. WebToolsInit => WebInv BY WebInitInv
<1>2. WebInv /\ [WebToolsNext]_webVars => WebInv' BY WebStepInv
<1>3. WebInv => WebToolsTypeOK /\ WebToolsAreContained BY WebInvContains DEF WebInv
<1> QED BY <1>1, <1>2, <1>3, PTL DEF WebToolsSpec
=============================================================================
