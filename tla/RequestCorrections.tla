------------------------- MODULE RequestCorrections -------------------------
(***************************************************************************)
(* What a provider adapter makes of a refusal: the shared classification   *)
(* of upstream errors (providers/failure_policy.py) and the corrections of *)
(* a request body before it is tried again (the chat provider's            *)
(* _create_stream, output_cap.py, usage.py, and the adapters of Groq, NIM  *)
(* and Mistral).  Learned limits are shared by the sessions of a model.    *)
(*                                                                         *)
(* The upstream keeps to one set of limits, and its errors name what is    *)
(* over them; the text of an error is reduced to what the parsers find.    *)
(***************************************************************************)
EXTENDS Integers, FiniteSets

CONSTANTS Executions,     \* requests in progress
          Upstreams,      \* upstreams, each with the adapter that speaks to it
          MaxTokens,      \* the largest output budget asked for
          MaxTries        \* attempts of one request

ASSUME CorrectionBounds == MaxTokens \in Nat \ {0} /\ MaxTries \in Nat \ {0}

VARIABLES
    upstream,  \* what the upstream accepts of the model, and which adapter speaks to it
    cap,       \* _model_output_caps of the model, 0 for none
    learned,   \* _model_reasoning_vocabularies of the model (Groq), NoVocabulary for none
    call,      \* by execution: its body and where it is
    judged     \* the error looked at by the classification, if any

correctionVars == << upstream, cap, learned, call, judged >>

(***************************************************************************)
(* Classification.  An error is an exception of the OpenAI SDK, of the     *)
(* HTTP client, of the provider layer, or any other; with the status it    *)
(* carries (0 for none), the one its body names, and the words found in    *)
(* its texts.                                                              *)
(***************************************************************************)

\* The SDK's subclasses of a status error have one status each.
StatusOf(class) ==
    CASE class = "authentication" -> {401}
      [] class = "permission"     -> {403}
      [] class = "rate_limit"     -> {429}
      [] class = "bad_request"    -> {400}
      [] class = "server"         -> {500, 503, 529}
      [] class = "status"         -> {402, 404, 422}
      [] class = "http_status"    -> {400, 401, 402, 403, 404, 429, 500, 503}
      [] OTHER                    -> {0}

Sdk        == {"authentication", "permission", "rate_limit", "bad_request", "server",
               "status", "api", "api_timeout", "api_connection"}
Transport  == {"read_timeout", "connect_timeout", "connect", "network", "remote_protocol"}
Classes    == Sdk \cup Transport \cup {"http_status", "timeout", "protocol", "other"}
Markers    == {"none", "rate", "overload", "internal", "degraded", "context"}

\* Only errors of the SDK have a parsed body.
Errors ==
    UNION { [class : {k}, status : StatusOf(k), body : IF k \in Sdk THEN {0, 404, 429, 503} ELSE {0},
             marker : Markers] : k \in Classes }

RetryableStatus(s) == s = 429 \/ s \in 500 .. 599

MarkedStatus(m) ==
    CASE m = "rate" -> 429 [] m = "overload" -> 503 [] m = "internal" -> 500 [] OTHER -> 0

\* retryable_transient_status, 0 for None
TransientStatus(e) ==
    IF e.class = "rate_limit" THEN 429
    ELSE IF e.class = "http_status" THEN IF RetryableStatus(e.status) THEN e.status ELSE 0
    ELSE IF RetryableStatus(e.status) THEN e.status
    ELSE IF RetryableStatus(e.body) THEN e.body
    ELSE MarkedStatus(e.marker)

\* A plausible bug: what the text says comes before what the SDK says.
Retryable_TextFirst(e) ==
    \/ TransientStatus(e) # 0
    \/ e.class \in Transport \cup {"timeout", "api_timeout", "api_connection", "protocol"}

\* is_retryable_provider_error
Retryable(e) ==
    /\ e.class \notin {"authentication", "permission", "bad_request"}
    /\ \/ TransientStatus(e) # 0
       \/ e.class \in Transport \cup {"timeout", "api_timeout", "api_connection", "protocol"}

\* What an open stream raises, and is_retryable_stream_error of it.
InStream == {"api", "api_connection", "read_timeout", "network", "remote_protocol", "timeout",
             "protocol", "other"}

StreamRetryable(e) ==
    \/ e.class = "protocol"
    \/ /\ e.class \notin {"authentication", "bad_request"}
       /\ \/ TransientStatus(e) # 0
          \/ e.class \in (Transport \ {"connect_timeout"}) \cup {"timeout", "api_timeout", "api_connection"}

Failure(kind, status, retryable) == [kind |-> kind, status |-> status, retryable |-> retryable]

Overloaded == Failure("overloaded", 529, TRUE)
RateLimited == Failure("rate_limit", 429, TRUE)

\* By status alone: what HTTP errors and raw SDK errors share.
ByStatus(s, retryable) ==
    CASE s = 401 -> Failure("authentication", 401, FALSE)
      [] s \in {402, 403} -> Failure("permission", s, FALSE)
      [] OTHER -> Failure("upstream", s, retryable)

\* _classify_provider_failure
Classified(e) ==
    LET transient == TransientStatus(e)
        status    == IF transient # 0 THEN transient ELSE IF e.status # 0 THEN e.status ELSE 500
    IN
    CASE e.class = "authentication" -> Failure("authentication", 401, FALSE)
      [] e.class = "permission"     -> Failure("permission", 403, FALSE)
      [] e.class = "rate_limit"     -> RateLimited
      [] e.class = "bad_request"    -> Failure("invalid_request", 400, FALSE)
      [] e.class = "api_timeout"    -> Failure("timeout", 500, TRUE)
      [] e.class = "api_connection" -> Failure("unavailable", 500, TRUE)
      [] e.class = "server" ->
            IF e.marker = "overload" THEN Overloaded
            ELSE Failure("upstream", IF status \in 500 .. 599 THEN status ELSE 500, TRUE)
      [] e.class \in {"status", "api"} ->
            IF transient = 429 THEN RateLimited
            ELSE IF e.marker = "overload" THEN Overloaded
            ELSE ByStatus(status, Retryable(e))
      [] e.class = "http_status" ->
            CASE e.status = 429 -> RateLimited
              [] e.status = 400 -> Failure("invalid_request", 400, FALSE)
              [] e.status \in {502, 503, 504} -> Overloaded
              [] OTHER -> ByStatus(e.status, RetryableStatus(e.status))
      [] e.class \in {"timeout", "read_timeout", "connect_timeout"} -> Failure("timeout", 502, Retryable(e))
      [] e.class \in {"connect", "network"} -> Failure("unavailable", 502, Retryable(e))
      [] OTHER -> Failure("upstream", 502, Retryable(e))

\* A plausible bug: a degraded function is looked for in every error.
Override_Any(e, adapter) ==
    IF adapter # "nim" THEN {}
    ELSE IF e.marker = "context" THEN {Failure("context_window", 400, FALSE)}
    ELSE IF e.marker = "degraded" THEN {Overloaded} ELSE {}

\* _provider_failure_override: what NIM means by some errors, {} for None.
Override(e, adapter) ==
    IF adapter # "nim" \/ e.class \notin {"bad_request", "server"} \/ e.status \notin {400, 500} THEN {}
    ELSE IF e.marker = "context" THEN {Failure("context_window", 400, FALSE)}
    ELSE IF e.marker = "degraded" /\ e.class = "bad_request" THEN {Overloaded} ELSE {}

\* ProviderAttempt.retry and classify_provider_failure
TriedAgain(e, adapter) ==
    IF Override(e, adapter) = {} THEN Retryable(e) ELSE \A f \in Override(e, adapter) : f.retryable

Told(e, adapter) ==
    IF Override(e, adapter) = {} THEN Classified(e) ELSE CHOOSE f \in Override(e, adapter) : TRUE

(***************************************************************************)
(* Corrections.                                                            *)
(***************************************************************************)

NoVocabulary == {"unknown"}  \* for None
Efforts      == {"low", "default", "none"}
Extras       == {"budget", "template", "reasoning"} \* fields and message parts an upstream may refuse

\* A body: its output budget, whether it asks for usage, its reasoning effort
\* ("absent" without one), and the extras in it.
Bodies(adapter) ==
    [tokens : 1 .. MaxTokens, usage : BOOLEAN,
     effort : IF adapter = "groq" THEN {"low", "none"} ELSE {"absent"},
     extras : CASE adapter = "nim"     -> {{}, {"budget", "template"}, {"budget", "template", "reasoning"}}
                [] adapter = "mistral" -> {{}, {"reasoning"}}
                [] OTHER               -> {{}}]

\* Refusals: of the field at fault, an output budget by a text that names the
\* field or by a structured parameter; "unrelated" names the limit of another.
Refusal(about, field, named, limit) == [about |-> about, field |-> field, named |-> named, limit |-> limit]

Unrelated ==
    { Refusal("unrelated", f, n, 1) : f \in {"none", "other"}, n \in BOOLEAN }
    \ {Refusal("unrelated", "none", TRUE, 1)}

Refusals(body) ==
    (IF body.tokens > upstream.limit
     THEN { Refusal("cap", f, n, upstream.limit) : f \in {"none", "output"}, n \in BOOLEAN }
          \ {Refusal("cap", "none", FALSE, upstream.limit)}
     ELSE {})
    \cup (IF body.usage /\ ~upstream.usage THEN {Refusal("usage", "none", TRUE, 0)} ELSE {})
    \cup (IF body.effort \notin upstream.efforts \cup {"absent"} THEN {Refusal("effort", "none", TRUE, 0)} ELSE {})
    \cup { Refusal(x, "none", TRUE, 0) : x \in body.extras \cap upstream.refused }

\* A plausible bug: any limit in the text is taken for that of the output.
CapNamed_AnyField(r) == IF r.about \in {"cap", "unrelated"} THEN r.limit ELSE 0

\* parse_output_token_cap: the limit must be bound to the field, by the text or
\* by its structured parameter; what is scoped to another parameter is not read.
CapNamed(r) ==
    IF r.about \in {"cap", "unrelated"} /\ (r.field = "output" \/ (r.field = "none" /\ r.named))
    THEN r.limit ELSE 0

Least(a, b) == IF a < b THEN a ELSE b

\* What the caps will be after a refusal: _retry_body_for_output_cap.
CapAfter(r) ==
    IF CapNamed(r) = 0 THEN cap ELSE IF cap = 0 THEN CapNamed(r) ELSE Least(cap, CapNamed(r))

\* clamp_output_tokens; the body itself when nothing exceeds the cap
Clamped(body, c) == IF c # 0 /\ body.tokens > c THEN [body EXCEPT !.tokens = c] ELSE body

\* A plausible bug: an effort is replaced by the default without asking for it.
Rewritten_Default(body, accepted) ==
    IF body.effort \in accepted \cup {"absent"} THEN body
    ELSE [body EXCEPT !.effort = IF @ = "low" THEN "default" ELSE "absent"]

\* _rewrite_reasoning_effort
Rewritten(body, accepted) ==
    IF body.effort \in accepted \cup {"absent"} THEN body
    ELSE [body EXCEPT !.effort = IF @ = "low" /\ "default" \in accepted THEN "default" ELSE "absent"]

\* The downgrades of NIM: its template fields hold its budget.
WithoutField(body, x) ==
    [body EXCEPT !.extras = @ \ (IF x = "template" THEN {"template", "budget"} ELSE {x})]

\* clone_body_without_mistral_reasoning
WithoutReasoning(body) == [body EXCEPT !.extras = @ \ {"reasoning"}]

\* _get_retry_request_body of the adapters
Specific(r, body) ==
    CASE r.about = "effort" /\ upstream.adapter = "groq" -> Rewritten(body, upstream.efforts)
      [] r.about \in Extras /\ upstream.adapter = "nim" -> WithoutField(body, r.about)
      [] r.about = "reasoning" /\ upstream.adapter = "mistral" -> WithoutReasoning(body)
      [] OTHER -> body

\* is_stream_usage_rejection
RefusesUsage(r) == r.about = "usage"

\* clone_without_stream_usage
WithoutUsage(body) == [body EXCEPT !.usage = FALSE]

\* A plausible bug: a body is corrected once, by whoever could do it first.
MayAskAdapter_Once(c) == c.used = {}

\* The adapter corrects a request once.
MayAskAdapter(c) == "provider_specific" \notin c.used

\* _next_create_retry_body: the corrected body and the kind of the correction;
\* "none" when there is nothing to correct.
Correction(r, c) ==
    LET clamped  == IF CapNamed(r) = 0 THEN c.body ELSE Clamped(c.body, CapAfter(r))
        specific == Specific(r, c.body)
        As(body, kind) == [body |-> body, kind |-> kind]
    IN  IF clamped # c.body THEN As(clamped, "cap")
        ELSE IF RefusesUsage(r) /\ c.body.usage /\ "stream_usage" \notin c.used
             THEN As(WithoutUsage(c.body), "stream_usage")
        ELSE IF specific # c.body /\ MayAskAdapter(c) THEN As(specific, "provider_specific")
        ELSE As(c.body, "none")

CorrectionsInit ==
    /\ upstream \in Upstreams
    /\ cap = 0
    /\ learned = NoVocabulary
    /\ call = [x \in Executions |-> [at |-> "none"]]
    /\ judged = {}

\* The body of a request as it is built and opened: with the vocabulary and the
\* cap learned so far (GroqProvider._build_request_body, _apply_learned_output_cap).
Shaped(body) ==
    Clamped(IF learned = NoVocabulary THEN body ELSE Rewritten(body, learned), cap)

\* _create_stream begins; its first attempt is sent.
OpenWith(x, body) ==
    /\ call[x].at = "none" /\ judged = {}
    /\ call' = [call EXCEPT ![x] = [at |-> "sent", body |-> Shaped(body), used |-> {}, tries |-> 1,
                                    mended |-> {}]]
    /\ UNCHANGED << upstream, cap, learned, judged >>

\* The upstream takes the request when nothing of it is over its limits.
Accept(x) ==
    /\ call[x].at = "sent" /\ Refusals(call[x].body) = {}
    /\ call' = [call EXCEPT ![x] = [at |-> "accepted"]]
    /\ UNCHANGED << upstream, cap, learned, judged >>

\* A refusal by what the request asks for: corrected if it can be, else final.
Refuse(x, r) ==
    LET c   == call[x]
        new == Correction(r, c)
        may == new.kind # "none" /\ c.tries < MaxTries
        used == c.used \cup ({new.kind} \ {"cap", "none"})
    IN
    /\ c.at = "sent" /\ r \in Refusals(c.body) \cup Unrelated
    /\ cap' = CapAfter(r)
    /\ learned' = IF r.about = "effort" /\ Specific(r, c.body) # c.body /\ new.kind = "provider_specific"
                  THEN upstream.efforts ELSE learned
    /\ call' = [call EXCEPT ![x] =
          IF may
          THEN [c EXCEPT !.body = new.body, !.tries = @ + 1, !.used = used, !.mended = @ \cup {r.about}]
          ELSE [at |-> "refused", about |-> r.about, used |-> used, tries |-> c.tries,
                mended |-> c.mended]]
    /\ UNCHANGED << upstream, judged >>

\* A transient failure: the same body is tried again.
FailOpening(x) ==
    /\ call[x].at = "sent"
    /\ call' = [call EXCEPT ![x] = IF @.tries < MaxTries THEN [@ EXCEPT !.tries = @ + 1]
                                   ELSE [at |-> "failed"]]
    /\ UNCHANGED << upstream, cap, learned, judged >>

\* An error is classified: the two tables are functions of it, so once is enough.
Judge(e) ==
    /\ judged' = {e}
    /\ UNCHANGED << upstream, cap, learned, call >>

CorrectionsNext ==
    \/ \E x \in Executions :
          \/ \E body \in Bodies(upstream.adapter) : OpenWith(x, body)
          \/ Accept(x) \/ FailOpening(x)
          \/ call[x].at = "sent" /\ \E r \in Refusals(call[x].body) \cup Unrelated : Refuse(x, r)
    \/ /\ judged = {} /\ \A x \in Executions : call[x].at = "none"
       /\ \E e \in Errors : Judge(e)

(***************************************************************************)
(* Properties.                                                             *)
(***************************************************************************)

\* Every variable stays in its range.
CorrectionsTypeOK ==
    /\ cap \in 0 .. MaxTokens
    /\ learned = NoVocabulary \/ learned \subseteq Efforts
    /\ \A x \in Executions :
          /\ call[x].at \in {"none", "sent", "accepted", "refused", "failed"}
          /\ call[x].at = "sent" => call[x].tries \in 1 .. MaxTries
    /\ judged \subseteq Errors

\* The tables agree: an error the admission controller tries again is told as
\* retryable to the client and the fallback, and no other, with a status clients
\* take for one; and the recovery of an open stream decides as they do
\* (classify_provider_failure, is_retryable_provider_error and
\* is_retryable_stream_error list and order their cases differently).
TablesAgree ==
    \A e \in judged :
        LET f == Told(e, upstream.adapter) IN
        /\ f.retryable = TriedAgain(e, upstream.adapter)
        /\ f.retryable => RetryableStatus(f.status)
        /\ f.kind \in {"authentication", "permission", "invalid_request"} => ~f.retryable
        /\ e.class \in InStream => StreamRetryable(e) = f.retryable

\* A correction cures what it is for: no upstream refuses twice the same thing of
\* one request, whatever the other requests of the model have learned meanwhile.
CorrectionsCure ==
    \A x \in Executions : call[x].at = "refused" => call[x].about \notin call[x].mended

\* The learned limits are the upstream's: no limit of another parameter is taken
\* for that of the output, and a request is not cut below what it may ask for.
LearnedIsTrue ==
    /\ cap \in {0, upstream.limit}
    /\ learned \in {NoVocabulary, upstream.efforts}

\* A request is given up for good only for a parameter nobody corrects, for want
\* of attempts, or because the adapter had corrected it once already.
CorrectableIsCorrected ==
    \A x \in Executions :
        call[x].at = "refused" =>
            \/ call[x].tries = MaxTries
            \/ call[x].about = "unrelated"
            \/ "provider_specific" \in call[x].used

CorrectionsHelp == TablesAgree /\ CorrectionsCure /\ LearnedIsTrue /\ CorrectableIsCorrected
=============================================================================
