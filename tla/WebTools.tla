-------------------------------- MODULE WebTools --------------------------------
(***************************************************************************)
(* What the Messages handler does with a request before a provider sees    *)
(* it: the policy for Claude's safety classifier, the server tools that    *)
(* run here (web_search, web_fetch), and the requests that are answered at *)
(* once.  A request that goes on to the provider as it is leaves this      *)
(* module: its stream is InferenceRequest's.                               *)
(*                                                                         *)
(* A web search that the model may choose is the provider's decision, read *)
(* to its end before anything is sent.  A web fetch goes from one redirect *)
(* to the next, each resolved and checked anew.                            *)
(***************************************************************************)
EXTENDS Integers, Sequences, FiniteSets

CONSTANTS Asks,            \* the requests an instance admits
          WebSettings,     \* and the settings
          WebPlaces,       \* the places a fetch may be led to, by a name of their own
          Hosts,           \* hosts of search results, as sequences of labels
          MaxRedirects,    \* _MAX_WEB_FETCH_REDIRECTS
          BodyCap,         \* _MAX_WEB_FETCH_RESPONSE_BYTES, in parts of a chunk
          MaxBuffered      \* bound on the chunks of a provider's decision

ServerTools  == {"web_search", "web_fetch"}
FastPaths    == <<"quota", "prefix", "title", "suggestion", "filepath">>
FastPathsSet == {FastPaths[k] : k \in 1..Len(FastPaths)}
Nobody       == "nobody"
NoHost       == << >>

\* A server tool's type is the supported one of its name, or another version's.
\* Options are legible when each passes its own validation.
ToolDefinitions ==
    [type : {"none", "other"} \cup ServerTools,
     name : {"own", "fcc_web_search"} \cup ServerTools, legible : BOOLEAN,
     allowed : SUBSET Hosts, blocked : SUBSET Hosts]

\* The choice is "auto" only if nothing else is said with it.  The words are the
\* marks a request's texts contain; single: one user turn is all there is;
\* oneToken: max_tokens is 1.
MessageRequests ==
    [tools : Seq(ToolDefinitions),
     choice : {"absent", "auto", "other", "own"} \cup ServerTools,
     history : BOOLEAN, place : DOMAIN WebPlaces, single : BOOLEAN, oneToken : BOOLEAN,
     words : SUBSET {"quota", "policy", "title", "suggestion", "paths", "transcript"},
     stops : SUBSET {"classifier", "own"}, reasoning : BOOLEAN]

\* Answers are the sets of addresses a resolution may give, none if it fails.
WebPlace ==
    [scheme : {"http", "https", "file"},
     host : {"absent", "localhost", "mdns", "literal", "name"},
     answers : SUBSET SUBSET {"public", "private"}]

ASSUME WebToolsAssumption ==
    /\ Asks \subseteq MessageRequests
    /\ \A p \in DOMAIN WebPlaces :
          /\ WebPlaces[p] \in WebPlace
          /\ WebPlaces[p].host = "literal" =>
                WebPlaces[p].answers \subseteq {{"public"}, {"private"}}
    /\ WebSettings \subseteq
          [web : BOOLEAN, private : BOOLEAN, schemes : SUBSET {"http", "https", "file"},
           fast : SUBSET FastPathsSet]
    /\ MaxRedirects \in Nat /\ BodyCap \in Nat \ {0} /\ MaxBuffered \in Nat

VARIABLES webSettings,     \* the settings the handler read
          webAsk,          \* the request
          webStage,        \* where its handling stands
          decision,        \* the requests a provider was given, whether its stream
                           \* is open, its chunks and the tools it calls
          localAnswer,     \* what answers here, and what it found
          webSent,         \* the frames the client got
          hop              \* the fetch: the place, the redirects so far, the
                           \* addresses of its connection if one is open, the body

webVars == << webSettings, webAsk, webStage, decision, localAnswer, webSent, hop >>

-----------------------------------------------------------------------------
\* The request.

IsServerTool(t)  == t.type # "none"
ServerToolsOf(a) == {i \in 1..Len(a.tools) : IsServerTool(a.tools[i])}

\* A supported server tool that is forced; a function of its name is none.
Forces(a, tool) ==
    /\ a.choice = tool
    /\ \E i \in 1..Len(a.tools) : a.tools[i].name = tool /\ a.tools[i].type = tool
ForcesOne(a) == \E tool \in ServerTools : Forces(a, tool)

\* The one shape in which the model may choose to search.
IsAutomatic(a) ==
    a.choice \in {"absent", "auto"} /\ Len(a.tools) = 1 /\ a.tools[1].type = "web_search"

SearchRejected(a, s) ==
    \/ ~s.web \/ a.history
    \/ a.tools[1].name # "web_search" \/ ~a.tools[1].legible
    \/ a.tools[1].allowed # {} /\ a.tools[1].blocked # {}

\* A plausible bug: a server tool that is not forced is not looked for.
Rejected_Forced(a, s) ==
    IF IsAutomatic(a) THEN SearchRejected(a, s) ELSE ForcesOne(a) /\ ~s.web

Rejected(a, s) ==
    IF IsAutomatic(a) THEN SearchRejected(a, s)
    ELSE IF ForcesOne(a) THEN ~s.web ELSE ServerToolsOf(a) # {}

\* The model's search is offered to it as a function under a hidden name.
HiddenSearch ==
    [type |-> "none", name |-> "fcc_web_search", legible |-> TRUE,
     allowed |-> {}, blocked |-> {}]

\* The classifier's request goes on without reasoning and its stop sequence.
IsClassifier(a) == a.tools = << >> /\ "transcript" \in a.words
Classified(a) ==
    IF IsClassifier(a)
    THEN [a EXCEPT !.stops = @ \ {"classifier"}, !.reasoning = FALSE] ELSE a

Matches(a, path) ==
    CASE path = "quota"      -> a.single /\ a.oneToken /\ "quota" \in a.words
      [] path = "prefix"     -> a.single /\ "policy" \in a.words
      [] path = "title"      -> a.tools = << >> /\ "title" \in a.words
      [] path = "suggestion" -> "suggestion" \in a.words
      [] path = "filepath"   -> a.single /\ a.tools = << >> /\ "paths" \in a.words

\* The places in FastPaths that apply; the first one answers.
Applying(a, s) ==
    {k \in 1..Len(FastPaths) : FastPaths[k] \in s.fast /\ Matches(a, FastPaths[k])}
FastPathOf(a, s) ==
    FastPaths[CHOOSE k \in Applying(a, s) : \A j \in Applying(a, s) : k <= j]

-----------------------------------------------------------------------------
\* The answer of a server tool that runs here: its announcement in three frames,
\* and the result with its summary.

Frame(event, index) == [event |-> event, index |-> index]
Frames == [event : {"message_start", "block_start", "block_delta", "block_stop",
                    "message_delta", "message_stop", "chunk"}, index : Nat]
LocalFrames ==
    << Frame("message_start", 0),
       Frame("block_start", 0), Frame("block_stop", 0),
       Frame("block_start", 1), Frame("block_stop", 1),
       Frame("block_start", 2), Frame("block_delta", 2), Frame("block_stop", 2),
       Frame("message_delta", 0), Frame("message_stop", 0) >>
Announced == 3

\* A chunk of the provider's, sent as it came.
Chunk(k) == Frame("chunk", k)

\* _is_hostname_or_subdomain and the filter of the results.
IsUnder(host, domain) ==
    Len(domain) <= Len(host)
      /\ SubSeq(host, Len(host) - Len(domain) + 1, Len(host)) = domain

Admitted(host, tool) ==
    \/ tool.allowed = {} /\ tool.blocked = {}
    \/ /\ host # NoHost
       /\ tool.allowed = {} \/ \E domain \in tool.allowed : IsUnder(host, domain)
       /\ \A domain \in tool.blocked : ~IsUnder(host, domain)

\* A forced search knows no filter.
Shown(a, hosts) ==
    IF IsAutomatic(a) THEN {host \in hosts : Admitted(host, a.tools[1])} ELSE hosts

-----------------------------------------------------------------------------
\* What a fetch may connect to.

\* The addresses it is pinned to, of those the resolution may give; a literal
\* address is its own.
MayConnect(s, place, addresses) ==
    /\ place.scheme \in s.schemes /\ place.host # "absent"
    /\ addresses \in place.answers /\ addresses # {}
    /\ \/ s.private
       \/ place.host \in {"literal", "name"} /\ addresses \subseteq {"public"}

MayRefuse(s, place) ==
    \/ place.answers = {}
    \/ \E addresses \in place.answers : ~MayConnect(s, place, addresses)

-----------------------------------------------------------------------------
NoDecision == [given |-> << >>, open |-> FALSE, chunks |-> 0, calls |-> << >>]
NoAnswer   == [by |-> Nobody, outcome |-> "none", hosts |-> {}]
HopTo(place, redirects) ==
    [place |-> place, redirects |-> redirects, pinned |-> {}, body |-> 0]

WebStarts(asks, settings) ==
    /\ webAsk \in asks /\ webSettings \in settings
    /\ webStage = "received"
    /\ decision = NoDecision /\ localAnswer = NoAnswer
    /\ webSent = << >> /\ hop = HopTo(webAsk.place, 0)

WebToolsInit == WebStarts(Asks, WebSettings)

\* create(): one of five ways.
Arrives(stage) ==
    /\ webStage = "received" /\ webStage' = stage
    /\ UNCHANGED << webSettings, webAsk, webSent, hop >>

Refuse ==
    /\ Arrives("refused") /\ Rejected(webAsk, webSettings)
    /\ UNCHANGED << decision, localAnswer >>

\* The search the model may choose: its provider gets the hidden function.
AskForDecision ==
    /\ Arrives("deciding") /\ IsAutomatic(webAsk) /\ ~Rejected(webAsk, webSettings)
    /\ decision' = [decision EXCEPT
                       !.open = TRUE,
                       !.given = <<[webAsk EXCEPT !.tools = <<HiddenSearch>>]>>]
    /\ UNCHANGED localAnswer

RunForced(tool) ==
    /\ Arrives("answering") /\ webSettings.web
    /\ ~IsAutomatic(webAsk) /\ Forces(webAsk, tool)
    /\ localAnswer' = [localAnswer EXCEPT !.by = tool]
    /\ UNCHANGED decision

AnswerAtOnce ==
    /\ Arrives("answered") /\ ~Rejected(webAsk, webSettings)
    /\ ~IsAutomatic(webAsk) /\ ~ForcesOne(webAsk)
    /\ Applying(webAsk, webSettings) # {}
    /\ localAnswer' = [localAnswer EXCEPT !.by = FastPathOf(webAsk, webSettings)]
    /\ UNCHANGED decision

PassOn ==
    /\ Arrives("passed") /\ ~Rejected(webAsk, webSettings)
    /\ ~IsAutomatic(webAsk) /\ ~ForcesOne(webAsk)
    /\ Applying(webAsk, webSettings) = {}
    /\ decision' = [decision EXCEPT !.given = <<Classified(webAsk)>>]
    /\ UNCHANGED localAnswer

\* The provider's decision is read whole.
Buffer ==
    /\ webStage = "deciding" /\ decision.chunks < MaxBuffered
    /\ decision' = [decision EXCEPT !.chunks = @ + 1]
    /\ UNCHANGED << webSettings, webAsk, webStage, localAnswer, webSent, hop >>

\* Its stream is closed however it ends: it fails, says an error, or is whole.
Settles(stage, calls) ==
    /\ webStage = "deciding" /\ webStage' = stage
    /\ decision' = [decision EXCEPT !.open = FALSE, !.calls = calls]
    /\ UNCHANGED << webSettings, webAsk, webSent, hop >>

DecisionFails == Settles("failed", << >>) /\ UNCHANGED localAnswer

Calls == [name : {"fcc_web_search", "own"}, input : {"query", "blank", "malformed"}]
IsSearch(calls) ==
    Len(calls) = 1 /\ calls[1].name = "fcc_web_search" /\ calls[1].input = "query"

Decide(calls) ==
    \/ calls = << >> /\ Settles("replaying", calls) /\ UNCHANGED localAnswer
    \/ /\ IsSearch(calls) /\ Settles("answering", calls)
       /\ localAnswer' = [localAnswer EXCEPT !.by = "web_search"]
    \/ /\ calls # << >> /\ ~IsSearch(calls)
       /\ Settles("failed", calls) /\ UNCHANGED localAnswer

Replay ==
    /\ webStage = "replaying"
    /\ IF Len(webSent) < decision.chunks
       THEN webSent' = Append(webSent, Chunk(Len(webSent) + 1)) /\ UNCHANGED webStage
       ELSE webStage' = "answered" /\ UNCHANGED webSent
    /\ UNCHANGED << webSettings, webAsk, decision, localAnswer, hop >>

\* The frames of a local answer; after the third the tool runs.
SendFrame ==
    /\ webStage = "answering"
    /\ webSent' = Append(webSent, LocalFrames[Len(webSent) + 1])
    /\ webStage' = IF Len(webSent) + 1 = Len(LocalFrames) THEN "answered"
                   ELSE IF Len(webSent) + 1 # Announced THEN "answering"
                   ELSE IF localAnswer.by = "web_search" THEN "searching"
                   ELSE "resolving"
    /\ UNCHANGED << webSettings, webAsk, decision, localAnswer, hop >>

\* The tool has a result or has failed: the answer says either.
Concludes(outcome, hosts) ==
    /\ webStage' = "answering"
    /\ localAnswer' = [localAnswer EXCEPT !.outcome = outcome, !.hosts = hosts]
    /\ UNCHANGED << webSettings, webAsk, decision, webSent >>

Search(hosts) ==
    /\ webStage = "searching" /\ UNCHANGED hop
    /\ \/ Concludes("results", Shown(webAsk, hosts))
       \/ Concludes("error", {})

Resolve ==
    /\ webStage = "resolving"
    /\ \/ \E addresses \in WebPlaces[hop.place].answers :
             /\ MayConnect(webSettings, WebPlaces[hop.place], addresses)
             /\ hop' = [hop EXCEPT !.pinned = addresses]
             /\ webStage' = "fetching"
             /\ UNCHANGED << webSettings, webAsk, decision, localAnswer, webSent >>
       \/ /\ MayRefuse(webSettings, WebPlaces[hop.place]) /\ UNCHANGED hop
          /\ Concludes("error", {})

\* A plausible bug: the client follows redirects by itself.
Redirect_Followed(place) ==
    /\ webStage = "fetching" /\ hop.body = 0 /\ hop.redirects < MaxRedirects
    /\ hop' = [hop EXCEPT !.place = place, !.redirects = @ + 1]
    /\ UNCHANGED << webSettings, webAsk, webStage, decision, localAnswer, webSent >>

\* A redirect closes the connection; the next place is resolved like the first.
Redirect(place) ==
    /\ webStage = "fetching" /\ hop.body = 0
    /\ IF hop.redirects < MaxRedirects
       THEN /\ hop' = HopTo(place, hop.redirects + 1)
            /\ webStage' = "resolving"
            /\ UNCHANGED << webSettings, webAsk, decision, localAnswer, webSent >>
       ELSE /\ hop' = [hop EXCEPT !.pinned = {}]
            /\ Concludes("error", {})

\* A chunk of n parts, cut at the cap.
Receive(n) ==
    /\ webStage = "fetching" /\ hop.body < BodyCap
    /\ hop' = [hop EXCEPT !.body = IF @ + n <= BodyCap THEN @ + n ELSE BodyCap]
    /\ UNCHANGED << webSettings, webAsk, webStage, decision, localAnswer, webSent >>

\* The page ends or reaches the cap; or there is no connection, an error status,
\* no place to be redirected to, or no more time.
FetchEnds ==
    /\ webStage = "fetching"
    /\ hop' = [hop EXCEPT !.pinned = {}]
    /\ \/ Concludes("page", {})
       \/ Concludes("error", {})

\* The client goes away: what is open is closed.
Abandon ==
    /\ webStage \in {"deciding", "replaying", "answering", "searching", "resolving",
                     "fetching"}
    /\ webStage' = "abandoned"
    /\ decision' = [decision EXCEPT !.open = FALSE]
    /\ hop' = [hop EXCEPT !.pinned = {}]
    /\ UNCHANGED << webSettings, webAsk, localAnswer, webSent >>

WebToolsNext ==
    \/ Refuse \/ AskForDecision \/ AnswerAtOnce \/ PassOn
    \/ \E tool \in ServerTools : RunForced(tool)
    \/ Buffer \/ DecisionFails \/ Replay \/ SendFrame \/ Resolve \/ FetchEnds \/ Abandon
    \/ \E n \in 0..2 : \E calls \in [1..n -> Calls] : Decide(calls)
    \/ \E hosts \in SUBSET Hosts : Search(hosts)
    \/ \E place \in DOMAIN WebPlaces : Redirect(place)
    \/ \E n \in 1..BodyCap : Receive(n)

WebToolsSpec == WebToolsInit /\ [][WebToolsNext]_webVars

-----------------------------------------------------------------------------
\* The variables' ranges.
WebToolsTypeOK ==
    /\ webSettings \in WebSettings /\ webAsk \in MessageRequests
    /\ webStage \in {"received", "refused", "passed", "deciding", "replaying",
                     "answering", "searching", "resolving", "fetching", "answered",
                     "failed", "abandoned"}
    /\ decision \in [given : Seq(MessageRequests), open : BOOLEAN,
                     chunks : 0..MaxBuffered, calls : Seq(Calls)]
    /\ localAnswer \in [by : {Nobody} \cup ServerTools \cup FastPathsSet,
                        outcome : {"none", "results", "page", "error"},
                        hosts : SUBSET Hosts]
    /\ webSent \in Seq(Frames)
    /\ hop \in [place : DOMAIN WebPlaces, redirects : 0..MaxRedirects,
                pinned : SUBSET {"public", "private"}, body : 0..BodyCap]

\* No provider is given a server tool, nor asked to use one that is; and a
\* classifier's request reaches it without reasoning and its own stop sequence,
\* with the others.
ProvidersSeeFunctions ==
    \A request \in {decision.given[k] : k \in 1..Len(decision.given)} :
        /\ ServerToolsOf(request) = {} /\ ~ForcesOne(request)
        /\ IsClassifier(request) =>
              ~request.reasoning /\ request.stops = webAsk.stops \ {"classifier"}

\* A request is answered by one party: what is answered here reaches no provider,
\* unless the provider chose the search; and of what a provider decides the client
\* sees nothing before it is whole, and then either the provider's own words or
\* the local answer, never the hidden call.
OneAnswer ==
    /\ decision.given # << >> /\ localAnswer.by # Nobody =>
          localAnswer.by = "web_search" /\ IsSearch(decision.calls)
    /\ webSent # << >> =>
          /\ ~decision.open
          /\ \/ /\ localAnswer.by = Nobody /\ decision.calls = << >>
                /\ \A k \in 1..Len(webSent) : webSent[k] = Chunk(k)
                /\ Len(webSent) <= decision.chunks
             \/ localAnswer.by \in ServerTools

\* The blocks of a local answer come one after another, each closed before the
\* next, with a delta only in its own; the result is there before its block; and
\* an answer that ended is whole.
ClosedBetween(j, k) == \E i \in j..k : webSent[i] = Frame("block_stop", webSent[j].index)
LocalAnswerIsWhole ==
    localAnswer.by \in ServerTools =>
        /\ \A k \in 1..Len(webSent) :
              /\ k = 1 <=> webSent[k].event = "message_start"
              /\ webSent[k].event = "block_start" =>
                    \A j \in 1..(k - 1) : webSent[j].event = "block_start" =>
                       webSent[j].index < webSent[k].index /\ ClosedBetween(j, k - 1)
              /\ webSent[k].event \in {"block_delta", "block_stop"} =>
                    \E j \in 1..(k - 1) :
                       /\ webSent[j] = Frame("block_start", webSent[k].index)
                       /\ ~ClosedBetween(j, k - 1)
              /\ webSent[k].event = "message_stop" =>
                    \A j \in 1..(k - 1) :
                       webSent[j].event = "block_start" => ClosedBetween(j, k)
        /\ Len(webSent) > Announced => localAnswer.outcome # "none"
        /\ webStage = "answered" => webSent[Len(webSent)].event = "message_stop"

\* A fetch is connected only to what the settings allow, also after redirects of
\* which there are only so many; nothing stays open behind a request that ended;
\* and the hosts shown are those the request asked for.
WebIsBounded ==
    /\ hop.pinned # {} =>
          /\ webStage = "fetching" /\ localAnswer.by = "web_fetch" /\ webSettings.web
          /\ WebPlaces[hop.place].scheme \in webSettings.schemes
          /\ webSettings.private \/ hop.pinned = {"public"}
    /\ decision.open => webStage = "deciding"
    /\ hop.redirects <= MaxRedirects /\ hop.body <= BodyCap
    /\ IsAutomatic(webAsk) =>
          \A host \in localAnswer.hosts : \A tool \in {webAsk.tools[1]} :
             /\ tool.allowed # {} => \E domain \in tool.allowed : IsUnder(host, domain)
             /\ ~\E domain \in tool.blocked : IsUnder(host, domain)

\* What a request that has server tools, or is answered here, can rely on.
WebToolsAreContained ==
    ProvidersSeeFunctions /\ OneAnswer /\ LocalAnswerIsWhole /\ WebIsBounded
=============================================================================
