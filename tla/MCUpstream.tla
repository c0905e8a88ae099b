------------------------------ MODULE MCUpstream ------------------------------
(***************************************************************************)
(* TLC instance of the parts between an execution and its provider that    *)
(* share no state: admission, the rate window, the history sent to a chat  *)
(* provider, the corrections of a request that was refused, the parsers of *)
(* the text it answers and the Responses answer built from a stream.  A    *)
(* behaviour is one of one part, the others rest in an initial state, so a *)
(* run explores the sum of the parts' state spaces, not their product.     *)
(***************************************************************************)
EXTENDS ProviderAdmission, SlidingWindow, ResponsesAssembly,
        ChatHistory, TextParsers, RequestCorrections, TLC

VARIABLE part

textVars == << historyVars, parserVars, correctionVars >>

upstreamVars == << part, admissionVars, windowVars, assemblyVars, textVars >>

\* Sessions are interchangeable.
Symmetry == Permutations(Sessions)

\* Upstreams by what they refuse: with each limit, option, vocabulary and field.
Accepting(adapter, limit, usage, efforts, refused) ==
    [adapter |-> adapter, limit |-> limit, usage |-> usage, efforts |-> efforts, refused |-> refused]

MCUpstreams ==
    { Accepting("plain", n, u, {}, {}) : n \in 1 .. 2, u \in BOOLEAN }
    \cup { Accepting("groq", 1, FALSE, e, {}) : e \in {{"default"}, {"none"}} }
    \cup { Accepting("nim", 1, TRUE, {}, r) : r \in {{"template"}, {"budget", "reasoning"}} }
    \cup { Accepting("mistral", 2, FALSE, {}, {"reasoning"}) }

UpstreamInit ==
    /\ part \in {"admission", "window", "answer", "history", "text", "corrections"}
    /\ Init /\ WindowInit /\ AssemblyInit /\ HistoryInit /\ ParserInit
    /\ CorrectionsInit
    /\ part # "text" => parsing = "think"
    /\ part # "corrections" => upstream.adapter = "mistral"

UpstreamNext ==
    /\ UNCHANGED part
    /\ \/ /\ part = "admission" /\ Next
          /\ UNCHANGED << windowVars, assemblyVars, textVars >>
       \/ /\ part = "window" /\ WindowNext
          /\ UNCHANGED << admissionVars, assemblyVars, textVars >>
       \/ /\ part = "answer" /\ AssemblyNext
          /\ UNCHANGED << admissionVars, windowVars, textVars >>
       \/ /\ part = "history" /\ HistoryNext
          /\ UNCHANGED << admissionVars, windowVars, assemblyVars, parserVars, correctionVars >>
       \/ /\ part = "text" /\ ParserNext
          /\ UNCHANGED << admissionVars, windowVars, assemblyVars, historyVars, correctionVars >>
       \/ /\ part = "corrections" /\ CorrectionsNext
          /\ UNCHANGED << admissionVars, windowVars, assemblyVars, historyVars, parserVars >>

UpstreamSpec == UpstreamInit /\ [][UpstreamNext]_upstreamVars

\* Every variable of every part stays in its range.
UpstreamTypeOK ==
    /\ TypeOK /\ WindowTypeOK /\ AssemblyTypeOK
    /\ HistoryTypeOK /\ ParserTypeOK /\ CorrectionsTypeOK

\* Nothing is lost on the way to a chat provider and back: a history it is sent
\* is one it can replay, and the text it answers is read as a whole, wherever
\* it is cut (conversion.py, thinking.py, tools.py, native_tool_stream.py).
ConversionsLoseNothing == HistoryIsReplayable /\ ParsersIgnoreChunks
==============================================================================
