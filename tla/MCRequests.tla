------------------------------ MODULE MCRequests ------------------------------
(***************************************************************************)
(* TLC instance of the parts of the server that share no state: the        *)
(* generations of the provider runtime, a request on its way through the   *)
(* server, the connected account, the runtime from start to close, the     *)
(* supervisor of one server after another, the managed configuration, the  *)
(* models that are offered and the server tools; and of the commands that  *)
(* start a client in a terminal.  A behaviour is one of one part, the      *)
(* others rest in an initial state: a run explores the sum of the parts,   *)
(* not their product.  A part's fairness is asked only of its own          *)
(* behaviours.                                                             *)
(***************************************************************************)
EXTENDS ProviderGenerations, InferenceRequest, ConnectedAccounts, ServerLifecycle,
        ServerSupervisor, ManagedConfig, ClientLaunch, ModelCatalog, WebTools

\* A third argument where an option may stand between two words.
MCMaxArgs == [c \in Clients |-> IF c \in {"hermes", "muse", "dsh"} THEN 3 ELSE 2]

-----------------------------------------------------------------------------
\* Models: three providers, one of them local, one behind the account.

\* The tiers that each segment of a name contains.
MCWording ==
    [s \in {NoSegment, "keyed", "local", "account", "gpt", "claude-opus", "opus-4-sonnet"}
             \cup IdPrefixes |->
        CASE s = "claude-opus"   -> {"opus"}
          [] s = "opus-4-sonnet" -> {"opus", "sonnet"}
          [] OTHER               -> {}]

MCTarget(p, m) == [provider |-> p, model |-> m]
MCAccountModel == MCTarget("account", <<"anthropic", "gpt">>)
MCNoTiers      == [t \in Tiers |-> NoTarget]
MCInherit      == [t \in Tiers |-> "inherit"]

MCConfigs ==
    {[model |-> MCTarget("keyed", <<"gpt">>),
      tiers |-> [MCNoTiers EXCEPT !["opus"] = MCAccountModel],
      fallbacks |-> <<MCAccountModel, MCTarget("keyed", <<"gpt">>)>>,
      reasoning |-> "client", tierReasoning |-> [MCInherit EXCEPT !["opus"] = "max"],
      usable |-> {"keyed"}],
     [model |-> MCTarget("local", <<"claude-opus", "gpt">>),
      tiers |-> MCNoTiers, fallbacks |-> << >>,
      reasoning |-> "low", tierReasoning |-> MCInherit,
      usable |-> {"local"}]}

MCItem(id, wanted, tags, capability, aliases) ==
    [id |-> id, wanted |-> wanted, tags |-> tags, capability |-> capability,
     aliases |-> aliases]
MCPlain(id) == MCItem(id, "yes", {}, "missing", << >>)
MCPage(n, total, items) == [number |-> n, total |-> total, items |-> items]

\* One model twice, told to reason and not; pages that disagree; an alias before
\* the model of that name on the next page; an item that cannot be read; and models
\* without tools or not shown.
MCModel(id, tags) == MCItem(id, "no", tags, "missing", << >>)
MCAnswers == [p \in Providers |->
    CASE p = "keyed" ->
           {<<MCPage(1, 1, <<MCModel(<<"gpt">>, {"tools"}),
                             MCModel(<<"gpt">>, {"tool_choice", "reasoning"}),
                             MCModel(<<"gpt", NoSegment>>, {"tools"}),
                             MCModel(<<"claude-opus">>, {"bad"})>>)>>,
            <<MCPage(1, 2, <<MCModel(<<"gpt">>, {"tools"})>>),
              MCPage(2, 1, <<MCModel(<<"gpt">>, {"tools"})>>)>>}
      [] p = "local" ->
           {<<MCPage(1, 2, <<MCItem(<<"claude-opus", "gpt">>, "yes", {"reasoning"}, "no",
                                    << <<"gpt">> >>),
                             MCItem(<<"claude-opus">>, "no", {}, "missing", << >>)>>),
              MCPage(2, 2, <<MCPlain(<<"gpt">>)>>)>>,
            <<MCPage(1, 1, <<MCPlain(<<"gpt">>), MCPlain(<<NoSegment>>)>>)>>}
      [] OTHER ->
           {<<MCPage(1, 1, <<MCItem(<<"anthropic", "gpt">>, "yes", {}, "yes", << >>),
                             MCItem(<<NoSegment>>, "yes", {}, "missing", << >>),
                             MCItem(<<"gpt">>, "no", {}, "missing", << >>)>>)>>}]

MCClaudeNames == {<<"claude-opus">>, <<"opus-4-sonnet">>}

-----------------------------------------------------------------------------
\* Server tools: a place whose name may resolve to several addresses, and three
\* that only some settings allow.
MCPlace(scheme, host, answers) == [scheme |-> scheme, host |-> host, answers |-> answers]
MCWebPlaces ==
    [p \in {"site", "private", "localhost", "file"} |->
        CASE p = "site" ->
               MCPlace("https", "name", {{"public"}, {"public", "private"}, {}})
          [] p = "private"   -> MCPlace("http", "literal", {{"private"}})
          [] p = "localhost" -> MCPlace("http", "localhost", {{"private"}})
          [] p = "file"      -> MCPlace("file", "absent", {})]

MCExample  == <<"example", "org">>
MCHosts    == {NoHost, MCExample, <<"www", "example", "org">>}

MCTool(type, name) ==
    [type |-> type, name |-> name, legible |-> TRUE, allowed |-> {}, blocked |-> {}]
MCSearch   == MCTool("web_search", "web_search")
MCOwn      == MCTool("none", "own")
MCTools ==
    {MCSearch, MCOwn, MCTool("web_search", "own"), MCTool("none", "web_search"),
     MCTool("other", "web_search"), MCTool("web_fetch", "web_fetch"),
     [MCSearch EXCEPT !.allowed = {MCExample}], [MCSearch EXCEPT !.blocked = {MCExample}],
     [MCSearch EXCEPT !.allowed = {MCExample}, !.blocked = MCHosts \ {NoHost}],
     [MCSearch EXCEPT !.legible = FALSE]}

MCAsk(tools, choice) ==
    [tools |-> tools, choice |-> choice, history |-> FALSE, place |-> "site",
     single |-> TRUE, oneToken |-> TRUE, words |-> {}, stops |-> {"own"},
     reasoning |-> TRUE]
MCWords == {"quota", "policy", "title", "suggestion", "paths", "transcript"}

\* One tool with every choice, two with some, none with every mark.
MCAsks ==
    {MCAsk(<<t>>, c) :
        t \in MCTools, c \in {"absent", "auto", "other", "own"} \cup ServerTools}
      \cup {[MCAsk(<<t, MCOwn>>, c) EXCEPT !.words = {"policy", "title"}] :
               t \in MCTools, c \in {"auto"} \cup ServerTools}
      \cup {[MCAsk(<<MCSearch>>, "auto") EXCEPT !.history = TRUE]}
      \cup {[MCAsk(<< >>, "absent") EXCEPT !.words = w, !.single = b,
                                            !.stops = {"own", "classifier"}] :
               w \in SUBSET MCWords, b \in BOOLEAN}

MCWebSettings ==
    {[web |-> TRUE, private |-> FALSE, schemes |-> {"http", "https"},
      fast |-> FastPathsSet],
     [web |-> TRUE, private |-> TRUE, schemes |-> {"http"},
      fast |-> {"title", "suggestion"}],
     [web |-> FALSE, private |-> FALSE, schemes |-> {"http", "https"}, fast |-> {}]}

-----------------------------------------------------------------------------
VARIABLE part

allVars == << part, vars, callVars, accountVars, lifecycleVars, supervisorVars,
              configVars, launchVars, catalogVars, webVars >>

\* What the other parts rest beside: one launch, one server with one setting, one
\* request.
NoLaunch == BeginLaunch(CHOOSE c \in Clients : TRUE, <<>>, {})
NoOffers == CatalogStarts({CHOOSE c \in Configs : TRUE}, {{}}, {NoCatalogFile})
NoWebRequest == WebStarts({MCAsk(<<MCOwn>>, "absent")},
                          {CHOOSE s \in WebSettings : ~s.web})

\* The files the account and the configuration may start from are initial
\* states of their parts.
RequestsInit ==
    /\ part \in {"generations", "request", "account", "lifecycle", "supervisor", "config",
                "launch", "catalog", "webtools"}
    /\ IF part = "catalog" THEN CatalogInit ELSE NoOffers
    /\ IF part = "webtools" THEN WebToolsInit ELSE NoWebRequest
    /\ Init /\ RequestInit /\ AccountsInit /\ LifecycleInit /\ SupervisorInit
    /\ part # "account" => file = None
    /\ ConfigStarts(IF part = "config" THEN MaxAssigned ELSE 0)
    /\ part = "config" \/ ~callback
    /\ IF part = "launch" THEN ClientLaunchInit ELSE NoLaunch

RequestsNext ==
    /\ UNCHANGED part
    /\ \/ /\ part = "generations" /\ Next
          /\ UNCHANGED << callVars, accountVars, lifecycleVars, supervisorVars,
                          configVars, launchVars, catalogVars, webVars >>
       \/ /\ part = "request" /\ RequestNext
          /\ UNCHANGED << vars, accountVars, lifecycleVars, supervisorVars, configVars,
                          launchVars, catalogVars, webVars >>
       \/ /\ part = "account" /\ AccountsNext
          /\ UNCHANGED << vars, callVars, lifecycleVars, supervisorVars, configVars,
                          launchVars, catalogVars, webVars >>
       \/ /\ part = "lifecycle" /\ LifecycleNext
          /\ UNCHANGED << vars, callVars, accountVars, supervisorVars, configVars,
                          launchVars, catalogVars, webVars >>
       \/ /\ part = "supervisor" /\ SupervisorNext
          /\ UNCHANGED << vars, callVars, accountVars, lifecycleVars, configVars,
                          launchVars, catalogVars, webVars >>
       \/ /\ part = "config" /\ ConfigNext
          /\ UNCHANGED << vars, callVars, accountVars, lifecycleVars, supervisorVars,
                          launchVars, catalogVars, webVars >>
       \/ /\ part = "launch" /\ ClientLaunchNext
          /\ UNCHANGED << vars, callVars, accountVars, lifecycleVars, supervisorVars,
                          configVars, catalogVars, webVars >>
       \/ /\ part = "catalog" /\ CatalogNext
          /\ UNCHANGED << vars, callVars, accountVars, lifecycleVars, supervisorVars,
                          configVars, launchVars, webVars >>
       \/ /\ part = "webtools" /\ WebToolsNext
          /\ UNCHANGED << vars, callVars, accountVars, lifecycleVars, supervisorVars,
                          configVars, launchVars, catalogVars >>

Generations == part = "generations"
Request     == part = "request"

\* What Spec and RequestSpec ask, of the part that runs.
RequestsSpec ==
    /\ RequestsInit /\ [][RequestsNext]_allVars
    /\ WF_vars(Generations /\ AdminStep) /\ WF_vars(Generations /\ CloseStep)
    /\ \A q \in Requests : WF_vars(Generations /\ Release(q))
    /\ \A r \in Runtimes : /\ WF_vars(Generations /\ BackgroundStep(r))
                           /\ WF_vars(Generations /\ CleanupEnds(r))
    /\ WF_callVars(Request /\ AppStep) /\ WF_callVars(Request /\ BoundaryStep)
    /\ WF_callVars(Request /\ DeadlinePasses)
    /\ AccountsFairness /\ SupervisorFairness

\* Every variable of every part stays in its range.  What the catalog and the
\* server tools rest in is one of their own initial states.
RequestsTypeOK ==
    /\ TypeOK /\ RequestTypeOK /\ AccountsTypeOK
    /\ LifecycleTypeOK /\ SupervisorTypeOK /\ ConfigTypeOK
    /\ ClientLaunchTypeOK
    /\ part = "catalog" => CatalogTypeOK
    /\ part = "webtools" => WebToolsTypeOK

\* What was begun comes to its end: a request (RequestEnds), every operation
\* of an account (AccountOperationsEnd), what was asked of the supervisor
\* (RequestsTakeEffect), and a retired generation once nobody uses it
\* (RetiredGenerationCloses).
OperationsEnd ==
    /\ RequestEnds /\ AccountOperationsEnd /\ RequestsTakeEffect
    /\ RetiredGenerationCloses
==============================================================================
