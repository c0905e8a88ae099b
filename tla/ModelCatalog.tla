------------------------------ MODULE ModelCatalog ------------------------------
(***************************************************************************)
(* The models a client is offered: the discovery of the providers' models, *)
(* the cache of their listings with its scope, the lists of /v1/models and *)
(* the catalog file that Codex reads.  An offer is good when the id, sent  *)
(* back with a request, routes to the model it was offered for.            *)
(*                                                                         *)
(* Generations, leases and the replace lock are those of                   *)
(* ProviderGenerations: here an operation under the lock is one task, and  *)
(* the discovery in the background another.                                *)
(***************************************************************************)
EXTENDS ModelNames

CONSTANTS LocalProviders,  \* providers with descriptor.local
          Configs,         \* the settings an instance admits
          Answers,         \* Answers[p]: what p may answer to a listing
          ClaudeNames,     \* SUPPORTED_CLAUDE_MODELS
          MaxDiscoveries   \* bound on operations that list models

ASSUME CatalogAssumption ==
    /\ LocalProviders \subseteq Providers
    /\ \A c \in Configs : ValidRoutes(c)
    /\ \A p \in Providers : \A answer \in Answers[p] : \A l \in Listings(p, answer) :
          DOMAIN l \subseteq Models /\ \A m \in DOMAIN l : l[m] \in Thinking
    /\ ClaudeNames \subseteq Seq(Segments) \ {<< >>}
    /\ \A n \in ClaudeNames : Direct(n) = NoTarget
    /\ MaxDiscoveries \in Nat

VARIABLES starting,      \* the runtime warms the cache and serves nobody yet
          routing,       \* the settings of the current generation
          connected,     \* the accounts in the credential store
          scope,         \* ProviderModelCache._available_provider_ids
          modelCache,    \* the listings by provider, for the providers that have one
          discovering,   \* the task that start_model_list_refresh or replace creates
          locked,        \* who holds the replace lock and lists models
          checked,       \* the providers test_provider is listing
          codexFile,     \* the entries of the catalog file, none without one
          lagging,       \* the file may lag behind: not written since something changed
          discoveries    \* the operations begun

catalogVars == << starting, routing, connected, scope, modelCache, discovering, locked,
                  checked, codexFile, lagging, discoveries >>

Task      == [state : {"none", "missing", "all", "listing"}, asked : SUBSET Providers]
NoTask    == [state |-> "none", asked |-> {}]
Listing(asked) == [state |-> "listing", asked |-> asked]

NoModels  == [p \in {} |-> {}]
NoCatalogFile    == {}
Entries   == [id : Seq(Segments), target : Targets, reasons : BOOLEAN]

-----------------------------------------------------------------------------
\* Which providers are asked, and whose listing may be kept.

Referenced(c)         == {t.provider : t \in Configured(c)}
Usable(c, accounts)   == c.usable \cup accounts
Listable(c, accounts) ==
    {p \in Usable(c, accounts) : p \in LocalProviders => p \in Referenced(c)}

\* What asking some providers may find; those it does not list have failed.
Readings(p)  == UNION {Listings(p, answer) : answer \in Answers[p]}
Found(asked) ==
    UNION {{f \in [s -> UNION {Readings(p) : p \in s}] :
               \A p \in s : f[p] \in Readings(p)} : s \in SUBSET asked}

\* ProviderModelCache.cache_model_infos and set_available_providers.
Caching(cache, found, kept) ==
    [p \in DOMAIN cache \cup (DOMAIN found \cap kept) |->
        IF p \in DOMAIN found \cap kept THEN found[p] ELSE cache[p]]
Within(cache, kept) == [p \in DOMAIN cache \cap kept |-> cache[p]]

-----------------------------------------------------------------------------
\* The lists of models.

ThinkingOf(cache, t) ==
    IF t.provider \in DOMAIN cache /\ t.model \in DOMAIN cache[t.provider]
    THEN cache[t.provider][t.model] ELSE "unknown"

Discovered(cache) ==
    UNION {{[provider |-> p, model |-> m] : m \in DOMAIN cache[p]} : p \in DOMAIN cache}
Inventory(c, cache) == Configured(c) \cup Discovered(cache)
Reasoning(c, cache) == {t \in Inventory(c, cache) : ThinkingOf(cache, t) # "no"}

Entry(id, t, reasons) == [id |-> id, target |-> t, reasons |-> reasons]

\* What Claude Code is shown besides the Claude models themselves.
ClaudeView(c, cache) ==
    {Entry(GatewayId(t), t, TRUE) : t \in Reasoning(c, cache)}
      \cup {Entry(NoThinkingId(t), t, FALSE) : t \in Inventory(c, cache)}

\* What the clients that take any name are shown.
DirectView(c, cache) ==
    {Entry(Ref(t), t, TRUE) : t \in Reasoning(c, cache)}
      \cup {Entry(NoThinkingId(t), t, FALSE) :
               t \in Inventory(c, cache) \ Reasoning(c, cache)}

\* The catalog of a launcher: a model reasons if it is listed by its own name.
ClientModels(view) == {Entry(e.id, e.target, e.id = Ref(e.target)) : e \in view}
Codex(c, cache) == ClientModels(DirectView(c, cache))

-----------------------------------------------------------------------------
\* Every publication brings the scope up to date; only then may the write fail.
PublishCatalog(c, cache) ==
    /\ scope' = Usable(c, connected)
    /\ modelCache' = Within(cache, Usable(c, connected))
    /\ \/ codexFile' = Codex(c, Within(cache, Usable(c, connected))) /\ lagging' = FALSE
       \/ lagging' = TRUE /\ UNCHANGED codexFile

\* A file of an earlier server may be there.
CatalogStarts(configs, accounts, files) ==
    /\ starting = TRUE
    /\ routing \in configs /\ connected \in accounts
    /\ scope = Usable(routing, connected) /\ modelCache = NoModels
    /\ discovering = NoTask /\ locked = NoTask /\ checked = {}
    /\ codexFile \in files /\ lagging = TRUE
    /\ discoveries = 0

CatalogInit ==
    CatalogStarts(Configs, SUBSET AccountProviders,
                  {NoCatalogFile} \cup {Codex(c, NoModels) : c \in Configs})

\* The providers that are routed to are listed before anyone is served.  A
\* catalog file that is there stays as it is.
Warm ==
    /\ starting
    /\ \E found \in Found(Referenced(routing)) :
          LET cache == Caching(modelCache, found, scope)
          IN  IF codexFile = NoCatalogFile THEN PublishCatalog(routing, cache)
              ELSE modelCache' = cache /\ UNCHANGED << scope, codexFile, lagging >>
    /\ starting' = FALSE
    /\ discovering' = [NoTask EXCEPT !.state = "missing"]
    /\ UNCHANGED << routing, connected, locked, checked, discoveries >>

BackgroundRuns ==
    /\ discovering.state \in {"missing", "all"}
    /\ discovering' = Listing(Listable(routing, connected)
                        \ (IF discovering.state = "missing" THEN DOMAIN modelCache ELSE {}))
    /\ UNCHANGED << starting, routing, connected, scope, modelCache, locked, checked,
                    codexFile, lagging, discoveries >>

BackgroundListed ==
    /\ discovering.state = "listing"
    /\ \E found \in Found(discovering.asked) :
          PublishCatalog(routing, Caching(modelCache, found, scope))
    /\ discovering' = NoTask
    /\ UNCHANGED << starting, routing, connected, locked, checked, discoveries >>

\* An operation that takes the replace lock.
Locks ==
    /\ ~starting /\ locked = NoTask /\ discoveries < MaxDiscoveries
    /\ discoveries' = discoveries + 1
    /\ UNCHANGED << starting, connected, checked >>

ExplicitRefresh ==
    /\ Locks
    /\ discovering' = NoTask
    /\ locked' = Listing(Listable(routing, connected))
    /\ UNCHANGED << routing, scope, modelCache, codexFile, lagging >>

\* Without a new runtime the old settings stay, but not the background task.
Replace(c) ==
    /\ Locks
    /\ \/ /\ routing' = c
          /\ discovering' = [NoTask EXCEPT !.state = "all"]
          /\ PublishCatalog(c, modelCache)
       \/ /\ discovering' = NoTask
          /\ UNCHANGED << routing, scope, modelCache, codexFile, lagging >>
    /\ UNCHANGED locked

AccountAdded(p) ==
    /\ Locks
    /\ scope' = scope \cup {p}
    /\ locked' = Listing({p})
    /\ UNCHANGED << routing, modelCache, discovering, codexFile, lagging >>

\* A plausible bug: the listing goes, and the file still offers it.
AccountRemoved_Unpublished(p) ==
    /\ Locks
    /\ modelCache' = Within(modelCache, Providers \ {p})
    /\ UNCHANGED << routing, discovering, locked, scope, codexFile, lagging >>

AccountRemoved(p) ==
    /\ Locks
    /\ PublishCatalog(routing, Within(modelCache, Providers \ {p}))
    /\ UNCHANGED << routing, discovering, locked >>

\* The holder of the lock has its listings, or is cancelled before it has.
AdminListed ==
    /\ locked # NoTask
    /\ \/ \E found \in Found(locked.asked) :
             PublishCatalog(routing, Caching(modelCache, found, scope))
       \/ UNCHANGED << scope, modelCache, codexFile, lagging >>
    /\ locked' = NoTask
    /\ UNCHANGED << starting, routing, connected, discovering, checked, discoveries >>

\* A check of one provider takes no lock.
CheckStarts(p) ==
    /\ ~starting /\ discoveries < MaxDiscoveries
    /\ checked' = checked \cup {p}
    /\ discoveries' = discoveries + 1
    /\ UNCHANGED << starting, routing, connected, scope, modelCache, discovering, locked,
                    codexFile, lagging >>

CheckListed(p) ==
    /\ p \in checked
    /\ checked' = checked \ {p}
    /\ \E found \in Found({p}) :
          IF DOMAIN found = {} THEN UNCHANGED << scope, modelCache, codexFile, lagging >>
          ELSE PublishCatalog(routing, Caching(modelCache, found, scope))
    /\ UNCHANGED << starting, routing, connected, discovering, locked, discoveries >>

\* A list brings the scope up to date, and publishes nothing.
ListModels ==
    /\ ~starting
    /\ scope' = Usable(routing, connected)
    /\ modelCache' = Within(modelCache, Usable(routing, connected))
    /\ lagging' = (lagging \/ DOMAIN modelCache' # DOMAIN modelCache)
    /\ UNCHANGED << starting, routing, connected, discovering, locked, checked, codexFile,
                    discoveries >>

\* Logins and disconnects change the store before the manager is told, and
\* another process may change it too.
AccountsChange ==
    /\ connected' \in SUBSET AccountProviders \ {connected}
    /\ UNCHANGED << starting, routing, scope, modelCache, discovering, locked, checked,
                    codexFile, lagging, discoveries >>

CatalogNext ==
    \/ Warm \/ BackgroundRuns \/ BackgroundListed
    \/ ExplicitRefresh \/ AdminListed \/ ListModels \/ AccountsChange
    \/ \E c \in Configs : Replace(c)
    \/ \E p \in AccountProviders : AccountAdded(p) \/ AccountRemoved(p)
    \/ \E p \in Providers : CheckStarts(p) \/ CheckListed(p)

CatalogSpec == CatalogInit /\ [][CatalogNext]_catalogVars

-----------------------------------------------------------------------------
\* The variables' ranges.
CatalogTypeOK ==
    /\ starting \in BOOLEAN /\ routing \in Configs
    /\ connected \subseteq AccountProviders /\ scope \subseteq Providers
    /\ DOMAIN modelCache \subseteq Providers
    /\ \A p \in DOMAIN modelCache : \A m \in DOMAIN modelCache[p] :
          m \in Models /\ modelCache[p][m] \in Thinking
    /\ discovering \in Task /\ locked \in Task /\ checked \subseteq Providers
    /\ codexFile \subseteq Entries /\ lagging \in BOOLEAN
    /\ discoveries \in 0..MaxDiscoveries

\* Where an entry's id leads under some settings: to the model it was listed
\* for, and to no reasoning if it was listed as not reasoning.
RoutesBack(c, e) ==
    /\ PrimaryOf(c, e.id) = e.target
    /\ PreferenceOf(c, e.id) = IF e.reasons THEN c.reasoning ELSE "off"

\* Every id listed to a client, or written for Codex, routes back to its model,
\* whatever settings come between: no provider, model or prefix is taken for
\* another.
ListedModelsRouteBack ==
    \A c \in Configs :
       \A e \in ClaudeView(routing, modelCache) \cup DirectView(routing, modelCache)
                   \cup codexFile :
          RoutesBack(c, e)

\* A request tries no model twice, and only models of known providers.
CandidatesAreDistinct ==
    \A n \in ClaudeNames \cup {e.id : e \in DirectView(routing, modelCache)} :
       LET tried == RouteCandidates(routing, n)
       IN  /\ \A i \in 1..Len(tried) : tried[i].provider \in Providers
           /\ \A i, j \in 1..Len(tried) : i # j => tried[i] # tried[j]

\* The file shows the inventory the server routes, unless a write failed, a
\* list dropped what a lost account had offered, or the server has just begun
\* with an older file.
CodexFileIsCurrent == ~lagging => codexFile = Codex(routing, modelCache)

\* A listing in the cache is the whole of one answer, and of a provider in scope.
ModelsOf(p, i) ==
    IF p \in ToolCapable THEN IF TakesTools(i) THEN {i.id} ELSE {}
    ELSE IF p \in AccountProviders THEN IF IsVisible(i) THEN {i.id} ELSE {}
    ELSE IF i.wanted = "yes" THEN Names(i) ELSE {}

ListingsAreWhole ==
    \A p \in DOMAIN modelCache :
       /\ p \in scope
       /\ \E answer \in Answers[p] :
             /\ AllPages(answer)
             /\ DOMAIN modelCache[p] =
                   UNION {ModelsOf(p, At(answer, x)) : x \in Places(answer)}

\* Whatever a client and the settings ask for is a policy that can be built, and
\* what turns reasoning off cannot be overruled.
PoliciesAreValid ==
    \A w \in Wishes :
       /\ \A preference \in Preferences : ValidPolicy(PolicyOf(preference, w))
       /\ PolicyOf("off", w).control = "off"
       /\ w.effort = "none" \/ w.type = "disabled" =>
             PolicyOf("client", w).control = "off"

\* What a server that serves offers, routes and keeps of its providers' models
\* holds together.
OffersAreGood ==
    ~starting =>
        /\ ListedModelsRouteBack /\ CandidatesAreDistinct /\ PoliciesAreValid
        /\ CodexFileIsCurrent /\ ListingsAreWhole
==============================================================================
