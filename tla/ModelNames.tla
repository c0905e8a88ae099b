------------------------------- MODULE ModelNames -------------------------------
(***************************************************************************)
(* How a model is named, and what a name means: the ids the gateway lists, *)
(* their way back to a provider and its model, the tiers of Claude names,  *)
(* the fallbacks and the reasoning of a request, and which models a        *)
(* provider's answer to a listing names.                                   *)
(*                                                                         *)
(* A name is the sequence of its segments between slashes.  An empty       *)
(* segment is NoSegment; a segment has no blanks around it.                *)
(***************************************************************************)
EXTENDS Integers, Sequences, Queues

CONSTANTS Providers,       \* the ids of PROVIDER_CATALOG
          ToolCapable,     \* those that list by their models' parameters
          AccountProviders,\* those used through a connected account
          Wording,         \* Wording[s]: the tiers a segment's text contains
          MaxPages,        \* OpenAIModelPagination.max_pages
          Budgets          \* thinking budgets a client may send; 0 is none

Segments == DOMAIN Wording
NoSegment    == ""
Gateway  == "anthropic"
NoThinking == "claude-3-freecc-no-thinking"
IdPrefixes == {Gateway, NoThinking}

\* What follows a slash must not be empty as a whole.
Models == Seq(Segments) \ {<< >>, <<NoSegment>>}

Tiers     == {"fable", "opus", "haiku", "sonnet"}
TierOrder == <<"fable", "opus", "haiku", "sonnet">>

Targets  == [provider : Providers, model : Models]
NoTarget == [provider |-> NoSegment, model |-> << >>]

Efforts     == {"minimal", "low", "medium", "high", "xhigh", "max"}
Preferences == {"off", "client"} \cup (Efforts \ {"minimal"})
Thinking    == {"yes", "no", "unknown"}

ASSUME NamesAssumption ==
    /\ Providers \subseteq Segments \ (IdPrefixes \cup {NoSegment})
    /\ IdPrefixes \cup {NoSegment} \subseteq Segments
    /\ ToolCapable \cup AccountProviders \subseteq Providers
    /\ \A s \in Segments : Wording[s] \subseteq Tiers
    /\ MaxPages \in Nat \ {0} /\ Budgets \subseteq Int

-----------------------------------------------------------------------------
\* The ids of a model.

Ref(t)           == <<t.provider>> \o t.model
GatewayId(t)     == <<Gateway>> \o Ref(t)
NoThinkingId(t)  == <<NoThinking>> \o Ref(t)

\* A plausible bug: the ids without thinking are not decoded.
IsGatewayId_Thinking(n) == Len(n) > 2 /\ Head(n) = Gateway

\* What an id of the gateway encodes, and whether it is one.
IsGatewayId(n) == Len(n) > 2 /\ Head(n) \in IdPrefixes /\ Tail(Tail(n)) # <<NoSegment>>
Decoded(n)     == [provider |-> Head(Tail(n)), model |-> Tail(Tail(n))]

\* A name that says its provider by itself.
IsRef(n) == Len(n) > 1 /\ Tail(n) # <<NoSegment>>

Direct(n) ==
    IF IsGatewayId(n)
    THEN IF Head(Tail(n)) \in Providers THEN Decoded(n) ELSE NoTarget
    ELSE IF IsRef(n) /\ Head(n) \in Providers
         THEN [provider |-> Head(n), model |-> Tail(n)] ELSE NoTarget

ForcesOff(n) == IsGatewayId(n) /\ Head(n) = NoThinking

-----------------------------------------------------------------------------
\* The settings a route depends on, as their validators leave them.

SettingsOf(ts) ==
    [model : ts, tiers : [Tiers -> ts \cup {NoTarget}], fallbacks : Seq(ts),
     reasoning : Preferences, tierReasoning : [Tiers -> Preferences \cup {"inherit"}],
     usable : SUBSET Providers]

ValidRoutes(c) ==
    /\ c \in SettingsOf(Targets)
    /\ \A i, j \in 1..Len(c.fallbacks) : i # j => c.fallbacks[i] # c.fallbacks[j]

\* The models the settings name.
Configured(c) ==
    {c.model} \cup {c.tiers[t] : t \in {u \in Tiers : c.tiers[u] # NoTarget}}
              \cup {c.fallbacks[i] : i \in 1..Len(c.fallbacks)}

\* The first tier in the order of _ROUTE_SETTINGS whose word the name contains.
Mentions(n, t)   == \E i \in 1..Len(n) : t \in Wording[n[i]]
IsTier(n, k)   ==
    Mentions(n, TierOrder[k]) /\ \A j \in 1..(k - 1) : ~Mentions(n, TierOrder[j])
HasTier(n)   == \E t \in Tiers : Mentions(n, t)
TierOf(n)    == TierOrder[CHOOSE k \in 1..Len(TierOrder) : IsTier(n, k)]

PrimaryOf(c, n) ==
    IF Direct(n) # NoTarget THEN Direct(n)
    ELSE IF HasTier(n) /\ c.tiers[TierOf(n)] # NoTarget THEN c.tiers[TierOf(n)]
         ELSE c.model

PreferenceOf(c, n) ==
    IF Direct(n) # NoTarget THEN IF ForcesOff(n) THEN "off" ELSE c.reasoning
    ELSE IF HasTier(n) /\ c.tierReasoning[TierOf(n)] # "inherit"
         THEN c.tierReasoning[TierOf(n)] ELSE c.reasoning

\* The primary and the fallbacks, in the order they are tried.
RouteCandidates(c, n) ==
    <<PrimaryOf(c, n)>> \o Remaining(c.fallbacks, {PrimaryOf(c, n)})

-----------------------------------------------------------------------------
\* Reasoning: a client sends a type of thinking with its flag and budget, and
\* an effort.  A budget that is not a positive integer is one of 0.

Wishes == [type : {"absent", "disabled", "enabled", "adaptive", "other"},
           flag : {"unset", "yes", "no"}, budget : Budgets,
           effort : {"absent", "none", "unknown"} \cup Efforts]

Budget(w) == IF w.type # "absent" /\ w.budget > 0 THEN w.budget ELSE 0
Effort(w) == IF w.effort \in Efforts THEN w.effort ELSE "absent"

ThinkingOff(w) == w.type = "disabled" \/ (w.type # "absent" /\ w.flag = "no")
ThinkingOn(w)  == \/ w.type \in {"enabled", "adaptive"}
                  \/ w.type # "absent" /\ w.flag = "yes"
                  \/ Budget(w) > 0

Policy(control, effort, budget) ==
    [control |-> control, effort |-> effort, budget |-> budget]
Off == Policy("off", "absent", 0)

ClientPolicy(w) ==
    IF w.effort = "none" THEN Off
    ELSE IF ThinkingOff(w) THEN Policy("off", Effort(w), 0)
    ELSE IF ThinkingOn(w) THEN Policy("on", Effort(w), Budget(w))
    ELSE Policy("default", Effort(w), 0)

PolicyOf(preference, w) ==
    CASE preference = "off"    -> Off
      [] preference = "client" -> ClientPolicy(w)
      [] OTHER                 -> Policy("on", preference, 0)

\* What ReasoningPolicy accepts.
ValidPolicy(p) == p.budget > 0 => p.control = "on"

-----------------------------------------------------------------------------
(***************************************************************************)
(* A provider's answers to a listing, one for each page asked for: the     *)
(* number of the page, how many pages it says there are, and its items.    *)
(* An item has an id, its outcome at the profile's filters, its tags or    *)
(* parameters, a declared capability, and aliases.                         *)
(***************************************************************************)
Outcomes == {"yes", "no", "missing", "bad"}

\* Pages are asked for until as many have come as the first one announced.
\* Each must be the page asked for and announce the same.
AllPages(answer) ==
    /\ answer # << >> /\ answer[1].total \in 1..MaxPages /\ answer[1].total <= Len(answer)
    /\ \A n \in 1..answer[1].total :
          answer[n].number = n /\ answer[n].total = answer[1].total

\* The items of all pages, each at << page, place >>.
Places(answer) ==
    UNION {{<<n, m>> : m \in 1..Len(answer[n].items)} : n \in 1..answer[1].total}
At(answer, x)    == answer[x[1]].items[x[2]]
Precedes(x, y)     == x[1] < y[1] \/ (x[1] = y[1] /\ x[2] < y[2])
Names(i)         == {i.id} \cup {i.aliases[k] : k \in 1..Len(i.aliases)}

\* What the parser cannot read refuses the whole listing.
Illegible(i) ==
    \/ i.id = <<NoSegment>> \/ i.wanted = "bad"
    \/ i.wanted # "missing" /\ ("bad" \in i.tags \/ i.capability = "bad")
    \/ i.wanted = "yes" /\ <<NoSegment>> \in Names(i)

Supports(i) ==
    IF i.capability \in {"yes", "no"} THEN i.capability
    ELSE IF "reasoning" \in i.tags THEN "yes"
    ELSE IF "plain" \in i.tags THEN "no"
    ELSE "unknown"

\* Of the items that give one name the first one counts.
Wanted(answer)  == {x \in Places(answer) : At(answer, x).wanted = "yes"}
Namers(answer, m) == {x \in Wanted(answer) : m \in Names(At(answer, x))}
First(answer, m) ==
    CHOOSE x \in Namers(answer, m) : \A y \in Namers(answer, m) : y = x \/ Precedes(x, y)

OpenAIListing(answer) ==
    [m \in UNION {Names(At(answer, x)) : x \in Wanted(answer)} |->
        Supports(At(answer, First(answer, m)))]

\* The models that take tools; of two items with one id either may count.
TakesTools(i) == "bad" \notin i.tags /\ i.tags \cap {"tools", "tool_choice"} # {}
ToolPlaces(answer) == {x \in Places(answer) : TakesTools(At(answer, x))}

ToolListings(answer) ==
    LET ids == {At(answer, x).id : x \in ToolPlaces(answer)}
    IN  {l \in [ids -> {"yes", "no"}] :
            \A m \in ids : \E x \in ToolPlaces(answer) :
               /\ At(answer, x).id = m
               /\ l[m] = IF "reasoning" \in At(answer, x).tags THEN "yes" ELSE "no"}

\* The models an account is shown; nothing in them refuses the listing.
IsVisible(i) == i.wanted = "yes" /\ i.id # <<NoSegment>>
VisiblePlaces(answer) == {x \in Places(answer) : IsVisible(At(answer, x))}

AccountListings(answer) ==
    LET ids == {At(answer, x).id : x \in VisiblePlaces(answer)}
    IN  {l \in [ids -> Thinking] :
            \A m \in ids : \E x \in VisiblePlaces(answer) :
               /\ At(answer, x).id = m
               /\ l[m] = IF At(answer, x).capability \in {"yes", "no"}
                         THEN At(answer, x).capability ELSE "unknown"}

\* The listings the provider's answer may be read as: none if it is refused.
Listings(p, answer) ==
    IF ~AllPages(answer) THEN {}
    ELSE IF p \in ToolCapable
    THEN IF \E x \in Places(answer) : At(answer, x).id = <<NoSegment>> THEN {}
         ELSE ToolListings(answer)
    ELSE IF p \in AccountProviders
    THEN IF VisiblePlaces(answer) = {} THEN {} ELSE AccountListings(answer)
    ELSE IF Wanted(answer) = {} \/ \E x \in Places(answer) : Illegible(At(answer, x))
         THEN {} ELSE {OpenAIListing(answer)}
=============================================================================
