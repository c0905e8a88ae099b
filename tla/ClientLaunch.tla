----------------------------- MODULE ClientLaunch -----------------------------
(***************************************************************************)
(* cli/launchers: one run of an fcc-<client> command, from its arguments   *)
(* to the end of the client it starts.  A launcher refuses what it cannot  *)
(* own, starts some commands natively, and otherwise gives the client a    *)
(* route to the local server: options put among the user's own, variables, *)
(* and for some clients files in a temporary directory.  It never parses   *)
(* the client's command line in full: it scans it.                         *)
(***************************************************************************)
EXTENDS Naturals, FiniteSets, SequencesExt

CONSTANTS Clients,      \* launchers to run
          MaxArgs,      \* bound: arguments on a command line of each of them
          MaxToInterrupt    \* bound: arguments of a launch that Ctrl-C hits

VARIABLES
    launch,     \* client, args, env; mode, model and command once known; step; exit
    child,      \* the client's process
    registered, \* its pid is in the process registry
    temp,       \* the temporary directory exists
    asked       \* the local server has been asked for something

launchVars == <<launch, child, registered, temp, asked>>

------------------------------------------------------------------------------
(* Arguments.  A token stands for a kind of argument: options that take a   *)
(* value ("value", "model", "route", "profile"), the same with their value  *)
(* joined ("value=", "model=a"), an option whose value may be missing       *)
(* ("maybe"), a flag the launcher knows ("flag") or does not ("unknown"),   *)
(* and words: "own" a command run natively, "away" one that outlives the    *)
(* terminal, "task" and "sub" commands with a place of their own, "a" a     *)
(* model of the catalogue, "z" one that is not.  "fcc" is the launcher's    *)
(* route option with its value.                                             *)

Words == {"own", "away", "task", "sub", "conf", "a", "b", "z"}

ModelOptions == {"model", "model=a", "model=z"}

Tokens(c) ==
    CASE c = "hermes" -> {"help", "own", "away", "task", "sub", "a", "route",
                          "model", "model=a", "value", "maybe", "unknown", "--"}
      [] c = "grok" -> {"help", "own", "away", "task", "sub", "conf", "a", "route",
                        "model", "model=a", "model=z", "value", "nosearch", "noleader", "--"}
      [] c = "muse" -> {"help", "own", "task", "sub", "a", "route",
                        "model", "model=a", "value", "maybe", "unknown", "--"}
      [] c = "cline" -> {"help", "own", "away", "awayflag", "a", "route", "value", "maybe",
                         "unknown", "--"}
      [] c = "dsh" -> {"help", "version", "own", "task", "a", "route", "profile",
                       "profile=task", "dump", "default"}
      [] c = "codex" -> {"print", "task", "--"}
      [] OTHER -> {"help", "own", "task", "--"}

CommandLines(c) == UNION {[1 .. n -> Tokens(c)] : n \in 0 .. MaxArgs[c]}

Dashed(t) == t \notin Words

\* Options of client c that always take the next argument.  Grok's route
\* flags are refused wherever they stand, with or without a value.
TakesValue(c) ==
    {"value", "model", "profile"} \cup IF c = "grok" THEN {} ELSE {"route"}

\* The argument after an option whose value may be missing is that value:
\* Muse knows the words it may be, the others take what is not an option.
MayTake(c, t) == IF c = "muse" THEN t = "a" ELSE ~Dashed(t)

\* Which arguments of s are values of the option before them.
Valued(c, s) ==
    LET v[i \in 0 .. Len(s)] ==
            /\ i > 1 /\ ~v[i - 1]
            /\ \/ s[i - 1] \in TakesValue(c)
               \/ s[i - 1] = "maybe" /\ MayTake(c, s[i])
    IN v

\* The first index of s, from `from` on, that P picks; 0 when there is none.
FirstIndex(s, from, P(_)) ==
    LET I == {i \in from .. Len(s) : P(i)} IN IF I = {} THEN 0 ELSE Min(I)

Has(s, t) == Contains(s, t)

Before(s) ==
    IF Has(s, "--") THEN SubSeq(s, 1, FirstIndex(s, 1, LAMBDA i: s[i] = "--") - 1) ELSE s

\* The first word from `from` on; 0 when there is none.  Cline and Muse give
\* up at an option they do not know, the others take it for a flag.
FirstWord(c, s, from) ==
    LET v == Valued(c, s)
        unknown == IF c \in {"cline", "muse"} THEN {"unknown"} ELSE {}
        i == FirstIndex(s, from, LAMBDA k: ~v[k] /\ s[k] \in Words \cup {"--"} \cup unknown)
    IN IF i # 0 /\ s[i] \in Words THEN i ELSE 0

Word(s, i) == IF i = 0 THEN "" ELSE s[i]

------------------------------------------------------------------------------
(* What a launcher makes of the arguments: "native" when the client runs as *)
(* it was asked to, "configured" and "routed" when it runs against the      *)
(* local server, "refused" otherwise.                                       *)

\* The model a command line names: "default" when it names none, "refused"
\* for one without its value and for two that do not agree.  Hermes and Muse
\* know only --model and refuse a second one; Grok steps over the values of
\* other options and takes the same model twice.
ModelAt(s, i) ==
    CASE s[i] = "model=a" -> "a"
      [] s[i] = "model=z" -> "z"
      [] s[i] = "model" /\ i < Len(s) -> s[i + 1]
      [] OTHER -> "refused"

ModelsNamed(c, s) ==
    IF c = "grok"
    THEN LET v == Valued(c, s)
             stop == FirstIndex(s, 1, LAMBDA i: ~v[i] /\ s[i] = "--")
         IN {i \in DOMAIN s : ~v[i] /\ s[i] \in ModelOptions /\ (stop = 0 \/ i < stop)}
    ELSE LET v[i \in 0 .. Len(s)] == i > 1 /\ ~v[i - 1] /\ s[i - 1] = "model"
         IN {i \in DOMAIN Before(s) : ~v[i] /\ s[i] \in ModelOptions}

Selected(c, s) ==
    LET named == ModelsNamed(c, s)
        scanned == IF c = "grok" THEN s ELSE Before(s)
        models == {ModelAt(scanned, i) : i \in named}
    IN IF c \notin {"hermes", "muse", "grok"} \/ named = {} THEN "default"
       ELSE IF Cardinality(IF c = "grok" THEN models ELSE named) > 1 THEN "refused"
       ELSE CHOOSE m \in models : TRUE

\* A plausible bug: a provider named behind the command is not looked for.
HermesMode_FrontOnly(s) ==
    LET b == Before(s)
        root == FirstWord("hermes", b, 1)
    IN IF Has(b, "help") THEN "native"
       ELSE IF Word(b, root) = "away" THEN "refused"
       ELSE IF Word(b, root) = "own" /\ Word(b, FirstWord("hermes", b, root + 1)) = "sub" THEN "refused"
       ELSE IF Word(b, root) \notin {"", "task"} THEN "native"
       ELSE IF \E i \in DOMAIN b : (root = 0 \/ i < root) /\ b[i] = "route" THEN "refused"
       ELSE IF Selected("hermes", s) = "refused" THEN "refused"
       ELSE "routed"

HermesMode(s) ==
    LET b == Before(s)
        root == FirstWord("hermes", b, 1)
        away == \/ Word(b, root) = "away"
                \/ Word(b, root) = "own" /\ Word(b, FirstWord("hermes", b, root + 1)) = "sub"
        v[i \in 0 .. Len(b)] == i > 1 /\ ~v[i - 1] /\ b[i - 1] = "model"
    IN IF Has(b, "help") THEN "native"
       ELSE IF away THEN "refused"
       ELSE IF Word(b, root) \notin {"", "task"} THEN "native"
       ELSE IF \E i \in DOMAIN b : ~v[i] /\ b[i] = "route" THEN "refused"
       ELSE IF Selected("hermes", s) = "refused" THEN "refused"
       ELSE "routed"

GrokMode(s) ==
    LET b == Before(s)
        root == FirstWord("grok", b, 1)
        command == Word(b, root)
    IN IF Has(b, "help") \/ command = "own" THEN "native"
       ELSE IF command = "conf" THEN "configured"
       ELSE IF command = "away" THEN "refused"
       ELSE IF command = "task" /\ Word(b, FirstWord("grok", b, root + 1)) # "sub" THEN "refused"
       ELSE "routed"

MuseMode(s) ==
    LET b == Before(s)
    IN IF Has(b, "help") \/ (b # <<>> /\ b[1] = "own") THEN "native"
       ELSE IF Has(b, "route") THEN "refused"
       ELSE "routed"

ClineMode(s) ==
    LET b == Before(s)
        command == Word(s, FirstWord("cline", s, 1))
    IN IF Has(b, "help") \/ command = "own" THEN "native"
       ELSE IF Has(b, "awayflag") \/ command = "away" THEN "refused"
       ELSE "routed"

\* DSH reads only the options before the profile's own arguments.
DshStop(s, from, options) ==
    LET v == Valued("dsh", s)
        i == FirstIndex(s, from, LAMBDA k: ~v[k] /\ s[k] \notin options)
    IN IF i = 0 THEN Len(s) + 1 ELSE i

DshOptions == {"route", "dump", "default"}

\* The prefix of a web command: where it stops and what is made of it.
DshWeb(s) ==
    LET stop == DshStop(s, 2, DshOptions)
        prefix == SubSeq(s, 2, stop - 1)
    IN [mode |-> IF Has(prefix, "route") THEN "refused"
                 ELSE IF Has(prefix, "default") \/ Word(s, stop % (Len(s) + 1)) = "help" THEN "native"
                 ELSE "routed",
        args |-> s, patch |-> stop]

\* Any other: the last profile named counts, and without one it is a web
\* command whose name was left out.
DshProfile(s) ==
    LET v == Valued("dsh", s)
        stop == DshStop(s, 1, DshOptions \cup {"profile", "profile=task"})
        at == Word(s, stop % (Len(s) + 1))
        used == {i \in 1 .. stop - 1 : ~v[i]}
        named == {i \in used : s[i] \in {"profile", "profile=task"}}
        profile == IF named = {} THEN "none"
                   ELSE IF s[Max(named)] = "profile=task" THEN "task"
                   ELSE s[Max(named) + 1]
        routed == IF named = {} THEN [mode |-> "routed", args |-> <<"task">> \o s, patch |-> 2]
                  ELSE [mode |-> "routed", args |-> s, patch |-> stop]
        native == [routed EXCEPT !.mode = "native", !.args = s]
    IN IF \E i \in used : s[i] = "route" \/ (s[i] = "profile" /\ i = Len(s)) THEN
                [routed EXCEPT !.mode = "refused"]
       ELSE IF at = "version" \/ (at = "help" /\ named = {}) THEN native
       ELSE IF profile \notin {"none", "task"} THEN [routed EXCEPT !.mode = "refused"]
       ELSE IF (\E i \in used : s[i] = "default") \/ at = "help" THEN native
       ELSE routed

DshInvocation(s) ==
    CASE s = <<>> -> [mode |-> "routed", args |-> <<"task">>, patch |-> 2]
      [] s # <<>> /\ s[1] = "own" -> [mode |-> "native", args |-> s, patch |-> 0]
      [] s # <<>> /\ s[1] = "task" -> DshWeb(s)
      [] OTHER -> DshProfile(s)

OpencodeMode(s) ==
    IF s # <<>> /\ (s[1] = "own" \/ Has(s, "help")) THEN "native" ELSE "routed"

PiMode(s) == IF s # <<>> /\ s[1] \in {"own", "help"} THEN "native" ELSE "routed"

Mode(c, s) ==
    CASE c = "hermes" -> HermesMode(s)
      [] c = "grok" -> GrokMode(s)
      [] c = "muse" -> MuseMode(s)
      [] c = "cline" -> ClineMode(s)
      [] c = "dsh" -> DshInvocation(s).mode
      [] c = "opencode" -> OpencodeMode(s)
      [] c = "pi" -> PiMode(s)
      [] c = "codex" /\ s = <<"print">> -> "printed"
      [] OTHER -> "routed"

------------------------------------------------------------------------------
(* The command line of a routed client.                                     *)

\* s without the models it names and their values.
WithoutModels(c, s) ==
    LET named == ModelsNamed(c, s)
        dropped == named \cup {i + 1 : i \in {k \in named : s[k] = "model"}}
        kept == SelectSeq([i \in DOMAIN s |-> i], LAMBDA i: i \notin dropped)
    IN [k \in DOMAIN kept |-> s[kept[k]]]

\* A plausible bug: the place found before the model was taken out is used.
MusePlace_Before(s, cleaned) ==
    IF s # <<>> /\ s[1] = "task" THEN 2
    ELSE IF Word(Before(s), FirstWord("muse", Before(s), 1)) = "sub" THEN
            Min({FirstWord("muse", Before(s), 1), Len(cleaned)}) + 1
    ELSE 1

\* Muse takes the route after its exec and resume commands, found again once
\* the model is gone; 0 when resume is not found any more.
MusePlace(s, cleaned) ==
    LET b == Before(cleaned)
        was == Word(Before(s), FirstWord("muse", Before(s), 1))
        now == FirstWord("muse", b, 1)
    IN IF s # <<>> /\ s[1] = "task" THEN 2
       ELSE IF was = "sub" THEN IF Word(b, now) = "sub" THEN now + 1 ELSE 0
       ELSE 1

\* A plausible bug: the flag put in front is forgotten in the agent's place.
GrokArgs_Unshifted(s) ==
    LET root == FirstWord("grok", Before(s), 1)
        agent == IF Word(s, root) = "task" THEN root ELSE 0
        searched == IF Has(Before(s), "nosearch") THEN s ELSE <<"nosearch">> \o s
    IN IF Has(SubSeq(Before(searched), agent + 1, Len(Before(searched))), "noleader")
       THEN searched ELSE InsertAt(searched, agent + 1, "noleader")

\* Two flags keep Grok from searching and from a leader process; the second
\* belongs to the agent command when there is one.
GrokArgs(s) ==
    LET root == FirstWord("grok", Before(s), 1)
        agent == IF Word(s, root) = "task" THEN root ELSE 0
        searched == IF Has(Before(s), "nosearch") THEN s ELSE <<"nosearch">> \o s
        shifted == IF agent = 0 THEN 0 ELSE agent + Len(searched) - Len(s)
    IN IF Has(SubSeq(Before(searched), shifted + 1, Len(Before(searched))), "noleader")
       THEN searched ELSE InsertAt(searched, shifted + 1, "noleader")

\* <<>> when the command cannot be built.
MuseCommand(s, model) ==
    LET cleaned == WithoutModels("muse", s)
        place == MusePlace(s, cleaned)
    IN IF place = 0 THEN <<>>
       ELSE SubSeq(cleaned, 1, place - 1) \o <<"fcc", "model", model>>
                \o SubSeq(cleaned, place, Len(cleaned))

DshCommand(s) == InsertAt(DshInvocation(s).args, DshInvocation(s).patch, "fcc")

CodexCommand(s) == <<"fcc">> \o s

PiCommand(s) == <<"fcc">> \o s

\* Claude is routed by its environment; what it is given is FCC's guard.
ClaudeCommand(s) == <<"fcc">> \o s

CommandOf(c, s, model) ==
    CASE c = "hermes" -> <<"fcc", "model", model>> \o WithoutModels(c, s)
      [] c = "grok" -> GrokArgs(s)
      [] c = "muse" -> MuseCommand(s, model)
      [] c = "cline" -> <<"fcc">> \o s
      [] c = "opencode" -> s
      [] c = "dsh" -> DshCommand(s)
      [] c = "codex" -> CodexCommand(s)
      [] c = "pi" -> PiCommand(s)
      [] c = "claude" -> ClaudeCommand(s)

\* Variables that are not passed on to a routed client: the keys of the
\* providers, what an earlier launch has left ("stale") and, where the client
\* would take a route from its environment, that route.
HermesDrops == {"credential", "stale", "route"}
GrokDrops == {"credential", "stale", "route"}
MuseDrops == {"credential", "stale", "route"}
ClineDrops == {"credential"}
OpencodeDrops == {"credential", "stale", "route"}
DshDrops == {"credential", "stale"}
CodexDrops == {"credential", "route"}
PiDrops == {"credential", "stale"}
ClaudeDrops == {"credential", "route"}

DropsOf(c) ==
    CASE c = "hermes" -> HermesDrops [] c = "grok" -> GrokDrops [] c = "muse" -> MuseDrops
      [] c = "cline" -> ClineDrops [] c = "opencode" -> OpencodeDrops [] c = "dsh" -> DshDrops
      [] c = "codex" -> CodexDrops [] c = "pi" -> PiDrops [] c = "claude" -> ClaudeDrops

PassedOn(c, env) == (env \ DropsOf(c)) \cup {"fcc"}

------------------------------------------------------------------------------
(* The launch.                                                              *)

\* The steps before the client is started, in order; those under a temporary
\* directory by themselves.
HermesFiles == <<"temp", "files", "activate">>
ClineFiles == <<"temp", "files">>
OpencodeFiles == <<"temp", "files">>
DshFiles == <<"temp", "files">>

HermesSteps == <<"resolve", "classify", "policy", "version", "token", "preflight", "catalog">>
GrokSteps == <<"resolve", "classify", "policy", "route", "version", "token", "preflight",
               "catalog">>
MuseSteps == <<"resolve", "classify", "version", "token", "preflight", "catalog">>
ClineSteps == <<"resolve", "classify", "policy", "route", "version", "token", "preflight",
                "catalog">>
OpencodeSteps == <<"resolve", "classify", "version", "policy", "token", "preflight", "catalog">>
DshSteps == <<"resolve", "classify", "version", "token", "preflight", "catalog">>
CodexSteps == <<"classify", "preflight", "resolve", "catalog">>
PiSteps == <<"resolve", "version", "classify", "preflight", "files">>
ClaudeSteps == <<"preflight", "resolve", "classify">>

LaunchSteps(c) ==
    CASE c = "hermes" -> HermesSteps \o HermesFiles [] c = "grok" -> GrokSteps
      [] c = "muse" -> MuseSteps [] c = "cline" -> ClineSteps \o ClineFiles
      [] c = "opencode" -> OpencodeSteps \o OpencodeFiles [] c = "dsh" -> DshSteps \o DshFiles
      [] c = "codex" -> CodexSteps [] c = "pi" -> PiSteps [] c = "claude" -> ClaudeSteps

Catalogue == <<"b", "a">>

\* Clients that are given files of their own.
Temporary == {"hermes", "cline", "opencode", "dsh"}

BeginLaunch(c, s, held) ==
    /\ launch = [client |-> c, args |-> s, mode |-> "unknown", model |-> "default",
                 command |-> s, env |-> {"credential", "stale", "route", "user"} \cup held,
                 at |-> 1, ending |-> FALSE, exit |-> "none"]
    /\ child = "none" /\ registered = FALSE /\ temp = FALSE /\ asked = FALSE

\* Any command line, with or without a policy of the client in place.
ClientLaunchInit ==
    \E c \in Clients : \E s \in CommandLines(c) :
       \E held \in SUBSET (ToSet(LaunchSteps(c)) \cap {"policy"}) : BeginLaunch(c, s, held)

\* Leaving, in whatever way, removes the temporary directory.
Leave(how) ==
    /\ launch' = [launch EXCEPT !.exit = how]
    /\ temp' = FALSE /\ registered' = FALSE
    /\ UNCHANGED <<child, asked>>

Preparing(step) ==
    /\ launch.exit = "none" /\ child = "none"
    /\ launch.mode # "native"
    /\ launch.at \in DOMAIN LaunchSteps(launch.client)
    /\ LaunchSteps(launch.client)[launch.at] = step

Advance(l) == launch' = [l EXCEPT !.at = @ + 1]

\* A step that succeeds, and changes no more than this, or ends the launch.
Probe(step, makesTemp, asks) ==
    /\ Preparing(step)
    /\ \/ /\ Advance(launch)
          /\ temp' = (temp \/ makesTemp) /\ asked' = (asked \/ asks)
          /\ UNCHANGED <<child, registered>>
       \/ Leave("refused")

ResolveBinary == Probe("resolve", FALSE, FALSE)

\* What --version may say: nothing a launcher understands, a release before,
\* at or after the one it was made for, or a preview of a later one.
Releases == {"unknown", "older", "supported", "newer", "preview"}

\* Those each takes.  Pi is asked for the options it knows instead.
HermesTakes == {"supported", "newer", "preview"}
GrokTakes == {"supported", "newer"}
MuseTakes == {"supported", "newer"}
ClineTakes == {"supported", "newer"}
OpencodeTakes == {"supported", "newer"}
DshTakes == {"supported"}
PiTakes == {"supported", "newer", "preview"}

Accepts(c) ==
    CASE c = "hermes" -> HermesTakes [] c = "grok" -> GrokTakes [] c = "muse" -> MuseTakes
      [] c = "cline" -> ClineTakes [] c = "opencode" -> OpencodeTakes [] c = "dsh" -> DshTakes
      [] c = "pi" -> PiTakes

CheckVersion ==
    /\ Probe("version", FALSE, FALSE)
    /\ \E found \in Releases : (launch'.exit = "none") <=> found \in Accepts(launch.client)

CheckToken == Probe("token", FALSE, FALSE)

Preflight == Probe("preflight", FALSE, TRUE)

\* A model that is not in the catalogue ends the launch.  Codex has no model
\* to look for, and goes on without a catalogue.
FetchCatalog ==
    /\ Probe("catalog", FALSE, TRUE)
    /\ Selected(launch.client, launch.args) \notin {"default"} \cup ToSet(Catalogue) =>
          launch'.exit = "refused"
    /\ launch.client = "codex" => launch'.exit = "none"

OpenTemporary == Probe("temp", TRUE, FALSE)

WriteFiles == Probe("files", FALSE, FALSE)

\* Hermes is asked which provider it would use now.
Activate == Probe("activate", FALSE, FALSE)

Classify ==
    /\ Preparing("classify")
    /\ LET c == launch.client
           mode == Mode(c, launch.args)
       IN CASE mode = "refused" -> Leave("refused")
            [] mode = "printed" -> Leave("mirrored")
            [] OTHER -> /\ Advance([launch EXCEPT !.mode = mode])
                        /\ UNCHANGED <<child, registered, temp, asked>>

Object(step, objection) ==
    /\ Preparing(step)
    /\ IF objection THEN Leave("refused")
       ELSE Advance(launch) /\ UNCHANGED <<child, registered, temp, asked>>

\* A policy, a configuration or a sandbox of the client that is in place
\* already is not replaced.
RejectPolicy == Object("policy", "policy" \in launch.env)

\* Nor is a route that the arguments name.
RejectRoute == Object("route", Has(Before(launch.args), "route"))

Ready ==
    /\ launch.exit = "none" /\ child = "none"
    /\ launch.mode = "native" \/ launch.at > Len(LaunchSteps(launch.client))

\* The command and the environment the client is started with.
Started ==
    LET chosen == Selected(launch.client, launch.args)
        model == IF chosen = "default" THEN Catalogue[1] ELSE chosen
    IN CASE launch.mode = "native" -> launch
         [] launch.mode = "configured" ->
                [launch EXCEPT !.model = model, !.env = PassedOn(launch.client, @)]
         [] OTHER ->
                [launch EXCEPT !.model = model, !.env = PassedOn(launch.client, @),
                               !.command = CommandOf(launch.client, launch.args, model)]

\* run_client_process: the client is started and its pid registered; or the
\* binary is gone by now, or the command could not be built.
StartClient ==
    /\ Ready
    /\ \/ /\ launch.client = "muse" => Started.command # <<>>
          /\ launch' = Started
          /\ child' = "running" /\ registered' = TRUE
          /\ UNCHANGED <<temp, asked>>
       \/ Leave("failed")

ClientEnds ==
    /\ child \in {"running", "told"}
    /\ child' = "gone"
    /\ UNCHANGED <<launch, registered, temp, asked>>

\* The client has ended by itself: its exit code becomes the launcher's.
Mirror == launch.exit = "none" /\ ~launch.ending /\ child = "gone" /\ Leave("mirrored")

\* A plausible bug: Ctrl-C is left to the terminal, which tells the client too.
CtrlC_Leaves == launch.exit = "none" /\ Leave("interrupted")

\* Ctrl-C before the client is started ends the launch; while it is waited
\* for, the client is told to end and waited for again; during that wait the
\* launcher leaves.
CtrlC ==
    /\ launch.exit = "none" /\ Len(launch.args) <= MaxToInterrupt
    /\ IF child = "none" \/ launch.ending THEN Leave("interrupted")
       ELSE /\ launch' = [launch EXCEPT !.ending = TRUE]
            /\ child' = IF child = "running" THEN "told" ELSE child
            /\ UNCHANGED <<registered, temp, asked>>

WaitTold == launch.exit = "none" /\ launch.ending /\ child = "gone" /\ Leave("interrupted")

ClientLaunchNext ==
    \/ ResolveBinary \/ Classify \/ RejectPolicy \/ RejectRoute \/ CheckVersion \/ CheckToken
    \/ Preflight \/ FetchCatalog \/ OpenTemporary \/ WriteFiles \/ Activate
    \/ StartClient \/ ClientEnds \/ Mirror \/ CtrlC \/ WaitTold

ClientLaunchSpec == ClientLaunchInit /\ [][ClientLaunchNext]_launchVars

------------------------------------------------------------------------------
(* What is promised.  The client's own reading of a command line, where the *)
(* launchers rely on it: an option that takes a value takes the argument    *)
(* that follows, which must be none itself, and "--" ends the options.      *)

\* The options of s with their values, and its words, in order.
Reading(c, s) ==
    LET b == Before(s)
        v == Valued(c, b)
        heads == SelectSeq([i \in DOMAIN b |-> i], LAMBDA i: ~v[i])
        values == [k \in DOMAIN heads |->
                      << b[heads[k]], IF heads[k] < Len(b) /\ v[heads[k] + 1]
                                      THEN b[heads[k] + 1] ELSE "" >>]
    IN values \o [i \in 1 .. Len(s) - Len(b) |-> << "word", s[Len(b) + i] >>]

\* The client refuses an option without its value.
Unreadable(c, s) ==
    \E x \in ToSet(Reading(c, s)) : x[1] \in TakesValue(c) /\ (x[2] = "" \/ Dashed(x[2]))

IsWord(x) == x[1] \in Words

FirstRead(c, s) ==
    LET words == SelectSeq(Reading(c, s), IsWord) IN IF words = <<>> THEN "" ELSE words[1][1]

\* The user's own part of a command line.
UsersOwn(c, s) ==
    SelectSeq(Reading(c, s),
              LAMBDA x: x[1] \notin {"fcc", "nosearch", "noleader"} \cup ModelOptions)

\* An option without its value, then a model that is taken out, then a word:
\* once the model is gone the word is read as the value.
Glued(s) ==
    \E i \in 1 .. Len(s) - 2 :
        /\ s[i] = "maybe" /\ s[i + 1] \in ModelOptions
        /\ ~Dashed(s[IF s[i + 1] = "model" /\ i + 3 <= Len(s) THEN i + 3 ELSE i + 2])

After(c, s, x, y) ==
    \E i, j \in DOMAIN Reading(c, s) : Reading(c, s)[i][1] = x /\ Reading(c, s)[j][1] = y /\ i < j

Began(mode) == child = "running" /\ launch.mode \in mode

\* DSH reads its patch only before the profile's own arguments.
DshReadsPatch ==
    LET s == launch.command
        web == s[1] = "task"
        stop == DshStop(s, IF web THEN 2 ELSE 1,
                        DshOptions \cup {"fcc"} \cup IF web THEN {} ELSE {"profile", "profile=task"})
        used == {i \in 1 .. stop - 1 : ~Valued("dsh", s)[i]}
    IN /\ \E i \in used : s[i] = "fcc"
       /\ ~\E i \in used : s[i] = "route"
       /\ \E name \in {<<>>, <<"task">>} :
             name \o launch.args = SelectSeq(s, LAMBDA x: x # "fcc")

\* A client that FCC routes reads the route of FCC and no other, a model of
\* FCC's catalogue, and of its user's arguments exactly those that were given,
\* in their order; it gets no provider's key, and it is no command that
\* outlives the terminal.
RouteIsOwned ==
    LET c == launch.client
        s == launch.command
        read == Reading(c, s)
        readable == ~Unreadable(c, launch.args) /\ ~Glued(launch.args)
    IN Began({"routed", "configured"}) =>
          /\ asked /\ "credential" \notin launch.env
          /\ "route" \in launch.env => c \in {"cline", "dsh", "pi"}
          /\ c = "dsh" => DshReadsPatch
          /\ (c # "dsh" /\ readable) =>
                /\ ~Unreadable(c, s)
                /\ UsersOwn(c, s) = UsersOwn(c, launch.args)
                /\ c \notin {"grok", "opencode"} => \E x \in ToSet(read) : x[1] = "fcc"
                /\ ~\E x \in ToSet(read) : x[1] = "route"
                /\ \A i \in ModelsNamed(c, s) :
                      ModelAt(s, i) = launch.model /\ launch.model \in ToSet(Catalogue)
                /\ ~Has(launch.args, "unknown") =>
                      /\ FirstRead(c, s) # "away"
                      /\ (c = "muse" /\ FirstRead(c, s) = "sub") => After(c, s, "sub", "fcc")
                /\ (c = "grok" /\ launch.mode = "routed") =>
                      /\ \E x \in ToSet(read) : x[1] = "nosearch"
                      /\ IF FirstRead(c, s) = "task" THEN After(c, s, "task", "noleader")
                         ELSE \E x \in ToSet(read) : x[1] = "noleader"

\* A command that is the client's own business runs as if there were no
\* launcher, whatever state the server and its settings are in.
NativeIsUntouched ==
    launch.mode = "native" =>
        /\ launch.command = launch.args
        /\ {"credential", "stale", "route", "user"} \subseteq launch.env
        /\ ~asked /\ ~temp
        /\ launch.exit # "refused"

\* The launcher does not end before its client has ended or was told to, and
\* then leaves no file and no pid behind; while the client runs, its files
\* are there and its pid is known to whoever cleans up.
LaunchIsContained ==
    /\ child = "running" => launch.exit = "none" /\ registered
    /\ launch.exit # "none" => ~temp /\ ~registered
    /\ (child = "running" /\ launch.mode = "routed" /\ launch.client \in Temporary) => temp

\* A launch owns its route, its files and its client, or keeps its hands off.
LaunchesAreOwned == RouteIsOwned /\ NativeIsUntouched /\ LaunchIsContained

\* The variables stay in the ranges a command line and a process have.
ClientLaunchTypeOK ==
    /\ launch.client \in Clients /\ launch.args \in CommandLines(launch.client)
    /\ launch.mode \in {"unknown", "native", "configured", "routed"}
    /\ launch.exit \in {"none", "refused", "failed", "mirrored", "interrupted"}
    /\ child \in {"none", "running", "told", "gone"}
    /\ {registered, temp, asked, launch.ending} \subseteq BOOLEAN
==============================================================================
