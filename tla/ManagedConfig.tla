---------------------------- MODULE ManagedConfig ----------------------------
(***************************************************************************)
(* config/env_migrations.py, loader.py and admin/: the managed             *)
(* configuration file.  Before the first load a file of an older release   *)
(* is consolidated: it, or a legacy file, or none, is read, its renamed    *)
(* settings are migrated, the file FCC_ENV_FILE names is laid over it, and *)
(* the managed file is replaced.  Then the settings are the file's under   *)
(* those of the process environment, and the admin page changes the file.  *)
(* A file is a function from the keys it assigns to their values.  Every   *)
(* setting of the program is like one of the keys below.                   *)
(***************************************************************************)
EXTENDS Naturals, FiniteSets, Functions

CONSTANTS MaxAssigned,    \* bound: assignments the files and the process begin with
          MaxOps          \* bound: those and the admin requests together

VARIABLES
    managed,      \* ~/.fcc/.env, NoFile if it does not exist
    base,         \* the legacy file found first
    explicit,     \* the file FCC_ENV_FILE names; Broken if it cannot be read
    process,      \* the process environment
    first,        \* history: the managed file of the beginning
    stage,        \* "new", "raised", "serving"
    callback,     \* whether the runtime has a restart callback
    live,         \* the settings the provider runtime was made from
    bound,        \* those that the server, its messaging and its log took at the start
    pendingFields,    \* ApplicationRuntime._pending_fields
    due,          \* a background task is about to ask for a restart
    told,         \* history: what this server has said waits for a restart
    applying,        \* the admin request under _config_lock
    granted,        \* history: the last request that was applied
    ops           \* how many assignments and requests there were

origins == <<base, explicit, process, first, callback>>
serverVars == <<live, bound, pendingFields, due, told>>
configVars == <<managed, origins, stage, serverVars, applying, granted, ops>>

\* Absent is told from every file by its domain.
NoFile == [absent |-> TRUE]
Broken == [broken |-> TRUE]
IsFile(f) == f \notin {NoFile, Broken}

Blank  == ""
Masked == "********"
Null   == "null"

\* TOKEN is the proxy's secret and AUTH says whether it is asked for; THINKING
\* was renamed to REASONING, and its values with it; MODEL may be removed, and its
\* provider was renamed; PORT needs a restart, as TOKEN and AUTH do; CUSTOM
\* is no key of FCC's.
SettingsKeys == {"TOKEN", "AUTH", "REASONING", "MODEL", "PORT"}
Retired == {"THINKING"}
Known   == SettingsKeys \cup Retired \cup {"SCHEMA"}
AllKeys == Known \cup {"CUSTOM"}
Fields  == SettingsKeys
Secret   == {"TOKEN"}
Nullable == {"MODEL"}
NeedsRestart == {"TOKEN", "AUTH", "PORT"}

Default == [TOKEN |-> "generated", AUTH |-> "true", REASONING |-> "inherit",
            MODEL |-> "none", PORT |-> "8082"]

\* What a file, and the process, may assign.
FileValues == [TOKEN |-> {Blank, "t"}, AUTH |-> {Blank, "true", "false"},
               THINKING |-> {Blank, "true"}, REASONING |-> {Blank, "off"},
               MODEL |-> {"opencode", "zen"}, PORT |-> {"1"}, CUSTOM |-> {Blank},
               SCHEMA |-> {Blank}]
Assigned ==
    [ managed  |-> [FileValues EXCEPT !.SCHEMA = {Blank, "1", "99"}],
      base     |-> FileValues,
      explicit |-> FileValues,
      process  |-> [TOKEN |-> {Blank, "p"}, AUTH |-> {"false"}, REASONING |-> {"client"},
                    PORT |-> {"2"}] ]
Assignments ==
    UNION { UNION { { <<place, key, value>> : value \in Assigned[place][key] }
                    : key \in DOMAIN Assigned[place] } : place \in DOMAIN Assigned }

NoAssignment == <<"none", "none", "none">>

\* The file that the assignments of one place make; without any it is absent.
FileOf(place, those) ==
    LET own == { a \in those : a[1] = place } IN
    IF own = {} THEN NoFile
    ELSE [k \in { a[2] : a \in own } |-> (CHOOSE a \in own : a[2] = k)[3]]
Contents(f) == IF f = NoFile THEN <<>> ELSE f

NoRequest == [keys |-> {}]

\* Any configuration of up to that many assignments.
ConfigStarts(many) ==
    \E picked \in [1..many -> Assignments \cup {NoAssignment}] :
        LET those == Range(picked) \ {NoAssignment} IN
        /\ \A a, b \in those : a # b => <<a[1], a[2]>> # <<b[1], b[2]>>
        /\ managed = FileOf("managed", those)
        /\ base = FileOf("base", those)
        /\ \/ explicit = FileOf("explicit", those)
           \/ many > 0 /\ explicit = Broken /\ FileOf("explicit", those) = NoFile
        /\ process = Contents(FileOf("process", those))
        /\ first = managed
        /\ stage = "new" /\ live = <<>> /\ bound = <<>> /\ pendingFields = {}
        /\ due = FALSE /\ told = {} /\ callback \in BOOLEAN
        /\ applying = NoRequest /\ granted = NoRequest
        /\ ops = Cardinality(those)

ConfigInit == ConfigStarts(MaxAssigned)

\* dict.update: the values of g win.
Over(g, f) == [k \in DOMAIN f \cup DOMAIN g |-> IF k \in DOMAIN g THEN g[k] ELSE f[k]]
Without(f, keys) == RestrictDomain(f, LAMBDA k : k \notin keys)
NotBlank(f, keys) == RestrictDomain(f, LAMBDA k : k \in keys => f[k] # Blank)
Gives(f, k) == k \in DOMAIN f /\ f[k] # Blank

----------------------------------------------------------------------------
(* Consolidation *)

\* The value map of ENABLE_OPUS_THINKING, and the prefix map of the models.
Renamed(value)  == IF value = Blank THEN "inherit" ELSE "client"
Prefixed(value) == IF value = "opencode" THEN "zen" ELSE value

\* A plausible bug: the old name replaces a setting the user already renamed.
Migrated_Clobbers(f) ==
    [k \in (DOMAIN f \ {"THINKING"}) 
               \cup (IF "THINKING" \in DOMAIN f THEN {"REASONING"} ELSE {}) |->
        IF k = "REASONING" /\ "THINKING" \in DOMAIN f THEN Renamed(f["THINKING"])
        ELSE IF k = "MODEL" THEN Prefixed(f[k]) ELSE f[k]]

\* migrate_env_setting_in_text, for every migration: a setting is renamed
\* unless the file already has one of its new name.
Migrated(f) ==
    LET rename == "THINKING" \in DOMAIN f /\ "REASONING" \notin DOMAIN f
        keys == IF rename THEN (DOMAIN f \ {"THINKING"}) \cup {"REASONING"} ELSE DOMAIN f
    IN [k \in keys |-> IF k = "REASONING" /\ rename THEN Renamed(f["THINKING"])
                       ELSE IF k = "MODEL" THEN Prefixed(f[k]) ELSE f[k]]

\* _materialize_auth_state: before, a token was asked for if there was one.
AuthState(values, hadState) ==
    IF "AUTH" \in DOMAIN values \cup DOMAIN process THEN <<>>
    ELSE IF "TOKEN" \in DOMAIN values
         THEN [AUTH |-> IF values["TOKEN"] # Blank THEN "true" ELSE "false"]
    ELSE IF Gives(process, "TOKEN") THEN [AUTH |-> "true"]
    ELSE IF hadState THEN [AUTH |-> "false"]
    ELSE <<>>

Source == IF managed # NoFile THEN managed ELSE base
OnlyKnown(f) == RestrictDomain(f, LAMBDA k : k \in Known)

\* A plausible bug: blank assignments are dropped first, and a token the user
\* had blanked is no longer seen to be blank.
Consolidated_BlankFirst ==
    LET of == Migrated(Contents(Source))
        own == IF managed # NoFile THEN of ELSE OnlyKnown(of)
        laid == Over(OnlyKnown(Migrated(Contents(explicit))), own)
        values == NotBlank(Without(laid, Retired \cup {"SCHEMA"}), Known)
    IN Over([SCHEMA |-> "1"], Over(AuthState(values, Source # NoFile), values))

\* A plausible bug: the two files are laid over each other the wrong way.
Consolidated_Swapped ==
    LET of == Migrated(Contents(Source))
        own == IF managed # NoFile THEN of ELSE OnlyKnown(of)
        laid == Over(own, OnlyKnown(Migrated(Contents(explicit))))
        values == Without(laid, Retired \cup {"SCHEMA"})
        auth == Over(AuthState(values, Source # NoFile), values)
    IN Over([SCHEMA |-> "1"], NotBlank(auth, Known))

Consolidated ==
    LET of == Migrated(Contents(Source))
        own == IF managed # NoFile THEN of ELSE OnlyKnown(of)
        laid == Over(OnlyKnown(Migrated(Contents(explicit))), own)
        values == Without(laid, Retired \cup {"SCHEMA"})
        auth == Over(AuthState(values, Source # NoFile), values)
    IN Over([SCHEMA |-> "1"], NotBlank(auth, Known))

\* A plausible bug: any schema will do.
IsCurrent_Any(f) == f # NoFile /\ "SCHEMA" \in DOMAIN f

IsCurrent(f) == f # NoFile /\ "SCHEMA" \in DOMAIN f /\ f["SCHEMA"] = "1"
IsUnsupported(f) == f # NoFile /\ "SCHEMA" \in DOMAIN f /\ f["SCHEMA"] \notin {"1", Blank}

----------------------------------------------------------------------------
(* Loading *)

\* compose_settings_snapshot: what owns a setting, and what it is worth.  The
\* token is the one setting where a file wins over the process; a generated
\* one replaces the public default.
OwnedByProcess(f, k) ==
    /\ k \in DOMAIN process
    /\ k = "TOKEN" => ~Gives(f, k) /\ process[k] # Blank
Value(f, k) ==
    IF OwnedByProcess(f, k) THEN process[k]
    ELSE IF k \in DOMAIN f /\ ~(k = "TOKEN" /\ f[k] = Blank /\ k \in DOMAIN process)
         THEN f[k]
    ELSE Default[k]
Settings(f) == [k \in SettingsKeys |->
                  IF k = "MODEL" /\ Value(f, k) = Blank THEN Default[k] ELSE Value(f, k)]
Valid(f) == \A k \in SettingsKeys : Settings(f)[k] # Blank

\* resolve_settings_snapshot at the start of a server: consolidate_managed_config
\* under the interprocess lock, then load.  A write that fails, or a crash,
\* leaves the file that was there.
Raise == stage' = "raised" /\ UNCHANGED <<managed, serverVars>>
Captured(settings) == RestrictDomain(settings, LAMBDA k : k \in NeedsRestart)
Load(f) ==
    /\ managed' = f
    /\ IF Valid(f)
       THEN stage' = "serving" /\ live' = Settings(f) /\ bound' = Captured(Settings(f))
       ELSE stage' = "raised" /\ UNCHANGED <<live, bound>>
    /\ UNCHANGED <<pendingFields, due, told>>

Start ==
    /\ stage \in {"new", "raised"}
    /\ \/ IsCurrent(managed) /\ Load(managed)
       \/ ~IsCurrent(managed) /\ (IsUnsupported(managed) \/ explicit = Broken) /\ Raise
       \/ /\ ~IsCurrent(managed) /\ ~IsUnsupported(managed) /\ explicit # Broken
          /\ Load(Consolidated) \/ Raise
    /\ UNCHANGED <<origins, applying, granted, ops>>

----------------------------------------------------------------------------
(* The admin page *)

\* What may be submitted: one or two keys.
Submissions ==
    { [TOKEN |-> Masked], [TOKEN |-> "n"], [AUTH |-> "false"], [REASONING |-> "client"],
      [REASONING |-> Null], [MODEL |-> "zen"], [MODEL |-> Null], [PORT |-> "3"],
      [CUSTOM |-> "c"], [MODEL |-> "zen", PORT |-> "3"],
      [TOKEN |-> Blank, REASONING |-> "off"] }

\* A plausible bug: the mask the page shows is taken for a new secret.
Skipped_Masked(k, value) == k \notin Fields \/ OwnedByProcess(managed, k)

\* A plausible bug: a setting the process owns is written to the file.
Skipped_Locked(k, value) == \/ k \notin Fields
                            \/ k \in Secret /\ value \in {Masked, Blank}

\* The submitted keys that count.
Skipped(k, value) == \/ k \notin Fields \/ OwnedByProcess(managed, k)
                     \/ k \in Secret /\ value \in {Masked, Blank}
Effective(updates) == RestrictDomain(updates, LAMBDA k : ~Skipped(k, updates[k]))

\* A plausible bug: the page's request is the whole file.
Target_Whole(updates) ==
    LET given == Effective(updates)
        gone == { k \in DOMAIN given : given[k] = Null }
    IN Over([SCHEMA |-> "1"], Without(given, gone))

\* target_values_with_updates, _update_protocol_errors, changed_pending_fields.
Target(updates) ==
    LET kept == NotBlank(Contents(managed), Known)
        given == Effective(updates)
        gone == { k \in DOMAIN given :
                    given[k] = Null \/ (k \in Nullable /\ given[k] = Blank) }
    IN Over([SCHEMA |-> "1"], Without(Over(given, kept), gone))
Refused(updates) ==
    \E k \in DOMAIN updates \cap (Fields \ Nullable) :
        updates[k] = Null \/ (k \notin Secret /\ updates[k] = Blank)
Pending(updates) ==
    { k \in DOMAIN Effective(updates) \cap NeedsRestart :
          updates[k] # Settings(managed)[k] }

\* apply_admin_config under _config_lock: prepare_admin_update.
Prepare(updates) ==
    /\ stage = "serving" /\ applying = NoRequest /\ ops < MaxOps
    /\ ops' = ops + 1
    /\ applying' = IF Refused(updates) \/ ~Valid(Target(updates)) THEN NoRequest
                ELSE [keys |-> DOMAIN updates, updates |-> updates, from |-> managed,
                      target |-> Target(updates), pending |-> Pending(updates)]
    /\ UNCHANGED <<managed, origins, stage, serverVars, granted>>

\* _commit_admin_update
Written == managed' = applying.target /\ granted' = applying

\* A plausible bug: the status forgets what waits although nobody restarts.
Announces_Silent ==
    /\ applying.pending # {} /\ Written
    /\ due' = (due \/ callback)
    /\ pendingFields' = {}
    /\ told' = told \cup applying.pending
    /\ UNCHANGED <<live, bound>>

\* With a setting that needs a restart only the file is written.  The page is
\* told what waits; with a callback the route leaves a background task to
\* restart the server, without one the status keeps saying so.
Announces ==
    /\ applying.pending # {} /\ Written
    /\ due' = (due \/ callback)
    /\ pendingFields' = IF callback THEN {} ELSE applying.pending
    /\ told' = told \cup applying.pending
    /\ UNCHANGED <<live, bound>>

\* A plausible bug: the file changes under the runtime that keeps serving.
Replaces_FileOnly ==
    /\ applying.pending = {} /\ Written
    /\ pendingFields' = {}
    /\ UNCHANGED <<live, bound, due, told>>

\* Otherwise the write is the commit of provider_manager.replace, which takes
\* the whole of the prospective settings with it.  What the server took at its
\* start stays, but nothing is said to wait any longer.
Replaces ==
    /\ applying.pending = {} /\ Written
    /\ live' = Settings(applying.target)
    /\ pendingFields' = {}
    /\ UNCHANGED <<bound, due, told>>

Fails == UNCHANGED <<managed, serverVars, granted>>
Commit ==
    /\ applying # NoRequest /\ applying' = NoRequest
    /\ Announces \/ Replaces \/ Fails
    /\ UNCHANGED <<origins, stage, ops>>

\* The server is gone, and with it what it had to say.
Gone ==
    /\ stage = "serving" /\ applying = NoRequest
    /\ stage' = "new" /\ pendingFields' = {} /\ due' = FALSE /\ told' = {}
    /\ UNCHANGED <<managed, origins, live, bound, applying, granted, ops>>

\* The background task runs, and the supervisor starts another server.  Until
\* then this one serves, and may apply more.
Restarted == due /\ Gone

\* The server is stopped, by the user or a crash, and the user starts it again.
Stop == granted # NoRequest /\ Gone

ConfigNext == Start \/ (\E u \in Submissions : Prepare(u)) \/ Commit \/ Restarted \/ Stop

ConfigSpec == ConfigInit /\ [][ConfigNext]_configVars

----------------------------------------------------------------------------
(* Properties *)

\* Type correctness: what a file assigns are keys, and a request is one that
\* was prepared.
ConfigTypeOK ==
    /\ \A f \in {managed, first, base, explicit} : IsFile(f) => DOMAIN f \subseteq AllKeys
    /\ DOMAIN process \subseteq SettingsKeys
    /\ stage \in {"new", "raised", "serving"}
    /\ live # <<>> => DOMAIN live = SettingsKeys
    /\ bound # <<>> => DOMAIN bound = NeedsRestart
    /\ pendingFields \subseteq NeedsRestart /\ told \subseteq NeedsRestart
    /\ due \in BOOLEAN /\ callback \in BOOLEAN
    /\ applying # NoRequest => Valid(applying.target)
    /\ ops \in 0..MaxOps

\* What a file of an older release says of a setting: itself or its old name.
Says(f, k) == IsFile(f) /\ (k \in DOMAIN f \/ (k = "REASONING" /\ "THINKING" \in DOMAIN f))
Said(f, k) ==
    CASE k = "MODEL" -> Prefixed(f[k])
      [] k = "REASONING" /\ ~Gives(f, k) /\ "THINKING" \in DOMAIN f -> Renamed(f["THINKING"])
      [] OTHER -> f[k]

\* The one value the migration loses: a file that gives a setting its old name
\* and also assigns the new one, blank.  _defines_key takes the blank for the
\* user's choice, the old line is dropped and then so is the blank one.
Lost(f, k) == k = "REASONING" /\ {"THINKING", k} \subseteq DOMAIN f /\ f[k] = Blank

LastWord(k) == IF Says(explicit, k) THEN explicit
               ELSE IF first # NoFile THEN first ELSE base

\* Consolidation keeps what was in effect: a setting has the value the last
\* file that spoke of it gave it under its name or its old one, a setting
\* no file spoke of stays unset, and what the user wrote into the managed file
\* himself is still there (env_migrations.py:178-229, ARCHITECTURE.md
\* "Recognized effective values are written to the managed file").  The value
\* that is Lost is the one exception.
ConsolidationKeeps ==
    (stage = "serving" /\ granted = NoRequest /\ ~IsCurrent(first)) =>
        /\ \A k \in SettingsKeys \ {"AUTH"} :
              LET f == LastWord(k) IN
              IF Says(f, k) /\ ~Lost(f, k) /\ Said(f, k) # Blank
              THEN k \in DOMAIN managed /\ managed[k] = Said(f, k)
              ELSE k \notin DOMAIN managed
        /\ first # NoFile /\ "CUSTOM" \in DOMAIN first => "CUSTOM" \in DOMAIN managed
        /\ DOMAIN managed \cap Retired = {}

\* Who asked for a token asks for it after the consolidation, and who did not
\* does not: the flag decides, without one it is whether there was a token,
\* and only a first installation has neither (_materialize_auth_state).
AuthIsKept ==
    (stage = "serving" /\ granted = NoRequest /\ ~IsCurrent(first)) =>
        LET flag == IF "AUTH" \in DOMAIN process THEN process["AUTH"]
                    ELSE IF Says(LastWord("AUTH"), "AUTH")
                         THEN Said(LastWord("AUTH"), "AUTH") ELSE "unset"
            token == IF Says(LastWord("TOKEN"), "TOKEN")
                     THEN Said(LastWord("TOKEN"), "TOKEN")
                     ELSE IF "TOKEN" \in DOMAIN process THEN process["TOKEN"] ELSE Blank
        IN live["AUTH"] =
             CASE flag \in {"true", "false"} -> flag
               [] flag = Blank -> "true"
               [] flag = "unset" ->
                    IF token # Blank \/ (first = NoFile /\ base = NoFile
                                         /\ ~Says(explicit, "TOKEN"))
                    THEN "true" ELSE "false"

\* The files of older releases are read once: a managed file of this schema is
\* left alone whatever they say, and a start that fails leaves the file as it
\* was.
OthersAreInert ==
    granted = NoRequest =>
        /\ IsCurrent(first) => managed = first
        /\ managed # first => IsCurrent(managed)
        /\ stage = "new" => managed = first

\* An applied request changes what it asked for and nothing else: a masked or
\* blank secret and a setting the process owns stay, an unknown assignment
\* survives, and what was submitted is what the next load gives
\* (persistence.py:66-104, ARCHITECTURE.md "omitted keys stay unchanged").
AppliedIsKept ==
    granted # NoRequest =>
        /\ \A k \in AllKeys \ {"SCHEMA"} :
              \/ k \in granted.keys /\ k \in Fields
              \/ (k \in DOMAIN managed) <=> (k \in DOMAIN granted.from
                                             /\ (k \in Known => granted.from[k] # Blank))
        /\ \A k \in DOMAIN managed \cap DOMAIN granted.from :
              k \notin granted.keys => managed[k] = granted.from[k]
        /\ \A k \in granted.keys \cap Fields :
              LET new == granted.updates[k] IN
              IF \/ /\ k \in DOMAIN process
                    /\ k # "TOKEN" \/ (Gives(process, k) /\ ~Gives(granted.from, k))
                 \/ k \in Secret /\ new \in {Masked, Blank}
              THEN Settings(managed)[k] = Settings(granted.from)[k]
              ELSE Settings(managed)[k] = IF new = Null THEN Default[k] ELSE new

\* What was applied is in use, or the user knows what is missing.  Of the
\* settings that need no restart the runtime serves the file's, unless a
\* restart is on its way or the status says that one is needed.  Those that
\* need one are what the server took at its start and what the runtime reads
\* per request, unless a restart is on its way or an answer of this server
\* named them: the status need not, see Replaces (application.py:186-213).
AppliedIsLive ==
    (stage = "serving" /\ applying = NoRequest) =>
        /\ \A k \in SettingsKeys \ NeedsRestart :
              live[k] = Settings(managed)[k] \/ due \/ pendingFields # {}
        /\ \A k \in NeedsRestart :
              {live[k], bound[k]} = {Settings(managed)[k]} \/ due \/ k \in told

\* The managed configuration: consolidated without a loss, once, and changed
\* only as asked.
ConfigIsKept ==
    /\ ConsolidationKeeps /\ AuthIsKept /\ OthersAreInert
    /\ AppliedIsKept /\ AppliedIsLive
=============================================================================
