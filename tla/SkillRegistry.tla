---------------------------- MODULE SkillRegistry ----------------------------
(***************************************************************************)
(* The skill registry and the admin requests that change it.               *)
(*                                                                         *)
(* A skill is a .wasm file in the skills directory, rows in the store (its *)
(* settings, its derived HTTP allowlist, its disabled flag) and, once      *)
(* loaded, an entry in each of four structures of the registry: the plugin *)
(* map, the cache of rules, the cache of schemas and the pattern index the *)
(* router reads.  Each structure has a lock of its own, so a reload and a  *)
(* removal are sequences of steps which requests of the axum server and of *)
(* its blocking pool interleave.                                           *)
(***************************************************************************)
EXTENDS FiniteSets, Integers

CONSTANTS
    Skills,        \* skill names
    Requests,      \* admin requests that can be in flight together
    GoodVersions,  \* wasm files that build and answer pattern_rules
    Unbuildable,   \* wasm files Extism refuses
    Ruleless,      \* wasm files that build but whose pattern_rules fails
    Keys,          \* configuration keys of the schema, each naming a host
    SecretKeys,    \* those the schema marks secret
    Required,      \* those the schema requires
    None,
    MaxRequests,   \* bound: admin requests in a behaviour
    MaxFaults      \* bound: crashes of the process and failed store or file
                   \* operations

Versions == GoodVersions \cup Unbuildable \cup Ruleless
Ops == {"put", "enable", "disable", "install"}

\* A built plugin, with its configuration and the hosts it may reach, and
\* whether it gave a schema of its configuration.
Plugin == [version: GoodVersions, config: SUBSET Keys, hosts: SUBSET Keys,
           schema: BOOLEAN]

ASSUME RegistryAssumption ==
    /\ IsFiniteSet(Skills) /\ IsFiniteSet(Requests)
    /\ GoodVersions \cap (Unbuildable \cup Ruleless) = {}
    /\ None \notin Versions \cup Plugin
    /\ SecretKeys \subseteq Keys /\ Required \subseteq Keys
    /\ MaxRequests \in Nat /\ MaxFaults \in Nat

VARIABLES
    up,          \* the process runs
    file,        \* the skills directory
    disabled,    \* skill_state rows with enabled = 0
    setting,     \* skill_settings: per skill and key, "unset" (or blank), or a
                 \* value with is_secret clear ("plain") or set ("secret")
    allow,       \* the $http_allowlist row of a skill
    plugins,     \* registry: the plugin map; a plugin carries version and config
    rules,       \* registry: the version whose rules are cached
    schemas,     \* registry: skills with a cached schema
    index,       \* registry: the version whose rules the router matches
    req,         \* the requests in flight
    disturbed,   \* history: skills two requests handled at once, not reloaded since
    budget       \* requests and faults left

storeVars == <<disabled, setting, allow>>
registryVars == <<plugins, rules, schemas, index>>
adminVars == <<up, file, storeVars, registryVars, req, disturbed, budget>>

Idle == [at |-> "idle"]

\* apply_settings: the keys a skill is configured with.
Config(s) == {k \in Keys : setting[s][k] # "unset"}

(***************************************************************************)
(* Steps of a request; met says that another request of the skill was in   *)
(* flight with it.  In the order of the handlers:                          *)
(*   install: write, flag, then reload, then cleanup                       *)
(*   enable:  flag, then reload            disable: flag, then remove      *)
(*   put:     read rows, save each key, derive, allowlist, then reload     *)
(*   reload:  disabled?, settings, build, plugin, rules, schema, index     *)
(*   remove:  drop_plugin, drop_rules, drop_schema, drop_index             *)
(***************************************************************************)
Busy(s) == {r \in Requests : req[r].at # "idle" /\ req[r].skill = s}

Goto(r, at) == req' = [req EXCEPT ![r].at = at]
Answer(r) == req' = [req EXCEPT ![r] = Idle]

AtStep(r, at) == up /\ req[r].at = at

\* What a request that failed at its reload has still to do: upload and
\* bundled install remove a file that was not there before.
AfterReload(q, failed) ==
    IF failed /\ q.op = "install" /\ ~q.existed THEN "cleanup" ELSE "answer"

\* A handler is entered with a name that passed its check: what it reads first
\* is read.
Request(s, op, body, v) ==
    [at |-> CASE op = "put" -> "read"
              [] op = "install" -> "write"
              [] OTHER -> "flag",
     skill |-> s, op |-> op, body |-> body, version |-> v,
     schema |-> s \in schemas, existed |-> file[s] # None,
     secret |-> {}, derived |-> {}, built |-> None, met |-> Busy(s) # {}]

\* validate: by the schema, if there is one, a required key is not blanked; a
\* blank secret is, since it means "unchanged".  (Values of the wrong kind and
\* reserved keys are refused like it; the model has none.)
Valid(q) == q.schema => \A k \in Required \ SecretKeys : q.body[k] # "blank"

NoBody == [k \in Keys |-> "absent"]

\* What a request carries: settings, a file, or nothing.
Carries(q) ==
    \/ q.op = "put" /\ q.body # NoBody /\ q.version = None
    \/ q.op = "install" /\ q.body = NoBody /\ q.version # None
    \/ q.op \in {"enable", "disable"} /\ q.body = NoBody /\ q.version = None

\* Requests come on any free place of req; one refused leaves no trace.
Start(r) ==
    /\ up /\ budget.requests > 0
    /\ req[r].at = "idle" /\ r = CHOOSE x \in Requests : req[x].at = "idle"
    /\ \E s \in Skills, op \in Ops, v \in Versions \cup {None},
          body \in [Keys -> {"absent", "blank", "value"}] :
       /\ Carries(Request(s, op, body, v)) /\ Valid(Request(s, op, body, v))
       /\ req' = [x \in Requests |-> IF x = r THEN Request(s, op, body, v)
                    ELSE IF x \in Busy(s) THEN [req[x] EXCEPT !.met = TRUE] ELSE req[x]]
       /\ disturbed' = IF Busy(s) = {} THEN disturbed ELSE disturbed \cup {s}
    /\ budget' = [budget EXCEPT !.requests = @ - 1]
    /\ UNCHANGED <<up, file, storeVars, registryVars>>

\* Faulty variant: only the schema says which keys are secret.
ReadSchemaOnly(r) ==
    /\ AtStep(r, "read")
    /\ req' = [req EXCEPT ![r].at = "save",
                          ![r].secret = IF req[r].schema THEN SecretKeys ELSE {}]
    /\ UNCHANGED <<up, file, storeVars, registryVars, disturbed, budget>>

\* put_config: the secret keys, by the schema and by the rows stored so far.
ReadRows(r) ==
    /\ AtStep(r, "read")
    /\ LET q == req[r] IN
       req' = [req EXCEPT ![r].at = "save",
                 ![r].secret = (IF q.schema THEN SecretKeys ELSE {}) \cup
                               {k \in Keys : setting[q.skill][k] = "secret"}]
    /\ UNCHANGED <<up, file, storeVars, registryVars, disturbed, budget>>

\* upload_skill and install_bundled: the file is replaced.
WriteFile(r) ==
    /\ AtStep(r, "write")
    /\ file' = [file EXCEPT ![req[r].skill] = req[r].version]
    /\ Goto(r, "flag")
    /\ UNCHANGED <<up, storeVars, registryVars, disturbed, budget>>

\* skill_enabled_set.
SetFlag(r) ==
    /\ AtStep(r, "flag")
    /\ LET q == req[r] IN
       IF q.op = "disable"
       THEN disabled' = disabled \cup {q.skill} /\ Goto(r, "drop_plugin")
       ELSE disabled' = disabled \ {q.skill} /\ Goto(r, "disabled?")
    /\ UNCHANGED <<up, file, setting, allow, registryVars, disturbed, budget>>

\* put_config: one row per submitted key; a blank secret means "unchanged".
SaveKey(r) ==
    /\ AtStep(r, "save")
    /\ LET q == req[r]
           todo == {k \in Keys : q.body[k] # "absent"}
       IN IF todo = {}
          THEN /\ Goto(r, IF q.schema THEN "derive" ELSE "disabled?")
               /\ UNCHANGED setting
          ELSE \E k \in todo :
               /\ req' = [req EXCEPT ![r].body[k] = "absent"]
               /\ setting' = [setting EXCEPT ![q.skill][k] =
                    CASE q.body[k] = "value" /\ k \in q.secret -> "secret"
                      [] q.body[k] = "value" /\ k \notin q.secret -> "plain"
                      [] q.body[k] = "blank" /\ k \in q.secret -> @
                      [] OTHER -> "unset"]
    /\ UNCHANGED <<up, file, disabled, allow, registryVars, disturbed, budget>>

\* The allowlist is derived from a fresh read of all rows ...
Derive(r) ==
    /\ AtStep(r, "derive")
    /\ LET hosts == Config(req[r].skill) \ SecretKeys IN
       req' = [req EXCEPT ![r].derived = hosts,
                          ![r].at = IF hosts = {} THEN "disabled?" ELSE "allowlist"]
    /\ UNCHANGED <<up, file, storeVars, registryVars, disturbed, budget>>

\* ... and written in a later step.
SaveAllowlist(r) ==
    /\ AtStep(r, "allowlist")
    /\ allow' = [allow EXCEPT ![req[r].skill] = req[r].derived]
    /\ Goto(r, "disabled?")
    /\ UNCHANGED <<up, file, disabled, setting, registryVars, disturbed, budget>>

\* Faulty variant: a skill is reloaded whatever its flag says.
CheckNothing(r) ==
    /\ AtStep(r, "disabled?")
    /\ Goto(r, "settings")
    /\ UNCHANGED <<up, file, storeVars, registryVars, disturbed, budget>>

\* reload_skill: a disabled skill stays unloaded.
CheckDisabled(r) ==
    /\ AtStep(r, "disabled?")
    /\ Goto(r, IF req[r].skill \in disabled THEN "answer" ELSE "settings")
    /\ UNCHANGED <<up, file, storeVars, registryVars, disturbed, budget>>

\* reload_skill: nothing to load without a file; else the rows are merged.
ReadSettings(r) ==
    /\ AtStep(r, "settings")
    /\ LET s == req[r].skill IN
       IF file[s] = None
       THEN Goto(r, "answer")
       ELSE req' = [req EXCEPT ![r].at = "build",
                      ![r].built = [config |-> Config(s), hosts |-> allow[s]]]
    /\ UNCHANGED <<up, file, storeVars, registryVars, disturbed, budget>>

\* build_plugin_from_file and what install asks the plugin for: the context its
\* host functions get, and its schema.  There is none when the skill does not
\* export config_schema, or the call fails, or its answer is not JSON.
Built(v, merged, schema) ==
    [version |-> v, config |-> merged.config, hosts |-> merged.hosts, schema |-> schema]

\* reload_path up to the first lock of install: the plugin is built from the
\* file as it is now and asked for its rules and its schema.  A failure changes
\* nothing.
Build(r) ==
    /\ AtStep(r, "build")
    /\ LET q == req[r]
           v == file[q.skill]
       IN IF v \in GoodVersions
          THEN \E schema \in BOOLEAN :
               req' = [req EXCEPT ![r].at = "plugin", ![r].built = Built(v, q.built, schema)]
          ELSE Goto(r, AfterReload(q, TRUE))
    /\ UNCHANGED <<up, file, storeVars, registryVars, disturbed, budget>>

InstallPlugin(r) ==
    /\ AtStep(r, "plugin")
    /\ plugins' = [plugins EXCEPT ![req[r].skill] = req[r].built]
    /\ Goto(r, "rules")
    /\ UNCHANGED <<up, file, storeVars, rules, schemas, index, disturbed, budget>>

InstallRules(r) ==
    /\ AtStep(r, "rules")
    /\ rules' = [rules EXCEPT ![req[r].skill] = req[r].built.version]
    /\ Goto(r, "schema")
    /\ UNCHANGED <<up, file, storeVars, plugins, schemas, index, disturbed, budget>>

\* Faulty variant: the schema of the plugin before stays when there is no new one.
InstallSchemaIfAny(r) ==
    /\ AtStep(r, "schema")
    /\ schemas' = IF req[r].built.schema THEN schemas \cup {req[r].skill} ELSE schemas
    /\ Goto(r, "index")
    /\ UNCHANGED <<up, file, storeVars, plugins, rules, index, disturbed, budget>>

InstallSchema(r) ==
    /\ AtStep(r, "schema")
    /\ LET s == req[r].skill IN
       schemas' = IF req[r].built.schema THEN schemas \cup {s} ELSE schemas \ {s}
    /\ Goto(r, "index")
    /\ UNCHANGED <<up, file, storeVars, plugins, rules, index, disturbed, budget>>

\* rebuild_index: the lock on the cached rules is held until the swap.
RebuildIndex == index' = rules

\* A reload nobody else interfered with repairs what overlapping requests left.
InstallIndex(r) ==
    /\ AtStep(r, "index")
    /\ RebuildIndex
    /\ Goto(r, AfterReload(req[r], FALSE))
    /\ disturbed' = IF Busy(req[r].skill) = {r} /\ ~req[r].met
                    THEN disturbed \ {req[r].skill} ELSE disturbed
    /\ UNCHANGED <<up, file, storeVars, plugins, rules, schemas, budget>>

\* remove: the index is rebuilt only if the plugin map held the skill.
DropPlugin(r) ==
    /\ AtStep(r, "drop_plugin")
    /\ LET s == req[r].skill IN
       /\ plugins' = [plugins EXCEPT ![s] = None]
       /\ req' = [req EXCEPT ![r].at = "drop_rules", ![r].existed = plugins[s] # None]
    /\ UNCHANGED <<up, file, storeVars, rules, schemas, index, disturbed, budget>>

DropRules(r) ==
    /\ AtStep(r, "drop_rules")
    /\ rules' = [rules EXCEPT ![req[r].skill] = None]
    /\ Goto(r, "drop_schema")
    /\ UNCHANGED <<up, file, storeVars, plugins, schemas, index, disturbed, budget>>

DropSchema(r) ==
    /\ AtStep(r, "drop_schema")
    /\ schemas' = schemas \ {req[r].skill}
    /\ Goto(r, IF req[r].existed THEN "drop_index" ELSE "answer")
    /\ UNCHANGED <<up, file, storeVars, plugins, rules, index, disturbed, budget>>

DropIndex(r) ==
    /\ AtStep(r, "drop_index")
    /\ RebuildIndex
    /\ Goto(r, "answer")
    /\ UNCHANGED <<up, file, storeVars, plugins, rules, schemas, disturbed, budget>>

\* A first install that failed does not leave its file behind.
Cleanup(r) ==
    /\ AtStep(r, "cleanup")
    /\ file' = [file EXCEPT ![req[r].skill] = None]
    /\ Goto(r, "answer")
    /\ UNCHANGED <<up, storeVars, registryVars, disturbed, budget>>

Respond(r) ==
    /\ AtStep(r, "answer")
    /\ Answer(r)
    /\ UNCHANGED <<up, file, storeVars, registryVars, disturbed, budget>>

\* An await on the store or the file system fails.  The handler gives up with
\* a 500; inside reload_skill the failure is the reload's error.
Fail(r) ==
    /\ up /\ budget.faults > 0
    /\ \/ req[r].at \in {"read", "write", "flag", "save", "derive", "allowlist",
                         "cleanup"} /\ Answer(r)
       \/ req[r].at \in {"disabled?", "settings"} /\ Goto(r, AfterReload(req[r], TRUE))
    /\ budget' = [budget EXCEPT !.faults = @ - 1]
    /\ UNCHANGED <<up, file, storeVars, registryVars, disturbed>>

\* The process dies: files and rows survive, the registry does not.
Crash ==
    /\ up /\ budget.faults > 0
    /\ up' = FALSE
    /\ req' = [r \in Requests |-> Idle]
    /\ plugins' = [s \in Skills |-> None]
    /\ rules' = [s \in Skills |-> None]
    /\ index' = [s \in Skills |-> None]
    /\ schemas' = {}
    /\ disturbed' = {}
    /\ budget' = [budget EXCEPT !.faults = @ - 1]
    /\ UNCHANGED <<file, storeVars>>

\* load_dir: a file that does not build is skipped; one whose rules fail fails
\* it, and the process does not come up.
LoadDir == {s \in Skills : file[s] \in GoodVersions}

\* serve and Runtime::spawn: the directory is loaded with the merged settings,
\* and the disabled skills are removed, before anybody asks for anything.
Startup ==
    /\ ~up
    /\ \A s \in Skills : file[s] \notin Ruleless
    /\ up' = TRUE
    /\ LET kept == LoadDir \ disabled
       IN \E described \in SUBSET kept :
          /\ plugins' = [s \in Skills |->
                IF s \in kept
                THEN Built(file[s], [config |-> Config(s), hosts |-> allow[s]], s \in described)
                ELSE None]
          /\ rules' = [s \in Skills |-> IF s \in kept THEN file[s] ELSE None]
          /\ index' = rules'
          /\ schemas' = described
    /\ UNCHANGED <<file, storeVars, req, disturbed, budget>>

RegistryInit ==
    /\ up = FALSE
    /\ file \in [Skills -> GoodVersions \cup {None}]
    /\ disabled = {} /\ setting = [s \in Skills |-> [k \in Keys |-> "unset"]]
    /\ allow = [s \in Skills |-> {}]
    /\ plugins = [s \in Skills |-> None] /\ rules = plugins /\ index = plugins
    /\ schemas = {} /\ disturbed = {}
    /\ req = [r \in Requests |-> Idle]
    /\ budget \in [requests: 0..MaxRequests, faults: 0..MaxFaults]

Handle(r) ==
    \/ Start(r) \/ ReadRows(r) \/ SaveKey(r) \/ Derive(r) \/ SaveAllowlist(r)
    \/ WriteFile(r) \/ SetFlag(r) \/ CheckDisabled(r) \/ ReadSettings(r) \/ Build(r)
    \/ InstallPlugin(r) \/ InstallRules(r) \/ InstallSchema(r) \/ InstallIndex(r)
    \/ DropPlugin(r) \/ DropRules(r) \/ DropSchema(r) \/ DropIndex(r)
    \/ Cleanup(r) \/ Respond(r) \/ Fail(r)

RegistryNext == Crash \/ Startup \/ \E r \in Requests : Handle(r)

RegistrySpec == RegistryInit /\ [][RegistryNext]_adminVars
-----------------------------------------------------------------------------
\* Once the requests of a skill are answered, unless two of them met since its
\* last undisturbed reload, the four structures of the registry tell the same
\* story of it, whatever requests of other skills do and whichever awaits
\* failed: it is matched exactly when it can be dispatched to, with the rules
\* of the plugin that will answer, and configured by the schema of that plugin,
\* if it has one; never while disabled; its file is there for the next start,
\* and no secret of it is an allowed host.  (Requests that meet can break this:
\* "a disabled skill must stay unloaded", api.rs:273, and "never in a
\* half-loaded state", registry.rs:397, are promises to a skill's lone request.)
Settled(s) == up /\ Busy(s) = {} /\ s \notin disturbed

Loaded(s) == plugins[s] # None

RegistryAgrees ==
    \A s \in Skills : Settled(s) =>
        /\ rules[s] = index[s]
        /\ rules[s] = IF Loaded(s) THEN plugins[s].version ELSE None
        /\ s \in schemas <=> Loaded(s) /\ plugins[s].schema
        /\ Loaded(s) => s \notin disabled /\ file[s] # None
        /\ allow[s] \cap SecretKeys = {}

\* A stored secret survives every blank submission, also while the skill is
\* unloaded and its schema unknown, and keeps its is_secret mark, as long as
\* requests of the skill do not meet (put_config, Fix 3).
SecretsKept ==
    [][\A s \in Skills, k \in Keys :
        setting[s][k] = "secret" /\ s \notin disturbed => setting'[s][k] = "secret"]_adminVars
=============================================================================
