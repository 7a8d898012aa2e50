------------------------ MODULE SkillRegistryProofs --------------------------
(***************************************************************************)
(* The registry's four structures, the skills directory and the rows agree *)
(* again whenever the requests of a skill are answered, for any skills,    *)
(* files, keys, requests in flight and failures.                           *)
(*                                                                         *)
(* The invariant looks at one skill.  A request that met no other of its   *)
(* skill is alone with it until it is answered, so what it has read stays  *)
(* true, and each of its steps leaves the skill either as it was at rest   *)
(* or a known part of the way through a reload or a removal.  Requests of  *)
(* other skills touch a skill in one way only: they rebuild the index,     *)
(* which gives the skill the rules that are cached for it.                 *)
(***************************************************************************)
EXTENDS SkillRegistry, TLAPS

Steps == {"read", "save", "derive", "allowlist", "write", "flag", "disabled?",
          "settings", "build", "plugin", "rules", "schema", "index",
          "drop_plugin", "drop_rules", "drop_schema", "drop_index", "cleanup",
          "answer"}

\* What ReadSettings merges, and what Build makes of it.
Merged == [config: SUBSET Keys, hosts: SUBSET Keys]

InFlight ==
    [at: Steps, skill: Skills, op: Ops, body: [Keys -> {"absent", "blank", "value"}],
     version: Versions \cup {None}, schema: BOOLEAN, existed: BOOLEAN,
     secret: SUBSET Keys, derived: SUBSET Keys, built: {None} \cup Merged \cup Plugin,
     met: BOOLEAN]

\* What of a request is typed by the step it is at.
WellFormed(q) ==
    /\ q.at = "write" => q.version \in Versions
    /\ q.at = "build" => q.built \in Merged
    /\ q.at \in {"plugin", "rules", "schema", "index"} => q.built \in Plugin
    /\ q.derived \cap SecretKeys = {}

StoreTypes ==
    /\ up \in BOOLEAN
    /\ file \in [Skills -> Versions \cup {None}]
    /\ disabled \subseteq Skills
    /\ setting \in [Skills -> [Keys -> {"unset", "plain", "secret"}]]
    /\ allow \in [Skills -> SUBSET Keys]
    /\ plugins \in [Skills -> Plugin \cup {None}]
    /\ rules \in [Skills -> GoodVersions \cup {None}]
    /\ index \in [Skills -> GoodVersions \cup {None}]
    /\ schemas \subseteq Skills /\ disturbed \subseteq Skills

Types ==
    /\ StoreTypes
    /\ req \in [Requests -> {Idle} \cup InFlight]
    /\ \A r \in Requests : req[r].at # "idle" => WellFormed(req[r])
    /\ ~up => \A r \in Requests : req[r] = Idle

-----------------------------------------------------------------------------
(* One skill *)

\* The four structures tell the same story.
Whole(s) ==
    /\ rules[s] = index[s]
    /\ rules[s] = IF Loaded(s) THEN plugins[s].version ELSE None
    /\ s \in schemas <=> Loaded(s) /\ plugins[s].schema

\* The skill as requests leave it behind.
AtRest(s) ==
    /\ Whole(s)
    /\ Loaded(s) => s \notin disabled /\ file[s] # None

\* A request that met no other is alone, and a skill is disturbed from the
\* moment two of its requests meet.
Alone(s) ==
    /\ \A r \in Busy(s) : ~req[r].met => Busy(s) = {r}
    /\ s \notin disturbed => \A r \in Busy(s) : ~req[r].met

\* How far its reload has got, for a request that met no other.
Reloads(s, q) ==
    /\ q.at \in {"settings", "build", "plugin", "rules", "schema", "index"} =>
           s \notin disabled
    /\ q.at \in {"build", "plugin", "rules", "schema", "index"} => file[s] # None
    /\ q.at \in {"rules", "schema", "index"} => plugins[s] = q.built
    /\ q.at \in {"schema", "index"} => rules[s] = q.built.version
    /\ q.at = "index" => (s \in schemas <=> q.built.schema)

\* The steps at which a request has changed nothing of the registry's yet, or
\* nothing any more.
Harmless == {"read", "save", "derive", "allowlist", "write", "flag", "disabled?",
             "settings", "build", "cleanup", "answer"}

\* What else holds while it works on a skill that nothing disturbed.
Progress(s, q) ==
    /\ q.at \in Harmless => AtRest(s)
    /\ q.at \in Harmless \ {"answer"} /\ q.op = "install" /\ ~q.existed => ~Loaded(s)
    /\ q.at = "cleanup" => q.op = "install" /\ ~q.existed
    /\ q.at = "drop_plugin" => Whole(s)
    /\ q.at \in {"drop_rules", "drop_schema", "drop_index"} => ~Loaded(s)
    /\ q.at \in {"drop_schema", "drop_index"} => rules[s] = None
    /\ q.at = "drop_index" => s \notin schemas
    /\ q.at \in {"drop_rules", "drop_schema"} /\ ~q.existed =>
           rules[s] = None /\ index[s] = None
    /\ q.at = "save" => \A k \in Keys : setting[s][k] = "secret" => k \in q.secret

SkillInv(s) ==
    /\ Alone(s)
    /\ allow[s] \cap SecretKeys = {}
    /\ Busy(s) = {} /\ s \notin disturbed => AtRest(s)
    /\ \A r \in Busy(s) : ~req[r].met =>
          /\ Reloads(s, req[r])
          /\ s \notin disturbed => Progress(s, req[r])

IInv == Types /\ \A s \in Skills : SkillInv(s)

-----------------------------------------------------------------------------
(* Requests and skills *)

\* What a step of a request of skill s does to the other skills: nothing, but
\* that it may rebuild the index.
Elsewhere(s) ==
    \A t \in Skills \ {s} :
        /\ file'[t] = file[t] /\ plugins'[t] = plugins[t] /\ rules'[t] = rules[t]
        /\ index'[t] \in {index[t], rules[t]}
        /\ setting'[t] = setting[t] /\ allow'[t] = allow[t]
        /\ t \in schemas' <=> t \in schemas
        /\ t \in disabled' <=> t \in disabled
        /\ t \in disturbed' <=> t \in disturbed

\* A skill whose requests stand still keeps its invariant.
LEMMA OthersKeep ==
  ASSUME NEW s \in Skills, NEW t \in Skills, t # s, SkillInv(t), Elsewhere(s),
         Busy(t)' = Busy(t), \A r \in Busy(t) : req'[r] = req[r]
  PROVE  SkillInv(t)'
<1>1. /\ file'[t] = file[t] /\ plugins'[t] = plugins[t] /\ rules'[t] = rules[t]
      /\ index'[t] \in {index[t], rules[t]}
      /\ setting'[t] = setting[t] /\ allow'[t] = allow[t]
      /\ t \in schemas' <=> t \in schemas
      /\ t \in disabled' <=> t \in disabled
      /\ t \in disturbed' <=> t \in disturbed
  BY DEF Elsewhere
<1>2. Whole(t) => Whole(t)'
  BY <1>1 DEF Whole, Loaded
<1>3. AtRest(t) => AtRest(t)'
  BY <1>1, <1>2 DEF AtRest, Loaded
<1>4. Alone(t)' /\ allow'[t] \cap SecretKeys = {}
  BY <1>1 DEF SkillInv, Alone
<1>5. Busy(t)' = {} /\ t \notin disturbed' => AtRest(t)'
  BY <1>1, <1>3 DEF SkillInv
<1>6. ASSUME NEW r \in Busy(t)', ~req'[r].met
      PROVE  Reloads(t, req[r])' /\ (t \notin disturbed' => Progress(t, req[r])')
  <2> DEFINE q == req[r]
  <2>1. r \in Busy(t) /\ q' = q /\ Reloads(t, q) /\ (t \notin disturbed => Progress(t, q))
    BY <1>6 DEF SkillInv
  <2>2. Reloads(t, q)'
    BY <1>1, <2>1 DEF Reloads
  <2>3. Progress(t, q) => Progress(t, q)'
    BY <1>1, <1>2, <1>3, <2>1 DEF Progress, Loaded
  <2>4. QED
    BY <1>1, <2>1, <2>2, <2>3
<1>7. QED
  BY <1>4, <1>5, <1>6 DEF SkillInv

\* The requests of the skills, when request r, of skill s, moves on to p.
LEMMA BusyAfter ==
  ASSUME req \in [Requests -> {Idle} \cup InFlight],
         NEW r \in Requests, NEW s \in Skills, r \in Busy(s),
         NEW p \in {Idle} \cup InFlight, p # Idle => p.skill = s,
         req' = [req EXCEPT ![r] = p]
  PROVE  /\ req'[r] = p /\ \A x \in Requests \ {r} : req'[x] = req[x]
         /\ Busy(s)' = IF p = Idle THEN Busy(s) \ {r} ELSE Busy(s)
         /\ \A t \in Skills \ {s} : Busy(t)' = Busy(t) /\ r \notin Busy(t)
<1>1. req'[r] = p /\ \A x \in Requests \ {r} : req'[x] = req[x]
  OBVIOUS
<1>2. p # Idle => p.at # "idle"
  BY DEF InFlight, Steps
<1>3. Idle.at = "idle"
  BY DEF Idle
<1>4. req[r].at # "idle" /\ req[r].skill = s
  BY DEF Busy
<1>5. ASSUME NEW t
      PROVE  Busy(t)' = {x \in Requests : req'[x].at # "idle" /\ req'[x].skill = t}
  BY DEF Busy
<1>6. \A x \in Busy(s)' : x \in Busy(s) /\ (p = Idle => x # r)
  BY <1>1, <1>3, <1>4, <1>5 DEF Busy
<1>7. \A x \in Busy(s) : x # r \/ p # Idle => x \in Busy(s)'
  BY <1>1, <1>2, <1>5 DEF Busy
<1>8. ASSUME NEW t \in Skills \ {s} PROVE Busy(t)' = Busy(t) /\ r \notin Busy(t)
  <2>1. \A x \in Requests : x \in Busy(t)' <=> x \in Busy(t)
    BY <1>1, <1>2, <1>3, <1>4, <1>5, <1>8 DEF Busy
  <2>2. QED
    BY <1>4, <2>1, <1>8 DEF Busy
<1>9. Busy(s)' = IF p = Idle THEN Busy(s) \ {r} ELSE Busy(s)
  BY <1>6, <1>7
<1>10. QED
  BY <1>1, <1>8, <1>9

\* A request that moves on alone, or met before, keeps the invariant of every
\* skill if it leaves its own skill as the step it moved to says.
LEMMA StepKeeps ==
  ASSUME Types, \A t \in Skills : SkillInv(t),
         NEW r \in Requests, NEW s \in Skills, r \in Busy(s),
         NEW p \in {Idle} \cup InFlight,
         p # Idle => p.skill = s /\ p.met = req[r].met,
         req' = [req EXCEPT ![r] = p],
         Elsewhere(s), allow'[s] \cap SecretKeys = {},
         s \in disturbed' => s \in disturbed,
         req[r].met => (s \in disturbed => s \in disturbed'),
         p = Idle /\ ~req[r].met => (s \notin disturbed' => AtRest(s)'),
         p # Idle /\ ~req[r].met =>
             Reloads(s, p)' /\ (s \notin disturbed' => Progress(s, p)')
  PROVE  \A t \in Skills : SkillInv(t)'
<1>1. /\ req'[r] = p /\ \A x \in Requests \ {r} : req'[x] = req[x]
      /\ Busy(s)' = IF p = Idle THEN Busy(s) \ {r} ELSE Busy(s)
      /\ \A t \in Skills \ {s} : Busy(t)' = Busy(t) /\ r \notin Busy(t)
  BY BusyAfter DEF Types
<1>2. ASSUME NEW t \in Skills, t # s PROVE SkillInv(t)'
  <2>1. \A x \in Busy(t) : req'[x] = req[x]
    BY <1>1, <1>2 DEF Busy
  <2>2. QED
    BY <1>1, <1>2, <2>1, OthersKeep
<1>3. SkillInv(s)'
  <2>1. Alone(s) /\ SkillInv(s)
    BY DEF SkillInv
  <2>2. \A x \in Busy(s)' : x \in Busy(s) /\ req'[x].met = req[x].met
    BY <1>1 DEF Busy
  <2>3. CASE req[r].met
    <3>1. s \in disturbed /\ s \in disturbed'
      BY <2>1, <2>3 DEF Alone
    <3>2. \A x \in Busy(s) : req[x].met
      BY <2>1, <2>3 DEF Alone
    <3>3. QED
      BY <2>2, <3>1, <3>2 DEF SkillInv, Alone
  <2>4. CASE ~req[r].met
    <3>1. Busy(s) = {r}
      BY <2>1, <2>4 DEF Alone
    <3>2. CASE p = Idle
      <4>1. Busy(s)' = {}
        BY <1>1, <3>1, <3>2
      <4>2. QED
        BY <2>4, <3>2, <4>1 DEF SkillInv, Alone
    <3>3. CASE p # Idle
      <4>1. Busy(s)' = {r} /\ req'[r] = p /\ ~p.met
        BY <1>1, <2>4, <3>1, <3>3
      <4>2. Reloads(s, req[r])' /\ (s \notin disturbed' => Progress(s, req[r])')
        BY <2>4, <3>3, <4>1 DEF Reloads, Progress
      <4>3. QED
        BY <4>1, <4>2 DEF SkillInv, Alone
    <3>4. QED
      BY <3>2, <3>3
  <2>5. QED
    BY <2>3, <2>4
<1>4. QED
  BY <1>2, <1>3

\* A request in flight, and what the invariant says of it.
LEMMA AtWork ==
  ASSUME IInv, NEW r \in Requests, NEW x \in Steps, AtStep(r, x)
  PROVE  /\ up /\ req[r] \in InFlight /\ req[r].at = x /\ WellFormed(req[r])
         /\ req[r].skill \in Skills /\ r \in Busy(req[r].skill)
         /\ ~req[r].met => /\ Reloads(req[r].skill, req[r])
                           /\ req[r].skill \notin disturbed =>
                                  Progress(req[r].skill, req[r])
<1>1. up /\ req[r].at = x /\ x # "idle"
  BY DEF AtStep, Steps
<1>2. req[r] \in InFlight /\ WellFormed(req[r])
  BY <1>1 DEF IInv, Types, Idle
<1>3. req[r].skill \in Skills /\ r \in Busy(req[r].skill)
  BY <1>1, <1>2 DEF InFlight, Busy
<1>4. QED
  BY <1>1, <1>2, <1>3 DEF IInv, SkillInv

\* Moving a request to another step changes nothing else of it.
LEMMA Moved ==
  ASSUME NEW q \in InFlight, NEW x \in Steps
  PROVE  LET p == [q EXCEPT !.at = x]
         IN /\ p \in InFlight /\ p # Idle /\ p.at = x /\ p.at # "idle"
            /\ p.skill = q.skill /\ p.op = q.op /\ p.body = q.body
            /\ p.version = q.version /\ p.schema = q.schema
            /\ p.existed = q.existed /\ p.secret = q.secret
            /\ p.derived = q.derived /\ p.built = q.built /\ p.met = q.met
BY DEF InFlight, Steps, Idle

\* Request r, of skill s and now the record q, moves on to p; p is Idle once it
\* is answered.
Moves(r, s, q, p) ==
    /\ up /\ s \in Skills /\ r \in Busy(s) /\ q = req[r]
    /\ p \in {Idle} \cup InFlight
    /\ p # Idle => p.skill = s /\ p.met = q.met /\ WellFormed(p)
    /\ req' = [req EXCEPT ![r] = p]

\* It finds the skill as its new step says, unless it met another.
Lands(s, q, p) ==
    ~q.met => IF p = Idle THEN s \notin disturbed => AtRest(s)
              ELSE Reloads(s, p) /\ (s \notin disturbed => Progress(s, p))

\* The whole invariant after a step of one request.
LEMMA StepInv ==
  ASSUME IInv, up' = up, StoreTypes',
         NEW r \in Requests, NEW s, NEW q, NEW p, Moves(r, s, q, p), Lands(s, q, p)',
         Elsewhere(s), allow'[s] \cap SecretKeys = {},
         s \in disturbed' => s \in disturbed,
         q.met => (s \in disturbed => s \in disturbed')
  PROVE  IInv'
<1>0. /\ up /\ s \in Skills /\ r \in Busy(s) /\ q = req[r]
      /\ p \in {Idle} \cup InFlight
      /\ p # Idle => p.skill = s /\ p.met = q.met /\ WellFormed(p)
      /\ req' = [req EXCEPT ![r] = p]
  BY DEF Moves
<1>1. \A t \in Skills : SkillInv(t)'
  <2>1. p = Idle /\ ~req[r].met => (s \notin disturbed' => AtRest(s)')
    BY <1>0 DEF Lands
  <2>2. p # Idle /\ ~req[r].met =>
            Reloads(s, p)' /\ (s \notin disturbed' => Progress(s, p)')
    BY <1>0 DEF Lands
  <2>3. QED
    BY <1>0, <2>1, <2>2, StepKeeps DEF IInv
<1>2. Types'
  <2>1. req' \in [Requests -> {Idle} \cup InFlight]
    BY <1>0 DEF IInv, Types
  <2>2. req'[r] = p /\ \A x \in Requests \ {r} : req'[x] = req[x]
    BY <1>0 DEF IInv, Types
  <2>3. \A x \in Requests : req'[x].at # "idle" => WellFormed(req'[x])
    BY <1>0, <2>2 DEF IInv, Types, Idle
  <2>4. \A x \in Requests : req'[x].at # "idle" => WellFormed(req[x])'
    BY <2>3 DEF WellFormed
  <2>5. QED
    BY <1>0, <2>1, <2>4 DEF Types
<1>3. QED
  BY <1>1, <1>2 DEF IInv

\* A step that leaves the store, the files and the registry alone.
OnlyRequests == UNCHANGED <<up, file, storeVars, registryVars, disturbed>>

\* A step of one request alone keeps the invariant, if the request lands where
\* the store and the registry allow.
LEMMA RequestMoves ==
  ASSUME IInv, OnlyRequests,
         NEW r \in Requests, NEW s, NEW q, NEW p, Moves(r, s, q, p), Lands(s, q, p)
  PROVE  IInv'
<1>1. StoreTypes' /\ up' = up
  BY DEF IInv, Types, StoreTypes, OnlyRequests, storeVars, registryVars
<1>2. Elsewhere(s) /\ allow'[s] \cap SecretKeys = {} /\ disturbed' = disturbed
  BY DEF IInv, SkillInv, Moves, OnlyRequests, Elsewhere, storeVars, registryVars
<1>3. /\ AtRest(s) => AtRest(s)'
      /\ Whole(s) => Whole(s)'
  BY DEF AtRest, Whole, Loaded, OnlyRequests, storeVars, registryVars
<1>4. Reloads(s, p) => Reloads(s, p)'
  BY DEF Reloads, OnlyRequests, storeVars, registryVars
<1>5. Progress(s, p) => Progress(s, p)'
  BY <1>3 DEF Progress, Loaded, OnlyRequests, storeVars, registryVars
<1>6. Lands(s, q, p)'
  BY <1>2, <1>3, <1>4, <1>5 DEF Lands
<1>7. QED
  BY <1>1, <1>2, <1>6, StepInv

-----------------------------------------------------------------------------
(* The steps of a request that only read *)

\* Reading the stored rows keeps the invariant.
LEMMA ReadRowsKeeps == ASSUME IInv, NEW r \in Requests, ReadRows(r) PROVE IInv'
<1> PICK q : q = req[r]
  OBVIOUS
<1> PICK s : s = q.skill
  OBVIOUS
<1>1. /\ up /\ q \in InFlight /\ q.at = "read" /\ WellFormed(q) /\ s \in Skills
      /\ r \in Busy(s)
      /\ ~q.met => Reloads(s, q) /\ (s \notin disturbed => Progress(s, q))
  BY AtWork DEF ReadRows, Steps
<1> DEFINE stored == {k \in Keys : setting[s][k] = "secret"}
           known == (IF q.schema THEN SecretKeys ELSE {}) \cup stored
<1> PICK p : p = [q EXCEPT !.at = "save", !.secret = known]
  OBVIOUS
<1>2. known \in SUBSET Keys /\ stored \subseteq known
  BY RegistryAssumption
<1>3. /\ p \in InFlight /\ p # Idle /\ p.at = "save" /\ p.skill = q.skill
      /\ p.op = q.op /\ p.existed = q.existed /\ p.secret = known /\ p.met = q.met
      /\ p.derived = q.derived
  BY <1>1, <1>2 DEF InFlight, Steps, Idle
<1>4. req' = [req EXCEPT ![r] = p] /\ OnlyRequests
  BY DEF ReadRows, OnlyRequests
<1>5. WellFormed(p)
  BY <1>1, <1>3 DEF WellFormed
<1>6. ASSUME ~q.met PROVE Reloads(s, p) /\ (s \notin disturbed => Progress(s, p))
  BY <1>1, <1>2, <1>3, <1>6 DEF Reloads, Progress, Harmless
<1>7. Moves(r, s, q, p) /\ Lands(s, q, p)
  BY <1>1, <1>3, <1>4, <1>5, <1>6 DEF Moves, Lands
<1>8. QED
  BY <1>4, <1>7, RequestMoves

\* Deriving the configuration keeps the invariant.
LEMMA DeriveKeeps == ASSUME IInv, NEW r \in Requests, Derive(r) PROVE IInv'
<1> PICK q : q = req[r]
  OBVIOUS
<1> PICK s : s = q.skill
  OBVIOUS
<1>1. /\ up /\ q \in InFlight /\ q.at = "derive" /\ WellFormed(q) /\ s \in Skills
      /\ r \in Busy(s)
      /\ ~q.met => Reloads(s, q) /\ (s \notin disturbed => Progress(s, q))
  BY AtWork DEF Derive, Steps
<1> DEFINE hosts == Config(s) \ SecretKeys
           next == IF hosts = {} THEN "disabled?" ELSE "allowlist"
<1> PICK p : p = [q EXCEPT !.derived = hosts, !.at = next]
  OBVIOUS
<1>2. hosts \in SUBSET Keys /\ next \in {"disabled?", "allowlist"} /\ next \in Steps
  BY DEF Config, Steps
<1>3. /\ p \in InFlight /\ p # Idle /\ p.at = next /\ p.skill = q.skill
      /\ p.op = q.op /\ p.existed = q.existed /\ p.met = q.met
      /\ p.derived = hosts
  <2> HIDE DEF hosts, next
  <2>1. p \in InFlight /\ p.at = next
    BY <1>1, <1>2 DEF InFlight
  <2>2. QED
    BY <1>1, <1>2, <2>1 DEF InFlight, Idle
<1>4. req' = [req EXCEPT ![r] = p] /\ OnlyRequests
  BY DEF Derive, OnlyRequests
<1>5. WellFormed(p)
  BY <1>1, <1>2, <1>3 DEF WellFormed
<1>6. ASSUME ~q.met PROVE Reloads(s, p) /\ (s \notin disturbed => Progress(s, p))
  BY <1>1, <1>2, <1>3, <1>6 DEF Reloads, Progress, Harmless
<1>7. Moves(r, s, q, p) /\ Lands(s, q, p)
  BY <1>1, <1>3, <1>4, <1>5, <1>6 DEF Moves, Lands
<1>8. QED
  BY <1>4, <1>7, RequestMoves

\* Finding the skill disabled or enabled keeps the invariant.
LEMMA CheckDisabledKeeps == ASSUME IInv, NEW r \in Requests, CheckDisabled(r) PROVE IInv'
<1> PICK q : q = req[r]
  OBVIOUS
<1> PICK s : s = q.skill
  OBVIOUS
<1>1. /\ up /\ q \in InFlight /\ q.at = "disabled?" /\ WellFormed(q) /\ s \in Skills
      /\ r \in Busy(s)
      /\ ~q.met => Reloads(s, q) /\ (s \notin disturbed => Progress(s, q))
  BY AtWork DEF CheckDisabled, Steps
<1> DEFINE next == IF s \in disabled THEN "answer" ELSE "settings"
<1> PICK p : p = [q EXCEPT !.at = next]
  OBVIOUS
<1>2. next \in Steps
  BY DEF Steps
<1>3. /\ p \in InFlight /\ p # Idle /\ p.at = next /\ p.skill = q.skill
      /\ p.op = q.op /\ p.existed = q.existed /\ p.met = q.met
      /\ p.derived = q.derived
  BY <1>1, <1>2, Moved
<1>4. req' = [req EXCEPT ![r] = p] /\ OnlyRequests
  BY DEF CheckDisabled, Goto, OnlyRequests
<1>5. WellFormed(p)
  BY <1>1, <1>3 DEF WellFormed
<1>6. ASSUME ~q.met PROVE Reloads(s, p) /\ (s \notin disturbed => Progress(s, p))
  BY <1>1, <1>3, <1>6 DEF Reloads, Progress, Harmless
<1>7. Moves(r, s, q, p) /\ Lands(s, q, p)
  BY <1>1, <1>3, <1>4, <1>5, <1>6 DEF Moves, Lands
<1>8. QED
  BY <1>4, <1>7, RequestMoves

\* Reading the settings before a build keeps the invariant.
LEMMA ReadSettingsKeeps == ASSUME IInv, NEW r \in Requests, ReadSettings(r) PROVE IInv'
<1> PICK q : q = req[r]
  OBVIOUS
<1> PICK s : s = q.skill
  OBVIOUS
<1>1. /\ up /\ q \in InFlight /\ q.at = "settings" /\ WellFormed(q) /\ s \in Skills
      /\ r \in Busy(s)
      /\ ~q.met => Reloads(s, q) /\ (s \notin disturbed => Progress(s, q))
  BY AtWork DEF ReadSettings, Steps
<1> DEFINE merged == [config |-> Config(s), hosts |-> allow[s]]
<1> PICK p : p = IF file[s] = None THEN [q EXCEPT !.at = "answer"]
                 ELSE [q EXCEPT !.at = "build", !.built = merged]
  OBVIOUS
<1>2. merged \in Merged
  BY <1>1 DEF Merged, Config, IInv, Types, StoreTypes
<1>3. /\ p \in InFlight /\ p # Idle /\ p.skill = q.skill
      /\ p.op = q.op /\ p.existed = q.existed /\ p.met = q.met
      /\ p.derived = q.derived
      /\ file[s] = None => p.at = "answer"
      /\ file[s] # None => p.at = "build" /\ p.built = merged
  BY <1>1, <1>2, ZenonT(30) DEF InFlight, Steps, Idle
<1>4. req' = [req EXCEPT ![r] = p] /\ OnlyRequests
  BY DEF ReadSettings, Goto, OnlyRequests
<1>5. WellFormed(p)
  BY <1>1, <1>2, <1>3 DEF WellFormed
<1>6. ASSUME ~q.met PROVE Reloads(s, p) /\ (s \notin disturbed => Progress(s, p))
  BY <1>1, <1>3, <1>6 DEF Reloads, Progress, Harmless
<1>7. Moves(r, s, q, p) /\ Lands(s, q, p)
  BY <1>1, <1>3, <1>4, <1>5, <1>6 DEF Moves, Lands
<1>8. QED
  BY <1>4, <1>7, RequestMoves

\* Building the plugin keeps the invariant.
LEMMA BuildKeeps == ASSUME IInv, NEW r \in Requests, Build(r) PROVE IInv'
<1> PICK q : q = req[r]
  OBVIOUS
<1> PICK s : s = q.skill
  OBVIOUS
<1>1. /\ up /\ q \in InFlight /\ q.at = "build" /\ WellFormed(q) /\ s \in Skills
      /\ r \in Busy(s)
      /\ ~q.met => Reloads(s, q) /\ (s \notin disturbed => Progress(s, q))
  BY AtWork DEF Build, Steps
<1> DEFINE v == file[s]
<1>0. PICK schema \in BOOLEAN :
        IF v \in GoodVersions
        THEN req' = [req EXCEPT ![r].at = "plugin", ![r].built = Built(v, q.built, schema)]
        ELSE Goto(r, AfterReload(q, TRUE))
  BY DEF Build
<1> DEFINE plugin == Built(v, q.built, schema)
<1> PICK p : p = IF v \in GoodVersions
                 THEN [q EXCEPT !.at = "plugin", !.built = plugin]
                 ELSE [q EXCEPT !.at = AfterReload(q, TRUE)]
  OBVIOUS
<1>2. v \in GoodVersions => plugin \in Plugin
  BY <1>1 DEF Built, Plugin, Merged, WellFormed
<1>3. /\ p \in InFlight /\ p # Idle /\ p.skill = q.skill
      /\ p.op = q.op /\ p.existed = q.existed /\ p.met = q.met
      /\ p.derived = q.derived
      /\ v \in GoodVersions => p.at = "plugin" /\ p.built = plugin
      /\ v \notin GoodVersions => p.at = AfterReload(q, TRUE)
  BY <1>1, <1>2 DEF InFlight, Steps, Idle, AfterReload
<1>4. req' = [req EXCEPT ![r] = p] /\ OnlyRequests
  BY <1>0 DEF Build, Goto, OnlyRequests
<1>5. WellFormed(p)
  BY <1>1, <1>2, <1>3 DEF WellFormed, AfterReload
<1>6. ASSUME ~q.met PROVE Reloads(s, p) /\ (s \notin disturbed => Progress(s, p))
  <2>1. s \notin disabled /\ file[s] # None
    BY <1>1, <1>6 DEF Reloads
  <2>2. CASE v \in GoodVersions
    BY <1>3, <2>1, <2>2 DEF Reloads, Progress, Harmless
  <2>3. CASE v \notin GoodVersions
    BY <1>1, <1>3, <1>6, <2>3 DEF Reloads, Progress, Harmless, AfterReload
  <2>4. QED
    BY <2>2, <2>3
<1>7. Moves(r, s, q, p) /\ Lands(s, q, p)
  BY <1>1, <1>3, <1>4, <1>5, <1>6 DEF Moves, Lands
<1>8. QED
  BY <1>4, <1>7, RequestMoves

\* Answering a request keeps the invariant.
LEMMA RespondKeeps == ASSUME IInv, NEW r \in Requests, Respond(r) PROVE IInv'
<1> PICK q : q = req[r]
  OBVIOUS
<1> PICK s : s = q.skill
  OBVIOUS
<1>1. /\ up /\ q \in InFlight /\ q.at = "answer" /\ WellFormed(q) /\ s \in Skills
      /\ r \in Busy(s)
      /\ ~q.met => Reloads(s, q) /\ (s \notin disturbed => Progress(s, q))
  BY AtWork DEF Respond, Steps
<1>2. req' = [req EXCEPT ![r] = Idle] /\ OnlyRequests
  BY DEF Respond, Answer, OnlyRequests
<1>3. Lands(s, q, Idle)
  BY <1>1 DEF Lands, Progress, Harmless
<1>4. Moves(r, s, q, Idle)
  BY <1>1, <1>2 DEF Moves
<1>5. QED
  BY <1>2, <1>3, <1>4, RequestMoves

-----------------------------------------------------------------------------
(* The steps that change files and rows *)

\* Saving the allowlist keeps the invariant.
LEMMA SaveAllowlistKeeps == ASSUME IInv, NEW r \in Requests, SaveAllowlist(r) PROVE IInv'
<1> PICK q : q = req[r]
  OBVIOUS
<1> PICK s : s = q.skill
  OBVIOUS
<1>1. /\ up /\ q \in InFlight /\ q.at = "allowlist" /\ WellFormed(q) /\ s \in Skills
      /\ r \in Busy(s)
      /\ ~q.met => Reloads(s, q) /\ (s \notin disturbed => Progress(s, q))
  BY AtWork DEF SaveAllowlist, Steps
<1> PICK p : p = [q EXCEPT !.at = "disabled?"]
  OBVIOUS
<1>2. "disabled?" \in Steps
  BY DEF Steps, AfterReload
<1>3. /\ p \in InFlight /\ p # Idle /\ p.at = "disabled?" /\ p.skill = q.skill
      /\ p.op = q.op /\ p.existed = q.existed /\ p.met = q.met
      /\ p.derived = q.derived /\ p.built = q.built
  BY <1>1, <1>2, Moved
<1>4. /\ allow' = [allow EXCEPT ![s] = q.derived]
      /\ req' = [req EXCEPT ![r] = p]
      /\ UNCHANGED <<up, file, disabled, setting, plugins, rules, schemas, index, disturbed>>
  BY DEF SaveAllowlist, Goto, storeVars, registryVars
<1>5. StoreTypes'
  BY <1>1, <1>4 DEF IInv, Types, StoreTypes, InFlight
<1>6. Elsewhere(s) /\ allow'[s] \cap SecretKeys = {}
  BY <1>1, <1>4 DEF Elsewhere, IInv, SkillInv, Types, StoreTypes, WellFormed
<1>7. Moves(r, s, q, p)
  BY <1>1, <1>3, <1>4 DEF Moves, WellFormed
<1>8. Lands(s, q, p)'
  BY <1>1, <1>3, <1>4 DEF Lands, Reloads, Progress, Harmless, AtRest, Whole, Loaded
<1>9. QED
  BY <1>1, <1>4, <1>5, <1>6, <1>7, <1>8, StepInv

\* Writing the file keeps the invariant.
LEMMA WriteFileKeeps == ASSUME IInv, NEW r \in Requests, WriteFile(r) PROVE IInv'
<1> PICK q : q = req[r]
  OBVIOUS
<1> PICK s : s = q.skill
  OBVIOUS
<1>1. /\ up /\ q \in InFlight /\ q.at = "write" /\ WellFormed(q) /\ s \in Skills
      /\ r \in Busy(s)
      /\ ~q.met => Reloads(s, q) /\ (s \notin disturbed => Progress(s, q))
  BY AtWork DEF WriteFile, Steps
<1> PICK p : p = [q EXCEPT !.at = "flag"]
  OBVIOUS
<1>2. "flag" \in Steps
  BY DEF Steps, AfterReload
<1>3. /\ p \in InFlight /\ p # Idle /\ p.at = "flag" /\ p.skill = q.skill
      /\ p.op = q.op /\ p.existed = q.existed /\ p.met = q.met
      /\ p.derived = q.derived /\ p.built = q.built
  BY <1>1, <1>2, Moved
<1>4. /\ file' = [file EXCEPT ![s] = q.version]
      /\ req' = [req EXCEPT ![r] = p]
      /\ UNCHANGED <<up, disabled, setting, allow, plugins, rules, schemas, index, disturbed>>
  BY DEF WriteFile, Goto, storeVars, registryVars
<1>5. StoreTypes'
  BY <1>1, <1>4 DEF IInv, Types, StoreTypes, WellFormed
<1>6. Elsewhere(s) /\ allow'[s] \cap SecretKeys = {}
  BY <1>1, <1>4 DEF Elsewhere, IInv, SkillInv, Types, StoreTypes
<1>7. Moves(r, s, q, p)
  BY <1>1, <1>3, <1>4 DEF Moves, WellFormed
<1>8. Lands(s, q, p)'
  <2>1. file'[s] # None
    BY <1>1, <1>4, RegistryAssumption DEF IInv, Types, StoreTypes, WellFormed
  <2>2. QED
    BY <1>1, <1>3, <1>4, <2>1 DEF Lands, Reloads, Progress, Harmless, AtRest, Whole, Loaded
<1>9. QED
  BY <1>1, <1>4, <1>5, <1>6, <1>7, <1>8, StepInv

\* Setting the disabled flag keeps the invariant.
LEMMA SetFlagKeeps == ASSUME IInv, NEW r \in Requests, SetFlag(r) PROVE IInv'
<1> PICK q : q = req[r]
  OBVIOUS
<1> PICK s : s = q.skill
  OBVIOUS
<1>1. /\ up /\ q \in InFlight /\ q.at = "flag" /\ WellFormed(q) /\ s \in Skills
      /\ r \in Busy(s)
      /\ ~q.met => Reloads(s, q) /\ (s \notin disturbed => Progress(s, q))
  BY AtWork DEF SetFlag, Steps
<1> DEFINE next == IF q.op = "disable" THEN "drop_plugin" ELSE "disabled?"
<1> PICK p : p = [q EXCEPT !.at = next]
  OBVIOUS
<1>2. next \in Steps
  BY DEF Steps
<1>3. /\ p \in InFlight /\ p # Idle /\ p.at = next /\ p.skill = q.skill
      /\ p.op = q.op /\ p.existed = q.existed /\ p.met = q.met
      /\ p.derived = q.derived /\ p.built = q.built
  BY <1>1, <1>2, Moved
<1>4. /\ disabled' = IF q.op = "disable" THEN disabled \cup {s} ELSE disabled \ {s}
      /\ req' = [req EXCEPT ![r] = p]
      /\ UNCHANGED <<up, file, setting, allow, plugins, rules, schemas, index, disturbed>>
  BY DEF SetFlag, Goto, registryVars
<1>5. StoreTypes'
  BY <1>1, <1>4 DEF IInv, Types, StoreTypes
<1>6. Elsewhere(s) /\ allow'[s] \cap SecretKeys = {}
  BY <1>1, <1>4 DEF Elsewhere, IInv, SkillInv, Types, StoreTypes
<1>7. Moves(r, s, q, p)
  BY <1>1, <1>3, <1>4 DEF Moves, WellFormed
<1>8. Lands(s, q, p)'
  BY <1>1, <1>3, <1>4 DEF Lands, Reloads, Progress, Harmless, AtRest, Whole, Loaded
<1>9. QED
  BY <1>1, <1>4, <1>5, <1>6, <1>7, <1>8, StepInv

\* Saving a key of the settings keeps the invariant.
LEMMA SaveKeyKeeps == ASSUME IInv, NEW r \in Requests, SaveKey(r) PROVE IInv'
<1> PICK q : q = req[r]
  OBVIOUS
<1> PICK s : s = q.skill
  OBVIOUS
<1>1. /\ up /\ q \in InFlight /\ q.at = "save" /\ WellFormed(q) /\ s \in Skills
      /\ r \in Busy(s)
      /\ ~q.met => Reloads(s, q) /\ (s \notin disturbed => Progress(s, q))
  BY AtWork DEF SaveKey, Steps
<1> DEFINE todo == {k \in Keys : q.body[k] # "absent"}
<1>2. CASE todo = {}
  <2> DEFINE next == IF q.schema THEN "derive" ELSE "disabled?"
  <2> PICK p : p = [q EXCEPT !.at = next]
    OBVIOUS
  <2>1. next \in Steps
    BY DEF Steps
  <2>2. /\ p \in InFlight /\ p # Idle /\ p.at = next /\ p.skill = q.skill
        /\ p.op = q.op /\ p.existed = q.existed /\ p.met = q.met
        /\ p.derived = q.derived
    BY <1>1, <2>1, Moved
  <2>3. req' = [req EXCEPT ![r] = p] /\ OnlyRequests
    BY <1>2 DEF SaveKey, Goto, OnlyRequests, storeVars
  <2>4. Moves(r, s, q, p) /\ Lands(s, q, p)
    BY <1>1, <2>2, <2>3 DEF Moves, WellFormed, Lands, Reloads, Progress, Harmless
  <2>5. QED
    BY <2>3, <2>4, RequestMoves
<1>3. ASSUME NEW k \in todo, todo # {},
             req' = [req EXCEPT ![r].body[k] = "absent"],
             setting' = [setting EXCEPT ![s][k] =
                    CASE q.body[k] = "value" /\ k \in q.secret -> "secret"
                      [] q.body[k] = "value" /\ k \notin q.secret -> "plain"
                      [] q.body[k] = "blank" /\ k \in q.secret -> @
                      [] OTHER -> "unset"]
      PROVE  IInv'
  <2> PICK p : p = [q EXCEPT !.body[k] = "absent"]
    OBVIOUS
  <2>1. /\ p \in InFlight /\ p # Idle /\ p.at = "save" /\ p.skill = q.skill
        /\ p.op = q.op /\ p.existed = q.existed /\ p.met = q.met
        /\ p.derived = q.derived /\ p.secret = q.secret
    BY <1>1 DEF InFlight, Idle
  <2>2. /\ req' = [req EXCEPT ![r] = p]
        /\ UNCHANGED <<up, file, disabled, allow, plugins, rules, schemas, index, disturbed>>
    BY <1>3 DEF SaveKey, registryVars
  <2>3. /\ setting' \in [Skills -> [Keys -> {"unset", "plain", "secret"}]]
        /\ \A t \in Skills \ {s} : setting'[t] = setting[t]
        /\ \A l \in Keys : setting'[s][l] = "secret" => l \in q.secret \/ setting[s][l] = "secret"
    <3>1. setting \in [Skills -> [Keys -> {"unset", "plain", "secret"}]]
      BY DEF IInv, Types, StoreTypes
    <3>2. setting[s][k] \in {"unset", "plain", "secret"} /\ k \in Keys
      BY <1>1, <3>1
    <3> DEFINE new == CASE q.body[k] = "value" /\ k \in q.secret -> "secret"
                        [] q.body[k] = "value" /\ k \notin q.secret -> "plain"
                        [] q.body[k] = "blank" /\ k \in q.secret -> setting[s][k]
                        [] OTHER -> "unset"
    <3>3. new \in {"unset", "plain", "secret"} /\ (new = "secret" => k \in q.secret)
      BY <3>2
    <3>4. setting' = [setting EXCEPT ![s][k] = new]
      BY <1>3
    <3> HIDE DEF new
    <3>5. QED
      BY <1>1, <3>1, <3>2, <3>3, <3>4
  <2>4. StoreTypes'
    BY <2>2, <2>3 DEF IInv, Types, StoreTypes
  <2>5. Elsewhere(s) /\ allow'[s] \cap SecretKeys = {}
    BY <1>1, <2>2, <2>3 DEF Elsewhere, IInv, SkillInv
  <2>6. Moves(r, s, q, p)
    BY <1>1, <2>1, <2>2 DEF Moves, WellFormed
  <2>7. Lands(s, q, p)'
    BY <1>1, <2>1, <2>2, <2>3 DEF Lands, Reloads, Progress, Harmless, AtRest, Whole, Loaded
  <2>8. QED
    BY <1>1, <2>2, <2>4, <2>5, <2>6, <2>7, StepInv
<1>4. CASE todo # {}
  <2>1. PICK k \in todo :
           /\ req' = [req EXCEPT ![r].body[k] = "absent"]
           /\ setting' = [setting EXCEPT ![s][k] =
                    CASE q.body[k] = "value" /\ k \in q.secret -> "secret"
                      [] q.body[k] = "value" /\ k \notin q.secret -> "plain"
                      [] q.body[k] = "blank" /\ k \in q.secret -> @
                      [] OTHER -> "unset"]
    BY <1>4 DEF SaveKey
  <2>2. QED
    BY <1>3, <1>4, <2>1
<1>5. QED
  BY <1>2, <1>4

\* Removing the file of a failed first install keeps the invariant.
LEMMA CleanupKeeps == ASSUME IInv, NEW r \in Requests, Cleanup(r) PROVE IInv'
<1> PICK q : q = req[r]
  OBVIOUS
<1> PICK s : s = q.skill
  OBVIOUS
<1>1. /\ up /\ q \in InFlight /\ q.at = "cleanup" /\ WellFormed(q) /\ s \in Skills
      /\ r \in Busy(s)
      /\ ~q.met => Reloads(s, q) /\ (s \notin disturbed => Progress(s, q))
  BY AtWork DEF Cleanup, Steps
<1> PICK p : p = [q EXCEPT !.at = "answer"]
  OBVIOUS
<1>2. "answer" \in Steps
  BY DEF Steps, AfterReload
<1>3. /\ p \in InFlight /\ p # Idle /\ p.at = "answer" /\ p.skill = q.skill
      /\ p.op = q.op /\ p.existed = q.existed /\ p.met = q.met
      /\ p.derived = q.derived /\ p.built = q.built
  BY <1>1, <1>2, Moved
<1>4. /\ file' = [file EXCEPT ![s] = None]
      /\ req' = [req EXCEPT ![r] = p]
      /\ UNCHANGED <<up, disabled, setting, allow, plugins, rules, schemas, index, disturbed>>
  BY DEF Cleanup, Goto, storeVars, registryVars
<1>5. StoreTypes'
  BY <1>1, <1>4 DEF IInv, Types, StoreTypes
<1>6. Elsewhere(s) /\ allow'[s] \cap SecretKeys = {}
  BY <1>1, <1>4 DEF Elsewhere, IInv, SkillInv, Types, StoreTypes
<1>7. Moves(r, s, q, p)
  BY <1>1, <1>3, <1>4 DEF Moves, WellFormed
<1>8. Lands(s, q, p)'
  BY <1>1, <1>3, <1>4 DEF Lands, Reloads, Progress, Harmless, AtRest, Whole, Loaded
<1>9. QED
  BY <1>1, <1>4, <1>5, <1>6, <1>7, <1>8, StepInv

-----------------------------------------------------------------------------
(* The steps of a reload and of a removal *)

\* Installing the plugin keeps the invariant.
LEMMA InstallPluginKeeps == ASSUME IInv, NEW r \in Requests, InstallPlugin(r) PROVE IInv'
<1> PICK q : q = req[r]
  OBVIOUS
<1> PICK s : s = q.skill
  OBVIOUS
<1>1. /\ up /\ q \in InFlight /\ q.at = "plugin" /\ WellFormed(q) /\ s \in Skills
      /\ r \in Busy(s)
      /\ ~q.met => Reloads(s, q) /\ (s \notin disturbed => Progress(s, q))
  BY AtWork DEF InstallPlugin, Steps
<1> PICK p : p = [q EXCEPT !.at = "rules"]
  OBVIOUS
<1>2. "rules" \in Steps
  BY DEF Steps, AfterReload
<1>3. /\ p \in InFlight /\ p # Idle /\ p.at = "rules" /\ p.skill = q.skill
      /\ p.op = q.op /\ p.existed = q.existed /\ p.met = q.met
      /\ p.derived = q.derived /\ p.built = q.built
  BY <1>1, <1>2, Moved
<1>4. /\ plugins' = [plugins EXCEPT ![s] = q.built]
      /\ req' = [req EXCEPT ![r] = p]
      /\ UNCHANGED <<up, file, disabled, setting, allow, rules, schemas, index, disturbed>>
  BY DEF InstallPlugin, Goto, storeVars, registryVars
<1>5. StoreTypes'
  BY <1>1, <1>4 DEF IInv, Types, StoreTypes, WellFormed
<1>6. Elsewhere(s) /\ allow'[s] \cap SecretKeys = {}
  BY <1>1, <1>4 DEF Elsewhere, IInv, SkillInv, Types, StoreTypes
<1>7. Moves(r, s, q, p)
  BY <1>1, <1>3, <1>4 DEF Moves, WellFormed
<1>8. Lands(s, q, p)'
  BY <1>1, <1>3, <1>4 DEF Lands, Reloads, Progress, Harmless, IInv, Types, StoreTypes
<1>9. QED
  BY <1>1, <1>4, <1>5, <1>6, <1>7, <1>8, StepInv

\* Installing the rules keeps the invariant.
LEMMA InstallRulesKeeps == ASSUME IInv, NEW r \in Requests, InstallRules(r) PROVE IInv'
<1> PICK q : q = req[r]
  OBVIOUS
<1> PICK s : s = q.skill
  OBVIOUS
<1>1. /\ up /\ q \in InFlight /\ q.at = "rules" /\ WellFormed(q) /\ s \in Skills
      /\ r \in Busy(s)
      /\ ~q.met => Reloads(s, q) /\ (s \notin disturbed => Progress(s, q))
  BY AtWork DEF InstallRules, Steps
<1> PICK p : p = [q EXCEPT !.at = "schema"]
  OBVIOUS
<1>2. "schema" \in Steps
  BY DEF Steps, AfterReload
<1>3. /\ p \in InFlight /\ p # Idle /\ p.at = "schema" /\ p.skill = q.skill
      /\ p.op = q.op /\ p.existed = q.existed /\ p.met = q.met
      /\ p.derived = q.derived /\ p.built = q.built
  BY <1>1, <1>2, Moved
<1>4. /\ rules' = [rules EXCEPT ![s] = q.built.version]
      /\ req' = [req EXCEPT ![r] = p]
      /\ UNCHANGED <<up, file, disabled, setting, allow, plugins, schemas, index, disturbed>>
  BY DEF InstallRules, Goto, storeVars, registryVars
<1>5. StoreTypes'
  BY <1>1, <1>4 DEF IInv, Types, StoreTypes, WellFormed, Plugin
<1>6. Elsewhere(s) /\ allow'[s] \cap SecretKeys = {}
  BY <1>1, <1>4 DEF Elsewhere, IInv, SkillInv, Types, StoreTypes
<1>7. Moves(r, s, q, p)
  BY <1>1, <1>3, <1>4 DEF Moves, WellFormed
<1>8. Lands(s, q, p)'
  BY <1>1, <1>3, <1>4 DEF Lands, Reloads, Progress, Harmless, IInv, Types, StoreTypes
<1>9. QED
  BY <1>1, <1>4, <1>5, <1>6, <1>7, <1>8, StepInv

\* Installing the schema keeps the invariant.
LEMMA InstallSchemaKeeps == ASSUME IInv, NEW r \in Requests, InstallSchema(r) PROVE IInv'
<1> PICK q : q = req[r]
  OBVIOUS
<1> PICK s : s = q.skill
  OBVIOUS
<1>1. /\ up /\ q \in InFlight /\ q.at = "schema" /\ WellFormed(q) /\ s \in Skills
      /\ r \in Busy(s)
      /\ ~q.met => Reloads(s, q) /\ (s \notin disturbed => Progress(s, q))
  BY AtWork DEF InstallSchema, Steps
<1> PICK p : p = [q EXCEPT !.at = "index"]
  OBVIOUS
<1>2. "index" \in Steps
  BY DEF Steps, AfterReload
<1>3. /\ p \in InFlight /\ p # Idle /\ p.at = "index" /\ p.skill = q.skill
      /\ p.op = q.op /\ p.existed = q.existed /\ p.met = q.met
      /\ p.derived = q.derived /\ p.built = q.built
  BY <1>1, <1>2, Moved
<1>4. /\ schemas' = IF q.built.schema THEN schemas \cup {s} ELSE schemas \ {s}
      /\ req' = [req EXCEPT ![r] = p]
      /\ UNCHANGED <<up, file, disabled, setting, allow, plugins, rules, index, disturbed>>
  BY DEF InstallSchema, Goto, storeVars, registryVars
<1>5. StoreTypes'
  BY <1>1, <1>4 DEF IInv, Types, StoreTypes
<1>6. Elsewhere(s) /\ allow'[s] \cap SecretKeys = {}
  BY <1>1, <1>4 DEF Elsewhere, IInv, SkillInv, Types, StoreTypes
<1>7. Moves(r, s, q, p)
  BY <1>1, <1>3, <1>4 DEF Moves, WellFormed
<1>8. Lands(s, q, p)'
  BY <1>1, <1>3, <1>4 DEF Lands, Reloads, Progress, Harmless, IInv, Types, StoreTypes
<1>9. QED
  BY <1>1, <1>4, <1>5, <1>6, <1>7, <1>8, StepInv

\* Dropping the rules keeps the invariant.
LEMMA DropRulesKeeps == ASSUME IInv, NEW r \in Requests, DropRules(r) PROVE IInv'
<1> PICK q : q = req[r]
  OBVIOUS
<1> PICK s : s = q.skill
  OBVIOUS
<1>1. /\ up /\ q \in InFlight /\ q.at = "drop_rules" /\ WellFormed(q) /\ s \in Skills
      /\ r \in Busy(s)
      /\ ~q.met => Reloads(s, q) /\ (s \notin disturbed => Progress(s, q))
  BY AtWork DEF DropRules, Steps
<1> PICK p : p = [q EXCEPT !.at = "drop_schema"]
  OBVIOUS
<1>2. "drop_schema" \in Steps
  BY DEF Steps, AfterReload
<1>3. /\ p \in InFlight /\ p # Idle /\ p.at = "drop_schema" /\ p.skill = q.skill
      /\ p.op = q.op /\ p.existed = q.existed /\ p.met = q.met
      /\ p.derived = q.derived /\ p.built = q.built
  BY <1>1, <1>2, Moved
<1>4. /\ rules' = [rules EXCEPT ![s] = None]
      /\ req' = [req EXCEPT ![r] = p]
      /\ UNCHANGED <<up, file, disabled, setting, allow, plugins, schemas, index, disturbed>>
  BY DEF DropRules, Goto, storeVars, registryVars
<1>5. StoreTypes'
  BY <1>1, <1>4 DEF IInv, Types, StoreTypes
<1>6. Elsewhere(s) /\ allow'[s] \cap SecretKeys = {}
  BY <1>1, <1>4 DEF Elsewhere, IInv, SkillInv, Types, StoreTypes
<1>7. Moves(r, s, q, p)
  BY <1>1, <1>3, <1>4 DEF Moves, WellFormed
<1>8. Lands(s, q, p)'
  BY <1>1, <1>3, <1>4 DEF Lands, Reloads, Progress, Harmless, Whole, Loaded, IInv, Types, StoreTypes
<1>9. QED
  BY <1>1, <1>4, <1>5, <1>6, <1>7, <1>8, StepInv

\* Dropping the schema keeps the invariant.
LEMMA DropSchemaKeeps == ASSUME IInv, NEW r \in Requests, DropSchema(r) PROVE IInv'
<1> PICK q : q = req[r]
  OBVIOUS
<1> PICK s : s = q.skill
  OBVIOUS
<1>1. /\ up /\ q \in InFlight /\ q.at = "drop_schema" /\ WellFormed(q) /\ s \in Skills
      /\ r \in Busy(s)
      /\ ~q.met => Reloads(s, q) /\ (s \notin disturbed => Progress(s, q))
  BY AtWork DEF DropSchema, Steps
<1> DEFINE next == IF q.existed THEN "drop_index" ELSE "answer"
<1> PICK p : p = [q EXCEPT !.at = next]
  OBVIOUS
<1>2. next \in Steps
  BY DEF Steps
<1>3. /\ p \in InFlight /\ p # Idle /\ p.at = next /\ p.skill = q.skill
      /\ p.op = q.op /\ p.existed = q.existed /\ p.met = q.met
      /\ p.derived = q.derived /\ p.built = q.built
  BY <1>1, <1>2, Moved
<1>4. /\ schemas' = schemas \ {s}
      /\ req' = [req EXCEPT ![r] = p]
      /\ UNCHANGED <<up, file, disabled, setting, allow, plugins, rules, index, disturbed>>
  BY DEF DropSchema, Goto, storeVars
<1>5. StoreTypes'
  BY <1>1, <1>4 DEF IInv, Types, StoreTypes
<1>6. Elsewhere(s) /\ allow'[s] \cap SecretKeys = {}
  BY <1>1, <1>4 DEF Elsewhere, IInv, SkillInv, Types, StoreTypes
<1>7. Moves(r, s, q, p)
  BY <1>1, <1>3, <1>4 DEF Moves, WellFormed
<1>8. Lands(s, q, p)'
  BY <1>1, <1>3, <1>4 DEF Lands, Reloads, Progress, Harmless, AtRest, Whole, Loaded
<1>9. QED
  BY <1>1, <1>4, <1>5, <1>6, <1>7, <1>8, StepInv

\* Dropping the index keeps the invariant.
LEMMA DropIndexKeeps == ASSUME IInv, NEW r \in Requests, DropIndex(r) PROVE IInv'
<1> PICK q : q = req[r]
  OBVIOUS
<1> PICK s : s = q.skill
  OBVIOUS
<1>1. /\ up /\ q \in InFlight /\ q.at = "drop_index" /\ WellFormed(q) /\ s \in Skills
      /\ r \in Busy(s)
      /\ ~q.met => Reloads(s, q) /\ (s \notin disturbed => Progress(s, q))
  BY AtWork DEF DropIndex, Steps
<1> PICK p : p = [q EXCEPT !.at = "answer"]
  OBVIOUS
<1>2. "answer" \in Steps
  BY DEF Steps, AfterReload
<1>3. /\ p \in InFlight /\ p # Idle /\ p.at = "answer" /\ p.skill = q.skill
      /\ p.op = q.op /\ p.existed = q.existed /\ p.met = q.met
      /\ p.derived = q.derived /\ p.built = q.built
  BY <1>1, <1>2, Moved
<1>4. /\ index' = rules
      /\ req' = [req EXCEPT ![r] = p]
      /\ UNCHANGED <<up, file, disabled, setting, allow, plugins, rules, schemas, disturbed>>
  BY DEF DropIndex, Goto, storeVars, registryVars, RebuildIndex
<1>5. StoreTypes'
  BY <1>1, <1>4 DEF IInv, Types, StoreTypes
<1>6. Elsewhere(s) /\ allow'[s] \cap SecretKeys = {}
  BY <1>1, <1>4 DEF Elsewhere, IInv, SkillInv, Types, StoreTypes
<1>7. Moves(r, s, q, p)
  BY <1>1, <1>3, <1>4 DEF Moves, WellFormed
<1>8. Lands(s, q, p)'
  BY <1>1, <1>3, <1>4 DEF Lands, Reloads, Progress, Harmless, AtRest, Whole, Loaded
<1>9. QED
  BY <1>1, <1>4, <1>5, <1>6, <1>7, <1>8, StepInv

\* Dropping the plugin keeps the invariant.
LEMMA DropPluginKeeps == ASSUME IInv, NEW r \in Requests, DropPlugin(r) PROVE IInv'
<1> PICK q : q = req[r]
  OBVIOUS
<1> PICK s : s = q.skill
  OBVIOUS
<1>1. /\ up /\ q \in InFlight /\ q.at = "drop_plugin" /\ WellFormed(q) /\ s \in Skills
      /\ r \in Busy(s)
      /\ ~q.met => Reloads(s, q) /\ (s \notin disturbed => Progress(s, q))
  BY AtWork DEF DropPlugin, Steps
<1> DEFINE was == plugins[s] # None
<1> PICK p : p = [q EXCEPT !.at = "drop_rules", !.existed = was]
  OBVIOUS
<1>2. was \in BOOLEAN
  OBVIOUS
<1>3. /\ p \in InFlight /\ p # Idle /\ p.at = "drop_rules" /\ p.skill = q.skill
      /\ p.op = q.op /\ p.existed = was /\ p.met = q.met
      /\ p.derived = q.derived /\ p.built = q.built
  BY <1>1, <1>2 DEF InFlight, Steps, Idle
<1>4. /\ plugins' = [plugins EXCEPT ![s] = None]
      /\ req' = [req EXCEPT ![r] = p]
      /\ UNCHANGED <<up, file, disabled, setting, allow, rules, schemas, index, disturbed>>
  BY DEF DropPlugin, storeVars
<1>5. StoreTypes'
  BY <1>1, <1>4 DEF IInv, Types, StoreTypes
<1>6. Elsewhere(s) /\ allow'[s] \cap SecretKeys = {}
  BY <1>1, <1>4 DEF Elsewhere, IInv, SkillInv, Types, StoreTypes
<1>7. Moves(r, s, q, p)
  BY <1>1, <1>3, <1>4 DEF Moves, WellFormed
<1>8. Lands(s, q, p)'
  BY <1>1, <1>3, <1>4 DEF Lands, Reloads, Progress, Harmless, Whole, Loaded, IInv, Types, StoreTypes
<1>9. QED
  BY <1>1, <1>4, <1>5, <1>6, <1>7, <1>8, StepInv

\* Swapping in the rebuilt index keeps the invariant.
LEMMA InstallIndexKeeps == ASSUME IInv, NEW r \in Requests, InstallIndex(r) PROVE IInv'
<1> PICK q : q = req[r]
  OBVIOUS
<1> PICK s : s = q.skill
  OBVIOUS
<1>1. /\ up /\ q \in InFlight /\ q.at = "index" /\ WellFormed(q) /\ s \in Skills
      /\ r \in Busy(s)
      /\ ~q.met => Reloads(s, q) /\ (s \notin disturbed => Progress(s, q))
  BY AtWork DEF InstallIndex, Steps
<1> PICK p : p = [q EXCEPT !.at = "answer"]
  OBVIOUS
<1>2. "answer" \in Steps
  BY DEF Steps
<1>3. /\ p \in InFlight /\ p # Idle /\ p.at = "answer" /\ p.skill = q.skill
      /\ p.op = q.op /\ p.existed = q.existed /\ p.met = q.met
      /\ p.derived = q.derived /\ p.built = q.built
  BY <1>1, <1>2, Moved
<1>4. /\ index' = rules
      /\ req' = [req EXCEPT ![r] = p]
      /\ disturbed' = IF Busy(s) = {r} /\ ~q.met THEN disturbed \ {s} ELSE disturbed
      /\ UNCHANGED <<up, file, disabled, setting, allow, plugins, rules, schemas>>
  BY DEF InstallIndex, Goto, RebuildIndex, AfterReload, storeVars
<1>5. StoreTypes'
  BY <1>1, <1>4 DEF IInv, Types, StoreTypes
<1>6. Elsewhere(s) /\ allow'[s] \cap SecretKeys = {}
  BY <1>1, <1>4 DEF Elsewhere, IInv, SkillInv, Types, StoreTypes
<1>7. Moves(r, s, q, p)
  BY <1>1, <1>3, <1>4 DEF Moves, WellFormed
<1>8. Lands(s, q, p)'
  <2>1. q.built \in Plugin /\ q.built # None
    BY <1>1, RegistryAssumption DEF WellFormed
  <2>2. QED
    BY <1>1, <1>3, <1>4, <2>1 DEF Lands, Reloads, Progress, Harmless, AtRest, Whole, Loaded
<1>9. QED
  BY <1>1, <1>4, <1>5, <1>6, <1>7, <1>8, StepInv

-----------------------------------------------------------------------------
(* Failures, the start of a request and of the process *)

\* A step that fails keeps the invariant.
LEMMA FailKeeps == ASSUME IInv, NEW r \in Requests, Fail(r) PROVE IInv'
<1> PICK q : q = req[r]
  OBVIOUS
<1> PICK s : s = q.skill
  OBVIOUS
<1> DEFINE givesUp == {"read", "write", "flag", "save", "derive", "allowlist", "cleanup"}
           fails == {"disabled?", "settings"}
<1>1. up /\ q.at \in givesUp \cup fails /\ OnlyRequests
  BY DEF Fail, OnlyRequests
<1>2. q.at \in Steps /\ AtStep(r, q.at)
  BY <1>1 DEF Steps, AtStep
<1>3. /\ q \in InFlight /\ WellFormed(q) /\ s \in Skills /\ r \in Busy(s)
      /\ ~q.met => Reloads(s, q) /\ (s \notin disturbed => Progress(s, q))
  BY <1>2, AtWork
<1>4. CASE q.at \in givesUp
  <2>1. req' = [req EXCEPT ![r] = Idle]
    BY <1>4 DEF Fail, Answer
  <2>2. Moves(r, s, q, Idle) /\ Lands(s, q, Idle)
    BY <1>1, <1>3, <1>4, <2>1 DEF Moves, Lands, Progress, Harmless
  <2>3. QED
    BY <1>1, <2>2, RequestMoves
<1>5. CASE q.at \in fails
  <2> DEFINE next == AfterReload(q, TRUE)
  <2> PICK p : p = [q EXCEPT !.at = next]
    OBVIOUS
  <2>1. next \in Steps
    BY DEF Steps, AfterReload
  <2>2. /\ p \in InFlight /\ p # Idle /\ p.at = next /\ p.skill = q.skill
        /\ p.op = q.op /\ p.existed = q.existed /\ p.met = q.met
        /\ p.derived = q.derived
    <3> HIDE DEF next
    <3>1. QED
      BY <1>3, <2>1, Moved
  <2>3. req' = [req EXCEPT ![r] = p]
    BY <1>5 DEF Fail, Goto
  <2>4. Moves(r, s, q, p)
    BY <1>1, <1>3, <2>2, <2>3 DEF Moves, WellFormed, AfterReload
  <2>5. Lands(s, q, p)
    BY <1>3, <1>5, <2>2 DEF Lands, Reloads, Progress, Harmless, AfterReload
  <2>6. QED
    BY <1>1, <2>4, <2>5, RequestMoves
<1>6. QED
  BY <1>1, <1>4, <1>5

\* A request that meets another is the same request, marked.
LEMMA Meets ==
  ASSUME NEW q \in InFlight
  PROVE  LET p == [q EXCEPT !.met = TRUE]
         IN /\ p \in InFlight /\ p.met /\ p.at = q.at /\ p.skill = q.skill
            /\ p.version = q.version /\ p.built = q.built /\ p.derived = q.derived
BY DEF InFlight

\* A request that finds another of its skill in flight disturbs the skill; one
\* that is alone finds it at rest, unless it is disturbed already.
LEMMA StartKeeps == ASSUME IInv, NEW r \in Requests, Start(r) PROVE IInv'
<1>1. PICK s \in Skills, op \in Ops, v \in Versions \cup {None},
           body \in [Keys -> {"absent", "blank", "value"}] :
        /\ Carries(Request(s, op, body, v)) /\ Valid(Request(s, op, body, v))
        /\ req' = [x \in Requests |-> IF x = r THEN Request(s, op, body, v)
                     ELSE IF x \in Busy(s) THEN [req[x] EXCEPT !.met = TRUE] ELSE req[x]]
        /\ disturbed' = IF Busy(s) = {} THEN disturbed ELSE disturbed \cup {s}
  BY Zenon DEF Start
<1>2. /\ up /\ req[r].at = "idle"
      /\ UNCHANGED <<up, file, disabled, setting, allow, plugins, rules, schemas, index>>
  BY DEF Start, storeVars, registryVars
<1> PICK p : p = Request(s, op, body, v)
  OBVIOUS
<1>3. /\ p \in InFlight /\ p.at \in {"read", "write", "flag"} /\ p.skill = s
      /\ p.existed = (file[s] # None) /\ p.derived = {} /\ p.met = (Busy(s) # {})
      /\ p.at = "write" => p.version \in Versions
  <2>1. p.op = op /\ p.version = v /\ Carries(p)
    BY <1>1 DEF Request
  <2>2. p.at = "write" => op = "install"
    BY DEF Request
  <2>3. op = "install" => v # None
    BY <2>1 DEF Carries
  <2>4. QED
    BY <2>1, <2>2, <2>3 DEF Request, InFlight, Steps, Ops
<1>4. \A x \in Busy(s) : /\ req[x] \in InFlight /\ req[x].at # "idle" /\ x # r
                         /\ req[x].skill = s
                         /\ [req[x] EXCEPT !.met = TRUE] \in InFlight
  <2>1. \A x \in Busy(s) : /\ req[x] \in InFlight /\ req[x].at # "idle" /\ x # r
                           /\ req[x].skill = s
    BY <1>2 DEF Busy, IInv, Types, Idle
  <2>2. QED
    BY <2>1, Meets
<1>5. /\ req'[r] = p
      /\ \A x \in Busy(s) : req'[x] = [req[x] EXCEPT !.met = TRUE]
      /\ \A x \in Requests : x # r /\ x \notin Busy(s) => req'[x] = req[x]
  BY <1>1, <1>4 DEF Busy
<1>6. /\ Busy(s)' = Busy(s) \cup {r}
      /\ \A x \in Busy(s) : req'[x].met
      /\ \A t \in Skills \ {s} : Busy(t)' = Busy(t) /\ \A x \in Busy(t) : req'[x] = req[x]
  <2>1. \A x \in Busy(s) : req'[x].met /\ req'[x].at # "idle" /\ req'[x].skill = s
    <3> SUFFICES ASSUME NEW x \in Busy(s)
                 PROVE  req'[x].met /\ req'[x].at # "idle" /\ req'[x].skill = s
      OBVIOUS
    <3>1. /\ req'[x] = [req[x] EXCEPT !.met = TRUE] /\ req[x] \in InFlight
          /\ req[x].at # "idle" /\ req[x].skill = s
      BY <1>4, <1>5
    <3>2. QED
      BY <3>1, Meets
  <2>2. req'[r].at # "idle" /\ req'[r].skill = s
    BY <1>3, <1>5
  <2>3. ASSUME NEW t \in Skills PROVE Busy(t)' = {x \in Requests : req'[x].at # "idle" /\ req'[x].skill = t}
    BY DEF Busy
  <2>4. \A x \in Requests : x \in Busy(s)' <=> x \in Busy(s) \cup {r}
    BY <1>5, <2>1, <2>2, <2>3 DEF Busy
  <2>5. \A t \in Skills \ {s} : r \notin Busy(t) /\ \A x \in Busy(t) : x \notin Busy(s)
    BY <1>2 DEF Busy
  <2>6. \A t \in Skills \ {s} : \A x \in Busy(t) : req'[x] = req[x]
    BY <1>5, <2>5 DEF Busy
  <2>7. \A t \in Skills \ {s} : \A x \in Requests : x \in Busy(t)' <=> x \in Busy(t)
    BY <1>5, <2>1, <2>2, <2>3, <2>5 DEF Busy
  <2>8. Busy(s)' = Busy(s) \cup {r}
    BY <2>3, <2>4 DEF Busy
  <2>9. \A t \in Skills \ {s} : Busy(t)' = Busy(t)
    BY <2>3, <2>7 DEF Busy
  <2>10. QED
    BY <2>1, <2>6, <2>8, <2>9
<1>7. Types'
  <2>1. req' \in [Requests -> {Idle} \cup InFlight]
    BY <1>1, <1>3, <1>4 DEF IInv, Types
  <2>2. ASSUME NEW x \in Requests, req'[x].at # "idle" PROVE WellFormed(req'[x])
    <3>1. CASE x = r
      BY <1>3, <1>5, <3>1 DEF WellFormed
    <3>2. CASE x \in Busy(s)
      <4>1. WellFormed(req[x])
        BY <1>4, <3>2 DEF Busy, IInv, Types
      <4>2. /\ req'[x].at = req[x].at /\ req'[x].version = req[x].version
            /\ req'[x].built = req[x].built /\ req'[x].derived = req[x].derived
        BY <1>4, <1>5, <3>2, Meets
      <4>3. QED
        BY <4>1, <4>2 DEF WellFormed
    <3>3. CASE x # r /\ x \notin Busy(s)
      BY <1>5, <2>2, <3>3 DEF IInv, Types
    <3>4. QED
      BY <3>1, <3>2, <3>3
  <2>3. \A x \in Requests : req'[x].at # "idle" => WellFormed(req[x])'
    BY <2>2 DEF WellFormed
  <2>4. StoreTypes'
    BY <1>1, <1>2 DEF IInv, Types, StoreTypes
  <2>5. QED
    BY <1>2, <2>1, <2>3, <2>4 DEF Types
<1>8. ASSUME NEW t \in Skills, t # s PROVE SkillInv(t)'
  <2>1. Elsewhere(s)
    BY <1>1, <1>2 DEF Elsewhere
  <2>2. Busy(t)' = Busy(t) /\ \A x \in Busy(t) : req'[x] = req[x]
    BY <1>6, <1>8
  <2>3. QED
    BY <1>8, <2>1, <2>2, OthersKeep DEF IInv
<1>9. SkillInv(s)'
  <2>1. SkillInv(s) /\ allow' = allow
    BY <1>2 DEF IInv
  <2>2. CASE Busy(s) = {}
    <3>1. Busy(s)' = {r} /\ disturbed' = disturbed /\ ~req'[r].met
      BY <1>1, <1>3, <1>5, <1>6, <2>2
    <3>2. s \notin disturbed => AtRest(s) /\ AtRest(s)'
      BY <1>2, <2>1, <2>2 DEF SkillInv, AtRest, Whole, Loaded
    <3>3. Reloads(s, req[r])'
      BY <1>3, <1>5 DEF Reloads
    <3>4. s \notin disturbed' => Progress(s, req[r])'
      BY <1>2, <1>3, <1>5, <3>1, <3>2 DEF Progress, Harmless, AtRest, Loaded
    <3>5. QED
      BY <2>1, <3>1, <3>2, <3>3, <3>4 DEF SkillInv, Alone
  <2>3. CASE Busy(s) # {}
    <3>1. s \in disturbed' /\ \A x \in Busy(s)' : req'[x].met
      BY <1>1, <1>3, <1>5, <1>6, <2>3
    <3>2. QED
      BY <2>1, <3>1 DEF SkillInv, Alone
  <2>4. QED
    BY <2>2, <2>3
<1>10. QED
  BY <1>7, <1>8, <1>9 DEF IInv

\* With no request in flight the invariant is what holds of a skill at rest.
LEMMA NobodyInFlight ==
  ASSUME Types', \A r \in Requests : req'[r] = Idle,
         \A s \in Skills : AtRest(s)' /\ allow'[s] \cap SecretKeys = {}
  PROVE  IInv'
<1>1. \A s \in Skills : Busy(s)' = {}
  BY DEF Busy, Idle
<1>2. QED
  BY <1>1 DEF IInv, SkillInv, Alone

\* A crash, at any step of any request, keeps the invariant.
LEMMA CrashKeeps == ASSUME IInv, Crash PROVE IInv'
<1>1. Types'
  BY DEF Crash, IInv, Types, StoreTypes, storeVars, Idle
<1>2. \A s \in Skills : AtRest(s)' /\ allow'[s] \cap SecretKeys = {}
  BY DEF Crash, IInv, SkillInv, AtRest, Whole, Loaded, storeVars
<1>3. QED
  BY <1>1, <1>2, NobodyInFlight DEF Crash

\* A start loads the enabled skills whose files build, whatever the requests
\* before the crash left in the files and rows.
LEMMA StartupKeeps == ASSUME IInv, Startup PROVE IInv'
<1> DEFINE kept == LoadDir \ disabled
<1>0. PICK described \in SUBSET kept :
        /\ plugins' = [s \in Skills |->
             IF s \in kept
             THEN Built(file[s], [config |-> Config(s), hosts |-> allow[s]], s \in described)
             ELSE None]
        /\ schemas' = described
  BY DEF Startup
<1> DEFINE built(s) == Built(file[s], [config |-> Config(s), hosts |-> allow[s]],
                             s \in described)
<1>1. /\ plugins' = [s \in Skills |-> IF s \in kept THEN built(s) ELSE None]
      /\ rules' = [s \in Skills |-> IF s \in kept THEN file[s] ELSE None]
      /\ index' = rules' /\ schemas' = described /\ up' = TRUE
      /\ UNCHANGED <<file, disabled, setting, allow, req, disturbed>>
  BY <1>0 DEF Startup, storeVars
<1>2. \A s \in kept : /\ s \in Skills /\ file[s] \in GoodVersions /\ s \notin disabled
                      /\ built(s) \in Plugin /\ built(s).version = file[s]
                      /\ built(s).schema = (s \in described)
  BY DEF LoadDir, Built, Plugin, Config, IInv, Types, StoreTypes
<1>3. None \notin GoodVersions /\ None \notin Plugin
  BY RegistryAssumption DEF Versions
<1>4. \A r \in Requests : req'[r] = Idle
  BY <1>1 DEF Startup, IInv, Types
<1> HIDE DEF kept, built
<1>5. Types'
  <2>1. StoreTypes'
    BY <1>1, <1>2 DEF IInv, Types, StoreTypes
  <2>2. QED
    BY <1>1, <1>4, <2>1 DEF IInv, Types, Idle
<1>6. \A s \in Skills : AtRest(s)'
  BY <1>1, <1>2, <1>3 DEF AtRest, Whole, Loaded
<1>7. \A s \in Skills : allow'[s] \cap SecretKeys = {}
  BY <1>1 DEF IInv, SkillInv
<1>8. QED
  BY <1>4, <1>5, <1>6, <1>7, NobodyInFlight

-----------------------------------------------------------------------------
(* The theorems *)

\* The invariant of the registry holds at the start.
LEMMA InitInv == RegistryInit => IInv
<1> SUFFICES ASSUME RegistryInit PROVE IInv
  OBVIOUS
<1>1. Types
  BY DEF RegistryInit, Types, StoreTypes, Versions, Idle
<1>2. \A s \in Skills : Busy(s) = {}
  BY DEF RegistryInit, Busy, Idle
<1>3. \A s \in Skills : AtRest(s) /\ allow[s] \cap SecretKeys = {}
  BY DEF RegistryInit, AtRest, Whole, Loaded
<1>4. QED
  BY <1>1, <1>2, <1>3 DEF IInv, SkillInv, Alone

\* Every step of every request, and a crash, keeps the invariant.
LEMMA StepKeepsInv == IInv /\ [RegistryNext]_adminVars => IInv'
<1> SUFFICES ASSUME IInv, [RegistryNext]_adminVars PROVE IInv'
  OBVIOUS
<1>1. CASE Crash
  BY <1>1, CrashKeeps
<1>2. CASE Startup
  BY <1>2, StartupKeeps
<1>3. ASSUME NEW r \in Requests, Handle(r) PROVE IInv'
  <2>1. CASE Start(r) \/ ReadRows(r) \/ SaveKey(r) \/ Derive(r) \/ SaveAllowlist(r)
    BY <2>1, StartKeeps, ReadRowsKeeps, SaveKeyKeeps, DeriveKeeps, SaveAllowlistKeeps
  <2>2. CASE WriteFile(r) \/ SetFlag(r) \/ CheckDisabled(r) \/ ReadSettings(r) \/ Build(r)
    BY <2>2, WriteFileKeeps, SetFlagKeeps, CheckDisabledKeeps, ReadSettingsKeeps,
       BuildKeeps
  <2>3. CASE InstallPlugin(r) \/ InstallRules(r) \/ InstallSchema(r) \/ InstallIndex(r)
    BY <2>3, InstallPluginKeeps, InstallRulesKeeps, InstallSchemaKeeps, InstallIndexKeeps
  <2>4. CASE DropPlugin(r) \/ DropRules(r) \/ DropSchema(r) \/ DropIndex(r)
    BY <2>4, DropPluginKeeps, DropRulesKeeps, DropSchemaKeeps, DropIndexKeeps
  <2>5. CASE Cleanup(r) \/ Respond(r) \/ Fail(r)
    BY <2>5, CleanupKeeps, RespondKeeps, FailKeeps
  <2>6. QED
    BY <1>3, <2>1, <2>2, <2>3, <2>4, <2>5 DEF Handle
<1>4. CASE UNCHANGED adminVars
  <2>1. /\ up' = up /\ file' = file /\ disabled' = disabled /\ setting' = setting
        /\ allow' = allow /\ plugins' = plugins /\ rules' = rules /\ schemas' = schemas
        /\ index' = index /\ req' = req /\ disturbed' = disturbed
    BY <1>4 DEF adminVars, storeVars, registryVars
  <2>2. Types'
    BY <2>1 DEF IInv, Types, StoreTypes, WellFormed
  <2>3. ASSUME NEW s \in Skills PROVE SkillInv(s)'
    <3>1. Busy(s)' = Busy(s)
      BY <2>1 DEF Busy
    <3>2. AtRest(s)' = AtRest(s) /\ Alone(s)' = Alone(s)
      BY <2>1, <3>1 DEF AtRest, Whole, Loaded, Alone
    <3>3. \A r \in Busy(s) : /\ Reloads(s, req[r])' = Reloads(s, req[r])
                             /\ Progress(s, req[r])' = Progress(s, req[r])
      BY <2>1, <3>2 DEF Reloads, Progress, AtRest, Whole, Loaded
    <3>4. SkillInv(s)
      BY DEF IInv
    <3>5. QED
      BY <2>1, <3>1, <3>2, <3>3, <3>4 DEF SkillInv
  <2>4. QED
    BY <2>2, <2>3 DEF IInv
<1>5. QED
  BY <1>1, <1>2, <1>3, <1>4 DEF RegistryNext

\* The invariant holds in every state, for any number of skills, requests in
\* flight, files and keys.
THEOREM Inductive == RegistrySpec => []IInv
<1>1. RegistryInit => IInv
  BY InitInv
<1>2. IInv /\ [RegistryNext]_adminVars => IInv'
  BY StepKeepsInv
<1>3. QED
  BY <1>1, <1>2, PTL DEF RegistrySpec

\* When the requests of a skill are answered, its plugin, rules, schema and
\* index entry, its file, its flag and its allowlist agree, unless two of them
\* met since its last undisturbed reload (SkillRegistry, reload_skill).
THEOREM Agreement == RegistrySpec => []RegistryAgrees
<1>1. IInv => RegistryAgrees
  BY DEF IInv, SkillInv, RegistryAgrees, Settled, AtRest, Whole
<1>2. QED
  BY <1>1, Inductive, PTL

\* No step loses a stored secret or its mark while requests of the skill do not
\* meet (put_config).
THEOREM SecretsAreKept == RegistrySpec => SecretsKept
<1> DEFINE Kept == \A s \in Skills, k \in Keys :
                setting[s][k] = "secret" /\ s \notin disturbed => setting'[s][k] = "secret"
<1>1. ASSUME IInv, [RegistryNext]_adminVars PROVE [Kept]_adminVars
  <2>1. ASSUME NEW r \in Requests, SaveKey(r) PROVE Kept
    <3> PICK q : q = req[r]
      OBVIOUS
    <3> PICK s : s = q.skill
      OBVIOUS
    <3>1. /\ up /\ q \in InFlight /\ q.at = "save" /\ WellFormed(q) /\ s \in Skills
          /\ r \in Busy(s)
          /\ ~q.met => Reloads(s, q) /\ (s \notin disturbed => Progress(s, q))
      BY <1>1, <2>1, AtWork DEF SaveKey, Steps
    <3>2. s \notin disturbed => ~q.met
      BY <1>1, <3>1 DEF IInv, SkillInv, Alone
    <3>3. s \notin disturbed => \A k \in Keys : setting[s][k] = "secret" => k \in q.secret
      BY <3>1, <3>2 DEF Progress
    <3>4. setting \in [Skills -> [Keys -> {"unset", "plain", "secret"}]]
      BY <1>1 DEF IInv, Types, StoreTypes
    <3>5. CASE setting' = setting
      BY <3>5
    <3>6. ASSUME NEW k \in Keys, q.body[k] # "absent",
                 setting' = [setting EXCEPT ![s][k] =
                    CASE q.body[k] = "value" /\ k \in q.secret -> "secret"
                      [] q.body[k] = "value" /\ k \notin q.secret -> "plain"
                      [] q.body[k] = "blank" /\ k \in q.secret -> @
                      [] OTHER -> "unset"]
          PROVE  Kept
      <4> DEFINE new == CASE q.body[k] = "value" /\ k \in q.secret -> "secret"
                          [] q.body[k] = "value" /\ k \notin q.secret -> "plain"
                          [] q.body[k] = "blank" /\ k \in q.secret -> setting[s][k]
                          [] OTHER -> "unset"
      <4>1. q.body[k] \in {"value", "blank"}
        BY <3>1, <3>6 DEF InFlight
      <4>2. k \in q.secret /\ setting[s][k] = "secret" => new = "secret"
        BY <4>1
      <4>3. setting' = [setting EXCEPT ![s][k] = new]
        BY <3>6
      <4> HIDE DEF new
      <4>4. QED
        BY <3>1, <3>3, <3>4, <4>2, <4>3
    <3>7. QED
      BY <2>1, <3>5, <3>6 DEF SaveKey
  <2>2. CASE UNCHANGED setting
    BY <2>2
  <2>3. CASE Crash \/ Startup
    BY <2>2, <2>3 DEF Crash, Startup, storeVars
  <2>4. ASSUME NEW r \in Requests, Handle(r) PROVE Kept
    <3>1. CASE SaveKey(r)
      BY <2>1, <3>1
    <3>2. CASE Start(r) \/ ReadRows(r) \/ Derive(r) \/ SaveAllowlist(r) \/ WriteFile(r)
               \/ SetFlag(r) \/ CheckDisabled(r) \/ ReadSettings(r) \/ Build(r)
      BY <2>2, <3>2 DEF Start, ReadRows, Derive, SaveAllowlist, WriteFile, SetFlag,
         CheckDisabled, ReadSettings, Build, storeVars
    <3>3. CASE InstallPlugin(r) \/ InstallRules(r) \/ InstallSchema(r) \/ InstallIndex(r)
               \/ DropPlugin(r) \/ DropRules(r) \/ DropSchema(r) \/ DropIndex(r)
      BY <2>2, <3>3 DEF InstallPlugin, InstallRules, InstallSchema, InstallIndex,
         DropPlugin, DropRules, DropSchema, DropIndex, storeVars
    <3>4. CASE Cleanup(r) \/ Respond(r) \/ Fail(r)
      BY <2>2, <3>4 DEF Cleanup, Respond, Fail, storeVars
    <3>5. QED
      BY <2>4, <3>1, <3>2, <3>3, <3>4 DEF Handle
  <2>5. QED
    BY <1>1, <2>2, <2>3, <2>4 DEF RegistryNext, adminVars, storeVars
<1>2. QED
  BY <1>1, Inductive, PTL DEF RegistrySpec, SecretsKept
=============================================================================
