-------------------------- MODULE ConfigProcessing --------------------------
(***************************************************************************)
(* What processCiConfig does with the CI config that a clone job has       *)
(* extracted: the secrets of the repository, which its administrators add, *)
(* change and remove, those the pipeline may use (prepareSecrets), the     *)
(* markers in the text that are replaced by them (replaceSecrets), the     *)
(* validation of the parsed config (CiConfig) and the environment of its   *)
(* jobs (initPipelineJobs).  The text of a config is a sequence of tokens: *)
(* backslashes, markers such as {{TOKEN}} and anything else; which jobs it *)
(* parses to does not depend on the tokens.                                *)
(***************************************************************************)
EXTENDS CiConfig, Functions

CONSTANTS
  Name,           \* names of environment variables and secrets
  SystemName,     \* the METROLINE_* ones that the server provides itself
  Branch,         \* branches
  NewSecret,      \* what administrators make of the repository's secrets
  Inputs          \* families of commits, secrets, texts and configs

Slash == [token |-> "slash"]
Other == [token |-> "other"]
Marker(n) == [token |-> "marker", name |-> n]
Plain(v) == [token |-> "value", value |-> v]
Token == {Slash, Other} \cup {Marker(n) : n \in Name}

\* A secret; its branches are those its patterns match, none when it has none.
Secret == [name : Name, value : STRING \ {""}, protectedBranchesOnly : BOOLEAN, branches : SUBSET Branch]

ASSUME SecretsAssumption ==
  /\ SystemName \subseteq Name /\ NewSecret \subseteq Secret
  /\ \A f \in Inputs :
       /\ f.commits \subseteq [branch : Branch, protectedBranch : BOOLEAN]
       /\ \A s \in f.globalSecrets \cup f.repoSecrets : s \in Seq(Secret)
       /\ f.edits \in Nat
       /\ f.texts \subseteq Seq(Token)
       /\ f.env \subseteq SUBSET Name
       /\ f.names \subseteq Job /\ IsFiniteSet(f.names) /\ f.dependencies \subseteq Seq(Job)
       /\ f.imageless \subseteq SUBSET Job
       \* the unique index on repoId and name
       /\ \A s \in f.repoSecrets : \A i, k \in DOMAIN s : s[i].name = s[k].name => i = k

VARIABLES
  commit,         \* the branch of the pipeline and whether it is protected
  globalSecrets,  \* METROLINE_GLOBAL_SECRETS
  collection,     \* the secrets of the repository in the database
  edits,          \* bound: how many times they still change
  repoSecrets,    \* those that were read
  plainConfig,    \* the CI config that was extracted from the clone container
  configEnv,      \* the names of `env` in the config and in its job
  secrets,        \* prepareSecrets: name |-> value
  config,         \* the config with its markers replaced
  job             \* what is stored of the job: its env and hideFromLogs

given == <<commit, globalSecrets, plainConfig, configEnv>>
database == <<collection, edits>>
results == <<repoSecrets, secrets, config, job>>
configVars == <<given, database, results, parsed, step, errors>>

NoJob == [env |-> <<>>, hideFromLogs |-> {}]

ConfigInit ==
  /\ \E f \in Inputs :
       /\ commit \in f.commits
       /\ globalSecrets \in f.globalSecrets
       /\ collection \in f.repoSecrets
       /\ edits = f.edits
       /\ plainConfig \in f.texts
       /\ configEnv \in [config : f.env, job : f.env]
       /\ image \in BOOLEAN
       /\ \E names \in SUBSET f.names : jobs \in [names -> f.dependencies]
       /\ imageless \in f.imageless
  /\ step = "find"
  /\ repoSecrets = <<>>
  /\ secrets = <<>>
  /\ config = <<>>
  /\ errors = {}
  /\ job = NoJob

Candidates == globalSecrets \o repoSecrets

SecretNames(list) == {list[i].name : i \in DOMAIN list}

ConfigTypeOK ==
  /\ ParsedType
  /\ collection \in Seq(Secret) /\ repoSecrets \in Seq(Secret)
  /\ step \in {"find", "prepare", "replace", "static", "image", "exists", "cyclic", "jobs",
             "done", "failed"}
  /\ DOMAIN secrets \subseteq SecretNames(Candidates)
  /\ \A i \in DOMAIN config : config[i].token \in {"slash", "other", "marker", "value"}
  /\ DOMAIN job.env \subseteq Name

-----------------------------------------------------------------------------
(* The secrets of the repository change at any time; the database keeps    *)
(* their names apart.                                                      *)

Edit(list) ==
  /\ edits > 0
  /\ edits' = edits - 1
  /\ collection' = list
  /\ UNCHANGED <<given, results, parsed, step, errors>>

AddSecret(s) ==
  /\ s.name \notin SecretNames(collection)
  /\ Edit(Append(collection, s))

UpdateSecret(i, s) ==
  /\ s.name = collection[i].name \/ s.name \notin SecretNames(collection)
  /\ Edit(ReplaceAt(collection, i, s))

RemoveSecret(i) == Edit(RemoveAt(collection, i))

EditSecrets ==
  \/ \E s \in NewSecret : AddSecret(s)
  \/ \E i \in DOMAIN collection : RemoveSecret(i) \/ \E s \in NewSecret : UpdateSecret(i, s)

-----------------------------------------------------------------------------
\* Broken: a secret with branches is available on all of them.
AdmitsAnyBranch(s) == commit.protectedBranch \/ ~s.protectedBranchesOnly

Admits(s) ==
  /\ commit.protectedBranch \/ ~s.protectedBranchesOnly
  /\ s.branches = {} \/ commit.branch \in s.branches

Usable == {i \in DOMAIN Candidates : Admits(Candidates[i])}

\* Broken: the first secret with a name wins, a global one over a repository's.
ToEnvFirst(usable) ==
  [n \in {Candidates[i].name : i \in usable} |->
     Candidates[CHOOSE i \in usable :
       /\ Candidates[i].name = n
       /\ \A k \in usable : Candidates[k].name = n => i <= k].value]

\* convertSecretsToEnv: of the secrets with the same name, the last one wins.
ToEnv(usable) ==
  [n \in {Candidates[i].name : i \in usable} |->
     Candidates[CHOOSE i \in usable :
       /\ Candidates[i].name = n
       /\ \A k \in usable : Candidates[k].name = n => k <= i].value]

FindSecrets ==
  /\ step = "find"
  /\ repoSecrets' = collection
  /\ step' = "prepare"
  /\ UNCHANGED <<given, database, secrets, config, job, parsed, errors>>

PrepareSecrets ==
  /\ step = "prepare"
  /\ secrets' = ToEnv(Usable)
  /\ step' = "replace"
  /\ UNCHANGED <<given, database, repoSecrets, config, job, parsed, errors>>

Slashes(n) == [i \in 1..n |-> Slash]

\* Broken: any number of backslashes escapes a marker.
ReadMarkerAnySlash(acc, name) ==
  IF acc.pending > 0
  THEN [acc EXCEPT !.pending = 0, !.out = @ \o Slashes(acc.pending - 1) \o <<Marker(name)>>]
  ELSE [acc EXCEPT !.out = @ \o (IF name \in DOMAIN secrets THEN <<Plain(secrets[name])>> ELSE <<>>),
                   !.missing = @ \/ name \notin DOMAIN secrets]

ReadMarker(acc, name) ==
  IF acc.pending % 2 # 0
  THEN [acc EXCEPT !.pending = 0, !.out = @ \o Slashes(acc.pending - 1) \o <<Marker(name)>>]
  ELSE [pending |-> 0,
        out |-> acc.out \o Slashes(acc.pending) \o
                  (IF name \in DOMAIN secrets THEN <<Plain(secrets[name])>> ELSE <<>>),
        missing |-> acc.missing \/ name \notin DOMAIN secrets]

Read(acc, t) ==
  CASE t.token = "slash" -> [acc EXCEPT !.pending = @ + 1]
    [] t.token = "other" ->
         [acc EXCEPT !.pending = 0, !.out = @ \o Slashes(acc.pending) \o <<Other>>]
    [] t.token = "marker" -> ReadMarker(acc, t.name)

\* What is read after so many tokens of the text.
Reading[i \in 0..Len(plainConfig)] ==
  IF i = 0 THEN [pending |-> 0, out |-> <<>>, missing |-> FALSE]
  ELSE Read(Reading[i - 1], plainConfig[i])

Replaced ==
  LET end == Reading[Len(plainConfig)]
  IN [missing |-> end.missing, out |-> end.out \o Slashes(end.pending)]

\* A marker without a secret is an error, and the pipeline gets it.
ReplaceSecrets ==
  /\ step = "replace"
  /\ IF Replaced.missing
     THEN step' = "failed" /\ UNCHANGED config
     ELSE step' = "static" /\ config' = Replaced.out
  /\ UNCHANGED <<given, database, repoSecrets, secrets, job, parsed, errors>>

\* {...f, ...g}
Spread(f, g) == [n \in (DOMAIN f) \cup (DOMAIN g) |-> IF n \in DOMAIN g THEN g[n] ELSE f[n]]

\* The environment of a job: the spreads of initPipelineJobs in their order.  The
\* values of a config or a job are text, replaced or not, and are told apart from
\* secrets and from what the server provides.
EnvOf(names, value) == [n \in names |-> value]

JobEnv ==
  LET ofConfig == Spread(secrets, EnvOf(configEnv.config, "config"))
      ofJob == Spread(ofConfig, EnvOf(configEnv.job, "job"))
  IN Spread(ofJob, EnvOf(SystemName, "system"))

HideFromLogs == {secrets[n] : n \in DOMAIN secrets}

InitPipelineJobs ==
  /\ step = "jobs"
  /\ job' = [env |-> JobEnv, hideFromLogs |-> HideFromLogs]
  /\ step' = "done"
  /\ UNCHANGED <<given, database, repoSecrets, secrets, config, parsed, errors>>

ConfigNext ==
  \/ EditSecrets
  \/ FindSecrets \/ PrepareSecrets \/ ReplaceSecrets
  \/ ValidateConfig /\ UNCHANGED <<given, database, results>>
  \/ InitPipelineJobs

ConfigSpec == ConfigInit /\ [][ConfigNext]_configVars

-----------------------------------------------------------------------------
(* Properties.                                                             *)

\* The values a job can see, in its script or its environment.
Values ==
  {config[i].value : i \in {k \in DOMAIN config : config[k].token = "value"}}
    \cup {job.env[n] : n \in DOMAIN job.env}

Provided == {"system", "job", "config"}

\* What a job sees is the value of a secret that admits the branch of its
\* pipeline: protected secrets stay on protected branches, and those with
\* branches on theirs (prepareSecrets).
SecretsStayProtected ==
  \A v \in Values \ Provided :
    \E s \in ToSet(Candidates) :
      /\ s.value = v
      /\ s.protectedBranchesOnly => commit.protectedBranch
      /\ s.branches # {} => commit.branch \in s.branches

\* The state invariant: the variables are well typed, and a config that gets
\* jobs can be run.
ConfigInv == ConfigTypeOK /\ AcceptedCanRun

\* A repository's secret that the pipeline may use replaces the global ones
\* with its name; one that it may not use leaves them visible.
RepoSecretsWin ==
  step = "done" =>
    \A s \in ToSet(repoSecrets) : Admits(s) => secrets[s.name] = s.value

\* What replaceSecrets does, and its tests expect, position by position: the marker after an odd
\* number of backslashes stays and the last of them goes, any other marker
\* becomes its secret, and nothing else changes; the pipeline fails exactly for a
\* marker, not escaped, that names no secret it may use.
SlashesBefore(i) ==
  Cardinality({k \in 1..(i - 1) : \A m \in k..(i - 1) : plainConfig[m] = Slash})
Escaped(i) == plainConfig[i].token = "marker" /\ SlashesBefore(i) % 2 = 1
Image(i) ==
  IF plainConfig[i].token = "marker" /\ ~Escaped(i)
  THEN <<Plain(secrets[plainConfig[i].name])>>
  ELSE IF i < Len(plainConfig) /\ Escaped(i + 1) THEN <<>> ELSE <<plainConfig[i]>>
Unknown(i) ==
  /\ plainConfig[i].token = "marker" /\ ~Escaped(i)
  /\ \A s \in ToSet(Candidates) : s.name = plainConfig[i].name => ~Admits(s)
ReplacedExactly ==
  step \notin {"find", "prepare", "replace"} =>
    IF \E i \in DOMAIN plainConfig : Unknown(i)
    THEN step = "failed" /\ errors = {}
    ELSE config = FlattenSeq([i \in DOMAIN plainConfig |-> Image(i)])

\* What is to become of a marker after up to three backslashes.
Commented(n, name) ==
  CASE n = 0 -> <<Plain(secrets[name])>>
    [] n = 1 -> <<Slash, Marker(name)>>
    [] n = 2 -> <<Slash, Plain(secrets[name])>>
    [] n = 3 -> <<Slash, Slash, Marker(name)>>

\* The comment above the tests of replaceSecrets (replace-secrets.spec.ts:7-10):
\* an escaped marker keeps the single backslash, and of two before a secret one
\* is left.
EscapedAsCommented ==
  \A n \in 0..3, name \in DOMAIN secrets :
    step = "static" /\ plainConfig = Slashes(n) \o <<Marker(name)>>
      => config = Commented(n, name)
=============================================================================
