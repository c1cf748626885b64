------------------------- MODULE MCConfigProcessing -------------------------
(* Inputs for ConfigProcessing: secrets that change twice with few texts,  *)
(* every text up to a length with a secret that does not change, and one   *)
(* text with every config of up to four jobs.                              *)
EXTENDS ConfigProcessing

CONSTANTS build, lint, test, deploy, cloneAll, TextLength

Texts == UNION {[1..n -> {Slash, Other, Marker("TOKEN"), Marker("KEY")}] : n \in 0..TextLength}
FewTexts == {<<Marker("TOKEN")>>, <<Marker("KEY"), Slash, Marker("TOKEN")>>}

Secret1(n, v, p, b) == [name |-> n, value |-> v, protectedBranchesOnly |-> p, branches |-> b]

Some(n, v) == {Secret1(n, v, p, b) : p \in BOOLEAN, b \in {{}, {"main"}, {"dev"}}}

OneToken == {<<Secret1("TOKEN", "r", FALSE, {})>>}
Globals == {<<>>} \cup {<<s, Secret1("KEY", "g3", FALSE, {})>> : s \in Some("TOKEN", "g1")}
NewSecrets == Some("TOKEN", "r1") \cup {Secret1("SYSTEM", "r2", p, {}) : p \in BOOLEAN}

AnyCommit == [branch : Branch, protectedBranch : BOOLEAN]
OneJob == [names |-> {build}, dependencies |-> {<<>>}, imageless |-> {{}}]

\* Lists of up to two dependencies.
Distinct(S) == {deps \in {<<>>} \cup [1..1 -> S] \cup [1..2 -> S] : IsInjective(deps)}

ManySecrets ==
  [commits |-> AnyCommit, globalSecrets |-> Globals, repoSecrets |-> {<<>>}, edits |-> 2,
   texts |-> FewTexts, env |-> {{}, {"TOKEN", "SYSTEM"}}] @@ OneJob
EveryText ==
  [commits |-> AnyCommit, globalSecrets |-> {<<>>}, repoSecrets |-> OneToken, edits |-> 0,
   texts |-> Texts, env |-> {{}}] @@ OneJob
NoText ==
  [commits |-> [branch : {"main"}, protectedBranch : {TRUE}],
   globalSecrets |-> {<<>>}, repoSecrets |-> {<<>>}, edits |-> 0, texts |-> {<<>>}, env |-> {{}}]
EveryGraph ==
  [names |-> Job \ {cloneAll}, dependencies |-> Distinct(Job \ {cloneAll}),
   imageless |-> {{}}] @@ NoText
SomeJobs ==
  [names |-> {build, lint, cloneAll}, dependencies |-> Distinct({build, test, cloneAll}),
   imageless |-> {{}, {build}}] @@ NoText
TooManyJobs == [names |-> Job, dependencies |-> {<<>>}, imageless |-> {{}}] @@ NoText

Escapes == {EveryText}
Families == {ManySecrets, EveryText, EveryGraph, SomeJobs, TooManyJobs}
=============================================================================
