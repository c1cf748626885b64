------------------------------- MODULE CiConfig -------------------------------
(***************************************************************************)
(* The validation of a CI config (validateConfig): the static checks, then *)
(* the images, the existence of dependencies and the search for cycles.    *)
(* Its jobs list their dependencies in an order, which the search depends  *)
(* on.  ConfigProcessing says where the config comes from and what happens *)
(* to one that passes.                                                     *)
(***************************************************************************)
EXTENDS Naturals, Sequences, FiniteSets, SequencesExt

CONSTANTS
  Job,           \* names of jobs
  CloneNames,    \* those that contain `clone`
  MaxJobs        \* METROLINE_MAX_JOBS_PER_PIPELINE

ASSUME ConfigAssumption ==
  /\ CloneNames \subseteq Job
  /\ MaxJobs \in Nat \ {0}

VARIABLES
  image,         \* whether the config has a global image
  jobs,          \* the dependencies of each job of the config
  imageless,     \* the jobs that declare no image
  step,          \* the step of processCiConfig that comes next
  errors         \* the errors so far

parsed == <<image, jobs, imageless>>

\* An error names the job it is about, or all of them, and those it mentions.
Error == [check : {"static", "image", "exists", "cyclic"}, job : Job \cup {"jobs"}, path : Seq(Job)]

ParsedType ==
  /\ image \in BOOLEAN
  /\ DOMAIN jobs \subseteq Job /\ \A j \in DOMAIN jobs : jobs[j] \in Seq(Job)
  /\ imageless \subseteq Job
  /\ errors \subseteq Error

-----------------------------------------------------------------------------
Names == DOMAIN jobs

\* The joi schema: the number of jobs and their names; its errors are final.
WrongNumber == IF Cardinality(Names) \in 1..MaxJobs THEN {} ELSE {"jobs"}

StaticErrors ==
  {[check |-> "static", job |-> j, path |-> <<>>] :
     j \in (Names \cap CloneNames) \cup WrongNumber}

CheckStatic ==
  /\ step = "static"
  /\ errors' = StaticErrors
  /\ step' = IF errors' # {} THEN "failed" ELSE "image"
  /\ UNCHANGED parsed

CheckJobsHaveImageOrGlobalImage ==
  /\ step = "image"
  /\ errors' = errors \cup IF image THEN {} ELSE
       {[check |-> "image", job |-> j, path |-> <<>>] : j \in Names \cap imageless}
  /\ step' = "exists"
  /\ UNCHANGED parsed

\* Broken: only the first dependency of a job is looked at.
MissingFirst(j) ==
  {d \in Job : jobs[j] # <<>> /\ d = Head(jobs[j])} \ Names

Missing(j) == ToSet(jobs[j]) \ Names

CheckDepsExist ==
  /\ step = "exists"
  /\ errors' = errors \cup
       UNION {{[check |-> "exists", job |-> j, path |-> <<d>>] : d \in Missing(j)} : j \in Names}
  /\ step' = "cyclic"
  /\ UNCHANGED parsed

\* The depth-first search from the dependencies that are left of a job, below
\* depChain.  The list being walked is pushed to depChain, so a dependency that
\* follows sees those that precede it, and what is below it starts from a copy of
\* that chain.
Calls == Seq(Job) \X Seq(Job)

Dependencies(dep) == IF dep \in Names THEN jobs[dep] ELSE <<>>

Walk[call \in Calls] ==
  LET deps == call[1]
      depChain == call[2]
      dep == Head(deps)
      chain == Append(depChain, dep)
  IN IF deps = <<>> THEN {}
     ELSE IF dep \in ToSet(depChain) THEN {chain} \cup Walk[<<Tail(deps), depChain>>]
     ELSE Walk[<<Dependencies(dep), chain>>] \cup Walk[<<Tail(deps), chain>>]

\* Broken: only the first dependency of each list is followed.
WalkFirst[call \in Calls] ==
  LET deps == call[1]
      dep == Head(deps)
      chain == Append(call[2], dep)
  IN IF deps = <<>> THEN {}
     ELSE IF dep \in ToSet(call[2]) THEN {chain}
     ELSE WalkFirst[<<Dependencies(dep), chain>>]
CyclesOfFirst(j) == WalkFirst[<<jobs[j], <<j>>>>]

Cycles(j) == Walk[<<jobs[j], <<j>>>>]

CheckNoCyclicDeps ==
  /\ step = "cyclic"
  /\ errors' = errors \cup
       UNION {{[check |-> "cyclic", job |-> j, path |-> p] : p \in Cycles(j)} : j \in Names}
  /\ step' = IF errors' # {} THEN "failed" ELSE "jobs"
  /\ UNCHANGED parsed

ValidateConfig ==
  \/ CheckStatic \/ CheckJobsHaveImageOrGlobalImage \/ CheckDepsExist
  \/ CheckNoCyclicDeps

-----------------------------------------------------------------------------
(* Properties.                                                             *)

Accepted == step \in {"jobs", "done"}

\* Among any jobs, one depends on none of them: what PipelineProgress assumes.
Acyclic ==
  \A S \in SUBSET Names : S # {} => \E j \in S : ToSet(jobs[j]) \cap S = {}

\* A config that is accepted can be run: its dependencies are jobs of its own
\* and are acyclic, no job passes for the clone job, and all have an image
\* (validateConfig).
AcceptedCanRun ==
  Accepted =>
    /\ \A j \in Names : ToSet(jobs[j]) \subseteq Names
    /\ Acyclic
    /\ Names \cap CloneNames = {}
    /\ image \/ Names \cap imageless = {}
    /\ Cardinality(Names) \in 1..MaxJobs

\* A cyclic dependency is reported for each job on the cycle, not only where
\* the search happens to meet it first.
Deps(j) == ToSet(jobs[j]) \cap Names
OnCycle(j) ==
  \A S \in SUBSET Names :
    (Deps(j) \subseteq S /\ \A k \in S : Deps(k) \subseteq S) => j \in S
Validated == errors # {} /\ step = "failed" /\ \A e \in errors : e.check # "static"
CyclesReported ==
  Accepted \/ Validated =>
    \A j \in Names : OnCycle(j) => \E e \in errors : e.check = "cyclic" /\ e.job = j
=============================================================================
