------------------------------ MODULE Statuses ------------------------------
(***************************************************************************)
(* The statuses of jobs and pipelines and the pure functions that decide   *)
(* on them: which statuses are final, the status a set of jobs adds up to, *)
(* and whether a job's `when` conditions let it run.                       *)
(***************************************************************************)

JobStatuses ==
  {"created", "running", "success", "failure", "skipped", "cancelled"}

PipelineStatuses == JobStatuses \cup {"partial", "unknown"}

FinalStatuses == {"skipped", "success", "failure", "cancelled", "partial"}

IsFinalStatus(s) == s \in FinalStatuses

-----------------------------------------------------------------------------
\* Broken: a failure never counts.
ComputeForgivingFailure(J, st, allow) ==
  LET Some(S) == \E j \in J : st[j] \in S
  IN  IF Some({"cancelled"}) THEN "cancelled"
      ELSE IF Some({"running", "created"}) THEN "running"
      ELSE IF Some({"failure"}) THEN "partial"
      ELSE IF Some({"success"}) THEN "success"
      ELSE "skipped"

-----------------------------------------------------------------------------
(* The status a set of jobs J adds up to, where st[j] is the status of job *)
(* j and allow is the set of the jobs that declare allowFailure.  The      *)
(* first condition that holds decides.                                     *)
ComputePipelineStatus(J, st, allow) ==
  LET Some(S) == \E j \in J : st[j] \in S
      All(S)  == \A j \in J : st[j] \in S
  IN  IF Some({"cancelled"}) THEN "cancelled"
      ELSE IF Some({"running", "created"}) THEN "running"
      ELSE IF \E j \in J \ allow : st[j] = "failure" THEN "failure"
      ELSE IF Some({"failure"}) THEN "partial"
      ELSE IF All({"skipped"}) THEN "skipped"
      ELSE IF All({"success", "skipped"}) THEN "success"
      ELSE "unknown"

-----------------------------------------------------------------------------
(* A condition lists patterns, either to include or to exclude; a pattern  *)
(* is modelled by the set of values it matches.  A plain list of patterns  *)
(* and a missing condition are read as an include condition.               *)
Condition(V) == [kind : {"include", "exclude"}, patterns : SUBSET SUBSET V]

Always == [kind |-> "include", patterns |-> {}]

Selects(cond, v) ==
  IF cond.kind = "include" THEN \E p \in cond.patterns : v \in p
                           ELSE \A p \in cond.patterns : v \notin p

CanExecWhenStatus(upstream, cond) ==
  IF cond.patterns = {} THEN upstream # "failure" ELSE Selects(cond, upstream)

CanExecWhenBranch(branch, cond) ==
  cond.patterns = {} \/ Selects(cond, branch)

-----------------------------------------------------------------------------
(* The commit state each git server stores for the status of a pipeline.   *)
GitServers == {"gitea", "gitlab", "github"}

CommitStates ==
  {"pending", "running", "success", "failure", "error", "warning",
   "canceled", "failed"}

GiteaState(s) ==
  CASE s \in {"created", "running"} -> "pending"
    [] s \in {"success", "failure"} -> s
    [] s = "partial" -> "error"
    [] OTHER -> "warning"

GitlabState(s) ==
  CASE s = "created" -> "pending"
    [] s = "running" -> "running"
    [] s \in {"success", "partial"} -> "success"
    [] s \in {"skipped", "cancelled"} -> "canceled"
    [] OTHER -> "failed"

GithubState(s) ==
  CASE s \in {"created", "running"} -> "pending"
    [] s \in {"success", "failure"} -> s
    [] OTHER -> "error"

CommitState(server, s) ==
  CASE server = "gitea"  -> GiteaState(s)
    [] server = "gitlab" -> GitlabState(s)
    [] OTHER             -> GithubState(s)
=============================================================================
