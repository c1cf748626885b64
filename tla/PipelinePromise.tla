--------------------------- MODULE PipelinePromise ---------------------------
(***************************************************************************)
(* What the server promises of a pipeline, to runners, users and the git   *)
(* server: its jobs come in one batch; a job starts, or is skipped, by     *)
(* what all jobs upstream of it have come to; a result is final; a verdict *)
(* on the pipeline is that of all its jobs; and the end comes last.        *)
(***************************************************************************)
EXTENDS Statuses

CONSTANTS
  Job, Clone, Upstream, AllowFailure, GitServer,
  Excluded,    \* the jobs that are not to run on this branch
  Runs         \* the outcomes of the jobs upstream with which a job runs

VARIABLES
  present,     \* the jobs there are
  started,     \* those that a runner was given
  result,      \* of each job, created until it has one
  shown,       \* the status users see
  told,        \* the status the git server has stored
  refused,     \* whether the config was refused
  ended

promise == <<present, started, result, shown, told, refused, ended>>

Init ==
  /\ present = {Clone} /\ started = {}
  /\ result = [j \in Job |-> "created"]
  /\ shown = "created" /\ told = "none"
  /\ refused = FALSE /\ ended = FALSE

Outcome(J) == ComputePipelineStatus(J, result, AllowFailure)

\* No runner has the job, nor has it come to anything.
Waits(j) == j \in present \ started /\ result[j] = "created"

Insert ==
  /\ present = {Clone} /\ result[Clone] # "failure"
  /\ ~refused /\ ~ended
  /\ present' = Job
  /\ result' = [j \in Job |-> IF j \in Excluded THEN "skipped" ELSE result[j]]
  /\ UNCHANGED <<started, shown, told, refused, ended>>

Start(j) ==
  /\ Waits(j) /\ ~ended
  /\ Outcome(Upstream[j]) \in Runs[j]
  /\ started' = started \cup {j}
  /\ UNCHANGED <<present, result, shown, told, refused, ended>>

Skip(j) ==
  /\ Waits(j) /\ ~ended
  /\ Outcome(Upstream[j]) \in FinalStatuses \ Runs[j]
  /\ result' = [result EXCEPT ![j] = "skipped"]
  /\ UNCHANGED <<present, started, shown, told, refused, ended>>

Finish(j) ==
  /\ j \in started /\ result[j] = "created"
  /\ \E s \in {"success", "failure"} : result' = [result EXCEPT ![j] = s]
  /\ UNCHANGED <<present, started, shown, told, refused, ended>>

Refuse ==
  /\ present = {Clone} /\ Clone \in started /\ ~ended
  /\ refused' = TRUE
  /\ UNCHANGED <<present, started, result, shown, told, ended>>

\* Nothing more is to come.
Whole == present = Job \/ result[Clone] = "failure"

Verdict(s) ==
  \/ s = "running"
  \/ s = "failure" /\ refused
  \/ s \in FinalStatuses /\ Whole /\ s = Outcome(present)

Show(s) ==
  /\ Verdict(s)
  /\ shown' = s
  /\ UNCHANGED <<present, started, result, told, refused, ended>>

Tell(s) ==
  /\ Verdict(s)
  /\ told' = CommitState(GitServer, s)
  /\ UNCHANGED <<present, started, result, shown, refused, ended>>

End ==
  /\ \/ refused
     \/ Whole /\ \A j \in present : result[j] # "created"
  /\ ended' = TRUE
  /\ UNCHANGED <<present, started, result, shown, told, refused>>

Next ==
  \/ Insert \/ Refuse \/ End
  \/ \E j \in Job : Start(j) \/ Skip(j) \/ Finish(j)
  \/ \E s \in PipelineStatuses : Show(s) \/ Tell(s)

Spec == Init /\ [][Next]_promise
=============================================================================
