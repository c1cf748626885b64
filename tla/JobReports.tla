----------------------------- MODULE JobReports -----------------------------
(***************************************************************************)
(* What a runner promises the server about the jobs it executes: the       *)
(* statuses it sends for each, in order, and the end.  The server relies   *)
(* on it in setJobStatus, and cancelPipeline when it leaves the jobs that  *)
(* have a runner to that runner.                                           *)
(***************************************************************************)
CONSTANTS
  Job,
  Late          \* the jobs whose script may end long after they were stopped

VARIABLES
  asked,        \* the jobs the server has asked to stop
  sent,         \* the status last sent for each job
  ended         \* the jobs whose end was sent

reports == <<asked, sent, ended>>

Final == {"success", "failure", "cancelled"}

Init ==
  /\ asked = {} /\ ended = {}
  /\ sent = [j \in Job |-> "none"]

Send(j, s) == sent' = [sent EXCEPT ![j] = s]

Ask(j) == asked' = asked \cup {j} /\ UNCHANGED <<sent, ended>>

Begin(j) ==
  /\ sent[j] = "none" /\ j \notin ended
  /\ Send(j, "running")
  /\ UNCHANGED <<asked, ended>>

\* The script's own result is sent once, with the end, and never after
\* `cancelled`, unless the script ends late.
Finish(j) ==
  /\ j \notin ended
  /\ \/ sent[j] = "running" /\ \E s \in {"success", "failure"} : Send(j, s)
     \/ sent[j] = "cancelled" /\ j \in Late /\ Send(j, "failure")
  /\ ended' = ended \cup {j}
  /\ UNCHANGED asked

\* A job that was asked to stop may end without a result.
EndStopped(j) ==
  /\ j \in asked /\ sent[j] \in {"running", "cancelled"}
  /\ ended' = ended \cup {j}
  /\ sent' \in {sent, [sent EXCEPT ![j] = "cancelled"]}
  /\ UNCHANGED asked

\* Only what the server asked to stop is cancelled, even after its result.
Cancel(j) ==
  /\ j \in asked
  /\ Send(j, "cancelled")
  /\ UNCHANGED <<asked, ended>>

Next ==
  \E j \in Job : Ask(j) \/ Begin(j) \/ Finish(j) \/ EndStopped(j) \/ Cancel(j)

Spec == Init /\ [][Next]_reports
=============================================================================
