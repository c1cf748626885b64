---------------------------- MODULE JobAssignment ----------------------------
(***************************************************************************)
(* What the job queue promises, whatever runners, connections and timeouts *)
(* do: a job is handed out at most once, never after it has been           *)
(* cancelled, and only the runner it was handed out to executes it, once.  *)
(***************************************************************************)
CONSTANTS
  Job,
  Runner,
  Nobody     \* the holder of a job that was not handed out: not in Runner

VARIABLES
  holder,    \* the runner each job was handed out to
  barred,    \* the jobs that may not be handed out any more
  begun      \* the executions begun: pairs of a runner and a job

assignmentVars == <<holder, barred, begun>>

Init ==
  /\ holder = [j \in Job |-> Nobody]
  /\ barred = {}
  /\ begun = {}

HandOut(j, r) ==
  /\ holder[j] = Nobody
  /\ j \notin barred
  /\ holder' = [holder EXCEPT ![j] = r]
  /\ UNCHANGED <<barred, begun>>

Bar(S) ==
  /\ barred' = barred \cup S
  /\ UNCHANGED <<holder, begun>>

Begin(j, r) ==
  /\ holder[j] = r
  /\ \A s \in Runner : <<s, j>> \notin begun
  /\ begun' = begun \cup {<<r, j>>}
  /\ UNCHANGED <<holder, barred>>

Next ==
  \/ \E j \in Job, r \in Runner : HandOut(j, r) \/ Begin(j, r)
  \/ \E S \in SUBSET Job : Bar(S)

Spec == Init /\ [][Next]_assignmentVars
=============================================================================
