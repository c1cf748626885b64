------------------------------ MODULE RunnerJob ------------------------------
(***************************************************************************)
(* How a runner executes the jobs it has pulled: execJob with its volume,  *)
(* container and script, the cancellation of a job by the server, which    *)
(* may arrive at any moment, and the removal of the workspace when the     *)
(* pipeline has ended.  The jobs are those of one pipeline and share its   *)
(* workspace.  Docker is external: each request to it is one action.       *)
(***************************************************************************)
EXTENDS Naturals, FiniteSets, Functions

CONSTANTS
  Job,
  CloneJobs,     \* those that create the workspace and extract the CI config
  DockerFails,   \* the jobs for which Docker refuses requests, as of no image
  SlowStream,    \* the jobs whose script may end 10 s after their container
  MaxStops,      \* bound: the stop messages of all jobs together
  MaxCleanups    \* bound: the requests to clean the workspace up

ASSUME RunnerAssumption ==
  /\ CloneJobs \subseteq Job
  /\ DockerFails \subseteq Job /\ SlowStream \subseteq Job
  /\ MaxStops \in Nat /\ MaxCleanups \in Nat

VARIABLES
  pc,            \* how far execJob is
  script,        \* the script in the container, and its exit code
  container,     \* the container of each job
  registered,    \* jobContainers: the jobs whose container is known
  jobsToCancel,  \* the jobs to cancel
  timer,         \* the jobs that will be deleted from jobsToCancel
  stops,         \* the stop messages received for each job
  removals,      \* the calls of removeContainer in progress
  last,          \* the status last sent for each job
  ended,         \* the jobs whose end was sent
  workspace,     \* whether the volume exists
  cleanup,       \* how far cleanupWorkspace is
  awaited,       \* the containers it waits for
  cleanups       \* the requests to clean up so far

execVars == <<pc, script, last, ended>>
cancelVars == <<jobsToCancel, timer, stops>>
dockerVars == <<container, registered, removals>>
cleanupVars == <<cleanup, awaited, cleanups>>
vars == <<execVars, cancelVars, dockerVars, workspace, cleanupVars>>

\* removeContainer is called by execJob, by registerJobContainer, or for the
\* n-th stop message.
ByExecJob == 0
ByRegistration == 1
ByStop(n) == n + 1
Removal == [job : Job, by : Nat, at : {"stop", "wait", "remove"}]

TypeOK ==
  /\ pc \in [Job -> {"idle", "volume", "create", "exec", "extract", "done"}]
  /\ script \in [Job -> {"off", "running", "zero", "nonzero"}]
  /\ container \in [Job -> {"none", "created", "running", "stopped", "gone"}]
  /\ registered \subseteq Job /\ jobsToCancel \subseteq Job
  /\ timer \subseteq jobsToCancel
  /\ stops \in [Job -> Nat]
  /\ removals \subseteq Removal
  /\ last \in [Job -> {"none", "running", "success", "failure", "cancelled"}]
  /\ ended \subseteq Job
  /\ workspace \in BOOLEAN
  /\ cleanup \in {"none", "list", "listed", "wait", "timed out", "kept", "removed"}
  /\ awaited \subseteq Job
  /\ cleanups \in 0..MaxCleanups

Init ==
  /\ pc = [j \in Job |-> "idle"]
  /\ script = [j \in Job |-> "off"]
  /\ container = [j \in Job |-> "none"]
  /\ registered = {} /\ jobsToCancel = {} /\ timer = {}
  /\ stops = [j \in Job |-> 0]
  /\ removals = {}
  /\ last = [j \in Job |-> "none"]
  /\ ended = {}
  /\ workspace = FALSE
  /\ cleanup = "none" /\ awaited = {} /\ cleanups = 0

-----------------------------------------------------------------------------
IsCancelled(j) == j \in jobsToCancel

Call(j, by) == [job |-> j, by |-> by, at |-> "stop"]

\* Broken: the container is left to cancelJob in any case.
FinallyKeepsContainer(j) ==
  /\ pc' = [pc EXCEPT ![j] = "done"]
  /\ ended' = ended \cup {j}
  /\ UNCHANGED removals

\* What is left of a job: its end is sent, and unless it was cancelled its
\* container is removed; cancelled jobs leave that to cancelJob.
Finally(j) ==
  /\ pc' = [pc EXCEPT ![j] = "done"]
  /\ ended' = ended \cup {j}
  /\ removals' = IF IsCancelled(j) \/ container[j] = "none"
                 THEN removals ELSE removals \cup {Call(j, ByExecJob)}

\* Broken: the failure of a cancelled job is reported like any other.
FailedAnyway(j) == [last EXCEPT ![j] = "failure"]

\* A failure is only reported when the job was not cancelled.
Failed(j) == IF IsCancelled(j) THEN last ELSE [last EXCEPT ![j] = "failure"]

-----------------------------------------------------------------------------
(* execJob, from one await to the next.                                    *)

Start(j) ==
  /\ pc[j] = "idle"
  /\ IF IsCancelled(j)
     THEN /\ pc' = [pc EXCEPT ![j] = "done"]
          /\ last' = [last EXCEPT ![j] = "cancelled"]
     ELSE /\ pc' = [pc EXCEPT ![j] = "volume"]
          /\ last' = [last EXCEPT ![j] = "running"]
  /\ UNCHANGED <<script, ended, cancelVars, dockerVars, workspace, cleanupVars>>

\* The clone job creates the volume, the others look whether they have it; the
\* job may have been cancelled meanwhile.
CreateVolume(j) ==
  /\ pc[j] = "volume"
  /\ workspace' = (workspace \/ j \in CloneJobs)
  /\ IF IsCancelled(j)
     THEN last' = [last EXCEPT ![j] = "cancelled"] /\ Finally(j)
     ELSE pc' = [pc EXCEPT ![j] = "create"] /\ UNCHANGED <<last, ended, removals>>
  /\ UNCHANGED <<script, container, registered, cancelVars, cleanupVars>>

\* An error here is outside the try block: nothing more is sent.
CreateVolumeFails(j) ==
  /\ j \in DockerFails /\ pc[j] = "volume"
  /\ pc' = [pc EXCEPT ![j] = "done"]
  /\ UNCHANGED <<script, last, ended, cancelVars, dockerVars, workspace, cleanupVars>>

\* createContainer pulls the image, creates the container, and with it a volume
\* that is missing, and starts it.
CreateContainer(j) ==
  /\ pc[j] = "create" /\ container[j] = "none"
  /\ container' = [container EXCEPT ![j] = "created"]
  /\ workspace' = TRUE
  /\ UNCHANGED <<execVars, cancelVars, registered, removals, cleanupVars>>

\* Broken: a container becomes known, but nobody asks if it is to be cancelled.
CancelRegisteredNever(j) == {}

\* registerJobContainer cancels a job that was waiting for its container.
CancelRegistered(j) == IF IsCancelled(j) THEN {Call(j, ByRegistration)} ELSE {}

StartContainer(j) ==
  /\ pc[j] = "create" /\ container[j] = "created"
  /\ container' = [container EXCEPT ![j] = "running"]
  /\ registered' = registered \cup {j}
  /\ removals' = removals \cup CancelRegistered(j)
  /\ script' = [script EXCEPT ![j] = "running"]
  /\ pc' = [pc EXCEPT ![j] = "exec"]
  /\ UNCHANGED <<last, ended, cancelVars, workspace, cleanupVars>>

\* A container that was created but not started stays behind.
CreateContainerFails(j) ==
  /\ j \in DockerFails /\ pc[j] = "create"
  /\ pc' = [pc EXCEPT ![j] = "done"]
  /\ ended' = ended \cup {j}
  /\ last' = Failed(j)
  /\ UNCHANGED <<script, cancelVars, dockerVars, workspace, cleanupVars>>

ScriptEnds(j, code) ==
  /\ script[j] = "running" /\ container[j] = "running"
  /\ script' = [script EXCEPT ![j] = code]
  /\ UNCHANGED <<pc, last, ended, cancelVars, dockerVars, workspace, cleanupVars>>

\* The exit code is read; a container that is gone cannot be asked.
InspectExec(j) ==
  /\ pc[j] = "exec" /\ script[j] \in {"zero", "nonzero"}
  /\ IF script[j] = "zero" /\ container[j] # "gone"
     THEN /\ \/ j \in CloneJobs /\ pc' = [pc EXCEPT ![j] = "extract"]
                /\ UNCHANGED <<last, ended, removals>>
             \/ j \notin CloneJobs /\ last' = [last EXCEPT ![j] = "success"] /\ Finally(j)
     ELSE last' = Failed(j) /\ Finally(j)
  /\ UNCHANGED <<script, container, registered, cancelVars, workspace, cleanupVars>>

\* The files of a stopped container can still be read.
GetFileFromContainer(j) ==
  /\ pc[j] = "extract"
  /\ IF container[j] # "gone" THEN last' = [last EXCEPT ![j] = "success"]
                              ELSE last' = Failed(j)
  /\ Finally(j)
  /\ UNCHANGED <<script, container, registered, cancelVars, workspace, cleanupVars>>

\* The file is missing, or Docker fails.
GetFileFails(j) ==
  /\ pc[j] = "extract"
  /\ last' = Failed(j)
  /\ Finally(j)
  /\ UNCHANGED <<script, container, registered, cancelVars, workspace, cleanupVars>>

-----------------------------------------------------------------------------
(* Cancellation.                                                           *)

\* Broken: the container is only looked for when it becomes known.
RegisterForCancellationOnly(j) ==
  /\ FoldFunction(+, 0, stops) < MaxStops
  /\ stops' = [stops EXCEPT ![j] = @ + 1]
  /\ jobsToCancel' = jobsToCancel \cup {j}
  /\ UNCHANGED <<execVars, timer, container, registered, removals, workspace, cleanupVars>>

\* A stop message: the container, if it is known, is removed at once.  A runner
\* that has reconnected handles each message more than once (runner.ts).
RegisterJobForCancellation(j) ==
  /\ FoldFunction(+, 0, stops) < MaxStops
  /\ stops' = [stops EXCEPT ![j] = @ + 1]
  /\ jobsToCancel' = jobsToCancel \cup {j}
  /\ removals' = IF j \in registered THEN removals \cup {Call(j, ByStop(stops[j] + 1))}
                                     ELSE removals
  /\ UNCHANGED <<execVars, timer, container, registered, workspace, cleanupVars>>

\* The job is forgotten 10 s after its container was removed.
UnregisterFromCancellation(j) ==
  /\ j \in timer
  /\ j \in SlowStream \/ pc[j] = "done"
  /\ timer' = timer \ {j}
  /\ jobsToCancel' = jobsToCancel \ {j}
  /\ UNCHANGED <<execVars, stops, dockerVars, workspace, cleanupVars>>

-----------------------------------------------------------------------------
(* removeContainer: stop, wait, remove.                                    *)

Next3(m, at) == (removals \ {m}) \cup {[m EXCEPT !.at = at]}

\* The script of a container that is stopped is killed.  A container that has
\* just been stopped by another request may be reported as stopped, or not.
StopContainer(m) ==
  /\ m.at = "stop" /\ container[m.job] \in {"running", "stopped"}
  /\ container' = [container EXCEPT ![m.job] = "stopped"]
  /\ script' = [script EXCEPT ![m.job] = IF @ = "running" THEN "nonzero" ELSE @]
  /\ removals' = Next3(m, "wait")
  /\ UNCHANGED <<pc, last, ended, cancelVars, registered, workspace, cleanupVars>>

WaitForContainer(m) ==
  /\ m.at = "wait" /\ container[m.job] = "stopped"
  /\ removals' = Next3(m, "remove")
  /\ UNCHANGED <<execVars, cancelVars, container, registered, workspace, cleanupVars>>

\* The container is removed, and whoever waits for that is told; cancelJob
\* then reports the job as cancelled and sets its timer.
RemoveContainer(m) ==
  /\ m.at = "remove" /\ container[m.job] = "stopped"
  /\ container' = [container EXCEPT ![m.job] = "gone"]
  /\ removals' = removals \ {m}
  /\ awaited' = IF cleanup = "wait" THEN awaited \ {m.job} ELSE awaited
  /\ IF m.by = ByExecJob THEN UNCHANGED <<last, timer>>
     ELSE /\ last' = [last EXCEPT ![m.job] = "cancelled"]
          /\ timer' = timer \cup ({m.job} \cap jobsToCancel)
  /\ UNCHANGED <<pc, script, ended, jobsToCancel, stops, registered, workspace,
                 cleanup, cleanups>>

\* The container is not in the state the request expects, or Docker fails.
RemovalFails(m) ==
  /\ \/ m.at = "stop" /\ container[m.job] # "running"
     \/ m.at # "stop" /\ container[m.job] = "gone"
     \/ m.job \in DockerFails
  /\ removals' = removals \ {m}
  /\ UNCHANGED <<execVars, cancelVars, container, registered, workspace, cleanupVars>>

-----------------------------------------------------------------------------
(* cleanupWorkspace.                                                       *)

\* The server asks for it when the pipeline ends: each job has a final status,
\* or none, because it was cancelled or skipped before it started.
CleanupWorkspace ==
  /\ cleanup \in {"none", "timed out", "kept", "removed"} /\ cleanups < MaxCleanups
  /\ workspace
  /\ \A j \in Job : pc[j] = "idle" \/ last[j] \in {"success", "failure", "cancelled"}
  /\ cleanup' = "list"
  /\ cleanups' = cleanups + 1
  /\ UNCHANGED <<execVars, cancelVars, dockerVars, workspace, awaited>>

\* Docker lists the containers that run.
ListContainersThatUseVolume ==
  /\ cleanup = "list"
  /\ awaited' = {j \in Job : container[j] = "running"}
  /\ cleanup' = "listed"
  /\ UNCHANGED <<execVars, cancelVars, dockerVars, workspace, cleanups>>

\* From now on the removal of a listed container is noticed.
WaitForContainersToBeRemoved ==
  /\ cleanup = "listed"
  /\ cleanup' = "wait"
  /\ UNCHANGED <<execVars, cancelVars, dockerVars, workspace, awaited, cleanups>>

\* Broken: nobody stops waiting.
TimeoutNever == FALSE /\ UNCHANGED vars

WaitForContainersTimeout ==
  /\ cleanup = "wait" /\ awaited # {}
  /\ cleanup' = "timed out"
  /\ awaited' = {}
  /\ UNCHANGED <<execVars, cancelVars, dockerVars, workspace, cleanups>>

UsesWorkspace(j) == container[j] \in {"created", "running", "stopped"}

\* Docker keeps a volume that a container uses.
RemoveVolume ==
  /\ cleanup = "wait" /\ awaited = {}
  /\ IF \E j \in Job : UsesWorkspace(j)
     THEN cleanup' = "kept" /\ UNCHANGED workspace
     ELSE cleanup' = "removed" /\ workspace' = FALSE
  /\ UNCHANGED <<execVars, cancelVars, dockerVars, awaited, cleanups>>

-----------------------------------------------------------------------------
ExecStep(j) ==
  \/ Start(j) \/ CreateVolume(j) \/ CreateVolumeFails(j)
  \/ CreateContainer(j) \/ StartContainer(j) \/ CreateContainerFails(j)
  \/ ScriptEnds(j, "zero") \/ ScriptEnds(j, "nonzero")
  \/ InspectExec(j) \/ GetFileFromContainer(j) \/ GetFileFails(j)

RemovalStep ==
  \E m \in removals : \/ StopContainer(m) \/ WaitForContainer(m)
                      \/ RemoveContainer(m) \/ RemovalFails(m)

CancelStep ==
  \E j \in Job : RegisterJobForCancellation(j) \/ UnregisterFromCancellation(j)

CleanupStep ==
  \/ ListContainersThatUseVolume \/ WaitForContainersToBeRemoved
  \/ WaitForContainersTimeout \/ RemoveVolume

Next ==
  \/ \E j \in Job : ExecStep(j)
  \/ RemovalStep \/ CancelStep \/ CleanupWorkspace \/ CleanupStep

Spec == Init /\ [][Next]_vars

\* Docker answers, scripts end, and the event loop runs every continuation;
\* each of these steps happens a bounded number of times, so that none of
\* them can be put off for ever by the others.
FairSpec ==
  Spec /\ WF_vars((\E j \in Job : ExecStep(j)) \/ RemovalStep \/ CleanupStep)

-----------------------------------------------------------------------------
(* Properties.                                                             *)

\* As long as Docker does what it is asked, no container is left behind,
\* whoever of execJob and cancelJob removes it, or both at once.
Settled(j) == pc[j] = "done" /\ ~ \E m \in removals : m.job = j
NoContainerLeft ==
  \A j \in Job \ DockerFails : Settled(j) => container[j] \in {"none", "gone"}

\* As long as Docker does what it is asked, a job whose end was sent has a
\* final status once its removal is over: a failure kept back because of a
\* cancellation is made up for by `cancelled`.
EndedHasStatus ==
  \A j \in ended \ DockerFails :
    Settled(j) => last[j] \in {"success", "failure", "cancelled"}

\* The state invariant: the variables are well typed, no container is left,
\* and no job that has ended is without a status.
RunnerInv == TypeOK /\ NoContainerLeft /\ EndedHasStatus

\* execJob and cancelJob keep the promise of JobReports, although they run side
\* by side and each sends statuses of its own: one result, `cancelled` only
\* for what the server asked to stop, and nothing after it, unless the script
\* ends more than 10 s after its container (setTimeout in cancelJob).
Reports ==
  INSTANCE JobReports WITH Late <- SlowStream, sent <- last,
                           asked <- {j \in Job : stops[j] > 0}
ImplementsReports == Reports!Spec

\* The promise of execJob is settled: pullJob counts the job no more.
SlotFree(j) ==
  pc[j] = "done" /\ ~ \E m \in removals : m.job = j /\ m.by = ByExecJob

\* Every job the runner takes on reports a final status, whenever it is
\* cancelled, as long as Docker does what it is asked; and frees its slot in
\* any case, also when Docker fails where execJob does not catch it.
EveryJobReports ==
  \A j \in Job :
    (pc[j] # "idle") ~>
      (/\ SlotFree(j)
       /\ j \notin DockerFails => last[j] \in {"success", "failure", "cancelled"})

\* A clean-up comes to an end, although a container may be removed before
\* its removal is listened for.
CleanupEnds == (cleanup = "wait") ~> (cleanup \in {"timed out", "kept", "removed"})
=============================================================================
