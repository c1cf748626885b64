--------------------------- MODULE PipelineCancel ---------------------------
(***************************************************************************)
(* Cancelling a pipeline while it advances.                                *)
(*                                                                         *)
(* cancelPipeline marks the jobs so that no runner can lock them, asks the *)
(* runners to stop theirs, sets the status of the others, and marks the    *)
(* pipeline last.  Each step waits for the database, so runners pull and   *)
(* report, and the config jobs may be inserted, between any two of them.   *)
(* Everything else is PipelineProgress.                                    *)
(*                                                                         *)
(* What goes wrong besides is the scenario, one to each behaviour:         *)
(*   steady    nothing: users cancel once the config jobs are there        *)
(*   early     they cancel before; as a bound, nothing else fails and no   *)
(*             config job begins while the request is served               *)
(*   restart   nobody cancels; the server stops once, at any time, and     *)
(*             starts again                                                *)
(*   lost      nobody cancels; answers to pulls and what runners report    *)
(*             are lost                                                    *)
(*   disorder  nobody cancels; two statuses of one job are written in      *)
(*             either order                                                *)
(*   refusal   nobody cancels; the database refuses the config jobs        *)
(* As a bound, jobs only time out in the scenarios restart and lost.       *)
(***************************************************************************)
EXTENDS PipelineProgress

CONSTANTS
  Scenarios,      \* the scenarios to consider
  MaxRequests,    \* bound: the requests to cancel
  MaxOrderly      \* bound: MaxCalls where statuses are written in order

ASSUME CancelAssumption ==
  /\ Scenarios \subseteq {"steady", "early", "restart", "lost", "disorder", "refusal"}
  /\ MaxRequests \in Nat /\ MaxOrderly \in 0..MaxCalls
  /\ "disorder" \in Scenarios => ~StatusInOrder

VARIABLES
  cancelling,   \* how far cancelPipeline is
  parts,        \* what it still has to begin of its two parallel parts
  requests,     \* the requests to cancel so far
  cancelledAt,  \* the jobs with a cancelledAt
  marked,       \* whether the pipeline has a cancelledAt
  delayed,      \* whether addJobs has set its timer
  stopping,     \* the jobs their runner was asked to stop
  jobEnd,       \* whether the runner has sent, the server set, a job's end
  scenario,     \* what goes wrong in this behaviour
  lost,         \* whether a restart or a runner has lost calls or reports
  dropped       \* whether the config was empty, or the git server refused to
                \* hear of its error

historyVars == <<scenario, lost, dropped>>
cancelVars == <<cancelling, parts, requests, cancelledAt, marked, delayed,
                stopping, jobEnd, historyVars>>
allVars == <<vars, cancelVars>>

CancelTypeOK ==
  /\ TypeOK
  /\ cancelling \in {"no", "prevent", "parts", "failed", "done"}
  /\ parts \subseteq {"stop", "cancel"}
  /\ requests \in 0..MaxRequests
  /\ cancelledAt \subseteq present
  /\ marked \in BOOLEAN /\ delayed \in BOOLEAN
  /\ stopping \subseteq locked
  /\ jobEnd \in [Job -> {"none", "sent", "set"}]
  /\ scenario \in Scenarios
  /\ lost \in BOOLEAN /\ dropped \in BOOLEAN

CancelInit ==
  /\ Init
  /\ cancelling = "no" /\ parts = {} /\ requests = 0
  /\ cancelledAt = {} /\ marked = FALSE /\ delayed = FALSE
  /\ stopping = {}
  /\ jobEnd = [j \in Job |-> "none"]
  /\ scenario \in Scenarios /\ lost = FALSE /\ dropped = FALSE

-----------------------------------------------------------------------------
\* Broken: jobs are marked as cancelled, but no status is set.
CancelNonRunningJobsNone(source) == {}

\* Broken: the status of every job is set, also of those a runner has.
CancelAllJobs(source) ==
  {SetJobStatus(j, "cancelled", <<source>>) : j \in {i \in present : status[i] # "skipped"}}

\* Broken: a lock does not look at the cancellation.
PreventedNone(j) == FALSE

NothingElseFails == scenario = "early"

-----------------------------------------------------------------------------
(* cancelPipeline.                                                         *)

CancelPipeline ==
  /\ cancelling \in {"no", "failed", "done"} /\ requests < MaxRequests
  /\ CASE scenario = "steady" -> present = Job
       [] scenario = "early" -> present # Job
       [] OTHER -> FALSE
  /\ ~pipeline.end
  /\ cancelling' = "prevent"
  /\ requests' = requests + 1
  /\ UNCHANGED <<vars, parts, cancelledAt, marked, delayed, stopping, jobEnd, historyVars>>

PreventJobsFromBeingRun ==
  /\ cancelling = "prevent"
  /\ cancelledAt' = cancelledAt \cup present
  /\ cancelling' = "parts"
  /\ parts' = {"stop", "cancel"}
  /\ UNCHANGED <<vars, requests, marked, delayed, stopping, jobEnd, historyVars>>

\* Runners are asked to stop what has no end yet; a runner that has been
\* replaced by a new connection is not found.
RunningJobs == {j \in locked : jobEnd[j] # "set"}

StopRunningJobs ==
  /\ "stop" \in parts
  /\ parts' = parts \ {"stop"}
  /\ \E found \in SUBSET RunningJobs :
       /\ NothingElseFails => found = RunningJobs
       /\ stopping' = stopping \cup found
  /\ UNCHANGED <<vars, cancelling, requests, cancelledAt, marked, delayed, jobEnd, historyVars>>

\* The calls that set the jobs without a runner to cancelled.
CancelNonRunningJobs(source) ==
  {SetJobStatus(j, "cancelled", <<source>>) :
     j \in {i \in present \ locked : status[i] # "skipped"}}

CancelJobsWithoutRunner ==
  /\ "cancel" \in parts
  /\ parts' = parts \ {"cancel"}
  /\ handlers' = handlers \cup CancelNonRunningJobs("cancelPipeline")
  /\ UNCHANGED <<jobVars, runVars, pipelineVars, cancelling, requests, cancelledAt,
                 marked, delayed, stopping, jobEnd, historyVars>>

\* cancelPipeline waits for its own calls, not for those they lead to.
Awaited(h) == h.via = <<"cancelPipeline">>

MarkPipelineAsCancelled ==
  /\ cancelling = "parts" /\ parts = {}
  /\ \A h \in handlers : ~Awaited(h)
  /\ marked' = TRUE
  /\ cancelling' = "done"
  /\ UNCHANGED <<vars, parts, requests, cancelledAt, delayed, stopping, jobEnd, historyVars>>

\* When the git server fails one of them, cancelPipeline fails; what it has
\* begun goes on.  As a bound, it only fails calls that somebody waits for:
\* of the others PipelineProgress shows that only the commit state is lost.
CancelFails(h) ==
  /\ ~NothingElseFails /\ (Awaited(h) \/ h.kind = "config")
  /\ GitServerFails(h)
  /\ IF Awaited(h) /\ cancelling = "parts"
     THEN cancelling' = "failed"
     ELSE UNCHANGED cancelling
  /\ dropped' = (dropped \/ h.kind = "config")
  /\ UNCHANGED <<parts, requests, cancelledAt, marked, delayed, stopping, jobEnd,
                 scenario, lost>>

-----------------------------------------------------------------------------
(* addJobs: the config jobs of a pipeline that was cancelled meanwhile.    *)

\* A refused insertion is logged, and processCiConfig goes on without the jobs.
AddConfigJobsOrNot(h) ==
  IF scenario = "refusal"
  THEN h.pc = "insert" /\ handlers' = Goto(h, "read") /\ UNCHANGED <<jobVars, runVars, pipelineVars>>
  ELSE AddConfigJobs(h)

NotifyRunnersUnlessCancelled(h) ==
  /\ NotifyRunners(h)
  /\ delayed' = (delayed \/ marked)
  /\ UNCHANGED <<cancelling, parts, requests, cancelledAt, marked, stopping, jobEnd, historyVars>>

DelayedCancel ==
  /\ delayed
  /\ delayed' = FALSE
  /\ handlers' = handlers \cup CancelNonRunningJobs("addJobs")
  /\ UNCHANGED <<jobVars, runVars, pipelineVars, cancelling, parts, requests,
                 cancelledAt, marked, stopping, jobEnd, historyVars>>

-----------------------------------------------------------------------------
(* The runners.                                                            *)

Prevented(j) == j \in cancelledAt

\* lockJob finds the job cancelled: the runner gets nothing.
PullNothing(j) ==
  /\ j \in listed /\ Prevented(j)
  /\ listed' = listed \ {j}
  /\ UNCHANGED <<jobVars, locked, exec, handlers, pipelineVars, cancelVars>>

\* Nothing but the network and the database decides which of two statuses
\* of a job is written first.
InOrder(j) ==
  scenario # "disorder" =>
    ~ \E h \in handlers : h.kind = "status" /\ h.job = j /\ h.pc = "write"

FewCalls == scenario # "disorder" => Cardinality(handlers) < MaxOrderly

\* The end is reported; cleanJobs may have set one before.
EndSent(j) == IF jobEnd[j] = "set" THEN "set" ELSE "sent"

\* A job that is cancelled before it begins is reported as such, nothing else.
Begin(j) ==
  /\ SendRunning(j)
  /\ j \notin stopping
  /\ NothingElseFails /\ j # Clone => cancelling \notin {"prevent", "parts"}
  /\ UNCHANGED cancelVars

\* The CI config is empty: no config job will come, and no error.
DropConfigFile ==
  /\ SendEmptyConfigFile
  /\ dropped' = TRUE
  /\ UNCHANGED <<cancelling, parts, requests, cancelledAt, marked, delayed, stopping,
                 jobEnd, scenario, lost>>

\* The script ends; the runner keeps a failure to itself once it cancels.
End(j, s) ==
  /\ SendFinalStatus(j, s)
  /\ InOrder(j)
  /\ ~(s = "failure" /\ j \in stopping)
  /\ NothingElseFails => s = "success"
  /\ jobEnd' = [jobEnd EXCEPT ![j] = EndSent(j)]
  /\ UNCHANGED <<cancelling, parts, requests, cancelledAt, marked, delayed, stopping, historyVars>>

\* The container is gone, possibly after the script has ended by itself.
Stoppable(j) == exec[j] # "extracted"

SendCancelled(j) ==
  /\ j \in stopping /\ Stoppable(j)
  /\ InOrder(j) /\ Room
  /\ stopping' = stopping \ {j}
  /\ exec' = [exec EXCEPT ![j] = "done"]
  /\ jobEnd' = [jobEnd EXCEPT ![j] = IF exec[j] = "running" THEN EndSent(j) ELSE @]
  /\ handlers' = handlers \cup {SetJobStatus(j, "cancelled", <<"runner">>)}
  /\ UNCHANGED <<jobVars, listed, locked, pipelineVars, cancelling, parts, requests,
                 cancelledAt, marked, delayed, historyVars>>

\* The job had ended: its container cannot be stopped any more.
StopTooLate(j) ==
  /\ j \in stopping /\ exec[j] = "done"
  /\ stopping' = stopping \ {j}
  /\ UNCHANGED <<vars, cancelling, parts, requests, cancelledAt, marked, delayed, jobEnd, historyVars>>

SetJobEnd(j) ==
  /\ jobEnd[j] = "sent" /\ InOrder(j)
  /\ jobEnd' = [jobEnd EXCEPT ![j] = "set"]
  /\ UNCHANGED <<vars, cancelling, parts, requests, cancelledAt, marked, delayed, stopping, historyVars>>

\* The runner never learns of its job, crashes, is left by Docker before it
\* can catch the error, or its last messages are lost, the end perhaps not.
\* What it has sent before is written by then: nobody could tell earlier.
LoseReports(j) ==
  /\ scenario = "lost" /\ j \in locked /\ InOrder(j)
  /\ exec[j] # "done" \/ jobEnd[j] = "sent"
  /\ lost' = TRUE
  /\ exec' = [exec EXCEPT ![j] = "done"]
  /\ \E arrives \in BOOLEAN :
       /\ arrives => exec[j] # "done"
       /\ jobEnd' = [jobEnd EXCEPT ![j] = IF arrives THEN EndSent(j)
                                          ELSE IF @ = "sent" THEN "none" ELSE @]
  /\ UNCHANGED <<jobVars, listed, locked, handlers, pipelineVars, cancelling, parts,
                 requests, cancelledAt, marked, delayed, stopping, scenario, dropped>>

-----------------------------------------------------------------------------
(* The server stops and starts again.                                      *)

\* The calls and the pulls in progress are gone; the answers to pulls and
\* the messages of runners that are under way may be.
Restart ==
  /\ scenario = "restart" /\ ~lost
  /\ lost' = TRUE
  /\ handlers' = {} /\ ending' = FALSE /\ listed' = {}
  /\ \E orphans \in SUBSET {j \in locked : exec[j] = "idle"} :
       exec' = [j \in Job |-> IF j \in orphans THEN "done" ELSE exec[j]]
  /\ \E unheard \in SUBSET {j \in Job : jobEnd[j] = "sent"} :
       jobEnd' = [j \in Job |-> IF j \in unheard THEN "none" ELSE jobEnd[j]]
  /\ UNCHANGED <<jobVars, locked, pipeline, commit, cancelling, parts, requests,
                 cancelledAt, marked, delayed, stopping, scenario, dropped>>

\* The jobs cleanJobs finds: those of the pipeline that have no end.
Unended == {j \in present : jobEnd[j] # "set" /\ status[j] # "skipped"}

\* The periodic task ends what is left when the timeout has passed since the
\* insertion of the clone job, or since that of the others: jobs that run or
\* wait as well, but never the pipeline.
CleanJobs ==
  /\ scenario \in {"restart", "lost"}
  /\ \E old \in {Unended, Unended \cap {Clone}} :
       /\ old # {}
       /\ status' = [j \in Job |-> IF j \in old THEN "cancelled" ELSE status[j]]
       /\ jobEnd' = [j \in Job |-> IF j \in old THEN "set" ELSE jobEnd[j]]
       /\ cancelledAt' = cancelledAt \cup old
  /\ UNCHANGED <<present, upstream, runVars, handlers, pipelineVars, cancelling,
                 parts, requests, marked, delayed, stopping, historyVars>>

-----------------------------------------------------------------------------
UserStep == CancelPipeline

PullStep(j) ==
  \/ (ListAvailableJobs(j) /\ UNCHANGED cancelVars)
  \/ (LockJob(j) /\ ~Prevented(j) /\ UNCHANGED cancelVars)
  \/ PullNothing(j)

ReportStep ==
  /\ FewCalls
  /\ \/ \E j \in Job : Begin(j) \/ SendCancelled(j)
     \/ SendConfigFile /\ UNCHANGED cancelVars
     \/ DropConfigFile
     \/ \E j \in Job, s \in {"success", "failure"} : End(j, s)

OrdinaryStep(h) ==
  \/ WriteStatus(h) \/ ReadJobs(h) \/ ChildrenUpdated(h) \/ ComputeStatus(h)
  \/ \E e \in h.evals : UpdateDownstreamJob(h, e)
  \/ ReadPipelineStatus(h) \/ WritePipelineStatus(h) \/ SendStatusToGitServer(h)
  \/ FetchCloneJob(h) \/ AddConfigJobsOrNot(h) \/ SetPipelineError(h)

CancelStep ==
  \/ PreventJobsFromBeingRun \/ StopRunningJobs \/ CancelJobsWithoutRunner
  \/ MarkPipelineAsCancelled \/ DelayedCancel
  \/ \E j \in Job : SetJobEnd(j) \/ StopTooLate(j)
  \/ CleanJobs

CallStep ==
  \/ \E h \in handlers :
       \/ OrdinaryStep(h) /\ UNCHANGED cancelVars
       \/ CancelFails(h) \/ NotifyRunnersUnlessCancelled(h)
  \/ SetPipelineEnd /\ UNCHANGED cancelVars

CancelNext ==
  \/ UserStep \/ ReportStep \/ CancelStep \/ CallStep \/ Restart
  \/ \E j \in Job : PullStep(j) \/ LoseReports(j)

CancelSpec == CancelInit /\ [][CancelNext]_allVars

\* The event loop runs every continuation and the periodic task, runners pull
\* at intervals and report, unless they are lost; whether anybody cancels is up to the users.
FairCancelSpec ==
  /\ CancelSpec
  /\ WF_allVars(CancelStep \/ CallStep \/ ReportStep)
  /\ WF_allVars(\E j \in Job : PullStep(j))

-----------------------------------------------------------------------------
(* Properties.                                                             *)

\* No runner executes the job: it has none, or has reported how it ended.
Over(j) == j \notin locked \/ exec[j] = "done"

\* A job that j waits for is cancelled: whatever the others do, and whatever j
\* was given before, its upstream status adds up to `cancelled`.
Disturbed(j) == UpstreamJobs(j) \cap cancelledAt # {}

\* A runner only gets jobs whose upstream jobs have ended, also after a
\* restart or a loss, until cleanJobs cancels one of them; when statuses are written in
\* either order one of them may say that it still runs, but no runner
\* executes it.
StartedInTurn ==
  \A j \in locked : \A a \in UpstreamJobs(j) :
     CASE scenario = "early" -> TRUE
       [] scenario = "disorder" -> Over(a)
       [] scenario \in {"restart", "lost"} -> Final(a) \/ Disturbed(j)
       [] OTHER -> Final(a)

\* A runner never has a skipped job, unless a job it waits for was cancelled
\* meanwhile: its upstream status is then computed again.
SkipsInTime == \A j \in locked : status[j] = "skipped" => Disturbed(j)

\* Until somebody or cleanJobs cancels, a pipeline that has ended has no job
\* left, and one that is green has had every job of its config, whatever a
\* restart or the database has lost and in whatever order statuses were
\* written: all of them were executed or skipped.
LastsToTheEnd ==
  LET green == pipeline.status \in {"success", "partial"}
  IN (pipeline.end \/ ending \/ green) /\ ~pipeline.error /\ cancelledAt = {}
     => \A j \in (IF green THEN Job ELSE present) : exec[j] = "done" \/ status[j] = "skipped"

\* What setJobStatus, updateDownstreamJob and updatePipelineStatus promise in
\* spite of cancellations, restarts and disorder.
CancelInv ==
  /\ CancelTypeOK
  /\ StartedInTurn /\ LastsToTheEnd /\ SkipsInTime
  /\ cancelledAt = {} /\ scenario # "disorder" =>
       GreenIsEarned /\ UpstreamStatusCurrent

\* Once cancelPipeline has returned no job of the pipeline is handed out, not
\* even one that a pull had already read as available (lockJob).  Of the jobs
\* inserted during or after an early cancellation this is not true.
NothingStartsOnceCancelled ==
  [][marked /\ scenario = "steady" => locked' \subseteq locked]_allVars

\* A job that cancelPipeline or its runner has cancelled does not come back:
\* it keeps a final status, whatever is still on its way (setJobStatus).  The
\* delayed cancellation of addJobs and cleanJobs make no such promise: they
\* cancel jobs that may have, or still get, a runner.
CancelledStays ==
  [][\A j \in Job : status[j] = "cancelled" /\ scenario = "steady"
                      => IsFinalStatus(status'[j])]_allVars

\* What leaves a pipeline without an end: an empty config, or a git server that
\* refuses to hear of its error; a database that refuses the config jobs; a
\* restart or a runner that loses calls or reports; and cleanJobs, which ends
\* jobs but no pipeline.
LeftOpen ==
  \/ dropped \/ lost
  \/ scenario = "refusal" /\ present = {Clone} /\ status[Clone] = "success"
  \/ cancelledAt # {} /\ requests = 0

\* Every job of a pipeline ends, whichever jobs fail, are skipped, are cancelled
\* or time out, and so does the pipeline, unless it is left open in one of the
\* ways that are known (setPipelineEnd).  A job whose calls or reports were
\* lost is ended by cleanJobs, but may keep a status that is not final.
Terminates ==
  <>[](scenario # "disorder" =>
         /\ pipeline.end \/ LeftOpen
         /\ \A j \in present : Final(j) \/ (lost /\ jobEnd[j] = "set"))
=============================================================================
