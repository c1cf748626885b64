-------------------------- MODULE PipelineProgress --------------------------
(***************************************************************************)
(* How a pipeline advances from its clone job to its last job, on the      *)
(* server.                                                                 *)
(*                                                                         *)
(* Every status message of a runner starts a call of setJobStatus; the     *)
(* extracted CI config starts a call of processCiConfig.  The calls run    *)
(* concurrently: each `await` on the database is a point where any other   *)
(* call may run, so a call is a record in `handlers` and every database    *)
(* operation of it is an action of its own.  A call decides on what it     *)
(* has read, which may be out of date by the time it writes.               *)
(*                                                                         *)
(* One database operation is atomic, also the insertion of the config      *)
(* jobs (one batch).  No job is cancelled here: see PipelineCancel.        *)
(***************************************************************************)
EXTENDS Statuses, Sequences, Naturals, FiniteSets

CONSTANTS
  Job,            \* the jobs of one pipeline
  Clone,          \* the job that clones the repository
  Dependencies,   \* what each config job lists in the CI config
  AllowFailure,   \* the jobs that declare allowFailure
  WhenStatus,     \* the `when.status` condition of each job
  OffBranch,      \* the jobs whose `when.branch` excludes the branch
  Propagate,      \* the jobs that declare `when.propagate`
  ConfigValid,    \* whether the CI config may pass validation, and may not
  StatusInOrder,  \* whether a job's statuses are written in the order sent
  GitServer,      \* the git server that hosts the repository
  MaxCalls        \* bound: calls in progress when a runner's message arrives

ASSUME GraphAssumption ==
  /\ Clone \in Job
  /\ Dependencies \in [Job \ {Clone} -> SUBSET (Job \ {Clone})]
ASSUME OptionsAssumption ==
  /\ AllowFailure \subseteq Job \ {Clone}
  /\ WhenStatus \in [Job -> Condition(PipelineStatuses)]
  /\ WhenStatus[Clone] = Always
  /\ OffBranch \subseteq Job \ {Clone}
  /\ Propagate \subseteq OffBranch
  /\ ConfigValid \subseteq BOOLEAN /\ ConfigValid # {}
  /\ StatusInOrder \in BOOLEAN
  /\ GitServer \in GitServers
  /\ MaxCalls \in Nat

None == "none"   \* an absent field

-----------------------------------------------------------------------------
(* The job graph.                                                          *)

ConfigJob == Job \ {Clone}

\* A config job without dependencies depends on the clone job.
Parents(j) == IF j = Clone THEN {}
              ELSE IF Dependencies[j] = {} THEN {Clone} ELSE Dependencies[j]

\* validateConfig has refused cyclic dependencies: among any jobs, one
\* depends on none of them.
ASSUME AcyclicAssumption ==
  \A S \in SUBSET Job : S # {} => \E j \in S : Parents(j) \cap S = {}

Children(j) == {c \in Job : j \in Parents(c)}

\* The jobs reached from j through dependencies, any number of times.
Upstream ==
  [j \in Job |->
     {a \in Job : \A S \in SUBSET Job :
        (Parents(j) \subseteq S /\ \A k \in S : Parents(k) \subseteq S)
          => a \in S}]

UpstreamJobs(j) == Upstream[j]

DownstreamJobs(j) == {d \in Job : j \in UpstreamJobs(d)}

\* The config jobs inserted as skipped because of their branch conditions.
SkippedUpFront ==
  OffBranch \cup UNION {DownstreamJobs(j) : j \in OffBranch \cap Propagate}

\* updateDownstreamJob sets a job to skipped when either condition says so.
SkipsOn(j, upstream) ==
  ~CanExecWhenStatus(upstream, WhenStatus[j]) \/ j \in OffBranch

-----------------------------------------------------------------------------
VARIABLES
  present,    \* the jobs in the database
  status,     \* the status of every job
  upstream,   \* the upstreamStatus of every job
  listed,     \* jobs that some pull has read as available and not locked yet
  locked,     \* jobs that have a runnerId
  exec,       \* how far the runner is with each job
  handlers,   \* the calls of setJobStatus and processCiConfig in progress
  pipeline,   \* the pipeline's document: status, end, error
  ending,     \* whether a call of setPipelineEnd is in progress
  commit      \* the commit state last stored by the git server

jobVars == <<present, status, upstream>>
runVars == <<listed, locked, exec>>
pipelineVars == <<pipeline, ending, commit>>
vars == <<jobVars, runVars, handlers, pipelineVars>>

PCs == {"write", "read", "children", "compute", "current", "set", "post",
        "fetch", "insert", "notify", "error"}

\* Who calls setJobStatus or processCiConfig, other than setJobStatus itself.
Sources == {"runner", "cancelPipeline", "addJobs"}

Handler ==
  [kind : {"status", "config"}, job : Job, status : JobStatuses,
   via : Seq(Job \cup Sources), pc : PCs,
   evals : SUBSET [child : Job, upstream : FinalStatuses],
   result : PipelineStatuses]

TypeOK ==
  /\ present \subseteq Job /\ Clone \in present
  /\ status \in [Job -> JobStatuses]
  /\ upstream \in [Job -> PipelineStatuses \cup {None}]
  /\ listed \subseteq Job
  /\ locked \subseteq Job
  /\ exec \in [Job -> {"idle", "running", "extracted", "done"}]
  /\ handlers \subseteq Handler
  /\ pipeline \in
       [status : PipelineStatuses, end : BOOLEAN, error : BOOLEAN]
  /\ ending \in BOOLEAN
  /\ commit \in CommitStates \cup {None}

\* createPipeline has inserted the pipeline and its clone job.
Init ==
  /\ present = {Clone}
  /\ status = [j \in Job |-> "created"]
  /\ upstream = [j \in Job |-> None]
  /\ listed = {}
  /\ locked = {}
  /\ exec = [j \in Job |-> "idle"]
  /\ handlers = {}
  /\ pipeline = [status |-> "created", end |-> FALSE, error |-> FALSE]
  /\ ending = FALSE
  /\ commit = None

-----------------------------------------------------------------------------
(* The calls.  `via` is the trail that led to the call: its source, then   *)
(* the jobs whose skipping led on; it tells apart two calls that agree on  *)
(* everything else.                                                        *)

Call(kind, j, s, via, pc) ==
  [kind |-> kind, job |-> j, status |-> s, via |-> via, pc |-> pc,
   evals |-> {}, result |-> "unknown"]

SetJobStatus(j, s, via) == Call("status", j, s, via, "write")

Goto(h, pc) == (handlers \ {h}) \cup {[h EXCEPT !.pc = pc]}
Return(h)   == handlers \ {h}

\* Broken: a failure that is allowed is passed on as a failure.
EvaluationsStrict(j) ==
  {e \in [child : Children(j) \cap present, upstream : FinalStatuses] :
     e.upstream = ComputePipelineStatus(UpstreamJobs(e.child), status, {})}

\* updateDownstreamJob, as far as it only reads: the children whose
\* upstream jobs are all final, each with the status they add up to.
Evaluations(j) ==
  {e \in [child : Children(j) \cap present, upstream : FinalStatuses] :
     e.upstream = ComputePipelineStatus(UpstreamJobs(e.child), status,
                                        AllowFailure)}

-----------------------------------------------------------------------------
(* The runner, seen from the server.                                       *)

\* Broken: any upstream status makes a job available.
AvailableEarly(j) ==
  /\ j \in present \ locked
  /\ status[j] = "created"
  /\ Parents(j) = {} \/ upstream[j] # None

Available(j) ==
  /\ j \in present \ locked
  /\ status[j] = "created"
  /\ Parents(j) = {} \/ upstream[j] \in FinalStatuses

\* A pull reads the available jobs and settles for j.
ListAvailableJobs(j) ==
  /\ Available(j)
  /\ listed' = listed \cup {j}
  /\ UNCHANGED <<jobVars, locked, exec, handlers, pipelineVars>>

\* The pull locks the job it has settled for, unless another was faster.
LockJob(j) ==
  /\ j \in listed
  /\ listed' = listed \ {j}
  /\ locked' = locked \cup {j}
  /\ UNCHANGED <<jobVars, exec, handlers, pipelineVars>>

\* Messages of one job reach the server in order; whether their database
\* writes keep that order is up to StatusInOrder.
Settled(j) ==
  StatusInOrder =>
    ~ \E h \in handlers : h.kind = "status" /\ h.job = j /\ h.pc = "write"

\* The bound on the calls in progress.
Room == Cardinality(handlers) < MaxCalls

SendRunning(j) ==
  /\ j \in locked /\ exec[j] = "idle"
  /\ Room
  /\ exec' = [exec EXCEPT ![j] = "running"]
  /\ handlers' = handlers \cup {SetJobStatus(j, "running", <<"runner">>)}
  /\ UNCHANGED <<jobVars, listed, locked, pipelineVars>>

\* The script of the clone job succeeded: the CI config is sent first.
SendConfigFile ==
  /\ exec[Clone] = "running"
  /\ Room
  /\ exec' = [exec EXCEPT ![Clone] = "extracted"]
  /\ handlers' = handlers \cup
       {Call("config", Clone, "created", <<"runner">>, "fetch")}
  /\ UNCHANGED <<jobVars, listed, locked, pipelineVars>>

\* The CI config is empty: it is neither processed nor reported as an error.
SendEmptyConfigFile ==
  /\ exec[Clone] = "running"
  /\ exec' = [exec EXCEPT ![Clone] = "extracted"]
  /\ UNCHANGED <<jobVars, listed, locked, handlers, pipelineVars>>

SendFinalStatus(j, s) ==
  /\ \/ j # Clone /\ exec[j] = "running" /\ s \in {"success", "failure"}
     \/ j = Clone /\ exec[j] = "running" /\ s = "failure"
     \/ j = Clone /\ exec[j] = "extracted" /\ s = "success"
  /\ Settled(j)
  /\ Room
  /\ exec' = [exec EXCEPT ![j] = "done"]
  /\ handlers' = handlers \cup {SetJobStatus(j, s, <<"runner">>)}
  /\ UNCHANGED <<jobVars, listed, locked, pipelineVars>>

-----------------------------------------------------------------------------
(* setJobStatus.                                                           *)

WriteStatus(h) ==
  /\ h.pc = "write"
  /\ status' = [status EXCEPT ![h.job] = h.status]
  /\ handlers' = Goto(h, IF IsFinalStatus(h.status) THEN "read" ELSE "compute")
  /\ UNCHANGED <<present, upstream, runVars, pipelineVars>>

\* Read all jobs of the pipeline and pick the children to update.
ReadJobs(h) ==
  /\ h.pc = "read"
  /\ handlers' = Return(h) \cup
       {[h EXCEPT !.pc = "children", !.evals = Evaluations(h.job)]}
  /\ UNCHANGED <<jobVars, runVars, pipelineVars>>

\* Broken: the skipped status is left to the call of setJobStatus.
StatusUpdateLater(e) == status

\* Broken: the children of a skipped job are not looked at.
SkipCallsNone(h, e) == {}

\* A skipped child gets its status in the update of its upstream status,
\* and a call of setJobStatus of its own that nobody waits for.
StatusUpdate(e) ==
  IF SkipsOn(e.child, e.upstream) THEN [status EXCEPT ![e.child] = "skipped"]
                                  ELSE status

SkipCalls(h, e) ==
  IF SkipsOn(e.child, e.upstream)
  THEN {SetJobStatus(e.child, "skipped", Append(h.via, h.job))} ELSE {}

\* The update of one child; the children are updated in any order.
UpdateDownstreamJob(h, e) ==
  /\ h.pc = "children" /\ e \in h.evals
  /\ upstream' = [upstream EXCEPT ![e.child] = e.upstream]
  /\ status' = StatusUpdate(e)
  /\ handlers' = Return(h) \cup {[h EXCEPT !.evals = @ \ {e}]}
                           \cup SkipCalls(h, e)
  /\ UNCHANGED <<present, runVars, pipelineVars>>

\* All children are updated: processCiConfig is done, setJobStatus goes on.
ChildrenUpdated(h) ==
  /\ h.pc = "children" /\ h.evals = {}
  /\ handlers' = IF h.kind = "config" THEN Return(h) ELSE Goto(h, "compute")
  /\ UNCHANGED <<jobVars, runVars, pipelineVars>>

\* Broken: the config jobs to come are forgotten.
OnlyCloneForgotten(s) == FALSE

\* updatePipelineStatus reads the jobs; unless some are left to run, it
\* starts setPipelineEnd without waiting for it.
OnlyHasSucceededCloneJob(s) == present = {Clone} /\ s = "success"

EndsPipeline(s) == s \notin {"running", "created"}

ComputeStatus(h) ==
  LET s == ComputePipelineStatus(present, status, AllowFailure)
  IN  /\ h.pc = "compute"
      /\ IF OnlyHasSucceededCloneJob(s)
         THEN handlers' = Return(h) /\ UNCHANGED ending
         ELSE /\ handlers' = Return(h) \cup
                   {[h EXCEPT !.pc = "current", !.result = s]}
              /\ ending' = (ending \/ EndsPipeline(s))
      /\ UNCHANGED <<jobVars, runVars, pipeline, commit>>

-----------------------------------------------------------------------------
(* setPipelineStatus and setPipelineEnd.                                   *)

\* The call returns from setPipelineStatus; processCiConfig, which calls
\* it to report an error, goes on to setPipelineEnd.
PipelineStatusDone(h) ==
  /\ handlers' = Return(h)
  /\ ending' = (ending \/ h.kind = "config")

ReadPipelineStatus(h) ==
  /\ h.pc = "current"
  /\ IF pipeline.status = h.result
     THEN PipelineStatusDone(h)
     ELSE handlers' = Goto(h, "set") /\ UNCHANGED ending
  /\ UNCHANGED <<jobVars, runVars, pipeline, commit>>

WritePipelineStatus(h) ==
  /\ h.pc = "set"
  /\ pipeline' = [pipeline EXCEPT !.status = h.result]
  /\ handlers' = Goto(h, "post")
  /\ UNCHANGED <<jobVars, runVars, ending, commit>>

SendStatusToGitServer(h) ==
  /\ h.pc = "post"
  /\ commit' = CommitState(GitServer, h.result)
  /\ PipelineStatusDone(h)
  /\ UNCHANGED <<jobVars, runVars, pipeline>>

\* The git server refuses or cannot be reached: the whole call fails, and
\* nothing that was to come after it happens.
GitServerFails(h) ==
  /\ h.pc = "post"
  /\ handlers' = Return(h)
  /\ UNCHANGED <<jobVars, runVars, pipelineVars>>

SetPipelineEnd ==
  /\ ending
  /\ pipeline' = [pipeline EXCEPT !.end = TRUE]
  /\ ending' = FALSE
  /\ UNCHANGED <<jobVars, runVars, handlers, commit>>

-----------------------------------------------------------------------------
(* processCiConfig.                                                        *)

\* Read the clone job; the call remembers its status.
FetchCloneJob(h) ==
  /\ h.pc = "fetch"
  /\ \E valid \in ConfigValid :
       handlers' = Return(h) \cup
         {[h EXCEPT !.pc = IF valid THEN "insert" ELSE "error",
                    !.status = status[Clone]]}
  /\ UNCHANGED <<jobVars, runVars, pipelineVars>>

\* Broken: the clone job is taken to have succeeded.
AddConfigJobsAfterSuccess(h) ==
  /\ h.pc = "insert"
  /\ present' = Job
  /\ status' = [j \in Job |-> IF j \in SkippedUpFront THEN "skipped"
                                                      ELSE status[j]]
  /\ upstream' = [j \in Job |-> IF j # Clone /\ Dependencies[j] = {}
                                THEN "success" ELSE upstream[j]]
  /\ handlers' = Goto(h, "notify")
  /\ UNCHANGED <<runVars, pipelineVars>>

\* Insert the config jobs.  A job of the first rank starts out with the
\* status the clone job had when it was read.
AddConfigJobs(h) ==
  /\ h.pc = "insert"
  /\ present' = Job
  /\ status' = [j \in Job |-> IF j \in SkippedUpFront THEN "skipped"
                                                      ELSE status[j]]
  /\ upstream' = [j \in Job |-> IF j # Clone /\ Dependencies[j] = {}
                                THEN h.status ELSE upstream[j]]
  /\ handlers' = Goto(h, "notify")
  /\ UNCHANGED <<runVars, pipelineVars>>

\* Broken: the children of the clone job are left to its final status.
NotifyRunnersOnly(h) ==
  /\ h.pc = "notify"
  /\ handlers' = Return(h)
  /\ UNCHANGED <<jobVars, runVars, pipelineVars>>

\* addJobs reads the pipeline to see if it was cancelled: not here.
NotifyRunners(h) ==
  /\ h.pc = "notify"
  /\ handlers' = Goto(h, "read")
  /\ UNCHANGED <<jobVars, runVars, pipelineVars>>

\* The config is invalid: setPipelineError.
SetPipelineError(h) ==
  /\ h.pc = "error"
  /\ pipeline' = [pipeline EXCEPT !.error = TRUE]
  /\ handlers' = Return(h) \cup
       {[h EXCEPT !.pc = "current", !.result = "failure"]}
  /\ UNCHANGED <<jobVars, runVars, ending, commit>>

-----------------------------------------------------------------------------
RunnerStep ==
  \/ \E j \in Job : ListAvailableJobs(j) \/ LockJob(j) \/ SendRunning(j)
  \/ SendConfigFile \/ SendEmptyConfigFile
  \/ \E j \in Job, s \in {"success", "failure"} : SendFinalStatus(j, s)

HandlerStep(h) ==
  \/ WriteStatus(h) \/ ReadJobs(h) \/ ChildrenUpdated(h) \/ ComputeStatus(h)
  \/ \E e \in h.evals : UpdateDownstreamJob(h, e)
  \/ ReadPipelineStatus(h) \/ WritePipelineStatus(h)
  \/ SendStatusToGitServer(h) \/ GitServerFails(h)
  \/ FetchCloneJob(h) \/ AddConfigJobs(h) \/ NotifyRunners(h)
  \/ SetPipelineError(h)

ServerStep == (\E h \in handlers : HandlerStep(h)) \/ SetPipelineEnd

Next == RunnerStep \/ ServerStep

Spec == Init /\ [][Next]_vars

-----------------------------------------------------------------------------
(* Properties.                                                             *)

Final(j) == IsFinalStatus(status[j])

\* The call h is still going to evaluate job j on a later reading of the
\* jobs, or has found all upstream jobs of j final and is about to update j.
WillEvaluate(h, j) ==
  \/ h.kind = "status" /\ h.pc = "write" /\ IsFinalStatus(h.status)
       /\ h.job \in UpstreamJobs(j)
  \/ h.pc \in {"fetch", "insert", "notify", "read"} /\ h.job \in UpstreamJobs(j)
  \/ h.pc = "children" /\
       \E e \in h.evals : e.child = j \/ e.child \in UpstreamJobs(j)

\* No lost wakeup.  Two jobs that end at the same time, or the clone job and
\* the processing of its config, each look for children on their own; when
\* every upstream job of a job that waits has ended, either the job has been
\* made available or a call is still on its way to do it (setJobStatus,
\* updateDownstreamJob, processCiConfig).
NoLostWakeup ==
  \A j \in present :
    (/\ status[j] = "created"
     /\ Parents(j) # {}
     /\ \A a \in UpstreamJobs(j) : Final(a))
    => \/ upstream[j] \in FinalStatuses
       \/ \E h \in handlers : WillEvaluate(h, j)

\* A runner only gets jobs whose upstream jobs have all ended: a job that is
\* locked never has an upstream job that may still run (listAvailableJobs).
LockedAfterUpstream ==
  \A j \in locked : \A a \in UpstreamJobs(j) : Final(a)

\* The upstreamStatus a job was given when it became available stays the one
\* its upstream jobs add up to (updateDownstreamJob computes it from a
\* reading of the jobs that may be out of date when it is written).
UpstreamStatusCurrent ==
  \A j \in present :
    upstream[j] \in FinalStatuses =>
      upstream[j] = ComputePipelineStatus(UpstreamJobs(j), status, AllowFailure)

\* A skipped job is never started, nor a started one skipped
\* (updateDownstreamJob: "Must be set here because this determines if the
\* job can be started").
SkippedNeverRuns ==
  \A j \in locked : status[j] # "skipped"

\* A pipeline is only reported green, to its users and to the git server,
\* when every job of it has ended, none of them in a failure that counts
\* (updatePipelineStatus and setPipelineStatus work on what they have read).
Earned ==
  \A j \in present : \/ status[j] \in {"success", "skipped"}
                     \/ status[j] = "failure" /\ j \in AllowFailure
GreenIsEarned ==
  (pipeline.status \in {"success", "partial"} \/ commit = "success") => Earned

\* A pipeline is only ended when no job of it can still run, unless its
\* config was refused (setPipelineEnd).
EndedMeansDone ==
  ((pipeline.end \/ ending) /\ ~pipeline.error) => \A j \in present : Final(j)

\* What each job has come to.
Results == [j \in Job |-> IF Final(j) THEN status[j] ELSE "created"]

\* The pipeline keeps the promise of PipelinePromise, however the calls cross:
\* no result is taken back, a job is handed out or skipped, never both, by what
\* all jobs upstream came to, every verdict shown or told is that of all jobs, and nothing
\* starts or is inserted after the end (setJobStatus, processCiConfig).
Promise ==
  INSTANCE PipelinePromise WITH
    started <- locked, result <- Results, shown <- pipeline.status, told <- commit,
    refused <- pipeline.error, ended <- pipeline.end, Excluded <- SkippedUpFront,
    Runs <- [j \in Job |-> {s \in FinalStatuses : ~SkipsOn(j, s)}]
ImplementsPromise == Promise!Spec
=============================================================================
