---------------------------- MODULE PipelineProofs ----------------------------
(***************************************************************************)
(* Proofs about PipelineProgress, for every job graph and every set of     *)
(* options: the inductive invariant of PipelineInvariant and what follows  *)
(* from it, with the promise of PipelinePromise; and what is left of that  *)
(* when a pipeline is cancelled.  The second part proves that no job is    *)
(* handed out once cancelPipeline has returned and that a cancelled job    *)
(* stays so; the third proves CancelInv of any scenario, by the inductive  *)
(* invariant of CancelInvariant.                                           *)
(***************************************************************************)
EXTENDS CancelInvariant, TLAPS

-----------------------------------------------------------------------------
(* Lemmas on the operators.                                                *)

LEMMA ParentsType ==
  ASSUME NEW j \in Job
  PROVE  Parents(j) \subseteq Job
BY GraphAssumption DEF Parents

LEMMA ParentsUpstream ==
  ASSUME NEW j \in Job
  PROVE  Parents(j) \subseteq UpstreamJobs(j)
BY ParentsType DEF UpstreamJobs, Upstream

LEMMA UpstreamTrans ==
  ASSUME NEW j \in Job, NEW k \in UpstreamJobs(j)
  PROVE  UpstreamJobs(k) \subseteq UpstreamJobs(j)
<1>1. SUFFICES ASSUME NEW a \in UpstreamJobs(k), NEW S \in SUBSET Job,
                      Parents(j) \subseteq S,
                      \A i \in S : Parents(i) \subseteq S
               PROVE  a \in S
  BY DEF UpstreamJobs, Upstream
<1>2. k \in S
  BY <1>1 DEF UpstreamJobs, Upstream
<1>3. QED
  BY <1>1, <1>2 DEF UpstreamJobs, Upstream

\* A job is upstream through a parent, or is one.
LEMMA UpstreamThroughParent ==
  ASSUME NEW j \in Job, NEW a \in UpstreamJobs(j), a \notin Parents(j)
  PROVE  \E p \in Parents(j) : a \in UpstreamJobs(p)
<1> DEFINE S == Parents(j) \cup UNION {UpstreamJobs(p) : p \in Parents(j)}
<1>1. S \in SUBSET Job
  BY ParentsType DEF UpstreamJobs, Upstream
<1>2. ASSUME NEW i \in S PROVE Parents(i) \subseteq S
  <2>1. CASE i \in Parents(j)
    BY <2>1, ParentsUpstream, ParentsType
  <2>2. CASE i \notin Parents(j)
    <3>1. PICK p \in Parents(j) : i \in UpstreamJobs(p)
      BY <2>2
    <3>2. p \in Job /\ i \in Job
      BY <3>1, <1>1, ParentsType
    <3>3. Parents(i) \subseteq UpstreamJobs(p)
      BY <3>1, <3>2, ParentsUpstream, UpstreamTrans
    <3>4. QED
      BY <3>1, <3>3
  <2>3. QED
    BY <2>1, <2>2
<1>3. a \in S
  BY <1>1, <1>2 DEF UpstreamJobs, Upstream
<1>4. QED
  BY <1>3

LEMMA CloneUpstream == UpstreamJobs(Clone) = {} /\ Clone \notin SkippedUpFront
<1>1. Parents(Clone) = {}
  BY DEF Parents
<1>2. UpstreamJobs(Clone) = {}
  BY <1>1, GraphAssumption DEF UpstreamJobs, Upstream
<1>3. QED
  BY <1>2, OptionsAssumption DEF SkippedUpFront, DownstreamJobs

LEMMA WakersClosed ==
  ASSUME NEW j \in Job
  PROVE  /\ Wakers(j) \subseteq Job /\ Parents(j) \subseteq Wakers(j)
         /\ \A k \in Wakers(j) \cap SkippedUpFront : Parents(k) \subseteq Wakers(j)
<1>1. Wakers(j) \subseteq Job
  BY DEF Wakers, WakersOf
<1>2. Parents(j) \subseteq Wakers(j)
  BY ParentsType DEF Wakers, WakersOf
<1>3. ASSUME NEW k \in Wakers(j) \cap SkippedUpFront, NEW a \in Parents(k)
      PROVE  a \in Wakers(j)
  <2>1. a \in Job
    BY <1>1, ParentsType
  <2>2. SUFFICES ASSUME NEW S \in SUBSET Job, Parents(j) \subseteq S,
                        \A i \in S \cap SkippedUpFront : Parents(i) \subseteq S
                 PROVE  a \in S
    BY <2>1 DEF Wakers, WakersOf
  <2>3. k \in S
    BY <2>2 DEF Wakers, WakersOf
  <2>4. QED
    BY <2>2, <2>3
<1>4. QED
  BY <1>1, <1>2, <1>3

\* A set that holds the parents of j, and of its jobs skipped up front, holds
\* every waker of j.
LEMMA WakersLeast ==
  ASSUME NEW j \in Job, NEW S \in SUBSET Job, Parents(j) \subseteq S,
         \A k \in S \cap SkippedUpFront : Parents(k) \subseteq S
  PROVE  Wakers(j) \subseteq S
BY DEF Wakers, WakersOf

LEMMA WakersUpstream ==
  ASSUME NEW j \in Job
  PROVE  Wakers(j) \subseteq UpstreamJobs(j)
<1>1. UpstreamJobs(j) \in SUBSET Job
  BY DEF UpstreamJobs, Upstream
<1>2. \A k \in UpstreamJobs(j) : Parents(k) \subseteq UpstreamJobs(j)
  BY <1>1, ParentsUpstream, UpstreamTrans
<1>3. QED
  BY <1>1, <1>2, ParentsUpstream, WakersLeast

LEMMA WakersStep ==
  ASSUME NEW j \in Job, NEW a \in Wakers(j), a \notin Parents(j)
  PROVE  \E c \in Wakers(j) \cap SkippedUpFront : a \in Parents(c)
<1> DEFINE S == {i \in Wakers(j) : i \in Parents(j) \/
                   \E c \in Wakers(j) \cap SkippedUpFront : i \in Parents(c)}
<1>1. S \in SUBSET Job /\ Parents(j) \subseteq S
  BY WakersClosed
<1>2. \A k \in S \cap SkippedUpFront : Parents(k) \subseteq S
  BY WakersClosed
<1>3. Wakers(j) \subseteq S
  BY <1>1, <1>2, WakersLeast
<1>4. QED
  BY <1>3

\* A job between a job skipped up front and one that is not, is itself
\* excluded by its branch condition: nothing is propagated from it.
LEMMA OffBranchUpstream ==
  ASSUME NEW j \in Job, j \notin SkippedUpFront,
         NEW c \in UpstreamJobs(j), c \in SkippedUpFront
  PROVE  c \in OffBranch
<1>1. SUFFICES ASSUME NEW x \in OffBranch \cap Propagate, c \in DownstreamJobs(x)
               PROVE  FALSE
  BY DEF SkippedUpFront
<1>2. x \in UpstreamJobs(c)
  BY <1>1 DEF DownstreamJobs
<1>3. x \in UpstreamJobs(j)
  BY <1>2, UpstreamTrans
<1>4. j \in DownstreamJobs(x)
  BY <1>3 DEF DownstreamJobs
<1>5. QED
  BY <1>1, <1>4 DEF SkippedUpFront

\* A set of ended jobs adds up to a final status, and only such a set does.
LEMMA ComputeFinal ==
  ASSUME NEW J, NEW st, NEW allow,
         \A j \in J : st[j] \in {"created", "running", "success", "failure", "skipped"}
  PROVE  (\A j \in J : IsFinalStatus(st[j]))
           <=> ComputePipelineStatus(J, st, allow) \in FinalStatuses
BY DEF ComputePipelineStatus, IsFinalStatus, FinalStatuses

LEMMA ComputeType ==
  ASSUME NEW J, NEW st, NEW allow
  PROVE  ComputePipelineStatus(J, st, allow) \in PipelineStatuses
BY DEF ComputePipelineStatus, PipelineStatuses, JobStatuses

\* The sum only depends on the statuses of the jobs it is taken over.
LEMMA ComputeAgrees ==
  ASSUME NEW J, NEW st, NEW tt, NEW allow, \A j \in J : st[j] = tt[j]
  PROVE  ComputePipelineStatus(J, st, allow) = ComputePipelineStatus(J, tt, allow)
BY DEF ComputePipelineStatus

LEMMA ComputeGreen ==
  ASSUME NEW J, NEW st, NEW allow,
         \A j \in J : st[j] \in {"created", "running", "success", "failure", "skipped"},
         ComputePipelineStatus(J, st, allow) \in {"success", "partial"}
  PROVE  \A j \in J : \/ st[j] \in {"success", "skipped"}
                      \/ st[j] = "failure" /\ j \in allow
BY DEF ComputePipelineStatus

-----------------------------------------------------------------------------
(* Type correctness.                                                       *)

LEMMA InitType == Init => TypeOK
<1> SUFFICES ASSUME Init PROVE TypeOK
  OBVIOUS
<1> USE DEF Init
<1>1. present \subseteq Job /\ Clone \in present
  BY GraphAssumption
<1>2. status \in [Job -> JobStatuses]
  BY DEF JobStatuses
<1>3. pipeline \in [status : PipelineStatuses, end : BOOLEAN, error : BOOLEAN]
  BY DEF PipelineStatuses, JobStatuses
<1>4. QED
  BY <1>1, <1>2, <1>3 DEF TypeOK

LEMMA CallType ==
  ASSUME NEW kind \in {"status", "config"}, NEW j \in Job, NEW s \in JobStatuses,
         NEW via \in Seq(Job \cup Sources), NEW pc \in PCs
  PROVE  Call(kind, j, s, via, pc) \in Handler
BY DEF Call, Handler, PipelineStatuses

LEMMA SourceType == \A src \in Sources : <<src>> \in Seq(Job \cup Sources)
OBVIOUS

LEMMA AppendType ==
  ASSUME NEW via \in Seq(Job \cup Sources), NEW j \in Job
  PROVE  Append(via, j) \in Seq(Job \cup Sources)
OBVIOUS

LEMMA ExceptType ==
  ASSUME NEW h \in Handler, NEW pc \in PCs, NEW s \in JobStatuses,
         NEW E \in SUBSET [child : Job, upstream : FinalStatuses],
         NEW r \in PipelineStatuses
  PROVE  /\ [h EXCEPT !.pc = pc] \in Handler
         /\ [h EXCEPT !.pc = pc, !.evals = E] \in Handler
         /\ [h EXCEPT !.evals = E] \in Handler
         /\ [h EXCEPT !.pc = pc, !.result = r] \in Handler
         /\ [h EXCEPT !.pc = pc, !.status = s] \in Handler
BY DEF Handler

LEMMA EvaluationsType ==
  ASSUME NEW j \in Job, present \subseteq Job
  PROVE  Evaluations(j) \in SUBSET [child : Job, upstream : FinalStatuses]
BY DEF Evaluations, Children

LEMMA CommitStateType ==
  ASSUME NEW s \in PipelineStatuses
  PROVE  CommitState(GitServer, s) \in CommitStates
BY OptionsAssumption
   DEF CommitState, GiteaState, GitlabState, GithubState, CommitStates,
     PipelineStatuses, JobStatuses, GitServers

LEMMA CommitStateGreen ==
  ASSUME NEW s \in PipelineStatuses, CommitState(GitServer, s) = "success"
  PROVE  s \in {"success", "partial"}
BY OptionsAssumption
   DEF CommitState, GiteaState, GitlabState, GithubState,
     PipelineStatuses, JobStatuses, GitServers

LEMMA RunnerType == TypeOK /\ RunnerStep => TypeOK'
<1> SUFFICES ASSUME TypeOK, RunnerStep PROVE TypeOK'
  OBVIOUS
<1> USE DEF TypeOK, jobVars, runVars, pipelineVars
<1>1. ASSUME NEW j \in Job, ListAvailableJobs(j) PROVE TypeOK'
  BY <1>1 DEF ListAvailableJobs
<1>2. ASSUME NEW j \in Job, LockJob(j) PROVE TypeOK'
  BY <1>2 DEF LockJob
<1>3. ASSUME NEW j \in Job, SendRunning(j) PROVE TypeOK'
  <2>1. SetJobStatus(j, "running", <<"runner">>) \in Handler
    BY CallType, SourceType DEF SetJobStatus, JobStatuses, PCs, Sources
  <2>2. QED
    BY <1>3, <2>1 DEF SendRunning
<1>4. ASSUME SendConfigFile PROVE TypeOK'
  <2>1. Call("config", Clone, "created", <<"runner">>, "fetch") \in Handler
    BY CallType, SourceType, GraphAssumption DEF JobStatuses, PCs, Sources
  <2>2. QED
    BY <1>4, <2>1 DEF SendConfigFile
<1>7. ASSUME SendEmptyConfigFile PROVE TypeOK'
  BY <1>7 DEF SendEmptyConfigFile
<1>5. ASSUME NEW j \in Job, NEW s \in {"success", "failure"}, SendFinalStatus(j, s)
      PROVE TypeOK'
  <2>1. SetJobStatus(j, s, <<"runner">>) \in Handler
    BY CallType, SourceType DEF SetJobStatus, JobStatuses, PCs, Sources
  <2>2. QED
    BY <1>5, <2>1 DEF SendFinalStatus
<1>6. QED
  BY <1>1, <1>2, <1>3, <1>4, <1>5, <1>7 DEF RunnerStep

LEMMA ServerType == TypeOK /\ ServerStep => TypeOK'
<1> SUFFICES ASSUME TypeOK, ServerStep PROVE TypeOK'
  OBVIOUS
<1> USE DEF TypeOK, jobVars, runVars, pipelineVars
<1>1. CASE SetPipelineEnd
  BY <1>1 DEF SetPipelineEnd
<1>2. ASSUME NEW h \in handlers, HandlerStep(h) PROVE TypeOK'
  <2> h \in Handler /\ h.job \in Job /\ h.status \in JobStatuses
      /\ h.result \in PipelineStatuses /\ h.via \in Seq(Job \cup Sources)
      /\ h.evals \in SUBSET [child : Job, upstream : FinalStatuses]
    BY DEF Handler
  <2> Return(h) \subseteq Handler
    BY DEF Return
  <2>0. ASSUME NEW pc \in PCs PROVE Goto(h, pc) \subseteq Handler
    BY ExceptType DEF Goto
  <2>1. CASE WriteStatus(h)
    <3>1. handlers' \subseteq Handler
      BY <2>1, <2>0 DEF WriteStatus, PCs
    <3>2. status' \in [Job -> JobStatuses]
      BY <2>1 DEF WriteStatus
    <3>3. QED
      BY <2>1, <3>1, <3>2 DEF WriteStatus
  <2>2. CASE ReadJobs(h)
    <3>1. [h EXCEPT !.pc = "children", !.evals = Evaluations(h.job)] \in Handler
      BY ExceptType, EvaluationsType DEF PCs
    <3>2. QED
      BY <2>2, <3>1 DEF ReadJobs
  <2>3. CASE ChildrenUpdated(h)
    <3>1. handlers' \subseteq Handler
      BY <2>3, <2>0 DEF ChildrenUpdated, PCs
    <3>2. QED
      BY <2>3, <3>1 DEF ChildrenUpdated
  <2>4. CASE ComputeStatus(h)
    <3> DEFINE r == ComputePipelineStatus(present, status, AllowFailure)
    <3>1. [h EXCEPT !.pc = "current", !.result = r] \in Handler
      BY ExceptType, ComputeType DEF PCs
    <3>2. handlers' \subseteq Handler
      BY <2>4, <3>1 DEF ComputeStatus
    <3>3. ending' \in BOOLEAN
      BY <2>4, Zenon DEF ComputeStatus, EndsPipeline
    <3>4. QED
      BY <2>4, <3>2, <3>3 DEF ComputeStatus
  <2>5. ASSUME NEW e \in h.evals, UpdateDownstreamJob(h, e) PROVE TypeOK'
    <3>1. e.child \in Job /\ e.upstream \in PipelineStatuses
      BY DEF FinalStatuses, PipelineStatuses, JobStatuses
    <3>2. status' \in [Job -> JobStatuses]
      BY <2>5, <3>1 DEF UpdateDownstreamJob, StatusUpdate, JobStatuses
    <3>3. Append(h.via, h.job) \in Seq(Job \cup Sources)
      BY AppendType
    <3>4. SetJobStatus(e.child, "skipped", Append(h.via, h.job)) \in Handler
      BY <3>1, <3>3, CallType DEF SetJobStatus, JobStatuses, PCs
    <3>5. [h EXCEPT !.evals = @ \ {e}] \in Handler
      <4>1. h.evals \ {e} \in SUBSET [child : Job, upstream : FinalStatuses]
        OBVIOUS
      <4>2. QED
        BY <4>1 DEF Handler
    <3>6. handlers' \subseteq Handler
      BY <2>5, <3>4, <3>5 DEF UpdateDownstreamJob, SkipCalls
    <3>7. upstream' \in [Job -> PipelineStatuses \cup {None}]
      BY <2>5, <3>1 DEF UpdateDownstreamJob
    <3>8. QED
      BY <2>5, <3>2, <3>6, <3>7 DEF UpdateDownstreamJob
  <2>6. CASE ReadPipelineStatus(h)
    <3>1. handlers' \subseteq Handler /\ ending' \in BOOLEAN
      BY <2>6, <2>0 DEF ReadPipelineStatus, PipelineStatusDone, PCs
    <3>2. QED
      BY <2>6, <3>1 DEF ReadPipelineStatus
  <2>7. CASE WritePipelineStatus(h)
    <3>1. handlers' \subseteq Handler
      BY <2>7, <2>0 DEF WritePipelineStatus, PCs
    <3>2. QED
      BY <2>7, <3>1 DEF WritePipelineStatus
  <2>8. CASE SendStatusToGitServer(h)
    BY <2>8, CommitStateType DEF SendStatusToGitServer, PipelineStatusDone
  <2>9. CASE GitServerFails(h)
    BY <2>9 DEF GitServerFails
  <2>10. CASE FetchCloneJob(h)
    <3>0. PICK valid \in ConfigValid :
            handlers' = Return(h) \cup
              {[h EXCEPT !.pc = IF valid THEN "insert" ELSE "error",
                         !.status = status[Clone]]}
      BY <2>10 DEF FetchCloneJob
    <3> DEFINE pc == IF valid THEN "insert" ELSE "error"
    <3>1. pc \in PCs /\ status[Clone] \in JobStatuses
      BY GraphAssumption DEF PCs
    <3>2. [h EXCEPT !.pc = pc, !.status = status[Clone]] \in Handler
      BY <3>1, ExceptType
    <3>3. QED
      BY <2>10, <3>0, <3>2 DEF FetchCloneJob
  <2>11. CASE AddConfigJobs(h)
    <3>1. handlers' \subseteq Handler
      BY <2>11, <2>0 DEF AddConfigJobs, PCs
    <3>2. status' \in [Job -> JobStatuses]
      BY <2>11 DEF AddConfigJobs, JobStatuses
    <3>3. upstream' \in [Job -> PipelineStatuses \cup {None}]
      BY <2>11 DEF AddConfigJobs, PipelineStatuses
    <3>4. QED
      BY <2>11, <3>1, <3>2, <3>3, GraphAssumption DEF AddConfigJobs
  <2>12. CASE NotifyRunners(h)
    <3>1. handlers' \subseteq Handler
      BY <2>12, <2>0 DEF NotifyRunners, PCs
    <3>2. QED
      BY <2>12, <3>1 DEF NotifyRunners
  <2>13. CASE SetPipelineError(h)
    <3>1. [h EXCEPT !.pc = "current", !.result = "failure"] \in Handler
      BY ExceptType DEF PCs, PipelineStatuses, JobStatuses
    <3>2. QED
      BY <2>13, <3>1 DEF SetPipelineError
  <2>14. QED
    BY <1>2, <2>1, <2>2, <2>3, <2>4, <2>5, <2>6, <2>7, <2>8, <2>9, <2>10,
       <2>11, <2>12, <2>13 DEF HandlerStep
<1>3. QED
  BY <1>1, <1>2 DEF ServerStep

\* Type correctness, for every pipeline.
THEOREM TypeCorrect == Spec => []TypeOK
<1>1. TypeOK /\ [Next]_vars => TypeOK'
  <2>1. TypeOK /\ UNCHANGED vars => TypeOK'
    BY DEF TypeOK, vars, jobVars, runVars, pipelineVars
  <2>2. QED
    BY <2>1, RunnerType, ServerType DEF Next
<1>2. QED
  BY <1>1, InitType, PTL DEF Spec

-----------------------------------------------------------------------------
(* The inductive invariant.  First what every step needs of it.            *)

LEMMA StatusValues ==
  ASSUME TypeOK, ExecInv, NEW j \in Job
  PROVE  status[j] \in {"created", "running", "success", "failure", "skipped"}
BY DEF TypeOK, ExecInv, JobStatuses

LEMMA UpstreamType ==
  ASSUME NEW j \in Job
  PROVE  UpstreamJobs(j) \subseteq Job
BY DEF UpstreamJobs, Upstream

\* An ended job keeps its status.
Stable == \A j \in Job : Final(j) => status'[j] = status[j]

LEMMA SumStable ==
  ASSUME Stable, NEW j \in Job, UpstreamFinal(j)
  PROVE  UpstreamFinal(j)' /\ UpstreamSum(j)' = UpstreamSum(j)
<1>1. \A a \in UpstreamJobs(j) : status'[a] = status[a]
  BY UpstreamType DEF Stable, UpstreamFinal
<1>2. UpstreamFinal(j)'
  BY <1>1 DEF UpstreamFinal, Final
<1>3. UpstreamSum(j)' = UpstreamSum(j)
  BY <1>1, ComputeAgrees DEF UpstreamSum
<1>4. QED
  BY <1>2, <1>3

LEMMA InitInv == Init => IInv
<1> SUFFICES ASSUME Init PROVE IInv
  OBVIOUS
<1> USE DEF Init
<1>1. TypeOK
  BY InitType
<1>2. PresentInv
  BY DEF PresentInv
<1>3. ConfigInv
  BY GraphAssumption DEF ConfigInv, ConfigCalls, CloneFails
<1>4. ExecInv
  BY GraphAssumption DEF ExecInv
<1>5. CallInv
  BY DEF CallInv
<1>6. UpstreamInv
  BY GraphAssumption, CloneUpstream DEF UpstreamInv, FinalStatuses, None
<1>7. WakeupInv
  BY DEF WakeupInv, Parents
<1>8. GreenInv /\ EndInv
  BY DEF GreenInv, EndInv, None
<1>9. QED
  BY <1>1, <1>2, <1>3, <1>4, <1>5, <1>6, <1>7, <1>8 DEF IInv

LEMMA ListStep ==
  ASSUME IInv, NEW j \in Job, ListAvailableJobs(j)
  PROVE  IInv'
<1> USE DEF ListAvailableJobs, jobVars, runVars, pipelineVars
<1>1. TypeOK'
  BY RunnerType DEF RunnerStep, IInv
<1>2. PresentInv'
  BY DEF IInv, PresentInv, Available
<1>3. ConfigInv'
  BY DEF IInv, ConfigInv, ConfigCalls, CloneFails
<1>4. ExecInv'
  BY DEF IInv, ExecInv, Available
<1>5. CallInv'
  BY DEF IInv, CallInv, Final
<1>6. UpstreamInv'
  BY DEF IInv, UpstreamInv, UpstreamFinal, UpstreamSum, Final
<1>7. WakeupInv'
  BY DEF IInv, WakeupInv, UpstreamFinal, Final, Evaluates
<1>8. GreenInv' /\ EndInv'
  BY DEF IInv, GreenInv, EndInv, Earned, Final
<1>9. QED
  BY <1>1, <1>2, <1>3, <1>4, <1>5, <1>6, <1>7, <1>8 DEF IInv

LEMMA LockStep ==
  ASSUME IInv, NEW j \in Job, LockJob(j)
  PROVE  IInv'
<1> USE DEF LockJob, jobVars, runVars, pipelineVars
<1>1. TypeOK'
  BY RunnerType DEF RunnerStep, IInv
<1>2. PresentInv'
  BY DEF IInv, PresentInv, ExecInv
<1>3. ConfigInv'
  BY DEF IInv, ConfigInv, ConfigCalls, CloneFails
<1>4. ExecInv'
  BY DEF IInv, ExecInv
<1>5. CallInv'
  BY DEF IInv, CallInv, Final
<1>6. UpstreamInv'
  BY DEF IInv, UpstreamInv, UpstreamFinal, UpstreamSum, Final
<1>7. WakeupInv'
  BY DEF IInv, WakeupInv, UpstreamFinal, Final, Evaluates
<1>8. GreenInv' /\ EndInv'
  BY DEF IInv, GreenInv, EndInv, Earned, Final
<1>9. QED
  BY <1>1, <1>2, <1>3, <1>4, <1>5, <1>6, <1>7, <1>8 DEF IInv

LEMMA SendRunningStep ==
  ASSUME IInv, NEW j \in Job, SendRunning(j)
  PROVE  IInv'
<1> USE DEF SendRunning, jobVars, runVars, pipelineVars
<1> DEFINE n == SetJobStatus(j, "running", <<"runner">>)
<1> /\ handlers' = handlers \cup {n}
    /\ n.kind = "status" /\ n.job = j /\ n.status = "running"
    /\ n.pc = "write" /\ n.evals = {}
  BY DEF SetJobStatus, Call
<1> HIDE DEF n
<1>1. TypeOK'
  BY RunnerType DEF RunnerStep, IInv
<1>2. PresentInv'
  BY DEF IInv, PresentInv, ExecInv, TypeOK
<1>3. ConfigInv'
  BY GraphAssumption DEF IInv, ConfigInv, ConfigCalls, CloneFails, TypeOK
<1>4. ExecInv'
  BY DEF IInv, ExecInv, TypeOK
<1>5. CallInv'
  BY DEF IInv, CallInv, ExecInv, Final, TypeOK
<1>6. UpstreamInv'
  BY DEF IInv, UpstreamInv, UpstreamFinal, UpstreamSum, Final
<1>7. WakeupInv'
  BY DEF IInv, WakeupInv, UpstreamFinal, Final, Evaluates
<1>8. GreenInv' /\ EndInv'
  BY DEF IInv, GreenInv, EndInv, Earned, Final
<1>9. QED
  BY <1>1, <1>2, <1>3, <1>4, <1>5, <1>6, <1>7, <1>8 DEF IInv

LEMMA SendEmptyStep ==
  ASSUME IInv, SendEmptyConfigFile
  PROVE  IInv'
<1> USE DEF SendEmptyConfigFile, jobVars, runVars, pipelineVars
<1>1. TypeOK'
  BY RunnerType DEF RunnerStep, IInv
<1>2. /\ exec[Clone] = "running" /\ exec'[Clone] = "extracted"
      /\ \A j \in Job : j # Clone => exec'[j] = exec[j]
  BY GraphAssumption DEF IInv, TypeOK
<1>3. PresentInv'
  BY <1>2 DEF IInv, PresentInv, ExecInv, TypeOK
<1>4. ConfigInv'
  BY <1>2 DEF IInv, ConfigInv, ConfigCalls, CloneFails, TypeOK
<1>5. ExecInv'
  BY <1>2, GraphAssumption DEF IInv, ExecInv, TypeOK
<1>6. CallInv'
  BY <1>2 DEF IInv, CallInv, ExecInv, Final, TypeOK
<1>7. UpstreamInv'
  BY DEF IInv, UpstreamInv, UpstreamFinal, UpstreamSum, Final
<1>8. WakeupInv'
  BY DEF IInv, WakeupInv, UpstreamFinal, Final, Evaluates
<1>9. GreenInv' /\ EndInv'
  BY DEF IInv, GreenInv, EndInv, Earned, Final
<1> QED
  BY <1>1, <1>3, <1>4, <1>5, <1>6, <1>7, <1>8, <1>9 DEF IInv

LEMMA SendConfigStep ==
  ASSUME IInv, SendConfigFile
  PROVE  IInv'
<1> USE DEF SendConfigFile, jobVars, runVars, pipelineVars
<1> DEFINE n == Call("config", Clone, "created", <<"runner">>, "fetch")
<1> /\ handlers' = handlers \cup {n}
    /\ n.kind = "config" /\ n.job = Clone /\ n.pc = "fetch"
    /\ n.evals = {}
  BY DEF Call
<1> HIDE DEF n
<1>1. TypeOK'
  BY RunnerType DEF RunnerStep, IInv
<1>2. PresentInv'
  BY DEF IInv, PresentInv, ExecInv, TypeOK
<1>3. ConfigInv'
  <2>1. ConfigCalls = {} /\ present = {Clone}
    BY DEF IInv, ConfigInv
  <2>2. ~CloneFails
    BY GraphAssumption DEF CloneFails, IInv, CallInv, ExecInv
  <2>3. ConfigCalls' = {n} /\ ~CloneFails'
    BY <2>1, <2>2 DEF ConfigCalls, CloneFails
  <2>4. QED
    BY <2>1, <2>3, GraphAssumption DEF IInv, ConfigInv, TypeOK, ConfigCalls
<1>4. ExecInv'
  BY GraphAssumption DEF IInv, ExecInv, TypeOK
<1>5. CallInv'
  BY GraphAssumption DEF IInv, CallInv, ExecInv, Final, TypeOK
<1>6. UpstreamInv'
  BY DEF IInv, UpstreamInv, UpstreamFinal, UpstreamSum, Final
<1>7. WakeupInv'
  BY DEF IInv, WakeupInv, UpstreamFinal, Final, Evaluates
<1>8. GreenInv' /\ EndInv'
  BY DEF IInv, GreenInv, EndInv, Earned, Final
<1>9. QED
  BY <1>1, <1>2, <1>3, <1>4, <1>5, <1>6, <1>7, <1>8 DEF IInv

LEMMA SendFinalStep ==
  ASSUME IInv, StatusInOrder, NEW j \in Job, NEW s \in {"success", "failure"},
         SendFinalStatus(j, s)
  PROVE  IInv'
<1> USE DEF SendFinalStatus, jobVars, runVars, pipelineVars
<1> DEFINE n == SetJobStatus(j, s, <<"runner">>)
<1> /\ handlers' = handlers \cup {n}
    /\ n.kind = "status" /\ n.job = j /\ n.status = s
    /\ n.pc = "write" /\ n.evals = {}
  BY DEF SetJobStatus, Call
<1> HIDE DEF n
<1>0. /\ exec[j] \in {"running", "extracted"} /\ j \in locked /\ j \in present
      /\ ~Final(j)
  BY DEF IInv, ExecInv, Final, IsFinalStatus, FinalStatuses, TypeOK
<1>1. TypeOK'
  BY RunnerType DEF RunnerStep, IInv
<1>2. PresentInv'
  BY <1>0 DEF IInv, PresentInv, TypeOK
<1>3. ConfigInv'
  <2>1. CASE j # Clone \/ s = "success"
    <3>1. ConfigCalls' = ConfigCalls /\ (CloneFails' <=> CloneFails)
      BY <2>1 DEF ConfigCalls, CloneFails
    <3>2. exec'[Clone] \in {"idle", "running"} => exec[Clone] \in {"idle", "running"}
      BY GraphAssumption DEF IInv, TypeOK
    <3>3. QED
      BY <3>1, <3>2 DEF IInv, ConfigInv, ConfigCalls
  <2>2. CASE j = Clone /\ s = "failure"
    <3>1. ConfigCalls = {} /\ present = {Clone}
      BY <2>2 DEF IInv, ConfigInv
    <3>2. ConfigCalls' = {}
      BY <3>1 DEF ConfigCalls
    <3>3. QED
      BY <3>1, <3>2 DEF ConfigInv, ConfigCalls
  <2>3. QED
    BY <2>1, <2>2
<1>4. ExecInv'
  BY <1>0 DEF IInv, ExecInv, TypeOK
<1>5. CallInv'
  <2>1. \A h \in handlers : h.kind = "status" /\ h.job = j =>
          /\ h.pc # "write" /\ h.status \notin {"success", "failure"}
    BY <1>0 DEF IInv, CallInv, Settled
  <2>2. QED
    BY <1>0, <2>1 DEF IInv, CallInv, Final, TypeOK
<1>6. UpstreamInv'
  BY DEF IInv, UpstreamInv, UpstreamFinal, UpstreamSum, Final
<1>7. WakeupInv'
  BY DEF IInv, WakeupInv, UpstreamFinal, Final, Evaluates
<1>8. GreenInv' /\ EndInv'
  BY DEF IInv, GreenInv, EndInv, Earned, Final
<1>9. QED
  BY <1>1, <1>2, <1>3, <1>4, <1>5, <1>6, <1>7, <1>8 DEF IInv

\* The calls of setPipelineStatus and setPipelineEnd leave jobs alone: what is
\* invariant about jobs stays so when a call h goes on to such a call n, or
\* returns.
LEMMA PipelineCallStep ==
  ASSUME IInv, UNCHANGED <<jobVars, runVars>>, NEW h \in handlers, NEW n,
         h.pc \in {"compute", "current", "set", "post", "error"},
         handlers' = handlers \ {h} \/ handlers' = (handlers \ {h}) \cup {n},
         n.kind = h.kind, n.job = h.job, n.status = h.status,
         n.pc \in {"current", "set", "post"}, n.evals = h.evals,
         h.kind = "config" => pipeline'.error /\ n.result = "failure",
         pipeline.error => pipeline'.error
  PROVE  /\ PresentInv' /\ ConfigInv' /\ ExecInv'
         /\ CallInv' /\ UpstreamInv' /\ WakeupInv'
<1> USE DEF jobVars, runVars
<1>2. PresentInv'
  BY DEF IInv, PresentInv
<1>3. ConfigInv'
  <2>1. \A k \in ConfigCalls' :
          \/ k \in ConfigCalls /\ k # h
          \/ k = n /\ h \in ConfigCalls
    BY DEF ConfigCalls
  <2>2. \A k, l \in ConfigCalls' : k = l
    BY <2>1 DEF IInv, ConfigInv
  <2>3. ConfigCalls = {} => ConfigCalls' = {}
    BY <2>1
  <2>4. CloneFails' => CloneFails
    BY DEF CloneFails
  <2>5. \A k \in ConfigCalls' : k.job = Clone
    BY <2>1 DEF IInv, ConfigInv, ConfigCalls
  <2>6. \A k \in ConfigCalls' :
       /\ k.pc \in {"fetch", "insert", "error"} => present = {Clone}
       /\ k.pc = "notify" => present = Job
       /\ k.pc = "insert" => \/ k.status \in {"created", "running"}
                             \/ k.status = "success" /\ status[Clone] = "success"
       /\ k.pc \in {"current", "set", "post"} =>
            pipeline'.error /\ k.result = "failure"
       /\ k.pc \notin {"write", "compute"}
    <3>1. CASE \A k \in ConfigCalls' : k \in ConfigCalls
      BY <3>1 DEF IInv, ConfigInv
    <3>2. CASE \E k \in ConfigCalls' : k \notin ConfigCalls
      <4>1. n \in ConfigCalls' /\ h.kind = "config"
        BY <3>2, <2>1 DEF ConfigCalls
      <4>2. \A k \in ConfigCalls' : k = n
        BY <2>2, <4>1
      <4>3. QED
        BY <4>1, <4>2
    <3>3. QED
      BY <3>1, <3>2
  <2>7. QED
    <3>1. \A k \in handlers' : k.kind = "config" => k.job = Clone
      BY <2>5 DEF ConfigCalls
    <3>2. exec[Clone] \in {"idle", "running"} => ConfigCalls' = {} /\ present = {Clone}
      BY <2>3 DEF IInv, ConfigInv
    <3>3. CloneFails' => ConfigCalls' = {} /\ present = {Clone}
      BY <2>3, <2>4 DEF IInv, ConfigInv
    <3>4. QED
      BY <3>1, <2>2, <3>2, <3>3, <2>6 DEF ConfigInv
<1>4. ExecInv'
  BY DEF IInv, ExecInv
<1>5. CallInv'
  BY DEF IInv, CallInv, Final
<1>6. UpstreamInv'
  BY DEF IInv, UpstreamInv, UpstreamFinal, UpstreamSum, Final
<1>7. WakeupInv'
  BY DEF IInv, WakeupInv, UpstreamFinal, Final, Evaluates
<1>8. QED
  BY <1>2, <1>3, <1>4, <1>5, <1>6, <1>7

LEMMA ComputeStep ==
  ASSUME IInv, NEW h \in handlers, ComputeStatus(h)
  PROVE  IInv'
<1> USE DEF ComputeStatus, jobVars, runVars, pipelineVars
<1> DEFINE s == ComputePipelineStatus(present, status, AllowFailure)
           n == [h EXCEPT !.pc = "current", !.result = s]
<1>n. /\ n.kind = h.kind /\ n.job = h.job /\ n.status = h.status
      /\ n.pc = "current" /\ n.evals = h.evals /\ n.result = s
  BY DEF IInv, TypeOK, Handler
<1>h. handlers' = handlers \ {h} \/ handlers' = (handlers \ {h}) \cup {n}
  BY DEF Return
<1>c. h.kind # "config"
  BY DEF IInv, ConfigInv, ConfigCalls
<1>v. \A j \in present :
        status[j] \in {"created", "running", "success", "failure", "skipped"}
  BY StatusValues DEF IInv, TypeOK
<1>1. TypeOK'
  BY ServerType DEF ServerStep, HandlerStep, IInv
<1>2. /\ PresentInv' /\ ConfigInv' /\ ExecInv'
      /\ CallInv' /\ UpstreamInv' /\ WakeupInv'
  <2> HIDE DEF n
  <2>1. QED
    BY <1>n, <1>h, <1>c, PipelineCallStep
<1>3. s \in {"success", "partial"} /\ ~OnlyHasSucceededCloneJob(s)
        => present = Job /\ Earned
  <2>1. CASE present = {Clone}
    <3>1. s = "success" \/ s # "partial"
      BY <2>1, OptionsAssumption DEF ComputePipelineStatus
    <3>2. QED
      BY <2>1, <3>1 DEF OnlyHasSucceededCloneJob
  <2>2. CASE present = Job
    BY <2>2, <1>v, ComputeGreen DEF Earned
  <2>3. QED
    BY <2>1, <2>2 DEF IInv, PresentInv
<1>4. GreenInv'
  <2>1. \A k \in handlers' : k \in handlers \/ (k = n /\ ~OnlyHasSucceededCloneJob(s))
    BY DEF Return
  <2>2. Earned' <=> Earned
    BY DEF Earned
  <2> HIDE DEF n, s
  <2>3. QED
    BY <1>n, <1>3, <2>1, <2>2 DEF IInv, GreenInv
<1>5. EndInv'
  <2>1. CASE ending' => ending
    BY <2>1 DEF IInv, EndInv, Final
  <2>2. CASE ~OnlyHasSucceededCloneJob(s) /\ s \notin {"running", "created"}
    <3>1. \A j \in present : Final(j)
      <4>1. s \in FinalStatuses \/ s = "unknown"
        BY <2>2, ComputeType DEF PipelineStatuses, FinalStatuses, JobStatuses
      <4>2. s # "unknown"
        BY <1>v DEF ComputePipelineStatus
      <4>3. QED
        BY <4>1, <4>2, <1>v, ComputeFinal DEF Final
    <3>2. present = Job \/ status[Clone] = "failure"
      <4>1. CASE present = {Clone}
        <5>1. status[Clone] \in {"success", "failure"}
          <6>1. status[Clone] # "skipped"
            BY DEF IInv, ExecInv
          <6>2. QED
            BY <6>1, <3>1, <1>v, <4>1 DEF Final, IsFinalStatus, FinalStatuses
        <5>2. QED
          BY <5>1, <4>1, <2>2 DEF OnlyHasSucceededCloneJob, ComputePipelineStatus
      <4>2. QED
        BY <4>1 DEF IInv, PresentInv
    <3>3. QED
      BY <3>1, <3>2 DEF EndInv, Final
  <2>3. QED
    BY <2>1, <2>2 DEF EndsPipeline
<1>6. QED
  BY <1>1, <1>2, <1>4, <1>5 DEF IInv

\* setPipelineStatus and setPipelineEnd.
LEMMA PipelineStatusStep ==
  ASSUME IInv, NEW h \in handlers,
         \/ ReadPipelineStatus(h) \/ WritePipelineStatus(h)
         \/ SendStatusToGitServer(h) \/ GitServerFails(h)
  PROVE  IInv'
<1> USE DEF jobVars, runVars, pipelineVars
<1> DEFINE n == [h EXCEPT !.pc = IF h.pc = "current" THEN "set" ELSE "post"]
<1>n. /\ n.kind = h.kind /\ n.job = h.job /\ n.status = h.status
      /\ n.pc \in {"current", "set", "post"} /\ n.evals = h.evals
      /\ n.result = h.result
  BY DEF IInv, TypeOK, Handler
<1>u. /\ UNCHANGED <<jobVars, runVars>>
      /\ h.pc \in {"current", "set", "post"}
      /\ handlers' = handlers \ {h} \/ handlers' = (handlers \ {h}) \cup {n}
      /\ pipeline'.error = pipeline.error /\ pipeline'.end = pipeline.end
      /\ pipeline'.status \in {pipeline.status, h.result}
      /\ ending' => ending \/ h.kind = "config"
      /\ commit' = "success" => commit = "success" \/ h.result \in {"success", "partial"}
  <2>1. CASE ReadPipelineStatus(h)
    BY <2>1, Zenon DEF ReadPipelineStatus, PipelineStatusDone, Goto, Return, IInv, TypeOK
  <2>2. CASE WritePipelineStatus(h)
    BY <2>2 DEF WritePipelineStatus, Goto, IInv, TypeOK
  <2>3. CASE SendStatusToGitServer(h)
    <3>1. CommitState(GitServer, h.result) = "success" => h.result \in {"success", "partial"}
      BY CommitStateGreen DEF IInv, TypeOK, Handler
    <3>2. QED
      BY <2>3, <3>1, Zenon DEF SendStatusToGitServer, PipelineStatusDone, Return
  <2>4. CASE GitServerFails(h)
    BY <2>4, Zenon DEF GitServerFails, Return
  <2>5. QED
    BY <2>1, <2>2, <2>3, <2>4
<1>e. h.kind = "config" => pipeline.error /\ h.result = "failure"
  BY <1>u DEF IInv, ConfigInv, ConfigCalls
<1> HIDE DEF n
<1>1. TypeOK'
  BY ServerType DEF ServerStep, HandlerStep, IInv
<1>2. /\ PresentInv' /\ ConfigInv' /\ ExecInv'
      /\ CallInv' /\ UpstreamInv' /\ WakeupInv'
  BY <1>n, <1>u, <1>e, PipelineCallStep
<1>3. GreenInv'
  <2>1. Earned' <=> Earned
    BY <1>u DEF Earned
  <2>2. h.result \in {"success", "partial"} => present = Job /\ Earned
    BY <1>u DEF IInv, GreenInv
  <2>3. \A k \in handlers' : k \in handlers \/ k = n
    BY <1>u
  <2>4. QED
    BY <1>n, <1>u, <2>1, <2>2, <2>3 DEF IInv, GreenInv
<1>4. EndInv'
  BY <1>u, <1>e DEF IInv, EndInv, Final
<1>5. QED
  BY <1>1, <1>2, <1>3, <1>4 DEF IInv

LEMMA SetEndStep ==
  ASSUME IInv, SetPipelineEnd
  PROVE  IInv'
<1> USE DEF SetPipelineEnd, jobVars, runVars, pipelineVars
<1>1. TypeOK'
  BY ServerType DEF ServerStep, IInv
<1>2. PresentInv' /\ ExecInv'
  BY DEF IInv, PresentInv, ExecInv
<1>3. ConfigInv'
  BY DEF IInv, ConfigInv, ConfigCalls, CloneFails, TypeOK
<1>4. CallInv'
  BY DEF IInv, CallInv, Final
<1>5. UpstreamInv'
  BY DEF IInv, UpstreamInv, UpstreamFinal, UpstreamSum, Final
<1>6. WakeupInv'
  BY DEF IInv, WakeupInv, UpstreamFinal, Final, Evaluates
<1>7. GreenInv' /\ EndInv'
  BY DEF IInv, GreenInv, EndInv, Earned, Final, TypeOK
<1>8. QED
  BY <1>1, <1>2, <1>3, <1>4, <1>5, <1>6, <1>7 DEF IInv

LEMMA SetErrorStep ==
  ASSUME IInv, NEW h \in handlers, SetPipelineError(h)
  PROVE  IInv'
<1> USE DEF SetPipelineError, jobVars, runVars, pipelineVars
<1> DEFINE n == [h EXCEPT !.pc = "current", !.result = "failure"]
<1>n. /\ n.kind = h.kind /\ n.job = h.job /\ n.status = h.status
      /\ n.pc = "current" /\ n.evals = h.evals /\ n.result = "failure"
  BY DEF IInv, TypeOK, Handler
<1>h. handlers' = (handlers \ {h}) \cup {n}
  BY DEF Return
<1>p. pipeline'.error /\ pipeline'.status = pipeline.status
  BY DEF IInv, TypeOK
<1> HIDE DEF n
<1>1. TypeOK'
  BY ServerType DEF ServerStep, HandlerStep, IInv
<1>2. /\ PresentInv' /\ ConfigInv' /\ ExecInv'
      /\ CallInv' /\ UpstreamInv' /\ WakeupInv'
  BY <1>n, <1>h, <1>p, PipelineCallStep
<1>3. GreenInv'
  BY <1>n, <1>h, <1>p DEF IInv, GreenInv, Earned
<1>4. EndInv'
  BY <1>p DEF EndInv
<1>5. QED
  BY <1>1, <1>2, <1>3, <1>4 DEF IInv

\* Steps of a call that change nothing but its own record: what is invariant
\* about the database stays so.
LEMMA OwnRecordStep ==
  ASSUME IInv, NEW h \in handlers, NEW n, handlers' = (handlers \ {h}) \cup {n},
         UNCHANGED <<jobVars, runVars, pipelineVars>>,
         n.kind = h.kind, n.job = h.job,
         h.kind = "status" => n.status = h.status,
         n.pc \in {"insert", "error", "read", "children", "compute"}
  PROVE  PresentInv' /\ ExecInv' /\ GreenInv' /\ EndInv'
<1> USE DEF jobVars, runVars, pipelineVars
<1>1. PresentInv' /\ ExecInv'
  BY DEF IInv, PresentInv, ExecInv
<1>2. GreenInv'
  BY DEF IInv, GreenInv, Earned
<1>3. EndInv'
  BY DEF IInv, EndInv, Final
<1>4. QED
  BY <1>1, <1>2, <1>3

LEMMA FetchStep ==
  ASSUME IInv, NEW h \in handlers, FetchCloneJob(h)
  PROVE  IInv'
<1> USE DEF FetchCloneJob, jobVars, runVars, pipelineVars
<1>p. PICK valid \in ConfigValid :
        handlers' = Return(h) \cup
          {[h EXCEPT !.pc = IF valid THEN "insert" ELSE "error",
                     !.status = status[Clone]]}
  OBVIOUS
<1> DEFINE pc == IF valid THEN "insert" ELSE "error"
           n == [h EXCEPT !.pc = pc, !.status = status[Clone]]
<1>n. /\ n.kind = h.kind /\ n.job = h.job /\ n.status = status[Clone]
      /\ n.pc \in {"insert", "error"} /\ n.evals = h.evals
  BY DEF IInv, TypeOK, Handler
<1>h. handlers' = (handlers \ {h}) \cup {n}
  BY <1>p DEF Return
<1>c. h.kind = "config"
  BY DEF IInv, CallInv, TypeOK, Handler
<1>d. ConfigCalls = {h} /\ ConfigCalls' = {n} /\ present = {Clone}
  <2>1. ConfigCalls = {h}
    BY <1>c DEF IInv, ConfigInv, ConfigCalls
  <2>2. ConfigCalls' = {n}
    BY <2>1, <1>n, <1>h, <1>c DEF ConfigCalls
  <2>3. QED
    BY <2>1, <2>2 DEF IInv, ConfigInv
<1> HIDE DEF n, pc
<1>1. TypeOK'
  BY ServerType DEF ServerStep, HandlerStep, IInv
<1>2. PresentInv' /\ ExecInv' /\ GreenInv' /\ EndInv'
  BY <1>n, <1>h, <1>c, OwnRecordStep
<1>3. ConfigInv'
  <2>1. CloneFails' <=> CloneFails
    BY <1>n, <1>h, <1>c DEF CloneFails
  <2>2. ~CloneFails /\ exec[Clone] \notin {"idle", "running"}
    BY <1>d DEF IInv, ConfigInv
  <2>3. status[Clone] \in {"created", "running", "success"}
    BY <2>2, StatusValues, GraphAssumption DEF CloneFails, IInv, ExecInv
  <2>4. \A k \in handlers' : k.kind = "config" => k = n
    BY <1>d DEF ConfigCalls
  <2>5. n.job = Clone
    BY <1>n, <1>c DEF IInv, ConfigInv
  <2>6. QED
    BY <1>n, <1>d, <2>1, <2>2, <2>3, <2>4, <2>5 DEF ConfigInv
<1>4. CallInv'
  BY <1>n, <1>h, <1>c DEF IInv, CallInv, Final
<1>5. UpstreamInv'
  BY <1>n, <1>h DEF IInv, UpstreamInv, UpstreamFinal, UpstreamSum, Final
<1>6. WakeupInv'
  BY <1>n, <1>h DEF IInv, WakeupInv, UpstreamFinal, Final, Evaluates
<1>7. QED
  BY <1>1, <1>2, <1>3, <1>4, <1>5, <1>6 DEF IInv

LEMMA NotifyStep ==
  ASSUME IInv, NEW h \in handlers, NotifyRunners(h)
  PROVE  IInv'
<1> USE DEF NotifyRunners, jobVars, runVars, pipelineVars
<1> DEFINE n == [h EXCEPT !.pc = "read"]
<1>n. /\ n.kind = h.kind /\ n.job = h.job /\ n.status = h.status
      /\ n.pc = "read" /\ n.evals = h.evals
  BY DEF IInv, TypeOK, Handler
<1>h. handlers' = (handlers \ {h}) \cup {n}
  BY DEF Goto
<1>c. h.kind = "config"
  BY DEF IInv, CallInv, TypeOK, Handler
<1>d. ConfigCalls = {h} /\ ConfigCalls' = {n} /\ present = Job
  <2>1. ConfigCalls = {h}
    BY <1>c DEF IInv, ConfigInv, ConfigCalls
  <2>2. ConfigCalls' = {n}
    BY <2>1, <1>n, <1>h, <1>c DEF ConfigCalls
  <2>3. QED
    BY <2>1, <2>2 DEF IInv, ConfigInv
<1> HIDE DEF n
<1>1. TypeOK'
  BY ServerType DEF ServerStep, HandlerStep, IInv
<1>2. PresentInv' /\ ExecInv' /\ GreenInv' /\ EndInv'
  BY <1>n, <1>h, <1>c, OwnRecordStep
<1>3. ConfigInv'
  <2>1. CloneFails' <=> CloneFails
    BY <1>n, <1>h, <1>c DEF CloneFails
  <2>2. ~CloneFails /\ exec[Clone] \notin {"idle", "running"}
    BY <1>d DEF IInv, ConfigInv
  <2>3. \A k \in handlers' : k.kind = "config" => k = n
    BY <1>d DEF ConfigCalls
  <2>4. n.job = Clone
    BY <1>n, <1>c DEF IInv, ConfigInv
  <2>5. QED
    BY <1>n, <1>d, <2>1, <2>2, <2>3, <2>4 DEF ConfigInv
<1>4. CallInv'
  BY <1>n, <1>h, <1>c DEF IInv, CallInv, Final
<1>5. UpstreamInv'
  BY <1>n, <1>h DEF IInv, UpstreamInv, UpstreamFinal, UpstreamSum, Final
<1>6. WakeupInv'
  BY <1>n, <1>h DEF IInv, WakeupInv, UpstreamFinal, Final, Evaluates
<1>7. QED
  BY <1>1, <1>2, <1>3, <1>4, <1>5, <1>6 DEF IInv

\* ConfigInv when a call h goes on to n, both before or both after the
\* insertion of the config jobs.
GoesOn(h, n) ==
  /\ n.kind = h.kind /\ n.job = h.job /\ n.status = h.status
  /\ n.pc \in {"read", "children", "compute"}
  /\ h.kind = "config" => n.pc # "compute"
  /\ present' = present /\ exec' = exec /\ pipeline' = pipeline
  /\ \/ status'[Clone] = status[Clone]
     \/ ~Final(Clone) /\ (status'[Clone] = "failure" => CloneFails)
  /\ \A k \in handlers' : \/ k \in handlers /\ k # h
                          \/ k = n
                          \/ k.kind = "status" /\ k.status # "failure"

LEMMA ConfigGoesOn ==
  ASSUME IInv, NEW h \in handlers, NEW n, GoesOn(h, n)
  PROVE  ConfigInv'
<1> USE DEF GoesOn
<1>1. \A k \in ConfigCalls' : (k \in ConfigCalls /\ k # h) \/ (k = n /\ h \in ConfigCalls)
  BY DEF ConfigCalls
<1>2. \A k, l \in ConfigCalls' : k = l
  BY <1>1 DEF IInv, ConfigInv
<1>3. ConfigCalls = {} => ConfigCalls' = {}
  BY <1>1
<1>4. CloneFails' => CloneFails
  BY DEF CloneFails
<1>5. \A k \in handlers' : k.kind = "config" => k.job = Clone
  BY <1>1 DEF IInv, ConfigInv, ConfigCalls
<1>6. \A k \in ConfigCalls' : k \in ConfigCalls \/ k.pc \in {"read", "children"}
  BY <1>1 DEF ConfigCalls
<1>7. \A k \in ConfigCalls' :
        /\ k.pc \in {"fetch", "insert", "error"} => present = {Clone}
        /\ k.pc = "notify" => present = Job
        /\ k.pc = "insert" => \/ k.status \in {"created", "running"}
                              \/ k.status = "success" /\ status'[Clone] = "success"
        /\ k.pc \in {"current", "set", "post"} =>
             pipeline.error /\ k.result = "failure"
        /\ k.pc \notin {"write", "compute"}
  BY <1>6 DEF IInv, ConfigInv, Final, IsFinalStatus, FinalStatuses
<1>8. QED
  BY <1>2, <1>3, <1>4, <1>5, <1>7 DEF IInv, ConfigInv

LEMMA ReadStep ==
  ASSUME IInv, NEW h \in handlers, ReadJobs(h)
  PROVE  IInv'
<1> USE DEF ReadJobs, jobVars, runVars, pipelineVars
<1> DEFINE E == Evaluations(h.job)
           n == [h EXCEPT !.pc = "children", !.evals = E]
<1>n. /\ n.kind = h.kind /\ n.job = h.job /\ n.status = h.status
      /\ n.pc = "children" /\ n.evals = E
  BY DEF IInv, TypeOK, Handler
<1>h. handlers' = (handlers \ {h}) \cup {n}
  BY DEF Return
<1>j. h.job \in Job /\ present \subseteq Job
  BY DEF IInv, TypeOK, Handler
<1>v. \A j \in Job :
        status[j] \in {"created", "running", "success", "failure", "skipped"}
  BY StatusValues DEF IInv
<1>E. \A e \in E : /\ e.child \in present /\ h.job \in Parents(e.child)
                   /\ UpstreamFinal(e.child) /\ e.upstream = UpstreamSum(e.child)
  <2>1. SUFFICES ASSUME NEW e \in E
                 PROVE  /\ e.child \in present /\ h.job \in Parents(e.child)
                        /\ UpstreamFinal(e.child) /\ e.upstream = UpstreamSum(e.child)
    OBVIOUS
  <2>2. /\ e.child \in Children(h.job) \cap present /\ e.upstream \in FinalStatuses
        /\ e.upstream = UpstreamSum(e.child)
    BY DEF Evaluations, UpstreamSum
  <2>3. UpstreamFinal(e.child)
    BY <2>2, <1>v, <1>j, UpstreamType, ComputeFinal DEF UpstreamSum, UpstreamFinal, Final
  <2>4. QED
    BY <2>2, <2>3 DEF Children
<1>F. \A j \in present : h.job \in Parents(j) /\ UpstreamFinal(j)
        => \E e \in E : e.child = j
  <2>1. SUFFICES ASSUME NEW j \in present, h.job \in Parents(j), UpstreamFinal(j)
                 PROVE  \E e \in E : e.child = j
    OBVIOUS
  <2>2. UpstreamSum(j) \in FinalStatuses
    BY <2>1, <1>v, <1>j, UpstreamType, ComputeFinal DEF UpstreamSum, UpstreamFinal, Final
  <2>3. j \in Children(h.job) \cap present
    BY <2>1, <1>j DEF Children
  <2>4. [child |-> j, upstream |-> UpstreamSum(j)] \in E
    BY <2>2, <2>3 DEF Evaluations, UpstreamSum
  <2>5. QED
    BY <2>4
<1> HIDE DEF n, E
<1>1. TypeOK'
  BY ServerType DEF ServerStep, HandlerStep, IInv
<1>2. PresentInv' /\ ExecInv' /\ GreenInv' /\ EndInv'
  BY <1>n, <1>h, OwnRecordStep
<1>3. ConfigInv'
  <2>1. h.kind = "config" => n.pc # "compute"
    BY <1>n
  <2>2. GoesOn(h, n)
    BY <1>n, <1>h, <2>1 DEF GoesOn
  <2>3. QED
    BY <2>2, ConfigGoesOn
<1>4. CallInv'
  <2>1. h.kind = "status" => h.status # "running"
    BY DEF IInv, CallInv
  <2>2. QED
    BY <1>n, <1>h, <2>1 DEF IInv, CallInv, Final
<1>5. UpstreamInv'
  BY <1>n, <1>h, <1>E DEF IInv, UpstreamInv, UpstreamFinal, UpstreamSum, Final
<1>6. WakeupInv'
  <2>1. SUFFICES ASSUME NEW j \in present, status[j] = "created", Parents(j) # {},
                        UpstreamFinal(j),
                        upstream[j] \notin FinalStatuses
                 PROVE  \E k \in handlers' : Evaluates(k, j)
    BY DEF WakeupInv, UpstreamFinal, Final, Evaluates
  <2>2. PICK k \in handlers : Evaluates(k, j)
    BY <2>1 DEF IInv, WakeupInv
  <2>3. CASE k # h
    BY <2>2, <2>3, <1>h
  <2>4. CASE k = h
    <3>1. h.job \in Wakers(j) /\ j \in Job
      BY <2>2, <2>4, <1>j DEF Evaluates
    <3>2. PICK c \in {j} \cup (Wakers(j) \cap SkippedUpFront) : h.job \in Parents(c)
      BY <3>1, WakersStep
    <3>3. c \in present /\ UpstreamFinal(c)
      <4>1. CASE c = j
        BY <4>1, <2>1
      <4>2. CASE c \in Wakers(j)
        <5>1. c \in UpstreamJobs(j) /\ UpstreamJobs(c) \subseteq UpstreamJobs(j)
          BY <4>2, <3>1, WakersUpstream, UpstreamTrans
        <5>2. UpstreamFinal(c) /\ Final(c)
          BY <5>1, <2>1 DEF UpstreamFinal
        <5>3. c \in Job
          BY <5>1, <3>1, UpstreamType
        <5>4. QED
          BY <5>2, <5>3 DEF IInv, PresentInv, Final, IsFinalStatus, FinalStatuses
      <4>3. QED
        BY <4>1, <4>2
    <3>4. Evaluates(n, j)
      BY <3>2, <3>3, <1>F, <1>n DEF Evaluates
    <3>5. QED
      BY <3>4, <1>h
  <2>5. QED
    BY <2>3, <2>4
<1>7. QED
  BY <1>1, <1>2, <1>3, <1>4, <1>5, <1>6 DEF IInv

LEMMA ChildrenStep ==
  ASSUME IInv, NEW h \in handlers, ChildrenUpdated(h)
  PROVE  IInv'
<1> USE DEF ChildrenUpdated, jobVars, runVars, pipelineVars
<1> DEFINE n == [h EXCEPT !.pc = "compute"]
<1>n. /\ n.kind = h.kind /\ n.job = h.job /\ n.status = h.status
      /\ n.pc = "compute" /\ n.evals = h.evals
  BY DEF IInv, TypeOK, Handler
<1>h. \/ h.kind = "config" /\ handlers' = handlers \ {h}
      \/ h.kind = "status" /\ handlers' = (handlers \ {h}) \cup {n}
  BY DEF Return, Goto, IInv, TypeOK, Handler
<1> HIDE DEF n
<1>1. TypeOK'
  BY ServerType DEF ServerStep, HandlerStep, IInv
<1>2. PresentInv' /\ ExecInv' /\ GreenInv' /\ EndInv'
  <2>1. PresentInv' /\ ExecInv'
    BY DEF IInv, PresentInv, ExecInv
  <2>2. GreenInv'
    BY <1>n, <1>h DEF IInv, GreenInv, Earned
  <2>3. EndInv'
    BY DEF IInv, EndInv, Final
  <2>4. QED
    BY <2>1, <2>2, <2>3
<1>3. ConfigInv'
  <2>1. CASE h.kind = "status"
    <3>1. GoesOn(h, n)
      BY <1>n, <1>h, <2>1 DEF GoesOn
    <3>2. QED
      BY <3>1, ConfigGoesOn
  <2>2. CASE h.kind = "config"
    <3>1. ConfigCalls = {h} /\ ConfigCalls' = {}
      BY <1>h, <2>2 DEF IInv, ConfigInv, ConfigCalls
    <3>2. ~CloneFails /\ exec[Clone] \notin {"idle", "running"}
      BY <3>1 DEF IInv, ConfigInv
    <3>3. ~CloneFails'
      BY <3>2, <1>h, <2>2 DEF CloneFails
    <3>4. QED
      BY <3>1, <3>2, <3>3 DEF ConfigInv, ConfigCalls
  <2>3. QED
    BY <2>1, <2>2, <1>h
<1>4. CallInv'
  BY <1>n, <1>h DEF IInv, CallInv, Final
<1>5. UpstreamInv'
  BY <1>n, <1>h DEF IInv, UpstreamInv, UpstreamFinal, UpstreamSum, Final
<1>6. WakeupInv'
  BY <1>n, <1>h DEF IInv, WakeupInv, UpstreamFinal, Final, Evaluates
<1>7. QED
  BY <1>1, <1>2, <1>3, <1>4, <1>5, <1>6 DEF IInv

\* What is earned, and the end of a pipeline, outlast a stable step.
LEMMA EarnedStable ==
  ASSUME IInv, Stable, present' = present
  PROVE  /\ Earned => Earned'
         /\ (\A j \in present : Final(j)) => (\A j \in present' : Final(j)')
         /\ status[Clone] = "failure" => status'[Clone] = "failure"
<1> present \subseteq Job
  BY DEF IInv, TypeOK
<1>1. Earned => Earned'
  BY DEF Earned, Stable, Final, IsFinalStatus, FinalStatuses
<1>2. (\A j \in present : Final(j)) => (\A j \in present' : Final(j)')
  BY DEF Stable, Final
<1>3. status[Clone] = "failure" => status'[Clone] = "failure"
  BY GraphAssumption DEF Stable, Final, IsFinalStatus, FinalStatuses
<1>4. QED
  BY <1>1, <1>2, <1>3

\* A job in the database that has ended without having been skipped up front
\* has only ended upstream jobs.
LEMMA EndedUpstream ==
  ASSUME IInv, NEW p \in Job, Final(p), p \notin SkippedUpFront
  PROVE  UpstreamFinal(p)
<1>1. p \in present
  BY DEF IInv, PresentInv, Final, IsFinalStatus, FinalStatuses
<1>2. CASE status[p] = "skipped"
  BY <1>1, <1>2 DEF IInv, UpstreamInv
<1>3. CASE status[p] \in {"success", "failure"}
  <2>1. p \in locked
    BY <1>3 DEF IInv, ExecInv
  <2>2. CASE Parents(p) = {}
    <3>1. UpstreamJobs(p) = {}
      BY <2>2 DEF UpstreamJobs, Upstream
    <3>2. QED
      BY <3>1 DEF UpstreamFinal
  <2>3. CASE upstream[p] \in FinalStatuses
    BY <1>1, <2>3 DEF IInv, UpstreamInv
  <2>4. QED
    BY <2>1, <2>2, <2>3 DEF IInv, ExecInv
<1>4. QED
  BY <1>2, <1>3, StatusValues DEF IInv, Final, IsFinalStatus, FinalStatuses

\* The last upstream job of a job to end is one of its wakers.
LEMMA LastToEnd ==
  ASSUME IInv, NEW j \in Job, NEW a \in UpstreamJobs(j), ~Final(a),
         \A p \in UpstreamJobs(j) : p # a => Final(p)
  PROVE  a \in Wakers(j)
<1> DEFINE V == Wakers(j)
           S == V \cup UNION {UpstreamJobs(p) : p \in V \ SkippedUpFront}
<1>1. S \in SUBSET Job /\ Parents(j) \subseteq S
  BY WakersClosed, UpstreamType
<1>2. ASSUME NEW i \in S PROVE Parents(i) \subseteq S
  <2>1. CASE i \in V \cap SkippedUpFront
    BY <2>1, WakersClosed
  <2>2. CASE i \in V \ SkippedUpFront
    BY <2>2, WakersClosed, ParentsUpstream
  <2>3. CASE i \notin V
    <3>1. PICK p \in V \ SkippedUpFront : i \in UpstreamJobs(p)
      BY <2>3
    <3>2. p \in Job /\ i \in Job
      BY <3>1, <1>1, WakersClosed
    <3>3. Parents(i) \subseteq UpstreamJobs(p)
      BY <3>1, <3>2, ParentsUpstream, UpstreamTrans
    <3>4. QED
      BY <3>1, <3>3
  <2>4. QED
    BY <2>1, <2>2, <2>3
<1>3. a \in S
  BY <1>1, <1>2 DEF UpstreamJobs, Upstream
<1>4. SUFFICES ASSUME a \notin V PROVE FALSE
  OBVIOUS
<1>5. PICK p \in V \ SkippedUpFront : a \in UpstreamJobs(p)
  BY <1>3, <1>4
<1>6. p \in UpstreamJobs(j) /\ p \in Job /\ p # a
  BY <1>4, <1>5, WakersClosed, WakersUpstream
<1>7. UpstreamFinal(p)
  BY <1>5, <1>6, EndedUpstream
<1>8. QED
  BY <1>5, <1>7 DEF UpstreamFinal

LEMMA WriteStep ==
  ASSUME IInv, NEW h \in handlers, WriteStatus(h)
  PROVE  IInv'
<1> USE DEF WriteStatus, jobVars, runVars, pipelineVars
<1> DEFINE pc == IF IsFinalStatus(h.status) THEN "read" ELSE "compute"
           n == [h EXCEPT !.pc = pc]
<1>n. /\ n.kind = h.kind /\ n.job = h.job /\ n.status = h.status
      /\ n.pc = pc /\ n.evals = h.evals
  BY DEF IInv, TypeOK, Handler
<1>h. handlers' = (handlers \ {h}) \cup {n}
  BY DEF Goto
<1>j. h.job \in Job /\ h.job \in present /\ h.kind = "status"
  <2>1. h.job \in Job /\ h.kind \in {"status", "config"}
    BY DEF IInv, TypeOK, Handler
  <2>2. h.kind # "config"
    BY DEF IInv, ConfigInv, ConfigCalls
  <2>3. QED
    BY <2>1, <2>2 DEF IInv, CallInv
<1>s. /\ status'[h.job] = h.status
      /\ \A j \in Job : j # h.job => status'[j] = status[j]
  BY <1>j DEF IInv, TypeOK
<1>c. \/ h.status = "running" /\ exec[h.job] \in {"running", "extracted"}
         /\ ~Final(h.job) /\ pc = "compute"
      \/ h.status \in {"success", "failure"} /\ exec[h.job] = "done"
         /\ ~Final(h.job) /\ pc = "read"
      \/ h.status = "skipped" /\ status[h.job] = "skipped" /\ pc = "read"
  BY <1>j DEF IInv, CallInv, ExecInv, Final, IsFinalStatus, FinalStatuses
<1>t. Stable
  BY <1>s, <1>c DEF Stable
<1>f. IsFinalStatus(h.status) <=> pc = "read"
  BY <1>c
<1> HIDE DEF n, pc
<1>1. TypeOK'
  BY ServerType DEF ServerStep, HandlerStep, IInv
<1>2. PresentInv'
  BY <1>j, <1>s DEF IInv, PresentInv
<1>3. ConfigInv'
  <2>1. \/ status'[Clone] = status[Clone]
        \/ ~Final(Clone) /\ (status'[Clone] = "failure" => CloneFails)
    BY <1>s, <1>c, <1>j, GraphAssumption DEF CloneFails
  <2>2. GoesOn(h, n)
    BY <1>n, <1>h, <1>j, <1>c, <2>1 DEF GoesOn
  <2>3. QED
    BY <2>2, ConfigGoesOn
<1>4. ExecInv'
  BY <1>s, <1>c, <1>j, GraphAssumption DEF IInv, ExecInv, TypeOK
<1>5. CallInv'
  <2>1. \A k \in handlers : k.kind = "status" /\ k # h /\ k.job = h.job =>
          /\ h.status # "skipped" => k.status # "skipped"
          /\ h.status \in {"success", "failure"} => k.status \notin {"success", "failure"}
          /\ h.status = "running" /\ k.status \in {"success", "failure"} => FALSE
    <3>1. h.status # "skipped" => status[h.job] # "skipped"
      BY <1>c DEF Final, IsFinalStatus, FinalStatuses
    <3>2. QED
      BY <3>1, <1>j, <1>c DEF IInv, CallInv
  <2>2. QED
    BY <1>n, <1>h, <1>s, <1>j, <1>c, <2>1 DEF IInv, CallInv, Final
<1>6. UpstreamInv'
  <2>1. \A j \in Job : UpstreamFinal(j) =>
                         UpstreamFinal(j)' /\ UpstreamSum(j)' = UpstreamSum(j)
    BY <1>t, SumStable
  <2>2. \A j \in Job : status'[j] = "skipped" <=> status[j] = "skipped"
    BY <1>s, <1>c DEF Final, IsFinalStatus, FinalStatuses
  <2>3. \A e \in h.evals : e.child \in Job
    BY DEF IInv, TypeOK, Handler
  <2>4. \A k \in handlers' : \A e \in k.evals :
          e.child \in Job /\ \E l \in handlers : e \in l.evals
    BY <1>n, <1>h DEF IInv, TypeOK, Handler
  <2>5. present \subseteq Job
    BY DEF IInv, TypeOK
  <2>6. QED
    BY <2>1, <2>2, <2>4, <2>5 DEF IInv, UpstreamInv
<1>7. WakeupInv'
  <2>1. SUFFICES ASSUME NEW j \in present, status'[j] = "created", Parents(j) # {},
                        UpstreamFinal(j)',
                        upstream[j] \notin FinalStatuses
                 PROVE  \E k \in handlers' : Evaluates(k, j)
    BY DEF WakeupInv, Evaluates
  <2>2. j \in Job /\ status[j] = "created"
    BY <2>1, <1>s, <1>c, <1>t DEF IInv, TypeOK
  <2>3. h.job \in Wakers(j) /\ pc = "read" => Evaluates(n, j)
    BY <1>n DEF Evaluates
  <2>4. CASE UpstreamFinal(j)
    <3>1. PICK k \in handlers : Evaluates(k, j)
      BY <2>1, <2>2, <2>4 DEF IInv, WakeupInv
    <3>2. k = h => h.job \in Wakers(j) /\ pc = "read"
      BY <3>1, <1>f DEF Evaluates
    <3>3. QED
      BY <3>1, <3>2, <2>3, <1>h
  <2>5. CASE ~UpstreamFinal(j)
    <3>1. PICK a \in UpstreamJobs(j) : ~Final(a) /\ Final(a)'
      BY <2>1, <2>5 DEF UpstreamFinal
    <3>2. a = h.job /\ pc = "read" /\ ~Final(h.job)
      BY <3>1, <1>s, <1>f, <1>t, <2>2, UpstreamType DEF Final
    <3>3. \A p \in UpstreamJobs(j) : p # a => Final(p)
      BY <3>2, <2>1, <2>2, <1>s, UpstreamType DEF UpstreamFinal, Final
    <3>4. a \in Wakers(j)
      BY <3>1, <3>3, <2>1, <2>2, LastToEnd
    <3>5. QED
      BY <3>2, <3>4, <2>3, <1>h
  <2>6. QED
    BY <2>4, <2>5
<1>8. GreenInv'
  <2>1. Earned => Earned'
    BY <1>t, EarnedStable
  <2>2. QED
    BY <1>n, <1>h, <1>c, <2>1 DEF IInv, GreenInv
<1>9. EndInv'
  BY <1>t, EarnedStable DEF IInv, EndInv
<1>10. QED
  BY <1>1, <1>2, <1>3, <1>4, <1>5, <1>6, <1>7, <1>8, <1>9 DEF IInv

LEMMA UpdateStep ==
  ASSUME IInv, NEW h \in handlers, NEW e \in h.evals, UpdateDownstreamJob(h, e)
  PROVE  IInv'
<1> USE DEF UpdateDownstreamJob, jobVars, runVars, pipelineVars
<1> DEFINE c == e.child
           u == e.upstream
           m == SetJobStatus(c, "skipped", Append(h.via, h.job))
           n == [h EXCEPT !.evals = @ \ {e}]
<1>e. /\ c \in Job /\ c \in present /\ Parents(c) # {} /\ c # Clone
      /\ UpstreamFinal(c) /\ u = UpstreamSum(c) /\ u \in FinalStatuses
  <2>1. c \in Job /\ u \in FinalStatuses
    BY DEF IInv, TypeOK, Handler
  <2>2. c \in present /\ Parents(c) # {} /\ UpstreamFinal(c) /\ u = UpstreamSum(c)
    BY DEF IInv, UpstreamInv
  <2>3. QED
    BY <2>1, <2>2 DEF Parents
<1>n. /\ n.kind = h.kind /\ n.job = h.job /\ n.status = h.status
      /\ n.pc = "children" /\ n.evals = h.evals \ {e}
  BY DEF IInv, TypeOK, Handler
<1>m. /\ m.kind = "status" /\ m.job = c /\ m.status = "skipped"
      /\ m.pc = "write" /\ m.evals = {}
  BY DEF SetJobStatus, Call
<1>h. /\ handlers \ {h} \subseteq handlers' /\ n \in handlers'
      /\ \A k \in handlers' : \/ k \in handlers /\ k # h
                              \/ k = n
                              \/ k = m /\ SkipsOn(c, u)
      /\ SkipsOn(c, u) => m \in handlers'
  BY DEF Return, SkipCalls
<1>s. /\ SkipsOn(c, u) => status'[c] = "skipped"
      /\ ~SkipsOn(c, u) => status'[c] = status[c]
      /\ \A j \in Job : j # c => status'[j] = status[j]
  BY <1>e DEF StatusUpdate, IInv, TypeOK
<1>u. /\ upstream'[c] = u
      /\ \A j \in Job : j # c => upstream'[j] = upstream[j]
  BY <1>e DEF IInv, TypeOK
<1>k. SkipsOn(c, u) =>
        c \notin listed \cup locked /\ status[c] \in {"created", "skipped"}
  <2>1. SUFFICES ASSUME SkipsOn(c, u), status[c] # "skipped"
                 PROVE  c \notin listed \cup locked /\ status[c] = "created"
    BY <1>e DEF IInv, ExecInv
  <2>2. upstream[c] \notin FinalStatuses
    BY <2>1, <1>e DEF IInv, UpstreamInv
  <2>3. c \notin listed \cup locked
    BY <2>2, <1>e DEF IInv, ExecInv
  <2>4. status[c] = "created"
    BY <2>1, <2>3, <1>e, StatusValues DEF IInv, ExecInv
  <2>5. QED
    BY <2>3, <2>4
<1>t. Stable
  BY <1>s, <1>k DEF Stable, Final, IsFinalStatus, FinalStatuses
<1> HIDE DEF n, m, c, u
<1>1. TypeOK'
  BY ServerType DEF ServerStep, HandlerStep, IInv
<1>2. PresentInv'
  BY <1>e, <1>s, <1>u DEF IInv, PresentInv
<1>3. ConfigInv'
  <2>1. GoesOn(h, n)
    BY <1>n, <1>m, <1>h, <1>e, <1>s, GraphAssumption DEF GoesOn
  <2>2. QED
    BY <2>1, ConfigGoesOn
<1>4. ExecInv'
  <2>1. \A j \in listed \cup locked : j \in Job /\ j \in present
    BY DEF IInv, ExecInv, TypeOK
  <2>2. \A j \in listed \cup locked : Parents(j) = {} \/ upstream'[j] \in FinalStatuses
    BY <2>1, <1>e, <1>u DEF IInv, ExecInv
  <2>3. \A j \in listed \cup locked : status'[j] = status[j]
    BY <2>1, <1>s, <1>k
  <2>4. \A j \in Job : exec[j] # "idle" => j \in locked
    BY DEF IInv, ExecInv
  <2>5. \A j \in Job : status'[j] = "skipped" => j \notin listed \cup locked
    BY <2>3 DEF IInv, ExecInv
  <2>6. \A j \in Job : status'[j] \in {"running", "success", "failure"} => j \in locked
    BY <1>s DEF IInv, ExecInv
  <2>7. \A j \in Job : status'[j] # "cancelled"
    BY <1>s DEF IInv, ExecInv
  <2>8. status'[Clone] # "skipped"
    BY <1>s, <1>e, GraphAssumption DEF IInv, ExecInv
  <2>9. QED
    BY <2>1, <2>2, <2>3, <2>4, <2>5, <2>6, <2>7, <2>8 DEF IInv, ExecInv
<1>5. CallInv'
  <2>1. \A k \in handlers : k.kind = "status" /\ k.status \in {"success", "failure"}
          => k.job \in locked /\ k.job \in Job
    BY DEF IInv, CallInv, ExecInv, TypeOK, Handler
  <2>2. \A k \in handlers : k.job \in Job
    BY DEF IInv, TypeOK, Handler
  <2>3. \A k \in handlers : k.kind = "status" /\ k.status \in {"success", "failure"}
          => status'[k.job] = status[k.job]
    BY <2>1, <1>s, <1>k
  <2>4. \A k \in handlers : k.kind = "status" /\ k.status = "skipped"
          => status'[k.job] = "skipped"
    BY <2>2, <1>t DEF IInv, CallInv, Stable, Final, IsFinalStatus, FinalStatuses
  <2>5. h.pc = "children"
    OBVIOUS
  <2>6. \A k \in handlers' : k.kind = "status" =>
       /\ k.job \in present
       /\ k.status \in {"running", "success", "failure", "skipped"}
       /\ k.pc \notin {"fetch", "insert", "notify", "error"}
       /\ k.status = "running" =>
            /\ k.pc \notin {"read", "children"}
            /\ k.pc = "write" => exec[k.job] \in {"running", "extracted"}
       /\ k.status \in {"success", "failure"} =>
            /\ exec[k.job] = "done"
            /\ IF k.pc = "write" THEN ~Final(k.job)'
                                 ELSE status'[k.job] = k.status
       /\ k.status = "skipped" => status'[k.job] = "skipped"
    <3>1. ASSUME NEW k \in handlers', k \in handlers, k.kind = "status"
          PROVE  /\ k.job \in present
                 /\ k.status \in {"running", "success", "failure", "skipped"}
                 /\ k.pc \notin {"fetch", "insert", "notify", "error"}
                 /\ k.status = "running" =>
                      /\ k.pc \notin {"read", "children"}
                      /\ k.pc = "write" => exec[k.job] \in {"running", "extracted"}
                 /\ k.status \in {"success", "failure"} =>
                      /\ exec[k.job] = "done"
                      /\ IF k.pc = "write" THEN ~Final(k.job)'
                                           ELSE status'[k.job] = k.status
                 /\ k.status = "skipped" => status'[k.job] = "skipped"
      BY <3>1, <2>3, <2>4 DEF IInv, CallInv, Final
    <3>2. CASE SkipsOn(c, u)
      BY <3>1, <3>2, <1>h, <1>n, <1>m, <1>e, <1>s, <2>3, <2>4, <2>5 DEF IInv, CallInv
    <3>3. CASE ~SkipsOn(c, u)
      BY <3>1, <3>3, <1>h, <1>n, <2>3, <2>4, <2>5 DEF IInv, CallInv
    <3>4. QED
      BY <3>2, <3>3
  <2>7. QED
    BY <2>6, <1>h, <1>n, <1>m DEF IInv, CallInv
<1>6. UpstreamInv'
  <2>1. \A j \in Job : UpstreamFinal(j) =>
                         UpstreamFinal(j)' /\ UpstreamSum(j)' = UpstreamSum(j)
    BY <1>t, SumStable
  <2>2. \A j \in present : status'[j] = "skipped" => status[j] = "skipped" \/ j = c
    BY <1>s DEF IInv, TypeOK
  <2>3. \A j \in Job : status[j] = "skipped" => status'[j] = "skipped"
    BY <1>t DEF Stable, Final, IsFinalStatus, FinalStatuses
  <2>4. \A k \in handlers' : \A x \in k.evals :
          x.child \in Job /\ \E l \in handlers : x \in l.evals
    BY <1>n, <1>h, <1>m DEF IInv, TypeOK, Handler
  <2>5. present \subseteq Job
    BY DEF IInv, TypeOK
  <2>6. \A j \in present : upstream'[j] \in FinalStatuses =>
          /\ UpstreamFinal(j)' /\ upstream'[j] = UpstreamSum(j)'
          /\ status'[j] = "skipped" \/ ~SkipsOn(j, upstream'[j])
    BY <2>1, <2>3, <2>5, <1>e, <1>s, <1>u DEF IInv, UpstreamInv
  <2>7. \A j \in present : status'[j] = "skipped" /\ j \notin SkippedUpFront
          => UpstreamFinal(j)'
    BY <2>1, <2>2, <2>5, <1>e DEF IInv, UpstreamInv
  <2>8. \A k \in handlers' : \A x \in k.evals :
          /\ x.child \in present /\ Parents(x.child) # {}
          /\ UpstreamFinal(x.child)' /\ x.upstream = UpstreamSum(x.child)'
    BY <2>1, <2>4 DEF IInv, UpstreamInv
  <2>9. \A j \in present : j \in SkippedUpFront => status'[j] = "skipped"
    BY <2>3, <2>5 DEF IInv, UpstreamInv
  <2>10. QED
    BY <2>6, <2>7, <2>8, <2>9 DEF UpstreamInv
<1>7. WakeupInv'
  <2>1. SUFFICES ASSUME NEW j \in present, status'[j] = "created", Parents(j) # {},
                        UpstreamFinal(j)',
                        upstream'[j] \notin FinalStatuses
                 PROVE  \E k \in handlers' : Evaluates(k, j)
    BY DEF WakeupInv, Evaluates
  <2>2. j \in Job /\ j # c /\ status[j] = "created" /\ upstream[j] \notin FinalStatuses
    BY <2>1, <1>s, <1>e, <1>u DEF IInv, TypeOK
  <2>3. CASE UpstreamFinal(j)
    <3>1. PICK k \in handlers : Evaluates(k, j)
      BY <2>1, <2>2, <2>3 DEF IInv, WakeupInv
    <3>2. CASE k = h
      <4>1. PICK x \in h.evals : x.child = j \/ x.child \in Wakers(j) \cap SkippedUpFront
        BY <3>1, <3>2 DEF Evaluates
      <4>2. CASE x # e
        BY <4>1, <4>2, <1>n, <1>h DEF Evaluates
      <4>3. CASE x = e
        <5>1. c \in Wakers(j) /\ c \in SkippedUpFront
          BY <4>1, <4>3, <2>2 DEF c
        <5>2. j \notin SkippedUpFront
          BY <2>2 DEF IInv, UpstreamInv
        <5>3. c \in OffBranch
          BY <5>1, <5>2, <2>2, WakersUpstream, OffBranchUpstream
        <5>4. SkipsOn(c, u)
          BY <5>3 DEF SkipsOn
        <5>5. Evaluates(m, j)
          BY <5>1, <1>m DEF Evaluates, IsFinalStatus, FinalStatuses
        <5>6. QED
          BY <5>4, <5>5, <1>h
      <4>4. QED
        BY <4>2, <4>3
    <3>3. QED
      BY <3>1, <3>2, <1>h
  <2>4. CASE ~UpstreamFinal(j)
    <3>1. PICK a \in UpstreamJobs(j) : ~Final(a) /\ Final(a)'
      BY <2>1, <2>4 DEF UpstreamFinal
    <3>2. a = c /\ SkipsOn(c, u)
      BY <3>1, <1>s, <2>2, UpstreamType DEF Final
    <3>3. \A p \in UpstreamJobs(j) : p # a => Final(p)
      BY <3>2, <2>1, <2>2, <1>s, UpstreamType DEF UpstreamFinal, Final
    <3>4. a \in Wakers(j)
      BY <3>1, <3>3, <2>1, <2>2, LastToEnd
    <3>5. Evaluates(m, j)
      BY <3>2, <3>4, <1>m DEF Evaluates, IsFinalStatus, FinalStatuses
    <3>6. QED
      BY <3>2, <3>5, <1>h
  <2>5. QED
    BY <2>3, <2>4
<1>8. GreenInv'
  <2>1. Earned => Earned'
    BY <1>t, EarnedStable
  <2>2. QED
    BY <1>n, <1>m, <1>h, <2>1 DEF IInv, GreenInv
<1>9. EndInv'
  BY <1>t, EarnedStable DEF IInv, EndInv
<1>10. QED
  BY <1>1, <1>2, <1>3, <1>4, <1>5, <1>6, <1>7, <1>8, <1>9 DEF IInv

\* A job of the first rank has only the clone job upstream.
LEMMA FirstRankUpstream ==
  ASSUME NEW j \in Job, Parents(j) = {Clone}
  PROVE  UpstreamJobs(j) = {Clone}
<1>1. Clone \in UpstreamJobs(j)
  BY ParentsUpstream
<1>2. ASSUME NEW a \in UpstreamJobs(j) PROVE a = Clone
  <2>1. CASE a \in Parents(j)
    BY <2>1
  <2>2. CASE a \notin Parents(j)
    <3>1. a \in UpstreamJobs(Clone)
      BY <2>2, UpstreamThroughParent
    <3>2. QED
      BY <3>1, CloneUpstream
  <2>3. QED
    BY <2>1, <2>2
<1>3. QED
  BY <1>1, <1>2

LEMMA AddStep ==
  ASSUME IInv, FirstRankRuns, NEW h \in handlers, AddConfigJobs(h)
  PROVE  IInv'
<1> USE DEF AddConfigJobs, jobVars, runVars, pipelineVars
<1> DEFINE n == [h EXCEPT !.pc = "notify"]
<1>n. /\ n.kind = h.kind /\ n.job = h.job /\ n.status = h.status
      /\ n.pc = "notify" /\ n.evals = h.evals
  BY DEF IInv, TypeOK, Handler
<1>h. handlers' = (handlers \ {h}) \cup {n}
  BY DEF Goto
<1>k. h.kind = "config" /\ h.job = Clone
  BY DEF IInv, CallInv, ConfigInv, TypeOK, Handler
<1>d. ConfigCalls = {h} /\ ConfigCalls' = {n} /\ present = {Clone}
  <2>1. ConfigCalls = {h}
    BY <1>k DEF IInv, ConfigInv, ConfigCalls
  <2>2. ConfigCalls' = {n}
    BY <2>1, <1>n, <1>h, <1>k DEF ConfigCalls
  <2>3. QED
    BY <2>1, <2>2 DEF IInv, ConfigInv
<1>f. ~CloneFails /\ exec[Clone] \notin {"idle", "running"}
  BY <1>d DEF IInv, ConfigInv
<1>v. \/ h.status \in {"created", "running"}
      \/ h.status = "success" /\ status[Clone] = "success"
  BY <1>d DEF IInv, ConfigInv
<1>o. \A j \in Job \ {Clone} :
        /\ status[j] = "created" /\ upstream[j] = None /\ exec[j] = "idle"
        /\ j \notin listed /\ j \notin locked
  BY <1>d DEF IInv, PresentInv
<1>s. /\ status'[Clone] = status[Clone]
      /\ \A j \in Job : status'[j] = IF j \in SkippedUpFront THEN "skipped" ELSE status[j]
  BY CloneUpstream, GraphAssumption
<1>u. \A j \in Job : upstream'[j] = IF j # Clone /\ Dependencies[j] = {}
                                    THEN h.status ELSE upstream[j]
  OBVIOUS
<1>t. Stable
  BY <1>s, <1>o, GraphAssumption DEF Stable, Final, IsFinalStatus, FinalStatuses
<1>p. Parents(Clone) = {} /\ \A j \in ConfigJob : Parents(j) # {}
  BY DEF Parents, ConfigJob
<1> HIDE DEF n, AddConfigJobs
<1>a. UNCHANGED <<runVars, pipelineVars>> /\ present' = Job
  BY DEF AddConfigJobs
<1>1. TypeOK'
  BY ServerType DEF ServerStep, HandlerStep, IInv
<1>2. PresentInv'
  BY <1>a DEF PresentInv
<1>3. ConfigInv'
  <2>1. ~CloneFails'
    BY <1>n, <1>h, <1>k, <1>f, <1>s DEF CloneFails
  <2>2. \A k \in handlers' : k.kind = "config" => k = n
    BY <1>d DEF ConfigCalls
  <2>3. QED
    BY <1>n, <1>k, <1>d, <1>f, <1>a, <2>1, <2>2 DEF ConfigInv
<1>4. ExecInv'
  BY <1>o, <1>s, <1>a, <1>p, <1>d, GraphAssumption DEF IInv, ExecInv, TypeOK
<1>5. CallInv'
  BY <1>n, <1>h, <1>k, <1>d, <1>s, <1>a, GraphAssumption DEF IInv, CallInv, Final
<1>6. UpstreamInv'
  <2>1. \A j \in Job : upstream'[j] \in FinalStatuses =>
          /\ UpstreamFinal(j)' /\ upstream'[j] = UpstreamSum(j)'
          /\ status'[j] = "skipped" \/ ~SkipsOn(j, upstream'[j])
    <3>1. SUFFICES ASSUME NEW j \in Job, upstream'[j] \in FinalStatuses
                   PROVE  /\ UpstreamFinal(j)' /\ upstream'[j] = UpstreamSum(j)'
                          /\ status'[j] = "skipped" \/ ~SkipsOn(j, upstream'[j])
      OBVIOUS
    <3>2. CASE j = Clone
      <4>1. upstream'[j] = upstream[j] /\ j \in present /\ status[j] # "skipped"
        BY <3>2, <1>u, <1>d, GraphAssumption DEF IInv, ExecInv
      <4>2. UpstreamFinal(j) /\ upstream[j] = UpstreamSum(j) /\ ~SkipsOn(j, upstream[j])
        BY <3>1, <4>1 DEF IInv, UpstreamInv
      <4>3. QED
        BY <4>1, <4>2, <1>t, SumStable
    <3>3. CASE j # Clone
      <4>1. Dependencies[j] = {} /\ upstream'[j] = "success" /\ status[Clone] = "success"
        BY <3>1, <3>3, <1>u, <1>v, <1>o DEF FinalStatuses, None
      <4>2. UpstreamJobs(j) = {Clone}
        BY <3>3, <4>1, FirstRankUpstream DEF Parents
      <4>3. UpstreamFinal(j)'
        BY <4>1, <4>2, <1>s DEF UpstreamFinal, Final, IsFinalStatus, FinalStatuses
      <4>4. UpstreamSum(j)' = "success"
        BY <4>1, <4>2, <1>s DEF UpstreamSum, ComputePipelineStatus
      <4>5. j \in OffBranch => status'[j] = "skipped"
        BY <1>s DEF SkippedUpFront
      <4>6. j \notin OffBranch => ~SkipsOn(j, "success")
        BY <3>3, <4>1 DEF FirstRankRuns, ConfigJob, SkipsOn
      <4>7. QED
        BY <4>1, <4>3, <4>4, <4>5, <4>6
    <3>4. QED
      BY <3>2, <3>3
  <2>2. \A j \in Job : status'[j] = "skipped" => j \in SkippedUpFront
    BY <1>s, <1>o DEF IInv, ExecInv
  <2>3. \A k \in handlers : k.evals = {}
    <3>1. ASSUME NEW k \in handlers, NEW e \in k.evals PROVE FALSE
      BY <1>d, <1>p DEF IInv, UpstreamInv
    <3>2. QED
      BY <3>1
  <2>4. QED
    BY <1>a, <1>s, <1>n, <1>h, <2>1, <2>2, <2>3 DEF UpstreamInv
<1>7. WakeupInv'
  <2>1. SUFFICES ASSUME NEW j \in Job, status'[j] = "created", Parents(j) # {},
                        UpstreamFinal(j)'
                 PROVE  \E k \in handlers' : Evaluates(k, j)
    BY <1>a DEF WakeupInv, Evaluates
  <2>2. \A a \in UpstreamJobs(j) : a = Clone \/ a \in SkippedUpFront
    BY <2>1, <1>s, <1>o, UpstreamType DEF UpstreamFinal, Final, IsFinalStatus, FinalStatuses
  <2>3. Clone \in Wakers(j)
    <3>1. SUFFICES ASSUME Clone \notin Wakers(j) PROVE FALSE
      OBVIOUS
    <3>2. Wakers(j) \subseteq SkippedUpFront
      BY <3>1, <2>2, WakersUpstream
    <3>3. Wakers(j) # {} /\ Wakers(j) \in SUBSET Job
      BY <2>1, WakersClosed
    <3>4. \A k \in Wakers(j) : Parents(k) \subseteq Wakers(j) /\ Parents(k) # {}
      BY <3>1, <3>2, <3>3, <1>p, WakersClosed DEF ConfigJob
    <3>5. QED
      BY <3>3, <3>4, AcyclicAssumption
  <2>4. Evaluates(n, j)
    BY <2>3, <1>n, <1>k DEF Evaluates
  <2>5. QED
    BY <2>4, <1>h
<1>8. GreenInv' /\ EndInv'
  <2>1. present = Job => /\ Earned => Earned'
                         /\ (\A j \in present : Final(j)) => (\A j \in present' : Final(j)')
    BY <1>a, <1>t, EarnedStable
  <2>2. GreenInv'
    BY <2>1, <1>a, <1>n, <1>h DEF IInv, GreenInv, pipelineVars
  <2>3. status[Clone] # "failure"
    BY <1>f DEF CloneFails
  <2>4. EndInv'
    BY <2>1, <2>3, <1>a DEF IInv, EndInv, pipelineVars
  <2>5. QED
    BY <2>2, <2>4
<1>9. QED
  BY <1>1, <1>2, <1>3, <1>4, <1>5, <1>6, <1>7, <1>8 DEF IInv

-----------------------------------------------------------------------------
(* The theorems.                                                           *)

LEMMA StepInv == Tame /\ IInv /\ [Next]_vars => IInv'
<1> SUFFICES ASSUME StatusInOrder, FirstRankRuns, IInv, [Next]_vars PROVE IInv'
  BY DEF Tame
<1>1. CASE RunnerStep
  BY <1>1, ListStep, LockStep, SendRunningStep, SendConfigStep, SendEmptyStep, SendFinalStep
  DEF RunnerStep
<1>2. ASSUME NEW h \in handlers, HandlerStep(h) PROVE IInv'
  BY <1>2, WriteStep, ReadStep, ChildrenStep, ComputeStep, UpdateStep,
     PipelineStatusStep, FetchStep, AddStep, NotifyStep, SetErrorStep
  DEF HandlerStep
<1>3. CASE SetPipelineEnd
  BY <1>3, SetEndStep
<1>4. CASE UNCHANGED vars
  BY <1>4 DEF vars, jobVars, runVars, pipelineVars, IInv, TypeOK, PresentInv,
     ConfigInv, ConfigCalls, CloneFails, ExecInv, CallInv, UpstreamInv, UpstreamFinal,
     UpstreamSum, Final, WakeupInv, Evaluates, GreenInv, Earned, EndInv
<1>5. QED
  BY <1>1, <1>2, <1>3, <1>4 DEF Next, ServerStep

\* The inductive invariant holds of every pipeline whose first rank is not
\* skipped after a successful clone, when statuses are written in order.
THEOREM Invariant == ASSUME Tame PROVE Spec => []IInv
BY StepInv, InitInv, PTL DEF Spec

\* No wakeup is lost, whichever jobs end, fail or are skipped at once.
THEOREM NoLostWakeupHolds == ASSUME Tame PROVE Spec => []NoLostWakeup
<1>1. IInv => NoLostWakeup
  <2>1. SUFFICES ASSUME IInv, NEW j \in present, status[j] = "created",
                        Parents(j) # {}, \A a \in UpstreamJobs(j) : Final(a),
                        upstream[j] \notin FinalStatuses
                 PROVE  \E h \in handlers : WillEvaluate(h, j)
    BY DEF NoLostWakeup
  <2>2. PICK h \in handlers : Evaluates(h, j)
    BY <2>1 DEF IInv, WakeupInv, UpstreamFinal
  <2>3. Wakers(j) \subseteq UpstreamJobs(j)
    BY <2>1, WakersUpstream DEF IInv, TypeOK
  <2>4. WillEvaluate(h, j)
    BY <2>2, <2>3 DEF Evaluates, WillEvaluate
  <2>5. QED
    BY <2>4
<1>2. QED
  BY <1>1, Invariant, PTL

\* A job that a runner holds has no upstream job that may still run.
THEOREM LockedAfterUpstreamHolds == ASSUME Tame PROVE Spec => []LockedAfterUpstream
<1>1. IInv => LockedAfterUpstream
  <2>1. SUFFICES ASSUME IInv, NEW j \in locked PROVE UpstreamFinal(j)
    BY DEF LockedAfterUpstream, UpstreamFinal
  <2>0. j \in Job
    BY <2>1 DEF IInv, TypeOK
  <2>2. CASE Parents(j) = {}
    BY <2>0, <2>2 DEF UpstreamFinal, UpstreamJobs, Upstream
  <2>3. CASE upstream[j] \in FinalStatuses
    BY <2>1, <2>3 DEF IInv, ExecInv, UpstreamInv
  <2>4. QED
    BY <2>1, <2>2, <2>3 DEF IInv, ExecInv
<1>2. QED
  BY <1>1, Invariant, PTL

\* An upstream status, once final, is and stays what the upstream jobs add up to.
THEOREM UpstreamStatusCurrentHolds == ASSUME Tame PROVE Spec => []UpstreamStatusCurrent
<1>1. IInv => UpstreamStatusCurrent
  BY DEF IInv, UpstreamInv, UpstreamStatusCurrent, UpstreamSum
<1>2. QED
  BY <1>1, Invariant, PTL

\* No skipped job is held by a runner.
THEOREM SkippedNeverRunsHolds == ASSUME Tame PROVE Spec => []SkippedNeverRuns
<1>1. IInv => SkippedNeverRuns
  BY DEF IInv, ExecInv, TypeOK, SkippedNeverRuns
<1>2. QED
  BY <1>1, Invariant, PTL

\* Neither users nor the git server see green before it is earned.
THEOREM GreenIsEarnedHolds == ASSUME Tame PROVE Spec => []GreenIsEarned
<1>1. IInv => GreenIsEarned
  BY DEF IInv, GreenInv, GreenIsEarned
<1>2. QED
  BY <1>1, Invariant, PTL

\* A pipeline with an end has no job left that may run.
THEOREM EndedMeansDoneHolds == ASSUME Tame PROVE Spec => []EndedMeansDone
<1>1. IInv => EndedMeansDone
  BY DEF IInv, EndInv, EndedMeansDone
<1>2. QED
  BY <1>1, Invariant, PTL

-----------------------------------------------------------------------------
(* The promise of PipelinePromise.                                         *)

\* The config was inserted or refused, or never comes.
Decided ==
  /\ \A h \in handlers : h.pc \notin {"fetch", "insert", "error"}
  /\ exec[Clone] \notin {"idle", "running"}

\* What the promise needs besides IInv: a verdict on its way is right, and
\* no config comes after the end.
PromiseInv ==
  /\ pipeline.error => present = {Clone}
  /\ pipeline.error \/ pipeline.end \/ ending => Decided
  /\ \A h \in handlers : h.pc \in {"current", "set", "post"} => Promise!Verdict(h.result)

promised ==
  <<present, locked, Results, pipeline.status, commit, pipeline.error, pipeline.end>>

LEMMA ResultsAre ==
  ASSUME IInv, NEW j \in Job
  PROVE  /\ Results[j] \in {"created", "success", "failure", "skipped"}
         /\ Results[j] = "created" <=> ~Final(j)
         /\ Final(j) => Results[j] = status[j]
BY StatusValues DEF IInv, Results, Final, IsFinalStatus, FinalStatuses

LEMMA OutcomeIs ==
  ASSUME IInv, NEW J \in SUBSET Job
  PROVE  /\ Promise!Outcome(J) \in FinalStatuses <=> \A j \in J : Final(j)
         /\ (\A j \in J : Final(j)) =>
              Promise!Outcome(J) = ComputePipelineStatus(J, status, AllowFailure)
<1>1. \A j \in J : /\ Results[j] \in {"created", "running", "success", "failure", "skipped"}
                   /\ IsFinalStatus(Results[j]) <=> Final(j)
                   /\ Final(j) => Results[j] = status[j]
  BY ResultsAre DEF IsFinalStatus, FinalStatuses
<1>2. Promise!Outcome(J) = ComputePipelineStatus(J, Results, AllowFailure)
  BY DEF Promise!Outcome, Promise!ComputePipelineStatus, ComputePipelineStatus
<1>3. (\A j \in J : Final(j)) <=> Promise!Outcome(J) \in FinalStatuses
  BY <1>1, <1>2, ComputeFinal
<1>4. (\A j \in J : Final(j)) =>
        ComputePipelineStatus(J, Results, AllowFailure)
          = ComputePipelineStatus(J, status, AllowFailure)
  BY <1>1, ComputeAgrees
<1> QED
  BY <1>2, <1>3, <1>4

\* Only insertions and the writes of statuses change a result.
LEMMA SameResults == status' = status => Results' = Results
BY DEF Results, Final

-----------------------------------------------------------------------------
LEMMA StartPromised ==
  ASSUME IInv, PromiseInv, NEW j \in Job, LockJob(j), j \notin locked
  PROVE  Promise!Start(j)
<1> USE DEF LockJob, jobVars, pipelineVars
<1>1. /\ j \in present /\ status[j] = "created"
      /\ Parents(j) = {} \/ upstream[j] \in FinalStatuses
  BY DEF IInv, ExecInv
<1>2. ~Final(j) /\ Results[j] = "created"
  BY <1>1, ResultsAre DEF Final, IsFinalStatus, FinalStatuses
<1>3. ~pipeline.end
  <2>1. CASE pipeline.error
    <3>1. SUFFICES ASSUME pipeline.end PROVE FALSE
      OBVIOUS
    <3>2. j = Clone /\ exec[Clone] # "idle"
      BY <2>1, <1>1 DEF PromiseInv, Decided
    <3> QED
      BY <3>2 DEF IInv, ExecInv
  <2>2. CASE ~pipeline.error
    BY <2>2, <1>1, <1>2 DEF IInv, EndInv
  <2> QED
    BY <2>1, <2>2
<1>4. Promise!Outcome(Upstream[j]) \in {s \in FinalStatuses : ~SkipsOn(j, s)}
  <2>1. CASE Parents(j) = {}
    <3>1. j = Clone
      BY <2>1 DEF Parents
    <3>2. Upstream[j] = {}
      BY <3>1, CloneUpstream DEF UpstreamJobs
    <3>3. Promise!Outcome({}) = "skipped"
      BY DEF Promise!Outcome, Promise!ComputePipelineStatus
    <3>4. ~SkipsOn(Clone, "skipped")
      BY OptionsAssumption DEF SkipsOn, CanExecWhenStatus, Always
    <3> QED
      BY <3>1, <3>2, <3>3, <3>4 DEF FinalStatuses
  <2>2. CASE Parents(j) # {}
    <3>1. /\ UpstreamFinal(j) /\ upstream[j] = UpstreamSum(j)
          /\ ~SkipsOn(j, upstream[j]) /\ upstream[j] \in FinalStatuses
      BY <2>2, <1>1 DEF IInv, UpstreamInv
    <3>2. Promise!Outcome(Upstream[j]) = upstream[j]
      BY <3>1, UpstreamType, OutcomeIs DEF UpstreamFinal, UpstreamSum, UpstreamJobs
    <3> QED
      BY <3>1, <3>2
  <2> QED
    BY <2>1, <2>2
<1>5. Results' = Results
  BY SameResults
<1> QED
  BY <1>1, <1>2, <1>3, <1>4, <1>5 DEF Promise!Start, Promise!Waits

LEMMA FinishPromised ==
  ASSUME IInv, NEW h \in handlers, WriteStatus(h), Results' # Results
  PROVE  Promise!Finish(h.job)
<1> USE DEF WriteStatus, runVars, pipelineVars
<1> DEFINE j == h.job
<1>1. /\ j \in Job /\ h.kind = "status" /\ status \in [Job -> JobStatuses]
      /\ h.status \in {"running", "success", "failure", "skipped"}
  BY DEF IInv, CallInv, ConfigInv, ConfigCalls, TypeOK, Handler
<1>2. ~Final(j) /\ h.status \in {"success", "failure"}
  <2>1. CASE h.status = "running"
    <3>1. status[j] \in {"created", "running"}
      BY <1>1, <2>1 DEF IInv, CallInv, ExecInv
    <3>2. Results' = Results
      BY <1>1, <2>1, <3>1 DEF Results, Final, IsFinalStatus, FinalStatuses
    <3> QED
      BY <3>2
  <2>2. CASE h.status = "skipped"
    <3>1. status' = status
      BY <1>1, <2>2 DEF IInv, CallInv
    <3> QED
      BY <3>1, SameResults
  <2>3. CASE h.status \in {"success", "failure"}
    BY <1>1, <2>3 DEF IInv, CallInv
  <2> QED
    BY <1>1, <2>1, <2>2, <2>3
<1>3. j \in locked
  BY <1>1, <1>2 DEF IInv, CallInv, ExecInv
<1>4. Results[j] = "created"
  BY <1>1, <1>2, ResultsAre
<1>5. Results' = [Results EXCEPT ![j] = h.status]
  BY <1>1, <1>2 DEF Results, Final, IsFinalStatus, FinalStatuses
<1> QED
  BY <1>2, <1>3, <1>4, <1>5 DEF Promise!Finish

LEMMA SkipPromised ==
  ASSUME IInv, PromiseInv, NEW h \in handlers, NEW e \in h.evals,
         UpdateDownstreamJob(h, e), Results' # Results
  PROVE  e.child \in Job /\ Promise!Skip(e.child)
<1> USE DEF UpdateDownstreamJob, runVars, pipelineVars
<1> DEFINE c == e.child
           u == e.upstream
<1>1. /\ c \in Job /\ c \in present /\ c # Clone
      /\ UpstreamFinal(c) /\ u = UpstreamSum(c) /\ u \in FinalStatuses
  <2>1. c \in Job /\ u \in FinalStatuses
    BY DEF IInv, TypeOK, Handler
  <2>2. c \in present /\ Parents(c) # {} /\ UpstreamFinal(c) /\ u = UpstreamSum(c)
    BY DEF IInv, UpstreamInv
  <2> QED
    BY <2>1, <2>2 DEF Parents
<1>2. SkipsOn(c, u) /\ status' = [status EXCEPT ![c] = "skipped"]
  BY SameResults DEF StatusUpdate
<1>3. status[c] # "skipped"
  <2>1. status[c] = "skipped" => status' = status
    BY <1>1, <1>2 DEF IInv, TypeOK
  <2> QED
    BY <2>1, SameResults
<1>4. c \notin listed \cup locked
  BY <1>1, <1>2, <1>3 DEF IInv, UpstreamInv, ExecInv, Parents
<1>5. ~Final(c) /\ Results[c] = "created"
  <2>1. status[c] = "created"
    BY <1>1, <1>3, <1>4, StatusValues DEF IInv, ExecInv
  <2> QED
    BY <1>1, <2>1, ResultsAre DEF Final, IsFinalStatus, FinalStatuses
<1>6. ~pipeline.end
  BY <1>1, <1>5 DEF IInv, EndInv, PromiseInv
<1>7. Promise!Outcome(Upstream[c]) = u
  BY <1>1, UpstreamType, OutcomeIs DEF UpstreamFinal, UpstreamSum, UpstreamJobs
<1>8. Results' = [Results EXCEPT ![c] = "skipped"]
  BY <1>1, <1>2 DEF IInv, TypeOK, Results, Final, IsFinalStatus, FinalStatuses
<1> HIDE DEF u, c
<1>9. Promise!Outcome(Upstream[c]) \in FinalStatuses \ {s \in FinalStatuses : ~SkipsOn(c, s)}
  BY <1>1, <1>2, <1>7
<1>10. Promise!Skip(c)
  <2>1. UNCHANGED <<present, locked, pipeline, commit>>
    OBVIOUS
  <2>2. Promise!Outcome(Upstream[c])
          \in FinalStatuses \ [j \in Job |-> {s \in FinalStatuses : ~SkipsOn(j, s)}][c]
    BY <1>1, <1>9
  <2>3. Promise!FinalStatuses = FinalStatuses
    BY DEF Promise!FinalStatuses, FinalStatuses
  <2> HIDE DEF UpdateDownstreamJob
  <2> QED
    BY <1>1, <1>4, <1>5, <1>6, <1>8, <2>1, <2>2, <2>3 DEF Promise!Skip, Promise!Waits
<1> QED
  BY <1>1, <1>10 DEF c

LEMMA InsertPromised ==
  ASSUME IInv, PromiseInv, NEW h \in handlers, AddConfigJobs(h)
  PROVE  Promise!Insert
<1> USE DEF AddConfigJobs, runVars, pipelineVars
<1>1. h \in ConfigCalls
  BY DEF IInv, CallInv, ConfigCalls, TypeOK, Handler
<1>2. present = {Clone} /\ ~CloneFails
  BY <1>1 DEF IInv, ConfigInv
<1>3. Results[Clone] # "failure"
  BY <1>2, GraphAssumption, ResultsAre DEF CloneFails
<1>4. ~pipeline.error /\ ~pipeline.end
  BY DEF PromiseInv, Decided
<1>5. Results' = [j \in Job |-> IF j \in SkippedUpFront THEN "skipped" ELSE Results[j]]
  BY DEF Results, Final, IsFinalStatus, FinalStatuses
<1> QED
  BY <1>2, <1>3, <1>4, <1>5 DEF Promise!Insert

\* Every step of a pipeline is one of its promise, or changes nothing of it.
LEMMA StepPromised ==
  ASSUME IInv, PromiseInv, [Next]_vars
  PROVE  [Promise!Next]_promised
<1> USE DEF promised, jobVars, runVars, pipelineVars
<1>0. /\ pipeline \in [status : PipelineStatuses, end : BOOLEAN, error : BOOLEAN]
      /\ \A h \in handlers : h.job \in Job /\ h.result \in PipelineStatuses
  BY DEF IInv, TypeOK, Handler
<1>1. ASSUME UNCHANGED <<jobVars, locked, pipeline, commit>> PROVE [Promise!Next]_promised
  BY <1>1, SameResults
<1>2. CASE UNCHANGED vars
  BY <1>1, <1>2 DEF vars
<1>3. CASE RunnerStep
  <2>1. ASSUME NEW j \in Job, ListAvailableJobs(j) \/ SendRunning(j)
        PROVE  [Promise!Next]_promised
    BY <1>1, <2>1 DEF ListAvailableJobs, SendRunning
  <2>2. ASSUME NEW j \in Job, LockJob(j) PROVE [Promise!Next]_promised
    <3>1. CASE j \in locked
      <4>1. UNCHANGED <<jobVars, locked, pipeline, commit>>
        BY <2>2, <3>1 DEF LockJob
      <4> QED
        BY <4>1, <1>1
    <3>2. CASE j \notin locked
      <4>1. Promise!Start(j)
        BY <2>2, <3>2, StartPromised
      <4> QED
        BY <4>1 DEF Promise!Next
    <3> QED
      BY <3>1, <3>2
  <2>3. ASSUME NEW j \in Job, NEW s \in {"success", "failure"}, SendFinalStatus(j, s)
        PROVE  [Promise!Next]_promised
    BY <1>1, <2>3 DEF SendFinalStatus
  <2>4. CASE SendConfigFile \/ SendEmptyConfigFile
    BY <1>1, <2>4 DEF SendConfigFile, SendEmptyConfigFile
  <2> QED
    BY <1>3, <2>1, <2>2, <2>3, <2>4 DEF RunnerStep
<1>4. ASSUME NEW h \in handlers, HandlerStep(h) PROVE [Promise!Next]_promised
  <2>1. CASE \/ ReadJobs(h) \/ ChildrenUpdated(h) \/ ComputeStatus(h) \/ ReadPipelineStatus(h)
             \/ GitServerFails(h) \/ FetchCloneJob(h) \/ NotifyRunners(h)
    BY <1>1, <2>1 DEF ReadJobs, ChildrenUpdated, ComputeStatus, ReadPipelineStatus,
         GitServerFails, FetchCloneJob, NotifyRunners
  <2>2. CASE WriteStatus(h)
    <3>1. CASE Results' # Results
      <4>1. Promise!Finish(h.job)
        BY <2>2, <3>1, FinishPromised
      <4> QED
        BY <1>0, <4>1 DEF Promise!Next
    <3>2. CASE Results' = Results
      BY <2>2, <3>2 DEF WriteStatus
    <3> QED
      BY <3>1, <3>2
  <2>3. ASSUME NEW e \in h.evals, UpdateDownstreamJob(h, e) PROVE [Promise!Next]_promised
    <3>1. CASE Results' # Results
      <4>1. e.child \in Job /\ Promise!Skip(e.child)
        BY <2>3, <3>1, SkipPromised
      <4> QED
        BY <4>1 DEF Promise!Next
    <3>2. CASE Results' = Results
      BY <2>3, <3>2 DEF UpdateDownstreamJob
    <3> QED
      BY <3>1, <3>2
  <2>4. CASE AddConfigJobs(h)
    <3>1. Promise!Insert
      BY <2>4, InsertPromised
    <3> QED
      BY <3>1 DEF Promise!Next
  <2>5. CASE WritePipelineStatus(h)
    <3>1. Promise!Verdict(h.result)
      BY <2>5 DEF WritePipelineStatus, PromiseInv
    <3>2. Promise!Show(h.result)
      BY <1>0, <2>5, <3>1, SameResults DEF WritePipelineStatus, Promise!Show
    <3>3. h.result \in Promise!PipelineStatuses
      BY <1>0 DEF PipelineStatuses, JobStatuses, Promise!PipelineStatuses, Promise!JobStatuses
    <3> QED
      BY <3>2, <3>3 DEF Promise!Next
  <2>6. CASE SendStatusToGitServer(h)
    <3>1. Promise!Verdict(h.result)
      BY <2>6 DEF SendStatusToGitServer, PromiseInv
    <3>2. Promise!CommitState(GitServer, h.result) = CommitState(GitServer, h.result)
      BY DEF CommitState, GiteaState, GitlabState, GithubState, Promise!CommitState,
         Promise!GiteaState, Promise!GitlabState, Promise!GithubState
    <3>3. Promise!Tell(h.result)
      BY <2>6, <3>1, <3>2, SameResults DEF SendStatusToGitServer, Promise!Tell
    <3>4. h.result \in Promise!PipelineStatuses
      BY <1>0 DEF PipelineStatuses, JobStatuses, Promise!PipelineStatuses, Promise!JobStatuses
    <3> QED
      BY <3>3, <3>4 DEF Promise!Next
  <2>7. CASE SetPipelineError(h)
    <3>1. h \in ConfigCalls
      BY <2>7 DEF SetPipelineError, IInv, CallInv, ConfigCalls, TypeOK, Handler
    <3>2. present = {Clone} /\ Clone \in locked
      BY <2>7, <3>1, GraphAssumption DEF SetPipelineError, IInv, ConfigInv, ExecInv
    <3>3. ~pipeline.end
      BY <2>7 DEF SetPipelineError, PromiseInv, Decided
    <3>4. Promise!Refuse
      BY <1>0, <2>7, <3>2, <3>3, SameResults DEF SetPipelineError, Promise!Refuse
    <3> QED
      BY <3>4 DEF Promise!Next
  <2> QED
    BY <1>4, <2>1, <2>2, <2>3, <2>4, <2>5, <2>6, <2>7 DEF HandlerStep
<1>5. CASE SetPipelineEnd
  <2>1. pipeline.error \/ (Promise!Whole /\ \A j \in present : Results[j] # "created")
    <3>1. SUFFICES ASSUME ~pipeline.error
                   PROVE  Promise!Whole /\ \A j \in present : Results[j] # "created"
      OBVIOUS
    <3>2. /\ \A j \in present : Final(j)
          /\ present = Job \/ status[Clone] = "failure"
      BY <1>5, <3>1 DEF SetPipelineEnd, IInv, EndInv
    <3>3. present \subseteq Job /\ Clone \in present
      BY DEF IInv, TypeOK
    <3> QED
      BY <3>2, <3>3, ResultsAre DEF Promise!Whole
  <2>2. Promise!End
    BY <1>0, <1>5, <2>1, SameResults DEF SetPipelineEnd, Promise!End
  <2> QED
    BY <2>2 DEF Promise!Next
<1> QED
  BY <1>2, <1>3, <1>4, <1>5 DEF Next, ServerStep

-----------------------------------------------------------------------------
\* What a step of the promise leaves as it is.
Kept ==
  /\ \A j \in Job : Results[j] # "created" => Results'[j] = Results[j]
  /\ present' = present \/ (present' = Job /\ Results[Clone] # "failure")
  /\ pipeline.error => pipeline'.error

\* A verdict that is right stays right, whatever the promise lets happen.
LEMMA VerdictStays ==
  ASSUME IInv, PromiseInv, [Promise!Next]_promised, NEW s, Promise!Verdict(s)
  PROVE  Promise!Verdict(s)'
<1>0. present \in SUBSET Job /\ Clone \in present
  BY DEF IInv, TypeOK
<1>1. Kept
  <2> USE DEF promised, Kept
  <2>1. CASE Promise!Insert
    <3>1. ASSUME NEW j \in Job, j \in SkippedUpFront, Results[j] # "created" PROVE FALSE
      <4>1. j \notin present
        BY <2>1, <3>1, CloneUpstream DEF Promise!Insert
      <4>2. ~Final(j)
        BY <3>1, <4>1 DEF IInv, PresentInv, Final, IsFinalStatus, FinalStatuses
      <4> QED
        BY <3>1, <4>2, ResultsAre
    <3> QED
      BY <2>1, <3>1 DEF Promise!Insert
  <2>2. ASSUME NEW j \in Job, Promise!Skip(j) \/ Promise!Finish(j) PROVE Kept
    <3>1. /\ Results[j] = "created"
          /\ \E r : Results' = [Results EXCEPT ![j] = r]
          /\ UNCHANGED <<present, pipeline.error>>
      BY <2>2 DEF Promise!Skip, Promise!Finish, Promise!Waits
    <3> QED
      BY <3>1 DEF Results
  <2>3. ASSUME UNCHANGED <<present, Results>>, pipeline.error => pipeline'.error PROVE Kept
    BY <2>3
  <2>4. ASSUME NEW j \in Job, Promise!Start(j) PROVE Kept
    BY <2>3, <2>4 DEF Promise!Start
  <2>5. ASSUME NEW t, Promise!Show(t) \/ Promise!Tell(t) PROVE Kept
    BY <2>3, <2>5 DEF Promise!Show, Promise!Tell
  <2>6. CASE Promise!Refuse \/ Promise!End
    BY <2>3, <2>6 DEF Promise!Refuse, Promise!End
  <2>7. CASE UNCHANGED promised
    BY <2>3, <2>7
  <2> QED
    BY <2>1, <2>2, <2>4, <2>5, <2>6, <2>7 DEF Promise!Next
<1>2. CASE s \in FinalStatuses /\ Promise!Whole /\ s = Promise!Outcome(present)
  <2>1. \A j \in present : Results[j] # "created" /\ Results'[j] = Results[j]
    BY <1>0, <1>1, <1>2, OutcomeIs, ResultsAre DEF Kept
  <2>2. present' = present
    BY <1>0, <1>1, <1>2 DEF Kept, Promise!Whole
  <2>3. Promise!Whole'
    BY <1>0, <1>2, <2>1, <2>2 DEF Promise!Whole
  <2>4. Promise!Outcome(present)' = Promise!Outcome(present)
    <3>1. ComputePipelineStatus(present, Results', AllowFailure)
            = ComputePipelineStatus(present, Results, AllowFailure)
      BY <2>1, ComputeAgrees
    <3> QED
      BY <2>2, <3>1 DEF Promise!Outcome, Promise!ComputePipelineStatus, ComputePipelineStatus
  <2> QED
    BY <1>2, <2>3, <2>4 DEF Promise!Verdict, Promise!FinalStatuses, FinalStatuses
<1>3. CASE s = "running" \/ (s = "failure" /\ pipeline.error)
  BY <1>1, <1>3 DEF Kept, Promise!Verdict
<1> QED
  BY <1>2, <1>3 DEF Promise!Verdict, Promise!FinalStatuses, FinalStatuses

-----------------------------------------------------------------------------
\* No config comes once it was inserted, refused or given up.
LEMMA DecidedStays ==
  ASSUME IInv, Decided, [Next]_vars
  PROVE  Decided'
<1> USE DEF Decided, jobVars, runVars, pipelineVars
<1>0. Clone \in Job /\ exec \in [Job -> {"idle", "running", "extracted", "done"}]
  BY GraphAssumption DEF IInv, TypeOK
<1>1. CASE UNCHANGED vars
  BY <1>1 DEF vars
<1>2. CASE RunnerStep
  <2>1. ASSUME NEW j \in Job, ListAvailableJobs(j) \/ LockJob(j) PROVE Decided'
    BY <2>1 DEF ListAvailableJobs, LockJob
  <2>2. ASSUME NEW j \in Job, SendRunning(j) PROVE Decided'
    BY <1>0, <2>2 DEF SendRunning, SetJobStatus, Call
  <2>3. ASSUME NEW j \in Job, NEW s \in {"success", "failure"}, SendFinalStatus(j, s)
        PROVE  Decided'
    BY <1>0, <2>3 DEF SendFinalStatus, SetJobStatus, Call
  <2>4. ~SendConfigFile /\ ~SendEmptyConfigFile
    BY DEF SendConfigFile, SendEmptyConfigFile
  <2> QED
    BY <1>2, <2>1, <2>2, <2>3, <2>4 DEF RunnerStep
<1>3. ASSUME NEW h \in handlers, HandlerStep(h) PROVE Decided'
  <2>0. h \in Handler
    BY DEF IInv, TypeOK
  <2>1. ~(FetchCloneJob(h) \/ AddConfigJobs(h) \/ SetPipelineError(h))
    BY DEF FetchCloneJob, AddConfigJobs, SetPipelineError
  <2>2. ASSUME NEW e \in h.evals, UpdateDownstreamJob(h, e) PROVE Decided'
    BY <2>0, <2>2 DEF UpdateDownstreamJob, Return, SkipCalls, SetJobStatus, Call, Handler
  <2>3. CASE WriteStatus(h) \/ ReadJobs(h) \/ ChildrenUpdated(h) \/ ComputeStatus(h)
    <3>1. \A k \in handlers' : k \in handlers \/ k.pc \in {"read", "compute", "children", "current"}
      <4>1. CASE WriteStatus(h)
        BY <2>0, <4>1 DEF WriteStatus, Goto, Handler
      <4>2. CASE ReadJobs(h)
        BY <2>0, <4>2 DEF ReadJobs, Return, Handler
      <4>3. CASE ChildrenUpdated(h)
        BY <2>0, <4>3 DEF ChildrenUpdated, Goto, Return, Handler
      <4>4. CASE ComputeStatus(h)
        BY <2>0, <4>4 DEF ComputeStatus, Return, Handler
      <4> QED
        BY <2>3, <4>1, <4>2, <4>3, <4>4
    <3>2. exec' = exec
      BY <2>3 DEF WriteStatus, ReadJobs, ChildrenUpdated, ComputeStatus
    <3> QED
      BY <3>1, <3>2
  <2>4. CASE \/ ReadPipelineStatus(h) \/ WritePipelineStatus(h) \/ SendStatusToGitServer(h)
             \/ GitServerFails(h) \/ NotifyRunners(h)
    BY <2>0, <2>4 DEF ReadPipelineStatus, WritePipelineStatus, SendStatusToGitServer,
         GitServerFails, NotifyRunners, PipelineStatusDone, Goto, Return, Handler
  <2> QED
    BY <1>3, <2>1, <2>2, <2>3, <2>4 DEF HandlerStep
<1>4. CASE SetPipelineEnd
  BY <1>4 DEF SetPipelineEnd
<1> QED
  BY <1>1, <1>2, <1>3, <1>4 DEF Next, ServerStep

\* What updatePipelineStatus computes is a right verdict, and when it ends the
\* pipeline no config is to come.
LEMMA ComputedVerdict ==
  ASSUME IInv, NEW h \in handlers, ComputeStatus(h),
         NEW s, s = ComputePipelineStatus(present, status, AllowFailure),
         ~OnlyHasSucceededCloneJob(s)
  PROVE  /\ Promise!Verdict(s)
         /\ EndsPipeline(s) => Decided
<1>0. present \in SUBSET Job /\ Clone \in present
  BY DEF IInv, TypeOK
<1>1. \A j \in present : status[j] \in {"created", "running", "success", "failure", "skipped"}
  BY <1>0, StatusValues DEF IInv
<1>2. CASE s \notin FinalStatuses
  <2>1. \E j \in present : status[j] \in {"created", "running"}
    BY <1>1, <1>2, ComputeFinal DEF IsFinalStatus, FinalStatuses
  <2>2. s = "running"
    BY <1>1, <2>1 DEF ComputePipelineStatus
  <2> QED
    BY <2>2 DEF Promise!Verdict, EndsPipeline
<1>3. CASE s \in FinalStatuses
  <2>1. \A j \in present : Final(j)
    BY <1>1, <1>3, ComputeFinal DEF Final
  <2>2. s = Promise!Outcome(present)
    BY <1>0, <2>1, OutcomeIs
  <2>3. CASE present # {Clone}
    <3>1. present = Job
      BY <2>3 DEF IInv, PresentInv
    <3>2. Decided
      <4>1. ASSUME NEW k \in handlers, k.pc \in {"fetch", "insert", "error"} PROVE FALSE
        <5>1. k \in ConfigCalls
          BY <4>1 DEF IInv, CallInv, ConfigCalls, TypeOK, Handler
        <5> QED
          BY <2>3, <4>1, <5>1 DEF IInv, ConfigInv
      <4>2. exec[Clone] \notin {"idle", "running"}
        BY <2>3 DEF IInv, ConfigInv
      <4> QED
        BY <4>1, <4>2 DEF Decided
    <3> QED
      BY <1>3, <2>2, <3>1, <3>2 DEF Promise!Verdict, Promise!Whole, Promise!FinalStatuses,
           FinalStatuses
  <2>4. CASE present = {Clone}
    <3>1. status[Clone] = "failure"
      <4>1. status[Clone] \in {"success", "failure"}
        BY <1>1, <2>1, <2>4 DEF IInv, ExecInv, Final, IsFinalStatus, FinalStatuses
      <4>2. status[Clone] = "success" => s = "success"
        BY <2>4 DEF ComputePipelineStatus
      <4> QED
        BY <2>4, <4>1, <4>2 DEF OnlyHasSucceededCloneJob
    <3>2. ConfigCalls = {}
      BY <3>1 DEF IInv, ConfigInv, CloneFails
    <3>3. exec[Clone] \notin {"idle", "running"}
      BY <3>1, GraphAssumption DEF IInv, ExecInv
    <3>4. Decided
      BY <3>2, <3>3 DEF Decided, ConfigCalls, IInv, CallInv, TypeOK, Handler
    <3>5. Results[Clone] = "failure"
      BY <3>1, <2>1, <1>0, ResultsAre
    <3> QED
      BY <1>3, <2>2, <3>4, <3>5 DEF Promise!Verdict, Promise!Whole, Promise!FinalStatuses,
           FinalStatuses
  <2> QED
    BY <2>3, <2>4
<1> QED
  BY <1>2, <1>3

Showing(h) == h.pc \in {"current", "set", "post"}

LEMMA PromiseInvStep ==
  ASSUME IInv, PromiseInv, [Next]_vars
  PROVE  PromiseInv'
<1>0. /\ pipeline \in [status : PipelineStatuses, end : BOOLEAN, error : BOOLEAN]
      /\ ending \in BOOLEAN /\ handlers \subseteq Handler
  BY DEF IInv, TypeOK
<1>1. \A s : Promise!Verdict(s) => Promise!Verdict(s)'
  BY StepPromised, VerdictStays
<1>2. Decided => Decided'
  BY DecidedStays
<1>3. ASSUME \A k \in handlers' : Showing(k) =>
                \E l \in handlers : Showing(l) /\ k.result = l.result,
             pipeline'.error => present' = {Clone},
             pipeline'.error \/ pipeline'.end \/ ending' => Decided
      PROVE  PromiseInv'
  <2>1. \A k \in handlers' : Showing(k) => Promise!Verdict(k.result)'
    BY <1>1, <1>3 DEF PromiseInv, Showing
  <2> QED
    BY <1>2, <1>3, <2>1 DEF PromiseInv, Showing
<1>4. ASSUME UNCHANGED <<present, pipeline, ending>>,
             \A k \in handlers' : Showing(k) =>
                \E l \in handlers : Showing(l) /\ k.result = l.result
      PROVE  PromiseInv'
  BY <1>3, <1>4 DEF PromiseInv
<1> USE DEF jobVars, runVars, pipelineVars
<1>5. CASE UNCHANGED vars
  BY <1>4, <1>5 DEF vars
<1>6. CASE RunnerStep
  <2>1. ASSUME NEW j \in Job, ListAvailableJobs(j) \/ LockJob(j) \/ SendRunning(j)
        PROVE  PromiseInv'
    BY <1>4, <2>1 DEF ListAvailableJobs, LockJob, SendRunning, SetJobStatus, Call, Showing
  <2>2. ASSUME NEW j \in Job, NEW s \in {"success", "failure"}, SendFinalStatus(j, s)
        PROVE  PromiseInv'
    BY <1>4, <2>2 DEF SendFinalStatus, SetJobStatus, Call, Showing
  <2>3. CASE SendConfigFile \/ SendEmptyConfigFile
    BY <1>4, <2>3 DEF SendConfigFile, SendEmptyConfigFile, Call, Showing
  <2> QED
    BY <1>6, <2>1, <2>2, <2>3 DEF RunnerStep
<1>7. ASSUME NEW h \in handlers, HandlerStep(h) PROVE PromiseInv'
  <2> USE DEF Showing, Goto, Return
  <2>0. h \in Handler
    BY <1>0
  <2>1. CASE WriteStatus(h) \/ ReadJobs(h) \/ NotifyRunners(h) \/ GitServerFails(h)
    BY <1>4, <2>0, <2>1 DEF WriteStatus, ReadJobs, NotifyRunners, GitServerFails, Handler
  <2>2. CASE ChildrenUpdated(h) \/ FetchCloneJob(h)
    BY <1>4, <2>0, <2>2 DEF ChildrenUpdated, FetchCloneJob, Handler
  <2>3. ASSUME NEW e \in h.evals, UpdateDownstreamJob(h, e) PROVE PromiseInv'
    BY <1>4, <2>0, <2>3 DEF UpdateDownstreamJob, SkipCalls, SetJobStatus, Call, Handler
  <2>4. CASE AddConfigJobs(h)
    <3>1. ~pipeline.error /\ ~pipeline.end /\ ~ending
      BY <2>4 DEF AddConfigJobs, PromiseInv, Decided
    <3>2. \A k \in handlers' : Showing(k) => k \in handlers
      BY <2>0, <2>4 DEF AddConfigJobs, Handler
    <3> QED
      BY <1>3, <2>4, <3>1, <3>2 DEF AddConfigJobs
  <2>5. CASE ReadPipelineStatus(h) \/ SendStatusToGitServer(h)
    <3>1. \A k \in handlers' : Showing(k) =>
             \E l \in handlers : Showing(l) /\ k.result = l.result
      BY <2>0, <2>5 DEF ReadPipelineStatus, SendStatusToGitServer, PipelineStatusDone, Handler
    <3>2. h.kind = "config" => pipeline.error
      BY <2>5 DEF ReadPipelineStatus, SendStatusToGitServer, IInv, ConfigInv, ConfigCalls
    <3> QED
      BY <1>3, <2>5, <3>1, <3>2 DEF ReadPipelineStatus, SendStatusToGitServer,
           PipelineStatusDone, PromiseInv
  <2>6. CASE WritePipelineStatus(h)
    <3>1. \A k \in handlers' : Showing(k) =>
             \E l \in handlers : Showing(l) /\ k.result = l.result
      BY <2>0, <2>6 DEF WritePipelineStatus, Handler
    <3> QED
      BY <1>0, <1>3, <2>6, <3>1 DEF WritePipelineStatus, PromiseInv
  <2>7. CASE ComputeStatus(h)
    <3> DEFINE s == ComputePipelineStatus(present, status, AllowFailure)
    <3>1. CASE OnlyHasSucceededCloneJob(s)
      BY <1>4, <2>7, <3>1 DEF ComputeStatus
    <3>2. CASE ~OnlyHasSucceededCloneJob(s)
      <4>1. Promise!Verdict(s) /\ (EndsPipeline(s) => Decided)
        BY <2>7, <3>2, ComputedVerdict
      <4>2. \A k \in handlers' : k \in handlers \/ k.result = s
        BY <2>0, <2>7, <3>2 DEF ComputeStatus, Handler
      <4>3. UNCHANGED <<present, pipeline>> /\ ending' = (ending \/ EndsPipeline(s))
        BY <2>7, <3>2 DEF ComputeStatus
      <4> HIDE DEF s
      <4>4. \A k \in handlers' : Showing(k) => Promise!Verdict(k.result)'
        BY <1>1, <4>1, <4>2 DEF PromiseInv
      <4> QED
        BY <1>2, <4>1, <4>3, <4>4 DEF PromiseInv
    <3> QED
      BY <3>1, <3>2
  <2>8. CASE SetPipelineError(h)
    <3>1. h \in ConfigCalls
      BY <2>0, <2>8 DEF SetPipelineError, IInv, CallInv, ConfigCalls, Handler
    <3>2. present = {Clone} /\ exec[Clone] \notin {"idle", "running"}
      BY <2>8, <3>1 DEF SetPipelineError, IInv, ConfigInv
    <3>3. \A k \in handlers' : k.pc \in {"fetch", "insert", "error"} => k \in handlers \ {h}
      BY <2>0, <2>8 DEF SetPipelineError, Handler
    <3>4. \A k \in handlers \ {h} : k.pc \notin {"fetch", "insert", "error"}
      BY <1>0, <3>1 DEF IInv, CallInv, ConfigInv, ConfigCalls, Handler
    <3>5. Decided'
      BY <2>8, <3>2, <3>3, <3>4 DEF Decided, SetPipelineError
    <3>6. pipeline'.error /\ present' = {Clone}
      BY <1>0, <2>8, <3>2 DEF SetPipelineError
    <3>7. \A k \in handlers' : k \in handlers \/ k.result = "failure"
      BY <2>0, <2>8 DEF SetPipelineError, Handler
    <3>8. Promise!Verdict("failure")'
      BY <3>6 DEF Promise!Verdict
    <3>9. \A k \in handlers' : Showing(k) => Promise!Verdict(k.result)'
      BY <1>1, <3>7, <3>8 DEF PromiseInv
    <3> QED
      BY <3>5, <3>6, <3>9 DEF PromiseInv
  <2> QED
    BY <1>7, <2>1, <2>2, <2>3, <2>4, <2>5, <2>6, <2>7, <2>8 DEF HandlerStep
<1>8. CASE SetPipelineEnd
  <2>1. pipeline'.error = pipeline.error /\ ending
    BY <1>0, <1>8 DEF SetPipelineEnd
  <2> QED
    BY <1>3, <1>8, <2>1 DEF SetPipelineEnd, PromiseInv
<1> QED
  BY <1>5, <1>6, <1>7, <1>8 DEF Next, ServerStep

LEMMA PromiseInit == Init => Promise!Init /\ PromiseInv
<1> SUFFICES ASSUME Init PROVE Promise!Init /\ PromiseInv
  OBVIOUS
<1>1. Promise!Init
  BY DEF Init, Promise!Init, Results, Final, IsFinalStatus, FinalStatuses, None
<1>2. PromiseInv
  BY DEF Init, PromiseInv
<1> QED
  BY <1>1, <1>2

\* The pipeline keeps the promise of PipelinePromise: results are final, jobs
\* start by what is upstream, verdicts are right, the end comes last
\* (setJobStatus, updatePipelineStatus, processCiConfig).
THEOREM ImplementsPromiseHolds == ASSUME Tame PROVE Spec => ImplementsPromise
<1>1. IInv /\ PromiseInv /\ [Next]_vars => [Promise!Next]_promised /\ PromiseInv'
  BY StepPromised, PromiseInvStep
<1>2. Spec => []IInv
  BY Invariant
<1> QED
  BY <1>1, <1>2, PromiseInit, PTL
  DEF Spec, ImplementsPromise, Promise!Spec, Promise!promise, promised

-----------------------------------------------------------------------------
(* PipelineCancel: types.                                                  *)

LEMMA CancelInitType == ASSUME CancelInit PROVE CancelTypeOK
<1>1. TypeOK
  BY InitType DEF CancelInit
<1>2. requests \in 0..MaxRequests
  BY CancelAssumption DEF CancelInit
<1> QED
  BY <1>1, <1>2 DEF CancelInit, CancelTypeOK

LEMMA CancelledCalls ==
  ASSUME TypeOK, NEW source \in Sources
  PROVE  CancelNonRunningJobs(source) \subseteq Handler
<1>1. ASSUME NEW j \in Job PROVE SetJobStatus(j, "cancelled", <<source>>) \in Handler
  BY CallType, SourceType DEF SetJobStatus, JobStatuses, PCs
<1> QED
  BY <1>1 DEF CancelNonRunningJobs, TypeOK

\* The variables of PipelineProgress in the steps that are not its own.
LEMMA CancelStepType == ASSUME CancelTypeOK, CancelStep PROVE TypeOK'
<1> USE DEF CancelTypeOK, TypeOK, vars, jobVars, runVars, pipelineVars
<1>1. CASE PreventJobsFromBeingRun \/ StopRunningJobs \/ MarkPipelineAsCancelled
  BY <1>1 DEF PreventJobsFromBeingRun, StopRunningJobs, MarkPipelineAsCancelled
<1>2. CASE CancelJobsWithoutRunner
  BY <1>2, CancelledCalls DEF CancelJobsWithoutRunner, Sources
<1>3. CASE DelayedCancel
  BY <1>3, CancelledCalls DEF DelayedCancel, Sources
<1>4. ASSUME NEW j \in Job, SetJobEnd(j) \/ StopTooLate(j) PROVE TypeOK'
  BY <1>4 DEF SetJobEnd, StopTooLate
<1>5. CASE CleanJobs
  <2>1. status' \in [Job -> JobStatuses]
    BY <1>5 DEF CleanJobs, JobStatuses
  <2> QED
    BY <1>5, <2>1 DEF CleanJobs
<1> QED
  BY <1>1, <1>2, <1>3, <1>4, <1>5 DEF CancelStep

LEMMA SendCancelledType ==
  ASSUME CancelTypeOK, NEW j \in Job, SendCancelled(j)
  PROVE  TypeOK'
<1>1. SetJobStatus(j, "cancelled", <<"runner">>) \in Handler
  BY CallType, SourceType DEF SetJobStatus, JobStatuses, PCs, Sources
<1> QED
  BY <1>1 DEF SendCancelled, CancelTypeOK, TypeOK, jobVars, pipelineVars

LEMMA RestartType == ASSUME CancelTypeOK, Restart PROVE TypeOK'
<1>1. exec' \in [Job -> {"idle", "running", "extracted", "done"}]
  <2>1. PICK orphans \in SUBSET {j \in locked : exec[j] = "idle"} :
          exec' = [j \in Job |-> IF j \in orphans THEN "done" ELSE exec[j]]
    BY DEF Restart
  <2> QED
    BY <2>1 DEF CancelTypeOK, TypeOK
<1> QED
  BY <1>1 DEF Restart, CancelTypeOK, TypeOK, jobVars

\* The actions of PipelineProgress that a cancellation leaves as they are.
LEMMA CallStepType == ASSUME CancelTypeOK, CallStep PROVE TypeOK'
<1> TypeOK
  BY DEF CancelTypeOK
<1>1. CASE SetPipelineEnd
  BY <1>1, ServerType DEF ServerStep
<1>2. ASSUME NEW h \in handlers, OrdinaryStep(h) PROVE TypeOK'
  <2>1. CASE AddConfigJobsOrNot(h)
    <3>1. CASE AddConfigJobs(h)
      BY <3>1, ServerType DEF ServerStep, HandlerStep
    <3>2. CASE ~AddConfigJobs(h)
      <4>1. h \in Handler /\ [h EXCEPT !.pc = "read"] \in Handler
        BY DEF TypeOK, Handler, PCs
      <4> QED
        BY <2>1, <3>2, <4>1
           DEF AddConfigJobsOrNot, TypeOK, Goto, jobVars, runVars, pipelineVars
    <3> QED
      BY <3>1, <3>2
  <2> QED
    BY <1>2, <2>1, ServerType DEF OrdinaryStep, ServerStep, HandlerStep
<1>3. ASSUME NEW h \in handlers, CancelFails(h) \/ NotifyRunnersUnlessCancelled(h)
      PROVE  TypeOK'
  BY <1>3, ServerType
     DEF CancelFails, NotifyRunnersUnlessCancelled, ServerStep, HandlerStep
<1> QED
  BY <1>1, <1>2, <1>3 DEF CallStep

LEMMA RunnerStepType ==
  ASSUME CancelTypeOK, ReportStep \/ \E j \in Job : PullStep(j) \/ LoseReports(j)
  PROVE  TypeOK'
<1> TypeOK
  BY DEF CancelTypeOK
<1>1. ASSUME NEW j \in Job, Begin(j) \/ \E s \in {"success", "failure"} : End(j, s)
      PROVE  TypeOK'
  BY <1>1, RunnerType DEF Begin, End, RunnerStep
<1>2. ASSUME NEW j \in Job, SendCancelled(j) PROVE TypeOK'
  BY <1>2, SendCancelledType
<1>3. CASE SendConfigFile \/ DropConfigFile
  BY <1>3, RunnerType DEF RunnerStep, DropConfigFile
<1>4. ASSUME NEW j \in Job, PullNothing(j) PROVE TypeOK'
  BY <1>4 DEF PullNothing, TypeOK, jobVars, pipelineVars
<1>5. ASSUME NEW j \in Job, ListAvailableJobs(j) \/ LockJob(j) PROVE TypeOK'
  BY <1>5, RunnerType DEF RunnerStep
<1>6. ASSUME NEW j \in Job, LoseReports(j) PROVE TypeOK'
  BY <1>6 DEF LoseReports, TypeOK, jobVars, pipelineVars
<1> QED
  BY <1>1, <1>2, <1>3, <1>4, <1>5, <1>6 DEF ReportStep, PullStep

\* Jobs are neither removed nor unlocked.
Grows == present \subseteq present' /\ locked \subseteq locked'

LEMMA CancelNextGrows == ASSUME CancelTypeOK, CancelNext PROVE Grows
<1> USE DEF Grows, vars, jobVars, runVars
<1>1. CASE UserStep \/ Restart
  BY <1>1 DEF UserStep, CancelPipeline, Restart
<1>2. CASE CancelStep
  BY <1>2 DEF CancelStep, PreventJobsFromBeingRun, StopRunningJobs,
       CancelJobsWithoutRunner, MarkPipelineAsCancelled, DelayedCancel, SetJobEnd,
       StopTooLate, CleanJobs
<1>3. CASE ReportStep
  BY <1>3 DEF ReportStep, Begin, End, SendRunning, SendFinalStatus, SendConfigFile,
       DropConfigFile, SendEmptyConfigFile,
       SendCancelled
<1>4. ASSUME NEW h \in handlers, OrdinaryStep(h) PROVE Grows
  BY <1>4 DEF OrdinaryStep, CancelTypeOK, TypeOK, WriteStatus, ReadJobs, ChildrenUpdated,
       ComputeStatus, UpdateDownstreamJob, ReadPipelineStatus, WritePipelineStatus,
       SendStatusToGitServer, FetchCloneJob, AddConfigJobsOrNot, AddConfigJobs,
       SetPipelineError
<1>5. ASSUME NEW h \in handlers, CancelFails(h) \/ NotifyRunnersUnlessCancelled(h)
      PROVE  Grows
  BY <1>5 DEF CancelFails, GitServerFails, NotifyRunnersUnlessCancelled, NotifyRunners
<1>6. CASE SetPipelineEnd
  BY <1>6 DEF SetPipelineEnd
<1>7. ASSUME NEW j \in Job, PullStep(j) \/ LoseReports(j) PROVE Grows
  BY <1>7 DEF PullStep, ListAvailableJobs, LockJob, PullNothing, LoseReports
<1> QED
  BY <1>1, <1>2, <1>3, <1>4, <1>5, <1>6, <1>7 DEF CancelNext, CallStep

CancelVarsOK ==
  /\ cancelling \in {"no", "prevent", "parts", "failed", "done"}
  /\ parts \subseteq {"stop", "cancel"}
  /\ requests \in 0..MaxRequests
  /\ cancelledAt \subseteq present
  /\ marked \in BOOLEAN /\ delayed \in BOOLEAN
  /\ stopping \subseteq locked
  /\ jobEnd \in [Job -> {"none", "sent", "set"}]
  /\ scenario \in Scenarios
  /\ lost \in BOOLEAN /\ dropped \in BOOLEAN

\* The variables of a cancellation, as far as they change.
LEMMA UnchangedCancelVars ==
  ASSUME CancelVarsOK, Grows, UNCHANGED cancelVars
  PROVE  CancelVarsOK'
BY DEF CancelVarsOK, Grows, cancelVars, historyVars

LEMMA CancelVarsType == ASSUME CancelTypeOK, CancelNext PROVE CancelVarsOK'
<1> USE DEF historyVars
<1>0. CancelVarsOK /\ Grows /\ TypeOK
  BY CancelNextGrows DEF CancelTypeOK, CancelVarsOK
<1>1. CASE CancelPipeline
  <2>1. requests' \in 0..MaxRequests
    BY <1>0, <1>1, CancelAssumption DEF CancelPipeline, CancelVarsOK
  <2> QED
    BY <1>0, <1>1, <2>1 DEF CancelPipeline, CancelVarsOK, Grows
<1>2. CASE Restart
  <2>1. PICK unheard \in SUBSET {j \in Job : jobEnd[j] = "sent"} :
          jobEnd' = [j \in Job |-> IF j \in unheard THEN "none" ELSE jobEnd[j]]
    BY <1>2 DEF Restart
  <2>2. jobEnd' \in [Job -> {"none", "sent", "set"}]
    BY <1>0, <2>1 DEF CancelVarsOK
  <2> QED
    BY <1>0, <1>2, <2>2 DEF Restart, CancelVarsOK, Grows, jobVars
<1>3. CASE PreventJobsFromBeingRun
  BY <1>0, <1>3 DEF PreventJobsFromBeingRun, CancelVarsOK, vars, jobVars, runVars
<1>4. CASE StopRunningJobs
  BY <1>0, <1>4 DEF StopRunningJobs, RunningJobs, CancelVarsOK, vars, jobVars, runVars
<1>5. CASE CancelJobsWithoutRunner \/ MarkPipelineAsCancelled \/ DelayedCancel
  BY <1>0, <1>5 DEF CancelJobsWithoutRunner, MarkPipelineAsCancelled, DelayedCancel,
       CancelVarsOK, vars, jobVars, runVars
<1>6. ASSUME NEW j \in Job, SetJobEnd(j) \/ StopTooLate(j) PROVE CancelVarsOK'
  BY <1>0, <1>6 DEF SetJobEnd, StopTooLate, CancelVarsOK, vars, jobVars, runVars
<1>7. CASE CleanJobs
  <2>1. PICK old \in {Unended, Unended \cap {Clone}} :
          /\ jobEnd' = [j \in Job |-> IF j \in old THEN "set" ELSE jobEnd[j]]
          /\ cancelledAt' = cancelledAt \cup old
    BY <1>7 DEF CleanJobs
  <2>2. old \subseteq present
    BY <2>1 DEF Unended
  <2>3. jobEnd' \in [Job -> {"none", "sent", "set"}]
    BY <1>0, <2>1 DEF CancelVarsOK
  <2> QED
    BY <1>0, <1>7, <2>1, <2>2, <2>3 DEF CleanJobs, CancelVarsOK, runVars
<1>8. ASSUME NEW j \in Job, NEW s \in {"success", "failure"}, End(j, s)
      PROVE  CancelVarsOK'
  BY <1>0, <1>8 DEF End, EndSent, CancelVarsOK, Grows
<1>9. ASSUME NEW j \in Job, SendCancelled(j) PROVE CancelVarsOK'
  BY <1>0, <1>9 DEF SendCancelled, EndSent, CancelVarsOK, jobVars
<1>10. ASSUME NEW h \in handlers, CancelFails(h) \/ NotifyRunnersUnlessCancelled(h)
       PROVE  CancelVarsOK'
  BY <1>0, <1>10, Zenon DEF CancelFails, NotifyRunnersUnlessCancelled, GitServerFails, NotifyRunners,
       CancelVarsOK, jobVars, runVars
<1>11. CASE UNCHANGED cancelVars
  BY <1>0, <1>11, UnchangedCancelVars
<1>12. ASSUME NEW j \in Job, PullStep(j) PROVE UNCHANGED cancelVars
  BY <1>12 DEF PullStep, PullNothing
<1>13. ASSUME NEW j \in Job, Begin(j) PROVE UNCHANGED cancelVars
  BY <1>13 DEF Begin
<1>14. CASE DropConfigFile
  BY <1>0, <1>14 DEF DropConfigFile, CancelVarsOK, Grows
<1>15. ASSUME NEW j \in Job, LoseReports(j) PROVE CancelVarsOK'
  <2>1. jobEnd' \in [Job -> {"none", "sent", "set"}]
    BY <1>0, <1>15 DEF LoseReports, EndSent, CancelVarsOK
  <2> QED
    BY <1>0, <1>15, <2>1 DEF LoseReports, CancelVarsOK, jobVars
<1> QED
  BY <1>1, <1>2, <1>3, <1>4, <1>5, <1>6, <1>7, <1>8, <1>9, <1>10, <1>11, <1>12, <1>13,
     <1>14, <1>15
     DEF CancelNext, UserStep, ReportStep, CancelStep, CallStep

LEMMA CancelNextType == ASSUME CancelTypeOK, [CancelNext]_allVars PROVE CancelTypeOK'
<1>1. CASE UNCHANGED allVars
  BY <1>1 DEF allVars, cancelVars, historyVars, vars, jobVars, runVars, pipelineVars,
       CancelTypeOK, TypeOK
<1>2. CASE CancelNext
  <2>1. CancelVarsOK'
    BY <1>2, CancelVarsType
  <2>2. TypeOK'
    <3>1. CASE UserStep
      BY <3>1 DEF UserStep, CancelPipeline, CancelTypeOK, TypeOK, vars, jobVars,
           runVars, pipelineVars
    <3> QED
      BY <1>2, <3>1, CancelStepType, CallStepType, RunnerStepType, RestartType
         DEF CancelNext
  <2> QED
    BY <2>1, <2>2 DEF CancelVarsOK, CancelTypeOK
<1> QED
  BY <1>1, <1>2

\* The variables are well typed, in every scenario and for every pipeline.
THEOREM CancelTypeCorrect == CancelSpec => []CancelTypeOK
BY CancelInitType, CancelNextType, PTL DEF CancelSpec

-----------------------------------------------------------------------------
(* Nothing is handed out once a pipeline is marked.                        *)

\* In the scenario `steady` all jobs are there when a cancellation begins:
\* from its first step on every job is barred.
Barred == cancelledAt = Job

BarredInv ==
  scenario = "steady" =>
    /\ ~lost
    /\ cancelling # "no" => present = Job
    /\ (cancelling \in {"parts", "failed", "done"} \/ parts # {} \/ marked \/ delayed)
         => Barred

LEMMA BarredStep ==
  ASSUME CancelTypeOK, BarredInv, CancelNext
  PROVE  BarredInv'
<1> USE DEF BarredInv, Barred, historyVars, vars, jobVars
<1>0. scenario' = scenario /\ present \subseteq present' /\ present' \subseteq Job
      /\ cancelledAt \subseteq Job
  <2>1. scenario' = scenario
    BY DEF CancelNext, UserStep, CancelPipeline, Restart, CancelStep, PreventJobsFromBeingRun,
         StopRunningJobs, CancelJobsWithoutRunner, MarkPipelineAsCancelled, DelayedCancel,
         SetJobEnd, StopTooLate, CleanJobs, LoseReports, ReportStep,
       DropConfigFile, Begin, End, SendCancelled, PullStep,
         PullNothing, CallStep, CancelFails, NotifyRunnersUnlessCancelled, cancelVars
  <2> QED
    BY <2>1, CancelNextGrows, CancelNextType DEF Grows, CancelTypeOK, TypeOK
<1>1. CASE CancelPipeline
  BY <1>0, <1>1 DEF CancelPipeline
<1>2. CASE PreventJobsFromBeingRun
  BY <1>0, <1>2 DEF PreventJobsFromBeingRun
<1>3. CASE StopRunningJobs \/ CancelJobsWithoutRunner \/ MarkPipelineAsCancelled
  BY <1>0, <1>3 DEF StopRunningJobs, CancelJobsWithoutRunner, MarkPipelineAsCancelled
<1>4. CASE DelayedCancel
  BY <1>0, <1>4 DEF DelayedCancel
<1>5. CASE CleanJobs \/ Restart
  BY <1>0, <1>5 DEF CleanJobs, Restart
<1>6. ASSUME NEW j \in Job, SetJobEnd(j) \/ StopTooLate(j) \/ SendCancelled(j)
             \/ \E s \in {"success", "failure"} : End(j, s)
      PROVE  BarredInv'
  BY <1>0, <1>6 DEF SetJobEnd, StopTooLate, SendCancelled, End
<1>7. ASSUME NEW h \in handlers, CancelFails(h) \/ NotifyRunnersUnlessCancelled(h)
      PROVE  BarredInv'
  BY <1>0, <1>7 DEF CancelFails, NotifyRunnersUnlessCancelled
<1>8. CASE UNCHANGED cancelVars
  BY <1>0, <1>8 DEF cancelVars
<1>9. ASSUME NEW j \in Job, PullStep(j) \/ Begin(j) PROVE UNCHANGED cancelVars
  BY <1>9 DEF PullStep, PullNothing, Begin
<1>10. ASSUME NEW j \in Job, DropConfigFile \/ LoseReports(j) PROVE BarredInv'
  BY <1>0, <1>10 DEF DropConfigFile, LoseReports
<1> QED
  BY <1>1, <1>2, <1>3, <1>4, <1>5, <1>6, <1>7, <1>8, <1>9, <1>10, GraphAssumption
     DEF CancelNext, UserStep, ReportStep, CancelStep, CallStep

\* A lock needs a job that is not barred.
LEMMA OnlyLockJobLocks ==
  ASSUME CancelTypeOK, CancelNext, ~(locked' \subseteq locked)
  PROVE  \E j \in Job : LockJob(j) /\ j \notin cancelledAt
<1> USE DEF vars, jobVars, runVars
<1>1. ASSUME NEW j \in Job, PullStep(j)
      PROVE  locked' \subseteq locked \/ (LockJob(j) /\ j \notin cancelledAt)
  BY <1>1 DEF PullStep, ListAvailableJobs, PullNothing, Prevented
<1>5. ASSUME NEW j \in Job, LoseReports(j) PROVE locked' \subseteq locked
  BY <1>5 DEF LoseReports
<1>2. CASE UserStep \/ Restart \/ CancelStep
  BY <1>2 DEF UserStep, CancelPipeline, Restart, CancelStep, PreventJobsFromBeingRun,
       StopRunningJobs, CancelJobsWithoutRunner, MarkPipelineAsCancelled, DelayedCancel,
       SetJobEnd, StopTooLate, CleanJobs
<1>3. CASE ReportStep
  BY <1>3 DEF ReportStep, Begin, End, SendRunning, SendFinalStatus, SendConfigFile,
       DropConfigFile, SendEmptyConfigFile,
       SendCancelled
<1>4. CASE CallStep
  BY <1>4 DEF CallStep, OrdinaryStep, WriteStatus, ReadJobs, ChildrenUpdated, ComputeStatus,
       UpdateDownstreamJob, ReadPipelineStatus, WritePipelineStatus, SendStatusToGitServer,
       FetchCloneJob, AddConfigJobsOrNot, AddConfigJobs, SetPipelineError, CancelFails,
       GitServerFails, NotifyRunnersUnlessCancelled, NotifyRunners, SetPipelineEnd
<1> QED
  BY <1>1, <1>2, <1>3, <1>4, <1>5 DEF CancelNext

LEMMA BarredAlways == CancelSpec => [](CancelTypeOK /\ BarredInv)
<1>1. CancelInit => CancelTypeOK /\ BarredInv
  BY CancelInitType DEF CancelInit, BarredInv
<1>2. CancelTypeOK /\ BarredInv /\ [CancelNext]_allVars => (CancelTypeOK /\ BarredInv)'
  <2>1. BarredInv /\ UNCHANGED allVars => BarredInv'
    BY DEF BarredInv, Barred, allVars, cancelVars, historyVars, vars, jobVars
  <2> QED
    BY <2>1, BarredStep, CancelNextType
<1> QED
  BY <1>1, <1>2, PTL DEF CancelSpec

\* Once cancelPipeline has returned no job is handed out, not even one that a
\* pull had read as available (cancelPipeline, lockJob).
THEOREM NothingStartsOnceCancelledHolds == CancelSpec => NothingStartsOnceCancelled
<1>1. CancelTypeOK /\ BarredInv /\ [CancelNext]_allVars
        => [marked /\ scenario = "steady" => locked' \subseteq locked]_allVars
  BY OnlyLockJobLocks DEF BarredInv, Barred
<1> QED
  BY <1>1, BarredAlways, PTL DEF CancelSpec, NothingStartsOnceCancelled

-----------------------------------------------------------------------------
(* A cancelled job stays so.                                               *)

\* No runner executes the job, nor ever will: it has none and is barred, or
\* the runner has reported how it ended.
OutOfReach(j) == IF j \in locked THEN exec[j] = "done" ELSE Barred

\* The status that a call is about to write is `running`, of a job that a
\* runner executes, or final; when it is `cancelled` the job is out of reach.
CallOK(h) ==
  /\ h.kind = "status"
  /\ \/ /\ h.status = "running" /\ h.job \in locked
        /\ exec[h.job] \in {"running", "extracted"}
     \/ IsFinalStatus(h.status) /\ (h.status = "cancelled" => OutOfReach(h.job))

StayInv ==
  scenario = "steady" =>
    /\ \A h \in handlers : h.pc = "write" => CallOK(h)
    /\ \A j \in Job : status[j] = "cancelled" => OutOfReach(j)

CancelIInv == CancelTypeOK /\ BarredInv /\ StayInv

LEMMA NewCall ==
  ASSUME NEW j, NEW s, NEW via
  PROVE  /\ SetJobStatus(j, s, via).kind = "status" /\ SetJobStatus(j, s, via).job = j
         /\ SetJobStatus(j, s, via).status = s /\ SetJobStatus(j, s, via).pc = "write"
BY DEF SetJobStatus, Call

\* What the server writes for a call, and the calls it starts.
CallWrites(h) ==
  /\ UNCHANGED <<locked, exec>>
  /\ \A k \in handlers' : k.pc = "write" =>
       k \in handlers \/ (k.kind = "status" /\ k.status = "skipped")
  /\ \A j \in Job : \/ status'[j] \in {status[j], "skipped"}
                    \/ h.pc = "write" /\ h.job = j /\ status'[j] = h.status

LEMMA CallStepWrites ==
  ASSUME CancelTypeOK, NEW h \in handlers,
         OrdinaryStep(h) \/ CancelFails(h) \/ NotifyRunnersUnlessCancelled(h)
  PROVE  CallWrites(h)
<1> USE DEF CallWrites, Goto, Return, vars, jobVars, runVars, pipelineVars
<1>0. h \in Handler /\ handlers \subseteq Handler /\ status \in [Job -> JobStatuses]
  BY DEF CancelTypeOK, TypeOK
<1>1. \A pc : [h EXCEPT !.pc = pc].pc = pc
  BY <1>0 DEF Handler
<1>2. CASE WriteStatus(h)
  <2>1. \A j \in Job : status'[j] = status[j] \/ (h.job = j /\ status'[j] = h.status)
    BY <1>0, <1>2 DEF WriteStatus
  <2>2. \A k \in handlers' : k \in handlers \/ k.pc # "write"
    BY <1>1, <1>2 DEF WriteStatus
  <2> QED
    BY <1>2, <2>1, <2>2 DEF WriteStatus
<1>3. CASE ReadJobs(h)
  <2>1. [h EXCEPT !.pc = "children", !.evals = Evaluations(h.job)].pc = "children"
    BY <1>0 DEF Handler
  <2> QED
    BY <1>3, <2>1 DEF ReadJobs
<1>4. CASE ChildrenUpdated(h)
  BY <1>1, <1>4 DEF ChildrenUpdated
<1>5. CASE ComputeStatus(h)
  <2>1. \A r : [h EXCEPT !.pc = "current", !.result = r].pc = "current"
    BY <1>0 DEF Handler
  <2> QED
    BY <1>5, <2>1 DEF ComputeStatus
<1>6. ASSUME NEW e \in h.evals, UpdateDownstreamJob(h, e) PROVE CallWrites(h)
  <2>1. [h EXCEPT !.evals = @ \ {e}].pc = "children"
    BY <1>0, <1>6 DEF Handler, UpdateDownstreamJob
  <2>2. \A k \in SkipCalls(h, e) : k.kind = "status" /\ k.status = "skipped"
    BY NewCall DEF SkipCalls
  <2>3. \A j \in Job : status'[j] \in {status[j], "skipped"}
    BY <1>0, <1>6 DEF UpdateDownstreamJob, StatusUpdate
  <2> QED
    BY <1>6, <2>1, <2>2, <2>3 DEF UpdateDownstreamJob
<1>7. CASE ReadPipelineStatus(h) \/ WritePipelineStatus(h)
  <2>1. [h EXCEPT !.pc = "set"].pc = "set" /\ [h EXCEPT !.pc = "post"].pc = "post"
    BY <1>1
  <2>2. UNCHANGED <<status, locked, exec>>
    BY <1>7 DEF ReadPipelineStatus, WritePipelineStatus
  <2>3. handlers' \subseteq handlers \cup {[h EXCEPT !.pc = "set"], [h EXCEPT !.pc = "post"]}
    BY <1>7 DEF ReadPipelineStatus, PipelineStatusDone, WritePipelineStatus
  <2> QED
    BY <2>1, <2>2, <2>3
<1>11. CASE SendStatusToGitServer(h) \/ CancelFails(h) \/ NotifyRunnersUnlessCancelled(h)
  BY <1>1, <1>11 DEF PipelineStatusDone, SendStatusToGitServer, CancelFails, GitServerFails,
     NotifyRunnersUnlessCancelled, NotifyRunners
<1>8. CASE FetchCloneJob(h)
  <2>1. [h EXCEPT !.pc = "insert", !.status = status[Clone]].pc = "insert"
    BY <1>0 DEF Handler
  <2>2. [h EXCEPT !.pc = "error", !.status = status[Clone]].pc = "error"
    BY <1>0 DEF Handler
  <2> QED
    BY <1>8, <2>1, <2>2 DEF FetchCloneJob
<1>9. CASE AddConfigJobsOrNot(h)
  <2>1. CASE scenario = "refusal"
    <3>1. [h EXCEPT !.pc = "read"].pc = "read"
      BY <1>1
    <3>2. UNCHANGED <<status, locked, exec>>
          /\ handlers' = (handlers \ {h}) \cup {[h EXCEPT !.pc = "read"]}
      BY <1>9, <2>1 DEF AddConfigJobsOrNot
    <3> QED
      BY <3>1, <3>2
  <2>2. CASE AddConfigJobs(h)
    <3>1. \A j \in Job : status'[j] \in {status[j], "skipped"}
      BY <1>0, <2>2 DEF AddConfigJobs
    <3> QED
      BY <1>1, <2>2, <3>1 DEF AddConfigJobs
  <2> QED
    BY <1>9, <2>1, <2>2 DEF AddConfigJobsOrNot
<1>10. CASE SetPipelineError(h)
  <2>1. [h EXCEPT !.pc = "current", !.result = "failure"].pc = "current"
    BY <1>0 DEF Handler
  <2> QED
    BY <1>10, <2>1 DEF SetPipelineError
<1> QED
  BY <1>2, <1>3, <1>4, <1>5, <1>6, <1>7, <1>8, <1>9, <1>10, <1>11 DEF OrdinaryStep

\* Cancelled jobs that no runner has are barred in the scenario `steady`.
LEMMA CancelledCallsOK ==
  ASSUME CancelTypeOK, Barred, NEW source, NEW h \in CancelNonRunningJobs(source)
  PROVE  CallOK(h)
<1>1. PICK j \in present \ locked : h = SetJobStatus(j, "cancelled", <<source>>)
  BY DEF CancelNonRunningJobs
<1> QED
  BY <1>1, NewCall DEF CallOK, OutOfReach, IsFinalStatus, FinalStatuses


\* In the scenario `steady` a job out of reach remains so: it is not locked
\* when it is barred, and no runner has more than one end for it.
LEMMA ReachGrows ==
  ASSUME CancelIInv, scenario = "steady", CancelNext
  PROVE  /\ scenario' = scenario
         /\ \A j \in Job : OutOfReach(j) => OutOfReach(j)'
<1> USE DEF historyVars, vars, jobVars, runVars
<1>0. exec \in [Job -> {"idle", "running", "extracted", "done"}] /\ ~lost
  BY DEF CancelIInv, CancelTypeOK, TypeOK, BarredInv
<1>1. scenario' = scenario
  BY DEF CancelNext, UserStep, CancelPipeline, Restart, CancelStep, PreventJobsFromBeingRun,
       StopRunningJobs, CancelJobsWithoutRunner, MarkPipelineAsCancelled, DelayedCancel,
       SetJobEnd, StopTooLate, CleanJobs, LoseReports, ReportStep,
       DropConfigFile, Begin, End, SendCancelled, PullStep,
       PullNothing, CallStep, CancelFails, NotifyRunnersUnlessCancelled, cancelVars
<1>2. Barred => Barred' /\ locked' = locked
  <2>1. cancelledAt \subseteq cancelledAt'
    BY <1>0 DEF CancelNext, UserStep, CancelPipeline, Restart, CancelStep,
       PreventJobsFromBeingRun, StopRunningJobs, CancelJobsWithoutRunner,
       MarkPipelineAsCancelled, DelayedCancel, SetJobEnd, StopTooLate, CleanJobs, LoseReports, ReportStep,
       DropConfigFile,
       Begin, End, SendCancelled, PullStep, PullNothing, CallStep, CancelFails,
       NotifyRunnersUnlessCancelled, cancelVars
  <2>2. cancelledAt' \subseteq Job
    BY CancelNextType DEF CancelIInv, CancelTypeOK, TypeOK
  <2>3. Barred => locked' \subseteq locked
    BY OnlyLockJobLocks DEF CancelIInv, Barred
  <2> QED
    BY <2>1, <2>2, <2>3, CancelNextGrows DEF Barred, Grows, CancelIInv
<1>3. \A j \in Job : j \in locked /\ exec[j] = "done" => j \in locked' /\ exec'[j] = "done"
  <2>1. locked \subseteq locked'
    BY CancelNextGrows DEF CancelIInv, Grows
  <2>2. CASE ReportStep
    BY <1>0, <2>2 DEF ReportStep, Begin, End, SendCancelled, SendRunning, SendFinalStatus,
       SendConfigFile, DropConfigFile, SendEmptyConfigFile
    \* every one of them needs a job that is not done, or makes it so
  <2>3. CASE UserStep \/ CancelStep
    BY <1>0, <2>3 DEF UserStep, CancelPipeline, CancelStep, PreventJobsFromBeingRun,
       StopRunningJobs, CancelJobsWithoutRunner, MarkPipelineAsCancelled, DelayedCancel,
       SetJobEnd, StopTooLate, CleanJobs
  <2>4. CASE CallStep
    BY <2>4, CallStepWrites
       DEF CallStep, CallWrites, SetPipelineEnd, CancelIInv
  <2>5. ASSUME NEW j \in Job, PullStep(j) PROVE exec' = exec
    BY <2>5 DEF PullStep, ListAvailableJobs, LockJob, PullNothing
  <2>6. ~Restart /\ \A j \in Job : ~LoseReports(j)
    BY DEF Restart, LoseReports
  <2> QED
    BY <2>1, <2>2, <2>3, <2>4, <2>5, <2>6 DEF CancelNext
<1> QED
  BY <1>1, <1>2, <1>3 DEF OutOfReach

LEMMA StayStep ==
  ASSUME CancelIInv, CancelNext
  PROVE  StayInv'
<1> USE DEF historyVars, vars, jobVars, runVars, IsFinalStatus, FinalStatuses
<1>0. SUFFICES ASSUME scenario = "steady"
      PROVE  /\ \A h \in handlers' : h.pc = "write" => CallOK(h)'
             /\ \A j \in Job : status'[j] = "cancelled" => OutOfReach(j)'
  <2>1. scenario' = "steady" => scenario = "steady"
    BY DEF CancelNext, UserStep, CancelPipeline, Restart, CancelStep,
       PreventJobsFromBeingRun, StopRunningJobs, CancelJobsWithoutRunner,
       MarkPipelineAsCancelled, DelayedCancel, SetJobEnd, StopTooLate, CleanJobs, LoseReports, ReportStep,
       DropConfigFile,
       Begin, End, SendCancelled, PullStep, PullNothing, CallStep, CancelFails,
       NotifyRunnersUnlessCancelled, cancelVars
  <2> QED
    BY <2>1 DEF StayInv
<1>1. /\ handlers \subseteq Handler /\ stopping \subseteq locked
      /\ status \in [Job -> JobStatuses]
      /\ exec \in [Job -> {"idle", "running", "extracted", "done"}] /\ ~lost
  BY <1>0 DEF CancelIInv, CancelTypeOK, TypeOK, BarredInv
<1>2. /\ \A h \in handlers : h.job \in Job
      /\ \A h \in handlers : h.pc = "write" => CallOK(h)
      /\ \A j \in Job : status[j] = "cancelled" => OutOfReach(j)
      /\ \A j \in Job : OutOfReach(j) => OutOfReach(j)'
      /\ locked \subseteq locked'
  BY <1>0, <1>1, ReachGrows, CancelNextGrows DEF CancelIInv, StayInv, Handler, Grows
\* A call that goes on as it was is right, unless its runner has ended the job.
<1>3. ASSUME NEW h \in handlers, h.pc = "write",
             h.status = "running" => exec'[h.job] \in {"running", "extracted"}
      PROVE  CallOK(h)'
  BY <1>2, <1>3 DEF CallOK
<1>4. CASE CallStep
  <2>1. CASE SetPipelineEnd
    BY <1>2, <1>3, <2>1 DEF SetPipelineEnd, CallOK
  <2>2. ASSUME NEW h \in handlers, CallWrites(h)
        PROVE  /\ \A k \in handlers' : k.pc = "write" => CallOK(k)'
               /\ \A j \in Job : status'[j] = "cancelled" => OutOfReach(j)'
    BY <1>2, <1>3, <2>2 DEF CallWrites, CallOK
  <2> QED
    BY <1>4, <2>1, <2>2, CallStepWrites DEF CallStep, CancelIInv
<1>5. CASE CancelStep \/ UserStep
  <2>1. UNCHANGED <<status, exec>>
    BY <1>0, <1>1, <1>5 DEF UserStep, CancelPipeline, CancelStep, PreventJobsFromBeingRun,
       StopRunningJobs, CancelJobsWithoutRunner, MarkPipelineAsCancelled, DelayedCancel,
       SetJobEnd, StopTooLate, CleanJobs
  <2>2. ASSUME NEW h \in handlers', h \notin handlers, h.pc = "write" PROVE CallOK(h)'
    <3>1. Barred /\ \E source \in Sources : h \in CancelNonRunningJobs(source)
      BY <1>0, <1>1, <1>5, <2>2
         DEF UserStep, CancelPipeline, CancelStep, PreventJobsFromBeingRun, StopRunningJobs,
         CancelJobsWithoutRunner, MarkPipelineAsCancelled, DelayedCancel, SetJobEnd,
         StopTooLate, CleanJobs, CancelIInv, BarredInv, Sources
    <3>2. PICK j \in present \ locked, source \in Sources :
            h = SetJobStatus(j, "cancelled", <<source>>)
      BY <3>1 DEF CancelNonRunningJobs
    <3>3. j \in Job /\ OutOfReach(j)
      BY <3>1, <3>2 DEF OutOfReach, CancelIInv, CancelTypeOK, TypeOK
    <3> QED
      BY <1>2, <3>2, <3>3, NewCall DEF CallOK
  <2> QED
    BY <1>2, <1>3, <2>1, <2>2 DEF CallOK
<1>6. ASSUME NEW j \in Job, PullStep(j)
      PROVE  /\ \A h \in handlers' : h.pc = "write" => CallOK(h)'
             /\ \A i \in Job : status'[i] = "cancelled" => OutOfReach(i)'
  BY <1>2, <1>3, <1>6 DEF PullStep, ListAvailableJobs, LockJob, PullNothing, CallOK
<1>7. ASSUME NEW j \in Job, Begin(j)
      PROVE  /\ \A h \in handlers' : h.pc = "write" => CallOK(h)'
             /\ \A i \in Job : status'[i] = "cancelled" => OutOfReach(i)'
  <2>1. /\ status' = status /\ locked' = locked /\ j \in locked /\ exec'[j] = "running"
        /\ \A i \in Job \ {j} : exec'[i] = exec[i]
        /\ handlers' = handlers \cup {SetJobStatus(j, "running", <<"runner">>)}
    BY <1>1, <1>7 DEF Begin, SendRunning
  <2>2. CallOK(SetJobStatus(j, "running", <<"runner">>))'
    BY <2>1, NewCall DEF CallOK
  <2> QED
    BY <1>2, <1>3, <2>1, <2>2 DEF CallOK
<1>8. CASE SendConfigFile \/ DropConfigFile
  <2>1. /\ status' = status /\ exec'[Clone] = "extracted"
        /\ \A i \in Job \ {Clone} : exec'[i] = exec[i]
        /\ \A h \in handlers' : h \in handlers \/ h.pc = "fetch"
    BY <1>1, <1>8, GraphAssumption
       DEF SendConfigFile, DropConfigFile, SendEmptyConfigFile, Call
  <2> QED
    BY <1>2, <1>3, <2>1 DEF CallOK
<1>9. ASSUME NEW j \in Job,
             SendCancelled(j) \/ \E s \in {"success", "failure"} : End(j, s)
      PROVE  /\ \A h \in handlers' : h.pc = "write" => CallOK(h)'
             /\ \A i \in Job : status'[i] = "cancelled" => OutOfReach(i)'
  <2>0. PICK s \in {"success", "failure", "cancelled"} :
          \/ s = "cancelled" /\ SendCancelled(j)
          \/ s # "cancelled" /\ End(j, s)
    BY <1>9
  <2>1. /\ status' = status /\ locked' = locked /\ exec'[j] = "done"
        /\ \A i \in Job \ {j} : exec'[i] = exec[i]
        /\ handlers' = handlers \cup {SetJobStatus(j, s, <<"runner">>)}
        /\ s = "cancelled" => j \in locked
    BY <1>1, <2>0 DEF SendCancelled, End, SendFinalStatus
  <2>2. ~ \E h \in handlers : h.kind = "status" /\ h.job = j /\ h.pc = "write"
    BY <1>0, <2>0 DEF SendCancelled, End, InOrder
  <2>3. CallOK(SetJobStatus(j, s, <<"runner">>))'
    BY <2>1, NewCall DEF CallOK, OutOfReach
  <2> QED
    BY <1>2, <1>3, <2>1, <2>2, <2>3 DEF CallOK
<1>10. ~Restart /\ \A j \in Job : ~LoseReports(j)
  BY <1>0 DEF Restart, LoseReports
<1>11. CASE ReportStep
  BY <1>7, <1>8, <1>9, <1>11 DEF ReportStep
<1> QED
  BY <1>4, <1>5, <1>6, <1>10, <1>11 DEF CancelNext

LEMMA CancelIInvAlways == CancelSpec => []CancelIInv
<1>1. CancelInit => StayInv
  BY DEF CancelInit, Init, StayInv
<1>2. CancelIInv /\ [CancelNext]_allVars => StayInv'
  <2>1. CancelIInv /\ UNCHANGED allVars => StayInv'
    BY DEF CancelIInv, StayInv, CallOK, OutOfReach, Barred, allVars, cancelVars, historyVars,
       vars, jobVars, runVars
  <2> QED
    BY <2>1, StayStep
<1> QED
  BY <1>1, <1>2, BarredAlways, PTL DEF CancelSpec, CancelIInv

\* A job that cancelPipeline or its runner has cancelled keeps a final status,
\* whatever calls are still on their way (setJobStatus).
THEOREM CancelledStaysHolds == CancelSpec => CancelledStays
<1>1. ASSUME CancelIInv, CancelNext, NEW j \in Job, status[j] = "cancelled",
             scenario = "steady"
      PROVE  IsFinalStatus(status'[j])
  <2> USE DEF vars, jobVars, IsFinalStatus, FinalStatuses
  <2>1. status \in [Job -> JobStatuses] /\ ~lost
    BY <1>1 DEF CancelIInv, CancelTypeOK, TypeOK, BarredInv
  <2>2. CASE CallStep
    <3>1. ASSUME NEW h \in handlers, CallWrites(h) PROVE IsFinalStatus(status'[j])
      BY <1>1, <3>1 DEF CallWrites, CallOK, OutOfReach, CancelIInv, StayInv
    <3> QED
      BY <1>1, <2>2, <3>1, CallStepWrites DEF CallStep, SetPipelineEnd, CancelIInv
  <2>3. ~CallStep => UNCHANGED status
    BY <1>1, <2>1 DEF CancelNext, UserStep, CancelPipeline, Restart, CancelStep,
       PreventJobsFromBeingRun, StopRunningJobs, CancelJobsWithoutRunner,
       MarkPipelineAsCancelled, DelayedCancel, SetJobEnd, StopTooLate, CleanJobs, LoseReports, ReportStep,
       DropConfigFile,
       Begin, End, SendCancelled, SendRunning, SendFinalStatus, SendConfigFile,
       DropConfigFile, SendEmptyConfigFile, PullStep,
       ListAvailableJobs, LockJob, PullNothing
  <2> QED
    BY <1>1, <2>2, <2>3
<1>2. CancelIInv /\ [CancelNext]_allVars
        => [\A j \in Job : status[j] = "cancelled" /\ scenario = "steady"
                             => IsFinalStatus(status'[j])]_allVars
  BY <1>1
<1> QED
  BY <1>2, CancelIInvAlways, PTL DEF CancelSpec, CancelledStays

-----------------------------------------------------------------------------
(* What holds of a job until it, or a job upstream, is cancelled.          *)

\* Every config job waits for the clone job, directly or not.
LEMMA CloneFirst ==
  ASSUME NEW j \in ConfigJob
  PROVE  Clone \in UpstreamJobs(j)
<1> DEFINE S == {i \in ConfigJob : Clone \notin UpstreamJobs(i)}
<1>1. SUFFICES ASSUME S # {} PROVE FALSE
  OBVIOUS
<1>2. PICK i \in S : Parents(i) \cap S = {}
  <2>1. S \in SUBSET Job
    BY DEF ConfigJob
  <2> QED
    BY <1>1, <2>1, AcyclicAssumption
<1>3. i \in Job /\ i # Clone /\ Clone \notin UpstreamJobs(i)
  BY <1>2 DEF ConfigJob
<1>4. PICK p \in Parents(i) : p # Clone
  BY <1>3, ParentsUpstream DEF Parents
<1>5. p \in ConfigJob /\ p \in UpstreamJobs(i)
  BY <1>3, <1>4, ParentsType, ParentsUpstream DEF ConfigJob
<1>6. Clone \notin UpstreamJobs(p)
  BY <1>3, <1>5, UpstreamTrans
<1> QED
  BY <1>2, <1>4, <1>5, <1>6

LEMMA CloneDisturbs ==
  ASSUME Clone \in cancelledAt, NEW j \in ConfigJob
  PROVE  Disturbed(j)
BY CloneFirst DEF Disturbed

LEMMA CloneUndisturbed == ~Disturbed(Clone)
BY CloneUpstream DEF Disturbed

\* When the clone job is cancelled no job is spared.
LEMMA CloneSparesNone ==
  ASSUME Clone \in cancelledAt, NEW j \in Job
  PROVE  ~Spared(j)
BY CloneDisturbs DEF Spared, ConfigJob

LEMMA SparedUpstream ==
  ASSUME NEW j \in Job, ~Disturbed(j), NEW a \in UpstreamJobs(j)
  PROVE  Spared(a)
<1>1. UpstreamJobs(a) \subseteq UpstreamJobs(j)
  BY UpstreamTrans
<1> QED
  BY <1>1 DEF Spared, Disturbed

LEMMA AllSpared ==
  ASSUME cancelledAt = {}, NEW j \in Job
  PROVE  Spared(j)
BY DEF Spared, Disturbed

\* A job that is spared after a step was so before it.
LEMMA SparedBefore ==
  ASSUME cancelledAt \subseteq cancelledAt', NEW j \in Job
  PROVE  /\ ~Disturbed(j)' => ~Disturbed(j)
         /\ Spared(j)' => Spared(j)
BY DEF Spared, Disturbed

\* What the parts of the invariant say of a spared job that reads final.
LEMMA FinalHasEnded ==
  ASSUME CancelTypeOK, ExecSpared, CallSpared, NEW j \in Job, Spared(j), Final(j)
  PROVE  HasEnded(j) /\ Done(j)
<1>1. status[j] \in {"success", "failure", "skipped"}
  BY DEF ExecSpared, Final, IsFinalStatus, FinalStatuses, CancelTypeOK, TypeOK, JobStatuses
<1>2. CASE status[j] = "skipped"
  BY <1>2 DEF HasEnded, EndWritten, Done
<1>3. CASE status[j] \in {"success", "failure"}
  <2>1. exec[j] = "done"
    BY <1>3 DEF ExecSpared
  <2>2. \A h \in handlers : ~WritesEnd(h, j)
    BY DEF CallSpared, WritesEnd
  <2> QED
    BY <2>1, <2>2 DEF HasEnded, EndWritten, Done
<1> QED
  BY <1>1, <1>2, <1>3

\* A spared job that was skipped has no runner.
LEMMA SkippedIdle ==
  ASSUME CancelTypeOK, ExecSpared, NEW j \in Job, Spared(j), status[j] = "skipped"
  PROVE  j \notin listed \cup locked /\ exec[j] = "idle"
BY DEF ExecSpared, Spared, CancelTypeOK, TypeOK

\* A step leaves alone how spared jobs have ended; at most a status
\* `running` comes late.
KeepsEnded ==
  \A a \in Job : Spared(a)' /\ HasEnded(a) =>
    HasEnded(a)' /\ status'[a] \in {status[a], "running"}

LEMMA SameStatusKeeps ==
  ASSUME cancelledAt \subseteq cancelledAt', scenario' = scenario,
         \A a \in Job : Spared(a)' => status'[a] = status[a],
         \A a \in Job : exec[a] = "done" => exec'[a] = "done",
         \A a \in Job : \A h \in handlers' :
           WritesEnd(h, a) => h \in handlers \/ exec[a] # "done"
  PROVE  KeepsEnded
<1>1. SUFFICES ASSUME NEW a \in Job, Spared(a)', HasEnded(a)
               PROVE  HasEnded(a)' /\ status'[a] \in {status[a], "running"}
  BY DEF KeepsEnded
<1>2. status'[a] = status[a]
  BY <1>1
<1>3. EndWritten(a)'
  BY <1>1, <1>2 DEF HasEnded, EndWritten, WritesEnd
<1> QED
  BY <1>1, <1>2, <1>3 DEF HasEnded, Ordered, Final

\* What j is given stays right while nothing new is given.
LEMMA GivenKept ==
  ASSUME GivenSpared, KeepsEnded, present \subseteq present',
         cancelledAt \subseteq cancelledAt', scenario' = scenario,
         \A k \in handlers' : \A e \in k.evals : \E l \in handlers : e \in l.evals,
         \A j \in ConfigJob : \A s \in FinalStatuses : Given(j, s)' => Given(j, s),
         \A j \in ConfigJob : ~Disturbed(j)' /\ upstream'[j] \in FinalStatuses =>
           status'[j] = "skipped" \/ ~SkipsOn(j, upstream'[j])
  PROVE  GivenSpared'
<1>1. \A h \in handlers' : \A e \in h.evals : e.child \in present' \ {Clone}
  BY DEF GivenSpared
<1>2. ASSUME NEW j \in ConfigJob, ~Disturbed(j)', NEW s \in FinalStatuses, Given(j, s)'
      PROVE  /\ \A a \in UpstreamJobs(j) : HasEnded(a)'
             /\ UpstreamFinal(j)' => s = UpstreamSum(j)'
             /\ \A t \in FinalStatuses : Given(j, t)' => s = t
  <2>0. j \in Job /\ UpstreamJobs(j) \subseteq Job
    BY UpstreamType DEF ConfigJob
  <2>1. ~Disturbed(j) /\ Given(j, s)
    BY <1>2, <2>0, SparedBefore
  <2>2. \A a \in UpstreamJobs(j) : HasEnded(a) /\ Spared(a)'
    <3>1. \A a \in UpstreamJobs(j) : Spared(a)'
      BY <1>2, <2>0, UpstreamTrans DEF Spared, Disturbed
    <3> QED
      BY <2>1, <3>1 DEF GivenSpared
  <2>3. \A a \in UpstreamJobs(j) : HasEnded(a)' /\ status'[a] \in {status[a], "running"}
    BY <2>0, <2>2 DEF KeepsEnded
  <2>4. ASSUME UpstreamFinal(j)' PROVE s = UpstreamSum(j)'
    <3>1. \A a \in UpstreamJobs(j) : status'[a] = status[a] /\ Final(a)
      BY <2>3, <2>4 DEF UpstreamFinal, Final, IsFinalStatus, FinalStatuses
    <3>2. UpstreamSum(j)' = UpstreamSum(j)
      BY <3>1, ComputeAgrees DEF UpstreamSum
    <3> QED
      BY <2>1, <3>1, <3>2 DEF GivenSpared, UpstreamFinal
  <2> QED
    BY <1>2, <2>1, <2>3, <2>4 DEF GivenSpared
<1> QED
  BY <1>1, <1>2 DEF GivenSpared

-----------------------------------------------------------------------------
(* The inductive invariant.                                                *)

FullInv == CancelTypeOK /\ BarredInv /\ SparedInv

LEMMA InitSpared == CancelInit => SparedInv
<1> SUFFICES ASSUME CancelInit PROVE SparedInv
  OBVIOUS
<1> USE GraphAssumption DEF CancelInit, Init
<1>1. QuietInv /\ PresentInv
  BY DEF QuietInv, PresentInv
<1>2. ConfigSpared
  BY DEF ConfigSpared, ConfigCalls, CloneFails
<1>3. ExecSpared /\ CallSpared
  BY DEF ExecSpared, CallSpared
<1>4. GivenSpared
  BY DEF GivenSpared, Given, FinalStatuses, None, ConfigJob
<1>5. GreenSpared /\ EndSpared /\ SteadyInv
  BY DEF GreenSpared, EndSpared, SteadyInv, None
<1> QED
  BY <1>1, <1>2, <1>3, <1>4, <1>5 DEF SparedInv

\* Cancelled jobs stay so.
LEMMA ScenarioStays ==
  ASSUME CancelNext
  PROVE  scenario' = scenario /\ cancelledAt \subseteq cancelledAt'
BY DEF CancelNext, UserStep, CancelPipeline, Restart, CancelStep, PreventJobsFromBeingRun,
     StopRunningJobs, CancelJobsWithoutRunner, MarkPipelineAsCancelled, DelayedCancel,
     SetJobEnd, StopTooLate, CleanJobs, LoseReports, ReportStep,
       DropConfigFile, Begin, End, SendCancelled, PullStep,
     PullNothing, CallStep, CancelFails, NotifyRunnersUnlessCancelled, cancelVars, historyVars

LEMMA QuietStep ==
  ASSUME CancelTypeOK, QuietInv, CancelNext
  PROVE  QuietInv'
<1> USE DEF QuietInv, historyVars
<1>0. scenario' = scenario /\ cancelledAt \subseteq cancelledAt' /\ Clone \in present
  BY ScenarioStays DEF CancelTypeOK, TypeOK
<1>1. CASE CancelPipeline
  BY <1>0, <1>1 DEF CancelPipeline
<1>2. CASE PreventJobsFromBeingRun
  BY <1>0, <1>2 DEF PreventJobsFromBeingRun
<1>3. CASE StopRunningJobs \/ CancelJobsWithoutRunner \/ MarkPipelineAsCancelled
  BY <1>0, <1>3 DEF StopRunningJobs, CancelJobsWithoutRunner, MarkPipelineAsCancelled
<1>4. CASE DelayedCancel
  BY <1>0, <1>4 DEF DelayedCancel
<1>5. CASE CleanJobs
  BY <1>0, <1>5 DEF CleanJobs
<1>6. CASE Restart
  BY <1>0, <1>6 DEF Restart
<1>7. ASSUME NEW j \in Job, SetJobEnd(j) \/ StopTooLate(j) \/ SendCancelled(j)
             \/ \E s \in {"success", "failure"} : End(j, s)
      PROVE  QuietInv'
  BY <1>0, <1>7 DEF SetJobEnd, StopTooLate, SendCancelled, End
<1>8. ASSUME NEW h \in handlers, CancelFails(h) PROVE QuietInv'
  BY <1>0, <1>8 DEF CancelFails
<1>11. ASSUME NEW h \in handlers, NotifyRunnersUnlessCancelled(h) PROVE QuietInv'
  <2>1. delayed' => delayed \/ marked
    BY <1>11, Zenon DEF NotifyRunnersUnlessCancelled
  <2> QED
    BY <1>0, <1>11, <2>1 DEF NotifyRunnersUnlessCancelled
<1>9. CASE UNCHANGED cancelVars
  BY <1>0, <1>9 DEF cancelVars
<1>10. ASSUME NEW j \in Job, PullStep(j) \/ Begin(j) PROVE UNCHANGED cancelVars
  BY <1>10 DEF PullStep, PullNothing, Begin
<1>12. ASSUME NEW j \in Job, DropConfigFile \/ LoseReports(j) PROVE QuietInv'
  BY <1>0, <1>12 DEF DropConfigFile, LoseReports
<1> QED
  BY <1>1, <1>2, <1>3, <1>4, <1>5, <1>6, <1>7, <1>8, <1>9, <1>10, <1>12, GraphAssumption,
     <1>11
     DEF CancelNext, UserStep, ReportStep, CancelStep, CallStep

\* Cancelling more jobs only lets more of them go.
LEMMA MoreCancelled ==
  ASSUME FullInv, UNCHANGED vars, scenario' = scenario,
         cancelledAt \subseteq cancelledAt', scenario = "steady" => cancelledAt' \in {{}, Job}
  PROVE  /\ PresentInv' /\ ConfigSpared' /\ ExecSpared' /\ CallSpared'
         /\ GivenSpared' /\ GreenSpared' /\ EndSpared' /\ SteadyInv'
<1> USE DEF FullInv, SparedInv, vars, jobVars, runVars, pipelineVars
<1>1. PresentInv'
  BY DEF PresentInv
<1>2. \A j \in Job : (Spared(j)' => Spared(j)) /\ (Disturbed(j) => Disturbed(j)')
  BY SparedBefore
<1>3. KeepsEnded
  BY SameStatusKeeps
<1>4. \A a \in Job : HasEnded(a)' <=> HasEnded(a)
  BY DEF HasEnded, EndWritten, WritesEnd, Ordered, Final
<1>5. ConfigSpared'
  BY <1>4, GraphAssumption DEF ConfigSpared, ConfigCalls, CloneFails
<1>6. ExecSpared'
  BY <1>2 DEF ExecSpared, CancelTypeOK, TypeOK
<1>7. CallSpared'
  <2>1. \A h \in handlers : h.job \in Job
    BY DEF CancelTypeOK, TypeOK, Handler
  <2> QED
    BY <1>2, <2>1 DEF CallSpared, Ordered, Final
<1>8. GivenSpared'
  <2>1. \A j, s : Given(j, s)' <=> Given(j, s)
    BY DEF Given
  <2>2. \A j \in ConfigJob : ~Disturbed(j)' /\ upstream'[j] \in FinalStatuses =>
          status'[j] = "skipped" \/ ~SkipsOn(j, upstream'[j])
    BY <1>2 DEF GivenSpared, ConfigJob
  <2> QED
    BY <1>3, <2>1, <2>2, GivenKept
<1>9. GreenSpared' /\ EndSpared'
  <2>1. cancelledAt' = {} => cancelledAt = {}
    OBVIOUS
  <2>2. (AllDone' <=> AllDone) /\ \A j \in Job : Done(j)' <=> Done(j)
    BY DEF AllDone, Done, Earned, Ordered
  <2>3. GreenSpared'
    BY <2>1, <2>2 DEF GreenSpared
  <2>4. EndSpared'
    BY <2>1, <2>2 DEF EndSpared, ConfigCalls, CancelTypeOK, TypeOK
  <2> QED
    BY <2>3, <2>4
<1>10. SteadyInv'
  BY DEF SteadyInv, Final, Over
<1> QED
  BY <1>1, <1>5, <1>6, <1>7, <1>8, <1>9, <1>10

LEMMA RequestStep ==
  ASSUME FullInv,
         \/ CancelPipeline \/ PreventJobsFromBeingRun \/ StopRunningJobs
         \/ MarkPipelineAsCancelled \/ \E j \in Job : SetJobEnd(j) \/ StopTooLate(j)
  PROVE  SparedInv'
<1>1. CancelNext
  BY DEF CancelNext, UserStep, CancelStep
<1>2. UNCHANGED vars
  BY DEF CancelPipeline, PreventJobsFromBeingRun, StopRunningJobs, MarkPipelineAsCancelled,
     SetJobEnd, StopTooLate
<1>3. scenario = "steady" => cancelledAt' \in {{}, Job}
  <2>1. CASE PreventJobsFromBeingRun
    BY <2>1 DEF FullInv, BarredInv, PreventJobsFromBeingRun, CancelTypeOK, TypeOK
  <2>2. CASE ~PreventJobsFromBeingRun
    BY <2>2 DEF CancelPipeline, StopRunningJobs, MarkPipelineAsCancelled, SetJobEnd,
       StopTooLate, FullInv, SparedInv, SteadyInv
  <2> QED
    BY <2>1, <2>2
<1>4. QuietInv'
  BY <1>1, QuietStep DEF FullInv, SparedInv
<1> QED
  BY <1>1, <1>2, <1>3, <1>4, ScenarioStays, MoreCancelled DEF SparedInv

\* Jobs are set to cancelled, or their runner says so, when all are disturbed.
LEMMA CancelCallsStep ==
  ASSUME FullInv, CancelNext, Clone \in cancelledAt, NEW C, NEW D \in SUBSET locked,
         UNCHANGED <<jobVars, listed, locked, pipelineVars, cancelledAt>>,
         handlers' = handlers \cup C,
         \A c \in C : /\ c.kind = "status" /\ c.job \in present /\ c.status = "cancelled"
                      /\ c.pc = "write" /\ c.evals = {},
         \A j \in Job : exec'[j] = IF j \in D THEN "done" ELSE exec[j],
         \A h \in handlers : h.kind = "status" /\ h.pc = "write" => h.job \notin D
  PROVE  SparedInv'
<1> USE DEF FullInv, SparedInv, jobVars, pipelineVars
<1>0. /\ scenario' = scenario /\ Clone \in Job /\ locked \subseteq Job
      /\ \A h \in handlers : h.job \in Job
      /\ Clone \in cancelledAt'
  BY ScenarioStays, GraphAssumption DEF CancelTypeOK, TypeOK, Handler
<1>1. QuietInv'
  BY QuietStep
<1>2. PresentInv'
  BY DEF PresentInv, ExecSpared
<1>3. \A j \in Job : ~Spared(j)' /\ (j \in ConfigJob => Disturbed(j)')
  BY <1>0, CloneSparesNone, CloneDisturbs DEF Spared, Disturbed
<1>4. ConfigSpared'
  <2>1. ConfigCalls' = ConfigCalls
    BY DEF ConfigCalls
  <2>2. CloneFails' <=> CloneFails
    BY DEF CloneFails
  <2>3. exec'[Clone] \in {"idle", "running"} => exec[Clone] = exec'[Clone]
    BY <1>0
  <2> QED
    BY <1>0, <2>1, <2>2, <2>3 DEF ConfigSpared
<1>5. ExecSpared'
  <2>1. \A j : Disturbed(j)' <=> Disturbed(j)
    BY DEF Disturbed
  <2> QED
    BY <1>0, <1>3, <2>1 DEF ExecSpared
<1>6. CallSpared'
  <2>1. \A h \in handlers' : h.kind = "status" => h \in handlers \/ h.status = "cancelled"
    OBVIOUS
  <2>2. \A h \in handlers : h.kind = "status" /\ h.pc = "write" => exec'[h.job] = exec[h.job]
    BY <1>0
  <2>3. \A h \in handlers : exec[h.job] = "done" => exec'[h.job] = "done"
    BY <1>0
  <2>4. ASSUME NEW h \in handlers, h.kind = "status"
        PROVE  /\ h.job \in present /\ h.status # "created"
               /\ h.pc \notin {"fetch", "insert", "notify", "error"}
               /\ h.status = "running" =>
                    /\ h.pc \notin {"read", "children"}
                    /\ h.pc = "write" =>
                         IF Ordered' THEN exec'[h.job] \in {"running", "extracted"}
                                     ELSE exec'[h.job] # "idle"
               /\ h.status \in {"success", "failure"} =>
                    /\ exec'[h.job] = "done"
                    /\ h.pc = "write" /\ Spared(h.job)' => ~Final(h.job)'
               /\ h.status = "skipped" =>
                    h.job # Clone /\ (status[h.job] = "skipped" \/ Disturbed(h.job)')
    BY <1>0, <1>3, <2>2, <2>3, <2>4 DEF CallSpared, Ordered, Disturbed
  <2>5. \A h, k \in handlers :
          (/\ h.kind = "status" /\ k.kind = "status" /\ h.job = k.job
           /\ h.status \in {"success", "failure"}
           /\ k.status \in {"success", "failure"}) => h = k
    BY DEF CallSpared
  <2> QED
    BY <1>0, <2>1, <2>4, <2>5 DEF CallSpared
<1>7. GivenSpared'
  BY <1>3 DEF GivenSpared, ConfigJob
<1>8. GreenSpared' /\ EndSpared'
  BY <1>0 DEF GreenSpared, EndSpared
<1>9. SteadyInv'
  <2>1. \A a \in Job : Over(a) => Over(a)'
    BY <1>0 DEF Over
  <2>2. \A j \in locked : UpstreamJobs(j) \subseteq Job
    BY <1>0, UpstreamType
  <2> QED
    BY <1>0, <2>1, <2>2 DEF SteadyInv, Final
<1> QED
  BY <1>1, <1>2, <1>4, <1>5, <1>6, <1>7, <1>8, <1>9

LEMMA CancelOthersStep ==
  ASSUME FullInv, CancelJobsWithoutRunner \/ DelayedCancel
  PROVE  SparedInv'
<1>1. PICK source : handlers' = handlers \cup CancelNonRunningJobs(source)
  BY DEF CancelJobsWithoutRunner, DelayedCancel
<1>2. \A c \in CancelNonRunningJobs(source) :
        /\ c.kind = "status" /\ c.job \in present /\ c.status = "cancelled"
        /\ c.pc = "write" /\ c.evals = {}
  BY DEF CancelNonRunningJobs, SetJobStatus, Call
<1>3. Clone \in cancelledAt
  BY DEF CancelJobsWithoutRunner, DelayedCancel, FullInv, SparedInv, QuietInv
<1>4. UNCHANGED <<jobVars, runVars, pipelineVars, cancelledAt>>
  BY DEF CancelJobsWithoutRunner, DelayedCancel
<1>5. CancelNext
  BY DEF CancelNext, CancelStep
<1> DEFINE D == {}
<1>6. /\ D \in SUBSET locked
      /\ \A j \in Job : exec'[j] = IF j \in D THEN "done" ELSE exec[j]
      /\ \A h \in handlers : h.kind = "status" /\ h.pc = "write" => h.job \notin D
      /\ UNCHANGED <<listed, locked>>
  BY <1>4 DEF runVars
<1> HIDE DEF D
<1> QED
  BY <1>1, <1>2, <1>3, <1>4, <1>5, <1>6, CancelCallsStep

LEMMA SendCancelledStep ==
  ASSUME FullInv, CancelNext, NEW j \in Job, SendCancelled(j)
  PROVE  SparedInv'
<1> DEFINE c == SetJobStatus(j, "cancelled", <<"runner">>)
           D == {j}
           C == {c}
<1>1. j \in locked /\ j \in present /\ Clone \in cancelledAt /\ scenario # "disorder"
  BY DEF SendCancelled, FullInv, SparedInv, QuietInv, ExecSpared, CancelTypeOK
<1>2. \A i \in C : /\ i.kind = "status" /\ i.job \in present /\ i.status = "cancelled"
                   /\ i.pc = "write" /\ i.evals = {}
  BY <1>1 DEF SetJobStatus, Call
<1>3. \A i \in Job : exec'[i] = IF i \in D THEN "done" ELSE exec[i]
  BY DEF SendCancelled, FullInv, CancelTypeOK, TypeOK
<1>4. \A h \in handlers : h.kind = "status" /\ h.pc = "write" => h.job \notin D
  BY <1>1 DEF SendCancelled, InOrder
<1>5. D \in SUBSET locked /\ handlers' = handlers \cup C
      /\ UNCHANGED <<jobVars, listed, locked, pipelineVars, cancelledAt>>
  BY <1>1 DEF SendCancelled
<1> HIDE DEF D, C
<1> QED
  BY <1>1, <1>2, <1>3, <1>4, <1>5, CancelCallsStep

\* The upstream jobs of an undisturbed job that a pull may hand out have ended.
LEMMA AvailableAfterUpstream ==
  ASSUME ExecSpared, GivenSpared, NEW j \in listed \cup locked, j \in Job, ~Disturbed(j),
         NEW a \in UpstreamJobs(j)
  PROVE  HasEnded(a)
<1>1. j # Clone
  BY CloneUpstream
<1>2. Parents(j) # {}
  BY <1>1 DEF Parents
<1> QED
  BY <1>1, <1>2 DEF ExecSpared, GivenSpared, Given, ConfigJob

LEMMA PullStepInv ==
  ASSUME FullInv, CancelNext, NEW j \in Job, PullStep(j)
  PROVE  SparedInv'
<1> USE DEF FullInv, SparedInv, jobVars, pipelineVars
<1>0. /\ UNCHANGED <<jobVars, exec, handlers, pipelineVars, cancelledAt, scenario>>
      /\ locked' \subseteq Job /\ listed' \subseteq Job
  BY DEF PullStep, ListAvailableJobs, LockJob, PullNothing, cancelVars, historyVars,
     CancelTypeOK, TypeOK
<1>1. /\ listed' \ {j} \subseteq listed
      /\ j \in listed' => j \in listed \/ Available(j)
      /\ locked \subseteq locked' /\ locked' \ {j} \subseteq locked
      /\ j \in locked' => j \in locked \/ (j \in listed /\ j \notin cancelledAt)
  BY DEF PullStep, ListAvailableJobs, LockJob, PullNothing, Prevented
<1>2. QuietInv'
  BY QuietStep
<1>3. \A a : /\ HasEnded(a)' <=> HasEnded(a)
             /\ Spared(a)' <=> Spared(a)
             /\ Disturbed(a)' <=> Disturbed(a)
             /\ Done(a)' <=> Done(a)
             /\ Final(a)' <=> Final(a)
  BY <1>0 DEF HasEnded, EndWritten, WritesEnd, Ordered, Final, Spared, Disturbed, Done
<1>4. PresentInv'
  BY <1>0, <1>1 DEF PresentInv, ExecSpared, Available
<1>5. ConfigSpared'
  BY <1>0, <1>3 DEF ConfigSpared, ConfigCalls, CloneFails
<1>6. ExecSpared'
  <2>1. \A i \in listed' \cup locked' : i \in listed \cup locked \/ (i = j /\ Available(j))
    BY <1>1
  <2>2. \A i \in listed' \ locked' : i \in listed \ locked \/ (i = j /\ Available(j))
    BY <1>1
  <2>3. \A i \in locked' : i \in locked \/ (i = j /\ j \in listed \ locked)
    BY <1>1
  <2>4. Available(j) => /\ j \in present /\ status[j] = "created"
                        /\ Parents(j) = {} \/ upstream[j] \in FinalStatuses
    BY DEF Available
  <2>5. /\ \A i \in Job : exec[i] # "idle" => i \in locked'
        /\ \A i \in Job : status[i] = "running" => i \in locked'
    BY <1>1 DEF ExecSpared
  <2>6. \A i \in listed' \cup locked' :
          /\ i \in present /\ (Parents(i) = {} \/ upstream[i] \in FinalStatuses)
          /\ status[i] = "skipped" => Disturbed(i)
    BY <2>1, <2>4 DEF ExecSpared
  <2>7. \A i \in Job : Spared(i) =>
          /\ i \in listed' \ locked' => status[i] = "created"
          /\ i \in locked' /\ exec[i] = "idle" => status[i] = "created"
    BY <2>2, <2>3, <2>4 DEF ExecSpared
  <2> QED
    BY <1>0, <1>3, <2>5, <2>6, <2>7 DEF ExecSpared
<1>7. CallSpared'
  BY <1>0, <1>3 DEF CallSpared, Ordered
<1>8. GivenSpared'
  <2>1. \A i, s : Given(i, s)' <=> Given(i, s)
    BY <1>0 DEF Given
  <2>2. KeepsEnded
    BY <1>0, <1>3 DEF KeepsEnded
  <2>3. \A i \in ConfigJob : ~Disturbed(i)' /\ upstream'[i] \in FinalStatuses =>
          status'[i] = "skipped" \/ ~SkipsOn(i, upstream'[i])
    BY <1>0, <1>3 DEF GivenSpared
  <2> QED
    BY <1>0, <2>1, <2>2, <2>3, GivenKept
<1>9. GreenSpared' /\ EndSpared'
  <2>1. AllDone' <=> AllDone
    BY <1>0, <1>3 DEF AllDone, Earned, Ordered
  <2> QED
    BY <1>0, <1>3, <2>1 DEF GreenSpared, EndSpared, ConfigCalls
<1>10. SteadyInv'
  <2>1. SUFFICES ASSUME scenario = "steady"
                 PROVE  \A i \in locked' : \A a \in UpstreamJobs(i) : Final(a) /\ Over(a)'
    BY <1>0, <1>3 DEF SteadyInv
  <2>2. ASSUME NEW i \in locked', NEW a \in UpstreamJobs(i), i \in locked
        PROVE  Final(a) /\ Over(a)
    BY <2>1, <2>2 DEF SteadyInv
  <2>3. ASSUME NEW i \in locked', NEW a \in UpstreamJobs(i), i \notin locked
        PROVE  Final(a) /\ Over(a)
    <3>1. i = j /\ j \in listed /\ cancelledAt = {}
      BY <1>1, <2>1, <2>3 DEF SteadyInv
    <3>2. ~Disturbed(j) /\ Spared(a) /\ a \in Job
      BY <2>3, <3>1, AllSpared, UpstreamType DEF Disturbed
    <3>3. HasEnded(a)
      BY <2>3, <3>1, <3>2, AvailableAfterUpstream
    <3> QED
      BY <2>1, <3>2, <3>3, SkippedIdle DEF HasEnded, EndWritten, Ordered, Over
  <2>4. ASSUME NEW a \in Job, Final(a), Over(a) PROVE Over(a)'
    <3>1. CASE a \in locked
      BY <1>0, <2>4, <3>1 DEF Over
    <3>2. CASE a \notin locked /\ a \in locked'
      <4>1. a = j /\ a \in listed /\ cancelledAt = {}
        BY <1>1, <2>1, <3>2 DEF SteadyInv
      <4>2. status[a] = "created"
        BY <3>2, <4>1, AllSpared DEF ExecSpared
      <4> QED
        BY <2>4, <4>2 DEF Final, IsFinalStatus, FinalStatuses
    <3> QED
      BY <3>1, <3>2 DEF Over
  <2>5. \A i \in locked' : UpstreamJobs(i) \subseteq Job
    BY <1>0, UpstreamType
  <2> QED
    BY <2>2, <2>3, <2>4, <2>5
<1> QED
  BY <1>2, <1>4, <1>5, <1>6, <1>7, <1>8, <1>9, <1>10

\* What a message of a runner leaves as it is.
LEMMA RunnerSends ==
  ASSUME FullInv, CancelNext, NEW j \in Job, NEW n, NEW x,
         UNCHANGED <<jobVars, listed, locked, pipelineVars, cancelledAt>>,
         handlers' = handlers \cup {n}, n.pc \in {"write", "fetch"}, n.evals = {},
         n.kind = "config" => j = Clone,
         n.kind = "status" /\ n.pc = "write" => n.job = j,
         exec' = [exec EXCEPT ![j] = x], j \in locked, exec[j] # "done"
  PROVE  /\ QuietInv' /\ PresentInv' /\ GivenSpared' /\ GreenSpared' /\ EndSpared' /\ SteadyInv'
         /\ \A a \in Job : Spared(a)' /\ HasEnded(a) => HasEnded(a)'
<1> USE DEF FullInv, SparedInv, jobVars, pipelineVars
<1>0. /\ scenario' = scenario /\ locked \subseteq Job
      /\ exec \in [Job -> {"idle", "running", "extracted", "done"}]
      /\ exec'[j] = x /\ \A i \in Job : i # j => exec'[i] = exec[i]
  BY ScenarioStays DEF CancelTypeOK, TypeOK
<1>1. QuietInv'
  BY QuietStep
<1>2. PresentInv'
  <2>1. j \in present
    BY DEF ExecSpared
  <2> QED
    BY <1>0, <2>1 DEF PresentInv
<1>3. KeepsEnded
  <2>1. \A a \in Job : exec[a] = "done" => exec'[a] = "done"
    BY <1>0
  <2>2. \A a \in Job : \A h \in handlers' :
          WritesEnd(h, a) => h \in handlers \/ exec[a] # "done"
    BY DEF WritesEnd
  <2> QED
    BY <1>0, <2>1, <2>2, SameStatusKeeps
<1>4. GivenSpared'
  <2>1. \A i, s : Given(i, s)' => Given(i, s)
    BY DEF Given
  <2>2. \A k \in handlers' : \A e \in k.evals : \E l \in handlers : e \in l.evals
    OBVIOUS
  <2>3. \A i \in ConfigJob : ~Disturbed(i)' /\ upstream'[i] \in FinalStatuses =>
          status'[i] = "skipped" \/ ~SkipsOn(i, upstream'[i])
    BY DEF GivenSpared, Disturbed
  <2> QED
    BY <1>0, <1>3, <2>1, <2>2, <2>3, GivenKept
<1>5. \A a \in Job : Done(a) => Done(a)'
  BY <1>0 DEF Done
<1>6. GreenSpared' /\ EndSpared'
  <2>1. AllDone => AllDone'
    BY <1>0, <1>5 DEF AllDone, Earned, Ordered
  <2>2. GreenSpared'
    BY <2>1 DEF GreenSpared
  <2>3. exec[Clone] = "done" => exec'[Clone] = "done" /\ ConfigCalls' = ConfigCalls
    BY <1>0, GraphAssumption DEF ConfigCalls
  <2>4. EndSpared'
    BY <1>5, <2>3 DEF EndSpared, CancelTypeOK, TypeOK
  <2> QED
    BY <2>2, <2>4
<1>7. SteadyInv'
  <2>1. \A i \in locked : UpstreamJobs(i) \subseteq Job
    BY <1>0, UpstreamType
  <2>2. \A a \in Job : Over(a) => Over(a)'
    BY <1>0 DEF Over
  <2> QED
    BY <1>0, <2>1, <2>2 DEF SteadyInv, Final
<1> QED
  BY <1>1, <1>2, <1>3, <1>4, <1>6, <1>7 DEF KeepsEnded

LEMMA BeginStep ==
  ASSUME FullInv, CancelNext, NEW j \in Job, Begin(j)
  PROVE  SparedInv'
<1> USE DEF FullInv, SparedInv, jobVars, pipelineVars
<1> DEFINE n == SetJobStatus(j, "running", <<"runner">>)
<1>0. /\ handlers' = handlers \cup {n}
      /\ n.kind = "status" /\ n.job = j /\ n.status = "running"
      /\ n.pc = "write" /\ n.evals = {}
  BY DEF Begin, SendRunning, SetJobStatus, Call
<1> HIDE DEF n
<1>1. /\ UNCHANGED <<jobVars, listed, locked, pipelineVars, cancelledAt, scenario>>
      /\ j \in locked /\ exec[j] = "idle" /\ exec' = [exec EXCEPT ![j] = "running"]
  BY DEF Begin, SendRunning, cancelVars, historyVars
<1>2. exec'[j] = "running" /\ \A i \in Job : i # j => exec'[i] = exec[i]
  BY <1>1 DEF CancelTypeOK, TypeOK
<1>3. \A a : (Spared(a)' <=> Spared(a)) /\ (Disturbed(a)' <=> Disturbed(a))
  BY <1>1 DEF Spared, Disturbed
<1>4. /\ QuietInv' /\ PresentInv' /\ GivenSpared' /\ GreenSpared' /\ EndSpared' /\ SteadyInv'
      /\ \A a \in Job : Spared(a)' /\ HasEnded(a) => HasEnded(a)'
  BY <1>0, <1>1, RunnerSends
<1>5. ConfigSpared'
  <2>1. ConfigCalls' = ConfigCalls /\ (CloneFails' <=> CloneFails)
    BY <1>0, <1>1 DEF ConfigCalls, CloneFails
  <2>2. exec'[Clone] \in {"idle", "running"} => exec[Clone] \in {"idle", "running"}
    BY <1>1, <1>2, GraphAssumption
  <2>3. Clone \notin cancelledAt => Spared(Clone)'
    BY <1>3, CloneUndisturbed DEF Spared
  <2> QED
    BY <1>1, <1>4, <2>1, <2>2, <2>3, GraphAssumption DEF ConfigSpared
<1>6. ExecSpared'
  <2>1. Spared(j) => status[j] = "created"
    BY <1>1 DEF ExecSpared
  <2> QED
    BY <1>1, <1>2, <1>3, <2>1 DEF ExecSpared
<1>7. CallSpared'
  <2>1. j \in present
    BY <1>1 DEF ExecSpared
  <2>2. \A h \in handlers : h.job \in Job
    BY DEF CancelTypeOK, TypeOK, Handler
  <2> QED
    BY <1>0, <1>1, <1>2, <1>3, <2>1, <2>2 DEF CallSpared, Ordered, Final
<1> QED
  BY <1>4, <1>5, <1>6, <1>7

LEMMA ConfigFileStep ==
  ASSUME FullInv, CancelNext, SendConfigFile, UNCHANGED cancelVars
  PROVE  SparedInv'
<1> USE DEF FullInv, SparedInv, jobVars, pipelineVars
<1> DEFINE n == Call("config", Clone, "created", <<"runner">>, "fetch")
<1>0. /\ handlers' = handlers \cup {n}
      /\ n.kind = "config" /\ n.job = Clone /\ n.pc = "fetch" /\ n.evals = {}
  BY DEF SendConfigFile, Call
<1> HIDE DEF n
<1>1. /\ UNCHANGED <<jobVars, listed, locked, pipelineVars, cancelledAt, scenario>>
      /\ Clone \in locked /\ exec[Clone] = "running"
      /\ exec' = [exec EXCEPT ![Clone] = "extracted"]
  BY GraphAssumption DEF SendConfigFile, cancelVars, historyVars, ExecSpared
<1>2. exec'[Clone] = "extracted" /\ \A i \in Job : i # Clone => exec'[i] = exec[i]
  BY <1>1, GraphAssumption DEF CancelTypeOK, TypeOK
<1>3. \A a : (Spared(a)' <=> Spared(a)) /\ (Disturbed(a)' <=> Disturbed(a))
  BY <1>1 DEF Spared, Disturbed
<1>4. QuietInv' /\ PresentInv' /\ GivenSpared' /\ GreenSpared' /\ EndSpared' /\ SteadyInv'
  BY <1>0, <1>1, GraphAssumption, RunnerSends
<1>5. ConfigSpared'
  <2>1. ConfigCalls = {} /\ present = {Clone}
    BY <1>1 DEF ConfigSpared
  <2>2. ~CloneFails
    <3>1. status[Clone] # "failure"
      BY <1>1, GraphAssumption DEF ExecSpared
    <3> QED
      BY <1>1, <3>1 DEF CloneFails, CallSpared
  <2>3. ConfigCalls' = {n} /\ ~CloneFails'
    BY <1>0, <1>1, <2>1, <2>2 DEF ConfigCalls, CloneFails
  <2> QED
    BY <1>0, <1>1, <1>2, <2>1, <2>3 DEF ConfigSpared
<1>6. ExecSpared'
  BY <1>1, <1>2, <1>3, GraphAssumption DEF ExecSpared
<1>7. CallSpared'
  <2>1. \A h \in handlers : h.job \in Job
    BY DEF CancelTypeOK, TypeOK, Handler
  <2> QED
    BY <1>0, <1>1, <1>2, <1>3, <2>1 DEF CallSpared, Ordered, Final
<1> QED
  BY <1>4, <1>5, <1>6, <1>7

\* The runner goes on, or stops, without a message.
LEMMA SilentStep ==
  ASSUME FullInv, CancelNext, NEW j \in Job, LoseReports(j) \/ (j = Clone /\ DropConfigFile)
  PROVE  SparedInv'
<1> USE DEF FullInv, SparedInv, jobVars, pipelineVars
<1>0. UNCHANGED <<jobVars, listed, locked, handlers, pipelineVars, cancelledAt, scenario>>
  BY DEF LoseReports, DropConfigFile, SendEmptyConfigFile
<1>1. /\ \A i \in Job : i # j => exec'[i] = exec[i]
      /\ \/ j = Clone /\ exec[j] = "running" /\ exec'[j] = "extracted"
         \/ exec'[j] = "done" /\ j \in locked /\ InOrder(j) /\ Ordered
  BY DEF LoseReports, DropConfigFile, SendEmptyConfigFile, CancelTypeOK, TypeOK, Ordered
<1>2. /\ \A i \in Job : exec'[i] = exec[i] \/ exec'[i] \in {"done", "extracted"}
      /\ \A i \in Job : exec[i] = "done" => exec'[i] = "done"
      /\ locked \subseteq Job /\ present \subseteq Job
  BY <1>1 DEF CancelTypeOK, TypeOK
<1>3. \A a : (Spared(a)' <=> Spared(a)) /\ (Disturbed(a)' <=> Disturbed(a))
  BY <1>0 DEF Spared, Disturbed
<1>4. QuietInv'
  BY QuietStep
<1>5. PresentInv'
  BY <1>0, <1>1 DEF PresentInv, ExecSpared
<1>6. KeepsEnded
  BY <1>0, <1>2, SameStatusKeeps
<1>7. ConfigSpared'
  <2>1. ConfigCalls' = ConfigCalls /\ (CloneFails' <=> CloneFails)
    BY <1>0 DEF ConfigCalls, CloneFails
  <2>2. exec'[Clone] \in {"idle", "running"} => exec[Clone] \in {"idle", "running"}
    BY <1>2, GraphAssumption
  <2>3. Clone \notin cancelledAt => Spared(Clone)'
    BY <1>3, CloneUndisturbed DEF Spared
  <2>4. Clone \notin cancelledAt /\ HasEnded(Clone) => HasEnded(Clone)'
    BY <1>6, <2>3, GraphAssumption DEF KeepsEnded
  <2> QED
    BY <1>0, <2>1, <2>2, <2>4 DEF ConfigSpared
<1>8. ExecSpared'
  BY <1>0, <1>1, <1>3 DEF ExecSpared
<1>9. CallSpared'
  <2>1. \A h \in handlers : h.job \in Job
    BY DEF CancelTypeOK, TypeOK, Handler
  <2> QED
    BY <1>0, <1>1, <1>2, <1>3, <2>1 DEF CallSpared, InOrder, Ordered, Final
<1>10. GivenSpared'
  <2>1. \A i, s : Given(i, s)' => Given(i, s)
    BY <1>0 DEF Given
  <2>2. \A i \in ConfigJob : ~Disturbed(i)' /\ upstream'[i] \in FinalStatuses =>
          status'[i] = "skipped" \/ ~SkipsOn(i, upstream'[i])
    BY <1>0, <1>3 DEF GivenSpared
  <2> QED
    BY <1>0, <1>6, <2>1, <2>2, GivenKept
<1>11. \A a \in Job : Done(a) => Done(a)'
  BY <1>0, <1>2 DEF Done
<1>12. GreenSpared' /\ EndSpared'
  <2>1. AllDone => AllDone'
    BY <1>0, <1>11 DEF AllDone, Earned, Ordered
  <2>2. GreenSpared'
    BY <1>0, <2>1 DEF GreenSpared
  <2>3. EndSpared'
    BY <1>0, <1>2, <1>11, GraphAssumption DEF EndSpared, ConfigCalls
  <2> QED
    BY <2>2, <2>3
<1>13. SteadyInv'
  BY <1>0, <1>2, UpstreamType DEF SteadyInv, Over, Final
<1> QED
  BY <1>4, <1>5, <1>7, <1>8, <1>9, <1>10, <1>12, <1>13

LEMMA EndStep ==
  ASSUME FullInv, CancelNext, NEW j \in Job, NEW s \in {"success", "failure"}, End(j, s)
  PROVE  SparedInv'
<1> USE DEF FullInv, SparedInv, jobVars, pipelineVars
<1> DEFINE n == SetJobStatus(j, s, <<"runner">>)
<1>0. /\ handlers' = handlers \cup {n}
      /\ n.kind = "status" /\ n.job = j /\ n.status = s /\ n.pc = "write" /\ n.evals = {}
  BY DEF End, SendFinalStatus, SetJobStatus, Call
<1> HIDE DEF n
<1>1. /\ UNCHANGED <<jobVars, listed, locked, pipelineVars, cancelledAt, scenario>>
      /\ exec[j] \in {"running", "extracted"} /\ exec' = [exec EXCEPT ![j] = "done"]
      /\ j = Clone /\ s = "failure" => exec[j] = "running"
      /\ InOrder(j)
  BY DEF End, SendFinalStatus, historyVars
<1>2. exec'[j] = "done" /\ \A i \in Job : i # j => exec'[i] = exec[i]
  BY <1>1 DEF CancelTypeOK, TypeOK
<1>3. \A a : (Spared(a)' <=> Spared(a)) /\ (Disturbed(a)' <=> Disturbed(a))
  BY <1>1 DEF Spared, Disturbed
<1>j. /\ j \in locked /\ j \in present
      /\ Spared(j) => ~Final(j)
  BY <1>1 DEF ExecSpared, Final, IsFinalStatus, FinalStatuses
<1>4. /\ QuietInv' /\ PresentInv' /\ GivenSpared' /\ GreenSpared' /\ EndSpared' /\ SteadyInv'
      /\ \A a \in Job : Spared(a)' /\ HasEnded(a) => HasEnded(a)'
  BY <1>0, <1>1, <1>j, RunnerSends
<1>5. ConfigSpared'
  <2>1. CASE j # Clone \/ s = "success"
    <3>1. ConfigCalls' = ConfigCalls /\ (CloneFails' <=> CloneFails)
      BY <1>0, <1>1, <2>1 DEF ConfigCalls, CloneFails
    <3>2. exec'[Clone] \in {"idle", "running"} => exec[Clone] \in {"idle", "running"}
      BY <1>1, <1>2, GraphAssumption
    <3>3. Clone \notin cancelledAt => Spared(Clone)'
      BY <1>3, CloneUndisturbed DEF Spared
    <3> QED
      BY <1>1, <1>4, <3>1, <3>2, <3>3, GraphAssumption DEF ConfigSpared
  <2>2. CASE j = Clone /\ s = "failure"
    <3>1. ConfigCalls = {} /\ present = {Clone}
      BY <1>1, <2>2 DEF ConfigSpared
    <3>2. ConfigCalls' = {}
      BY <1>0, <3>1 DEF ConfigCalls
    <3> QED
      BY <1>1, <3>1, <3>2 DEF ConfigSpared, ConfigCalls
  <2> QED
    BY <2>1, <2>2
<1>6. ExecSpared'
  BY <1>1, <1>2, <1>3, <1>j DEF ExecSpared
<1>7. CallSpared'
  <2>1. \A h \in handlers : h.job \in Job
    BY DEF CancelTypeOK, TypeOK, Handler
  <2>2. \A h \in handlers : h.kind = "status" /\ h.job = j =>
          /\ h.status \notin {"success", "failure"}
          /\ Ordered => h.pc # "write"
    BY <1>1 DEF CallSpared, InOrder, Ordered
  <2> QED
    BY <1>0, <1>1, <1>2, <1>3, <1>j, <2>1, <2>2 DEF CallSpared, Ordered, Final
<1> QED
  BY <1>4, <1>5, <1>6, <1>7

LEMMA RestartStep ==
  ASSUME FullInv, Restart
  PROVE  SparedInv'
<1> USE DEF FullInv, SparedInv, jobVars
<1>n. CancelNext
  BY DEF CancelNext
<1>0. /\ UNCHANGED <<jobVars, locked, pipeline, commit, cancelledAt, scenario>>
      /\ handlers' = {} /\ ending' = FALSE /\ listed' = {} /\ scenario = "restart"
  BY DEF Restart
<1>1. PICK orphans \in SUBSET {j \in locked : exec[j] = "idle"} :
        exec' = [j \in Job |-> IF j \in orphans THEN "done" ELSE exec[j]]
  BY DEF Restart
<1>2. /\ \A j \in Job : \/ exec'[j] = exec[j]
                        \/ j \in locked /\ exec[j] = "idle" /\ exec'[j] = "done"
      /\ \A j \in Job : exec[j] = "done" => exec'[j] = "done"
      /\ locked \subseteq Job
  BY <1>1 DEF CancelTypeOK, TypeOK
<1>3. \A a : (Spared(a)' <=> Spared(a)) /\ (Disturbed(a)' <=> Disturbed(a))
  BY <1>0 DEF Spared, Disturbed
<1>4. QuietInv'
  BY <1>n, QuietStep
<1>5. PresentInv'
  BY <1>0, <1>2 DEF PresentInv
<1>6. ConfigSpared'
  <2>1. ConfigCalls' = {}
    BY <1>0 DEF ConfigCalls
  <2>2. CloneFails' => CloneFails
    BY <1>0 DEF CloneFails
  <2>3. exec'[Clone] \in {"idle", "running"} => exec[Clone] \in {"idle", "running"}
    BY <1>2, GraphAssumption
  <2> QED
    BY <1>0, <2>1, <2>2, <2>3 DEF ConfigSpared
<1>7. ExecSpared'
  BY <1>0, <1>2, <1>3 DEF ExecSpared
<1>8. CallSpared'
  BY <1>0 DEF CallSpared
<1>9. GivenSpared'
  <2>1. KeepsEnded
    BY <1>0, <1>2, SameStatusKeeps
  <2>2. \A i, s : Given(i, s)' => Given(i, s)
    BY <1>0 DEF Given
  <2>3. \A i \in ConfigJob : ~Disturbed(i)' /\ upstream'[i] \in FinalStatuses =>
          status'[i] = "skipped" \/ ~SkipsOn(i, upstream'[i])
    BY <1>0, <1>3 DEF GivenSpared
  <2> QED
    BY <1>0, <2>1, <2>2, <2>3, GivenKept
<1>10. \A a \in Job : Done(a) => Done(a)'
  BY <1>0, <1>2 DEF Done
<1>11. GreenSpared' /\ EndSpared'
  <2>1. AllDone => AllDone'
    BY <1>0, <1>10 DEF AllDone, Earned, Ordered
  <2>2. GreenSpared'
    BY <1>0, <2>1 DEF GreenSpared
  <2>3. EndSpared'
    BY <1>0, <1>2, <1>10, GraphAssumption DEF EndSpared, ConfigCalls, CancelTypeOK, TypeOK
  <2> QED
    BY <2>2, <2>3
<1>12. SteadyInv'
  BY <1>0 DEF SteadyInv
<1> QED
  BY <1>4, <1>5, <1>6, <1>7, <1>8, <1>9, <1>11, <1>12

LEMMA CleanJobsStep ==
  ASSUME FullInv, CleanJobs
  PROVE  SparedInv'
<1> USE DEF FullInv, SparedInv, runVars, pipelineVars
<1>n. CancelNext
  BY DEF CancelNext, CancelStep
<1>0. /\ UNCHANGED <<present, upstream, runVars, handlers, pipelineVars, scenario>>
      /\ scenario # "steady"
  BY DEF CleanJobs, historyVars, BarredInv
<1>1. PICK old \in SUBSET Unended :
        /\ old # {}
        /\ status' = [j \in Job |-> IF j \in old THEN "cancelled" ELSE status[j]]
        /\ cancelledAt' = cancelledAt \cup old
  BY DEF CleanJobs
<1>2. /\ old \subseteq present /\ old \subseteq cancelledAt' /\ present \subseteq Job
      /\ \A j \in Job : j \in old => status[j] # "skipped" /\ status'[j] = "cancelled"
      /\ \A j \in Job : j \notin old => status'[j] = status[j]
  BY <1>1 DEF Unended, CancelTypeOK, TypeOK
<1>3. \A a \in Job : (Spared(a)' => Spared(a)) /\ (Disturbed(a) => Disturbed(a)')
  BY <1>1, SparedBefore
<1>s. \A a \in Job : Spared(a)' => status'[a] = status[a]
  BY <1>2 DEF Spared
<1>k. KeepsEnded
  BY <1>0, <1>1, <1>s, SameStatusKeeps
<1>4. QuietInv'
  BY <1>n, QuietStep
<1>5. PresentInv'
  BY <1>0, <1>2 DEF PresentInv
<1>6. ConfigSpared'
  <2>1. ConfigCalls' = ConfigCalls
    BY <1>0 DEF ConfigCalls
  <2>2. CloneFails' => CloneFails
    BY <1>0, <1>2, GraphAssumption DEF CloneFails
  <2>3. Clone \notin cancelledAt' =>
          Clone \notin cancelledAt /\ Spared(Clone)' /\ status'[Clone] = status[Clone]
    BY <1>1, <1>2, CloneUpstream, GraphAssumption DEF Spared, Disturbed
  <2>4. Clone \notin cancelledAt' /\ HasEnded(Clone) => HasEnded(Clone)'
    BY <2>3, <1>k, GraphAssumption DEF KeepsEnded
  <2> QED
    BY <1>0, <2>1, <2>2, <2>3, <2>4 DEF ConfigSpared
<1>7. ExecSpared'
  <2>1. \A j \in listed \cup locked : j \in Job
    BY DEF CancelTypeOK, TypeOK
  <2>2. \A j \in Job : status'[j] \in {status[j], "cancelled"}
    BY <1>2
  <2>3. \A j \in listed \cup locked :
       /\ j \in present /\ (Parents(j) = {} \/ upstream[j] \in FinalStatuses)
       /\ status'[j] = "skipped" => Disturbed(j)'
    BY <2>1, <2>2, <1>3 DEF ExecSpared
  <2>4. \A j \in Job : Spared(j)' =>
       /\ status'[j] # "cancelled"
       /\ j \in listed \ locked => status'[j] = "created"
       /\ j \in locked /\ exec[j] = "idle" => status'[j] = "created"
       /\ exec[j] \in {"running", "extracted"} => status'[j] \in {"created", "running"}
    BY <1>3, <1>s DEF ExecSpared
  <2> QED
    BY <1>0, <2>2, <2>3, <2>4, GraphAssumption DEF ExecSpared
<1>8. CallSpared'
  <2>1. \A h \in handlers : h.job \in Job
    BY DEF CancelTypeOK, TypeOK, Handler
  <2>2. \A j \in Job : Spared(j)' => (Final(j)' <=> Final(j))
    BY <1>s DEF Final
  <2>3. \A j \in Job : status[j] = "skipped" => status'[j] = "skipped"
    BY <1>2
  <2> QED
    BY <1>0, <1>1, <1>3, <2>1, <2>2, <2>3 DEF CallSpared, Ordered
<1>9. GivenSpared'
  <2>1. \A i, s : Given(i, s)' => Given(i, s)
    BY <1>0 DEF Given
  <2>2. \A i \in ConfigJob : ~Disturbed(i)' /\ upstream'[i] \in FinalStatuses =>
          status'[i] = "skipped" \/ ~SkipsOn(i, upstream'[i])
    BY <1>0, <1>2, <1>3 DEF GivenSpared, ConfigJob
  <2> QED
    BY <1>0, <1>1, <1>k, <2>1, <2>2, GivenKept
<1>10. GreenSpared' /\ EndSpared' /\ SteadyInv'
  BY <1>0, <1>1 DEF GreenSpared, EndSpared, SteadyInv
<1> QED
  BY <1>4, <1>5, <1>6, <1>7, <1>8, <1>9, <1>10

\* A call h goes on to n, or returns, and leaves the jobs alone.
GoesOnTo(h, n) ==
  /\ handlers' = handlers \ {h} \/ handlers' = (handlers \ {h}) \cup {n}
  /\ n.kind = h.kind /\ n.job = h.job
  /\ n.kind = "status" =>
       /\ n.status = h.status /\ n.pc \in {"children", "compute", "current", "set", "post"}
       /\ n.pc = "children" => n.status # "running"
  /\ n.pc # "write"
  /\ UNCHANGED <<jobVars, runVars, cancelledAt, scenario>>

LEMMA GoesOnJobs ==
  ASSUME FullInv, NEW h \in handlers, NEW n, GoesOnTo(h, n)
  PROVE  /\ PresentInv' /\ ExecSpared' /\ CallSpared' /\ SteadyInv' /\ KeepsEnded
         /\ n.evals \subseteq h.evals => GivenSpared'
<1> USE DEF FullInv, SparedInv, GoesOnTo, jobVars, runVars
<1>1. PresentInv'
  BY DEF PresentInv
<1>2. \A a : (Spared(a)' <=> Spared(a)) /\ (Disturbed(a)' <=> Disturbed(a))
  BY DEF Spared, Disturbed
<1>3. ExecSpared'
  BY <1>2 DEF ExecSpared
<1>4. CallSpared'
  BY <1>2 DEF CallSpared, Ordered, Final
<1>5. SteadyInv'
  BY DEF SteadyInv, Final, Over
<1>6. KeepsEnded
  <2>1. \A a \in Job : \A k \in handlers' : WritesEnd(k, a) => k \in handlers
    BY DEF WritesEnd
  <2> QED
    BY <2>1, SameStatusKeeps
<1>7. ASSUME n.evals \subseteq h.evals PROVE GivenSpared'
  <2>1. \A k \in handlers' : \A e \in k.evals : \E l \in handlers : e \in l.evals
    BY <1>7
  <2>2. \A i, s : Given(i, s)' => Given(i, s)
    BY <2>1 DEF Given
  <2>3. \A i \in ConfigJob : ~Disturbed(i)' /\ upstream'[i] \in FinalStatuses =>
          status'[i] = "skipped" \/ ~SkipsOn(i, upstream'[i])
    BY <1>2 DEF GivenSpared
  <2> QED
    BY <1>6, <2>1, <2>2, <2>3, GivenKept
<1> QED
  BY <1>1, <1>3, <1>4, <1>5, <1>6, <1>7

\* ConfigSpared when a call h goes on to n, both before or both after the
\* insertion of the config jobs.
LEMMA ConfigMoves ==
  ASSUME ConfigSpared, KeepsEnded, NEW h \in handlers, NEW n,
         \A k \in handlers' : (k \in handlers /\ k # h) \/ k = n \/ k.kind = "status",
         n.kind = h.kind, n.job = h.job,
         h.kind = "config" => \/ n.pc \in {"read", "children"}
                              \/ /\ n.pc \in {"current", "set", "post"}
                                 /\ pipeline'.error /\ n.result = "failure",
         present' = present, exec' = exec, cancelledAt' = cancelledAt,
         pipeline.error => pipeline'.error, CloneFails' => CloneFails
  PROVE  ConfigSpared'
<1>1. \A k \in ConfigCalls' : (k \in ConfigCalls /\ k # h) \/ (k = n /\ h \in ConfigCalls)
  BY DEF ConfigCalls
<1>2. \A k, l \in ConfigCalls' : k = l
  BY <1>1 DEF ConfigSpared
<1>3. ConfigCalls = {} => ConfigCalls' = {}
  BY <1>1
<1>4. Clone \notin cancelledAt /\ HasEnded(Clone) =>
        HasEnded(Clone)' /\ status'[Clone] \in {status[Clone], "running"}
  <2>1. Clone \notin cancelledAt => Spared(Clone)'
    BY CloneUpstream DEF Spared, Disturbed
  <2> QED
    BY <2>1, GraphAssumption DEF KeepsEnded
<1>5. \A k \in ConfigCalls' :
        /\ k.job = Clone /\ k.pc \notin {"write", "compute"}
        /\ k.pc \in {"fetch", "insert", "error"} => present = {Clone}
        /\ k.pc = "notify" => present = Job
        /\ k.pc = "insert" /\ Clone \notin cancelledAt =>
             \/ k.status \in {"created", "running"}
             \/ /\ k.status = "success" /\ HasEnded(Clone)'
                /\ status'[Clone] \in {"success", "running"}
        /\ k.pc \in {"current", "set", "post"} =>
             pipeline'.error /\ k.result = "failure"
  <2>1. ASSUME NEW k \in ConfigCalls', k \in ConfigCalls
        PROVE  /\ k.job = Clone /\ k.pc \notin {"write", "compute"}
               /\ k.pc \in {"fetch", "insert", "error"} => present = {Clone}
               /\ k.pc = "notify" => present = Job
               /\ k.pc = "insert" /\ Clone \notin cancelledAt =>
                    \/ k.status \in {"created", "running"}
                    \/ /\ k.status = "success" /\ HasEnded(Clone)'
                       /\ status'[Clone] \in {"success", "running"}
               /\ k.pc \in {"current", "set", "post"} =>
                    pipeline'.error /\ k.result = "failure"
    BY <2>1, <1>4 DEF ConfigSpared
  <2>2. h \in ConfigCalls => h.job = Clone /\ h.kind = "config"
    BY DEF ConfigSpared, ConfigCalls
  <2> QED
    BY <1>1, <2>1, <2>2
<1> QED
  BY <1>2, <1>3, <1>5 DEF ConfigSpared

\* A call with no status to report changes nothing of the pipeline.
LEMMA GoesOnPipeline ==
  ASSUME FullInv, NEW h \in handlers, NEW n, GoesOnTo(h, n), UNCHANGED pipelineVars,
         n.pc \notin {"current", "set", "post"}
  PROVE  GreenSpared' /\ EndSpared'
<1> USE DEF FullInv, SparedInv, GoesOnTo, jobVars, runVars, pipelineVars
<1>1. AllDone' <=> AllDone
  BY DEF AllDone, Done, Earned, Ordered
<1>2. GreenSpared'
  BY <1>1 DEF GreenSpared
<1>3. ConfigCalls = {} => ConfigCalls' = {}
  BY DEF ConfigCalls
<1> QED
  BY <1>2, <1>3 DEF EndSpared, Done

LEMMA CloneFailsKept ==
  ASSUME NEW h \in handlers, NEW n, GoesOnTo(h, n), CloneFails'
  PROVE  CloneFails
BY DEF CloneFails, GoesOnTo, jobVars

LEMMA SparedNotify ==
  ASSUME FullInv, CancelNext, NEW h \in handlers,
         NotifyRunnersUnlessCancelled(h) \/ (ChildrenUpdated(h) /\ UNCHANGED cancelVars)
  PROVE  SparedInv'
<1> USE DEF FullInv, SparedInv
<1> DEFINE n == [h EXCEPT !.pc = IF h.pc = "notify" THEN "read" ELSE "compute"]
<1>n. /\ n.kind = h.kind /\ n.job = h.job /\ n.status = h.status /\ n.evals = h.evals
      /\ n.pc = (IF h.pc = "notify" THEN "read" ELSE "compute")
      /\ h.kind \in {"status", "config"}
  BY DEF CancelTypeOK, TypeOK, Handler
<1>h. \/ h.pc = "notify" /\ handlers' = (handlers \ {h}) \cup {n}
      \/ h.pc = "children" /\ h.kind = "config" /\ handlers' = handlers \ {h}
      \/ h.pc = "children" /\ h.kind = "status" /\ handlers' = (handlers \ {h}) \cup {n}
  BY <1>n DEF NotifyRunnersUnlessCancelled, NotifyRunners, ChildrenUpdated, Return, Goto
<1>u. UNCHANGED <<jobVars, runVars, pipelineVars, cancelledAt, scenario>>
  BY DEF NotifyRunnersUnlessCancelled, NotifyRunners, ChildrenUpdated, cancelVars, historyVars
<1> HIDE DEF n
<1>k. h.pc = "notify" => h.kind = "config"
  BY <1>n DEF CallSpared
<1>1. GoesOnTo(h, n)
  BY <1>n, <1>h, <1>u, <1>k DEF GoesOnTo
<1>2. /\ PresentInv' /\ ExecSpared' /\ CallSpared' /\ SteadyInv' /\ KeepsEnded
      /\ GivenSpared'
  BY <1>1, <1>n, GoesOnJobs
<1>3. GreenSpared' /\ EndSpared'
  BY <1>1, <1>n, <1>u, GoesOnPipeline
<1>4. ConfigSpared'
  <2>1. CloneFails' => CloneFails
    BY <1>1, CloneFailsKept
  <2>2. CASE h.kind = "status" \/ h.pc = "notify"
    <3>1. \A k \in handlers' : (k \in handlers /\ k # h) \/ k = n
      BY <1>h
    <3>2. h.kind = "config" => n.pc = "read"
      BY <2>2, <1>n
    <3>3. UNCHANGED <<present, exec, cancelledAt, pipeline>>
      BY <1>u DEF jobVars, runVars, pipelineVars
    <3> QED
      BY <1>2, <1>n, <2>1, <3>1, <3>2, <3>3, ConfigMoves
  <2>3. CASE h.kind = "config" /\ h.pc # "notify"
    <3>1. ConfigCalls = {h} /\ ConfigCalls' = {}
      BY <1>h, <2>3 DEF ConfigSpared, ConfigCalls
    <3> QED
      BY <2>1, <3>1, <1>u DEF ConfigSpared, ConfigCalls, jobVars, runVars
  <2> QED
    BY <2>2, <2>3, <1>n
<1>5. QuietInv'
  BY QuietStep
<1> QED
  BY <1>2, <1>3, <1>4, <1>5

LEMMA SparedRead ==
  ASSUME FullInv, CancelNext, NEW h \in handlers, ReadJobs(h), UNCHANGED cancelVars
  PROVE  SparedInv'
<1> USE DEF FullInv, SparedInv
<1> DEFINE E == Evaluations(h.job)
           n == [h EXCEPT !.pc = "children", !.evals = E]
<1>n. /\ n.kind = h.kind /\ n.job = h.job /\ n.status = h.status
      /\ n.pc = "children" /\ n.evals = E
  BY DEF CancelTypeOK, TypeOK, Handler
<1>h. handlers' = (handlers \ {h}) \cup {n} /\ h.pc = "read"
  BY DEF ReadJobs, Return
<1>u. UNCHANGED <<jobVars, runVars, pipelineVars, cancelledAt, scenario>>
  BY DEF ReadJobs, cancelVars, historyVars
<1>j. h.job \in Job /\ present \subseteq Job
  BY DEF CancelTypeOK, TypeOK, Handler
<1>E. \A e \in E : /\ e.child \in present \ {Clone} /\ e.upstream \in FinalStatuses
                   /\ e.upstream = UpstreamSum(e.child)
  <2>1. \A c \in Children(h.job) : c # Clone
    BY DEF Children, Parents
  <2> QED
    BY <2>1 DEF Evaluations, UpstreamSum
<1> HIDE DEF n, E
<1>1. GoesOnTo(h, n)
  <2>1. h.kind = "status" => h.status # "running"
    BY <1>h DEF CallSpared
  <2> QED
    BY <1>n, <1>h, <1>u, <2>1 DEF GoesOnTo
<1>2. PresentInv' /\ ExecSpared' /\ CallSpared' /\ SteadyInv' /\ KeepsEnded
  BY <1>1, GoesOnJobs
<1>3. GreenSpared' /\ EndSpared'
  BY <1>1, <1>n, <1>u, GoesOnPipeline
<1>4. ConfigSpared'
  <2>1. CloneFails' => CloneFails
    BY <1>1, CloneFailsKept
  <2>2. \A k \in handlers' : (k \in handlers /\ k # h) \/ k = n
    BY <1>h
  <2>3. UNCHANGED <<present, exec, cancelledAt, pipeline>>
    BY <1>u DEF jobVars, runVars, pipelineVars
  <2> QED
    BY <1>2, <1>n, <2>1, <2>2, <2>3, ConfigMoves
<1>5. QuietInv'
  BY QuietStep
<1>6. GivenSpared'
  <2> USE <1>u DEF jobVars
  <2>1. \A k \in handlers' : \A e \in k.evals : e.child \in present' \ {Clone}
    BY <1>h, <1>n, <1>E DEF GivenSpared
  <2>3. ASSUME NEW j \in ConfigJob, ~Disturbed(j)', NEW s \in FinalStatuses, Given(j, s)'
        PROVE  \/ Given(j, s)
               \/ s = UpstreamSum(j)
    BY <2>3, <1>h, <1>n, <1>E DEF Given
  <2>4. ASSUME NEW j \in ConfigJob, ~Disturbed(j)', NEW s \in FinalStatuses, Given(j, s)'
        PROVE  /\ \A a \in UpstreamJobs(j) : HasEnded(a)'
               /\ UpstreamFinal(j) => s = UpstreamSum(j)
    <3>0. j \in Job /\ ~Disturbed(j)
      BY <2>4 DEF ConfigJob, Disturbed
    <3>1. \A a \in UpstreamJobs(j) : Spared(a) /\ Spared(a)' /\ a \in Job
      <4>1. \A a \in UpstreamJobs(j) : Spared(a) /\ a \in Job
        BY <3>0, SparedUpstream, UpstreamType
      <4> QED
        BY <4>1 DEF Spared, Disturbed
    <3>2. \A a \in UpstreamJobs(j) : HasEnded(a) => HasEnded(a)'
      BY <1>2, <3>1 DEF KeepsEnded
    <3>3. CASE Given(j, s)
      BY <3>0, <3>2, <3>3 DEF GivenSpared
    <3>4. CASE s = UpstreamSum(j)
      <4>1. \A a \in UpstreamJobs(j) :
              status[a] \in {"created", "running", "success", "failure", "skipped"}
        BY <3>1 DEF ExecSpared, CancelTypeOK, TypeOK, JobStatuses
      <4>2. UpstreamFinal(j)
        BY <2>4, <3>4, <4>1, ComputeFinal DEF UpstreamSum, UpstreamFinal, Final
      <4>3. \A a \in UpstreamJobs(j) : HasEnded(a)
        BY <3>1, <4>2, FinalHasEnded DEF UpstreamFinal
      <4> QED
        BY <3>2, <3>4, <4>3
    <3> QED
      BY <2>3, <2>4, <3>3, <3>4
  <2>5. ASSUME NEW j \in ConfigJob, ~Disturbed(j)', NEW s \in FinalStatuses, Given(j, s)',
               NEW t \in FinalStatuses, Given(j, t)'
        PROVE  s = t
    <3>0. j \in Job /\ ~Disturbed(j)
      BY <2>5 DEF ConfigJob, Disturbed
    <3>1. CASE Given(j, s) /\ Given(j, t)
      BY <3>0, <3>1 DEF GivenSpared
    <3>2. CASE ~Given(j, s) \/ ~Given(j, t)
      <4>1. UpstreamSum(j) \in FinalStatuses
        BY <2>3, <2>5, <3>2
      <4>2. \A a \in UpstreamJobs(j) :
              status[a] \in {"created", "running", "success", "failure", "skipped"}
        BY <3>0, SparedUpstream, UpstreamType DEF ExecSpared, CancelTypeOK, TypeOK, JobStatuses
      <4>3. UpstreamFinal(j)
        BY <4>1, <4>2, ComputeFinal DEF UpstreamSum, UpstreamFinal, Final
      <4> QED
        BY <2>4, <2>5, <4>3
    <3> QED
      BY <3>1, <3>2
  <2>6. \A j \in ConfigJob : /\ UpstreamFinal(j)' <=> UpstreamFinal(j)
                             /\ UpstreamSum(j)' = UpstreamSum(j)
    BY DEF UpstreamFinal, UpstreamSum, Final
  <2>7. \A j \in ConfigJob : ~Disturbed(j)' /\ upstream'[j] \in FinalStatuses =>
          status'[j] = "skipped" \/ ~SkipsOn(j, upstream'[j])
    BY DEF GivenSpared, Disturbed
  <2> QED
    BY <2>1, <2>4, <2>5, <2>6, <2>7 DEF GivenSpared
<1> QED
  BY <1>2, <1>3, <1>4, <1>5, <1>6

LEMMA SparedCompute ==
  ASSUME FullInv, CancelNext, NEW h \in handlers, ComputeStatus(h), UNCHANGED cancelVars
  PROVE  SparedInv'
<1> USE DEF FullInv, SparedInv
<1> DEFINE s == ComputePipelineStatus(present, status, AllowFailure)
           n == [h EXCEPT !.pc = "current", !.result = s]
<1>n. /\ n.kind = h.kind /\ n.job = h.job /\ n.status = h.status
      /\ n.pc = "current" /\ n.evals = h.evals /\ n.result = s
  BY DEF CancelTypeOK, TypeOK, Handler
<1>h. \/ OnlyHasSucceededCloneJob(s) /\ handlers' = handlers \ {h}
      \/ ~OnlyHasSucceededCloneJob(s) /\ handlers' = (handlers \ {h}) \cup {n}
  BY DEF ComputeStatus, Return
<1>u. /\ UNCHANGED <<jobVars, runVars, cancelledAt, scenario, pipeline, commit>>
      /\ h.pc = "compute"
  BY DEF ComputeStatus, cancelVars, historyVars
<1>e. ending' => ending \/ (~OnlyHasSucceededCloneJob(s) /\ s \notin {"running", "created"})
  BY Zenon DEF ComputeStatus, EndsPipeline
<1>c. h.kind # "config"
  BY <1>u DEF ConfigSpared, ConfigCalls
<1>v. cancelledAt = {} => \A j \in present : Spared(j) /\
        status[j] \in {"created", "running", "success", "failure", "skipped"}
  BY AllSpared DEF ExecSpared, CancelTypeOK, TypeOK, JobStatuses
<1>f. cancelledAt = {} => \A j \in present : Final(j) => Done(j)
  BY <1>v, FinalHasEnded DEF CancelTypeOK, TypeOK
<1>1. GoesOnTo(h, n)
  BY <1>n, <1>h, <1>u DEF GoesOnTo
<1>2. s \in {"success", "partial"} /\ ~OnlyHasSucceededCloneJob(s) /\ cancelledAt = {}
        => AllDone
  <2>1. CASE present = {Clone}
    BY <2>1, OptionsAssumption DEF ComputePipelineStatus, OnlyHasSucceededCloneJob
  <2>2. CASE present = Job /\ s \in {"success", "partial"} /\ cancelledAt = {}
    <3>1. Earned
      BY <2>2, <1>v, ComputeGreen DEF Earned
    <3>2. \A j \in Job : Final(j)
      BY <2>2, <3>1 DEF Earned, Final, IsFinalStatus, FinalStatuses
    <3> QED
      BY <2>2, <3>1, <3>2, <1>f DEF AllDone
  <2> QED
    BY <2>1, <2>2 DEF PresentInv
<1>3. ASSUME ~OnlyHasSucceededCloneJob(s), s \notin {"running", "created"}, cancelledAt = {}
      PROVE  /\ \A j \in present : Done(j)
             /\ present = Job \/ (exec[Clone] = "done" /\ ConfigCalls = {})
  <2>1. \A j \in present : Final(j)
    <3>1. s # "unknown"
      BY <1>3, <1>v DEF ComputePipelineStatus
    <3>2. s \in FinalStatuses
      BY <1>3, <3>1, ComputeType DEF PipelineStatuses, FinalStatuses, JobStatuses
    <3> QED
      BY <1>3, <3>2, <1>v, ComputeFinal DEF Final
  <2>2. CASE present = {Clone}
    <3>1. status[Clone] \in {"success", "failure"}
      BY <2>1, <2>2, <1>3, <1>v DEF ExecSpared, Final, IsFinalStatus, FinalStatuses
    <3>2. status[Clone] = "failure"
      BY <2>2, <3>1, <1>3 DEF OnlyHasSucceededCloneJob, ComputePipelineStatus
    <3>3. ConfigCalls = {}
      BY <3>2 DEF ConfigSpared, CloneFails
    <3> QED
      BY <2>1, <3>2, <3>3, <1>3, <1>f, GraphAssumption DEF ExecSpared
  <2> QED
    BY <2>1, <2>2, <1>3, <1>f DEF PresentInv
<1> HIDE DEF n, s
<1>4. /\ PresentInv' /\ ExecSpared' /\ CallSpared' /\ SteadyInv' /\ KeepsEnded
      /\ GivenSpared'
  BY <1>1, <1>n, GoesOnJobs
<1>5. ConfigSpared'
  <2>1. CloneFails' => CloneFails
    BY <1>1, CloneFailsKept
  <2>2. \A k \in handlers' : (k \in handlers /\ k # h) \/ k = n
    BY <1>h
  <2>3. UNCHANGED <<present, exec, cancelledAt, pipeline>>
    BY <1>u DEF jobVars, runVars
  <2> QED
    BY <1>4, <1>n, <1>c, <2>1, <2>2, <2>3, ConfigMoves
<1>6. AllDone' <=> AllDone
  BY <1>u DEF AllDone, Done, Earned, Ordered, jobVars, runVars
<1>7. GreenSpared'
  <2>1. \A k \in handlers' : k \in handlers \/ (k = n /\ ~OnlyHasSucceededCloneJob(s))
    BY <1>h
  <2>2. UNCHANGED <<cancelledAt, pipeline, commit>>
    BY <1>u
  <2> QED
    BY <1>2, <1>6, <1>n, <2>1, <2>2 DEF GreenSpared
<1>8. EndSpared'
  <2>1. ConfigCalls = {} => ConfigCalls' = {}
    BY <1>h, <1>n, <1>c DEF ConfigCalls
  <2>2. UNCHANGED <<cancelledAt, pipeline, present, status, exec>>
    BY <1>u DEF jobVars, runVars
  <2> QED
    BY <1>3, <1>e, <2>1, <2>2 DEF EndSpared, Done
<1>9. QuietInv'
  BY QuietStep
<1> QED
  BY <1>4, <1>5, <1>7, <1>8, <1>9

LEMMA SparedPipelineStatus ==
  ASSUME FullInv, CancelNext, NEW h \in handlers,
         \/ /\ ReadPipelineStatus(h) \/ WritePipelineStatus(h) \/ SendStatusToGitServer(h)
            /\ UNCHANGED cancelVars
         \/ CancelFails(h)
  PROVE  SparedInv'
<1> USE DEF FullInv, SparedInv
<1> DEFINE n == [h EXCEPT !.pc = IF h.pc = "current" THEN "set" ELSE "post"]
<1>n. /\ n.kind = h.kind /\ n.job = h.job /\ n.status = h.status
      /\ n.pc \in {"set", "post"} /\ n.evals = h.evals /\ n.result = h.result
  BY DEF CancelTypeOK, TypeOK, Handler
<1>u. /\ UNCHANGED <<jobVars, runVars, cancelledAt, scenario>>
      /\ h.pc \in {"current", "set", "post"}
      /\ handlers' = handlers \ {h} \/ handlers' = (handlers \ {h}) \cup {n}
      /\ pipeline'.error = pipeline.error /\ pipeline'.end = pipeline.end
      /\ pipeline'.status \in {pipeline.status, h.result}
      /\ ending' => ending \/ h.kind = "config"
      /\ commit' = "success" => commit = "success" \/ h.result \in {"success", "partial"}
  <2>1. CASE ReadPipelineStatus(h) /\ UNCHANGED cancelVars
    BY <2>1, Zenon DEF ReadPipelineStatus, PipelineStatusDone, Goto, Return, cancelVars,
       historyVars
  <2>2. CASE WritePipelineStatus(h) /\ UNCHANGED cancelVars
    BY <2>2 DEF WritePipelineStatus, Goto, CancelTypeOK, TypeOK, cancelVars, historyVars
  <2>3. CASE SendStatusToGitServer(h) /\ UNCHANGED cancelVars
    <3>1. CommitState(GitServer, h.result) = "success" => h.result \in {"success", "partial"}
      BY CommitStateGreen DEF CancelTypeOK, TypeOK, Handler
    <3> QED
      BY <2>3, <3>1, Zenon DEF SendStatusToGitServer, PipelineStatusDone, Return, cancelVars,
         historyVars
  <2>4. CASE CancelFails(h)
    BY <2>4, Zenon DEF CancelFails, GitServerFails, Return, pipelineVars
  <2> QED
    BY <2>1, <2>2, <2>3, <2>4
<1>e. h.kind = "config" => pipeline.error /\ h.result = "failure"
  BY <1>u DEF ConfigSpared, ConfigCalls
<1> HIDE DEF n
<1>1. GoesOnTo(h, n)
  BY <1>n, <1>u DEF GoesOnTo
<1>2. /\ PresentInv' /\ ExecSpared' /\ CallSpared' /\ SteadyInv' /\ KeepsEnded
      /\ GivenSpared'
  BY <1>1, <1>n, GoesOnJobs
<1>3. ConfigSpared'
  <2>1. CloneFails' => CloneFails
    BY <1>1, CloneFailsKept
  <2>2. \A k \in handlers' : (k \in handlers /\ k # h) \/ k = n
    BY <1>u
  <2>3. UNCHANGED <<present, exec, cancelledAt>>
    BY <1>u DEF jobVars, runVars
  <2> QED
    BY <1>2, <1>n, <1>u, <1>e, <2>1, <2>2, <2>3, ConfigMoves
<1>4. AllDone' <=> AllDone
  BY <1>u DEF AllDone, Done, Earned, Ordered, jobVars, runVars
<1>5. GreenSpared'
  <2>1. cancelledAt = {} /\ h.result \in {"success", "partial"} => AllDone
    BY <1>u DEF GreenSpared
  <2>2. \A k \in handlers' : k \in handlers \/ k = n
    BY <1>u
  <2> QED
    BY <1>n, <1>u, <1>4, <2>1, <2>2 DEF GreenSpared
<1>6. EndSpared'
  <2>1. ConfigCalls = {} => ConfigCalls' = {}
    BY <1>u, <1>n DEF ConfigCalls
  <2>2. UNCHANGED <<cancelledAt, present, status, exec>>
    BY <1>u DEF jobVars, runVars
  <2> QED
    BY <1>e, <1>u, <2>1, <2>2 DEF EndSpared, Done
<1>7. QuietInv'
  BY QuietStep
<1> QED
  BY <1>2, <1>3, <1>5, <1>6, <1>7

LEMMA SparedSetError ==
  ASSUME FullInv, CancelNext, NEW h \in handlers, SetPipelineError(h), UNCHANGED cancelVars
  PROVE  SparedInv'
<1> USE DEF FullInv, SparedInv
<1> DEFINE n == [h EXCEPT !.pc = "current", !.result = "failure"]
<1>n. /\ n.kind = h.kind /\ n.job = h.job /\ n.status = h.status
      /\ n.pc = "current" /\ n.evals = h.evals /\ n.result = "failure"
  BY DEF CancelTypeOK, TypeOK, Handler
<1>u. /\ UNCHANGED <<jobVars, runVars, cancelledAt, scenario, commit>>
      /\ handlers' = (handlers \ {h}) \cup {n}
      /\ pipeline'.error /\ pipeline'.status = pipeline.status
  BY DEF SetPipelineError, Return, cancelVars, historyVars, CancelTypeOK, TypeOK
<1> HIDE DEF n
<1>1. GoesOnTo(h, n)
  BY <1>n, <1>u DEF GoesOnTo
<1>2. /\ PresentInv' /\ ExecSpared' /\ CallSpared' /\ SteadyInv' /\ KeepsEnded
      /\ GivenSpared'
  BY <1>1, <1>n, GoesOnJobs
<1>3. ConfigSpared'
  <2>1. CloneFails' => CloneFails
    BY <1>1, CloneFailsKept
  <2>2. UNCHANGED <<present, exec, cancelledAt>>
    BY <1>u DEF jobVars, runVars
  <2> QED
    BY <1>2, <1>n, <1>u, <2>1, <2>2, ConfigMoves
<1>4. GreenSpared'
  <2>1. AllDone' <=> AllDone
    BY <1>u DEF AllDone, Done, Earned, Ordered, jobVars, runVars
  <2> QED
    BY <1>n, <1>u, <2>1 DEF GreenSpared
<1>5. EndSpared'
  BY <1>u DEF EndSpared
<1>6. QuietInv'
  BY QuietStep
<1> QED
  BY <1>2, <1>3, <1>4, <1>5, <1>6

LEMMA SparedSetEnd ==
  ASSUME FullInv, CancelNext, SetPipelineEnd, UNCHANGED cancelVars
  PROVE  SparedInv'
<1> USE DEF FullInv, SparedInv, jobVars, runVars
<1>u. /\ UNCHANGED <<jobVars, runVars, handlers, commit, cancelledAt, scenario>>
      /\ pipeline'.error = pipeline.error /\ pipeline'.status = pipeline.status
      /\ ending /\ ~ending'
  BY DEF SetPipelineEnd, cancelVars, historyVars, CancelTypeOK, TypeOK
<1>1. QuietInv'
  BY QuietStep
<1>2. PresentInv' /\ SteadyInv'
  BY <1>u DEF PresentInv, SteadyInv, Final, Over
<1>3. \A a : /\ Spared(a)' <=> Spared(a)
             /\ Disturbed(a)' <=> Disturbed(a)
             /\ HasEnded(a)' <=> HasEnded(a)
             /\ Done(a)' <=> Done(a)
  BY <1>u DEF Spared, Disturbed, HasEnded, EndWritten, WritesEnd, Ordered, Final, Done
<1>4. ConfigSpared'
  BY <1>u, <1>3 DEF ConfigSpared, ConfigCalls, CloneFails
<1>5. ExecSpared' /\ CallSpared'
  BY <1>u, <1>3 DEF ExecSpared, CallSpared, Ordered, Final
<1>6. GivenSpared'
  BY <1>u, <1>3 DEF GivenSpared, Given, UpstreamFinal, UpstreamSum, Final
<1>7. GreenSpared' /\ EndSpared'
  <2>1. AllDone' <=> AllDone
    BY <1>u DEF AllDone, Done, Earned, Ordered
  <2> QED
    BY <1>u, <1>3, <2>1 DEF GreenSpared, EndSpared, ConfigCalls
<1> QED
  BY <1>1, <1>2, <1>4, <1>5, <1>6, <1>7

LEMMA SparedRefused ==
  ASSUME FullInv, CancelNext, NEW h \in handlers, scenario = "refusal",
         AddConfigJobsOrNot(h), UNCHANGED cancelVars
  PROVE  SparedInv'
<1> USE DEF FullInv, SparedInv
<1> DEFINE n == [h EXCEPT !.pc = "read"]
<1>n. /\ n.kind = h.kind /\ n.job = h.job /\ n.status = h.status
      /\ n.pc = "read" /\ n.evals = h.evals
  BY DEF CancelTypeOK, TypeOK, Handler
<1>u. /\ UNCHANGED <<jobVars, runVars, pipelineVars, cancelledAt, scenario>>
      /\ handlers' = (handlers \ {h}) \cup {n} /\ h.pc = "insert"
  BY DEF AddConfigJobsOrNot, Goto, cancelVars, historyVars
<1> HIDE DEF n
<1>k. h.kind # "status"
  BY <1>u DEF CallSpared
<1>1. GoesOnTo(h, n)
  BY <1>n, <1>u, <1>k DEF GoesOnTo
<1>2. /\ PresentInv' /\ ExecSpared' /\ CallSpared' /\ SteadyInv' /\ KeepsEnded
      /\ GivenSpared'
  BY <1>1, <1>n, GoesOnJobs
<1>3. GreenSpared' /\ EndSpared'
  BY <1>1, <1>n, <1>u, GoesOnPipeline
<1>4. ConfigSpared'
  <2>1. CloneFails' => CloneFails
    BY <1>1, CloneFailsKept
  <2>2. UNCHANGED <<present, exec, cancelledAt, pipeline>>
    BY <1>u DEF jobVars, runVars, pipelineVars
  <2> QED
    BY <1>2, <1>n, <1>u, <2>1, <2>2, ConfigMoves
<1>5. QuietInv'
  BY QuietStep
<1> QED
  BY <1>2, <1>3, <1>4, <1>5

LEMMA SparedFetch ==
  ASSUME FullInv, CancelNext, NEW h \in handlers, FetchCloneJob(h), UNCHANGED cancelVars
  PROVE  SparedInv'
<1> USE DEF FullInv, SparedInv
<1>p. PICK valid \in ConfigValid :
        handlers' = Return(h) \cup
          {[h EXCEPT !.pc = IF valid THEN "insert" ELSE "error",
                     !.status = status[Clone]]}
  BY DEF FetchCloneJob
<1> DEFINE pc == IF valid THEN "insert" ELSE "error"
           n == [h EXCEPT !.pc = pc, !.status = status[Clone]]
<1>n. /\ n.kind = h.kind /\ n.job = h.job /\ n.status = status[Clone]
      /\ n.pc \in {"insert", "error"} /\ n.evals = h.evals
  BY DEF CancelTypeOK, TypeOK, Handler
<1>u. /\ UNCHANGED <<jobVars, runVars, pipelineVars, cancelledAt, scenario>>
      /\ handlers' = (handlers \ {h}) \cup {n} /\ h.pc = "fetch"
  BY <1>p DEF FetchCloneJob, Return, cancelVars, historyVars
<1> HIDE DEF n, pc
<1>c. h.kind = "config"
  BY <1>u DEF CallSpared, CancelTypeOK, TypeOK, Handler
<1>1. GoesOnTo(h, n)
  BY <1>n, <1>u, <1>c DEF GoesOnTo
<1>2. /\ PresentInv' /\ ExecSpared' /\ CallSpared' /\ SteadyInv' /\ KeepsEnded
      /\ GivenSpared'
  BY <1>1, <1>n, GoesOnJobs
<1>3. GreenSpared' /\ EndSpared'
  BY <1>1, <1>n, <1>u, GoesOnPipeline
<1>4. ConfigSpared'
  <2>1. ConfigCalls = {h} /\ ConfigCalls' = {n} /\ present = {Clone} /\ h.job = Clone
    BY <1>c, <1>n, <1>u DEF ConfigSpared, ConfigCalls
  <2>2. ~CloneFails' /\ ~CloneFails /\ exec[Clone] \notin {"idle", "running"}
    BY <2>1, <1>1, CloneFailsKept DEF ConfigSpared
  <2>3. Clone \notin cancelledAt =>
          \/ status[Clone] \in {"created", "running"}
          \/ /\ status[Clone] = "success" /\ HasEnded(Clone)'
             /\ status'[Clone] = "success"
    <3>1. SUFFICES ASSUME Clone \notin cancelledAt, status[Clone] \notin {"created", "running"}
                   PROVE  status[Clone] = "success" /\ HasEnded(Clone)' /\ status'[Clone] = "success"
      OBVIOUS
    <3>2. Spared(Clone) /\ Spared(Clone)' /\ Clone \in Job
      BY <3>1, <1>u, CloneUpstream, GraphAssumption DEF Spared, Disturbed
    <3>3. status[Clone] = "success"
      BY <3>1, <3>2, <2>2 DEF CloneFails, ExecSpared, CancelTypeOK, TypeOK, JobStatuses
    <3>4. HasEnded(Clone)
      BY <3>2, <3>3, FinalHasEnded DEF Final, IsFinalStatus, FinalStatuses
    <3> QED
      BY <3>2, <3>3, <3>4, <1>2, <1>u DEF KeepsEnded, jobVars
  <2> QED
    BY <1>n, <1>u, <2>1, <2>2, <2>3 DEF ConfigSpared, jobVars, runVars
<1>5. QuietInv'
  BY QuietStep
<1> QED
  BY <1>2, <1>3, <1>4, <1>5

LEMMA SparedAdd ==
  ASSUME FullInv, FirstRankRuns, CancelNext, NEW h \in handlers, AddConfigJobs(h),
         UNCHANGED cancelVars
  PROVE  SparedInv'
<1> USE DEF FullInv, SparedInv
<1> DEFINE n == [h EXCEPT !.pc = "notify"]
<1>n. /\ n.kind = h.kind /\ n.job = h.job /\ n.status = h.status
      /\ n.pc = "notify" /\ n.evals = h.evals
  BY DEF CancelTypeOK, TypeOK, Handler
<1>a. /\ UNCHANGED <<runVars, pipelineVars, cancelledAt, scenario>> /\ present' = Job
      /\ handlers' = (handlers \ {h}) \cup {n} /\ h.pc = "insert"
  BY DEF AddConfigJobs, Goto, cancelVars, historyVars
<1>s. /\ \A j \in Job : status'[j] = IF j \in SkippedUpFront THEN "skipped" ELSE status[j]
      /\ status'[Clone] = status[Clone]
  BY CloneUpstream, GraphAssumption DEF AddConfigJobs
<1>u. \A j \in Job : upstream'[j] = IF j # Clone /\ Dependencies[j] = {}
                                    THEN h.status ELSE upstream[j]
  BY DEF AddConfigJobs
<1> HIDE DEF n
<1>c. h.kind = "config"
  BY <1>a DEF CallSpared, CancelTypeOK, TypeOK, Handler
<1>d. ConfigCalls = {h} /\ ConfigCalls' = {n} /\ present = {Clone} /\ h.job = Clone
  BY <1>c, <1>n, <1>a DEF ConfigSpared, ConfigCalls
<1>o. \A j \in Job \ {Clone} :
        /\ status[j] = "created" /\ upstream[j] = None /\ exec[j] = "idle"
        /\ j \notin listed /\ j \notin locked
  BY <1>d DEF PresentInv
<1>e. \A k \in handlers' : k.evals = {}
  <2>1. \A k \in handlers : k.evals = {}
    BY <1>d DEF GivenSpared
  <2> QED
    BY <1>a, <1>n, <2>1
<1>x. \A a : (Spared(a)' <=> Spared(a)) /\ (Disturbed(a)' <=> Disturbed(a))
  BY <1>a DEF Spared, Disturbed
<1>k. KeepsEnded
  <2>1. ASSUME NEW a \in Job, Spared(a)', HasEnded(a)
        PROVE  HasEnded(a)' /\ status'[a] \in {status[a], "running"}
    <3>1. a = Clone
      BY <2>1, <1>o DEF HasEnded, EndWritten
    <3>2. \A k \in handlers' : WritesEnd(k, a) => k \in handlers
      BY <1>a, <1>n DEF WritesEnd
    <3> QED
      BY <2>1, <3>1, <3>2, <1>s, <1>a DEF HasEnded, EndWritten, Ordered, Final, runVars, WritesEnd
  <2> QED
    BY <2>1 DEF KeepsEnded
<1>1. QuietInv'
  BY QuietStep
<1>2. PresentInv'
  BY <1>a DEF PresentInv
<1>3. ConfigSpared'
  <2>1. ~CloneFails /\ exec[Clone] \notin {"idle", "running"}
    BY <1>d DEF ConfigSpared
  <2>2. ~CloneFails'
    BY <2>1, <1>a, <1>n, <1>c, <1>s DEF CloneFails
  <2> QED
    BY <1>n, <1>a, <1>d, <2>1, <2>2 DEF ConfigSpared, runVars
<1>4. ExecSpared'
  <2>1. \A j \in listed \cup locked : j = Clone
    BY <1>o DEF CancelTypeOK, TypeOK
  <2>2. Parents(Clone) = {}
    BY DEF Parents
  <2> QED
    BY <1>a, <1>s, <1>o, <1>x, <2>1, <2>2, GraphAssumption DEF ExecSpared, runVars
<1>5. CallSpared'
  <2>1. \A k \in handlers' : k.kind = "status" => k \in handlers /\ k.job = Clone
    BY <1>a, <1>n, <1>c, <1>d DEF CallSpared
  <2> QED
    BY <1>a, <1>s, <1>x, <1>d, <2>1, GraphAssumption DEF CallSpared, Ordered, Final, runVars
<1>6. GivenSpared'
  <2>1. \A k \in handlers' : \A y \in k.evals : y.child \in present' \ {Clone}
    BY <1>e
  <2>2. ASSUME NEW j \in ConfigJob, ~Disturbed(j)', NEW s \in FinalStatuses, Given(j, s)'
        PROVE  /\ Dependencies[j] = {} /\ h.status = "success" /\ s = "success"
               /\ upstream'[j] = "success"
               /\ HasEnded(Clone)' /\ status'[Clone] \in {"success", "running"}
    <3>0. j \in Job /\ j # Clone /\ ~Disturbed(j)
      BY <2>2, <1>x DEF ConfigJob
    <3>1. upstream'[j] = s
      BY <2>2, <1>e DEF Given
    <3>2. Dependencies[j] = {} /\ h.status = s
      BY <3>0, <3>1, <2>2, <1>u, <1>o DEF FinalStatuses, None
    <3>3. Clone \notin cancelledAt
      BY <3>0, CloneDisturbs DEF ConfigJob
    <3>4. h.status = "success" /\ HasEnded(Clone) /\ status[Clone] \in {"success", "running"}
      BY <1>d, <1>a, <2>2, <3>2, <3>3 DEF ConfigSpared, FinalStatuses
    <3>5. Spared(Clone)'
      BY <3>3, <1>x, CloneUndisturbed DEF Spared
    <3> QED
      BY <3>1, <3>2, <3>4, <3>5, <1>k, <1>s, GraphAssumption DEF KeepsEnded
  <2>3. ASSUME NEW j \in ConfigJob, ~Disturbed(j)', NEW s \in FinalStatuses, Given(j, s)'
        PROVE  /\ \A a \in UpstreamJobs(j) : HasEnded(a)'
               /\ UpstreamFinal(j)' => s = UpstreamSum(j)'
               /\ \A t \in FinalStatuses : Given(j, t)' => s = t
               /\ status'[j] = "skipped" \/ ~SkipsOn(j, s)
    <3>1. /\ Dependencies[j] = {} /\ s = "success" /\ HasEnded(Clone)'
          /\ status'[Clone] \in {"success", "running"}
      BY <2>2, <2>3
    <3>2. UpstreamJobs(j) = {Clone}
      BY <3>1, FirstRankUpstream DEF Parents, ConfigJob
    <3>3. UpstreamFinal(j)' => UpstreamSum(j)' = "success"
      BY <3>1, <3>2 DEF UpstreamFinal, UpstreamSum, ComputePipelineStatus, Final,
         IsFinalStatus, FinalStatuses
    <3>4. j \in OffBranch => status'[j] = "skipped"
      BY <1>s DEF SkippedUpFront, ConfigJob
    <3>5. j \notin OffBranch => ~SkipsOn(j, "success")
      BY <3>1 DEF FirstRankRuns, SkipsOn, ConfigJob
    <3>6. \A t \in FinalStatuses : Given(j, t)' => s = t
      BY <2>2, <2>3
    <3> QED
      BY <3>1, <3>2, <3>3, <3>4, <3>5, <3>6
  <2>4. \A j \in ConfigJob : ~Disturbed(j)' /\ upstream'[j] \in FinalStatuses =>
          status'[j] = "skipped" \/ ~SkipsOn(j, upstream'[j])
    BY <2>3 DEF Given
  <2> QED
    BY <2>1, <2>3, <2>4 DEF GivenSpared
<1>7. \A j \in Job : Done(j) => Done(j)'
  BY <1>a, <1>s DEF Done, runVars
<1>8. GreenSpared'
  <2>1. ASSUME AllDone PROVE AllDone'
    <3>1. Job = {Clone}
      BY <2>1, <1>d DEF AllDone
    <3> QED
      BY <2>1, <3>1, <1>7, <1>a, <1>s, <1>d DEF AllDone, Earned, Ordered
  <2> QED
    BY <1>a, <1>n, <2>1 DEF GreenSpared, pipelineVars
<1>9. EndSpared'
  <2>1. ConfigCalls # {}
    BY <1>d
  <2> QED
    BY <1>a, <1>7, <2>1, <1>d DEF EndSpared, pipelineVars
<1>10. SteadyInv'
  <2>1. \A j \in locked : UpstreamJobs(j) = {}
    <3>1. \A j \in locked : j = Clone
      BY <1>o DEF CancelTypeOK, TypeOK
    <3> QED
      BY <3>1, CloneUpstream
  <2> QED
    BY <1>a, <2>1 DEF SteadyInv, runVars
<1> QED
  BY <1>1, <1>2, <1>3, <1>4, <1>5, <1>6, <1>8, <1>9, <1>10

LEMMA SparedWrite ==
  ASSUME FullInv, CancelNext, NEW h \in handlers, WriteStatus(h), UNCHANGED cancelVars
  PROVE  SparedInv'
<1> USE DEF FullInv, SparedInv
<1> DEFINE j == h.job
           s == h.status
           n == [h EXCEPT !.pc = IF IsFinalStatus(s) THEN "read" ELSE "compute"]
<1>n. /\ n.kind = h.kind /\ n.job = j /\ n.status = s /\ n.evals = h.evals
      /\ n.pc = (IF IsFinalStatus(s) THEN "read" ELSE "compute")
      /\ j \in Job /\ s \in JobStatuses /\ h.kind \in {"status", "config"}
      /\ status \in [Job -> JobStatuses] /\ present \subseteq Job
  BY DEF CancelTypeOK, TypeOK, Handler
<1>h. handlers' = (handlers \ {h}) \cup {n} /\ h.pc = "write"
  BY DEF WriteStatus, Goto
<1>u. UNCHANGED <<present, upstream, listed, locked, exec, pipeline, ending, commit,
                  cancelledAt, scenario>>
  BY DEF WriteStatus, runVars, pipelineVars, cancelVars, historyVars
<1>s. status'[j] = s /\ \A i \in Job : i # j => status'[i] = status[i]
  BY <1>n DEF WriteStatus
<1>k. h.kind = "status"
  BY <1>n, <1>h DEF ConfigSpared, ConfigCalls
<1> HIDE DEF n
<1>p. n.pc # "write"
  BY <1>n
<1>w. \A k \in handlers' : (k \in handlers /\ k # h) \/ (k = n /\ k.pc # "write")
  BY <1>h, <1>p
<1>v. \A a : (Spared(a)' <=> Spared(a)) /\ (Disturbed(a)' <=> Disturbed(a))
  BY <1>u DEF Spared, Disturbed
<1>d. Clone \in cancelledAt => ~Spared(j) /\ (j # Clone => Disturbed(j))
  BY <1>n, CloneSparesNone, CloneDisturbs DEF ConfigJob
<1>c. \/ /\ s = "running" /\ j \in locked
         /\ IF Ordered THEN exec[j] \in {"running", "extracted"} ELSE exec[j] # "idle"
      \/ /\ s \in {"success", "failure"} /\ exec[j] = "done" /\ j \in locked
         /\ Spared(j) => ~Final(j)
      \/ s = "skipped" /\ j # Clone /\ (status[j] = "skipped" \/ Disturbed(j))
      \/ s = "cancelled" /\ Clone \in cancelledAt
  <2>1. s \in {"running", "success", "failure", "skipped", "cancelled"} /\ j \in present
    BY <1>n, <1>k DEF CallSpared, JobStatuses
  <2>2. exec[j] # "idle" => j \in locked
    BY <1>n DEF ExecSpared
  <2>3. CASE s = "running"
    BY <2>2, <2>3, <1>k, <1>h DEF CallSpared
  <2>4. CASE s \in {"success", "failure"}
    BY <2>2, <2>4, <1>k, <1>h DEF CallSpared
  <2>5. CASE s = "skipped"
    BY <2>5, <1>k DEF CallSpared
  <2>6. CASE s = "cancelled"
    BY <2>6, <1>k DEF CallSpared
  <2> QED
    BY <2>1, <2>3, <2>4, <2>5, <2>6
<1>l. j \in locked /\ status[j] = "skipped" => Disturbed(j)
  BY DEF ExecSpared
<1>f. status[j] = "skipped" /\ ~Disturbed(j) => s = "skipped" \/ (s = "cancelled" /\ j = Clone)
  BY <1>c, <1>d, <1>l
<1> HIDE DEF j, s
<1>0. status[j] = "skipped" /\ ~Disturbed(j) => s = "skipped"
  BY <1>f DEF ExecSpared
<1>1. PresentInv'
  <2>1. j \in present
    BY <1>k DEF CallSpared, j
  <2> QED
    BY <1>u, <1>s, <2>1 DEF PresentInv
<1>2. KeepsEnded
  <2>1. ASSUME NEW a \in Job, Spared(a)', HasEnded(a)
        PROVE  HasEnded(a)' /\ status'[a] \in {status[a], "running"}
    <3>1. Spared(a)
      BY <2>1, <1>v
    <3>2. CASE a # j
      BY <2>1, <3>2, <1>s, <1>u, <1>w DEF HasEnded, EndWritten, WritesEnd, Ordered, Final
    <3>3. CASE a = j /\ s = "running"
      <4>1. exec[j] = "done" /\ (\A k \in handlers : ~WritesEnd(k, j)) /\ ~Ordered
        BY <2>1, <3>1, <3>3, <1>c, <1>l DEF HasEnded, EndWritten, Spared
      <4> QED
        BY <3>3, <4>1, <1>s, <1>u, <1>w DEF HasEnded, EndWritten, WritesEnd, Ordered
    <3>4. CASE a = j /\ s \in {"success", "failure"}
      <4>1. WritesEnd(h, j)
        BY <3>4, <1>k, <1>h DEF WritesEnd, j, s
      <4> QED
        BY <2>1, <3>1, <3>4, <4>1, <1>c, <1>l DEF HasEnded, EndWritten, Spared
    <3>5. CASE a = j /\ s = "skipped"
      <4>1. status[j] = "skipped"
        BY <3>1, <3>5, <1>c DEF Spared
      <4> QED
        BY <3>5, <4>1, <1>s DEF HasEnded, EndWritten, Final, IsFinalStatus, FinalStatuses
    <3> QED
      BY <3>1, <3>2, <3>3, <3>4, <3>5, <1>c, <1>d
  <2> QED
    BY <2>1 DEF KeepsEnded
<1>3. ConfigSpared'
  <2>1. CloneFails' => CloneFails
    <3>1. status'[Clone] = "failure" => status[Clone] = "failure" \/ (j = Clone /\ s = "failure")
      BY <1>s, GraphAssumption
    <3>2. j = Clone /\ s = "failure" => CloneFails
      BY <1>k DEF CloneFails, j, s
    <3> QED
      BY <1>w, <1>n, <3>1, <3>2 DEF CloneFails
  <2> QED
    BY <1>2, <1>n, <1>k, <1>w, <1>u, <2>1, ConfigMoves DEF j
<1>4. ExecSpared'
  <2>1. \A i \in listed \cup locked : status'[i] = "skipped" => Disturbed(i)
    <3>1. \A i \in listed \cup locked : i \in Job
      BY <1>n DEF ExecSpared
    <3>2. s = "skipped" /\ j \in listed \cup locked => Disturbed(j)
      BY <1>c DEF ExecSpared
    <3> QED
      BY <3>1, <3>2, <1>s DEF ExecSpared
  <2>2. \A i \in Job : status'[i] = "running" => i \in locked
    BY <1>s, <1>c DEF ExecSpared
  <2>3. \A i \in Job : status'[i] \in {"success", "failure"} => exec[i] = "done"
    BY <1>s, <1>c DEF ExecSpared
  <2>4. status'[Clone] # "skipped"
    BY <1>s, <1>c, GraphAssumption, CloneUndisturbed DEF ExecSpared
  <2>5. \A i \in Job : Spared(i) /\ i # j =>
          /\ status'[i] # "cancelled"
          /\ i \in listed \ locked => status'[i] = "created"
          /\ i \in locked /\ exec[i] = "idle" => status'[i] = "created"
          /\ exec[i] \in {"running", "extracted"} => status'[i] \in {"created", "running"}
    BY <1>s DEF ExecSpared
  <2>6. Spared(j) =>
          /\ status'[j] # "cancelled"
          /\ j \in listed \ locked => status'[j] = "created"
          /\ j \in locked /\ exec[j] = "idle" => status'[j] = "created"
          /\ exec[j] \in {"running", "extracted"} => status'[j] \in {"created", "running"}
    <3>1. SUFFICES ASSUME Spared(j) PROVE
            /\ status'[j] # "cancelled"
            /\ j \in listed \ locked => status'[j] = "created"
            /\ j \in locked /\ exec[j] = "idle" => status'[j] = "created"
            /\ exec[j] \in {"running", "extracted"} => status'[j] \in {"created", "running"}
      OBVIOUS
    <3>2. j \in listed \cup locked => status[j] # "skipped"
      BY <3>1 DEF ExecSpared, Spared
    <3>3. exec[j] # "idle" => j \in locked
      BY <1>c, <1>n DEF ExecSpared, j
    <3> QED
      BY <3>1, <3>2, <3>3, <1>s, <1>c, <1>d DEF Spared
  <2>7. /\ \A i \in Job : exec[i] # "idle" => i \in locked
        /\ \A i \in Job : exec[i] = "extracted" => i = Clone
        /\ \A i \in listed \cup locked :
             i \in present /\ (Parents(i) = {} \/ upstream[i] \in FinalStatuses)
    BY DEF ExecSpared
  <2> QED
    BY <1>u, <1>v, <2>1, <2>2, <2>3, <2>4, <2>5, <2>6, <2>7 DEF ExecSpared
<1>5. CallSpared'
  <2>0. \A k \in handlers : k.job \in Job
    BY DEF CancelTypeOK, TypeOK, Handler
  <2>1. ASSUME NEW k \in handlers, k # h, k.kind = "status"
        PROVE  /\ k.status \in {"success", "failure"} /\ k.pc = "write" /\ Spared(k.job)
                    => ~Final(k.job)'
               /\ k.status = "skipped" => status'[k.job] = "skipped" \/ Disturbed(k.job)
    <3>1. CASE k.job # j
      BY <2>0, <2>1, <3>1, <1>s DEF CallSpared, Final
    <3>2. CASE k.job = j
      <4>1. ASSUME k.status \in {"success", "failure"}, k.pc = "write", Spared(j)
            PROVE  ~Final(j)'
        <5>1. exec[j] = "done" /\ j \in locked
          BY <2>0, <2>1, <3>2, <4>1 DEF CallSpared, ExecSpared
        <5>2. s \notin {"success", "failure"}
          BY <2>1, <3>2, <4>1, <1>k DEF CallSpared, j, s
        <5>3. s = "running"
          BY <4>1, <5>1, <5>2, <1>c, <1>d, <1>l DEF Spared
        <5> QED
          BY <5>3, <1>s DEF Final, IsFinalStatus, FinalStatuses
      <4>2. ASSUME k.status = "skipped"
            PROVE  status'[j] = "skipped" \/ Disturbed(j)
        <5>1. status[j] = "skipped" \/ Disturbed(j)
          BY <2>1, <3>2, <4>2 DEF CallSpared
        <5> QED
          BY <5>1, <1>0, <1>s
      <4> QED
        BY <3>2, <4>1, <4>2
    <3> QED
      BY <3>1, <3>2
  <2>2. ASSUME NEW k \in handlers', k.kind = "status"
        PROVE  /\ k.job \in present' /\ k.status # "created"
               /\ k.pc \notin {"fetch", "insert", "notify", "error"}
               /\ k.status = "running" =>
                    /\ k.pc \notin {"read", "children"}
                    /\ k.pc = "write" =>
                         IF Ordered' THEN exec'[k.job] \in {"running", "extracted"}
                                     ELSE exec'[k.job] # "idle"
               /\ k.status \in {"success", "failure"} =>
                    /\ exec'[k.job] = "done"
                    /\ k.pc = "write" /\ Spared(k.job)' => ~Final(k.job)'
               /\ k.status = "skipped" =>
                    k.job # Clone /\ (status'[k.job] = "skipped" \/ Disturbed(k.job)')
               /\ k.status = "cancelled" => Clone \in cancelledAt'
    <3>1. CASE k \in handlers /\ k # h
      BY <2>1, <2>2, <3>1, <1>u, <1>v DEF CallSpared, Ordered
    <3>2. CASE k = n
      <4>1. h.job \in present /\ s # "created"
        BY <1>k DEF CallSpared, s
      <4>2. n.pc = "read" => s # "running"
        BY <1>n DEF IsFinalStatus, FinalStatuses
      <4>3. n.pc \in {"read", "compute"}
        BY <1>n
      <4> QED
        BY <3>2, <4>1, <4>2, <4>3, <1>n, <1>c, <1>s, <1>u, <1>v DEF j
    <3> QED
      BY <3>1, <3>2, <1>w
  <2>3. ASSUME NEW k \in handlers', NEW l \in handlers',
               k.kind = "status", l.kind = "status", k.job = l.job,
               k.status \in {"success", "failure"}, l.status \in {"success", "failure"}
        PROVE  k = l
    BY <2>3, <1>w, <1>n, <1>k DEF CallSpared, j, s
  <2> QED
    BY <2>2, <2>3 DEF CallSpared
<1>6. GivenSpared'
  <2>1. \A k \in handlers' : \A e \in k.evals : \E l \in handlers : e \in l.evals
    BY <1>w, <1>n
  <2>2. \A i, t : Given(i, t)' => Given(i, t)
    BY <2>1, <1>u DEF Given
  <2>3. \A i \in ConfigJob : ~Disturbed(i)' /\ upstream'[i] \in FinalStatuses =>
          status'[i] = "skipped" \/ ~SkipsOn(i, upstream'[i])
    BY <1>u, <1>v, <1>s, <1>0 DEF GivenSpared, ConfigJob
  <2> QED
    BY <1>2, <1>u, <2>1, <2>2, <2>3, GivenKept
<1>7. cancelledAt = {} => \A i \in Job : Done(i) => Done(i)'
  BY <1>0, <1>s, <1>u DEF Done, Disturbed
<1>8. GreenSpared'
  <2>1. ASSUME AllDone, cancelledAt = {}
        PROVE  AllDone'
    <3>1. ASSUME Ordered, Earned PROVE status'[j] = status[j]
      <4>1. Spared(j) /\ Done(j)
        BY <2>1, <1>n, AllSpared DEF AllDone, j
      <4>2. Final(j)
        BY <2>1, <3>1, <1>n DEF AllDone, Earned, Final, IsFinalStatus, FinalStatuses, j
      <4> QED
        BY <3>1, <4>1, <4>2, <1>c, <1>l, <1>s, <2>1 DEF Done, Spared
    <3>2. Earned /\ Ordered => Earned'
      BY <3>1, <1>s, <1>u, <1>n DEF Earned
    <3> QED
      BY <2>1, <3>2, <1>7, <1>u DEF AllDone, Ordered
  <2> QED
    BY <2>1, <1>u, <1>w, <1>n DEF GreenSpared
<1>9. EndSpared'
  <2>1. ConfigCalls' = ConfigCalls
    BY <1>h, <1>n, <1>k DEF ConfigCalls
  <2> QED
    BY <2>1, <1>7, <1>u, <1>n DEF EndSpared
<1>10. SteadyInv'
  <2>1. ASSUME scenario = "steady", NEW i \in locked, NEW a \in UpstreamJobs(i)
        PROVE  Final(a)' /\ Over(a)'
    <3>1. Final(a) /\ Over(a) /\ a \in Job
      BY <2>1, UpstreamType DEF SteadyInv, CancelTypeOK, TypeOK
    <3>2. a = j => s # "running"
      BY <2>1, <3>1, <1>c DEF Over, Ordered
    <3> QED
      BY <3>1, <3>2, <1>s, <1>u, <1>c DEF Final, Over, IsFinalStatus, FinalStatuses
  <2> QED
    BY <2>1, <1>u DEF SteadyInv
<1>11. QuietInv'
  BY QuietStep
<1> QED
  BY <1>1, <1>2, <1>3, <1>4, <1>5, <1>6, <1>8, <1>9, <1>10, <1>11


LEMMA SparedUpdate ==
  ASSUME FullInv, CancelNext, NEW h \in handlers, NEW e \in h.evals,
         UpdateDownstreamJob(h, e), UNCHANGED cancelVars
  PROVE  SparedInv'
<1> USE DEF FullInv, SparedInv
<1> DEFINE c == e.child
           u == e.upstream
           m == SetJobStatus(c, "skipped", Append(h.via, h.job))
           n == [h EXCEPT !.evals = @ \ {e}]
<1>n. /\ n.kind = h.kind /\ n.job = h.job /\ n.status = h.status
      /\ n.pc = "children" /\ n.evals = h.evals \ {e} /\ h.pc = "children"
  BY DEF UpdateDownstreamJob, CancelTypeOK, TypeOK, Handler
<1>m. /\ m.kind = "status" /\ m.job = c /\ m.status = "skipped"
      /\ m.pc = "write" /\ m.evals = {}
  BY DEF SetJobStatus, Call
<1>e. c \in present /\ c \in ConfigJob /\ c \in Job /\ c # Clone /\ u \in FinalStatuses
  <2>1. c \in Job /\ u \in FinalStatuses
    BY DEF CancelTypeOK, TypeOK, Handler
  <2>2. c \in present \ {Clone}
    BY DEF GivenSpared
  <2> QED
    BY <2>1, <2>2 DEF ConfigJob
<1>h. \A k \in handlers' : \/ k \in handlers /\ k # h
                           \/ k = n
                           \/ k = m /\ SkipsOn(c, u)
  BY DEF UpdateDownstreamJob, Return, SkipCalls
<1>s. /\ SkipsOn(c, u) => status'[c] = "skipped"
      /\ ~SkipsOn(c, u) => status'[c] = status[c]
      /\ \A j \in Job : j # c => status'[j] = status[j]
  BY <1>e DEF UpdateDownstreamJob, StatusUpdate, CancelTypeOK, TypeOK
<1>u. /\ upstream'[c] = u
      /\ \A j \in Job : j # c => upstream'[j] = upstream[j]
      /\ UNCHANGED <<present, listed, locked, exec, pipeline, ending, commit,
                     cancelledAt, scenario>>
  BY <1>e DEF UpdateDownstreamJob, CancelTypeOK, TypeOK, runVars, pipelineVars, cancelVars,
     historyVars
<1>v. \A a : (Spared(a)' <=> Spared(a)) /\ (Disturbed(a)' <=> Disturbed(a))
  BY <1>u DEF Spared, Disturbed
<1>g. Given(c, u)
  BY DEF Given
<1> HIDE DEF n, m, c, u
<1>k. SkipsOn(c, u) /\ ~Disturbed(c) => c \notin listed \cup locked /\ exec[c] = "idle"
  <2>1. SUFFICES ASSUME SkipsOn(c, u), ~Disturbed(c) PROVE c \notin listed \cup locked
    BY <1>e DEF ExecSpared, CancelTypeOK, TypeOK
  <2>2. SUFFICES ASSUME c \in listed \cup locked PROVE FALSE
    OBVIOUS
  <2>3. Parents(c) # {}
    BY <1>e DEF Parents
  <2>4. upstream[c] \in FinalStatuses /\ status[c] # "skipped"
    BY <2>1, <2>2, <2>3 DEF ExecSpared
  <2>5. u = upstream[c]
    BY <2>1, <2>4, <1>e, <1>g DEF GivenSpared, Given
  <2> QED
    BY <2>1, <2>4, <2>5, <1>e DEF GivenSpared
<1>1. PresentInv'
  BY <1>u, <1>s, <1>e DEF PresentInv
<1>2. KeepsEnded
  <2>1. ASSUME NEW a \in Job, Spared(a)', HasEnded(a)
        PROVE  status'[a] = status[a]
    <3>1. CASE a = c /\ SkipsOn(c, u)
      <4>1. exec[c] = "idle"
        BY <2>1, <3>1, <1>v, <1>k DEF Spared
      <4> QED
        BY <2>1, <3>1, <4>1, <1>s DEF HasEnded, EndWritten
    <3> QED
      BY <3>1, <1>s
  <2>2. \A a \in Job : \A k \in handlers' : WritesEnd(k, a) => k \in handlers
    BY <1>h, <1>n, <1>m DEF WritesEnd
  <2> QED
    BY <2>1, <2>2, <1>u DEF KeepsEnded, HasEnded, EndWritten, WritesEnd, Ordered, Final
<1>3. ConfigSpared'
  <2>1. CloneFails' => CloneFails
    BY <1>h, <1>n, <1>m, <1>s, <1>e, GraphAssumption DEF CloneFails
  <2>2. \A k \in handlers' : (k \in handlers /\ k # h) \/ k = n \/ k.kind = "status"
    BY <1>h, <1>m
  <2> QED
    BY <1>2, <1>n, <1>u, <2>1, <2>2, ConfigMoves
<1>4. ExecSpared'
  <2>1. ASSUME NEW j \in listed \cup locked
        PROVE  /\ j \in present /\ (Parents(j) = {} \/ upstream'[j] \in FinalStatuses)
               /\ status'[j] = "skipped" => Disturbed(j)
    <3>1. CASE j = c
      BY <3>1, <1>e, <1>k, <1>s, <1>u DEF ExecSpared
    <3>2. CASE j # c
      <4>1. j \in Job
        BY DEF CancelTypeOK, TypeOK
      <4> QED
        BY <3>2, <4>1, <1>s, <1>u DEF ExecSpared
    <3> QED
      BY <3>1, <3>2
  <2>2. ASSUME NEW j \in Job
        PROVE  /\ status'[j] = "running" => j \in locked
               /\ status'[j] \in {"success", "failure"} => exec[j] = "done"
    BY <1>s DEF ExecSpared
  <2>3. status'[Clone] # "skipped"
    BY <1>s, <1>e, GraphAssumption DEF ExecSpared
  <2>4. ASSUME NEW j \in Job, Spared(j)
        PROVE  /\ status'[j] # "cancelled"
               /\ j \in listed \ locked => status'[j] = "created"
               /\ j \in locked /\ exec[j] = "idle" => status'[j] = "created"
               /\ exec[j] \in {"running", "extracted"} => status'[j] \in {"created", "running"}
    <3>1. CASE j = c /\ SkipsOn(c, u)
      BY <2>4, <3>1, <1>k, <1>s DEF Spared
    <3>2. CASE ~(j = c /\ SkipsOn(c, u))
      <4>1. status'[j] = status[j]
        BY <3>2, <1>s
      <4> QED
        BY <2>4, <4>1 DEF ExecSpared
    <3> QED
      BY <3>1, <3>2
  <2>5. /\ \A j \in Job : exec[j] # "idle" => j \in locked
        /\ \A j \in Job : exec[j] = "extracted" => j = Clone
    BY DEF ExecSpared
  <2> QED
    BY <1>u, <1>v, <2>1, <2>2, <2>3, <2>4, <2>5 DEF ExecSpared
<1>5. CallSpared'
  <2>1. ASSUME NEW k \in handlers, k.kind = "status"
        PROVE  /\ k.status \in {"success", "failure"} /\ k.pc = "write" /\ Spared(k.job)
                    => ~Final(k.job)'
               /\ k.status = "skipped" => status'[k.job] = "skipped" \/ Disturbed(k.job)
    <3>1. k.job \in Job
      BY DEF CancelTypeOK, TypeOK, Handler
    <3>2. CASE k.job = c /\ SkipsOn(c, u)
      <4>1. k.status \in {"success", "failure"} => exec[c] = "done"
        BY <2>1, <3>2 DEF CallSpared
      <4> QED
        BY <3>2, <4>1, <1>k, <1>s DEF Spared
    <3>3. CASE ~(k.job = c /\ SkipsOn(c, u))
      <4>1. status'[k.job] = status[k.job]
        BY <3>1, <3>3, <1>s
      <4> QED
        BY <2>1, <4>1 DEF CallSpared, Final
    <3> QED
      BY <3>2, <3>3
  <2>2. ASSUME NEW k \in handlers', k.kind = "status"
        PROVE  /\ k.job \in present' /\ k.status # "created"
               /\ k.pc \notin {"fetch", "insert", "notify", "error"}
               /\ k.status = "running" =>
                    /\ k.pc \notin {"read", "children"}
                    /\ k.pc = "write" =>
                         IF Ordered' THEN exec'[k.job] \in {"running", "extracted"}
                                     ELSE exec'[k.job] # "idle"
               /\ k.status \in {"success", "failure"} =>
                    /\ exec'[k.job] = "done"
                    /\ k.pc = "write" /\ Spared(k.job)' => ~Final(k.job)'
               /\ k.status = "skipped" =>
                    k.job # Clone /\ (status'[k.job] = "skipped" \/ Disturbed(k.job)')
               /\ k.status = "cancelled" => Clone \in cancelledAt'
    <3>1. CASE k \in handlers
      BY <2>1, <2>2, <3>1, <1>u, <1>v DEF CallSpared, Ordered
    <3>2. CASE k = n
      BY <2>1, <2>2, <3>2, <1>n, <1>u, <1>v DEF CallSpared
    <3>3. CASE k = m /\ SkipsOn(c, u)
      BY <3>3, <1>m, <1>e, <1>s, <1>u
    <3> QED
      BY <3>1, <3>2, <3>3, <1>h
  <2>3. ASSUME NEW k \in handlers', NEW l \in handlers',
               k.kind = "status", l.kind = "status", k.job = l.job,
               k.status \in {"success", "failure"}, l.status \in {"success", "failure"}
        PROVE  k = l
    BY <2>3, <1>h, <1>n, <1>m DEF CallSpared
  <2> QED
    BY <2>2, <2>3 DEF CallSpared
<1>6. GivenSpared'
  <2>1. \A k \in handlers' : \A x \in k.evals : \E l \in handlers : x \in l.evals
    BY <1>h, <1>n, <1>m
  <2>2. \A j \in ConfigJob : \A t \in FinalStatuses : Given(j, t)' => Given(j, t)
    <3>1. SUFFICES ASSUME NEW j \in ConfigJob, NEW t \in FinalStatuses, upstream'[j] = t
                   PROVE  Given(j, t)
      BY <2>1 DEF Given
    <3> QED
      BY <3>1, <1>u, <1>g DEF Given, ConfigJob
  <2>3. \A j \in ConfigJob : ~Disturbed(j)' /\ upstream'[j] \in FinalStatuses =>
          status'[j] = "skipped" \/ ~SkipsOn(j, upstream'[j])
    <3>1. SUFFICES ASSUME NEW j \in ConfigJob, ~Disturbed(j), upstream'[j] \in FinalStatuses
                   PROVE  status'[j] = "skipped" \/ ~SkipsOn(j, upstream'[j])
      BY <1>v
    <3>2. CASE j = c
      BY <3>2, <1>s, <1>u
    <3>3. CASE j # c
      BY <3>1, <3>3, <1>s, <1>u DEF GivenSpared, ConfigJob
    <3> QED
      BY <3>2, <3>3
  <2> QED
    BY <1>2, <1>u, <2>1, <2>2, <2>3, GivenKept
<1>7. \A j \in Job : Done(j) => Done(j)'
  BY <1>s, <1>u DEF Done
<1>8. GreenSpared'
  <2>1. ASSUME AllDone, cancelledAt = {} PROVE AllDone'
    <3>1. status'[c] = status[c]
      <4>1. Done(c) /\ ~Disturbed(c)
        BY <2>1, <1>e DEF AllDone, Disturbed
      <4> QED
        BY <4>1, <1>k, <1>s DEF Done
    <3> QED
      BY <2>1, <3>1, <1>7, <1>s, <1>u DEF AllDone, Earned, Ordered
  <2> QED
    BY <2>1, <1>u, <1>h, <1>n, <1>m DEF GreenSpared
<1>9. EndSpared'
  <2>1. ConfigCalls = {} => ConfigCalls' = {}
    BY <1>h, <1>n, <1>m DEF ConfigCalls
  <2>2. present \subseteq Job
    BY DEF CancelTypeOK, TypeOK
  <2> QED
    BY <2>1, <2>2, <1>7, <1>u DEF EndSpared
<1>10. SteadyInv'
  <2>1. \A j \in locked : \A a \in UpstreamJobs(j) : a \in Job
    BY UpstreamType DEF CancelTypeOK, TypeOK
  <2>2. \A a \in Job : Final(a) => Final(a)'
    BY <1>s DEF Final, IsFinalStatus, FinalStatuses
  <2> QED
    BY <2>1, <2>2, <1>u DEF SteadyInv, Over
<1>11. QuietInv'
  BY QuietStep
<1> QED
  BY <1>1, <1>2, <1>3, <1>4, <1>5, <1>6, <1>8, <1>9, <1>10, <1>11


LEMMA SparedStep ==
  ASSUME FirstRankRuns, FullInv, CancelNext
  PROVE  SparedInv'
<1>1. CASE UserStep
  BY <1>1, RequestStep DEF UserStep
<1>2. CASE ReportStep
  BY <1>2, BeginStep, SendCancelledStep, ConfigFileStep, SilentStep, EndStep, GraphAssumption
     DEF ReportStep
<1>3. CASE CancelStep
  <2>1. CASE CancelJobsWithoutRunner \/ DelayedCancel
    BY <2>1, CancelOthersStep
  <2>2. CASE CleanJobs
    BY <2>2, CleanJobsStep
  <2> QED
    BY <1>3, <2>1, <2>2, RequestStep DEF CancelStep
<1>4. CASE CallStep
  <2>1. ASSUME NEW h \in handlers, OrdinaryStep(h), UNCHANGED cancelVars
        PROVE  SparedInv'
    <3>1. CASE WriteStatus(h) \/ ReadJobs(h) \/ ChildrenUpdated(h) \/ ComputeStatus(h)
      BY <2>1, <3>1, SparedWrite, SparedRead, SparedNotify, SparedCompute
    <3>2. ASSUME NEW e \in h.evals, UpdateDownstreamJob(h, e)
          PROVE  SparedInv'
      BY <2>1, <3>2, SparedUpdate
    <3>3. CASE ReadPipelineStatus(h) \/ WritePipelineStatus(h) \/ SendStatusToGitServer(h)
      BY <2>1, <3>3, SparedPipelineStatus
    <3>4. CASE FetchCloneJob(h) \/ SetPipelineError(h)
      BY <2>1, <3>4, SparedFetch, SparedSetError
    <3>5. CASE AddConfigJobsOrNot(h)
      <4>1. CASE scenario = "refusal"
        BY <2>1, <3>5, <4>1, SparedRefused
      <4>2. CASE scenario # "refusal"
        BY <2>1, <3>5, <4>2, SparedAdd DEF AddConfigJobsOrNot
      <4> QED
        BY <4>1, <4>2
    <3> QED
      BY <2>1, <3>1, <3>2, <3>3, <3>4, <3>5 DEF OrdinaryStep
  <2>2. ASSUME NEW h \in handlers, CancelFails(h) \/ NotifyRunnersUnlessCancelled(h)
        PROVE  SparedInv'
    BY <2>2, SparedPipelineStatus, SparedNotify
  <2>3. CASE SetPipelineEnd /\ UNCHANGED cancelVars
    BY <2>3, SparedSetEnd
  <2> QED
    BY <1>4, <2>1, <2>2, <2>3 DEF CallStep
<1>5. CASE Restart
  BY <1>5, RestartStep
<1>6. ASSUME NEW j \in Job, PullStep(j) \/ LoseReports(j) PROVE SparedInv'
  BY <1>6, PullStepInv, SilentStep
<1> QED
  BY <1>1, <1>2, <1>3, <1>4, <1>5, <1>6 DEF CancelNext

LEMMA WritesUpstream ==
  ASSUME NEW h, OrdinaryStep(h), ~AddConfigJobsOrNot(h), upstream' # upstream
  PROVE  \E e \in h.evals : UpdateDownstreamJob(h, e)
<1> USE DEF jobVars
<1>1. WriteStatus(h) \/ ReadJobs(h) \/ ChildrenUpdated(h) => UNCHANGED upstream
  BY DEF WriteStatus, ReadJobs, ChildrenUpdated
<1>2. ComputeStatus(h) => UNCHANGED upstream
  BY Zenon DEF ComputeStatus
<1>3. ReadPipelineStatus(h) \/ WritePipelineStatus(h) \/ SendStatusToGitServer(h)
        => UNCHANGED upstream
  BY DEF ReadPipelineStatus, WritePipelineStatus, SendStatusToGitServer
<1>4. FetchCloneJob(h) \/ SetPipelineError(h) => UNCHANGED upstream
  BY DEF FetchCloneJob, SetPipelineError
<1> QED
  BY <1>1, <1>2, <1>3, <1>4 DEF OrdinaryStep

LEMMA CloneStep ==
  ASSUME FullInv, CloneInv, CancelNext
  PROVE  CloneInv'
<1> USE GraphAssumption DEF CloneInv, FullInv, CancelTypeOK, TypeOK, jobVars, vars
<1>1. ASSUME NEW h \in handlers, NEW e \in h.evals, UpdateDownstreamJob(h, e)
      PROVE  CloneInv'
  <2>1. e.child # Clone
    BY DEF SparedInv, GivenSpared
  <2> QED
    BY <1>1, <2>1 DEF UpdateDownstreamJob
<1>2. ASSUME NEW h \in handlers, AddConfigJobsOrNot(h)
      PROVE  CloneInv'
  BY <1>2 DEF AddConfigJobsOrNot, AddConfigJobs
<1>3. CASE UNCHANGED upstream
  BY <1>3
<1>4. ASSUME NEW j \in Job, PullStep(j) \/ LoseReports(j)
      PROVE  UNCHANGED upstream
  BY <1>4 DEF PullStep, ListAvailableJobs, LockJob, PullNothing, LoseReports
<1>5. ASSUME UserStep \/ Restart \/ CancelStep
      PROVE  UNCHANGED upstream
  BY <1>5 DEF UserStep, CancelPipeline, Restart, CancelStep, PreventJobsFromBeingRun,
       StopRunningJobs, CancelJobsWithoutRunner, MarkPipelineAsCancelled, DelayedCancel,
       SetJobEnd, StopTooLate, CleanJobs
<1>6. ASSUME ReportStep
      PROVE  UNCHANGED upstream
  BY <1>6 DEF ReportStep, Begin, End, SendRunning, SendFinalStatus, SendConfigFile,
       DropConfigFile, SendEmptyConfigFile,
       SendCancelled
<1>7. ASSUME CallStep
      PROVE  CloneInv'
  <2>2. ASSUME NEW h \in handlers, CancelFails(h) \/ NotifyRunnersUnlessCancelled(h)
        PROVE  UNCHANGED upstream
    BY <2>2 DEF CancelFails, GitServerFails, NotifyRunnersUnlessCancelled, NotifyRunners
  <2>3. SetPipelineEnd => UNCHANGED upstream
    BY DEF SetPipelineEnd
  <2> QED
    BY <1>1, <1>2, <1>3, <1>7, <2>2, <2>3, WritesUpstream DEF CallStep
<1> QED
  BY <1>3, <1>4, <1>5, <1>6, <1>7 DEF CancelNext

LEMMA FullAlways ==
  ASSUME FirstRankRuns
  PROVE  CancelSpec => [](FullInv /\ CloneInv)
<1>1. CancelInit => FullInv /\ CloneInv
  <2>1. CancelInit => BarredInv /\ CloneInv
    BY GraphAssumption DEF CancelInit, Init, BarredInv, CloneInv
  <2> QED
    BY <2>1, CancelInitType, InitSpared DEF FullInv
<1>2. ASSUME FullInv, CloneInv, [CancelNext]_allVars
      PROVE  (FullInv /\ CloneInv)'
  <2>1. CASE CancelNext
    BY <1>2, <2>1, SparedStep, CloneStep, BarredStep, CancelNextType DEF FullInv
  <2>2. CASE UNCHANGED allVars
    <3>1. UNCHANGED vars /\ UNCHANGED cancelVars
      BY <2>2 DEF allVars
    <3>2. /\ scenario' = scenario /\ cancelledAt' = cancelledAt
          /\ scenario = "steady" => cancelledAt' \in {{}, Job}
      BY <1>2, <3>1 DEF cancelVars, historyVars, FullInv, SparedInv, SteadyInv
    <3>3. QuietInv' /\ BarredInv'
      BY <1>2, <3>1 DEF QuietInv, BarredInv, Barred, cancelVars, historyVars, FullInv,
         SparedInv, vars, jobVars
    <3>4. CancelTypeOK'
      BY <1>2, CancelNextType DEF FullInv
    <3>5. SparedInv'
      BY <1>2, <3>1, <3>2, <3>3, MoreCancelled DEF SparedInv
    <3> QED
      BY <1>2, <3>1, <3>3, <3>4, <3>5 DEF FullInv, CloneInv, vars, jobVars
  <2> QED
    BY <1>2, <2>1, <2>2
<1> QED
  BY <1>1, <1>2, PTL DEF CancelSpec

\* What setJobStatus, updateDownstreamJob and updatePipelineStatus promise in
\* spite of cancellations, restarts, refusals and disorder: jobs start and are
\* skipped in turn, an end or a green status comes last and is earned.
THEOREM CancelInvHolds ==
  ASSUME FirstRankRuns
  PROVE  CancelSpec => []CancelInv
<1>1. ASSUME FullInv, CloneInv
      PROVE  CancelInv
  <2> USE <1>1 DEF FullInv, SparedInv
  <2>0. \A j \in locked : j \in Job /\ UpstreamJobs(j) \subseteq Job
    BY UpstreamType DEF CancelTypeOK, TypeOK
  <2>1. StartedInTurn
    <3>1. ASSUME NEW j \in locked, NEW a \in UpstreamJobs(j), ~Disturbed(j)
          PROVE  (Ordered => Final(a)) /\ Over(a)
      <4>1. HasEnded(a) /\ Spared(a)
        BY <2>0, <3>1, AvailableAfterUpstream, SparedUpstream
      <4>2. status[a] = "skipped" => a \notin locked
        BY <4>1 DEF ExecSpared, Spared
      <4> QED
        BY <4>1, <4>2 DEF HasEnded, EndWritten, Over
    <3>2. scenario \in {"disorder", "refusal"} => \A j : ~Disturbed(j)
      BY DEF QuietInv, Disturbed
    <3>3. scenario \in {"steady", "early", "restart", "lost", "disorder", "refusal"}
      BY CancelAssumption DEF CancelTypeOK
    <3>4. CASE scenario = "steady"
      BY <3>4 DEF StartedInTurn, SteadyInv
    <3>5. CASE scenario = "early"
      BY <3>5 DEF StartedInTurn
    <3>6. CASE scenario \in {"restart", "lost"}
      BY <3>1, <3>6 DEF StartedInTurn, Ordered
    <3>7. CASE scenario \in {"disorder", "refusal"}
      BY <3>1, <3>2, <3>7 DEF StartedInTurn, Ordered
    <3> QED
      BY <3>3, <3>4, <3>5, <3>6, <3>7
  <2>2. SkipsInTime
    BY DEF SkipsInTime, ExecSpared
  <2>3. LastsToTheEnd
    <3>1. cancelledAt = {} /\ pipeline.status \in {"success", "partial"}
            => \A j \in Job : Done(j)
      BY DEF GreenSpared, AllDone
    <3>2. cancelledAt = {} /\ (pipeline.end \/ ending) /\ ~pipeline.error
            => \A j \in present : Done(j)
      BY DEF EndSpared
    <3> QED
      BY <3>1, <3>2 DEF LastsToTheEnd, Done
  <2>4. ASSUME cancelledAt = {}, scenario # "disorder"
        PROVE  GreenIsEarned /\ UpstreamStatusCurrent
    <3>1. GreenIsEarned
      BY <2>4 DEF GreenIsEarned, GreenSpared, AllDone, Ordered
    <3>2. ASSUME NEW j \in present, upstream[j] \in FinalStatuses
          PROVE  upstream[j] = UpstreamSum(j)
      <4>1. j \in ConfigJob /\ ~Disturbed(j) /\ Given(j, upstream[j])
        BY <2>4, <3>2 DEF CloneInv, FinalStatuses, None, ConfigJob, Disturbed, Given,
           CancelTypeOK, TypeOK
      <4>2. UpstreamFinal(j)
        BY <2>4, <3>2, <4>1 DEF GivenSpared, HasEnded, Ordered, UpstreamFinal
      <4> QED
        BY <3>2, <4>1, <4>2 DEF GivenSpared
    <3> QED
      BY <3>1, <3>2 DEF UpstreamStatusCurrent, UpstreamSum
  <2> QED
    BY <2>1, <2>2, <2>3, <2>4 DEF CancelInv
<1> QED
  BY <1>1, FullAlways, PTL
=============================================================================
