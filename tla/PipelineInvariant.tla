------------------------- MODULE PipelineInvariant -------------------------
(***************************************************************************)
(* The inductive invariant behind the safety properties of                 *)
(* PipelineProgress, in named parts.  It holds when a job's statuses are   *)
(* written in the order they are sent and no job of the first rank is to   *)
(* be skipped after a successful clone.                                    *)
(***************************************************************************)
EXTENDS PipelineProgress

\* The jobs that depend on the clone job run when it succeeds.
FirstRankRuns ==
  \A j \in ConfigJob \ OffBranch :
    Dependencies[j] = {} => CanExecWhenStatus("success", WhenStatus[j])

Tame == StatusInOrder /\ FirstRankRuns

UpstreamFinal(j) == \A a \in UpstreamJobs(j) : Final(a)
UpstreamSum(j) == ComputePipelineStatus(UpstreamJobs(j), status, AllowFailure)

ConfigCalls == {h \in handlers : h.kind = "config"}
CloneFails ==
  \/ status[Clone] = "failure"
  \/ \E h \in handlers :
       h.kind = "status" /\ h.job = Clone /\ h.status = "failure"

\* The config jobs are inserted at once, and untouched before that.
PresentInv ==
  /\ present \in {{Clone}, Job}
  /\ \A j \in Job \ present :
       /\ status[j] = "created" /\ upstream[j] = None /\ exec[j] = "idle"
       /\ j \notin listed /\ j \notin locked

\* There is at most one call of processCiConfig, and none when the clone
\* job fails; before its insertion the clone job is alone.
ConfigInv ==
  /\ \A h \in handlers : h.kind = "config" => h.job = Clone
  /\ \A h, k \in ConfigCalls : h = k
  /\ exec[Clone] \in {"idle", "running"} => ConfigCalls = {} /\ present = {Clone}
  /\ CloneFails => ConfigCalls = {} /\ present = {Clone}
  /\ \A h \in ConfigCalls :
       /\ h.pc \in {"fetch", "insert", "error"} => present = {Clone}
       /\ h.pc = "notify" => present = Job
       /\ h.pc = "insert" => \/ h.status \in {"created", "running"}
                             \/ h.status = "success" /\ status[Clone] = "success"
       /\ h.pc \in {"current", "set", "post"} =>
            pipeline.error /\ h.result = "failure"
       /\ h.pc \notin {"write", "compute"}

\* What the runner does with a job and the status the database has for it.
ExecInv ==
  /\ \A j \in Job : exec[j] # "idle" => j \in locked
  /\ \A j \in Job : exec[j] = "extracted" => j = Clone
  /\ \A j \in listed \cup locked :
       j \in present /\ (Parents(j) = {} \/ upstream[j] \in FinalStatuses)
  /\ \A j \in listed \ locked : status[j] = "created"
  /\ \A j \in locked : exec[j] = "idle" => status[j] = "created"
  /\ \A j \in Job :
       exec[j] \in {"running", "extracted"} => status[j] \in {"created", "running"}
  /\ \A j \in Job : status[j] \in {"running", "success", "failure"} => j \in locked
  /\ \A j \in Job : status[j] = "skipped" => j \notin listed \cup locked
  /\ \A j \in Job : status[j] # "cancelled"
  /\ status[Clone] # "skipped"

\* What a call of setJobStatus knows about its job.
CallInv ==
  /\ \A h \in handlers : h.kind = "status" =>
       /\ h.job \in present
       /\ h.status \in {"running", "success", "failure", "skipped"}
       /\ h.pc \notin {"fetch", "insert", "notify", "error"}
       /\ h.status = "running" =>
            /\ h.pc \notin {"read", "children"}
            /\ h.pc = "write" => exec[h.job] \in {"running", "extracted"}
       /\ h.status \in {"success", "failure"} =>
            /\ exec[h.job] = "done"
            /\ IF h.pc = "write" THEN ~Final(h.job)
                                 ELSE status[h.job] = h.status
       /\ h.status = "skipped" => status[h.job] = "skipped"
  /\ \A h, k \in handlers :
       (/\ h.kind = "status" /\ k.kind = "status" /\ h.job = k.job
        /\ h.status \in {"success", "failure"}
        /\ k.status \in {"success", "failure"}) => h = k

\* An upstream status is final only when the upstream jobs have ended, and
\* then it is right and the job it was given to may run.
UpstreamInv ==
  /\ \A j \in present : upstream[j] \in FinalStatuses =>
       /\ UpstreamFinal(j) /\ upstream[j] = UpstreamSum(j)
       /\ status[j] = "skipped" \/ ~SkipsOn(j, upstream[j])
  /\ \A j \in present : status[j] = "skipped" /\ j \notin SkippedUpFront
       => UpstreamFinal(j)
  /\ \A j \in present : j \in SkippedUpFront => status[j] = "skipped"
  /\ \A h \in handlers : \A e \in h.evals :
       /\ e.child \in present /\ Parents(e.child) # {}
       /\ UpstreamFinal(e.child) /\ e.upstream = UpstreamSum(e.child)

\* The jobs whose end makes j available: its parents, and the parents of
\* those of them that were skipped up front, whose own end came too early.
WakersOf ==
  [j \in Job |->
     {a \in Job : \A S \in SUBSET Job :
        (/\ Parents(j) \subseteq S
         /\ \A k \in S \cap SkippedUpFront : Parents(k) \subseteq S) => a \in S}]

Wakers(j) == WakersOf[j]

\* The call h is on its way to evaluate j, or a job between its own and j.
Evaluates(h, j) ==
  \/ /\ h.kind = "status" /\ h.pc = "write" /\ IsFinalStatus(h.status)
     /\ h.job \in Wakers(j)
  \/ h.pc \in {"notify", "read"} /\ h.job \in Wakers(j)
  \/ h.pc = "children" /\
       \E e \in h.evals : e.child = j \/ e.child \in Wakers(j) \cap SkippedUpFront

WakeupInv ==
  \A j \in present :
    (status[j] = "created" /\ Parents(j) # {} /\ UpstreamFinal(j))
    => upstream[j] \in FinalStatuses \/ \E h \in handlers : Evaluates(h, j)

\* A green status on its way is already earned, by all jobs.
GreenInv ==
  /\ \A h \in handlers :
       h.pc \in {"current", "set", "post"} /\ h.result \in {"success", "partial"}
         => present = Job /\ Earned
  /\ (pipeline.status \in {"success", "partial"} \/ commit = "success")
         => present = Job /\ Earned

\* The end of a pipeline is final.
EndInv ==
  (ending \/ pipeline.end) /\ ~pipeline.error =>
    /\ \A j \in present : Final(j)
    /\ present = Job \/ status[Clone] = "failure"

IInv ==
  /\ TypeOK /\ PresentInv /\ ConfigInv /\ ExecInv /\ CallInv /\ UpstreamInv
  /\ WakeupInv /\ GreenInv /\ EndInv
=============================================================================
