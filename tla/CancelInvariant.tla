-------------------------- MODULE CancelInvariant --------------------------
(***************************************************************************)
(* The inductive invariant behind CancelInv, in named parts.  It says of   *)
(* every job that neither is nor waits for a cancelled one what            *)
(* PipelineInvariant says of all jobs, but for wakeups, which a restart    *)
(* loses, and but for the order in which statuses are written: an upstream *)
(* job of a job that may run has ended, whatever its status says.          *)
(***************************************************************************)
EXTENDS PipelineInvariant, PipelineCancel

Spared(j) == j \notin cancelledAt /\ ~Disturbed(j)

Ordered == scenario # "disorder"

\* The call is about to write how j has ended.
WritesEnd(h, j) ==
  /\ h.kind = "status" /\ h.job = j /\ h.pc = "write"
  /\ h.status \in {"success", "failure"}

\* No status with which a runner ends the job is still to come.
EndWritten(j) ==
  \/ status[j] = "skipped"
  \/ exec[j] = "done" /\ \A h \in handlers : ~WritesEnd(h, j)

HasEnded(j) == EndWritten(j) /\ (Ordered => Final(j))

Done(j) == exec[j] = "done" \/ status[j] = "skipped"

\* Nobody is asked to stop and nothing is set to cancelled before the clone
\* job, and with it all jobs, is cancelled or disturbed.
QuietInv ==
  /\ \/ cancelling \in {"parts", "failed", "done"} \/ parts # {} \/ marked
     \/ delayed \/ stopping # {}
     => Clone \in cancelledAt
  /\ scenario \in {"disorder", "refusal"} =>
       cancelling = "no" /\ ~lost /\ cancelledAt = {}

\* As ConfigInv, but for a clone job that is cancelled or reads `running`
\* after it has ended.
ConfigSpared ==
  /\ \A h \in ConfigCalls : h.job = Clone /\ h.pc \notin {"write", "compute"}
  /\ \A h, k \in ConfigCalls : h = k
  /\ exec[Clone] \in {"idle", "running"} => ConfigCalls = {} /\ present = {Clone}
  /\ CloneFails => ConfigCalls = {} /\ present = {Clone}
  /\ \A h \in ConfigCalls :
       /\ h.pc \in {"fetch", "insert", "error"} => present = {Clone}
       /\ h.pc = "notify" => present = Job
       /\ h.pc = "insert" /\ Clone \notin cancelledAt =>
            \/ h.status \in {"created", "running"}
            \/ /\ h.status = "success" /\ HasEnded(Clone)
               /\ status[Clone] \in {"success", "running"}
       /\ h.pc \in {"current", "set", "post"} =>
            pipeline.error /\ h.result = "failure"

\* What the runner does with a job and the status the database has for it.
ExecSpared ==
  /\ \A j \in Job : exec[j] # "idle" => j \in locked
  /\ \A j \in Job : exec[j] = "extracted" => j = Clone
  /\ \A j \in listed \cup locked :
       /\ j \in present /\ (Parents(j) = {} \/ upstream[j] \in FinalStatuses)
       /\ status[j] = "skipped" => Disturbed(j)
  /\ \A j \in Job : status[j] = "running" => j \in locked
  /\ \A j \in Job : status[j] \in {"success", "failure"} => exec[j] = "done"
  /\ status[Clone] # "skipped"
  /\ \A j \in Job : Spared(j) =>
       /\ status[j] # "cancelled"
       /\ j \in listed \ locked => status[j] = "created"
       /\ j \in locked /\ exec[j] = "idle" => status[j] = "created"
       /\ exec[j] \in {"running", "extracted"} => status[j] \in {"created", "running"}

\* What a call of setJobStatus knows about its job.
CallSpared ==
  /\ \A h \in handlers : h.kind = "status" =>
       /\ h.job \in present /\ h.status # "created"
       /\ h.pc \notin {"fetch", "insert", "notify", "error"}
       /\ h.status = "running" =>
            /\ h.pc \notin {"read", "children"}
            /\ h.pc = "write" =>
                 IF Ordered THEN exec[h.job] \in {"running", "extracted"}
                            ELSE exec[h.job] # "idle"
       /\ h.status \in {"success", "failure"} =>
            /\ exec[h.job] = "done"
            /\ h.pc = "write" /\ Spared(h.job) => ~Final(h.job)
       /\ h.status = "skipped" =>
            h.job # Clone /\ (status[h.job] = "skipped" \/ Disturbed(h.job))
       /\ h.status = "cancelled" => Clone \in cancelledAt
  /\ \A h, k \in handlers :
       (/\ h.kind = "status" /\ k.kind = "status" /\ h.job = k.job
        /\ h.status \in {"success", "failure"}
        /\ k.status \in {"success", "failure"}) => h = k

\* The upstream statuses that j has or is about to get.
Given(j, s) ==
  \/ upstream[j] = s
  \/ \E h \in handlers : \E e \in h.evals : e.child = j /\ e.upstream = s

\* A job is given an upstream status once its upstream jobs have ended, always
\* the same one, and it may run if that says so.
GivenSpared ==
  /\ \A h \in handlers : \A e \in h.evals : e.child \in present \ {Clone}
  /\ \A j \in ConfigJob : ~Disturbed(j) =>
       /\ \A s \in FinalStatuses : Given(j, s) =>
            /\ \A a \in UpstreamJobs(j) : HasEnded(a)
            /\ UpstreamFinal(j) => s = UpstreamSum(j)
            /\ \A t \in FinalStatuses : Given(j, t) => s = t
       /\ upstream[j] \in FinalStatuses => status[j] = "skipped" \/ ~SkipsOn(j, upstream[j])

\* A green status on its way is already earned.
AllDone ==
  present = Job /\ (\A j \in Job : Done(j)) /\ (Ordered => Earned)

GreenSpared ==
  cancelledAt = {} =>
    /\ \A h \in handlers :
         h.pc \in {"current", "set", "post"} /\ h.result \in {"success", "partial"}
           => AllDone
    /\ (pipeline.status \in {"success", "partial"} \/ commit = "success") => AllDone

\* An end is final: no config job comes after it.
EndSpared ==
  (ending \/ pipeline.end) /\ ~pipeline.error /\ cancelledAt = {} =>
    /\ \A j \in present : Done(j)
    /\ present = Job \/ (exec[Clone] = "done" /\ ConfigCalls = {})

\* The upstream jobs of what a runner has stay as they ended when everything
\* is cancelled.
SteadyInv ==
  scenario = "steady" =>
    /\ cancelledAt \in {{}, Job}
    /\ \A j \in locked : \A a \in UpstreamJobs(j) : Final(a) /\ Over(a)

\* Nothing is upstream of the clone job, and nothing is ever given to it.
CloneInv == upstream[Clone] = None

SparedInv ==
  /\ QuietInv /\ PresentInv /\ ConfigSpared /\ ExecSpared /\ CallSpared
  /\ GivenSpared /\ GreenSpared /\ EndSpared /\ SteadyInv
=============================================================================
