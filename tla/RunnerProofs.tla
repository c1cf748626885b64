---------------------------- MODULE RunnerProofs ----------------------------
(***************************************************************************)
(* What a runner promises, for any jobs, any number of stop messages and   *)
(* clean-ups, and whichever jobs Docker fails or streams late: its reports *)
(* are those of JobReports, no container stays behind and no job ends      *)
(* without a status.                                                       *)
(***************************************************************************)
EXTENDS RunnerJob, TLAPS

\* The types that the argument needs.
RunnerTypes ==
  /\ pc \in [Job -> {"idle", "volume", "create", "exec", "extract", "done"}]
  /\ script \in [Job -> {"off", "running", "zero", "nonzero"}]
  /\ container \in [Job -> {"none", "created", "running", "stopped", "gone"}]
  /\ last \in [Job -> {"none", "running", "success", "failure", "cancelled"}]
  /\ stops \in [Job -> Nat]
  /\ ended \subseteq Job
  /\ removals \subseteq Removal

HasStatus(j) == last[j] \in {"success", "failure", "cancelled"}

\* What was sent for a job, as far as execJob is with it and whether it is to
\* be cancelled.  While its script runs, the container is only removed by
\* cancelJob, which reports it; and a job that was asked to stop is not
\* forgotten before its script has ended, unless its stream ends late.
SentInv(j) ==
  /\ pc[j] = "idle" => last[j] = "none" /\ container[j] = "none"
  /\ pc[j] = "volume" => last[j] = "running" /\ container[j] = "none"
  /\ pc[j] = "create" => last[j] = "running" /\ container[j] \in {"none", "created"}
  /\ pc[j] \in {"exec", "extract"} =>
       \/ last[j] = "running" /\ container[j] \in {"running", "stopped"}
       \/ last[j] = "cancelled" /\ container[j] = "gone"
  /\ pc[j] # "done" => j \notin ended
  /\ j \in jobsToCancel \/ last[j] = "cancelled" => stops[j] > 0
  /\ stops[j] > 0 /\ pc[j] # "done" /\ j \notin SlowStream => j \in jobsToCancel

\* Who removes a container: execJob when it has sent a status and the end,
\* the others for a job that was asked to stop.
RemovalsInv(j) ==
  /\ j \in registered => pc[j] \in {"exec", "extract", "done"}
  /\ \A m \in removals : m.job = j =>
       /\ pc[j] \in {"exec", "extract", "done"}
       /\ IF m.by = ByExecJob THEN pc[j] = "done" /\ HasStatus(j) ELSE stops[j] > 0

Removed(j, at) == \E m \in removals : m.job = j /\ m.at \in at

\* As long as Docker does what it is asked: a container that is not gone is
\* in use, or its removal is where it should be.
ContainerInv(j) ==
  /\ container[j] = "created" => pc[j] = "create"
  /\ container[j] = "running" =>
       /\ j \in registered
       /\ pc[j] \in {"exec", "extract"} \/ Removed(j, {"stop"})
       /\ j \in jobsToCancel => Removed(j, {"stop"})
  /\ container[j] = "stopped" => Removed(j, {"wait", "remove"})
  /\ container[j] = "gone" => HasStatus(j)
  /\ j \in ended /\ container[j] = "none" => HasStatus(j)

JobInv(j) == SentInv(j) /\ RemovalsInv(j) /\ (j \notin DockerFails => ContainerInv(j))

RunnerIInv == RunnerTypes /\ \A j \in Job : JobInv(j)

\* A step of one job leaves the others as they are.
Untouched(j) ==
  /\ pc'[j] = pc[j] /\ container'[j] = container[j] /\ last'[j] = last[j]
  /\ stops'[j] = stops[j]
  /\ j \in ended' <=> j \in ended
  /\ j \in registered' <=> j \in registered
  /\ j \in jobsToCancel' <=> j \in jobsToCancel
  /\ \A m : m.job = j => (m \in removals' <=> m \in removals)

LEMMA OthersKeep ==
  ASSUME RunnerIInv, NEW j \in Job, Untouched(j)
  PROVE  JobInv(j)'
BY DEF RunnerIInv, Untouched, JobInv, SentInv, RemovalsInv, ContainerInv, Removed, HasStatus

LEMMA RunnerInit == ASSUME Init PROVE RunnerIInv /\ Reports!Init
<1>1. RunnerIInv
  BY DEF Init, RunnerIInv, RunnerTypes, JobInv, SentInv, RemovalsInv, ContainerInv
<1>2. {j \in Job : stops[j] > 0} = {}
  BY DEF Init
<1> QED
  BY <1>1, <1>2 DEF Init, Reports!Init

-----------------------------------------------------------------------------
(* The calls of removeContainer.                                           *)

LEMMA CallFacts ==
  ASSUME NEW j \in Job, NEW by \in Nat
  PROVE  Call(j, by) \in Removal /\ Call(j, by).job = j /\ Call(j, by).by = by
         /\ Call(j, by).at = "stop"
BY DEF Call, Removal

\* What the end of execJob does to the job.
Ends(j) ==
  /\ pc' = [pc EXCEPT ![j] = "done"]
  /\ ended' = ended \cup {j}
  /\ removals' \in {removals, removals \cup {Call(j, ByExecJob)}}
  /\ j \notin jobsToCancel /\ container[j] # "none" => removals' = removals \cup {Call(j, ByExecJob)}
  /\ j \in jobsToCancel \/ container[j] = "none" => removals' = removals

LEMMA FinallyEnds == ASSUME NEW j \in Job, Finally(j) PROVE Ends(j)
BY DEF Finally, Ends, IsCancelled

\* After it the invariant holds if a result was sent, or the job was cancelled
\* and has a container.
LEMMA EndKeeps ==
  ASSUME RunnerIInv, NEW j \in Job, Ends(j), pc[j] \in {"volume", "exec", "extract"},
         NEW s \in {"running", "success", "failure", "cancelled"},
         last' = [last EXCEPT ![j] = s],
         s = "running" => j \in jobsToCancel /\ pc[j] # "volume" /\ last[j] = "running",
         s = "cancelled" => stops[j] > 0,
         pc[j] = "volume" => j \in jobsToCancel,
         UNCHANGED <<script, container, registered, jobsToCancel, stops>>
  PROVE  RunnerIInv'
<1>1. /\ Call(j, ByExecJob) \in Removal /\ Call(j, ByExecJob).job = j
      /\ Call(j, ByExecJob).by = ByExecJob /\ Call(j, ByExecJob).at = "stop"
  BY CallFacts DEF ByExecJob
<1>2. RunnerTypes'
  BY <1>1 DEF RunnerIInv, RunnerTypes, Ends
<1>3. ASSUME NEW i \in Job, i # j PROVE JobInv(i)'
  <2>1. Untouched(i)
    BY <1>1, <1>3 DEF Untouched, Ends, RunnerIInv, RunnerTypes
  <2> QED
    BY <2>1, OthersKeep
<1>4. pc'[j] = "done" /\ last'[j] = s
  BY DEF Ends, RunnerIInv, RunnerTypes
<1>5. JobInv(j)
  BY DEF RunnerIInv
<1>6. SentInv(j)'
  BY <1>4, <1>5 DEF JobInv, SentInv
<1>7. RemovalsInv(j)'
  BY <1>1, <1>4, <1>5 DEF JobInv, RemovalsInv, SentInv, Ends, HasStatus, ByExecJob
<1>8. ASSUME j \notin DockerFails PROVE ContainerInv(j)'
  BY <1>1, <1>4, <1>5, <1>8
     DEF JobInv, SentInv, RemovalsInv, ContainerInv, Removed, HasStatus, Ends
<1> QED
  BY <1>2, <1>3, <1>6, <1>7, <1>8 DEF RunnerIInv, JobInv

-----------------------------------------------------------------------------
(* The steps.  Each is a step of JobReports, or leaves what it knows alone. *)

Asked == {j \in Job : stops[j] > 0}

Promised ==
  \/ \E j \in Job : Reports!Ask(j) \/ Reports!Begin(j) \/ Reports!Finish(j)
                      \/ Reports!EndStopped(j) \/ Reports!Cancel(j)
  \/ UNCHANGED <<Asked, last, ended>>

LEMMA StartStep ==
  ASSUME RunnerIInv, NEW j \in Job, Start(j) \/ CreateVolumeFails(j)
  PROVE  RunnerIInv' /\ Promised
<1> USE DEF cancelVars, dockerVars
<1>1. JobInv(j)
  BY DEF RunnerIInv
<1>2. RunnerTypes'
  BY DEF RunnerIInv, RunnerTypes, Start, CreateVolumeFails
<1>3. ASSUME NEW i \in Job, i # j PROVE JobInv(i)'
  <2>1. Untouched(i)
    BY <1>3 DEF Untouched, Start, CreateVolumeFails, RunnerIInv, RunnerTypes
  <2> QED
    BY <2>1, OthersKeep
<1>4. JobInv(j)'
  BY <1>1 DEF Start, CreateVolumeFails, RunnerIInv, RunnerTypes, JobInv, SentInv, RemovalsInv,
     ContainerInv, HasStatus, IsCancelled, Removed
<1>5. Promised
  <2>1. CASE CreateVolumeFails(j)
    BY <2>1 DEF CreateVolumeFails, Promised, Asked
  <2>2. CASE Start(j) /\ IsCancelled(j)
    <3>1. Reports!Cancel(j)
      BY <1>1, <2>2 DEF Start, JobInv, SentInv, IsCancelled, Reports!Cancel, Reports!Send
    <3> QED
      BY <3>1 DEF Promised
  <2>3. CASE Start(j) /\ ~IsCancelled(j)
    <3>1. Reports!Begin(j)
      BY <1>1, <2>3 DEF Start, JobInv, SentInv, Reports!Begin, Reports!Send
    <3> QED
      BY <3>1 DEF Promised
  <2> QED
    BY <2>1, <2>2, <2>3
<1> QED
  BY <1>2, <1>3, <1>4, <1>5 DEF RunnerIInv

LEMMA VolumeStep ==
  ASSUME RunnerIInv, NEW j \in Job, CreateVolume(j)
  PROVE  RunnerIInv' /\ Promised
<1> USE DEF cancelVars, dockerVars
<1>1. JobInv(j)
  BY DEF RunnerIInv
<1>2. CASE IsCancelled(j)
  <2>1. last' = [last EXCEPT ![j] = "cancelled"] /\ Ends(j)
    BY <1>2, FinallyEnds DEF CreateVolume
  <2>2. RunnerIInv'
    BY <1>1, <1>2, <2>1, EndKeeps DEF CreateVolume, IsCancelled, JobInv, SentInv
  <2>3. Reports!EndStopped(j)
    BY <1>1, <1>2, <2>1 DEF Ends, CreateVolume, JobInv, SentInv, IsCancelled, Reports!EndStopped
  <2> QED
    BY <2>2, <2>3 DEF Promised
<1>3. CASE ~IsCancelled(j)
  <2>1. RunnerTypes'
    BY <1>3 DEF RunnerIInv, RunnerTypes, CreateVolume
  <2>2. ASSUME NEW i \in Job, i # j PROVE JobInv(i)'
    <3>1. Untouched(i)
      BY <1>3, <2>2 DEF Untouched, CreateVolume, RunnerIInv, RunnerTypes
    <3> QED
      BY <3>1, OthersKeep
  <2>3. JobInv(j)'
    BY <1>1, <1>3 DEF CreateVolume, RunnerIInv, RunnerTypes, JobInv, SentInv, RemovalsInv,
       ContainerInv, HasStatus, Removed
  <2> QED
    BY <1>3, <2>1, <2>2, <2>3 DEF CreateVolume, Promised, Asked, RunnerIInv
<1> QED
  BY <1>2, <1>3

LEMMA CreateStep ==
  ASSUME RunnerIInv, NEW j \in Job,
         CreateContainer(j) \/ StartContainer(j) \/ ScriptEnds(j, "zero")
           \/ ScriptEnds(j, "nonzero")
  PROVE  RunnerIInv' /\ Promised
<1> USE DEF cancelVars, dockerVars, execVars
<1>1. JobInv(j)
  BY DEF RunnerIInv
<1>2. /\ Call(j, ByRegistration) \in Removal /\ Call(j, ByRegistration).job = j
      /\ Call(j, ByRegistration).by = ByRegistration
      /\ Call(j, ByRegistration).at = "stop"
  BY CallFacts DEF ByRegistration
<1>3. CancelRegistered(j) = IF j \in jobsToCancel THEN {Call(j, ByRegistration)} ELSE {}
  BY DEF CancelRegistered, IsCancelled
<1>4. RunnerTypes'
  BY <1>2, <1>3 DEF RunnerIInv, RunnerTypes, CreateContainer, StartContainer, ScriptEnds
<1>5. ASSUME NEW i \in Job, i # j PROVE JobInv(i)'
  <2>1. Untouched(i)
    BY <1>2, <1>3, <1>5
       DEF Untouched, CreateContainer, StartContainer, ScriptEnds, RunnerIInv, RunnerTypes
  <2> QED
    BY <2>1, OthersKeep
<1>6. JobInv(j)'
  <2>1. CASE CreateContainer(j)
    BY <1>1, <2>1 DEF CreateContainer, RunnerIInv, RunnerTypes, JobInv, SentInv, RemovalsInv,
       ContainerInv, HasStatus, Removed
  <2>2. CASE StartContainer(j)
    <3>1. /\ pc'[j] = "exec" /\ container'[j] = "running" /\ j \in registered'
          /\ removals' = removals \cup CancelRegistered(j)
          /\ UNCHANGED <<last, ended, jobsToCancel, stops>>
          /\ pc[j] = "create"
      BY <2>2 DEF StartContainer, RunnerIInv, RunnerTypes
    <3> QED
      BY <1>1, <1>2, <1>3, <3>1
         DEF JobInv, SentInv, RemovalsInv, ContainerInv, HasStatus, Removed, ByRegistration,
         ByExecJob
  <2>3. CASE ScriptEnds(j, "zero") \/ ScriptEnds(j, "nonzero")
    BY <1>1, <2>3 DEF ScriptEnds, JobInv, SentInv, RemovalsInv, ContainerInv, HasStatus, Removed
  <2> QED
    BY <2>1, <2>2, <2>3
<1>7. Promised
  BY DEF CreateContainer, StartContainer, ScriptEnds, Promised, Asked
<1> QED
  BY <1>4, <1>5, <1>6, <1>7 DEF RunnerIInv

\* A container that was created may stay, where Docker fails.
LEMMA CreateFailsStep ==
  ASSUME RunnerIInv, NEW j \in Job, CreateContainerFails(j)
  PROVE  RunnerIInv' /\ Promised
<1> USE DEF cancelVars, dockerVars
<1>1. JobInv(j)
  BY DEF RunnerIInv
<1>2. PICK s \in {"running", "failure"} :
        last' = [last EXCEPT ![j] = s] /\ (s = "running" <=> j \in jobsToCancel)
  BY <1>1 DEF CreateContainerFails, Failed, IsCancelled, JobInv, SentInv, RunnerIInv, RunnerTypes
<1>3. RunnerTypes'
  BY <1>2 DEF RunnerIInv, RunnerTypes, CreateContainerFails
<1>4. ASSUME NEW i \in Job, i # j PROVE JobInv(i)'
  <2>1. Untouched(i)
    BY <1>2, <1>4 DEF Untouched, CreateContainerFails, RunnerIInv, RunnerTypes
  <2> QED
    BY <2>1, OthersKeep
<1>5. JobInv(j)'
  BY <1>1, <1>2 DEF CreateContainerFails, RunnerIInv, RunnerTypes, JobInv, SentInv, RemovalsInv,
     HasStatus
<1>6. Promised
  <2>1. CASE s = "running"
    <3>1. Reports!EndStopped(j)
      BY <1>1, <1>2, <2>1 DEF CreateContainerFails, JobInv, SentInv, Reports!EndStopped,
         RunnerIInv, RunnerTypes
    <3> QED
      BY <3>1 DEF Promised
  <2>2. CASE s = "failure"
    <3>1. Reports!Finish(j)
      BY <1>1, <1>2, <2>2 DEF CreateContainerFails, JobInv, SentInv, Reports!Finish, Reports!Send
    <3> QED
      BY <3>1 DEF Promised
  <2> QED
    BY <2>1, <2>2
<1> QED
  BY <1>3, <1>4, <1>5, <1>6 DEF RunnerIInv

\* The script has ended: a result is sent, or a failure is kept back.
LEMMA ResultStep ==
  ASSUME RunnerIInv, NEW j \in Job,
         InspectExec(j) \/ GetFileFromContainer(j) \/ GetFileFails(j)
  PROVE  RunnerIInv' /\ Promised
<1> USE DEF cancelVars, dockerVars
<1>1. JobInv(j)
  BY DEF RunnerIInv
<1>2. CASE pc' = [pc EXCEPT ![j] = "extract"] /\ InspectExec(j)
           /\ UNCHANGED <<last, ended, removals>>
  <2>1. RunnerTypes'
    BY <1>2 DEF RunnerIInv, RunnerTypes, InspectExec
  <2>2. ASSUME NEW i \in Job, i # j PROVE JobInv(i)'
    <3>1. Untouched(i)
      BY <1>2, <2>2 DEF Untouched, InspectExec, RunnerIInv, RunnerTypes
    <3> QED
      BY <3>1, OthersKeep
  <2>3. JobInv(j)'
    BY <1>1, <1>2 DEF InspectExec, RunnerIInv, RunnerTypes, JobInv, SentInv, RemovalsInv,
       ContainerInv, HasStatus, Removed
  <2> QED
    BY <1>2, <2>1, <2>2, <2>3 DEF InspectExec, Promised, Asked, RunnerIInv
<1>3. CASE /\ Finally(j) /\ pc[j] \in {"exec", "extract"}
           /\ \/ container[j] # "gone" /\ last' = [last EXCEPT ![j] = "success"]
              \/ last' = Failed(j)
           /\ UNCHANGED <<script, container, registered, cancelVars>>
  <2>1. Ends(j)
    BY <1>3, FinallyEnds
  <2>2. PICK s \in {"running", "success", "failure", "cancelled"} :
          /\ last' = [last EXCEPT ![j] = s]
          /\ \/ s = "success" /\ container[j] # "gone"
             \/ s = "failure" /\ j \notin jobsToCancel
             \/ s = last[j] /\ j \in jobsToCancel
    <3>1. CASE last' = [last EXCEPT ![j] = "success"] /\ container[j] # "gone"
      BY <3>1
    <3>2. CASE last' = Failed(j) /\ j \notin jobsToCancel
      BY <3>2 DEF Failed, IsCancelled
    <3>3. CASE last' = Failed(j) /\ j \in jobsToCancel
      <4>1. last[j] \in {"running", "cancelled"} /\ last' = last
        BY <1>1, <1>3, <3>3 DEF Failed, IsCancelled, JobInv, SentInv
      <4>2. last' = [last EXCEPT ![j] = last[j]]
        BY <4>1 DEF RunnerIInv, RunnerTypes
      <4> QED
        BY <3>3, <4>1, <4>2
    <3> QED
      BY <1>3, <3>1, <3>2, <3>3
  <2>3. RunnerIInv'
    BY <1>1, <1>3, <2>1, <2>2, EndKeeps DEF JobInv, SentInv
  <2>4. Promised
    <3>1. CASE s = last[j] /\ j \in jobsToCancel
      <4>1. Reports!EndStopped(j)
        BY <1>1, <1>3, <2>1, <2>2, <3>1
           DEF Ends, JobInv, SentInv, Reports!EndStopped, RunnerIInv, RunnerTypes
      <4> QED
        BY <4>1 DEF Promised
    <3>2. CASE s # last[j] \/ j \notin jobsToCancel
      <4>1. j \notin ended /\ ended' = ended \cup {j} /\ stops' = stops
        BY <1>1, <1>3, <2>1 DEF Ends, JobInv, SentInv
      <4>2. \/ last[j] = "running" /\ s \in {"success", "failure"}
            \/ last[j] = "cancelled" /\ s = "failure" /\ container[j] = "gone"
               /\ j \notin jobsToCancel
        BY <1>1, <1>3, <2>2, <3>2 DEF JobInv, SentInv
      <4>3. last[j] = "cancelled" /\ j \notin jobsToCancel => j \in SlowStream
        BY <1>1, <1>3 DEF JobInv, SentInv
      <4>4. Reports!Finish(j)
        BY <2>2, <4>1, <4>2, <4>3 DEF Reports!Finish, Reports!Send
      <4> QED
        BY <4>4 DEF Promised
    <3> QED
      BY <3>1, <3>2
  <2> QED
    BY <2>3, <2>4
<1> QED
  BY <1>2, <1>3 DEF InspectExec, GetFileFromContainer, GetFileFails

-----------------------------------------------------------------------------
(* Cancellation, removals and clean-ups.                                   *)

LEMMA StopMessageStep ==
  ASSUME RunnerIInv, NEW j \in Job, RegisterJobForCancellation(j)
  PROVE  RunnerIInv' /\ Promised
<1> USE DEF execVars
<1>1. JobInv(j)
  BY DEF RunnerIInv
<1> DEFINE call == Call(j, ByStop(stops[j] + 1))
<1>2. call \in Removal /\ call.job = j /\ call.by # ByExecJob /\ call.at = "stop"
  BY CallFacts DEF ByStop, ByExecJob, RunnerIInv, RunnerTypes
<1>3. /\ removals' = IF j \in registered THEN removals \cup {call} ELSE removals
      /\ stops' = [stops EXCEPT ![j] = @ + 1]
      /\ jobsToCancel' = jobsToCancel \cup {j}
      /\ UNCHANGED <<pc, script, last, ended, container, registered>>
  BY DEF RegisterJobForCancellation
<1> HIDE DEF call
<1>4. RunnerTypes'
  BY <1>2, <1>3 DEF RunnerIInv, RunnerTypes
<1>5. ASSUME NEW i \in Job, i # j PROVE JobInv(i)'
  <2>1. Untouched(i)
    BY <1>2, <1>3, <1>5 DEF Untouched, RunnerIInv, RunnerTypes
  <2> QED
    BY <2>1, OthersKeep
<1>6. JobInv(j)'
  <2>1. stops'[j] = stops[j] + 1 /\ stops[j] \in Nat
    BY <1>3 DEF RunnerIInv, RunnerTypes
  <2>2. SentInv(j)'
    BY <1>1, <1>3, <2>1 DEF JobInv, SentInv
  <2>3. RemovalsInv(j)'
    BY <1>1, <1>2, <1>3, <2>1 DEF JobInv, RemovalsInv, HasStatus
  <2>4. ASSUME j \notin DockerFails PROVE ContainerInv(j)'
    BY <1>1, <1>2, <1>3, <2>4 DEF JobInv, ContainerInv, HasStatus, Removed
  <2> QED
    BY <2>2, <2>3, <2>4 DEF JobInv
<1>7. Asked' = Asked \cup {j}
  BY <1>3 DEF Asked, RunnerIInv, RunnerTypes
<1>8. Reports!Ask(j)
  BY <1>3, <1>7 DEF Reports!Ask, Asked
<1> QED
  BY <1>4, <1>5, <1>6, <1>8 DEF RunnerIInv, Promised

LEMMA ForgetStep ==
  ASSUME RunnerIInv, NEW j \in Job, UnregisterFromCancellation(j)
  PROVE  RunnerIInv' /\ Promised
<1> USE DEF execVars, dockerVars
<1>1. JobInv(j)
  BY DEF RunnerIInv
<1>2. RunnerTypes'
  BY DEF RunnerIInv, RunnerTypes, UnregisterFromCancellation
<1>3. ASSUME NEW i \in Job, i # j PROVE JobInv(i)'
  <2>1. Untouched(i)
    BY <1>3 DEF Untouched, UnregisterFromCancellation
  <2> QED
    BY <2>1, OthersKeep
<1>4. JobInv(j)'
  BY <1>1 DEF UnregisterFromCancellation, JobInv, SentInv, RemovalsInv, ContainerInv, HasStatus,
     Removed
<1> QED
  BY <1>2, <1>3, <1>4 DEF UnregisterFromCancellation, Promised, Asked, RunnerIInv

LEMMA MovedOn ==
  ASSUME RunnerTypes, NEW m \in removals, NEW at \in {"wait", "remove"}
  PROVE  /\ [m EXCEPT !.at = at] \in Removal /\ m \in Removal /\ m.job \in Job
         /\ [m EXCEPT !.at = at].job = m.job /\ [m EXCEPT !.at = at].by = m.by
         /\ [m EXCEPT !.at = at].at = at
BY DEF RunnerTypes, Removal

LEMMA RemovalSteps ==
  ASSUME RunnerIInv, NEW m \in removals, StopContainer(m) \/ WaitForContainer(m)
  PROVE  RunnerIInv' /\ Promised
<1> USE DEF execVars, cancelVars
<1> DEFINE j == m.job
<1>1. PICK at \in {"wait", "remove"} :
        /\ removals' = (removals \ {m}) \cup {[m EXCEPT !.at = at]}
        /\ container' = [container EXCEPT ![j] = "stopped"]
        /\ UNCHANGED <<pc, last, ended, jobsToCancel, stops, registered>>
        /\ container[j] \in {"running", "stopped"}
  BY DEF StopContainer, WaitForContainer, Next3, RunnerIInv, RunnerTypes
<1>2. /\ [m EXCEPT !.at = at] \in Removal /\ j \in Job
      /\ [m EXCEPT !.at = at].job = j /\ [m EXCEPT !.at = at].by = m.by
      /\ [m EXCEPT !.at = at].at = at
  BY MovedOn DEF RunnerIInv
<1>3. JobInv(j)
  BY <1>2 DEF RunnerIInv
<1>4. RunnerTypes'
  BY <1>1, <1>2 DEF RunnerIInv, RunnerTypes, StopContainer, WaitForContainer
<1>5. ASSUME NEW i \in Job, i # j PROVE JobInv(i)'
  <2>1. Untouched(i)
    BY <1>1, <1>2, <1>5 DEF Untouched, RunnerIInv, RunnerTypes
  <2> QED
    BY <2>1, OthersKeep
<1>6. JobInv(j)'
  <2>1. container'[j] = "stopped"
    BY <1>1, <1>2 DEF RunnerIInv, RunnerTypes
  <2>2. SentInv(j)'
    BY <1>1, <1>3, <2>1 DEF JobInv, SentInv
  <2>3. RemovalsInv(j)'
    BY <1>1, <1>2, <1>3 DEF JobInv, RemovalsInv, HasStatus
  <2>4. ASSUME j \notin DockerFails PROVE ContainerInv(j)'
    BY <1>1, <1>2, <1>3, <2>1 DEF JobInv, ContainerInv, HasStatus, Removed
  <2> QED
    BY <2>2, <2>3, <2>4 DEF JobInv
<1> QED
  BY <1>1, <1>4, <1>5, <1>6 DEF Promised, Asked, RunnerIInv

\* The container is gone; unless execJob has asked for it, the job is reported
\* as cancelled, which it was.
LEMMA RemoveStep ==
  ASSUME RunnerIInv, NEW m \in removals, RemoveContainer(m)
  PROVE  RunnerIInv' /\ Promised
<1> DEFINE j == m.job
<1>1. /\ container' = [container EXCEPT ![j] = "gone"]
      /\ container[j] = "stopped"
      /\ removals' = removals \ {m}
      /\ last' = IF m.by = ByExecJob THEN last ELSE [last EXCEPT ![j] = "cancelled"]
      /\ UNCHANGED <<pc, script, ended, jobsToCancel, stops, registered>>
  BY DEF RemoveContainer
<1>2. j \in Job
  BY DEF RunnerIInv, RunnerTypes, Removal
<1>3. JobInv(j)
  BY <1>2 DEF RunnerIInv
<1>4. RunnerTypes'
  BY <1>1 DEF RunnerIInv, RunnerTypes
<1>5. ASSUME NEW i \in Job, i # j PROVE JobInv(i)'
  <2>1. Untouched(i)
    BY <1>1, <1>5 DEF Untouched, RunnerIInv, RunnerTypes
  <2> QED
    BY <2>1, OthersKeep
<1>6. JobInv(j)'
  <2>1. /\ container'[j] = "gone"
        /\ last'[j] = IF m.by = ByExecJob THEN last[j] ELSE "cancelled"
    BY <1>1, <1>2 DEF RunnerIInv, RunnerTypes
  <2>2. /\ m.by = ByExecJob => pc[j] = "done" /\ HasStatus(j)
        /\ m.by # ByExecJob => stops[j] > 0 /\ pc[j] \in {"exec", "extract", "done"}
    BY <1>3 DEF JobInv, RemovalsInv
  <2>3. SentInv(j)'
    BY <1>1, <1>3, <2>1, <2>2 DEF JobInv, SentInv
  <2>4. RemovalsInv(j)'
    BY <1>1, <1>3, <2>1 DEF JobInv, RemovalsInv, HasStatus
  <2>5. ASSUME j \notin DockerFails PROVE ContainerInv(j)'
    BY <1>1, <1>3, <2>1, <2>2 DEF JobInv, ContainerInv, HasStatus, Removed
  <2> QED
    BY <2>3, <2>4, <2>5 DEF JobInv
<1>7. Promised
  <2>1. CASE m.by = ByExecJob
    BY <1>1, <2>1 DEF Promised, Asked
  <2>2. CASE m.by # ByExecJob
    <3>1. stops[j] > 0
      BY <1>3, <2>2 DEF JobInv, RemovalsInv
    <3>2. Reports!Cancel(j)
      BY <1>1, <1>2, <2>2, <3>1 DEF Reports!Cancel, Reports!Send
    <3> QED
      BY <1>2, <3>2 DEF Promised
  <2> QED
    BY <2>1, <2>2
<1> QED
  BY <1>4, <1>5, <1>6, <1>7 DEF RunnerIInv

\* A removal fails when another has been faster, or Docker fails.
LEMMA RemovalFailsStep ==
  ASSUME RunnerIInv, NEW m \in removals, RemovalFails(m)
  PROVE  RunnerIInv' /\ Promised
<1> USE DEF execVars, cancelVars
<1> DEFINE j == m.job
<1>1. /\ removals' = removals \ {m}
      /\ UNCHANGED <<pc, script, last, ended, jobsToCancel, stops, container, registered>>
  BY DEF RemovalFails
<1>2. j \in Job /\ m.at \in {"stop", "wait", "remove"}
  BY DEF RunnerIInv, RunnerTypes, Removal
<1>3. JobInv(j)
  BY <1>2 DEF RunnerIInv
<1>4. RunnerTypes'
  BY <1>1 DEF RunnerIInv, RunnerTypes
<1>5. ASSUME NEW i \in Job, i # j PROVE JobInv(i)'
  <2>1. Untouched(i)
    BY <1>1, <1>5 DEF Untouched
  <2> QED
    BY <2>1, OthersKeep
<1>6. JobInv(j)'
  <2>1. SentInv(j)' /\ RemovalsInv(j)'
    BY <1>1, <1>3 DEF JobInv, SentInv, RemovalsInv, HasStatus
  <2>2. ASSUME j \notin DockerFails PROVE ContainerInv(j)'
    BY <1>1, <1>2, <1>3, <2>2 DEF RemovalFails, JobInv, ContainerInv, HasStatus, Removed
  <2> QED
    BY <2>1, <2>2 DEF JobInv
<1> QED
  BY <1>1, <1>4, <1>5, <1>6 DEF Promised, Asked, RunnerIInv

\* The clean-up asks Docker, and changes nothing of a job.
LEMMA ElsewhereStep ==
  ASSUME RunnerIInv, UNCHANGED <<execVars, cancelVars, dockerVars>>
  PROVE  RunnerIInv' /\ Promised
<1> USE DEF execVars, cancelVars, dockerVars
<1>1. RunnerTypes'
  BY DEF RunnerIInv, RunnerTypes
<1>2. ASSUME NEW j \in Job PROVE JobInv(j)'
  <2>1. Untouched(j)
    BY DEF Untouched
  <2> QED
    BY <2>1, OthersKeep
<1> QED
  BY <1>1, <1>2 DEF RunnerIInv, Promised, Asked

LEMMA RunnerStep == ASSUME RunnerIInv, [Next]_vars PROVE RunnerIInv' /\ Promised
<1>1. ASSUME NEW j \in Job, ExecStep(j) PROVE RunnerIInv' /\ Promised
  BY <1>1, StartStep, VolumeStep, CreateStep, CreateFailsStep, ResultStep DEF ExecStep
<1>2. CASE RemovalStep
  BY <1>2, RemovalSteps, RemoveStep, RemovalFailsStep DEF RemovalStep
<1>3. CASE CancelStep
  BY <1>3, StopMessageStep, ForgetStep DEF CancelStep
<1>4. CASE CleanupWorkspace \/ CleanupStep \/ UNCHANGED vars
  BY <1>4, ElsewhereStep DEF CleanupWorkspace, CleanupStep, ListContainersThatUseVolume,
     WaitForContainersToBeRemoved, WaitForContainersTimeout, RemoveVolume, vars
<1> QED
  BY <1>1, <1>2, <1>3, <1>4 DEF Next

LEMMA RunnerIInvAlways == Spec => []RunnerIInv
BY RunnerInit, RunnerStep, PTL DEF Spec

-----------------------------------------------------------------------------
\* The runner keeps the promise of JobReports (execJob, cancelJob): one result
\* for each job, `cancelled` only for what the server asked to stop, and
\* nothing after it unless the script ends late.
THEOREM ReportsRefinement == Spec => ImplementsReports
<1>1. Init => Reports!Init
  BY RunnerInit
<1>2. RunnerIInv /\ [Next]_vars
        => [Reports!Next]_(<<{j \in Job : stops[j] > 0}, last, ended>>)
  <2>1. Promised => Reports!Next \/ UNCHANGED <<Asked, last, ended>>
    BY DEF Promised, Reports!Next
  <2> QED
    BY <2>1, RunnerStep DEF Asked
<1> QED
  BY <1>1, <1>2, RunnerIInvAlways, PTL
     DEF Spec, ImplementsReports, Reports!Spec, Reports!reports

\* As long as Docker does what it is asked, no container is left when execJob
\* and the removals of its job are done (removeContainer).
THEOREM NoContainerLeftHolds == Spec => []NoContainerLeft
<1>1. RunnerIInv => NoContainerLeft
  BY DEF RunnerIInv, RunnerTypes, JobInv, ContainerInv, SentInv, Removed, NoContainerLeft, Settled
<1> QED
  BY <1>1, RunnerIInvAlways, PTL

\* Nor is a job that has ended without a status: a failure that was kept back
\* because of a cancellation is made up for by `cancelled` (cancelJob).
THEOREM EndedHasStatusHolds == Spec => []EndedHasStatus
<1>1. RunnerIInv => EndedHasStatus
  <2> SUFFICES ASSUME RunnerIInv, NEW j \in ended \ DockerFails, Settled(j)
               PROVE  HasStatus(j)
    BY DEF EndedHasStatus, HasStatus
  <2> QED
    BY DEF RunnerIInv, RunnerTypes, JobInv, ContainerInv, SentInv, Removed, HasStatus, Settled
<1> QED
  BY <1>1, RunnerIInvAlways, PTL

\* What the types add to RunnerTypes: the containers that are known, the jobs
\* to forget, and the clean-up.
RestTypes ==
  /\ registered \subseteq Job /\ timer \subseteq jobsToCancel /\ jobsToCancel \subseteq Job
  /\ workspace \in BOOLEAN
  /\ cleanup \in {"none", "list", "listed", "wait", "timed out", "kept", "removed"}
  /\ awaited \subseteq Job
  /\ cleanups \in 0..MaxCleanups

LEMMA OneMoreCleanup ==
  ASSUME NEW n \in 0..MaxCleanups, n < MaxCleanups PROVE n + 1 \in 0..MaxCleanups
BY RunnerAssumption DEF RunnerAssumption

LEMMA RestTypesStep == ASSUME RunnerTypes, RestTypes, [Next]_vars PROVE RestTypes'
<1> USE DEF RestTypes, execVars, cancelVars, dockerVars, cleanupVars
<1>1. ASSUME NEW j \in Job, ExecStep(j) PROVE RestTypes'
  BY <1>1 DEF ExecStep, Start, CreateVolume, CreateVolumeFails, CreateContainer, StartContainer,
     CreateContainerFails, ScriptEnds, InspectExec, GetFileFromContainer, GetFileFails
<1>2. CASE RemovalStep
  BY <1>2 DEF RemovalStep, StopContainer, WaitForContainer, RemoveContainer, RemovalFails
<1>3. CASE CancelStep
  BY <1>3 DEF CancelStep, RegisterJobForCancellation, UnregisterFromCancellation
<1>4. CASE CleanupWorkspace
  <2>1. /\ cleanup' = "list" /\ cleanups < MaxCleanups /\ cleanups' = cleanups + 1
        /\ UNCHANGED <<registered, timer, jobsToCancel, workspace, awaited>>
    BY <1>4, Zenon DEF CleanupWorkspace
  <2>2. cleanups + 1 \in 0..MaxCleanups
    BY <2>1, OneMoreCleanup, Zenon
  <2> QED
    BY <2>1, <2>2, Zenon
<1>5. CASE CleanupStep
  BY <1>5 DEF CleanupStep, ListContainersThatUseVolume, WaitForContainersToBeRemoved,
     WaitForContainersTimeout, RemoveVolume
<1>6. CASE UNCHANGED vars
  BY <1>6 DEF vars
<1> QED
  BY <1>1, <1>2, <1>3, <1>4, <1>5, <1>6 DEF Next

\* All of the state invariant of a runner: the variables are well typed, no
\* container stays, and no ended job is without a status.
THEOREM RunnerInvHolds == Spec => []RunnerInv
<1>1. Init => RestTypes
  <2>1. Init => cleanups \in 0..MaxCleanups
    BY RunnerAssumption DEF RunnerAssumption, Init
  <2> QED
    BY <2>1 DEF Init, RestTypes
<1>2. RunnerTypes /\ RestTypes /\ [Next]_vars => RestTypes'
  BY RestTypesStep
<1>3. RunnerIInv => RunnerTypes
  BY DEF RunnerIInv
<1>4. RunnerTypes /\ RestTypes => TypeOK
  BY DEF RunnerTypes, RestTypes, TypeOK
<1>5. Spec => []RestTypes
  BY <1>1, <1>2, <1>3, RunnerIInvAlways, PTL DEF Spec
<1> QED
  BY <1>3, <1>4, <1>5, RunnerIInvAlways, NoContainerLeftHolds, EndedHasStatusHolds, PTL
     DEF RunnerInv
=============================================================================
