--------------------------- MODULE JobQueueProofs ---------------------------
(***************************************************************************)
(* Proofs about JobQueue, for every set of jobs and runners, every number  *)
(* of requests in flight and every pattern of time-outs, crashes and       *)
(* reconnections.                                                          *)
(***************************************************************************)
EXTENDS JobQueue, FiniteSetTheorems, TLAPS

LEMMA SocketFacts ==
  ASSUME NEW s \in Socket
  PROVE  s # NoSocket /\ s[1] \in Runner
BY NamesAssumption DEF Socket, NoSocket

LEMMA HolderOf ==
  ASSUME TypeOK, NEW j \in Job
  PROVE  /\ (runnerId[j] = NoSocket) <=> (Holder[j] = Nobody)
         /\ Holder[j] \in Runner \cup {Nobody}
BY SocketFacts, NamesAssumption DEF TypeOK, Holder, NoSocket

-----------------------------------------------------------------------------
(* The invariant.                                                          *)

\* The initial states have no requests, locks or executions.
LEMMA QInit == Init => QueueInv
<1> SUFFICES ASSUME Init PROVE QueueInv
  OBVIOUS
<1>1. TypeOK
  BY QueueAssumption DEF Init, TypeOK, Idle, Request
<1>2. ChosenInv /\ AnswerInv /\ AnswerOnceInv /\ BegunInv
  BY DEF Init, ChosenInv, AnswerInv, AnswerOnceInv, BegunInv, Carries, Idle
<1>3. CountInv
  BY FS_EmptySet DEF Init, CountInv, CountExact
<1> QED
  BY <1>1, <1>2, <1>3 DEF QueueInv

LEMMA PullsType ==
  ASSUME TypeOK, NEW r \in Runner, NEW n, NEW x \in Pulls(r, n)
  PROVE  /\ x \in [Pull -> Request \cup {Idle}]
         /\ \A p \in Pull : x[p] = pull[p] \/ (x[p].pc = "sent" /\ x[p].job = NoJob)
<1>1. SocketOf(r) \in Socket
  BY DEF TypeOK, SocketOf, Socket
<1>2. CASE x = pull
  BY <1>2 DEF TypeOK
<1>3. CASE \E p \in Pull : x = [pull EXCEPT ![p] =
              [pc |-> "sent", socket |-> SocketOf(r), job |-> NoJob, waiting |-> TRUE]]
  BY <1>1, <1>3 DEF TypeOK, Request
<1> QED
  BY <1>2, <1>3 DEF Pulls

\* Every step keeps the types.
LEMMA TypeStep == ASSUME TypeOK, ChosenInv, CountInv, [Next]_vars PROVE TypeOK'
<1> USE DEF TypeOK, jobVars, socketVars, runVars
<1>1. ASSUME NEW j \in Job, BecomeAvailable(j) PROVE TypeOK'
  BY <1>1 DEF BecomeAvailable
<1>2. ASSUME NEW j \in Job, CancelNonRunningJob(j) PROVE TypeOK'
  BY <1>2 DEF CancelNonRunningJob
<1>3. ASSUME NEW S \in Pipelines, CancelPipeline(S) PROVE TypeOK'
  BY <1>3, QueueAssumption DEF CancelPipeline
<1>4. ASSUME NEW p \in Pull, ListAvailableJobs(p) PROVE TypeOK'
  BY <1>4 DEF ListAvailableJobs, FirstJobs, AvailableJobs, Request, Idle
<1>5. ASSUME NEW p \in Pull, LockJob(p) PROVE TypeOK'
  <2>1. pull[p] \in Request
    BY <1>5 DEF LockJob, Idle
  <2>2. pull[p].job \in Job /\ pull[p].socket \in Socket
    BY <1>5, <2>1 DEF LockJob, Request, ChosenInv
  <2>3. /\ [pull[p] EXCEPT !.pc = "answered"] \in Request
        /\ [pull[p] EXCEPT !.pc = "answered", !.job = NoJob] \in Request
    BY <2>1 DEF Request
  <2> QED
    BY <1>5, <2>2, <2>3 DEF LockJob
<1>6. ASSUME NEW p \in Pull, ReceiveAnswer(p) PROVE TypeOK'
  <2>1. pull[p] \in Request
    BY <1>6 DEF ReceiveAnswer, Idle
  <2>2. pull[p].socket[1] \in Runner /\ pull[p].job \in Job \cup {NoJob}
    BY <2>1, SocketFacts DEF Request
  <2> QED
    BY <1>6, <2>2 DEF ReceiveAnswer
<1>7. ASSUME NEW p \in Pull, LoseAnswer(p) PROVE TypeOK'
  BY <1>7 DEF LoseAnswer
<1>8. ASSUME NEW r \in Runner, PullJob(r) PROVE TypeOK'
  BY <1>8, PullsType DEF PullJob
<1>9. ASSUME NEW r \in Runner, Disconnect(r) PROVE TypeOK'
  BY <1>9 DEF Disconnect
<1>10. ASSUME NEW r \in Runner, Crash(r) PROVE TypeOK'
  BY <1>10 DEF Crash
<1>11. ASSUME NEW r \in Runner, Reconnect(r) PROVE TypeOK'
  <2>1. session[r] + 1 \in 1..MaxSessions
    BY <1>11, QueueAssumption DEF Reconnect
  <2> QED
    BY <1>11, <2>1 DEF Reconnect
<1>12. ASSUME NEW r \in Runner, NEW j \in Job, EndJob(r, j) PROVE TypeOK'
  <2>1. runningJobs[r] - 1 \in Nat
    <3>1. IsFiniteSet(executing[r]) /\ runningJobs[r] = Cardinality(executing[r])
      BY DEF CountInv, CountExact
    <3>2. Cardinality(executing[r]) # 0
      BY <1>12, <3>1, FS_EmptySet DEF EndJob
    <3> QED
      BY <3>1, <3>2, FS_CardinalityType
  <2>2. pull' \in [Pull -> Request \cup {Idle}]
    BY <1>12, PullsType DEF EndJob
  <2> QED
    BY <1>12, <2>1, <2>2 DEF EndJob
<1>13. ASSUME NEW p \in Pull, PullTimeout(p) PROVE TypeOK'
  <2>1. pull[p] \in Request
    BY <1>13 DEF PullTimeout, Idle
  <2>2. [pull[p] EXCEPT !.waiting = FALSE] \in Request
    BY <2>1 DEF Request
  <2> QED
    BY <1>13, <2>2 DEF PullTimeout
<1>14. ASSUME NEW j \in Job, CleanJob(j) PROVE TypeOK'
  BY <1>14 DEF CleanJob
<1>15. CASE UNCHANGED vars
  BY <1>15 DEF vars
<1> QED
  BY <1>1, <1>2, <1>3, <1>4, <1>5, <1>6, <1>7, <1>8, <1>9, <1>10, <1>11, <1>12,
     <1>13, <1>14, <1>15
  DEF Next, EnvironmentStep, RequestStep, RunnerStep, Cleaning

-----------------------------------------------------------------------------
(* The steps that move a job, one lemma each, and the other steps.         *)

HoldInv == ChosenInv /\ AnswerInv /\ AnswerOnceInv /\ BegunInv

\* A step that takes no lock, begins no execution and carries no job further.
LEMMA QuietStep ==
  ASSUME TypeOK, HoldInv, UNCHANGED runnerId,
         \A r \in Runner : executing'[r] \cup left'[r] = executing[r] \cup left[r],
         \A p \in Pull :
           \/ pull'[p].pc = pull[p].pc /\ pull'[p].job = pull[p].job
                /\ pull'[p].socket = pull[p].socket
           \/ pull'[p].pc = "idle"
           \/ pull'[p].pc = "lock" /\ pull'[p].job \in Job
           \/ pull'[p].pc \in {"sent", "answered"} /\ pull'[p].job = NoJob
  PROVE  HoldInv'
<1> USE NamesAssumption DEF HoldInv
<1>1. \A p \in Pull, j \in Job : Carries(p, j)' =>
        Carries(p, j) /\ pull'[p].socket = pull[p].socket
  BY DEF Carries
<1>2. ChosenInv'
  BY DEF ChosenInv
<1>3. AnswerInv'
  BY <1>1 DEF AnswerInv
<1>4. AnswerOnceInv'
  BY <1>1 DEF AnswerOnceInv
<1>5. BegunInv'
  BY DEF BegunInv
<1> QED
  BY <1>2, <1>3, <1>4, <1>5

\* lockJob: the request gets a job nobody else has.
LEMMA LockStep ==
  ASSUME TypeOK, HoldInv, NEW p \in Pull, LockJob(p) PROVE HoldInv'
<1> DEFINE j == pull[p].job
<1>1. pull[p] \in Request /\ j \in Job /\ pull[p].socket \in Socket
  BY DEF LockJob, HoldInv, ChosenInv, TypeOK, Request, Idle
<1>2. CASE ~Lockable(j)
  <2>1. /\ pull' = [pull EXCEPT ![p].pc = "answered", ![p].job = NoJob]
        /\ UNCHANGED <<runnerId, runVars>>
    BY <1>2 DEF LockJob
  <2>2. pull'[p].pc = "answered" /\ pull'[p].job = NoJob
    BY <1>1, <2>1 DEF TypeOK, Request
  <2>3. \A q \in Pull \ {p} : pull'[q] = pull[q]
    BY <2>1 DEF TypeOK
  <2> QED
    BY <2>1, <2>2, <2>3, QuietStep DEF runVars
<1>3. CASE Lockable(j)
  <2>1. /\ runnerId' = [runnerId EXCEPT ![j] = pull[p].socket]
        /\ pull' = [pull EXCEPT ![p].pc = "answered"]
        /\ UNCHANGED runVars
        /\ runnerId[j] = NoSocket
    BY <1>3 DEF LockJob, Lockable
  <2>2. pull'[p].pc = "answered" /\ pull'[p].job = j
        /\ pull'[p].socket = pull[p].socket
    BY <1>1, <2>1 DEF TypeOK, Request
  <2>3. \A q \in Pull \ {p} : pull'[q] = pull[q]
    BY <2>1 DEF TypeOK
  <2>4. \A q \in Pull : ~Carries(q, j)
    <3>1. SUFFICES ASSUME NEW q \in Pull, Carries(q, j) PROVE FALSE
      OBVIOUS
    <3>2. pull[q].socket = NoSocket
      BY <1>1, <2>1, <3>1 DEF HoldInv, AnswerInv
    <3>3. pull[q].socket \in Socket
      BY <3>1 DEF Carries, TypeOK, Request, Idle
    <3> QED
      BY <3>2, <3>3, SocketFacts
  <2>5. \A r \in Runner : j \notin executing[r] \cup left[r]
    BY <1>1, <2>1 DEF HoldInv, BegunInv
  <2>6. \A i \in Job \ {j} : runnerId'[i] = runnerId[i]
    BY <2>1 DEF TypeOK
  <2>7. runnerId'[j] = pull[p].socket
    BY <1>1, <2>1 DEF TypeOK
  <2>8. ChosenInv'
    BY <2>2, <2>3 DEF HoldInv, ChosenInv
  <2>9. \A q \in Pull, i \in Job :
          Carries(q, i)' => (q = p /\ i = j) \/ (q # p /\ i # j /\ Carries(q, i))
    BY <2>2, <2>3, <2>4 DEF Carries
  <2>10. AnswerInv'
    BY <2>1, <2>2, <2>3, <2>5, <2>6, <2>7, <2>9 DEF HoldInv, AnswerInv, runVars
  <2>11. AnswerOnceInv'
    BY <2>9 DEF HoldInv, AnswerOnceInv
  <2>12. BegunInv'
    BY <2>1, <2>5, <2>6 DEF HoldInv, BegunInv, runVars
  <2> QED
    BY <2>8, <2>10, <2>11, <2>12 DEF HoldInv
<1> QED
  BY <1>2, <1>3

\* The answer is taken, or not: either way the request no longer carries it.
LEMMA ReceiveStep ==
  ASSUME TypeOK, HoldInv, NEW p \in Pull, ReceiveAnswer(p) PROVE HoldInv'
<1> DEFINE j == pull[p].job
           r == pull[p].socket[1]
<1>1. pull[p] \in Request /\ pull[p].socket \in Socket
  BY DEF ReceiveAnswer, TypeOK, Request, Idle
<1>2. /\ pull' = [pull EXCEPT ![p] = Idle] /\ pull[p].pc = "answered"
      /\ UNCHANGED <<runnerId, left>>
  BY DEF ReceiveAnswer, jobVars
<1>3. CASE ~(pull[p].waiting /\ j # NoJob)
  <2>1. UNCHANGED executing
    BY <1>3 DEF ReceiveAnswer
  <2> QED
    BY <1>2, <2>1, QuietStep DEF TypeOK, Idle
<1>4. CASE pull[p].waiting /\ j # NoJob
  <2>1. j \in Job /\ Carries(p, j)
    BY <1>1, <1>2, <1>4 DEF Request, Carries
  <2>2. /\ r \in Runner /\ pull[p].socket # NoSocket
        /\ executing' = [executing EXCEPT ![r] = @ \cup {j}]
    BY <1>1, <1>4, SocketFacts DEF ReceiveAnswer
  <2>3. runnerId[j] = pull[p].socket
    BY <2>1 DEF HoldInv, AnswerInv
  <2>4. \A s \in Runner, i \in Job : i \in executing'[s] \cup left'[s] =>
          (s = r /\ i = j) \/ i \in executing[s] \cup left[s]
    BY <1>2, <2>2 DEF TypeOK
  <2>5. \A q \in Pull, i \in Job : Carries(q, i)' => Carries(q, i) /\ q # p
                                       /\ pull'[q] = pull[q]
    BY <1>2 DEF Carries, TypeOK, Idle
  <2>6. \A q \in Pull, i \in Job : Carries(q, i)' => i # j
    BY <2>1, <2>5 DEF HoldInv, AnswerOnceInv
  <2>7. AnswerInv'
    BY <1>2, <2>4, <2>5, <2>6 DEF HoldInv, AnswerInv
  <2>8. AnswerOnceInv'
    BY <2>5 DEF HoldInv, AnswerOnceInv
  <2>9. BegunInv'
    BY <1>2, <2>2, <2>3, <2>4 DEF HoldInv, BegunInv
  <2>10. ChosenInv'
    BY <1>2 DEF HoldInv, ChosenInv, TypeOK, Idle
  <2> QED
    BY <2>7, <2>8, <2>9, <2>10 DEF HoldInv
<1> QED
  BY <1>3, <1>4

LEMMA HoldStep == ASSUME QueueInv, Next PROVE HoldInv'
<1> SUFFICES ASSUME TypeOK, HoldInv, Next PROVE HoldInv'
  BY DEF QueueInv, HoldInv
<1>1. ASSUME UNCHANGED <<runnerId, pull, executing, left>> PROVE HoldInv'
  BY <1>1, QuietStep
<1>2. ASSUME NEW j \in Job, BecomeAvailable(j) \/ CancelNonRunningJob(j) \/ CleanJob(j)
      PROVE  HoldInv'
  BY <1>1, <1>2 DEF BecomeAvailable, CancelNonRunningJob, CleanJob, runVars
<1>3. ASSUME NEW S \in Pipelines, CancelPipeline(S) PROVE HoldInv'
  BY <1>1, <1>3 DEF CancelPipeline, runVars
<1>4. ASSUME NEW p \in Pull, ListAvailableJobs(p) PROVE HoldInv'
  <2>1. pull[p] \in Request /\ pull[p].job = NoJob /\ UNCHANGED <<runnerId, runVars>>
    BY <1>4 DEF ListAvailableJobs, jobVars, HoldInv, ChosenInv, TypeOK, Idle
  <2>2. \/ pull' = [pull EXCEPT ![p].pc = "answered"]
        \/ \E j \in Job : pull' = [pull EXCEPT ![p].pc = "lock", ![p].job = j]
    BY <1>4 DEF ListAvailableJobs, FirstJobs, AvailableJobs
  <2>3. \/ pull'[p].pc = "answered" /\ pull'[p].job = NoJob
        \/ pull'[p].pc = "lock" /\ pull'[p].job \in Job
    BY <2>1, <2>2 DEF TypeOK, Request
  <2>4. \A q \in Pull \ {p} : pull'[q] = pull[q]
    BY <2>2 DEF TypeOK
  <2> QED
    BY <2>1, <2>3, <2>4, QuietStep DEF runVars
<1>5. ASSUME NEW p \in Pull, LockJob(p) PROVE HoldInv'
  BY <1>5, LockStep
<1>6. ASSUME NEW p \in Pull, ReceiveAnswer(p) PROVE HoldInv'
  BY <1>6, ReceiveStep
<1>7. ASSUME NEW p \in Pull, LoseAnswer(p) PROVE HoldInv'
  BY <1>7, QuietStep DEF LoseAnswer, jobVars, runVars, TypeOK, Idle
<1>8. ASSUME NEW r \in Runner, PullJob(r) PROVE HoldInv'
  BY <1>8, PullsType, QuietStep DEF PullJob, jobVars, runVars
<1>9. ASSUME NEW r \in Runner, Disconnect(r) \/ Reconnect(r) PROVE HoldInv'
  BY <1>1, <1>9 DEF Disconnect, Reconnect, jobVars, runVars
<1>10. ASSUME NEW r \in Runner, Crash(r) PROVE HoldInv'
  BY <1>10, QuietStep DEF Crash, jobVars, TypeOK
<1>11. ASSUME NEW r \in Runner, NEW j \in Job, EndJob(r, j) PROVE HoldInv'
  <2>1. \A s \in Runner : executing'[s] \cup left'[s] = executing[s] \cup left[s]
    BY <1>11 DEF EndJob, TypeOK
  <2>2. \A p \in Pull : pull'[p] = pull[p] \/ (pull'[p].pc = "sent" /\ pull'[p].job = NoJob)
    BY <1>11, PullsType DEF EndJob
  <2> QED
    BY <1>11, <2>1, <2>2, QuietStep DEF EndJob
<1>12. ASSUME NEW p \in Pull, PullTimeout(p) PROVE HoldInv'
  <2>1. pull[p] \in Request
    BY <1>12 DEF PullTimeout, Idle, TypeOK
  <2>2. \A q \in Pull : /\ pull'[q].pc = pull[q].pc /\ pull'[q].job = pull[q].job
                         /\ pull'[q].socket = pull[q].socket
    BY <1>12, <2>1 DEF PullTimeout, TypeOK, Request
  <2> QED
    BY <1>12, <2>2, QuietStep DEF PullTimeout, jobVars, runVars
<1> QED
  BY <1>2, <1>3, <1>4, <1>5, <1>6, <1>7, <1>8, <1>9, <1>10, <1>11, <1>12
  DEF Next, EnvironmentStep, RequestStep, RunnerStep, Cleaning

LEMMA AddOne ==
  ASSUME NEW E, NEW x, IsFiniteSet(E), x \notin E
  PROVE  IsFiniteSet(E \cup {x}) /\ Cardinality(E \cup {x}) = Cardinality(E) + 1
BY FS_AddElement

LEMMA RemoveOne ==
  ASSUME NEW E, NEW x, IsFiniteSet(E), x \in E
  PROVE  IsFiniteSet(E \ {x}) /\ Cardinality(E \ {x}) = Cardinality(E) - 1
BY FS_RemoveElement

\* A job is counted once when it starts and once when it ends.
LEMMA CountStep == ASSUME QueueInv, Next PROVE CountInv'
<1> USE DEF QueueInv, CountInv, CountExact, TypeOK
<1>1. ASSUME UNCHANGED <<runningJobs, executing>> PROVE CountInv'
  BY <1>1
<1>2. ASSUME NEW p \in Pull, ReceiveAnswer(p) PROVE CountInv'
  <2> DEFINE j == pull[p].job
             r == pull[p].socket[1]
  <2>1. CASE ~(pull[p].waiting /\ j # NoJob)
    BY <1>1, <1>2, <2>1 DEF ReceiveAnswer
  <2>2. CASE pull[p].waiting /\ j # NoJob
    <3>1. pull[p] \in Request /\ pull[p].pc = "answered"
      BY <1>2 DEF ReceiveAnswer, Idle
    <3>2. r \in Runner /\ j \in Job
      BY <2>2, <3>1, SocketFacts DEF Request
    <3>3. j \notin executing[r]
      BY <3>1, <3>2 DEF AnswerInv, Carries
    <3>4. /\ IsFiniteSet(executing[r] \cup {j})
          /\ Cardinality(executing[r] \cup {j}) = runningJobs[r] + 1
      <4>1. IsFiniteSet(executing[r]) /\ Cardinality(executing[r]) = runningJobs[r]
        BY <3>2
      <4> QED
        BY <3>3, <4>1, AddOne
    <3>5. /\ runningJobs' = [runningJobs EXCEPT ![r] = @ + 1]
          /\ executing' = [executing EXCEPT ![r] = @ \cup {j}]
      BY <1>2, <2>2 DEF ReceiveAnswer
    <3>6. runningJobs'[r] = Cardinality(executing'[r]) /\ IsFiniteSet(executing'[r])
      BY <3>2, <3>4, <3>5
    <3>7. \A s \in Runner \ {r} :
            runningJobs'[s] = runningJobs[s] /\ executing'[s] = executing[s]
      BY <3>5
    <3> QED
      BY <3>6, <3>7
  <2> QED
    BY <2>1, <2>2
<1>3. ASSUME NEW r \in Runner, Crash(r) PROVE CountInv'
  BY <1>3, FS_EmptySet DEF Crash
<1>4. ASSUME NEW r \in Runner, NEW j \in Job, EndJob(r, j) PROVE CountInv'
  <2>1. j \in executing[r] /\ IsFiniteSet(executing[r])
    BY <1>4 DEF EndJob
  <2>2. /\ IsFiniteSet(executing[r] \ {j})
        /\ Cardinality(executing[r] \ {j}) = runningJobs[r] - 1
    <3>1. Cardinality(executing[r]) = runningJobs[r]
      OBVIOUS
    <3> QED
      BY <2>1, <3>1, RemoveOne
  <2>3. runningJobs'[r] = Cardinality(executing'[r]) /\ IsFiniteSet(executing'[r])
    <3>1. executing'[r] = executing[r] \ {j} /\ runningJobs'[r] = runningJobs[r] - 1
      BY <1>4 DEF EndJob
    <3> QED
      BY <2>2, <3>1, Zenon
  <2>4. \A s \in Runner \ {r} :
          runningJobs'[s] = runningJobs[s] /\ executing'[s] = executing[s]
    BY <1>4 DEF EndJob
  <2> QED
    BY <2>3, <2>4
<1>5. ASSUME NEW j \in Job, BecomeAvailable(j) \/ CancelNonRunningJob(j) \/ CleanJob(j)
      PROVE  CountInv'
  BY <1>1, <1>5 DEF BecomeAvailable, CancelNonRunningJob, CleanJob, runVars
<1>6. ASSUME NEW S \in Pipelines, CancelPipeline(S) PROVE CountInv'
  BY <1>1, <1>6 DEF CancelPipeline, runVars
<1>7. ASSUME NEW p \in Pull, ListAvailableJobs(p) \/ LockJob(p) \/ LoseAnswer(p)
                             \/ PullTimeout(p)
      PROVE  CountInv'
  BY <1>1, <1>7 DEF ListAvailableJobs, LockJob, LoseAnswer, PullTimeout, runVars
<1>8. ASSUME NEW r \in Runner, PullJob(r) \/ Disconnect(r) \/ Reconnect(r)
      PROVE  CountInv'
  BY <1>1, <1>8 DEF PullJob, Disconnect, Reconnect, runVars
<1> QED
  BY <1>2, <1>3, <1>4, <1>5, <1>6, <1>7, <1>8
  DEF Next, EnvironmentStep, RequestStep, RunnerStep, Cleaning

LEMMA QStep == ASSUME QueueInv, [Next]_vars PROVE QueueInv'
<1>1. CASE Next
  BY <1>1, TypeStep, HoldStep, CountStep DEF QueueInv, HoldInv
<1>2. CASE UNCHANGED vars
  BY <1>2 DEF vars, jobVars, socketVars, runVars, QueueInv, TypeOK, ChosenInv, AnswerInv,
     AnswerOnceInv, BegunInv, Carries, CountInv, CountExact
<1> QED
  BY <1>1, <1>2

\* Whatever crosses, times out or crashes, requests, locks, executions and
\* counts agree (pullJob and lockJob of the server, pullJob of the runner).
THEOREM QueueInvariant == Spec => []QueueInv
BY QInit, QStep, PTL DEF Spec

\* The runner's count is exact (runningJobs++ and runningJobs--).
THEOREM CountExactHolds == Spec => []CountExact
<1>1. QueueInv => CountExact
  BY DEF QueueInv, CountInv
<1> QED
  BY <1>1, QueueInvariant, PTL

-----------------------------------------------------------------------------
(* The refinement.                                                         *)

LEMMA RefinementInit == Init => Assignment!Init
BY DEF Init, Assignment!Init, Holder, Begun, NoSocket

\* A step that changes neither locks, cancellations nor executions.
LEMMA Stutter ==
  ASSUME UNCHANGED <<runnerId, cancelledAt>>,
         \A r \in Runner : executing'[r] \cup left'[r] = executing[r] \cup left[r]
  PROVE  UNCHANGED <<Holder, cancelledAt, Begun>>
BY DEF Holder, Begun

LEMMA RefinementLock ==
  ASSUME QueueInv, NEW p \in Pull, LockJob(p)
  PROVE  [Assignment!Next]_(<<Holder, cancelledAt, Begun>>)
<1> DEFINE j == pull[p].job
           s == pull[p].socket
<1>1. j \in Job /\ s \in Socket
  BY DEF LockJob, QueueInv, ChosenInv, TypeOK, Request, Idle
<1>2. UNCHANGED <<cancelledAt, Begun>>
  BY DEF LockJob, runVars, Begun
<1>3. CASE ~Lockable(j)
  BY <1>2, <1>3 DEF LockJob, Holder
<1>4. CASE Lockable(j)
  <2>1. Holder[j] = Nobody /\ j \notin cancelledAt
    BY <1>1, <1>4 DEF Lockable, Holder, NoSocket
  <2>2. Holder' = [Holder EXCEPT ![j] = s[1]]
    BY <1>1, <1>4 DEF LockJob, Holder, QueueInv, TypeOK
  <2>3. Assignment!HandOut(j, s[1])
    BY <1>2, <2>1, <2>2 DEF Assignment!HandOut
  <2> QED
    BY <1>1, <2>3, SocketFacts DEF Assignment!Next
<1> QED
  BY <1>3, <1>4

LEMMA RefinementReceive ==
  ASSUME QueueInv, NEW p \in Pull, ReceiveAnswer(p)
  PROVE  [Assignment!Next]_(<<Holder, cancelledAt, Begun>>)
<1> DEFINE j == pull[p].job
           r == pull[p].socket[1]
<1>1. pull[p] \in Request /\ pull[p].pc = "answered"
  BY DEF ReceiveAnswer, QueueInv, TypeOK, Idle
<1>2. UNCHANGED <<Holder, cancelledAt>>
  BY DEF ReceiveAnswer, jobVars, Holder
<1>3. CASE ~(pull[p].waiting /\ j # NoJob)
  BY <1>3, Stutter DEF ReceiveAnswer, jobVars
<1>4. CASE pull[p].waiting /\ j # NoJob
  <2>1. r \in Runner /\ j \in Job
    BY <1>1, <1>4, SocketFacts DEF Request
  <2>2. Holder[j] = r
    BY <1>1, <2>1 DEF QueueInv, AnswerInv, Carries, Holder
  <2>3. \A s \in Runner : <<s, j>> \notin Begun
    BY <1>1, <2>1 DEF QueueInv, AnswerInv, Carries, Begun
  <2>4. Begun' = Begun \cup {<<r, j>>}
    <3>1. /\ executing' = [executing EXCEPT ![r] = @ \cup {j}]
          /\ UNCHANGED left
      BY <1>4 DEF ReceiveAnswer
    <3>2. \A s \in Runner, i \in Job : i \in executing'[s] \cup left'[s] <=>
            i \in executing[s] \cup left[s] \/ (s = r /\ i = j)
      BY <2>1, <3>1 DEF QueueInv, TypeOK
    <3> QED
      BY <2>1, <3>2 DEF Begun
  <2>5. Assignment!Begin(j, r)
    BY <1>2, <2>2, <2>3, <2>4 DEF Assignment!Begin
  <2> QED
    BY <2>1, <2>5 DEF Assignment!Next
<1> QED
  BY <1>3, <1>4

LEMMA RefinementStep ==
  ASSUME QueueInv, [Next]_vars
  PROVE  [Assignment!Next]_(<<Holder, cancelledAt, Begun>>)
<1>1. ASSUME NEW S \in SUBSET Job, cancelledAt' = cancelledAt \cup S,
             UNCHANGED <<runnerId, executing, left>>
      PROVE  Assignment!Next
  <2>1. Assignment!Bar(S)
    BY <1>1 DEF Assignment!Bar, Holder, Begun
  <2> QED
    BY <2>1 DEF Assignment!Next
<1>2. ASSUME NEW S \in Pipelines, CancelPipeline(S) PROVE Assignment!Next
  BY <1>1, <1>2, QueueAssumption DEF CancelPipeline, runVars
<1>3. ASSUME NEW j \in Job, CleanJob(j) PROVE Assignment!Next
  BY <1>1, <1>3 DEF CleanJob, runVars
<1>4. ASSUME NEW j \in Job, BecomeAvailable(j) \/ CancelNonRunningJob(j)
      PROVE  UNCHANGED <<Holder, cancelledAt, Begun>>
  BY <1>4, Stutter DEF BecomeAvailable, CancelNonRunningJob, runVars
<1>5. ASSUME NEW p \in Pull, ListAvailableJobs(p) \/ LoseAnswer(p) \/ PullTimeout(p)
      PROVE  UNCHANGED <<Holder, cancelledAt, Begun>>
  BY <1>5, Stutter DEF ListAvailableJobs, LoseAnswer, PullTimeout, jobVars, runVars
<1>6. ASSUME NEW r \in Runner, PullJob(r) \/ Disconnect(r) \/ Reconnect(r)
      PROVE  UNCHANGED <<Holder, cancelledAt, Begun>>
  BY <1>6, Stutter DEF PullJob, Disconnect, Reconnect, jobVars, runVars
<1>7. ASSUME NEW r \in Runner, Crash(r) PROVE UNCHANGED <<Holder, cancelledAt, Begun>>
  BY <1>7, Stutter DEF Crash, jobVars, QueueInv, TypeOK
<1>8. ASSUME NEW r \in Runner, NEW j \in Job, EndJob(r, j)
      PROVE  UNCHANGED <<Holder, cancelledAt, Begun>>
  BY <1>8, Stutter DEF EndJob, QueueInv, TypeOK
<1>9. CASE UNCHANGED vars
  BY <1>9, Stutter DEF vars, jobVars, runVars
<1> QED
  BY <1>2, <1>3, <1>4, <1>5, <1>6, <1>7, <1>8, <1>9, RefinementLock, RefinementReceive
  DEF Next, EnvironmentStep, RequestStep, RunnerStep, Cleaning

\* The queue keeps the promise of JobAssignment: a job is handed out once,
\* never after its cancellation, and executed only by its holder (lockJob).
THEOREM Refinement == Spec => ImplementsAssignment
BY RefinementInit, RefinementStep, QueueInvariant, PTL
DEF Spec, ImplementsAssignment, Assignment!Spec, Assignment!assignmentVars

\* A job cancelled before it was locked is never executed (lockJob).
THEOREM CancelledNeverStartsHolds == Spec => CancelledNeverStarts
<1> DEFINE Forbidden(j) == j \in cancelledAt /\ runnerId[j] = NoSocket
           Stays == \A j \in Job : Forbidden(j) =>
                      runnerId'[j] = NoSocket /\ \A r \in Runner : <<r, j>> \notin Begun'
<1>1. ASSUME QueueInv, [Next]_vars PROVE Stays
  <2>1. SUFFICES ASSUME NEW j \in Job, Forbidden(j), runnerId'[j] # NoSocket
                 PROVE  FALSE
    BY <1>1, QStep DEF QueueInv, BegunInv, Begun
  <2>2. PICK p \in Pull : LockJob(p)
    BY <1>1, <2>1 DEF Next, EnvironmentStep, RequestStep, RunnerStep, Cleaning, vars,
       jobVars, BecomeAvailable, CancelNonRunningJob, CancelPipeline, CleanJob,
       ListAvailableJobs, ReceiveAnswer, LoseAnswer, PullTimeout, PullJob, Disconnect,
       Crash, Reconnect, EndJob
  <2> QED
    BY <1>1, <2>1, <2>2 DEF LockJob, Lockable, QueueInv, TypeOK
<1>2. QueueInv /\ [Next]_vars => [Stays]_vars
  BY <1>1
<1> QED
  BY <1>2, QueueInvariant, PTL DEF Spec, CancelledNeverStarts
=============================================================================
