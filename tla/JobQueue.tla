------------------------------ MODULE JobQueue ------------------------------
(***************************************************************************)
(* How jobs reach the runners.  A runner asks for a job (pullJob of the    *)
(* runner), the server lists the available jobs, picks one, locks it and   *)
(* answers (pullJob and lockJob of the server).  Meanwhile jobs become     *)
(* available or are cancelled, requests time out on the runner while the   *)
(* server goes on with them, and runners lose their connection or crash,   *)
(* and come back under a new socket id.                                    *)
(***************************************************************************)
EXTENDS Naturals, FiniteSets

CONSTANTS
  Job, Runner,
  Pipelines,        \* the sets of jobs that are cancelled together
  CreatedAt,        \* the date of each job: the latest is handed out first
  MaxParallelJobs,  \* METROLINE_MAX_PARALLEL_JOBS
  TimeoutsHappen,   \* whether an answer may come after wsTimeout
  Pull,             \* bound: the requests in flight
  Unreliable,       \* the runners that crash or lose their connection
  MaxSessions       \* bound: the connections of one runner

ASSUME QueueAssumption ==
  /\ Pipelines \subseteq SUBSET Job
  /\ CreatedAt \in [Job -> Nat]
  /\ MaxParallelJobs \in Nat \ {0}
  /\ TimeoutsHappen \in BOOLEAN
  /\ Unreliable \subseteq Runner
  /\ MaxSessions \in Nat \ {0}

Nobody == "nobody"
NoJob == "no job"
ASSUME NamesAssumption == Nobody \notin Runner /\ NoJob \notin Job

\* A socket id stands for one connection of one runner.
Socket == Runner \X (1..MaxSessions)
NoSocket == <<Nobody, 0>>

VARIABLES
  state,        \* of each job: not available yet, open, or closed
  cancelledAt,  \* the jobs with a cancelledAt
  ended,        \* the jobs with an end
  runnerId,     \* the socket each job is locked by
  pull,         \* the requests
  session,      \* the number of the runner's current connection
  connected,    \* whether that connection is up
  runningJobs,  \* the runner's count of its jobs
  executing,    \* the jobs the runner executes
  left          \* the jobs the runner has executed, or left in a crash

jobVars == <<state, cancelledAt, ended, runnerId>>
socketVars == <<session, connected>>
runVars == <<runningJobs, executing, left>>
vars == <<jobVars, pull, socketVars, runVars>>

Idle == [pc |-> "idle", socket |-> NoSocket, job |-> NoJob, waiting |-> FALSE]

Request ==
  [pc : {"sent", "lock", "answered"}, socket : Socket, job : Job \cup {NoJob},
   waiting : BOOLEAN]

TypeOK ==
  /\ state \in [Job -> {"waiting", "open", "closed"}]
  /\ cancelledAt \subseteq Job
  /\ ended \subseteq Job
  /\ runnerId \in [Job -> Socket \cup {NoSocket}]
  /\ pull \in [Pull -> Request \cup {Idle}]
  /\ session \in [Runner -> 1..MaxSessions]
  /\ connected \in [Runner -> BOOLEAN]
  /\ runningJobs \in [Runner -> Nat]
  /\ executing \in [Runner -> SUBSET Job]
  /\ left \in [Runner -> SUBSET Job]

Init ==
  /\ state = [j \in Job |-> "waiting"]
  /\ cancelledAt = {}
  /\ ended = {}
  /\ runnerId = [j \in Job |-> NoSocket]
  /\ pull = [p \in Pull |-> Idle]
  /\ session = [r \in Runner |-> 1]
  /\ connected = [r \in Runner |-> TRUE]
  /\ runningJobs = [r \in Runner |-> 0]
  /\ executing = [r \in Runner |-> {}]
  /\ left = [r \in Runner |-> {}]

-----------------------------------------------------------------------------
\* Broken: the status of a job that could be pulled is not set to cancelled.
CancelWaitingJob(j) ==
  /\ j \in cancelledAt /\ runnerId[j] = NoSocket /\ state[j] = "waiting"
  /\ state' = [state EXCEPT ![j] = "closed"]
  /\ UNCHANGED <<cancelledAt, ended, runnerId, pull, socketVars, runVars>>

\* Broken: the job is executed but not counted.
ReceiveAnswerUncounted(p) ==
  LET r == pull[p].socket[1]
  IN  /\ pull[p].pc = "answered" /\ pull[p].socket = <<r, session[r]>> /\ connected[r]
      /\ pull' = [pull EXCEPT ![p] = Idle]
      /\ IF pull[p].waiting /\ pull[p].job # NoJob
         THEN executing' = [executing EXCEPT ![r] = @ \cup {pull[p].job}]
         ELSE UNCHANGED executing
      /\ UNCHANGED <<jobVars, socketVars, runningJobs, left>>

\* Broken: the lock does not look at the runner, or at the cancellation.
LockableAgain(j) == j \notin cancelledAt
LockableCancelled(j) == runnerId[j] = NoSocket

-----------------------------------------------------------------------------
(* The jobs, as the rest of the server changes them.                       *)

\* The job is inserted without dependencies, or its upstream status is final.
BecomeAvailable(j) ==
  /\ state[j] = "waiting"
  /\ state' = [state EXCEPT ![j] = "open"]
  /\ UNCHANGED <<cancelledAt, ended, runnerId, pull, socketVars, runVars>>

\* cancelPipeline: preventJobsFromBeingRun.
CancelPipeline(S) ==
  /\ ~(S \subseteq cancelledAt)
  /\ cancelledAt' = cancelledAt \cup S
  /\ UNCHANGED <<state, ended, runnerId, pull, socketVars, runVars>>

\* cancelPipeline: cancelNonRunningJobs sets the status of a job that has no
\* runner; it cannot get one any more.
CancelNonRunningJob(j) ==
  /\ j \in cancelledAt /\ runnerId[j] = NoSocket /\ state[j] # "closed"
  /\ state' = [state EXCEPT ![j] = "closed"]
  /\ UNCHANGED <<cancelledAt, ended, runnerId, pull, socketVars, runVars>>

\* The periodic task cancels a job that has not ended in time.
CleanJob(j) ==
  /\ j \notin ended
  /\ state' = [state EXCEPT ![j] = "closed"]
  /\ cancelledAt' = cancelledAt \cup {j}
  /\ ended' = ended \cup {j}
  /\ UNCHANGED <<runnerId, pull, socketVars, runVars>>

-----------------------------------------------------------------------------
(* The runner.                                                             *)

SocketOf(r) == <<r, session[r]>>

\* pullJob of a runner that has n jobs: a request if there is room.
Pulls(r, n) ==
  IF n < MaxParallelJobs /\ connected[r] /\ \E p \in Pull : pull[p] = Idle
  THEN {[pull EXCEPT ![p] = [pc |-> "sent", socket |-> SocketOf(r),
                             job |-> NoJob, waiting |-> TRUE]] :
          p \in {q \in Pull : pull[q] = Idle}}
  ELSE {pull}

\* The interval, a notification of available jobs, or a new connection.
PullJob(r) ==
  /\ pull' \in Pulls(r, runningJobs[r])
  /\ UNCHANGED <<jobVars, socketVars, runVars>>

\* The answer arrives in time: the job counts from now on.
ReceiveAnswer(p) ==
  LET r == pull[p].socket[1]
      j == pull[p].job
  IN  /\ pull[p].pc = "answered"
      /\ pull[p].socket = SocketOf(r) /\ connected[r]
      /\ pull' = [pull EXCEPT ![p] = Idle]
      /\ IF pull[p].waiting /\ j # NoJob
         THEN /\ runningJobs' = [runningJobs EXCEPT ![r] = @ + 1]
              /\ executing' = [executing EXCEPT ![r] = @ \cup {j}]
         ELSE UNCHANGED <<runningJobs, executing>>
      /\ UNCHANGED <<jobVars, socketVars, left>>

\* The answer goes to a socket that is gone.
LoseAnswer(p) ==
  LET r == pull[p].socket[1]
  IN  /\ pull[p].pc = "answered"
      /\ pull[p].socket # SocketOf(r) \/ ~connected[r]
      /\ pull' = [pull EXCEPT ![p] = Idle]
      /\ UNCHANGED <<jobVars, socketVars, runVars>>

\* The runner stops waiting; it ignores the answer when it comes.
PullTimeout(p) ==
  /\ TimeoutsHappen
  /\ pull[p].waiting
  /\ pull' = [pull EXCEPT ![p].waiting = FALSE]
  /\ UNCHANGED <<jobVars, socketVars, runVars>>

\* execJob is done with the job; the runner pulls the next one.
EndJob(r, j) ==
  /\ j \in executing[r]
  /\ executing' = [executing EXCEPT ![r] = @ \ {j}]
  /\ left' = [left EXCEPT ![r] = @ \cup {j}]
  /\ ended' = ended \cup {j}
  /\ runningJobs' = [runningJobs EXCEPT ![r] = @ - 1]
  /\ pull' \in Pulls(r, runningJobs[r] - 1)
  /\ UNCHANGED <<state, cancelledAt, runnerId, socketVars>>

Disconnect(r) ==
  /\ r \in Unreliable /\ connected[r] /\ session[r] < MaxSessions
  /\ connected' = [connected EXCEPT ![r] = FALSE]
  /\ UNCHANGED <<jobVars, pull, session, runVars>>

\* The runner's process ends, and with it what it knew.
Crash(r) ==
  /\ r \in Unreliable /\ session[r] < MaxSessions
  /\ connected' = [connected EXCEPT ![r] = FALSE]
  /\ runningJobs' = [runningJobs EXCEPT ![r] = 0]
  /\ left' = [left EXCEPT ![r] = @ \cup executing[r]]
  /\ executing' = [executing EXCEPT ![r] = {}]
  /\ UNCHANGED <<jobVars, pull, session>>

\* The runner registers again; it will pull.
Reconnect(r) ==
  /\ ~connected[r] /\ session[r] < MaxSessions
  /\ session' = [session EXCEPT ![r] = @ + 1]
  /\ connected' = [connected EXCEPT ![r] = TRUE]
  /\ UNCHANGED <<jobVars, pull, runVars>>

-----------------------------------------------------------------------------
(* The server.                                                             *)

AvailableJobs == {j \in Job : state[j] = "open" /\ runnerId[j] = NoSocket}

\* The latest jobs come first, in any order if they were created together.
FirstJobs ==
  {j \in AvailableJobs : \A i \in AvailableJobs : CreatedAt[i] <= CreatedAt[j]}

\* Read the available jobs and choose the first.
ListAvailableJobs(p) ==
  /\ pull[p].pc = "sent"
  /\ \/ /\ AvailableJobs = {}
        /\ pull' = [pull EXCEPT ![p].pc = "answered"]
     \/ \E j \in FirstJobs :
          pull' = [pull EXCEPT ![p].pc = "lock", ![p].job = j]
  /\ UNCHANGED <<jobVars, socketVars, runVars>>

Lockable(j) == runnerId[j] = NoSocket /\ j \notin cancelledAt

\* Lock the job, or answer that there is none.
LockJob(p) ==
  /\ pull[p].pc = "lock"
  /\ IF Lockable(pull[p].job)
     THEN /\ runnerId' = [runnerId EXCEPT ![pull[p].job] = pull[p].socket]
          /\ pull' = [pull EXCEPT ![p].pc = "answered"]
     ELSE /\ pull' = [pull EXCEPT ![p].pc = "answered", ![p].job = NoJob]
          /\ UNCHANGED runnerId
  /\ UNCHANGED <<state, cancelledAt, ended, socketVars, runVars>>

-----------------------------------------------------------------------------
EnvironmentStep ==
  \/ \E j \in Job : BecomeAvailable(j) \/ CancelNonRunningJob(j)
  \/ \E S \in Pipelines : CancelPipeline(S)

RequestStep ==
  \E p \in Pull : ListAvailableJobs(p) \/ LockJob(p) \/ ReceiveAnswer(p)
                  \/ LoseAnswer(p)

RunnerStep ==
  \/ \E r \in Runner : PullJob(r) \/ Disconnect(r) \/ Crash(r) \/ Reconnect(r)
  \/ \E r \in Runner, j \in Job : EndJob(r, j)
  \/ \E p \in Pull : PullTimeout(p)

Cleaning == \E j \in Job : CleanJob(j)

Next == EnvironmentStep \/ RequestStep \/ RunnerStep \/ Cleaning

Spec == Init /\ [][Next]_vars

\* Requests are served, cancellations completed; runners pull at intervals and
\* end what they execute.
FairSpec ==
  /\ Spec
  /\ \A p \in Pull : WF_vars(ListAvailableJobs(p) \/ LockJob(p)
                             \/ ReceiveAnswer(p) \/ LoseAnswer(p))
  /\ \A r \in Runner : WF_vars(PullJob(r))
  /\ WF_vars(\E r \in Runner : Reconnect(r))
  /\ WF_vars(\E r \in Runner, j \in Job : EndJob(r, j))
  /\ WF_vars(\E j \in Job : CancelNonRunningJob(j))

-----------------------------------------------------------------------------
(* Properties.                                                             *)

Holder == [j \in Job |-> runnerId[j][1]]
Begun == {e \in Runner \X Job : e[2] \in executing[e[1]] \cup left[e[1]]}

\* The queue keeps the promise of JobAssignment, whatever requests cross,
\* time out or lose their socket (pullJob, lockJob).
Assignment ==
  INSTANCE JobAssignment WITH holder <- Holder, barred <- cancelledAt,
                              begun <- Begun
ImplementsAssignment == Assignment!Spec

\* The runner's count is the number of jobs it executes; no job is counted
\* twice, although answers and ends come in any order (runningJobs++ and --).
CountExact == \A r \in Runner : runningJobs[r] = Cardinality(executing[r])

\* A job that has been cancelled before it was locked is never executed,
\* not even by a request that had already chosen it.
CancelledNeverStarts ==
  [][\A j \in Job : (j \in cancelledAt /\ runnerId[j] = NoSocket)
       => runnerId'[j] = NoSocket /\ \A r \in Runner : <<r, j>> \notin Begun']_vars

\* Every available job is handed to a runner or cancelled, although later jobs
\* go first, a cancelled one can be listed but not locked (pullJob), requests
\* time out and runners lose their connections.
EveryJobLeaves ==
  \A j \in Job : (state[j] = "open") ~> (j \in cancelledAt \/ runnerId[j] # NoSocket)

-----------------------------------------------------------------------------
(* The inductive invariant of the proofs (JobQueueProofs).                 *)

\* Only a request that locks or is answered has chosen a job.
ChosenInv ==
  \A p \in Pull : /\ pull[p].pc = "lock" => pull[p].job \in Job
                  /\ pull[p].pc = "sent" => pull[p].job = NoJob

\* A job on its way to a runner is locked by the socket the answer is for and
\* has not been executed.
Carries(p, j) == pull[p].pc = "answered" /\ pull[p].job = j
AnswerInv ==
  \A p \in Pull, j \in Job : Carries(p, j) =>
    /\ runnerId[j] = pull[p].socket
    /\ \A r \in Runner : j \notin executing[r] \cup left[r]

\* No two answers carry the same job.
AnswerOnceInv ==
  \A p, q \in Pull, j \in Job : Carries(p, j) /\ Carries(q, j) => p = q

\* Only the runner that has the lock of a job executes it.
BegunInv ==
  \A r \in Runner, j \in Job : j \in executing[r] \cup left[r] =>
    runnerId[j] # NoSocket /\ runnerId[j][1] = r

\* Counts are exact and finite.
CountInv == CountExact /\ \A r \in Runner : IsFiniteSet(executing[r])

\* A request is answered once, to the runner that holds the lock: together the
\* parts say why no job is executed twice (lockJob, and resolved in Server.pullJob).
QueueInv == TypeOK /\ ChosenInv /\ AnswerInv /\ AnswerOnceInv /\ BegunInv /\ CountInv
=============================================================================
