------------------------------ MODULE JobWatch ------------------------------
(***************************************************************************)
(* A browser that follows the log of a job: it asks to join the job's room *)
(* (join.job in rooms.ts), requests the logs stored so far (getJobLogs),   *)
(* and is sent each log that addJobLog stores from then on.  The server    *)
(* answers a join with nothing, so that the browser does not know when,    *)
(* nor whether, it is in the room; the two go on side by side.             *)
(* What the browser does with the logs is in another repository.           *)
(***************************************************************************)
EXTENDS JobLogs

CONSTANTS
  Watched,    \* the outputs that are watched
  Viewers     \* who watches: one who is signed in, or nobody known

ASSUME WatchAssumption ==
  Watched \subseteq Outputs /\ Viewers \subseteq {"user", "anonymous"} /\ Viewers # {}

VARIABLES
  viewer,      \* who is watching
  room,        \* whether the browser has asked to join, and is in the room
  request,     \* how far the request for the logs is
  emitting,    \* the stored logs that are not sent to the room yet
  fetched,     \* the logs the request has found
  received,    \* the logs sent to the browser
  joinedFirst  \* whether it was in the room when the request read the logs

watchVars == <<viewer, room, request, emitting, fetched, received, joinedFirst>>

WatchTypeOK ==
  /\ TypeOK
  /\ viewer \in Viewers
  /\ room \in {"out", "asking", "in", "refused"}
  /\ request \in {"none", "guards", "read", "refused"}
  /\ emitting \subseteq jobLogs /\ fetched \subseteq jobLogs /\ received \subseteq jobLogs
  /\ joinedFirst \in BOOLEAN

WatchInit ==
  /\ Init
  /\ viewer \in Viewers /\ (output \notin Watched => viewer = CHOOSE v \in Viewers : TRUE)
  /\ room = "out" /\ request = "none"
  /\ emitting = {} /\ fetched = {} /\ received = {} /\ joinedFirst = FALSE

-----------------------------------------------------------------------------
(* The browser.                                                            *)

JoinJob ==
  /\ output \in Watched /\ room = "out"
  /\ room' = "asking"
  /\ UNCHANGED <<vars, viewer, request, emitting, fetched, received, joinedFirst>>

GetUserFromSocket == viewer = "user"

\* The user, the job, its pipeline and canPullRepo are looked up one after the
\* other; whoever is not signed in stays outside.
Join ==
  /\ room = "asking"
  /\ room' \in IF GetUserFromSocket THEN {"in", "refused"} ELSE {"refused"}
  /\ UNCHANGED <<vars, viewer, request, emitting, fetched, received, joinedFirst>>

RequestLogs ==
  /\ output \in Watched /\ request = "none"
  /\ request' = "guards"
  /\ UNCHANGED <<vars, viewer, room, emitting, fetched, received, joinedFirst>>

\* jobExistsGuard and canGetJobGuard let it through, or not; a job of a public
\* repository may be seen by anybody.
GetJobLogs ==
  /\ request = "guards"
  /\ request' = "read"
  /\ fetched' = jobLogs
  /\ joinedFirst' = (room = "in")
  /\ UNCHANGED <<vars, viewer, room, emitting, received>>

GetJobLogsRefused ==
  /\ request = "guards"
  /\ request' = "refused"
  /\ UNCHANGED <<vars, viewer, room, emitting, fetched, received, joinedFirst>>

-----------------------------------------------------------------------------
(* addJobLog.                                                              *)

\* Broken: a log is stored, but not sent on.
StoreLogOnly(l) == Inserted(l) /\ UNCHANGED watchVars

\* The log is sent to the room once the database has answered.
StoreLog(l) ==
  /\ Inserted(l)
  /\ emitting' = IF output \in Watched THEN emitting \cup {l} ELSE emitting
  /\ UNCHANGED <<viewer, room, request, fetched, received, joinedFirst>>

Emit(l) ==
  /\ emitting' = emitting \ {l}
  /\ received' = IF room = "in" THEN received \cup {l} ELSE received
  /\ UNCHANGED <<vars, viewer, room, request, fetched, joinedFirst>>

-----------------------------------------------------------------------------
LogStep ==
  \/ (RunnerStep \/ AddJobLog) /\ UNCHANGED watchVars
  \/ \E l \in inserting : StoreLog(l)
  \/ \E l \in emitting : Emit(l)

BrowserStep ==
  JoinJob \/ Join \/ RequestLogs \/ GetJobLogs \/ GetJobLogsRefused

WatchNext == LogStep \/ BrowserStep

WatchSpec == WatchInit /\ [][WatchNext]_<<vars, watchVars>>

\* The output is read, or a stream fails, and logs are stored; browsers need
\* not do anything.
FairWatchSpec == WatchSpec /\ WF_<<vars, watchVars>>(LogStep)

-----------------------------------------------------------------------------
(* Properties.                                                             *)

\* The state invariant: the variables are well typed, and the logs the output.
WatchInv == WatchTypeOK /\ LogIsOutput

\* A browser that was in the room when its request was read misses nothing:
\* every log that is stored was fetched, or is or will be sent to it, however
\* insertions, answers and the two requests cross.  Were a log sent before it
\* is stored, one could fall between the two.  A browser that joins later, or
\* is refused, may miss what was stored between the two.
WatcherMissesNothing ==
  joinedFirst => jobLogs \subseteq fetched \cup received \cup emitting
=============================================================================
