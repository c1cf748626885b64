----------------------------- MODULE ServerStart -----------------------------
(***************************************************************************)
(* The start of the server, main in server.ts: it connects to the          *)
(* database, migrates it, configures the indexes, begins to watch runners  *)
(* and its periodic tasks, and listens.  METROLINE_MIGRATE_ROLLBACK makes  *)
(* it undo one migration and exit instead.                                 *)
(*                                                                         *)
(* main only logs an error, and the process stays, with what it had begun. *)
(* The operator starts it again, perhaps with other settings.              *)
(***************************************************************************)
EXTENDS DbIndexes, Naturals, FiniteSetsExt

CONSTANTS
  Migrations,    \* how many migrations there are
  MaxMishaps     \* bound: failures, crashes and rollbacks together

ASSUME StartAssumption == Migrations \in Nat /\ MaxMishaps \in Nat

VARIABLES
  boot,        \* how far main is
  rollback,    \* METROLINE_MIGRATE_ROLLBACK
  applied,     \* the migrations whose effect the database has
  changelog,   \* those that migrate-mongo has recorded
  torn,        \* those undone by a rollback that was then cut short
  tasks,       \* whether runners are watched and the periodic tasks run
  mishaps      \* failures, crashes and rollbacks so far

migrateVars == <<rollback, applied, changelog>>
historyVars == <<torn, mishaps>>
vars == <<indexVars, boot, migrateVars, tasks, historyVars>>

StartTypeOK ==
  /\ TypeOK
  /\ boot \in {"connect", "migrate", "record", "indexes", "serve", "listening",
               "failed", "exited"}
  /\ rollback \in BOOLEAN
  /\ applied \subseteq 1..Migrations /\ changelog \subseteq 1..Migrations
  /\ torn \subseteq 1..Migrations
  /\ tasks \in BOOLEAN
  /\ mishaps \in 0..MaxMishaps

\* Earlier versions have left a database with the first migrations.
StartInit ==
  /\ Init
  /\ boot = "connect" /\ rollback \in {b \in BOOLEAN : b => MaxMishaps > 0}
  /\ \E m \in 0..Migrations : applied = 1..m /\ changelog = 1..m
  /\ tasks = FALSE /\ torn = {}
  /\ mishaps = IF rollback THEN 1 ELSE 0

-----------------------------------------------------------------------------
Goto(to) == boot' = to

AppDbInit ==
  /\ boot = "connect"
  /\ Goto("migrate")
  /\ UNCHANGED <<indexVars, migrateVars, tasks, historyVars>>

Pending == (1..Migrations) \ changelog

\* Broken: the error of a migration is logged and the start goes on.
RollForwardAnyway ==
  /\ boot = "migrate" /\ ~rollback
  /\ \/ Goto("indexes") /\ UNCHANGED applied
     \/ Pending # {} /\ Goto("record") /\ applied' = applied \cup {Min(Pending)}
  /\ UNCHANGED <<indexVars, rollback, changelog, tasks, historyVars>>

\* rollForward: the first migration that is not recorded is applied, and
\* recorded afterwards.
RollForward ==
  /\ boot = "migrate" /\ ~rollback
  /\ IF Pending = {} THEN Goto("indexes") /\ UNCHANGED applied
     ELSE Goto("record") /\ applied' = applied \cup {Min(Pending)}
  /\ UNCHANGED <<indexVars, rollback, changelog, tasks, historyVars>>

\* rollBackwards: the last migration that is recorded is undone.
RollBackwards ==
  /\ boot = "migrate" /\ rollback
  /\ IF changelog = {} THEN Goto("exited") /\ UNCHANGED applied
     ELSE Goto("record") /\ applied' = applied \ {Max(changelog)}
  /\ UNCHANGED <<indexVars, rollback, changelog, tasks, historyVars>>

\* migrate-mongo records it; after a rollback the process exits.
RecordMigration ==
  /\ boot = "record"
  /\ IF rollback THEN Goto("exited") /\ changelog' = changelog \ {Max(changelog)}
                 ELSE Goto("migrate") /\ changelog' = changelog \cup {Min(Pending)}
  /\ UNCHANGED <<indexVars, rollback, applied, tasks, historyVars>>

SetupDbIndexes ==
  /\ boot = "indexes"
  /\ IndexStep
  /\ boot' = CASE start' = "ready" -> "serve"
               [] start' = "failed" -> "failed"
               [] OTHER -> boot
  /\ tasks' = (start' = "ready")
  /\ UNCHANGED <<migrateVars, historyVars>>

Listen ==
  /\ boot = "serve"
  /\ Goto("listening")
  /\ UNCHANGED <<indexVars, migrateVars, tasks, historyVars>>

\* The database cannot be reached, a migration throws, or the TLS key cannot
\* be read: main ends, and the tasks it had started go on.
MainFails ==
  /\ boot \in {"connect", "migrate", "serve"} /\ mishaps < MaxMishaps
  /\ Goto("failed")
  /\ mishaps' = mishaps + 1
  /\ UNCHANGED <<indexVars, migrateVars, tasks, torn>>

Start ==
  /\ Begin /\ Goto("connect") /\ tasks' = FALSE
  /\ torn' = torn \cup (changelog \ applied)
  /\ UNCHANGED <<indexes, applied, changelog>>

\* The operator starts the server again, to serve or to roll back.
Restart ==
  /\ boot \in {"failed", "exited"}
  /\ Start
  /\ rollback' \in {b \in BOOLEAN : b => mishaps < MaxMishaps}
  /\ mishaps' = IF rollback' THEN mishaps + 1 ELSE mishaps

\* The process is killed anywhere, and started again.
Crash ==
  /\ mishaps < MaxMishaps
  /\ Start
  /\ rollback' = FALSE
  /\ mishaps' = mishaps + 1

-----------------------------------------------------------------------------
MainStep ==
  \/ AppDbInit \/ RollForward \/ RollBackwards \/ RecordMigration
  \/ SetupDbIndexes \/ Listen \/ Restart

Next == MainStep \/ MainFails \/ Crash

Spec == StartInit /\ [][Next]_vars

\* The database answers, and the operator starts a server that has ended.
FairSpec == Spec /\ WF_vars(MainStep)

-----------------------------------------------------------------------------
(* Properties.                                                             *)

\* No task runs and nothing is served before the database is what the code
\* expects: every migration recorded and applied, and the indexes configured,
\* however often a start was cut short, between the two, or undid one (main).
\* The exception is a rollback that was cut short: what it has undone is still
\* recorded.
ServesMigrated ==
  tasks \/ boot = "listening" =>
    /\ changelog = 1..Migrations
    /\ 1..Migrations \subseteq applied \cup torn
    /\ start = "ready"

\* The state invariant: the variables are well typed, a server that is ready
\* is configured, and one that serves is migrated.
StartInv == StartTypeOK /\ ReadyMeansConfigured /\ ServesMigrated

\* A failed start may be repeated until one succeeds.
Converges == <>[](boot = "listening")
=============================================================================
