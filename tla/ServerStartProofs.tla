-------------------------- MODULE ServerStartProofs --------------------------
(***************************************************************************)
(* What a start of the server promises, for every specification of the     *)
(* indexes of a collection, every set of them that is found, every number  *)
(* of migrations and any number of failures, crashes and rollbacks.        *)
(***************************************************************************)
EXTENDS ServerStart, WellFoundedInduction, TLAPS

-----------------------------------------------------------------------------
(* The indexes.                                                            *)

\* Every index has a name its key may have, and no key has two.
Fit ==
  /\ \A n \in Name : Exists(n) => n \in Named[indexes[n].key]
  /\ \A m, n \in Name : m # n /\ Exists(m) => indexes[m].key # indexes[n].key

\* A call that is about to drop an index does so because the one it is for is
\* not as specified, and it never drops that of another call.
CallsFit ==
  \A s \in Specified :
    /\ pc[s] = "done" => indexes[s] = Specs[s]
    /\ pc[s] \in {"list", "drop"} => indexes[s] # Specs[s]
    /\ pc[s] = "drop" => victim[s] = s \/ victim[s] \notin Specified

\* Once the indexes are created, nothing but what is stale is left to drop.
EndFits ==
  /\ start \in {"dropping", "ready"} =>
       /\ \A s \in Specified : pc[s] = "done"
       /\ \A n \in Name \ Specified : Exists(n) => n \in stale
  /\ start = "ready" => stale = {}

IndexIInv == TypeOK /\ Fit /\ CallsFit /\ EndFits

LEMMA SpecExists ==
  ASSUME NEW s \in Specified
  PROVE  s \in Name /\ Specs[s] \in Index /\ Specs[s] # NoIndex
         /\ Specs[s].key \in Key /\ Specs[s].key # "none" /\ s \in Named[Specs[s].key]
BY IndexesAssumption DEF Index, NoIndex, Specified

\* An index with a key exists, and has a key if it exists.
LEMMA KeysExist ==
  ASSUME TypeOK, NEW n \in Name
  PROVE  /\ Exists(n) => indexes[n] \in Index /\ indexes[n].key \in Key
         /\ ~Exists(n) => indexes[n].key = "none"
BY DEF TypeOK, Exists, Index, NoIndex

LEMMA FieldsDiffer ==
  ASSUME NEW s \in Specified, NEW t \in Specified, Fields[Specs[s].key] = Fields[Specs[t].key]
  PROVE  s = t
BY NamesAssumption

LEMMA IndexInit == ASSUME Init PROVE IndexIInv
<1>1. TypeOK
  BY SpecExists DEF Init, TypeOK, Specified
<1> QED
  BY <1>1 DEF Init, IndexIInv, Fit, CallsFit, EndFits

\* A step of one call, of an index that is created, listed for or dropped.
LEMMA CreateKeeps ==
  ASSUME IndexIInv, NEW s \in Specified, CreateIndex(s)
  PROVE  IndexIInv' /\ \A t \in Specified : indexes[t] = Specs[t] => indexes'[t] = Specs[t]
<1> USE SpecExists, KeysExist DEF IndexIInv
<1>1. start \notin {"dropping", "ready"}
  BY DEF CreateIndex, EndFits
<1>2. CASE ~Conflicts(s)
  <2>1. /\ indexes' = [indexes EXCEPT ![s] = Specs[s]]
        /\ pc' = [pc EXCEPT ![s] = "done"]
        /\ UNCHANGED <<start, victim, stale>>
    BY <1>2 DEF CreateIndex
  <2>2. TypeOK'
    BY <2>1 DEF TypeOK
  <2>3. /\ \A n \in Name : indexes'[n] = IF n = s THEN Specs[s] ELSE indexes[n]
        /\ \A t \in Specified : pc'[t] = IF t = s THEN "done" ELSE pc[t]
    BY <2>1 DEF TypeOK
  <2>4. Fit'
    BY <1>2, <2>3 DEF Fit, Conflicts, Exists
  <2>5. CallsFit'
    BY <2>1, <2>3 DEF CallsFit
  <2>6. EndFits'
    BY <1>1, <2>1 DEF EndFits
  <2> QED
    BY <2>2, <2>3, <2>4, <2>5, <2>6
<1>3. CASE Conflicts(s)
  <2>1. /\ pc[s] = "create" \/ pc[s] = "recreate"
        /\ pc' = [pc EXCEPT ![s] = IF pc[s] = "create" THEN "list" ELSE "failed"]
        /\ start' = IF pc[s] = "create" THEN start ELSE "failed"
        /\ UNCHANGED <<indexes, victim, stale>>
    BY <1>3 DEF CreateIndex, Fails
  <2>2. indexes[s] # Specs[s]
    BY <1>3 DEF Conflicts, Fit, Exists
  <2>3. TypeOK'
    BY <2>1 DEF TypeOK
  <2>4. \A t \in Specified :
          pc'[t] = IF t = s THEN (IF pc[s] = "create" THEN "list" ELSE "failed") ELSE pc[t]
    BY <2>1 DEF TypeOK
  <2>5. CallsFit'
    BY <2>1, <2>2, <2>4 DEF CallsFit
  <2> QED
    BY <1>1, <2>1, <2>3, <2>5 DEF Fit, EndFits, Exists
<1> QED
  BY <1>2, <1>3

LEMMA ListKeeps ==
  ASSUME IndexIInv, NEW s \in Specified, ListIndexes(s)
  PROVE  IndexIInv' /\ indexes' = indexes
<1> USE SpecExists, KeysExist DEF IndexIInv
<1>1. start \notin {"dropping", "ready"}
  BY DEF ListIndexes, EndFits
<1>2. ASSUME NEW n \in Victims(s), victim' = [victim EXCEPT ![s] = n],
             pc' = [pc EXCEPT ![s] = "drop"], UNCHANGED <<indexes, start, stale>>
      PROVE  IndexIInv' /\ indexes' = indexes
  <2>1. n \in Name /\ Exists(n)
    BY DEF Victims
  <2>2. n = s \/ n \notin Specified
    <3> SUFFICES ASSUME n # s, n \in Specified PROVE FALSE
      OBVIOUS
    <3>1. Fields[indexes[n].key] = Fields[Specs[s].key]
      BY DEF Victims
    <3>2. n \in Named[indexes[n].key] /\ indexes[n].key \in Key
      BY <2>1 DEF Fit
    <3>3. Fields[indexes[n].key] = Fields[Specs[n].key]
      BY <3>2, NamesAssumption
    <3> QED
      BY <3>1, <3>3, FieldsDiffer
  <2>3. TypeOK'
    BY <1>2, <2>1 DEF TypeOK
  <2>4. CallsFit'
    BY <1>2, <2>2 DEF CallsFit, TypeOK, ListIndexes
  <2> QED
    BY <1>1, <1>2, <2>3, <2>4 DEF Fit, EndFits, Exists
<1>3. CASE Fails(s) /\ stale' = stale
  <2>1. TypeOK'
    BY <1>3 DEF TypeOK, Fails
  <2>2. CallsFit'
    BY <1>3 DEF CallsFit, TypeOK, Fails
  <2> QED
    BY <1>3, <2>1, <2>2 DEF Fit, EndFits, Exists, Fails
<1> QED
  BY <1>2, <1>3 DEF ListIndexes

LEMMA DropKeeps ==
  ASSUME IndexIInv, NEW s \in Specified, DropIndex(s)
  PROVE  IndexIInv' /\ \A t \in Specified : indexes[t] = Specs[t] => indexes'[t] = Specs[t]
<1> USE SpecExists, KeysExist DEF IndexIInv
<1>1. start \notin {"dropping", "ready"} /\ pc[s] = "drop"
  BY DEF DropIndex, EndFits
<1>2. CASE Exists(victim[s])
  <2> DEFINE v == victim[s]
  <2>1. /\ indexes' = [indexes EXCEPT ![v] = NoIndex]
        /\ pc' = [pc EXCEPT ![s] = "recreate"]
        /\ UNCHANGED <<start, victim, stale>>
    BY <1>2 DEF DropIndex
  <2>2. v \in Name /\ (v = s \/ v \notin Specified) /\ indexes[s] # Specs[s]
    BY <1>1 DEF TypeOK, CallsFit
  <2>3. TypeOK'
    BY <2>1 DEF TypeOK
  <2>4. /\ \A n \in Name : indexes'[n] = IF n = v THEN NoIndex ELSE indexes[n]
        /\ \A t \in Specified : pc'[t] = IF t = s THEN "recreate" ELSE pc[t]
    BY <2>1 DEF TypeOK
  <2>5. Fit'
    BY <2>4, IndexesAssumption DEF Fit, Exists, NoIndex
  <2>6. CallsFit'
    BY <2>1, <2>2, <2>4 DEF CallsFit
  <2> QED
    BY <1>1, <2>1, <2>2, <2>3, <2>4, <2>5, <2>6 DEF EndFits
<1>3. CASE ~Exists(victim[s])
  <2>1. Fails(s) /\ UNCHANGED <<indexes, stale>>
    BY <1>3 DEF DropIndex, Fails
  <2>2. TypeOK'
    BY <2>1 DEF TypeOK, Fails
  <2>3. CallsFit'
    BY <2>1 DEF CallsFit, TypeOK, Fails
  <2> QED
    BY <2>1, <2>2, <2>3 DEF Fit, EndFits, Exists, Fails
<1> QED
  BY <1>2, <1>3

LEMMA StaleKeeps ==
  ASSUME IndexIInv, ListStale \/ Ready \/ \E n \in Name : DropStale(n)
  PROVE  IndexIInv' /\ \A t \in Specified : indexes[t] = Specs[t] => indexes'[t] = Specs[t]
<1> USE SpecExists, KeysExist DEF IndexIInv
<1>1. CASE ListStale
  BY <1>1 DEF ListStale, Stale, TypeOK, Fit, CallsFit, EndFits, Exists
<1>2. CASE Ready
  BY <1>2 DEF Ready, TypeOK, Fit, CallsFit, EndFits, Exists
<1>3. ASSUME NEW n \in Name, DropStale(n)
      PROVE  IndexIInv' /\ \A t \in Specified : indexes[t] = Specs[t] => indexes'[t] = Specs[t]
  <2>1. /\ n \in stale /\ n \notin Specified
        /\ stale' = stale \ {n}
        /\ \A m \in Name : indexes'[m] = IF m = n THEN NoIndex ELSE indexes[m]
        /\ UNCHANGED <<start, pc, victim>>
    BY <1>3 DEF DropStale, TypeOK
  <2>2. TypeOK'
    BY <1>3 DEF DropStale, TypeOK
  <2>3. Fit'
    BY <2>1, IndexesAssumption DEF Fit, Exists, NoIndex
  <2>4. CallsFit' /\ EndFits'
    BY <2>1 DEF CallsFit, EndFits, Exists
  <2> QED
    BY <2>1, <2>2, <2>3, <2>4
<1> QED
  BY <1>1, <1>2, <1>3

LEMMA IndexStepKeeps ==
  ASSUME IndexIInv, IndexStep
  PROVE  IndexIInv' /\ \A t \in Specified : indexes[t] = Specs[t] => indexes'[t] = Specs[t]
BY CreateKeeps, ListKeeps, DropKeeps, StaleKeeps DEF IndexStep

-----------------------------------------------------------------------------
(* The migrations.                                                         *)

Serving == boot \in {"serve", "listening"}

\* A rollback that has undone a migration is about to unrecord it; any other
\* that is recorded is applied, except those whose rollback was cut short.
Undoing == IF boot = "record" /\ rollback THEN {Max(changelog)} ELSE {}

MigrateInv ==
  /\ StartTypeOK
  /\ changelog \subseteq applied \cup torn \cup Undoing
  /\ boot = "record" /\ ~rollback => Min(Pending) \in applied
  /\ Serving \/ boot = "indexes" => Pending = {}
  /\ Serving => start = "ready"
  /\ tasks => Pending = {} /\ start = "ready" /\ boot \in {"serve", "listening", "failed"}

StartIInv == IndexIInv /\ MigrateInv

LEMMA MinExists ==
  ASSUME NEW S \in SUBSET Nat, S # {}
  PROVE  Min(S) \in S
<1>1. PICK x \in S : \A y \in S : ~(<<y, x>> \in OpToRel(<, Nat))
  BY NatLessThanWellFounded, WFMin
<1>2. \A y \in S : ~(y < x)
  BY <1>1, Zenon DEF OpToRel
<1> QED
  <2>1. \A y \in S : x =< y
    BY <1>2
  <2> QED
    BY <2>1 DEF Min

LEMMA PendingMin == ASSUME StartTypeOK, Pending # {} PROVE Min(Pending) \in Pending
BY MinExists, StartAssumption DEF Pending

LEMMA StartInitInv == ASSUME StartInit PROVE StartIInv
<1>1. IndexIInv
  BY IndexInit DEF StartInit
<1>2. rollback \in BOOLEAN /\ mishaps \in 0..MaxMishaps
  BY StartAssumption DEF StartInit
<1>3. applied \subseteq 1..Migrations /\ changelog = applied
  <2>1. PICK m \in 0..Migrations : applied = 1..m /\ changelog = 1..m
    BY DEF StartInit
  <2> QED
    BY <2>1, StartAssumption
<1>4. StartTypeOK
  BY <1>1, <1>2, <1>3, Zenon DEF StartInit, StartTypeOK, IndexIInv
<1> QED
  BY <1>1, <1>3, <1>4 DEF StartInit, StartIInv, MigrateInv, Serving, Undoing

LEMMA IndexVarsStay ==
  ASSUME IndexIInv, UNCHANGED indexVars
  PROVE  IndexIInv'
BY DEF IndexIInv, indexVars, TypeOK, Fit, CallsFit, EndFits, Exists

LEMMA MainKeeps ==
  ASSUME StartIInv, AppDbInit \/ RollForward \/ RollBackwards \/ RecordMigration \/ Listen
  PROVE  StartIInv'
<1> USE DEF historyVars, migrateVars
<1>1. IndexIInv'
  BY IndexVarsStay DEF StartIInv, AppDbInit, RollForward, RollBackwards, RecordMigration, Listen
<1> SUFFICES MigrateInv'
  BY <1>1 DEF StartIInv
<1> USE DEF StartIInv, MigrateInv, StartTypeOK, Goto, Serving, Undoing, IndexIInv, indexVars
<1>2. CASE AppDbInit
  BY <1>1, <1>2 DEF AppDbInit, Pending
<1>3. CASE RollForward
  BY <1>1, <1>3, PendingMin DEF RollForward, Pending
<1>4. CASE RollBackwards
  BY <1>1, <1>4 DEF RollBackwards, Pending
<1>5. CASE RecordMigration
  BY <1>1, <1>5 DEF RecordMigration, Pending
<1>6. CASE Listen
  BY <1>1, <1>6 DEF Listen, Pending
<1> QED
  BY <1>2, <1>3, <1>4, <1>5, <1>6

LEMMA IndexesKeep ==
  ASSUME StartIInv, SetupDbIndexes
  PROVE  StartIInv'
<1>1. IndexIInv'
  BY IndexStepKeeps DEF StartIInv, SetupDbIndexes
<1> QED
  BY <1>1 DEF SetupDbIndexes, StartIInv, MigrateInv, StartTypeOK, Serving, Undoing,
       IndexIInv, Pending, migrateVars, historyVars

LEMMA StartsKeep ==
  ASSUME StartIInv, MainFails \/ Restart \/ Crash
  PROVE  StartIInv'
<1> USE DEF historyVars, migrateVars
<1>1. mishaps' \in 0..MaxMishaps
  BY StartAssumption DEF MainFails, Restart, Crash, StartIInv, MigrateInv, StartTypeOK
<1>2. CASE MainFails
  <2>1. IndexIInv'
    BY <1>2, IndexVarsStay DEF StartIInv, MainFails
  <2> QED
    BY <1>1, <1>2, <2>1 DEF MainFails, Goto, StartIInv, MigrateInv, StartTypeOK, IndexIInv,
         Serving, Undoing, Pending, indexVars
<1>3. CASE Restart \/ Crash
  <2>1. Start
    BY <1>3 DEF Restart, Crash
  <2>2. TypeOK'
    BY <2>1, SpecExists DEF Start, Begin, StartIInv, IndexIInv, TypeOK, Specified
  <2>3. IndexIInv'
    BY <2>1, <2>2 DEF Start, Begin, StartIInv, IndexIInv, Fit, CallsFit, EndFits, Exists
  <2>4. StartTypeOK'
    BY <1>1, <1>3, <2>1, <2>2
       DEF Start, Goto, Restart, Crash, StartIInv, MigrateInv, StartTypeOK
  <2> QED
    BY <2>1, <2>3, <2>4 DEF Start, Goto, StartIInv, MigrateInv, Serving, Undoing, Pending
<1> QED
  BY <1>2, <1>3

LEMMA StartNextKeeps == ASSUME StartIInv, [Next]_vars PROVE StartIInv'
<1>1. CASE UNCHANGED vars
  <2>1. IndexIInv'
    BY <1>1, IndexVarsStay DEF vars, StartIInv
  <2> QED
    BY <1>1, <2>1 DEF vars, indexVars, migrateVars, historyVars, StartIInv, MigrateInv,
         StartTypeOK, IndexIInv, Serving, Undoing, Pending
<1>2. CASE Next
  BY <1>2, MainKeeps, IndexesKeep, StartsKeep DEF Next, MainStep
<1> QED
  BY <1>1, <1>2

LEMMA StartIInvImplies == ASSUME StartIInv PROVE StartInv
<1>1. ReadyMeansConfigured
  BY DEF StartIInv, IndexIInv, CallsFit, EndFits, ReadyMeansConfigured
<1>2. ServesMigrated
  BY DEF StartIInv, MigrateInv, StartTypeOK, ServesMigrated, Serving, Undoing, Pending
<1> QED
  BY <1>1, <1>2 DEF StartIInv, MigrateInv, StartInv

LEMMA StartIInvAlways == Spec => []StartIInv
BY StartInitInv, StartNextKeeps, PTL DEF Spec

\* No task runs and nothing is served before the database is migrated, and a
\* server that is ready has the specified indexes and no others (main,
\* configureIndexesForCollection).
THEOREM StartInvHolds == Spec => []StartInv
BY StartIInvAlways, StartIInvImplies, PTL

\* An index that is as specified is never dropped (createIndexIfNotExists).
THEOREM KeepsMatchingHolds == Spec => KeepsMatching
<1>1. StartIInv /\ [Next]_vars
        => [\A s \in Specified : indexes[s] = Specs[s] => indexes'[s] = Specs[s]]_indexVars
  BY IndexStepKeeps DEF StartIInv, Next, MainStep, SetupDbIndexes, AppDbInit, RollForward,
       RollBackwards, RecordMigration, Listen, MainFails, Restart, Crash, Start, vars, indexVars
<1> QED
  BY <1>1, StartIInvAlways, PTL DEF Spec, KeepsMatching
=============================================================================
