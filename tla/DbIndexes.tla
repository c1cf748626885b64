------------------------------ MODULE DbIndexes ------------------------------
(***************************************************************************)
(* How the server brings the indexes of one collection into line with its  *)
(* specification when it starts: all indexes are created at once, one that *)
(* conflicts with the database is dropped and created again, and those     *)
(* that are no longer specified are dropped at the end.  What goes before  *)
(* and after, and how a start fails or is cut short, is in ServerStart.    *)
(***************************************************************************)
CONSTANTS
  Name,          \* names of indexes
  Key,           \* keys: fields with their order and direction
  Fields,        \* the fields of a key
  Named,         \* the names under which a key may be in the database
  Specs          \* the specified indexes, by name

Index == [key : Key, unique : BOOLEAN]
Specified == DOMAIN Specs
NoIndex == [key |-> "none", unique |-> FALSE]

ASSUME IndexesAssumption ==
  /\ Specified \subseteq Name /\ Specs \in [Specified -> Index]
  /\ "none" \notin Key
  /\ Named \in [Key -> SUBSET Name]
  /\ \A s \in Specified : s \in Named[Specs[s].key]

\* computeIndexName joins the fields of a key: a name has one list of fields,
\* and no two specified indexes have the same fields.
ASSUME NamesAssumption ==
  /\ DOMAIN Fields = Key
  /\ \A k, l \in Key : Named[k] \cap Named[l] # {} => Fields[k] = Fields[l]
  /\ \A s, t \in Specified : s # t => Fields[Specs[s].key] # Fields[Specs[t].key]

VARIABLES
  indexes,   \* the indexes of the collection
  start,     \* how far the start is
  pc,        \* how far createIndexIfNotExists is, for each specified index
  victim,    \* the index it is about to drop
  stale      \* the indexes to drop at the end

indexVars == <<indexes, start, pc, victim, stale>>

Exists(n) == indexes[n] # NoIndex

TypeOK ==
  /\ indexes \in [Name -> Index \cup {NoIndex}]
  /\ start \in {"creating", "dropping", "ready", "failed"}
  /\ pc \in [Specified -> {"create", "list", "drop", "recreate", "done", "failed"}]
  /\ victim \in [Specified -> Name]
  /\ stale \subseteq Name \ Specified

Begin ==
  /\ start' = "creating"
  /\ pc' = [s \in Specified |-> "create"]
  /\ victim' = [s \in Specified |-> s]
  /\ stale' = {}

\* What earlier versions and administrators have left: no key twice.
Init ==
  /\ indexes \in [Name -> Index \cup {NoIndex}]
  /\ \A n \in Name : Exists(n) => n \in Named[indexes[n].key]
  /\ \A m, n \in Name : m # n /\ Exists(m) => indexes[m].key # indexes[n].key
  /\ start = "creating"
  /\ pc = [s \in Specified |-> "create"]
  /\ victim = [s \in Specified |-> s]
  /\ stale = {}

-----------------------------------------------------------------------------
\* MongoDB refuses an index whose name stands for another one, or whose key
\* is indexed under another name.
Conflicts(s) ==
  \/ Exists(s) /\ indexes[s] # Specs[s]
  \/ \E n \in Name \ {s} : indexes[n].key = Specs[s].key

Fails(s) ==
  /\ pc' = [pc EXCEPT ![s] = "failed"]
  /\ start' = "failed"
  /\ UNCHANGED <<indexes, victim>>

\* createIndex: a conflict is handled the first time.
CreateIndex(s) ==
  /\ pc[s] \in {"create", "recreate"}
  /\ IF ~Conflicts(s)
     THEN /\ indexes' = [indexes EXCEPT ![s] = Specs[s]]
          /\ pc' = [pc EXCEPT ![s] = "done"]
          /\ UNCHANGED <<start, victim>>
     ELSE \/ /\ pc[s] = "create"
             /\ pc' = [pc EXCEPT ![s] = "list"]
             /\ UNCHANGED <<indexes, start, victim>>
          \/ pc[s] = "recreate" /\ Fails(s)
  /\ UNCHANGED stale

\* Broken: only an index with the same name is looked for.
SameNameOnly(s) == {s} \cap {n \in Name : Exists(n)}

\* Broken: any index that shares a field will do.
SharingAField(s) ==
  {n \in Name : Exists(n) /\ Fields[indexes[n].key] \cap Fields[Specs[s].key] # {}}

\* The indexes that may be dropped for s: the one of its name or, if there is
\* none, one with the same fields, in whatever order (findIndexWithSameKey).
Victims(s) ==
  IF Exists(s) THEN {s}
  ELSE {n \in Name : Exists(n) /\ Fields[indexes[n].key] = Fields[Specs[s].key]}

ListIndexes(s) ==
  /\ pc[s] = "list"
  /\ \/ /\ \E n \in Victims(s) : victim' = [victim EXCEPT ![s] = n]
        /\ pc' = [pc EXCEPT ![s] = "drop"]
        /\ UNCHANGED <<indexes, start>>
     \/ Victims(s) = {} /\ Fails(s)
  /\ UNCHANGED stale

DropIndex(s) ==
  /\ pc[s] = "drop"
  /\ IF Exists(victim[s])
     THEN /\ indexes' = [indexes EXCEPT ![victim[s]] = NoIndex]
          /\ pc' = [pc EXCEPT ![s] = "recreate"]
          /\ UNCHANGED <<start, victim>>
     ELSE Fails(s)
  /\ UNCHANGED stale

-----------------------------------------------------------------------------
\* Broken: the indexes no longer specified are kept.
StaleNone == {}

Stale == {n \in Name \ Specified : Exists(n)}

ListStale ==
  /\ start = "creating" /\ \A s \in Specified : pc[s] = "done"
  /\ stale' = Stale
  /\ start' = "dropping"
  /\ UNCHANGED <<indexes, pc, victim>>

DropStale(n) ==
  /\ n \in stale
  /\ indexes' = [indexes EXCEPT ![n] = NoIndex]
  /\ stale' = stale \ {n}
  /\ UNCHANGED <<start, pc, victim>>

Ready ==
  /\ start = "dropping" /\ stale = {}
  /\ start' = "ready"
  /\ UNCHANGED <<indexes, pc, victim, stale>>

IndexStep ==
  \/ \E s \in Specified : CreateIndex(s) \/ ListIndexes(s) \/ DropIndex(s)
  \/ ListStale \/ Ready
  \/ \E n \in Name : DropStale(n)

-----------------------------------------------------------------------------
(* Properties.                                                             *)

\* A server that is ready has the specified indexes and no others
\* (configureIndexesForCollection), whatever it found and however often it
\* was interrupted.
ReadyMeansConfigured ==
  start = "ready" =>
    /\ \A s \in Specified : indexes[s] = Specs[s]
    /\ \A n \in Name \ Specified : ~Exists(n)

\* An index that is as specified is never dropped, so that a unique index is
\* never missing ("create indexes that don't already exist").
KeepsMatching ==
  [][\A s \in Specified : indexes[s] = Specs[s] => indexes'[s] = Specs[s]]_indexVars
=============================================================================
