------------------------------- MODULE RepoSync -------------------------------
(***************************************************************************)
(* The permissions of users on repositories and the time of their last     *)
(* update, as copied from the git server by syncRepos: at login, on        *)
(* request and periodically.  A sync lists the user's repositories page by *)
(* page, removes the user from all repositories and adds them to those it  *)
(* listed.  Nothing keeps two syncs of a user apart, and on Gitlab the     *)
(* pages themselves move: they are ordered by the latest activity.         *)
(***************************************************************************)
EXTENDS Naturals, Sequences, FiniteSets, SequencesExt

CONSTANTS
  User,
  RepoList,      \* all repositories, in the order that the git server gives them of itself
  ByActivity,    \* the server is asked for another order: Gitlab
  AllowedRepo,   \* those of METROLINE_ORGS, all when it is empty
  Permission,
  None,          \* a user has no permission on a repository
  InitialRemote, \* permissions on the git server to begin with
  InitialActivity,
  PageSize,
  Sync,          \* identities of concurrent calls of syncRepos
  MaxEvents      \* bounds what happens on the git server, and the pipelines

Repo == ToSet(RepoList)

ASSUME SyncAssumption ==
  /\ RepoList \in Seq(Repo) /\ IsInjective(RepoList)
  /\ ByActivity \in BOOLEAN
  /\ AllowedRepo \subseteq Repo
  /\ None \notin Permission
  /\ InitialRemote \subseteq [User -> [Repo -> Permission \cup {None}]]
  /\ InitialActivity \in [Repo -> 0..Len(RepoList)]
  /\ PageSize \in Nat \ {0}
  /\ MaxEvents \in Nat

VARIABLES
  remote,        \* the permissions on the git server
  activity,      \* the last update of each repository there
  now,           \* the time of the latest event
  users,         \* the `users` of each repository: the permissions of each user, in order
  lastUpdate,    \* the `lastUpdate` of each repository
  syncs,         \* the calls under way
  calm,          \* the users whose last sync saw no other and no change
  events

gitServer == <<remote, activity>>
db == <<users, lastUpdate>>
syncVars == <<remote, activity, now, users, lastUpdate, syncs, calm, events>>

NoSync == [pc |-> "none"]

\* A repository on a page of the git server's list.  One that moved on while
\* the pages were read is on two of them.
Listed == [repo : Repo, permissions : Permission, lastUpdate : Nat, page : Nat \ {0}]

Call == [user : User, pc : {"list", "pull", "push"}, page : Nat \ {0},
         repos : SUBSET Listed, left : SUBSET (Repo \cup Listed)]

SyncTypeOK ==
  /\ remote \in [User -> [Repo -> Permission \cup {None}]]
  /\ now \in Nat
  /\ {activity, lastUpdate} \subseteq [Repo -> 0..now]
  /\ users \in [Repo -> [User -> Seq(Permission)]]
  /\ syncs \in [Sync -> Call \cup {NoSync}]
  /\ calm \subseteq User

SyncInit ==
  /\ remote \in InitialRemote
  /\ activity = InitialActivity
  /\ now = Len(RepoList)
  /\ users = [r \in Repo |-> [u \in User |-> <<>>]]
  /\ lastUpdate = activity
  /\ syncs = [s \in Sync |-> NoSync]
  /\ calm = {}
  /\ events = 0

-----------------------------------------------------------------------------
(* The git server.                                                         *)

Visible(u) == {r \in Repo : remote[u][r] # None}

Precedes(q, r) == \E i, j \in DOMAIN RepoList : i < j /\ q = RepoList[i] /\ r = RepoList[j]

\* `order_by: 'last_activity_at'`, where a push brings a repository to the front.
Before(q, r) ==
  IF ByActivity /\ activity[q] # activity[r] THEN activity[q] > activity[r] ELSE Precedes(q, r)

\* The number of repositories that the git server lists before this one.
Place(u, r) == Cardinality({q \in Visible(u) : Before(q, r)})

Page(u, page) ==
  {r \in Visible(u) : (page - 1) * PageSize <= Place(u, r) /\ Place(u, r) < page * PageSize}

\* Where no permission is stored, a change would move pages, as a push does.
ChangePermission(u, r, p) ==
  /\ events < MaxEvents /\ remote[u][r] # p /\ r \in AllowedRepo
  /\ remote' = [remote EXCEPT ![u][r] = p]
  /\ events' = events + 1
  /\ calm' = calm \ {u}
  /\ UNCHANGED <<activity, now, db, syncs>>

Running(u) == {s \in Sync : syncs[s] # NoSync /\ syncs[s].user = u}

\* Those for whom a list is read, whose next pages a push moves on Gitlab.
Moved == IF ByActivity THEN {u \in User : \E s \in Running(u) : syncs[s].pc = "list"} ELSE {}

Push(r) ==
  /\ events < MaxEvents
  /\ now' = now + 1
  /\ activity' = [activity EXCEPT ![r] = now']
  /\ events' = events + 1
  /\ calm' = calm \ Moved
  /\ UNCHANGED <<remote, db, syncs>>

-----------------------------------------------------------------------------
(* syncRepos.                                                              *)

Start(s, u) ==
  /\ syncs[s] = NoSync /\ s = CHOOSE free \in Sync : syncs[free] = NoSync
  /\ syncs' = [syncs EXCEPT ![s] = [user |-> u, pc |-> "list", page |-> 1, repos |-> {}, left |-> {}]]
  /\ calm' = IF Running(u) = {} THEN calm \cup {u} ELSE calm \ {u}
  /\ UNCHANGED <<gitServer, now, db, events>>

\* syncReposRoute, or a first login.
SyncReposRoute(s, u) == Start(s, u)

\* syncAllRepos, at every interval.  Neither looks for what is under way: how
\* many calls overlap is bounded by Sync alone.
SyncAllRepos(s, u) == Start(s, u)

RepoBelongsToOrg(r) == r \in AllowedRepo

FilterReposByOrg(repos) == {e \in repos : RepoBelongsToOrg(e.repo)}

\* listUserRepos, one page, until there is an empty one; then filterReposByOrg.
Entry(u, r, page) ==
  [repo |-> r, permissions |-> remote[u][r], lastUpdate |-> activity[r], page |-> page]

ListPage(s) ==
  LET sync == syncs[s]
      page == Page(sync.user, sync.page)
      entries == {Entry(sync.user, r, sync.page) : r \in page}
  IN /\ sync.pc = "list"
     /\ syncs' = [syncs EXCEPT ![s] =
          IF page = {}
          THEN [sync EXCEPT !.pc = "pull", !.left = AllowedRepo,
                            !.repos = FilterReposByOrg(@)]
          ELSE [sync EXCEPT !.page = @ + 1, !.repos = @ \cup entries]]
     /\ UNCHANGED <<gitServer, now, db, calm, events>>

\* The git server does not answer, or no longer accepts the user's token.
\* Requests have no time-out: one that is never answered ends the call as well,
\* as nothing waits for it.
ListFails(s) ==
  /\ syncs[s].pc = "list"
  /\ syncs' = [syncs EXCEPT ![s] = NoSync]
  /\ calm' = calm \ {syncs[s].user}
  /\ UNCHANGED <<gitServer, now, db, events>>

Without(list, u) == [list EXCEPT ![u] = <<>>]

\* Broken: the user is only removed from repositories that are listed.
PullListed(s, r) ==
  LET sync == syncs[s]
      listed == \E e \in sync.repos : e.repo = r
  IN /\ sync.pc = "pull" /\ r \in sync.left
     /\ users' = IF listed THEN [users EXCEPT ![r] = Without(@, sync.user)] ELSE users
     /\ syncs' = [syncs EXCEPT ![s].left = @ \ {r}]
     /\ UNCHANGED <<gitServer, now, lastUpdate, calm, events>>

\* The updateMany, one repository at a time.
Pull(s, r) ==
  LET sync == syncs[s]
  IN /\ sync.pc = "pull" /\ r \in sync.left
     /\ users' = [users EXCEPT ![r] = Without(@, sync.user)]
     /\ syncs' = [syncs EXCEPT ![s].left = @ \ {r}]
     /\ UNCHANGED <<gitServer, now, lastUpdate, calm, events>>

Pulled(s) ==
  LET sync == syncs[s]
  IN /\ sync.pc = "pull" /\ sync.left = {}
     /\ syncs' = [syncs EXCEPT ![s] = [sync EXCEPT !.pc = "push", !.left = sync.repos]]
     /\ UNCHANGED <<gitServer, now, db, calm, events>>

\* The upserts, all sent at once.  A repository that is not there yet is the
\* same as one without users.
Upsert(s, entry) ==
  LET sync == syncs[s]
  IN /\ sync.pc = "push" /\ entry \in sync.left
     /\ users' = [users EXCEPT ![entry.repo][sync.user] = Append(@, entry.permissions)]
     /\ lastUpdate' = [lastUpdate EXCEPT ![entry.repo] = entry.lastUpdate]
     /\ syncs' = [syncs EXCEPT ![s].left = @ \ {entry}]
     /\ UNCHANGED <<gitServer, now, calm, events>>

Done(s) ==
  /\ syncs[s].pc = "push" /\ syncs[s].left = {}
  /\ syncs' = [syncs EXCEPT ![s] = NoSync]
  /\ UNCHANGED <<gitServer, now, db, calm, events>>

\* setRepoLastUpdate, as createPipeline calls it.
SetRepoLastUpdate(r) ==
  /\ events < MaxEvents /\ r \in AllowedRepo
  /\ events' = events + 1
  /\ now' = now + 1
  /\ lastUpdate' = [lastUpdate EXCEPT ![r] = now']
  /\ UNCHANGED <<gitServer, users, syncs, calm>>

Step(s) ==
  \/ ListPage(s) \/ Pulled(s) \/ Done(s)
  \/ \E r \in Repo : Pull(s, r)
  \/ syncs[s].pc = "push" /\ \E entry \in syncs[s].left : Upsert(s, entry)

SyncNext ==
  \/ \E u \in User, r \in Repo, p \in Permission \cup {None} : ChangePermission(u, r, p)
  \/ \E r \in Repo : Push(r) \/ SetRepoLastUpdate(r)
  \/ \E s \in Sync, u \in User : SyncReposRoute(s, u) \/ SyncAllRepos(s, u)
  \/ \E s \in Sync : Step(s) \/ ListFails(s)

SyncSpec == SyncInit /\ [][SyncNext]_syncVars

\* Of the longest list, the empty page that ends it included.
Pages == 1..((Len(RepoList) + PageSize - 1) \div PageSize + 1)

-----------------------------------------------------------------------------
(* Properties.                                                             *)

Matches(u) ==
  \A r \in Repo :
    users[r][u] = IF r \in AllowedRepo /\ remote[u][r] # None THEN <<remote[u][r]>> ELSE <<>>

\* After a sync that no other sync of the same user overlapped, since whose
\* start the git server did not change the user's permissions and during whose
\* listing it did not move the pages, the user has exactly those permissions,
\* once each, whatever other users' syncs and pipelines did meanwhile (syncRepos).
CalmMatches ==
  \A u \in User : u \in calm /\ Running(u) = {} => Matches(u)

\* The state invariant: the variables are well typed, and calm syncs are exact.
SyncInv == SyncTypeOK /\ CalmMatches

\* Overlapping syncs, and pages that moved, leave permissions that are out of
\* date, double or missing.  Once a user's syncs no longer overlap, the periodic
\* one repairs that again and again (syncAllRepos).  While they overlap for ever,
\* when a sync takes longer than the interval, nothing does.
PermissionsSettle ==
  \A u \in User :
    <>[](Cardinality(Running(u)) <= 1) => []<>(Running(u) = {} /\ Matches(u))
=============================================================================
