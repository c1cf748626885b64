----------------------------- MODULE RepoListing -----------------------------
(***************************************************************************)
(* The list of repositories as a browser reads it, page by page            *)
(* (listReposRoute), while syncRepos rewrites the permissions and the       *)
(* times of last update that decide what is in it and in which order.       *)
(* Each page is two readings: the count, and then the page itself.          *)
(***************************************************************************)
EXTENDS RepoSync

CONSTANTS
  PublicRepo,
  PullPermission,   \* the permissions that have `pull`
  NoUser,           \* who is not signed in
  RequireLogin,     \* METROLINE_REQUIRE_LOGIN_FOR_PUBLIC_REPOS
  RequestedSize,    \* values of `size`, where 0 is also one that is left out
  DefaultSize

ASSUME ListingAssumption ==
  /\ PublicRepo \subseteq Repo
  /\ PullPermission \subseteq Permission
  /\ NoUser \notin User
  /\ RequireLogin \in BOOLEAN
  /\ RequestedSize \subseteq Nat
  /\ DefaultSize \in Nat \ {0}

VARIABLES
  stored,        \* the repositories in the database
  walk           \* a browser that reads page after page

listVars == <<stored, walk>>
allVars == <<syncVars, listVars>>

NoWalk == [pc |-> "none"]

Walk == [pc : {"count", "find", "done"}, user : User \cup {NoUser}, size : Nat \ {0},
         page : Nat, count : Nat, seen : SUBSET Repo,
         still : SUBSET Repo]     \* history: those in the list ever since, and not updated or tied

ListTypeOK ==
  /\ stored \subseteq AllowedRepo
  /\ walk \in Walk \cup {NoWalk}
  /\ \A r \in Repo : r \notin stored => \A u \in User : users[r][u] = <<>>

ListInit ==
  /\ SyncInit
  /\ stored = {}
  /\ walk = NoWalk

-----------------------------------------------------------------------------
(* Who may see what.                                                       *)

\* The two conditions of userCanPullQuery may be met by two entries of `users`.
UserCanPull(user, r, entries) ==
  /\ entries[r][user] # <<>>
  /\ \E u \in User : ToSet(entries[r][u]) \cap PullPermission # {}

UserCanPullDbQuery(user, entries, repos) ==
  {r \in repos :
     \/ user # NoUser /\ UserCanPull(user, r, entries)
     \/ ~RequireLogin /\ r \in PublicRepo}

\* What a listing of the user is cut from.
Pullable(user) == UserCanPullDbQuery(user, users, stored)

Untied(repos, time) == {r \in repos : \A q \in repos \ {r} : time[q] # time[r]}

-----------------------------------------------------------------------------
(* listReposRoute.                                                         *)

\* Broken: the oldest come first.
SortedUp(repos) ==
  {list \in [1..Cardinality(repos) -> repos] :
     \A i, j \in DOMAIN list : i < j =>
       list[i] # list[j] /\ lastUpdate[list[i]] <= lastUpdate[list[j]]}

\* `sort({ lastUpdate: -1 })`; repositories of the same time come in any order.
Sorted(repos) ==
  {list \in [1..Cardinality(repos) -> repos] :
     \A i, j \in DOMAIN list : i < j =>
       list[i] # list[j] /\ lastUpdate[list[i]] >= lastUpdate[list[j]]}

Offset(page, size) == page * size

\* Skip and limit.
PageOf(list, page, size) ==
  {list[i] : i \in DOMAIN list \cap (Offset(page, size) + 1)..(Offset(page, size) + size)}

Open(user, requested) ==
  /\ walk = NoWalk
  /\ walk' = [pc |-> IF RequireLogin /\ user = NoUser THEN "done" ELSE "count",
              user |-> user, size |-> IF requested = 0 THEN DefaultSize ELSE requested,
              page |-> 0, count |-> 0, seen |-> {},
              still |-> IF RequireLogin /\ user = NoUser THEN {} ELSE Untied(Pullable(user), lastUpdate)]
  /\ UNCHANGED <<syncVars, stored>>

Count ==
  /\ walk.pc = "count"
  /\ walk' = [walk EXCEPT !.pc = "find", !.count = Cardinality(Pullable(walk.user))]
  /\ UNCHANGED <<syncVars, stored>>

\* The page is answered, and the browser asks for the next one if the count
\* says that there is one.
Find ==
  /\ walk.pc = "find"
  /\ \E list \in Sorted(Pullable(walk.user)) :
       LET more == (walk.page + 1) * walk.size < walk.count
       IN walk' = [walk EXCEPT
            !.seen = @ \cup PageOf(list, walk.page, walk.size),
            !.pc = IF more THEN "count" ELSE "done",
            !.page = IF more THEN @ + 1 ELSE @]
  /\ UNCHANGED <<syncVars, stored>>

Close ==
  /\ walk.pc = "done"
  /\ walk' = NoWalk
  /\ UNCHANGED <<syncVars, stored>>

-----------------------------------------------------------------------------
(* The syncs and pipelines meanwhile.                                      *)

\* An upsert leaves the user in the repository that it inserted.
StoredNext == stored \cup {r \in Repo : \E u \in User : users'[r][u] # <<>>}

\* A repository joined the list, left it, or sank in it.
Shaken ==
  LET after == UserCanPullDbQuery(walk.user, users', StoredNext)
  IN after # Pullable(walk.user) \/ \E r \in after : lastUpdate'[r] < lastUpdate[r]

\* Nothing depends on the browser: one that has read all pages is not followed
\* any further, nor is one whose list was shaken, and that may miss repositories
\* for that reason.
Follow ==
  IF Shaken THEN NoWalk
  ELSE [walk EXCEPT !.still = {r \in @ \cap Untied(Pullable(walk.user), lastUpdate') :
                                 lastUpdate'[r] = lastUpdate[r]}]

Recorded ==
  /\ stored' = StoredNext
  /\ walk' = IF walk.pc \in {"count", "find"} THEN Follow ELSE NoWalk

Meanwhile == SyncNext /\ Recorded

ListNext ==
  \/ \E user \in User \cup {NoUser}, requested \in RequestedSize : Open(user, requested)
  \/ Count \/ Find \/ Close
  \/ Meanwhile

ListSpec == ListInit /\ [][ListNext]_allVars

\* The interval comes round (setInterval), the database answers, and the git
\* server works: a page that is asked for again and again is answered at last.
ListFairSpec ==
  /\ ListSpec
  /\ \A s \in Sync : WF_allVars(Step(s) /\ Recorded)
  /\ \A u \in User :
       /\ WF_allVars((\E s \in Sync : SyncAllRepos(s, u)) /\ Recorded)
       /\ \A n \in Pages :
            SF_allVars((\E s \in Running(u) : syncs[s].page = n /\ ListPage(s)) /\ Recorded)

-----------------------------------------------------------------------------
(* Properties.                                                             *)

\* Pipelines that are created while a listing is read move their repository
\* to the front, past what was read already.  They make a browser see others
\* twice, but miss none that stayed where it was: only a sync, which takes
\* repositories out of the list and sets their time back, may do that.
NothingPassesUnseen ==
  walk.pc = "done" =>
    walk.still \subseteq walk.seen /\ Cardinality(walk.seen) <= walk.count

\* The state invariant: the syncs are exact, and listings complete.
ListInv == ListTypeOK /\ SyncInv /\ NothingPassesUnseen
=============================================================================
