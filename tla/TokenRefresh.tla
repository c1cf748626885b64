----------------------------- MODULE TokenRefresh -----------------------------
(***************************************************************************)
(* The OAuth tokens of users: stored when they log in, refreshed by a      *)
(* periodic task before they expire.  The git server accepts a refresh     *)
(* token once and then grants a new pair of tokens; a grant is such a      *)
(* pair.  Time is counted in ticks, down to what happens next.             *)
(***************************************************************************)
EXTENDS Naturals, FiniteSets

CONSTANTS
  Owner,           \* the users, whose tokens they are
  Grant,           \* identities of grants, used again once nobody holds them
  Period,          \* METROLINE_REFRESH_TOKEN_TASK_PERIOD
  Margin,          \* REFRESH_TOKEN_SAFETY_MARGIN
  Lifetime,        \* `expires_in` of an access token
  Latency,         \* the longest that the git server takes to answer
  MaxUnreachable,  \* bounds the requests that never reach the git server
  MaxLost          \* bounds the answers that are lost, with restarts

ASSUME TokenAssumption ==
  /\ {Period, Lifetime, Latency} \subseteq Nat \ {0}
  /\ {Margin, MaxUnreachable, MaxLost} \subseteq Nat

VARIABLES
  tokens,       \* the grant of each user in the database
  due,          \* ticks to its refreshTokenAt, 0 when that has passed
  ttl,          \* ticks to the expiry of each grant's access token
  accepted,     \* the grants whose refresh token the git server accepts
  taskIn,       \* ticks to the next run of the task
  requests,     \* the refreshes under way
  logins,       \* the logins under way: granted, not yet stored
  unreachable, lost,
  locked        \* users who lost a grant and have not logged in since

vars == <<tokens, due, ttl, accepted, taskIn, requests, logins, unreachable, lost, locked>>

\* The grant whose refresh token is sent, then the one that is granted.
Request ==
  [user : Owner, grant : Grant, state : {"sent", "granted", "refused"}, age : 0..Latency]

Login == [user : Owner, grant : Grant, age : 0..Latency]

TypeOK ==
  /\ tokens \in [Owner -> Grant]
  /\ due \in [Owner -> 0..Lifetime]
  /\ ttl \in [Grant -> 0..Lifetime]
  /\ accepted \subseteq Grant
  /\ taskIn \in 0..Period
  /\ requests \subseteq Request
  /\ logins \subseteq Login
  /\ unreachable \in 0..MaxUnreachable /\ lost \in 0..MaxLost
  /\ locked \subseteq Owner

\* Broken: tokens are refreshed when they expire.
NextDueAtExpiry == Lifetime

\* computeNextRefreshTokenTime: the margin counts from the moment of storing.
NextDue == IF Lifetime > Margin THEN Lifetime - Margin ELSE 0

Init ==
  /\ tokens \in [Owner -> Grant]
  /\ \A u, v \in Owner : tokens[u] = tokens[v] => u = v
  /\ due = [u \in Owner |-> NextDue]
  /\ ttl = [g \in Grant |-> Lifetime]
  /\ accepted = {tokens[u] : u \in Owner}
  /\ taskIn = 0
  /\ requests = {}
  /\ logins = {}
  /\ unreachable = 0 /\ lost = 0
  /\ locked = {}

-----------------------------------------------------------------------------
Aged(w) == [w EXCEPT !.age = @ + 1]

Granted(r, g) == [r EXCEPT !.state = "granted", !.grant = g]

Refused(r) == [r EXCEPT !.state = "refused"]

Held ==
  {tokens[u] : u \in Owner} \cup {r.grant : r \in requests} \cup {l.grant : l \in logins}

Free == Grant \ Held

\* Time passes only when everything due at this moment has happened.  Grants
\* that nobody holds any more are forgotten.
Tick ==
  /\ taskIn > 0
  /\ \A r \in requests : r.age < Latency
  /\ \A l \in logins : l.age < Latency
  /\ taskIn' = taskIn - 1
  /\ due' = [u \in Owner |-> IF due[u] > 0 THEN due[u] - 1 ELSE 0]
  /\ ttl' = [g \in Grant |->
               IF g \notin Held THEN Lifetime ELSE IF ttl[g] > 0 THEN ttl[g] - 1 ELSE 0]
  /\ accepted' = accepted \cap Held
  /\ requests' = {Aged(r) : r \in requests}
  /\ logins' = {Aged(l) : l \in logins}
  /\ UNCHANGED <<tokens, unreachable, lost, locked>>

DueUsers == {u \in Owner : due[u] = 0}

\* Every period, for each user whose time has come, also when an earlier
\* refresh of theirs is still under way.
RefreshAuthTokens ==
  /\ taskIn = 0
  /\ taskIn' = Period
  /\ requests' = requests \cup
       {[user |-> u, grant |-> tokens[u], state |-> "sent", age |-> 0] : u \in DueUsers}
  /\ UNCHANGED <<tokens, due, ttl, accepted, logins, unreachable, lost, locked>>

Answer(r, s) == requests' = (requests \ {r}) \cup {s}

\* The git server uses the refresh token up and grants new ones, or refuses
\* the one it no longer accepts.
ServerAnswers(r) ==
  /\ r.state = "sent"
  /\ IF r.grant \in accepted
     THEN \E g \in Free :
            /\ Answer(r, Granted(r, g))
            /\ accepted' = (accepted \ {r.grant}) \cup {g}
            /\ ttl' = [ttl EXCEPT ![g] = Lifetime]
     ELSE Answer(r, Refused(r)) /\ UNCHANGED <<accepted, ttl>>
  /\ UNCHANGED <<tokens, due, taskIn, logins, unreachable, lost, locked>>

Unreachable(r) ==
  /\ r.state = "sent" /\ unreachable < MaxUnreachable
  /\ Answer(r, Refused(r))
  /\ unreachable' = unreachable + 1
  /\ UNCHANGED <<tokens, due, ttl, accepted, taskIn, logins, lost, locked>>

\* Broken: whatever the answer, its tokens are stored.
StoresAny(r) == r.state # "sent"

Stores(r) == r.state = "granted"

\* The updateOne of refreshTokenOfUser, or its catch, which only logs.
Receive(r) ==
  /\ r.state # "sent"
  /\ requests' = requests \ {r}
  /\ IF Stores(r)
     THEN /\ tokens' = [tokens EXCEPT ![r.user] = r.grant]
          /\ due' = [due EXCEPT ![r.user] = NextDue]
     ELSE UNCHANGED <<tokens, due>>
  /\ UNCHANGED <<ttl, accepted, taskIn, logins, unreachable, lost, locked>>

\* The git server's grant reaches the OAuth callback, and then the database.
LogIn(u) ==
  /\ \A l \in logins : l.user # u
  /\ \E g \in Free :
       /\ logins' = logins \cup {[user |-> u, grant |-> g, age |-> 0]}
       /\ accepted' = accepted \cup {g}
       /\ ttl' = [ttl EXCEPT ![g] = Lifetime]
  /\ UNCHANGED <<tokens, due, taskIn, requests, unreachable, lost, locked>>

CreateOrUpdateUser(l) ==
  /\ logins' = logins \ {l}
  /\ tokens' = [tokens EXCEPT ![l.user] = l.grant]
  /\ due' = [due EXCEPT ![l.user] = NextDue]
  /\ locked' = locked \ {l.user}
  /\ UNCHANGED <<ttl, accepted, taskIn, requests, unreachable, lost>>

\* The request for the user's profile fails, or none of their organisations may
\* log in: the grant is dropped.
LogInFails(l) ==
  /\ logins' = logins \ {l}
  /\ UNCHANGED <<tokens, due, ttl, accepted, taskIn, requests, unreachable, lost, locked>>

\* An answer is lost on its way, or everything under way with the server; it
\* starts with a run of the task.
Lose(r) ==
  /\ r.state = "granted" /\ lost < MaxLost
  /\ requests' = requests \ {r}
  /\ lost' = lost + 1
  /\ locked' = locked \cup {r.user}
  /\ UNCHANGED <<tokens, due, ttl, accepted, taskIn, logins, unreachable>>

Restart ==
  /\ lost < MaxLost
  /\ requests' = {} /\ logins' = {}
  /\ taskIn' = 0
  /\ lost' = lost + 1
  /\ locked' = locked \cup {r.user : r \in {q \in requests : q.state = "granted"}}
  /\ UNCHANGED <<tokens, due, ttl, accepted, unreachable>>

Next ==
  \/ Tick \/ RefreshAuthTokens \/ Restart
  \/ \E r \in requests : ServerAnswers(r) \/ Unreachable(r) \/ Receive(r) \/ Lose(r)
  \/ \E u \in Owner : LogIn(u)
  \/ \E l \in logins : CreateOrUpdateUser(l) \/ LogInFails(l)

Spec == Init /\ [][Next]_vars

-----------------------------------------------------------------------------
(* Properties.                                                             *)

\* Unless an answer was lost, the refresh token in the database is accepted by
\* the git server or its successor is on the way, whatever refreshes and
\* logins overlap (refreshTokenOfUser, createOrUpdateUser).  After a loss, the
\* next login is enough to repair it.
StoredIsUsable ==
  \A u \in Owner \ locked :
    \/ tokens[u] \in accepted
    \/ \E r \in requests : r.user = u /\ r.state = "granted" /\ r.grant \in accepted

\* The ticks that may pass after a grant is due until its successor is stored:
\* the time that it took to be stored itself, a period, and twice an answer, as
\* a request is refused when a later one has been granted first.  A request that
\* fails waits for the next run, a restart for a new answer.
Needed == Period + 3 * Latency + MaxUnreachable * (Period + Latency) + MaxLost * Latency

\* What the constants must satisfy for stored tokens to be fresh.
MarginCovers == Margin > Needed /\ Lifetime > Needed

\* The access token in the database has not expired: the margin covers the
\* period of the task, the time to store a grant and the time to get the next.
StoredIsFresh ==
  \A u \in Owner \ locked : ttl[tokens[u]] > 0

\* The state invariant: the variables are well typed, and stored tokens usable.
TokenInv == TypeOK /\ StoredIsUsable
=============================================================================
