----------------------------- MODULE SyncProofs -----------------------------
(***************************************************************************)
(* What the server keeps in step with the git servers, and what it makes   *)
(* of it: the tokens of TokenRefresh, and the repositories of RepoSync and *)
(* RepoListing, which share no state.                                      *)
(*                                                                         *)
(* A stored refresh token is usable, and its access token fresh if the     *)
(* margin covers the waits that may precede its renewal, for any users,    *)
(* periods and latencies, and any number of requests and answers that are  *)
(* lost.  A sync that nothing disturbs is exact, and a list of             *)
(* repositories that only pipelines disturb misses none, for any users,    *)
(* repositories and pages.                                                 *)
(***************************************************************************)
EXTENDS TokenRefresh, RepoListing, FiniteSetTheorems, TLAPS

-----------------------------------------------------------------------------
(* The tokens of users (TokenRefresh).                                     *)

LEMMA Constants ==
  /\ Period \in Nat /\ Lifetime \in Nat /\ Latency \in Nat /\ Margin \in Nat
  /\ Period > 0 /\ Lifetime > 0 /\ Latency > 0
  /\ MaxUnreachable \in Nat /\ MaxLost \in Nat
BY TokenAssumption DEF TokenAssumption

LEMMA NextDueType == NextDue \in 0..Lifetime
BY Constants DEF NextDue

LEMMA RequestShape ==
  ASSUME NEW r \in Request
  PROVE  /\ r.user \in Owner /\ r.grant \in Grant /\ r.age \in 0..Latency
         /\ r.state \in {"sent", "granted", "refused"}
BY DEF Request

\* A request changes its state, its grant or its age, and nothing else.
LEMMA RequestAges ==
  ASSUME NEW r \in Request
  PROVE  /\ r.age < Latency => Aged(r) \in Request
         /\ Aged(r).age = r.age + 1 /\ Aged(r).user = r.user
         /\ Aged(r).grant = r.grant /\ Aged(r).state = r.state
<1>1. r.age < Latency => r.age + 1 \in 0..Latency
  BY Constants, RequestShape
<1> QED
  BY <1>1 DEF Request, Aged

LEMMA LoginAges ==
  ASSUME NEW l \in Login
  PROVE  /\ l.age < Latency => Aged(l) \in Login
         /\ Aged(l).age = l.age + 1 /\ Aged(l).user = l.user /\ Aged(l).grant = l.grant
<1>1. l.age < Latency => l.age + 1 \in 0..Latency
  BY Constants DEF Login
<1> QED
  BY <1>1 DEF Login, Aged

LEMMA RequestGranted ==
  ASSUME NEW r \in Request, NEW g \in Grant
  PROVE  /\ Granted(r, g) \in Request
         /\ Granted(r, g).user = r.user /\ Granted(r, g).grant = g
         /\ Granted(r, g).state = "granted" /\ Granted(r, g).age = r.age
BY DEF Request, Granted

LEMMA RequestRefused ==
  ASSUME NEW r \in Request
  PROVE  /\ Refused(r) \in Request
         /\ Refused(r).user = r.user /\ Refused(r).grant = r.grant
         /\ Refused(r).state = "refused" /\ Refused(r).age = r.age
BY DEF Request, Refused

LEMMA TypeInit == Init => TypeOK
BY Constants, NextDueType DEF Init, TypeOK

LEMMA TypeStep == TypeOK /\ [Next]_vars => TypeOK'
<1> SUFFICES ASSUME TypeOK, [Next]_vars PROVE TypeOK'
  OBVIOUS
<1> USE DEF TypeOK
<1>1. CASE Tick
  <2>1. requests' \subseteq Request /\ logins' \subseteq Login
    BY <1>1, RequestAges, LoginAges DEF Tick
  <2>2. due' \in [Owner -> 0..Lifetime] /\ ttl' \in [Grant -> 0..Lifetime] /\ taskIn' \in 0..Period
    BY <1>1, Constants DEF Tick
  <2> QED
    BY <1>1, <2>1, <2>2 DEF Tick
<1>2. CASE RefreshAuthTokens
  <2>1. requests' \subseteq Request
    BY <1>2, Constants DEF RefreshAuthTokens, DueUsers, Request
  <2> QED
    BY <1>2, <2>1, Constants DEF RefreshAuthTokens
<1>3. CASE Restart
  <2>1. locked' \subseteq Owner
    BY <1>3, RequestShape DEF Restart
  <2>2. lost' \in 0..MaxLost /\ taskIn' \in 0..Period
    BY <1>3, Constants DEF Restart
  <2> QED
    BY <1>3, <2>1, <2>2 DEF Restart
<1>4. ASSUME NEW r \in requests, ServerAnswers(r) PROVE TypeOK'
  <2>1. Lifetime \in 0..Lifetime
    BY Constants
  <2>2. CASE r.grant \in accepted
    <3>1. PICK g \in Free :
            /\ Answer(r, Granted(r, g))
            /\ accepted' = (accepted \ {r.grant}) \cup {g}
            /\ ttl' = [ttl EXCEPT ![g] = Lifetime]
      BY <1>4, <2>2 DEF ServerAnswers
    <3>2. g \in Grant
      BY DEF Free
    <3>3. requests' \subseteq Request
      BY <3>1, <3>2, RequestGranted DEF Answer
    <3>4. ttl' \in [Grant -> 0..Lifetime] /\ accepted' \subseteq Grant
      BY <2>1, <3>1, <3>2
    <3> QED
      BY <1>4, <3>3, <3>4 DEF ServerAnswers
  <2>3. CASE r.grant \notin accepted
    <3>1. requests' \subseteq Request
      BY <1>4, <2>3, RequestRefused, RequestShape DEF ServerAnswers, Answer
    <3> QED
      BY <1>4, <2>3, <3>1 DEF ServerAnswers
  <2> QED
    BY <2>2, <2>3
<1>5. ASSUME NEW r \in requests, Unreachable(r) PROVE TypeOK'
  <2>1. requests' \subseteq Request
    BY <1>5, RequestRefused DEF Unreachable, Answer
  <2> QED
    BY <1>5, <2>1, Constants DEF Unreachable
<1>6. ASSUME NEW r \in requests, Receive(r) PROVE TypeOK'
  BY <1>6, NextDueType, RequestShape DEF Receive
<1>7. ASSUME NEW r \in requests, Lose(r) PROVE TypeOK'
  BY <1>7, Constants, RequestShape DEF Lose
<1>8. ASSUME NEW u \in Owner, LogIn(u) PROVE TypeOK'
  BY <1>8, Constants DEF LogIn, Login, Free
<1>9. ASSUME NEW l \in logins, CreateOrUpdateUser(l) \/ LogInFails(l) PROVE TypeOK'
  BY <1>9, NextDueType DEF CreateOrUpdateUser, LogInFails, Login
<1>10. CASE UNCHANGED vars
  BY <1>10 DEF vars
<1> QED
  BY <1>1, <1>2, <1>3, <1>4, <1>5, <1>6, <1>7, <1>8, <1>9, <1>10 DEF Next

LEMMA TypeAlways == Spec => []TypeOK
BY TypeInit, TypeStep, PTL DEF Spec

-----------------------------------------------------------------------------
(* Who holds a grant.                                                      *)

OnTheWay(r) == r.state = "granted"

StoredApart == \A u, v \in Owner : tokens[u] = tokens[v] => u = v

\* A grant that is on its way is nobody else's; one whose refresh token is sent
\* is that of the same user, whose time has come.
RequestInv ==
  \A r \in requests :
    /\ OnTheWay(r) => r.grant \in accepted
    /\ \A u \in Owner : tokens[u] = r.grant => u = r.user /\ ~OnTheWay(r) /\ due[u] = 0
    /\ \A q \in requests : q.grant = r.grant => q.user = r.user /\ (OnTheWay(r) => q = r)

LoginInv ==
  \A l \in logins :
    /\ l.grant \in accepted
    /\ \A u \in Owner : tokens[u] # l.grant
    /\ \A r \in requests : r.grant # l.grant
    /\ \A k \in logins : k.grant = l.grant => k = l

HolderInv == StoredApart /\ RequestInv /\ LoginInv

LEMMA HolderInit == Init => HolderInv
BY DEF Init, HolderInv, StoredApart, RequestInv, LoginInv

LEMMA HolderTick == TypeOK /\ HolderInv /\ Tick => HolderInv'
<1> SUFFICES ASSUME TypeOK, HolderInv, Tick PROVE HolderInv'
  OBVIOUS
<1> USE DEF TypeOK, HolderInv
<1>1. tokens' = tokens /\ accepted' = accepted \cap Held
  BY DEF Tick
<1>2. \A u \in Owner : due[u] = 0 => due'[u] = 0
  BY DEF Tick
<1>3. \A w \in requests' : \E r \in requests :
        /\ w = Aged(r) /\ w.user = r.user /\ w.grant = r.grant /\ w.state = r.state
  BY RequestAges DEF Tick
<1>4. \A w \in logins' : \E l \in logins : w = Aged(l) /\ w.grant = l.grant
  BY LoginAges DEF Tick
<1>5. \A r \in requests : r.grant \in Held
  BY DEF Held
<1>6. \A l \in logins : l.grant \in Held
  BY DEF Held
<1>7. StoredApart'
  BY <1>1 DEF StoredApart
<1>8. RequestInv'
  BY <1>1, <1>2, <1>3, <1>5 DEF RequestInv, OnTheWay
<1>9. LoginInv'
  BY <1>1, <1>3, <1>4, <1>6 DEF LoginInv
<1> QED
  BY <1>7, <1>8, <1>9

LEMMA HolderRefresh == TypeOK /\ HolderInv /\ RefreshAuthTokens => HolderInv'
<1> SUFFICES ASSUME TypeOK, HolderInv, RefreshAuthTokens PROVE HolderInv'
  OBVIOUS
<1> USE DEF TypeOK, HolderInv
<1>1. UNCHANGED <<tokens, due, accepted, logins>>
  BY DEF RefreshAuthTokens
<1>2. \A r \in requests' : r \in requests \/
        \E u \in Owner : /\ due[u] = 0 /\ r.user = u /\ r.grant = tokens[u] /\ r.state = "sent"
  BY DEF RefreshAuthTokens, DueUsers
<1>3. RequestInv'
  BY <1>1, <1>2 DEF RequestInv, StoredApart, OnTheWay
<1>4. LoginInv'
  BY <1>1, <1>2 DEF LoginInv
<1> QED
  BY <1>1, <1>3, <1>4 DEF StoredApart

\* A request that ends in a refusal keeps the grant that it was sent with.
LEMMA HolderRefused ==
  ASSUME TypeOK, HolderInv, NEW r \in requests, r.state = "sent",
         Answer(r, Refused(r)), UNCHANGED <<tokens, due, accepted, logins>>
  PROVE  HolderInv'
<1> USE DEF TypeOK, HolderInv
<1>1. \A w \in requests' : \E q \in requests :
        /\ w.user = q.user /\ w.grant = q.grant
        /\ OnTheWay(w) => w = q
        /\ OnTheWay(q) => w = q
  BY RequestRefused DEF Answer, OnTheWay
<1>2. RequestInv'
  BY <1>1 DEF RequestInv, OnTheWay
<1>3. LoginInv'
  BY <1>1 DEF LoginInv
<1> QED
  BY <1>2, <1>3 DEF StoredApart

LEMMA HolderGranted ==
  ASSUME TypeOK, HolderInv, NEW r \in requests, r.state = "sent", NEW g \in Free,
         Answer(r, Granted(r, g)), accepted' = (accepted \ {r.grant}) \cup {g},
         UNCHANGED <<tokens, due, logins>>
  PROVE  HolderInv'
<1> USE DEF TypeOK, HolderInv
<1>1. /\ g \in Grant
      /\ \A u \in Owner : tokens[u] # g
      /\ \A q \in requests : q.grant # g
      /\ \A l \in logins : l.grant # g
  BY DEF Free, Held
<1>2. \A w \in requests' : w \in requests \ {r} \/ w = Granted(r, g)
  BY DEF Answer
<1>3. Granted(r, g).user = r.user /\ Granted(r, g).grant = g /\ OnTheWay(Granted(r, g))
  BY <1>1, RequestGranted DEF OnTheWay
<1>4. \A q \in requests : OnTheWay(q) => q.grant # r.grant
  BY DEF RequestInv, OnTheWay
<1>5. RequestInv'
  BY <1>1, <1>2, <1>3, <1>4 DEF RequestInv, OnTheWay
<1>6. LoginInv'
  BY <1>1, <1>2, <1>3 DEF LoginInv
<1> QED
  BY <1>5, <1>6 DEF StoredApart

LEMMA HolderReceive ==
  ASSUME TypeOK, HolderInv, NEW r \in requests, Receive(r)
  PROVE  HolderInv'
<1> USE DEF TypeOK, HolderInv
<1>1. requests' = requests \ {r} /\ UNCHANGED <<accepted, logins>>
  BY DEF Receive
<1>2. CASE OnTheWay(r)
  <2>1. r.user \in Owner /\ r.grant \in Grant
    BY RequestShape
  <2>2. /\ tokens' = [tokens EXCEPT ![r.user] = r.grant]
        /\ due' = [due EXCEPT ![r.user] = NextDue]
    BY <1>2 DEF Receive, Stores, OnTheWay
  <2>3. /\ \A u \in Owner : tokens[u] # r.grant
        /\ \A q \in requests \ {r} : q.grant # r.grant
        /\ \A l \in logins : l.grant # r.grant
    BY <1>2 DEF RequestInv, LoginInv
  <2>4. StoredApart'
    BY <2>1, <2>2, <2>3 DEF StoredApart
  <2>5. RequestInv'
    BY <1>1, <2>1, <2>2, <2>3 DEF RequestInv, OnTheWay
  <2>6. LoginInv'
    BY <1>1, <2>1, <2>2, <2>3 DEF LoginInv
  <2> QED
    BY <2>4, <2>5, <2>6
<1>3. CASE ~OnTheWay(r)
  <2>1. UNCHANGED <<tokens, due>>
    BY <1>3 DEF Receive, Stores, OnTheWay
  <2> QED
    BY <1>1, <2>1 DEF StoredApart, RequestInv, LoginInv, OnTheWay
<1> QED
  BY <1>2, <1>3

LEMMA HolderLogIn ==
  ASSUME TypeOK, HolderInv, NEW u \in Owner, LogIn(u)
  PROVE  HolderInv'
<1> USE DEF TypeOK, HolderInv
<1>1. PICK g \in Free :
        /\ logins' = logins \cup {[user |-> u, grant |-> g, age |-> 0]}
        /\ accepted' = accepted \cup {g}
  BY DEF LogIn
<1>2. UNCHANGED <<tokens, due, requests>>
  BY DEF LogIn
<1>3. /\ \A v \in Owner : tokens[v] # g
      /\ \A q \in requests : q.grant # g
      /\ \A l \in logins : l.grant # g
  BY DEF Free, Held
<1>4. LoginInv'
  BY <1>1, <1>2, <1>3 DEF LoginInv
<1> QED
  BY <1>1, <1>2, <1>4 DEF StoredApart, RequestInv, OnTheWay

LEMMA HolderStored ==
  ASSUME TypeOK, HolderInv, NEW l \in logins, CreateOrUpdateUser(l)
  PROVE  HolderInv'
<1> USE DEF TypeOK, HolderInv
<1>1. /\ logins' = logins \ {l} /\ UNCHANGED <<accepted, requests>>
      /\ tokens' = [tokens EXCEPT ![l.user] = l.grant]
      /\ due' = [due EXCEPT ![l.user] = NextDue]
  BY DEF CreateOrUpdateUser
<1>2. l.user \in Owner /\ l.grant \in Grant
  BY DEF Login
<1>3. /\ \A u \in Owner : tokens[u] # l.grant
      /\ \A r \in requests : r.grant # l.grant
      /\ \A k \in logins \ {l} : k.grant # l.grant
  BY DEF LoginInv
<1>4. StoredApart'
  BY <1>1, <1>2, <1>3 DEF StoredApart
<1>5. RequestInv'
  BY <1>1, <1>2, <1>3 DEF RequestInv, OnTheWay
<1>6. LoginInv'
  BY <1>1, <1>2, <1>3 DEF LoginInv
<1> QED
  BY <1>4, <1>5, <1>6

LEMMA HolderStep == TypeOK /\ HolderInv /\ [Next]_vars => HolderInv'
<1> SUFFICES ASSUME TypeOK, HolderInv, [Next]_vars PROVE HolderInv'
  OBVIOUS
<1>1. CASE Tick
  BY <1>1, HolderTick
<1>2. CASE RefreshAuthTokens
  BY <1>2, HolderRefresh
<1>3. CASE Restart
  BY <1>3 DEF Restart, HolderInv, StoredApart, RequestInv, LoginInv
<1>4. ASSUME NEW r \in requests, ServerAnswers(r) PROVE HolderInv'
  <2>1. CASE r.grant \in accepted
    BY <1>4, <2>1, HolderGranted DEF ServerAnswers
  <2>2. CASE r.grant \notin accepted
    BY <1>4, <2>2, HolderRefused DEF ServerAnswers
  <2> QED
    BY <2>1, <2>2
<1>5. ASSUME NEW r \in requests, Unreachable(r) PROVE HolderInv'
  BY <1>5, HolderRefused DEF Unreachable
<1>6. ASSUME NEW r \in requests, Receive(r) PROVE HolderInv'
  BY <1>6, HolderReceive
<1>7. ASSUME NEW r \in requests, Lose(r) PROVE HolderInv'
  BY <1>7 DEF Lose, HolderInv, StoredApart, RequestInv, LoginInv, OnTheWay
<1>8. ASSUME NEW u \in Owner, LogIn(u) PROVE HolderInv'
  BY <1>8, HolderLogIn
<1>9. ASSUME NEW l \in logins, CreateOrUpdateUser(l) PROVE HolderInv'
  BY <1>9, HolderStored
<1>10. ASSUME NEW l \in logins, LogInFails(l) PROVE HolderInv'
  BY <1>10 DEF LogInFails, HolderInv, StoredApart, RequestInv, LoginInv, OnTheWay
<1>11. CASE UNCHANGED vars
  BY <1>11 DEF vars, HolderInv, StoredApart, RequestInv, LoginInv, OnTheWay
<1> QED
  BY <1>1, <1>2, <1>3, <1>4, <1>5, <1>6, <1>7, <1>8, <1>9, <1>10, <1>11 DEF Next

-----------------------------------------------------------------------------
(* A stored refresh token is usable.                                       *)

Pending(u) == \E r \in requests : r.user = u /\ OnTheWay(r)

UsableInv == \A u \in Owner \ locked : tokens[u] \in accepted \/ Pending(u)

LEMMA UsableInit == Init => UsableInv
BY DEF Init, UsableInv

LEMMA UsableTick == TypeOK /\ UsableInv /\ Tick => UsableInv'
<1> SUFFICES ASSUME TypeOK, UsableInv, Tick, NEW u \in Owner \ locked
             PROVE  (tokens[u] \in accepted \/ Pending(u))'
  BY DEF UsableInv, Tick
<1>1. tokens[u] \in Held
  BY DEF Held
<1>2. Pending(u) => Pending(u)'
  BY RequestAges DEF Pending, Tick, OnTheWay, TypeOK
<1> QED
  BY <1>1, <1>2 DEF UsableInv, Tick

\* The refresh token of a request that is granted was that of its user, who
\* now waits for the answer.
LEMMA UsableGranted ==
  ASSUME TypeOK, HolderInv, UsableInv, NEW r \in requests, r.state = "sent",
         NEW g \in Free, Answer(r, Granted(r, g)),
         accepted' = (accepted \ {r.grant}) \cup {g}, UNCHANGED <<tokens, locked>>
  PROVE  UsableInv'
<1> SUFFICES ASSUME NEW u \in Owner \ locked PROVE (tokens[u] \in accepted \/ Pending(u))'
  BY DEF UsableInv
<1>1. g \in Grant
  BY DEF Free
<1>2. Granted(r, g) \in requests' /\ OnTheWay(Granted(r, g)) /\ Granted(r, g).user = r.user
  BY <1>1, RequestGranted DEF Answer, TypeOK, OnTheWay
<1>3. CASE tokens[u] = r.grant
  <2>1. u = r.user
    BY <1>3 DEF HolderInv, RequestInv
  <2> QED
    BY <1>2, <2>1 DEF Pending
<1>4. CASE tokens[u] # r.grant
  <2>1. Pending(u) => Pending(u)'
    BY DEF Pending, Answer, OnTheWay
  <2> QED
    BY <1>4, <2>1 DEF UsableInv
<1> QED
  BY <1>3, <1>4

LEMMA UsableRefused ==
  ASSUME UsableInv, NEW r \in requests, r.state = "sent",
         Answer(r, Refused(r)), UNCHANGED <<tokens, accepted, locked>>
  PROVE  UsableInv'
BY DEF UsableInv, Pending, Answer, OnTheWay

LEMMA UsableReceive ==
  ASSUME TypeOK, HolderInv, UsableInv, NEW r \in requests, Receive(r)
  PROVE  UsableInv'
<1> SUFFICES ASSUME NEW u \in Owner \ locked PROVE (tokens[u] \in accepted \/ Pending(u))'
  BY DEF UsableInv, Receive
<1>1. requests' = requests \ {r} /\ accepted' = accepted
  BY DEF Receive
<1>2. CASE OnTheWay(r) /\ u = r.user
  <2>1. tokens'[u] = r.grant
    BY <1>2 DEF Receive, Stores, OnTheWay, TypeOK
  <2> QED
    BY <1>1, <1>2, <2>1 DEF HolderInv, RequestInv
<1>3. CASE ~(OnTheWay(r) /\ u = r.user)
  <2>1. tokens'[u] = tokens[u]
    BY <1>3 DEF Receive, Stores, OnTheWay, TypeOK
  <2>2. Pending(u) => Pending(u)'
    BY <1>1, <1>3 DEF Pending, OnTheWay
  <2> QED
    BY <1>1, <2>1, <2>2 DEF UsableInv
<1> QED
  BY <1>2, <1>3

LEMMA UsableStored ==
  ASSUME TypeOK, HolderInv, UsableInv, NEW l \in logins, CreateOrUpdateUser(l)
  PROVE  UsableInv'
<1>1. /\ tokens' = [tokens EXCEPT ![l.user] = l.grant]
      /\ locked' = locked \ {l.user} /\ UNCHANGED <<accepted, requests>>
  BY DEF CreateOrUpdateUser
<1>2. l.grant \in accepted
  BY DEF HolderInv, LoginInv
<1> QED
  BY <1>1, <1>2 DEF UsableInv, Pending, OnTheWay, TypeOK

LEMMA UsableStep == TypeOK /\ HolderInv /\ UsableInv /\ [Next]_vars => UsableInv'
<1> SUFFICES ASSUME TypeOK, HolderInv, UsableInv, [Next]_vars PROVE UsableInv'
  OBVIOUS
<1>1. CASE Tick
  BY <1>1, UsableTick
<1>2. CASE RefreshAuthTokens
  BY <1>2 DEF RefreshAuthTokens, UsableInv, Pending
<1>3. CASE Restart
  BY <1>3 DEF Restart, UsableInv, Pending, OnTheWay
<1>4. ASSUME NEW r \in requests, ServerAnswers(r) PROVE UsableInv'
  <2>1. CASE r.grant \in accepted
    BY <1>4, <2>1, UsableGranted DEF ServerAnswers
  <2>2. CASE r.grant \notin accepted
    BY <1>4, <2>2, UsableRefused DEF ServerAnswers
  <2> QED
    BY <2>1, <2>2
<1>5. ASSUME NEW r \in requests, Unreachable(r) PROVE UsableInv'
  BY <1>5, UsableRefused DEF Unreachable
<1>6. ASSUME NEW r \in requests, Receive(r) PROVE UsableInv'
  BY <1>6, UsableReceive
<1>7. ASSUME NEW r \in requests, Lose(r) PROVE UsableInv'
  BY <1>7 DEF Lose, UsableInv, Pending
<1>8. ASSUME NEW u \in Owner, LogIn(u) PROVE UsableInv'
  BY <1>8 DEF LogIn, UsableInv, Pending
<1>9. ASSUME NEW l \in logins, CreateOrUpdateUser(l) PROVE UsableInv'
  BY <1>9, UsableStored
<1>10. ASSUME NEW l \in logins, LogInFails(l) PROVE UsableInv'
  BY <1>10 DEF LogInFails, UsableInv, Pending
<1>11. CASE UNCHANGED vars
  BY <1>11 DEF vars, UsableInv, Pending
<1> QED
  BY <1>1, <1>2, <1>3, <1>4, <1>5, <1>6, <1>7, <1>8, <1>9, <1>10, <1>11 DEF Next

LEMMA UsableAlways == Spec => [](TypeOK /\ HolderInv /\ UsableInv)
BY TypeInit, TypeStep, HolderInit, HolderStep, UsableInit, UsableStep, PTL DEF Spec

\* The variables of TokenRefresh keep their types, and unless an answer to its
\* renewal was lost a refresh token in the database is accepted by the git
\* server or its successor on the way (refreshTokenOfUser, createOrUpdateUser).
THEOREM TokenInvHolds == Spec => []TokenInv
<1>1. TypeOK /\ HolderInv /\ UsableInv => TokenInv
  BY DEF TokenInv, StoredIsUsable, HolderInv, RequestInv, UsableInv, Pending, OnTheWay
<1> QED
  BY <1>1, UsableAlways, PTL

-----------------------------------------------------------------------------
(* A stored access token is fresh.                                         *)

\* A grant that is not stored yet is as old as the wait for it.
AgeInv ==
  /\ \A r \in requests : OnTheWay(r) => ttl[r.grant] + r.age >= Lifetime
  /\ \A l \in logins : ttl[l.grant] + l.age >= Lifetime

LEMMA AgeInit == Init => AgeInv
BY DEF Init, AgeInv

LEMMA AgeTick == TypeOK /\ AgeInv /\ Tick => AgeInv'
<1> SUFFICES ASSUME TypeOK, AgeInv, Tick PROVE AgeInv'
  OBVIOUS
<1> USE DEF TypeOK
<1>1. \A g \in Held : g \in Grant => ttl[g] \in Nat /\ ttl'[g] \in Nat /\ ttl'[g] + 1 >= ttl[g]
  BY Constants DEF Tick
<1>2. ASSUME NEW w \in requests', OnTheWay(w) PROVE ttl'[w.grant] + w.age >= Lifetime
  <2>1. PICK r \in requests : w = Aged(r)
    BY DEF Tick
  <2>2. /\ r.grant \in Grant /\ r.grant \in Held /\ r.age \in 0..Latency
        /\ w.grant = r.grant /\ w.state = r.state /\ w.age = r.age + 1
    BY <2>1, RequestAges, RequestShape DEF Held
  <2>3. ttl[r.grant] + r.age >= Lifetime
    BY <1>2, <2>2 DEF AgeInv, OnTheWay
  <2> QED
    BY <1>1, <2>2, <2>3, Constants
<1>3. ASSUME NEW w \in logins' PROVE ttl'[w.grant] + w.age >= Lifetime
  <2>1. PICK l \in logins : w = Aged(l)
    BY DEF Tick
  <2>2. /\ l.grant \in Grant /\ l.grant \in Held /\ l.age \in 0..Latency
        /\ w.grant = l.grant /\ w.age = l.age + 1
    BY <2>1, LoginAges DEF Held, Login
  <2>3. ttl[l.grant] + l.age >= Lifetime
    BY DEF AgeInv
  <2> QED
    BY <1>1, <2>2, <2>3, Constants
<1> QED
  BY <1>2, <1>3 DEF AgeInv

LEMMA AgeStep == TypeOK /\ AgeInv /\ [Next]_vars => AgeInv'
<1> SUFFICES ASSUME TypeOK, AgeInv, [Next]_vars PROVE AgeInv'
  OBVIOUS
<1>1. CASE Tick
  BY <1>1, AgeTick
<1>2. CASE RefreshAuthTokens
  BY <1>2 DEF RefreshAuthTokens, AgeInv, OnTheWay
<1>3. CASE Restart
  BY <1>3 DEF Restart, AgeInv
<1>4. ASSUME NEW r \in requests, ServerAnswers(r) PROVE AgeInv'
  <2>1. CASE r.grant \in accepted
    <3>1. PICK g \in Free : Answer(r, Granted(r, g)) /\ ttl' = [ttl EXCEPT ![g] = Lifetime]
      BY <1>4, <2>1 DEF ServerAnswers
    <3>2. g \in Grant /\ r \in Request
      BY DEF Free, TypeOK
    <3>3. ttl'[g] = Lifetime /\ \A h \in Held : h \in Grant => ttl'[h] = ttl[h]
      BY <3>1, <3>2 DEF Free, TypeOK
    <3>4. Granted(r, g).grant = g /\ Granted(r, g).age \in Nat
      BY <3>2, RequestGranted, RequestShape, Constants
    <3>5. ttl'[Granted(r, g).grant] + Granted(r, g).age >= Lifetime
      BY <3>3, <3>4, Constants
    <3>6. \A q \in requests : q.grant \in Held \cap Grant
      BY RequestShape DEF Held, TypeOK
    <3>7. \A l \in logins : l.grant \in Held \cap Grant
      BY DEF Held, TypeOK, Login
    <3>8. logins' = logins
      BY <1>4 DEF ServerAnswers
    <3> QED
      BY <3>1, <3>3, <3>5, <3>6, <3>7, <3>8 DEF AgeInv, Answer
  <2>2. CASE r.grant \notin accepted
    <3>1. Answer(r, Refused(r)) /\ UNCHANGED <<ttl, logins>>
      BY <1>4, <2>2 DEF ServerAnswers
    <3> QED
      BY <3>1, RequestRefused DEF AgeInv, Answer, OnTheWay, TypeOK
  <2> QED
    BY <2>1, <2>2
<1>5. ASSUME NEW r \in requests, Unreachable(r) PROVE AgeInv'
  BY <1>5, RequestRefused DEF Unreachable, AgeInv, Answer, OnTheWay, TypeOK
<1>6. ASSUME NEW r \in requests, Receive(r) \/ Lose(r) PROVE AgeInv'
  BY <1>6 DEF Receive, Lose, AgeInv
<1>7. ASSUME NEW u \in Owner, LogIn(u) PROVE AgeInv'
  <2>1. PICK g \in Free :
          /\ logins' = logins \cup {[user |-> u, grant |-> g, age |-> 0]}
          /\ ttl' = [ttl EXCEPT ![g] = Lifetime]
    BY <1>7 DEF LogIn
  <2>2. requests' = requests
    BY <1>7 DEF LogIn
  <2>3. ttl'[g] = Lifetime /\ \A h \in Held : h \in Grant => ttl'[h] = ttl[h]
    BY <2>1 DEF Free, TypeOK
  <2>4. ttl'[g] + 0 >= Lifetime
    BY <2>3, Constants
  <2>5. \A q \in requests : q.grant \in Held \cap Grant
    BY RequestShape DEF Held, TypeOK
  <2>6. \A l \in logins : l.grant \in Held \cap Grant
    BY DEF Held, TypeOK, Login
  <2> QED
    BY <2>1, <2>2, <2>3, <2>4, <2>5, <2>6 DEF AgeInv
<1>8. ASSUME NEW l \in logins, CreateOrUpdateUser(l) \/ LogInFails(l) PROVE AgeInv'
  BY <1>8 DEF CreateOrUpdateUser, LogInFails, AgeInv
<1>9. CASE UNCHANGED vars
  BY <1>9 DEF vars, AgeInv
<1> QED
  BY <1>1, <1>2, <1>3, <1>4, <1>5, <1>6, <1>7, <1>8, <1>9 DEF Next

\* What an unlucky request or a restart still to come costs at most.
Reserve == (MaxUnreachable - unreachable) * (Period + Latency) + (MaxLost - lost) * Latency

\* The tokens of a user are on their way, are asked for, are to be asked for
\* by the next run of the task, or are not due yet, with enough time left.
Awaited(u) == \E r \in requests : r.user = u /\ OnTheWay(r) /\ ttl[tokens[u]] + r.age > Latency

Asked(u) ==
  \E r \in requests :
    /\ r.user = u /\ r.state = "sent" /\ r.grant = tokens[u]
    /\ ttl[tokens[u]] + r.age > 2 * Latency + Reserve

Overdue(u) == due[u] = 0 /\ ttl[tokens[u]] > taskIn + 2 * Latency + Reserve

InTime(u) == due[u] > 0 /\ ttl[tokens[u]] > due[u] + Period + 2 * Latency + Reserve

Fresh(u) == Awaited(u) \/ Asked(u) \/ Overdue(u) \/ InTime(u)

FreshInv == \A u \in Owner \ locked : Fresh(u)

LEMMA OneMore ==
  ASSUME NEW m \in Nat, NEW n \in Nat, NEW c \in Nat, n < m
  PROVE  (m - n) * c = (m - (n + 1)) * c + c /\ (m - n) * c \in Nat
OBVIOUS

LEMMA NoMore ==
  ASSUME NEW m \in Nat, NEW n \in 0..m, NEW c \in Nat
  PROVE  (m - n) * c \in Nat /\ m * c \in Nat /\ (m - n) * c <= m * c
<1>1. m - n \in Nat /\ m - n <= m
  OBVIOUS
<1> QED
  BY <1>1

LEMMA ReserveType ==
  ASSUME TypeOK
  PROVE  Reserve \in Nat /\ Needed \in Nat /\ Needed >= Period + 3 * Latency + Reserve
<1>1. Period + Latency \in Nat /\ Latency \in Nat /\ Period \in Nat
  BY Constants
<1>2. /\ (MaxUnreachable - unreachable) * (Period + Latency) \in Nat
      /\ MaxUnreachable * (Period + Latency) \in Nat
      /\ (MaxUnreachable - unreachable) * (Period + Latency) <= MaxUnreachable * (Period + Latency)
  BY <1>1, Constants, NoMore DEF TypeOK
<1>3. /\ (MaxLost - lost) * Latency \in Nat /\ MaxLost * Latency \in Nat
      /\ (MaxLost - lost) * Latency <= MaxLost * Latency
  BY <1>1, Constants, NoMore DEF TypeOK
<1> HIDE DEF TypeOK
<1> QED
  BY <1>1, <1>2, <1>3 DEF Reserve, Needed

LEMMA ReserveUnreachable ==
  ASSUME TypeOK, unreachable < MaxUnreachable, unreachable' = unreachable + 1, lost' = lost
  PROVE  Reserve = Reserve' + Period + Latency /\ Reserve' \in Nat
<1>1. Period + Latency \in Nat
  BY Constants
<1>2. (MaxUnreachable - unreachable) * (Period + Latency)
        = (MaxUnreachable - (unreachable + 1)) * (Period + Latency) + (Period + Latency)
  BY <1>1, Constants, OneMore DEF TypeOK
<1>3. (MaxLost - lost) * Latency \in Nat
  BY Constants, NoMore DEF TypeOK
<1>4. (MaxUnreachable - (unreachable + 1)) * (Period + Latency) \in Nat
  BY <1>1, Constants, NoMore DEF TypeOK
<1> QED
  BY <1>2, <1>3, <1>4, Constants DEF Reserve

LEMMA ReserveLost ==
  ASSUME TypeOK, lost < MaxLost, lost' = lost + 1, unreachable' = unreachable
  PROVE  /\ Reserve = Reserve' + Latency
         /\ Reserve' \in Nat /\ Reserve' <= Reserve
<1>1. (MaxLost - lost) * Latency = (MaxLost - (lost + 1)) * Latency + Latency
  BY Constants, OneMore DEF TypeOK
<1>2. (MaxUnreachable - unreachable) * (Period + Latency) \in Nat
  <2>1. Period + Latency \in Nat
    BY Constants
  <2> QED
    BY <2>1, Constants, NoMore DEF TypeOK
<1>3. (MaxLost - (lost + 1)) * Latency \in Nat
  BY Constants, NoMore DEF TypeOK
<1> QED
  BY <1>1, <1>2, <1>3, Constants DEF Reserve

LEMMA ReserveSame ==
  ASSUME UNCHANGED <<unreachable, lost>>
  PROVE  Reserve' = Reserve
BY DEF Reserve

\* A grant that has just been stored is fresh.
LEMMA Storing ==
  ASSUME TypeOK, MarginCovers, NEW t \in Nat, NEW age \in 0..Latency, t + age >= Lifetime
  PROVE  \/ NextDue = 0 /\ t > taskIn + 2 * Latency + Reserve
         \/ NextDue > 0 /\ t > NextDue + Period + 2 * Latency + Reserve
<1>1. /\ Reserve \in Nat /\ Needed >= Period + 3 * Latency + Reserve /\ Needed \in Nat
      /\ Margin > Needed /\ Lifetime > Needed /\ taskIn \in 0..Period
  BY ReserveType DEF TypeOK, MarginCovers
<1> QED
  BY <1>1, Constants DEF NextDue

\* Nothing happens to the tokens of a user.
LEMMA FreshKept ==
  ASSUME TypeOK, NEW u \in Owner, Fresh(u), UNCHANGED <<taskIn, due[u], tokens[u], ttl[tokens[u]]>>,
         Reserve' \in Nat, Reserve' <= Reserve,
         \A r \in requests : r.user = u /\ r.state # "refused" => r \in requests'
  PROVE  Fresh(u)'
<1>1. ttl[tokens[u]] \in Nat /\ due[u] \in Nat /\ taskIn \in Nat /\ Reserve \in Nat
  BY Constants, ReserveType DEF TypeOK
<1>2. CASE Awaited(u)
  BY <1>2 DEF Awaited, OnTheWay, Fresh
<1>3. CASE Asked(u)
  <2>1. PICK r \in requests :
          /\ r.user = u /\ r.state = "sent" /\ r.grant = tokens[u]
          /\ ttl[tokens[u]] + r.age > 2 * Latency + Reserve
    BY <1>3 DEF Asked
  <2>2. r \in requests' /\ r.age \in Nat
    BY <2>1, RequestShape, Constants DEF TypeOK
  <2>3. (ttl[tokens[u]])' + r.age > 2 * Latency + Reserve'
    BY <1>1, <2>1, <2>2, Constants
  <2> QED
    BY <2>1, <2>2, <2>3 DEF Asked, Fresh
<1>4. CASE Overdue(u)
  <2>1. ttl[tokens[u]] > taskIn + 2 * Latency + Reserve'
    BY <1>1, <1>4, Constants DEF Overdue
  <2> QED
    BY <1>4, <2>1 DEF Overdue, Fresh
<1>5. CASE InTime(u)
  <2>1. ttl[tokens[u]] > due[u] + Period + 2 * Latency + Reserve'
    BY <1>1, <1>5, Constants DEF InTime
  <2> QED
    BY <1>5, <2>1 DEF InTime, Fresh
<1> QED
  BY <1>2, <1>3, <1>4, <1>5 DEF Fresh

LEMMA FreshInit == MarginCovers /\ Init => FreshInv
<1> SUFFICES ASSUME MarginCovers, Init, NEW u \in Owner PROVE Fresh(u)
  BY DEF FreshInv
<1>1. TypeOK
  BY TypeInit
<1>2. ttl[tokens[u]] = Lifetime /\ due[u] = NextDue
  BY DEF Init
<1>3. Lifetime + 0 >= Lifetime /\ Lifetime \in Nat /\ 0 \in 0..Latency
  BY Constants
<1> QED
  BY <1>1, <1>2, <1>3, Storing DEF Fresh, Overdue, InTime

LEMMA FreshTick == TypeOK /\ FreshInv /\ Tick => FreshInv'
<1> SUFFICES ASSUME TypeOK, FreshInv, Tick, NEW u \in Owner \ locked PROVE Fresh(u)'
  BY DEF FreshInv, Tick
<1>1. tokens' = tokens /\ tokens[u] \in Held /\ tokens[u] \in Grant
  BY DEF Tick, Held, TypeOK
<1>2. ttl[tokens[u]] \in Nat /\ due[u] \in Nat /\ taskIn \in 0..Period /\ Reserve \in Nat
  BY Constants, ReserveType DEF TypeOK
<1>3. /\ (ttl[tokens[u]])' = IF ttl[tokens[u]] > 0 THEN ttl[tokens[u]] - 1 ELSE 0
      /\ due'[u] = IF due[u] > 0 THEN due[u] - 1 ELSE 0
      /\ taskIn' = taskIn - 1 /\ taskIn > 0
  BY <1>1 DEF Tick, TypeOK
<1>4. Reserve' = Reserve
  BY ReserveSame DEF Tick
<1>5. \A r \in requests : /\ Aged(r) \in requests' /\ Aged(r).user = r.user
                          /\ Aged(r).grant = r.grant /\ Aged(r).state = r.state
                          /\ Aged(r).age = r.age + 1 /\ r.age \in Nat
  BY RequestAges, RequestShape, Constants DEF Tick, TypeOK
<1>6. CASE Awaited(u)
  <2>1. PICK r \in requests : r.user = u /\ OnTheWay(r) /\ ttl[tokens[u]] + r.age > Latency
    BY <1>6 DEF Awaited
  <2>2. (ttl[tokens[u]])' + Aged(r).age > Latency
    BY <1>2, <1>3, <1>5, <2>1, Constants
  <2> QED
    BY <1>5, <2>1, <2>2 DEF Awaited, OnTheWay, Fresh
<1>7. CASE Asked(u)
  <2>1. PICK r \in requests :
          /\ r.user = u /\ r.state = "sent" /\ r.grant = tokens[u]
          /\ ttl[tokens[u]] + r.age > 2 * Latency + Reserve
    BY <1>7 DEF Asked
  <2>2. (ttl[tokens[u]])' + Aged(r).age > 2 * Latency + Reserve'
    BY <1>2, <1>3, <1>4, <1>5, <2>1, Constants
  <2> QED
    BY <1>1, <1>5, <2>1, <2>2 DEF Asked, Fresh
<1>8. CASE Overdue(u)
  <2>1. due'[u] = 0 /\ (ttl[tokens[u]])' > taskIn' + 2 * Latency + Reserve'
    BY <1>2, <1>3, <1>4, <1>8, Constants DEF Overdue
  <2> QED
    BY <2>1 DEF Overdue, Fresh
<1>9. CASE InTime(u)
  <2>1. CASE due[u] > 1
    <3>1. due'[u] > 0 /\ (ttl[tokens[u]])' > due'[u] + Period + 2 * Latency + Reserve'
      BY <1>2, <1>3, <1>4, <1>9, <2>1, Constants DEF InTime
    <3> QED
      BY <3>1 DEF InTime, Fresh
  <2>2. CASE due[u] = 1
    <3>1. due'[u] = 0 /\ (ttl[tokens[u]])' > taskIn' + 2 * Latency + Reserve'
      BY <1>2, <1>3, <1>4, <1>9, <2>2, Constants DEF InTime
    <3> QED
      BY <3>1 DEF Overdue, Fresh
  <2> QED
    BY <1>2, <1>9, <2>1, <2>2 DEF InTime
<1> QED
  BY <1>6, <1>7, <1>8, <1>9 DEF FreshInv, Fresh

\* The run of the task asks for the tokens of the users whose time has come.
LEMMA FreshRefresh == TypeOK /\ FreshInv /\ RefreshAuthTokens => FreshInv'
<1> SUFFICES ASSUME TypeOK, FreshInv, RefreshAuthTokens, NEW u \in Owner \ locked
             PROVE  Fresh(u)'
  BY DEF FreshInv, RefreshAuthTokens
<1>1. /\ UNCHANGED <<tokens, due, ttl>> /\ Reserve' = Reserve
      /\ requests \subseteq requests' /\ taskIn = 0
  BY ReserveSame DEF RefreshAuthTokens
<1>2. CASE Awaited(u) \/ Asked(u) \/ InTime(u)
  BY <1>1, <1>2 DEF Awaited, Asked, InTime, Fresh, OnTheWay
<1>3. CASE Overdue(u)
  <2> DEFINE w == [user |-> u, grant |-> tokens[u], state |-> "sent", age |-> 0]
  <2>1. w \in requests'
    BY <1>3 DEF Overdue, RefreshAuthTokens, DueUsers
  <2>2. ttl[tokens[u]] \in Nat /\ Reserve \in Nat
    BY Constants, ReserveType DEF TypeOK
  <2>3. ttl[tokens[u]] + w.age > 2 * Latency + Reserve
    BY <1>1, <1>3, <2>2, Constants DEF Overdue
  <2>4. w.user = u /\ w.state = "sent" /\ w.grant = tokens[u]
    OBVIOUS
  <2> HIDE DEF w
  <2> QED
    BY <1>1, <2>1, <2>3, <2>4 DEF Asked, Fresh
<1> QED
  BY <1>2, <1>3 DEF FreshInv, Fresh

LEMMA FreshGranted ==
  ASSUME TypeOK, FreshInv, NEW r \in requests, r.state = "sent", NEW g \in Free,
         Answer(r, Granted(r, g)), ttl' = [ttl EXCEPT ![g] = Lifetime],
         UNCHANGED <<tokens, due, taskIn, unreachable, lost, locked>>
  PROVE  FreshInv'
<1> SUFFICES ASSUME NEW u \in Owner \ locked PROVE Fresh(u)'
  BY DEF FreshInv
<1>1. g \in Grant /\ tokens[u] # g /\ tokens[u] \in Grant
  BY DEF Free, Held, TypeOK
<1>2. (ttl[tokens[u]])' = ttl[tokens[u]]
  BY <1>1 DEF TypeOK
<1>3. Reserve' = Reserve /\ Reserve \in Nat /\ ttl[tokens[u]] \in Nat
  BY ReserveSame, ReserveType, Constants DEF TypeOK
<1>4. /\ Granted(r, g) \in requests' /\ Granted(r, g).user = r.user
      /\ OnTheWay(Granted(r, g)) /\ Granted(r, g).age = r.age /\ r.age \in Nat
  BY <1>1, RequestGranted, RequestShape, Constants DEF Answer, TypeOK, OnTheWay
<1>5. \A q \in requests : q # r => q \in requests'
  BY DEF Answer
<1>6. CASE Awaited(u)
  BY <1>2, <1>5, <1>6 DEF Awaited, OnTheWay, Fresh
<1>7. CASE Asked(u)
  <2>1. PICK q \in requests :
          /\ q.user = u /\ q.state = "sent" /\ q.grant = tokens[u]
          /\ ttl[tokens[u]] + q.age > 2 * Latency + Reserve
    BY <1>7 DEF Asked
  <2>2. CASE q = r
    <3>1. ttl[tokens[u]] + Granted(r, g).age > Latency
      BY <1>3, <1>4, <2>1, <2>2, Constants
    <3> QED
      BY <1>2, <1>4, <2>1, <2>2, <3>1 DEF Awaited, Fresh
  <2>3. CASE q # r
    BY <1>2, <1>3, <1>5, <2>1, <2>3 DEF Asked, Fresh
  <2> QED
    BY <2>2, <2>3
<1>8. CASE Overdue(u) \/ InTime(u)
  BY <1>2, <1>3, <1>8 DEF Overdue, InTime, Fresh
<1> QED
  BY <1>6, <1>7, <1>8 DEF FreshInv, Fresh

\* A request is refused when a later one of the same user has been granted:
\* that one is on its way.
LEMMA FreshRefused ==
  ASSUME TypeOK, UsableInv, FreshInv, NEW r \in requests, r.state = "sent",
         r.grant \notin accepted, Answer(r, Refused(r)),
         UNCHANGED <<tokens, due, ttl, taskIn, unreachable, lost, locked>>
  PROVE  FreshInv'
<1> SUFFICES ASSUME NEW u \in Owner \ locked PROVE Fresh(u)'
  BY DEF FreshInv
<1>1. Reserve' = Reserve /\ Reserve \in Nat /\ ttl[tokens[u]] \in Nat
  BY ReserveSame, ReserveType, Constants DEF TypeOK
<1>2. \A q \in requests : q # r => q \in requests'
  BY DEF Answer
<1>3. CASE Asked(u) /\ tokens[u] = r.grant
  <2>1. PICK q \in requests : q.user = u /\ OnTheWay(q)
    BY <1>3 DEF UsableInv, Pending
  <2>2. q \in requests' /\ q.age \in Nat
    BY <1>2, <2>1, RequestShape, Constants DEF OnTheWay, TypeOK
  <2>3. ttl[tokens[u]] > Latency
    BY <1>1, <1>3, RequestShape, Constants DEF Asked, TypeOK
  <2>4. ttl[tokens[u]] + q.age > Latency
    BY <1>1, <2>2, <2>3, Constants
  <2> QED
    BY <2>1, <2>2, <2>4 DEF Awaited, Fresh
<1>4. CASE Asked(u) /\ tokens[u] # r.grant
  BY <1>1, <1>2, <1>4 DEF Asked, Fresh
<1>5. CASE Awaited(u) \/ Overdue(u) \/ InTime(u)
  BY <1>1, <1>2, <1>5 DEF Awaited, Overdue, InTime, OnTheWay, Fresh
<1> QED
  BY <1>3, <1>4, <1>5 DEF FreshInv, Fresh

\* A request that does not reach the git server is sent again by the next run.
LEMMA FreshUnreachable ==
  ASSUME TypeOK, HolderInv, FreshInv, NEW r \in requests, Unreachable(r)
  PROVE  FreshInv'
<1> SUFFICES ASSUME NEW u \in Owner \ locked PROVE Fresh(u)'
  BY DEF FreshInv, Unreachable
<1>1. /\ UNCHANGED <<tokens, due, ttl, taskIn>>
      /\ Reserve = Reserve' + Period + Latency /\ Reserve' \in Nat
  BY ReserveUnreachable DEF Unreachable
<1>2. Reserve \in Nat /\ Reserve' \in Nat /\ ttl[tokens[u]] \in Nat /\ taskIn \in 0..Period
  <2>1. Reserve \in Nat
    BY ReserveType
  <2>2. ttl[tokens[u]] \in Nat /\ taskIn \in 0..Period
    BY Constants DEF TypeOK
  <2> QED
    BY <1>1, <2>1, <2>2
<1>3. \A q \in requests : q # r => q \in requests'
  BY DEF Unreachable, Answer
<1>4. CASE Asked(u) /\ tokens[u] = r.grant
  <2>1. due[u] = 0
    BY <1>4 DEF HolderInv, RequestInv
  <2>2. ttl[tokens[u]] > Latency + Reserve
    BY <1>2, <1>4, RequestShape, Constants DEF Asked, TypeOK
  <2>3. ttl[tokens[u]] > taskIn + 2 * Latency + Reserve'
    BY <1>1, <1>2, <2>2, Constants
  <2> QED
    BY <1>1, <2>1, <2>3 DEF Overdue, Fresh
<1>5. CASE ~(Asked(u) /\ tokens[u] = r.grant)
  <2>1. CASE Asked(u)
    <3>1. PICK q \in requests :
            /\ q.user = u /\ q.state = "sent" /\ q.grant = tokens[u]
            /\ ttl[tokens[u]] + q.age > 2 * Latency + Reserve
      BY <2>1 DEF Asked
    <3>2. q \in requests' /\ q.age \in Nat
      BY <1>3, <1>5, <2>1, <3>1, RequestShape, Constants DEF TypeOK
    <3>3. ttl[tokens[u]] + q.age > 2 * Latency + Reserve'
      BY <1>1, <1>2, <3>1, <3>2, Constants
    <3> QED
      BY <1>1, <3>1, <3>2, <3>3 DEF Asked, Fresh
  <2>2. CASE Awaited(u)
    BY <1>1, <1>3, <2>2 DEF Awaited, OnTheWay, Fresh, Unreachable
  <2>3. CASE Overdue(u)
    <3>1. ttl[tokens[u]] > taskIn + 2 * Latency + Reserve'
      BY <1>1, <1>2, <2>3, Constants DEF Overdue
    <3> QED
      BY <1>1, <2>3, <3>1 DEF Overdue, Fresh
  <2>4. CASE InTime(u)
    <3>1. due[u] \in Nat
      BY Constants DEF TypeOK
    <3>2. ttl[tokens[u]] > due[u] + Period + 2 * Latency + Reserve'
      BY <1>1, <1>2, <2>4, <3>1, Constants DEF InTime
    <3> QED
      BY <1>1, <2>4, <3>2 DEF InTime, Fresh
  <2> QED
    BY <2>1, <2>2, <2>3, <2>4 DEF FreshInv, Fresh
<1> QED
  BY <1>4, <1>5

LEMMA FreshReceive ==
  ASSUME TypeOK, MarginCovers, HolderInv, AgeInv, FreshInv, NEW r \in requests, Receive(r)
  PROVE  FreshInv'
<1> SUFFICES ASSUME NEW u \in Owner \ locked PROVE Fresh(u)'
  BY DEF FreshInv, Receive
<1>1. /\ requests' = requests \ {r} /\ UNCHANGED <<ttl, taskIn>>
      /\ Reserve' = Reserve /\ Reserve \in Nat
  BY ReserveSame, ReserveType DEF Receive
<1>2. CASE OnTheWay(r) /\ u = r.user
  <2>1. tokens'[u] = r.grant /\ due'[u] = NextDue
    BY <1>2 DEF Receive, Stores, OnTheWay, TypeOK
  <2>2. r.grant \in Grant /\ r.age \in 0..Latency /\ ttl[r.grant] \in Nat
    BY RequestShape, Constants DEF TypeOK
  <2>3. ttl[r.grant] + r.age >= Lifetime
    BY <1>2 DEF AgeInv
  <2>4. \/ NextDue = 0 /\ ttl[r.grant] > taskIn + 2 * Latency + Reserve
        \/ NextDue > 0 /\ ttl[r.grant] > NextDue + Period + 2 * Latency + Reserve
    BY <2>2, <2>3, Storing
  <2> QED
    BY <1>1, <2>1, <2>4 DEF Overdue, InTime, Fresh
<1>3. CASE ~(OnTheWay(r) /\ u = r.user)
  <2>1. tokens'[u] = tokens[u] /\ due'[u] = due[u]
    BY <1>3 DEF Receive, Stores, OnTheWay, TypeOK
  <2>2. \A q \in requests : q.user = u /\ q.state # "refused" => q \in requests'
    BY <1>1, <1>3, RequestShape DEF OnTheWay, Receive, TypeOK
  <2>3. Reserve' \in Nat /\ Reserve' <= Reserve
    BY <1>1
  <2>4. UNCHANGED <<taskIn, due[u], tokens[u], ttl[tokens[u]]>>
    BY <1>1, <2>1
  <2> QED
    BY <2>2, <2>3, <2>4, FreshKept DEF FreshInv
<1> QED
  BY <1>2, <1>3

LEMMA FreshLogIn ==
  ASSUME TypeOK, FreshInv, NEW v \in Owner, LogIn(v)
  PROVE  FreshInv'
<1> SUFFICES ASSUME NEW u \in Owner \ locked PROVE Fresh(u)'
  BY DEF FreshInv, LogIn
<1>1. PICK g \in Free : ttl' = [ttl EXCEPT ![g] = Lifetime]
  BY DEF LogIn
<1>2. g # tokens[u] /\ tokens[u] \in Grant
  BY DEF Free, Held, TypeOK
<1>3. UNCHANGED <<taskIn, due[u], tokens[u], ttl[tokens[u]]>>
  BY <1>1, <1>2 DEF LogIn, TypeOK
<1>4. Reserve' \in Nat /\ Reserve' <= Reserve
  <2>1. Reserve' = Reserve /\ Reserve \in Nat
    BY ReserveSame, ReserveType DEF LogIn
  <2> QED
    BY <2>1
<1>5. requests' = requests
  BY DEF LogIn
<1> QED
  BY <1>3, <1>4, <1>5, FreshKept DEF FreshInv

LEMMA FreshStored ==
  ASSUME TypeOK, MarginCovers, AgeInv, FreshInv, NEW l \in logins, CreateOrUpdateUser(l)
  PROVE  FreshInv'
<1> SUFFICES ASSUME NEW u \in Owner, u \notin locked' PROVE Fresh(u)'
  BY DEF FreshInv
<1>1. UNCHANGED <<ttl, taskIn, requests>> /\ Reserve' = Reserve /\ Reserve \in Nat
  BY ReserveSame, ReserveType DEF CreateOrUpdateUser
<1>2. CASE u = l.user
  <2>1. tokens'[u] = l.grant /\ due'[u] = NextDue
    BY <1>2 DEF CreateOrUpdateUser, TypeOK
  <2>2. l.grant \in Grant /\ l.age \in 0..Latency /\ ttl[l.grant] \in Nat
    BY Constants DEF TypeOK, Login
  <2>3. ttl[l.grant] + l.age >= Lifetime
    BY DEF AgeInv
  <2>4. \/ NextDue = 0 /\ ttl[l.grant] > taskIn + 2 * Latency + Reserve
        \/ NextDue > 0 /\ ttl[l.grant] > NextDue + Period + 2 * Latency + Reserve
    BY <2>2, <2>3, Storing
  <2> QED
    BY <1>1, <2>1, <2>4 DEF Overdue, InTime, Fresh
<1>3. CASE u # l.user
  <2>1. tokens'[u] = tokens[u] /\ due'[u] = due[u] /\ u \notin locked
    BY <1>3 DEF CreateOrUpdateUser, TypeOK
  <2>2. Reserve' \in Nat /\ Reserve' <= Reserve
    BY <1>1
  <2>3. UNCHANGED <<taskIn, due[u], tokens[u], ttl[tokens[u]]>>
    BY <1>1, <2>1
  <2> QED
    BY <1>1, <2>1, <2>2, <2>3, FreshKept DEF FreshInv
<1> QED
  BY <1>2, <1>3

LEMMA FreshLose ==
  ASSUME TypeOK, FreshInv, NEW r \in requests, Lose(r)
  PROVE  FreshInv'
<1> SUFFICES ASSUME NEW u \in Owner, u \notin locked' PROVE Fresh(u)'
  BY DEF FreshInv
<1>1. u \notin locked /\ u # r.user
  BY DEF Lose
<1>2. Reserve' \in Nat /\ Reserve' <= Reserve
  BY ReserveLost DEF Lose
<1>3. UNCHANGED <<taskIn, due[u], tokens[u], ttl[tokens[u]]>>
  BY DEF Lose
<1>4. \A q \in requests : q.user = u => q \in requests'
  BY <1>1 DEF Lose
<1> QED
  BY <1>1, <1>2, <1>3, <1>4, FreshKept DEF FreshInv

\* A restart drops the requests, and starts with a run of the task.
LEMMA FreshRestart == TypeOK /\ HolderInv /\ FreshInv /\ Restart => FreshInv'
<1> SUFFICES ASSUME TypeOK, HolderInv, FreshInv, Restart, NEW u \in Owner, u \notin locked'
             PROVE  Fresh(u)'
  BY DEF FreshInv
<1>1. /\ u \notin locked /\ UNCHANGED <<tokens, due, ttl>> /\ taskIn' = 0
      /\ \A r \in requests : r.user = u => ~OnTheWay(r)
  BY DEF Restart, OnTheWay
<1>2. Reserve = Reserve' + Latency /\ Reserve' \in Nat /\ Reserve \in Nat
  BY ReserveLost, ReserveType DEF Restart
<1>3. ttl[tokens[u]] \in Nat /\ due[u] \in Nat /\ taskIn \in Nat
  BY Constants DEF TypeOK
<1>4. CASE Awaited(u)
  BY <1>1, <1>4 DEF Awaited
<1>5. CASE Asked(u)
  <2>1. due[u] = 0
    BY <1>5 DEF Asked, HolderInv, RequestInv
  <2>2. ttl[tokens[u]] > Latency + Reserve
    BY <1>2, <1>3, <1>5, RequestShape, Constants DEF Asked, TypeOK
  <2>3. ttl[tokens[u]] > 0 + 2 * Latency + Reserve'
    BY <1>2, <1>3, <2>2, Constants
  <2> QED
    BY <1>1, <2>1, <2>3 DEF Overdue, Fresh
<1>6. CASE Overdue(u)
  <2>1. due[u] = 0 /\ ttl[tokens[u]] > 0 + 2 * Latency + Reserve'
    BY <1>2, <1>3, <1>6, Constants DEF Overdue
  <2> QED
    BY <1>1, <2>1 DEF Overdue, Fresh
<1>7. CASE InTime(u)
  <2>1. due[u] > 0 /\ ttl[tokens[u]] > due[u] + Period + 2 * Latency + Reserve'
    BY <1>2, <1>3, <1>7, Constants DEF InTime
  <2> QED
    BY <1>1, <2>1 DEF InTime, Fresh
<1> QED
  BY <1>1, <1>4, <1>5, <1>6, <1>7 DEF FreshInv, Fresh

LEMMA FreshStep ==
  MarginCovers /\ TypeOK /\ HolderInv /\ UsableInv /\ AgeInv /\ FreshInv /\ [Next]_vars
    => FreshInv'
<1> SUFFICES ASSUME MarginCovers, TypeOK, HolderInv, UsableInv, AgeInv, FreshInv, [Next]_vars
             PROVE  FreshInv'
  OBVIOUS
<1>1. CASE Tick
  BY <1>1, FreshTick
<1>2. CASE RefreshAuthTokens
  BY <1>2, FreshRefresh
<1>3. CASE Restart
  BY <1>3, FreshRestart
<1>4. ASSUME NEW r \in requests, ServerAnswers(r) PROVE FreshInv'
  <2>1. CASE r.grant \in accepted
    BY <1>4, <2>1, FreshGranted DEF ServerAnswers
  <2>2. CASE r.grant \notin accepted
    BY <1>4, <2>2, FreshRefused DEF ServerAnswers
  <2> QED
    BY <2>1, <2>2
<1>5. ASSUME NEW r \in requests, Unreachable(r) PROVE FreshInv'
  BY <1>5, FreshUnreachable
<1>6. ASSUME NEW r \in requests, Receive(r) PROVE FreshInv'
  BY <1>6, FreshReceive
<1>7. ASSUME NEW r \in requests, Lose(r) PROVE FreshInv'
  BY <1>7, FreshLose
<1>8. ASSUME NEW u \in Owner, LogIn(u) PROVE FreshInv'
  BY <1>8, FreshLogIn
<1>9. ASSUME NEW l \in logins, CreateOrUpdateUser(l) PROVE FreshInv'
  BY <1>9, FreshStored
<1>10. CASE (\E l \in logins : LogInFails(l)) \/ UNCHANGED vars
  <2>1. UNCHANGED <<tokens, due, ttl, taskIn, requests, unreachable, lost, locked>>
    BY <1>10 DEF LogInFails, vars
  <2>2. Reserve' = Reserve
    BY <2>1, ReserveSame
  <2> QED
    BY <2>1, <2>2 DEF FreshInv, Fresh, Awaited, Asked, Overdue, InTime, OnTheWay
<1> QED
  BY <1>1, <1>2, <1>3, <1>4, <1>5, <1>6, <1>7, <1>8, <1>9, <1>10 DEF Next

\* However long the latencies and the periods and however many requests fail,
\* if the margin covers them the access token in the database has not expired,
\* unless an answer to its renewal was lost (refreshAuthTokens,
\* computeNextRefreshTokenTime).
THEOREM StoredIsFreshHolds ==
  ASSUME MarginCovers
  PROVE  Spec => []StoredIsFresh
<1>1. Init => AgeInv /\ FreshInv
  BY AgeInit, FreshInit
<1>2. /\ TypeOK /\ HolderInv /\ UsableInv /\ AgeInv /\ FreshInv /\ [Next]_vars
      => AgeInv' /\ FreshInv'
  BY AgeStep, FreshStep
<1>3. TypeOK /\ FreshInv => StoredIsFresh
  <2> SUFFICES ASSUME TypeOK, NEW u \in Owner, Fresh(u) PROVE ttl[tokens[u]] > 0
    BY DEF FreshInv, StoredIsFresh
  <2>1. ttl[tokens[u]] \in Nat /\ due[u] \in Nat /\ taskIn \in Nat /\ Reserve \in Nat
    BY Constants, ReserveType DEF TypeOK
  <2> QED
    BY <2>1, RequestShape, Constants DEF Fresh, Awaited, Asked, Overdue, InTime, TypeOK
<1> QED
  BY <1>1, <1>2, <1>3, UsableAlways, PTL DEF Spec

-----------------------------------------------------------------------------
(* The pages of the git server.                                            *)

LEMMA RepoIsFinite == IsFiniteSet(Repo)
<1>1. RepoList \in Seq(Repo)
  BY SyncAssumption DEF SyncAssumption
<1>2. RepoList \in Surjection(1..Len(RepoList), Repo) /\ Len(RepoList) \in Nat
  BY <1>1 DEF Surjection, Repo, ToSet
<1>3. IsFiniteSet(1..Len(RepoList))
  BY <1>2, FS_Interval
<1> QED
  BY <1>2, <1>3, FS_Surjection

LEMMA PrecedesIsTotal ==
  /\ \A r \in Repo : ~Precedes(r, r)
  /\ \A p, q, r \in Repo : Precedes(p, q) /\ Precedes(q, r) => Precedes(p, r)
  /\ \A q, r \in Repo : q # r => Precedes(q, r) \/ Precedes(r, q)
<1>1. RepoList \in Seq(Repo) /\ \A i, j \in DOMAIN RepoList : RepoList[i] = RepoList[j] => i = j
  BY SyncAssumption DEF SyncAssumption, IsInjective
<1>2. DOMAIN RepoList = 1..Len(RepoList) /\ Len(RepoList) \in Nat
  BY <1>1
<1>3. \A r \in Repo : \E i \in DOMAIN RepoList : r = RepoList[i]
  BY DEF Repo, ToSet
<1> HIDE DEF Repo
<1>4. ASSUME NEW r \in Repo PROVE ~Precedes(r, r)
  BY <1>1, <1>2 DEF Precedes
<1>5. ASSUME NEW p \in Repo, NEW q \in Repo, NEW r \in Repo, Precedes(p, q), Precedes(q, r)
      PROVE  Precedes(p, r)
  <2>1. PICK i, j \in DOMAIN RepoList : i < j /\ p = RepoList[i] /\ q = RepoList[j]
    BY <1>5 DEF Precedes
  <2>2. PICK k, l \in DOMAIN RepoList : k < l /\ q = RepoList[k] /\ r = RepoList[l]
    BY <1>5 DEF Precedes
  <2>3. j = k
    BY <1>1, <2>1, <2>2
  <2>4. i < l
    BY <1>2, <2>1, <2>2, <2>3
  <2> QED
    BY <2>1, <2>2, <2>4 DEF Precedes
<1>6. ASSUME NEW q \in Repo, NEW r \in Repo, q # r PROVE Precedes(q, r) \/ Precedes(r, q)
  <2>1. PICK i, j \in DOMAIN RepoList : q = RepoList[i] /\ r = RepoList[j]
    BY <1>3
  <2>2. i < j \/ j < i
    BY <2>1, <1>2, <1>6
  <2> QED
    BY <2>1, <2>2 DEF Precedes
<1> QED
  BY <1>4, <1>5, <1>6

\* Whatever the order, the git server lists the repositories one after the other.
LEMMA BeforeIsTotal ==
  ASSUME SyncTypeOK
  PROVE  /\ \A r \in Repo : ~Before(r, r)
         /\ \A p, q, r \in Repo : Before(p, q) /\ Before(q, r) => Before(p, r)
         /\ \A q, r \in Repo : q # r => Before(q, r) \/ Before(r, q)
<1>1. \A r \in Repo : activity[r] \in Nat
  BY DEF SyncTypeOK
<1> QED
  BY <1>1, PrecedesIsTotal DEF Before

LEMMA VisibleIsFinite ==
  ASSUME NEW u \in User
  PROVE  IsFiniteSet(Visible(u)) /\ Cardinality(Visible(u)) \in Nat
<1>1. Visible(u) \in SUBSET Repo
  BY DEF Visible
<1> QED
  BY <1>1, RepoIsFinite, FS_Subset, FS_CardinalityType

\* The places of the repositories that a user sees are numbered from zero,
\* without gaps.
LEMMA Places ==
  ASSUME SyncTypeOK, NEW u \in User
  PROVE  /\ \A r \in Visible(u) : Place(u, r) \in 0..(Cardinality(Visible(u)) - 1)
         /\ \A k \in 0..(Cardinality(Visible(u)) - 1) : \E r \in Visible(u) : Place(u, r) = k
<1> DEFINE V == Visible(u)
           Earlier(r) == {q \in V : Before(q, r)}
           f == [r \in V |-> Place(u, r)]
           T == 0..(Cardinality(V) - 1)
<1>1. IsFiniteSet(V) /\ Cardinality(V) \in Nat /\ V \subseteq Repo
  BY VisibleIsFinite DEF Visible
<1>2. \A r : Place(u, r) = Cardinality(Earlier(r))
  BY DEF Place
<1> HIDE DEF V
<1>3. ASSUME NEW r \in V
      PROVE  IsFiniteSet(Earlier(r)) /\ Place(u, r) \in Nat /\ Place(u, r) < Cardinality(V)
  <2>1. Earlier(r) \in SUBSET V /\ r \notin Earlier(r)
    BY <1>1, <1>3, BeforeIsTotal
  <2>2. Earlier(r) # V
    BY <2>1, <1>3
  <2>3. /\ IsFiniteSet(Earlier(r)) /\ Cardinality(Earlier(r)) <= Cardinality(V)
        /\ Cardinality(V) = Cardinality(Earlier(r)) => V = Earlier(r)
    BY <2>1, <1>1, FS_Subset
  <2>4. Cardinality(Earlier(r)) \in Nat
    BY <2>3, FS_CardinalityType
  <2> HIDE DEF Earlier
  <2> QED
    BY <1>1, <1>2, <2>2, <2>3, <2>4
<1>4. ASSUME NEW q \in V, NEW r \in V, Before(q, r) PROVE Place(u, q) < Place(u, r)
  <2>1. Earlier(q) \in SUBSET Earlier(r)
    BY <1>1, <1>4, BeforeIsTotal
  <2>2. q \in Earlier(r) /\ q \notin Earlier(q)
    BY <1>1, <1>4, BeforeIsTotal
  <2>3. /\ Cardinality(Earlier(q)) <= Cardinality(Earlier(r))
        /\ Cardinality(Earlier(r)) = Cardinality(Earlier(q)) => Earlier(r) = Earlier(q)
    BY <2>1, <1>3, FS_Subset
  <2> HIDE DEF Earlier
  <2> QED
    BY <1>2, <1>3, <2>2, <2>3
<1> HIDE DEF Earlier
<1>5. \A r \in V : Place(u, r) \in Nat /\ Place(u, r) < Cardinality(V)
  BY <1>3
<1>6. \A r \in V : Place(u, r) \in T
  BY <1>1, <1>5
<1>7. f \in Injection(V, T)
  <2>1. f \in [V -> T]
    BY <1>6
  <2>2. ASSUME NEW q \in V, NEW r \in V, q # r PROVE Place(u, q) # Place(u, r)
    <3>1. Before(q, r) \/ Before(r, q)
      BY <1>1, <2>2, BeforeIsTotal
    <3>2. Place(u, q) < Place(u, r) \/ Place(u, r) < Place(u, q)
      BY <3>1, <1>4
    <3> QED
      BY <3>2, <1>5
  <2> QED
    BY <2>1, <2>2 DEF Injection, IsInjective
<1>8. IsFiniteSet(T) /\ Cardinality(T) = Cardinality(V)
  BY <1>1, FS_Interval
<1>9. f \in Surjection(V, T)
  BY <1>7, <1>8, FS_Injection
<1>10. \A k \in T : \E r \in V : f[r] = k
  BY <1>9 DEF Surjection
<1> QED
  BY <1>10, <1>6 DEF V

\* An empty page ends the list: whatever a user sees was on an earlier one.
LEMMA EmptyPageEnds ==
  ASSUME SyncTypeOK, NEW u \in User, NEW n \in Nat \ {0}, Page(u, n) = {}
  PROVE  \A r \in Visible(u) : Place(u, r) < (n - 1) * PageSize
<1> DEFINE k == (n - 1) * PageSize
<1>1. PageSize \in Nat \ {0}
  BY SyncAssumption DEF SyncAssumption
<1>2. k \in Nat /\ n * PageSize = k + PageSize
  BY <1>1
<1>3. \A r \in Visible(u) : Place(u, r) \in 0..(Cardinality(Visible(u)) - 1)
  BY Places
<1>4. \A r \in Visible(u) : ~(k <= Place(u, r) /\ Place(u, r) < n * PageSize)
  BY DEF Page
<1> HIDE DEF k
<1>5. ~ \E r \in Visible(u) : Place(u, r) = k
  BY <1>1, <1>2, <1>4
<1>6. k \notin 0..(Cardinality(Visible(u)) - 1)
  BY <1>5, Places
<1> QED
  BY <1>2, <1>3, <1>6, VisibleIsFinite DEF k

-----------------------------------------------------------------------------
(* syncRepos.                                                              *)

Expected(u, r) ==
  IF r \in AllowedRepo /\ remote[u][r] # None THEN <<remote[u][r]>> ELSE <<>>

\* Only repositories of allowed organisations are pushed, and only those.
Filtered ==
  /\ \A s \in Sync :
       /\ syncs[s].pc \in {"pull", "push"} => \A e \in syncs[s].repos : e.repo \in AllowedRepo
       /\ syncs[s].pc = "push" => syncs[s].left \subseteq syncs[s].repos
  /\ \A r \in Repo \ AllowedRepo, u \in User : users[r][u] = <<>>

\* Nothing that was listed is from the future.
NothingAhead ==
  \A s \in Sync : syncs[s].pc # "none" => \A e \in syncs[s].repos : e.lastUpdate <= now

\* What a call has listed are repositories that the user sees, once each.
ListedOnce(s, u) ==
  /\ \A e \in syncs[s].repos :
       e.repo \in Visible(u) /\ e.permissions = remote[u][e.repo]
  /\ \A e, f \in syncs[s].repos : e.repo = f.repo => e = f

IsListed(s, r) == \E e \in syncs[s].repos : e.repo = r

\* A call that no other call of the user overlaps has listed all the pages
\* before the one it asks for, then all there is; it has emptied what it
\* pulled, and filled in what it pushed.
CalmCall(s, u) ==
  /\ ListedOnce(s, u)
  /\ syncs[s].pc = "list" =>
       \A r \in Visible(u) : IsListed(s, r) <=> Place(u, r) < (syncs[s].page - 1) * PageSize
  /\ syncs[s].pc \in {"pull", "push"} =>
       \A r \in AllowedRepo : IsListed(s, r) <=> r \in Visible(u)
  /\ syncs[s].pc = "pull" =>
       \A r \in AllowedRepo \ syncs[s].left : users[r][u] = <<>>
  /\ syncs[s].pc = "push" =>
       \A r \in AllowedRepo :
         users[r][u] = IF \E e \in syncs[s].left : e.repo = r THEN <<>> ELSE Expected(u, r)

CalmUser(u) ==
  /\ \A s, t \in Running(u) : s = t
  /\ Running(u) = {} => \A r \in Repo : users[r][u] = Expected(u, r)
  /\ \A s \in Running(u) : CalmCall(s, u)

SyncIInv == SyncTypeOK /\ Filtered /\ NothingAhead /\ \A u \in calm : CalmUser(u)

LEMMA CallIsNone ==
  ASSUME SyncTypeOK, NEW s \in Sync
  PROVE  /\ syncs[s] = NoSync <=> syncs[s].pc = "none"
         /\ syncs[s].pc # "none" => syncs[s] \in Call
BY DEF SyncTypeOK, NoSync, Call

LEMMA SyncImplies == SyncIInv => SyncInv
<1> SUFFICES ASSUME SyncIInv PROVE SyncInv
  OBVIOUS
<1>1. ASSUME NEW u \in User, u \in calm, Running(u) = {} PROVE Matches(u)
  BY <1>1 DEF SyncIInv, CalmUser, Matches, Expected
<1> QED
  BY <1>1 DEF SyncInv, CalmMatches, SyncIInv

LEMMA InitSync == SyncInit => SyncIInv
<1> SUFFICES ASSUME SyncInit PROVE SyncIInv
  OBVIOUS
<1>1. SyncTypeOK
  <2>1. remote \in [User -> [Repo -> Permission \cup {None}]]
    BY SyncAssumption DEF SyncInit, SyncAssumption
  <2>2. syncs \in [Sync -> Call \cup {NoSync}]
    BY DEF SyncInit
  <2>3. users \in [Repo -> [User -> Seq(Permission)]]
    BY DEF SyncInit
  <2>4. activity \in [Repo -> 0..now] /\ lastUpdate = activity /\ now \in Nat
    BY SyncAssumption DEF SyncInit, SyncAssumption
  <2>5. calm \subseteq User
    BY DEF SyncInit
  <2> QED
    BY <2>1, <2>2, <2>3, <2>4, <2>5 DEF SyncTypeOK
<1>2. Filtered /\ NothingAhead
  BY DEF SyncInit, Filtered, NothingAhead, NoSync
<1> QED
  BY <1>1, <1>2 DEF SyncIInv, SyncInit

-----------------------------------------------------------------------------
(* The types.                                                              *)

LEMMA CallType ==
  ASSUME NEW sync \in Call
  PROVE  /\ sync.user \in User /\ sync.page \in Nat \ {0}
         /\ sync.pc \in {"list", "pull", "push"}
         /\ sync.repos \in SUBSET Listed /\ sync.left \in SUBSET (Repo \cup Listed)
BY DEF Call

LEMMA CallGoesOn ==
  ASSUME NEW sync \in Call, NEW repos \in SUBSET Listed
  PROVE  /\ \A page \in Nat \ {0} : [sync EXCEPT !.page = page, !.repos = repos] \in Call
         /\ \A left \in SUBSET (Repo \cup Listed) :
              [sync EXCEPT !.pc = "pull", !.left = left, !.repos = repos] \in Call
<1>1. \A page \in Nat \ {0} : [sync EXCEPT !.page = page, !.repos = repos] \in Call
  BY DEF Call
<1>2. \A left \in SUBSET (Repo \cup Listed) :
         [sync EXCEPT !.pc = "pull", !.left = left, !.repos = repos] \in Call
  BY DEF Call
<1> QED
  BY <1>1, <1>2

\* One more call, or one that has gone on.
LEMMA SyncsType ==
  ASSUME SyncTypeOK, NEW s \in Sync, NEW call \in Call \cup {NoSync},
         syncs' = [syncs EXCEPT ![s] = call]
  PROVE  syncs' \in [Sync -> Call \cup {NoSync}]
BY DEF SyncTypeOK

LEMMA ListPageType ==
  ASSUME SyncTypeOK, NEW s \in Sync, ListPage(s)
  PROVE  syncs' \in [Sync -> Call \cup {NoSync}]
<1> DEFINE sync == syncs[s]
           page == Page(sync.user, sync.page)
           entries == {Entry(sync.user, r, sync.page) : r \in page}
<1>1. sync \in Call
  BY CallIsNone DEF ListPage
<1>2. sync.user \in User /\ sync.page \in Nat \ {0} /\ page \subseteq Repo
  BY <1>1, CallType DEF Page, Visible
<1>3. \A r \in page : remote[sync.user][r] \in Permission /\ activity[r] \in Nat
  BY <1>2 DEF SyncTypeOK, Page, Visible
<1>4. \A r \in page : Entry(sync.user, r, sync.page) \in Listed
  BY <1>2, <1>3 DEF Entry, Listed
<1>5. entries \subseteq Listed
  BY <1>4
<1> HIDE DEF page, entries
<1>6. CASE page = {}
  <2> DEFINE kept == FilterReposByOrg(sync.repos)
             next == [sync EXCEPT !.pc = "pull", !.left = AllowedRepo, !.repos = kept]
  <2>1. AllowedRepo \in SUBSET (Repo \cup Listed) /\ kept \in SUBSET Listed
    BY <1>1, CallType, SyncAssumption DEF SyncAssumption, FilterReposByOrg
  <2> HIDE DEF kept
  <2>2. next \in Call
    BY <1>1, <2>1, CallGoesOn
  <2>3. syncs' = [syncs EXCEPT ![s] = next]
    BY <1>6 DEF ListPage, page, kept
  <2> QED
    BY <2>2, <2>3, SyncsType
<1>7. CASE page # {}
  <2> DEFINE repos == sync.repos \cup entries
             number == sync.page + 1
             next == [sync EXCEPT !.page = number, !.repos = repos]
  <2>1. repos \in SUBSET Listed /\ number \in Nat \ {0}
    BY <1>1, <1>5, CallType
  <2> HIDE DEF repos, number
  <2>2. next \in Call
    BY <1>1, <2>1, CallGoesOn
  <2>3. syncs' = [syncs EXCEPT ![s] = next]
    BY <1>7 DEF ListPage, page, entries, repos, number
  <2> QED
    BY <2>2, <2>3, SyncsType
<1> QED
  BY <1>6, <1>7

LEMMA SyncTypeStep ==
  ASSUME SyncIInv, [SyncNext]_syncVars
  PROVE  SyncTypeOK'
<1>1. SyncTypeOK /\ Filtered /\ NothingAhead
  BY DEF SyncIInv
<1>2. CASE UNCHANGED syncVars
  BY <1>1, <1>2 DEF SyncTypeOK, syncVars
<1>3. ASSUME NEW u \in User, NEW r \in Repo, NEW p \in Permission \cup {None}, ChangePermission(u, r, p)
      PROVE  SyncTypeOK'
  BY <1>1, <1>3 DEF SyncTypeOK, ChangePermission, db
<1>4. ASSUME NEW r \in Repo, Push(r) PROVE SyncTypeOK'
  <2>1. now' \in Nat /\ now' = now + 1 /\ lastUpdate' = lastUpdate
    BY <1>1, <1>4 DEF SyncTypeOK, Push, db
  <2>2. lastUpdate' \in [Repo -> 0..now'] /\ activity' \in [Repo -> 0..now']
    BY <1>1, <1>4, <2>1 DEF SyncTypeOK, Push
  <2> QED
    BY <1>1, <1>4, <2>1, <2>2 DEF SyncTypeOK, Push, db
<1>5. ASSUME NEW r \in Repo, SetRepoLastUpdate(r) PROVE SyncTypeOK'
  <2>1. now' \in Nat /\ now' = now + 1 /\ activity' = activity
    BY <1>1, <1>5 DEF SyncTypeOK, SetRepoLastUpdate, gitServer
  <2>2. lastUpdate' \in [Repo -> 0..now'] /\ activity' \in [Repo -> 0..now']
    BY <1>1, <1>5, <2>1 DEF SyncTypeOK, SetRepoLastUpdate
  <2> QED
    BY <1>1, <1>5, <2>1, <2>2 DEF SyncTypeOK, SetRepoLastUpdate, gitServer
<1>6. ASSUME NEW s \in Sync, NEW u \in User, Start(s, u) PROVE SyncTypeOK'
  <2> DEFINE call == [user |-> u, pc |-> "list", page |-> 1, repos |-> {}, left |-> {}]
  <2>1. call \in Call
    BY DEF Call
  <2>2. syncs' \in [Sync -> Call \cup {NoSync}]
    BY <1>1, <1>6, <2>1, SyncsType DEF Start
  <2>3. calm' \subseteq User
    BY <1>1, <1>6 DEF SyncTypeOK, Start
  <2> QED
    BY <1>1, <1>6, <2>2, <2>3 DEF SyncTypeOK, Start, gitServer, db
<1>7. ASSUME NEW s \in Sync, ListPage(s) PROVE SyncTypeOK'
  BY <1>1, <1>7, ListPageType DEF SyncTypeOK, ListPage, gitServer, db
<1>8. ASSUME NEW s \in Sync, ListFails(s) PROVE SyncTypeOK'
  <2>1. syncs' \in [Sync -> Call \cup {NoSync}] /\ calm' \subseteq User
    BY <1>1, <1>8, SyncsType DEF ListFails, SyncTypeOK
  <2> QED
    BY <1>1, <1>8, <2>1 DEF SyncTypeOK, ListFails, gitServer, db
<1>9. ASSUME NEW s \in Sync, NEW r \in Repo, Pull(s, r) PROVE SyncTypeOK'
  <2>1. syncs[s] \in Call
    BY <1>1, <1>9, CallIsNone DEF Pull
  <2>2. Without(users[r], syncs[s].user) \in [User -> Seq(Permission)]
    <3>1. users[r] \in [User -> Seq(Permission)] /\ <<>> \in Seq(Permission)
      BY <1>1 DEF SyncTypeOK
    <3> QED
      BY <3>1 DEF Without
  <2>3. users' \in [Repo -> [User -> Seq(Permission)]]
    BY <1>1, <1>9, <2>2 DEF SyncTypeOK, Pull
  <2>4. [syncs[s] EXCEPT !.left = @ \ {r}] \in Call
    BY <2>1 DEF Call
  <2>5. syncs' \in [Sync -> Call \cup {NoSync}]
    BY <1>1, <1>9, <2>4 DEF Pull, SyncTypeOK
  <2> QED
    BY <1>1, <1>9, <2>3, <2>5 DEF SyncTypeOK, Pull, gitServer
<1>10. ASSUME NEW s \in Sync, Pulled(s) PROVE SyncTypeOK'
  <2>1. syncs[s] \in Call
    BY <1>1, <1>10, CallIsNone DEF Pulled
  <2>2. [syncs[s] EXCEPT !.pc = "push", !.left = syncs[s].repos] \in Call
    BY <2>1 DEF Call
  <2>3. syncs' \in [Sync -> Call \cup {NoSync}]
    BY <1>1, <1>10, <2>2, SyncsType DEF Pulled
  <2> QED
    BY <1>1, <1>10, <2>3 DEF SyncTypeOK, Pulled, gitServer, db
<1>11. ASSUME NEW s \in Sync, NEW entry \in syncs[s].left, Upsert(s, entry) PROVE SyncTypeOK'
  <2>1. syncs[s] \in Call
    BY <1>1, <1>11, CallIsNone DEF Upsert
  <2>2. entry \in Listed /\ entry.lastUpdate \in 0..now
    <3>1. entry \in syncs[s].repos
      BY <1>1, <1>11 DEF Upsert, Filtered
    <3>2. entry \in Listed
      BY <2>1, <3>1, CallType
    <3>3. entry.lastUpdate \in Nat /\ entry.lastUpdate <= now /\ now \in Nat
      BY <1>1, <1>11, <3>1, <3>2 DEF Upsert, NothingAhead, Listed, SyncTypeOK
    <3> QED
      BY <3>2, <3>3
  <2>3. users' \in [Repo -> [User -> Seq(Permission)]]
    BY <1>1, <1>11, <2>1, <2>2, CallType DEF SyncTypeOK, Upsert, Listed
  <2>4. [syncs[s] EXCEPT !.left = @ \ {entry}] \in Call
    BY <2>1 DEF Call
  <2>5. syncs' \in [Sync -> Call \cup {NoSync}]
    BY <1>1, <1>11, <2>4 DEF Upsert, SyncTypeOK
  <2>6. lastUpdate' \in [Repo -> 0..now]
    BY <1>1, <1>11, <2>2 DEF SyncTypeOK, Upsert, Listed
  <2> QED
    BY <1>1, <1>11, <2>3, <2>5, <2>6 DEF SyncTypeOK, Upsert, gitServer
<1>12. ASSUME NEW s \in Sync, Done(s) PROVE SyncTypeOK'
  BY <1>1, <1>12, SyncsType DEF SyncTypeOK, Done, gitServer, db
<1> QED
  BY <1>2, <1>3, <1>4, <1>5, <1>6, <1>7, <1>8, <1>9, <1>10, <1>11, <1>12
  DEF SyncNext, SyncReposRoute, SyncAllRepos, Step

-----------------------------------------------------------------------------
(* What a step of a call does.                                             *)

LEMMA ListPageDoes ==
  ASSUME SyncTypeOK, NEW s \in Sync, ListPage(s),
         NEW u, u = syncs[s].user, NEW n, n = syncs[s].page
  PROVE  /\ syncs[s] \in Call /\ u \in User /\ n \in Nat \ {0} /\ syncs[s].pc = "list"
         /\ \A t \in Sync \ {s} : syncs'[t] = syncs[t]
         /\ syncs'[s].user = u
         /\ \/ /\ Page(u, n) = {} /\ syncs'[s].pc = "pull" /\ syncs'[s].left = AllowedRepo
               /\ syncs'[s].repos = {e \in syncs[s].repos : e.repo \in AllowedRepo}
            \/ /\ Page(u, n) # {} /\ syncs'[s].pc = "list" /\ syncs'[s].page = n + 1
               /\ syncs'[s].repos = syncs[s].repos \cup {Entry(u, r, n) : r \in Page(u, n)}
         /\ UNCHANGED <<remote, activity, users, calm, now>>
<1>1. syncs[s] \in Call /\ u \in User /\ n \in Nat \ {0} /\ syncs[s].pc = "list"
  BY CallIsNone, CallType DEF ListPage
<1>2. \A t \in Sync \ {s} : syncs'[t] = syncs[t]
  BY DEF ListPage, SyncTypeOK
<1>3. UNCHANGED <<remote, activity, users, calm, now>>
  BY DEF ListPage, gitServer, db
<1>4. CASE Page(u, n) = {}
  <2> DEFINE kept == {e \in syncs[s].repos : e.repo \in AllowedRepo}
  <2>1. syncs'[s] = [syncs[s] EXCEPT !.pc = "pull", !.left = AllowedRepo, !.repos = kept]
    BY <1>4 DEF ListPage, SyncTypeOK, FilterReposByOrg, RepoBelongsToOrg
  <2> HIDE DEF kept
  <2>2. syncs'[s].user = u /\ syncs'[s].pc = "pull" /\ syncs'[s].left = AllowedRepo /\ syncs'[s].repos = kept
    BY <1>1, <2>1 DEF Call
  <2> QED
    BY <1>1, <1>2, <1>3, <1>4, <2>2 DEF kept
<1>5. CASE Page(u, n) # {}
  <2> DEFINE repos == syncs[s].repos \cup {Entry(u, r, n) : r \in Page(u, n)}
             number == n + 1
  <2>1. syncs'[s] = [syncs[s] EXCEPT !.page = number, !.repos = repos]
    BY <1>5 DEF ListPage, SyncTypeOK
  <2> HIDE DEF repos, number
  <2>2. syncs'[s].user = u /\ syncs'[s].pc = "list" /\ syncs'[s].page = number /\ syncs'[s].repos = repos
    BY <1>1, <2>1 DEF Call
  <2> QED
    BY <1>1, <1>2, <1>3, <1>5, <2>2 DEF repos, number
<1> QED
  BY <1>4, <1>5

LEMMA PullDoes ==
  ASSUME SyncTypeOK, NEW s \in Sync, NEW r \in Repo, Pull(s, r), NEW u, u = syncs[s].user
  PROVE  /\ syncs[s] \in Call /\ u \in User /\ syncs[s].pc = "pull" /\ r \in syncs[s].left
         /\ \A t \in Sync \ {s} : syncs'[t] = syncs[t]
         /\ syncs'[s].user = u /\ syncs'[s].pc = "pull"
         /\ syncs'[s].repos = syncs[s].repos /\ syncs'[s].left = syncs[s].left \ {r}
         /\ \A q \in Repo, v \in User : users'[q][v] = IF q = r /\ v = u THEN <<>> ELSE users[q][v]
         /\ UNCHANGED <<remote, activity, calm, now>>
<1>1. syncs[s] \in Call /\ u \in User /\ syncs[s].pc = "pull" /\ r \in syncs[s].left
  BY CallIsNone, CallType DEF Pull
<1>2. syncs'[s] = [syncs[s] EXCEPT !.left = @ \ {r}] /\ \A t \in Sync \ {s} : syncs'[t] = syncs[t]
  BY DEF Pull, SyncTypeOK
<1>3. /\ syncs'[s].user = u /\ syncs'[s].pc = "pull"
      /\ syncs'[s].repos = syncs[s].repos /\ syncs'[s].left = syncs[s].left \ {r}
  BY <1>1, <1>2 DEF Call
<1>4. \A q \in Repo, v \in User : users'[q][v] = IF q = r /\ v = u THEN <<>> ELSE users[q][v]
  BY <1>1 DEF Pull, SyncTypeOK, Without
<1>5. UNCHANGED <<remote, activity, calm, now>>
  BY DEF Pull, gitServer
<1> QED
  BY <1>1, <1>2, <1>3, <1>4, <1>5

LEMMA PulledDoes ==
  ASSUME SyncTypeOK, NEW s \in Sync, Pulled(s), NEW u, u = syncs[s].user
  PROVE  /\ syncs[s] \in Call /\ u \in User /\ syncs[s].pc = "pull" /\ syncs[s].left = {}
         /\ \A t \in Sync \ {s} : syncs'[t] = syncs[t]
         /\ syncs'[s].user = u /\ syncs'[s].pc = "push"
         /\ syncs'[s].repos = syncs[s].repos /\ syncs'[s].left = syncs[s].repos
         /\ UNCHANGED <<remote, activity, users, calm, now>>
<1>1. syncs[s] \in Call /\ u \in User /\ syncs[s].pc = "pull" /\ syncs[s].left = {}
  BY CallIsNone, CallType DEF Pulled
<1>2. /\ syncs'[s] = [syncs[s] EXCEPT !.pc = "push", !.left = syncs[s].repos]
      /\ \A t \in Sync \ {s} : syncs'[t] = syncs[t]
  BY DEF Pulled, SyncTypeOK
<1>3. /\ syncs'[s].user = u /\ syncs'[s].pc = "push"
      /\ syncs'[s].repos = syncs[s].repos /\ syncs'[s].left = syncs[s].repos
  BY <1>1, <1>2 DEF Call
<1>4. UNCHANGED <<remote, activity, users, calm, now>>
  BY DEF Pulled, gitServer, db
<1> QED
  BY <1>1, <1>2, <1>3, <1>4

LEMMA UpsertDoes ==
  ASSUME SyncTypeOK, Filtered, NEW s \in Sync, NEW entry \in syncs[s].left, Upsert(s, entry),
         NEW u, u = syncs[s].user
  PROVE  /\ syncs[s] \in Call /\ u \in User /\ syncs[s].pc = "push" /\ entry \in syncs[s].repos
         /\ entry.repo \in AllowedRepo /\ entry.permissions \in Permission
         /\ \A t \in Sync \ {s} : syncs'[t] = syncs[t]
         /\ syncs'[s].user = u /\ syncs'[s].pc = "push"
         /\ syncs'[s].repos = syncs[s].repos /\ syncs'[s].left = syncs[s].left \ {entry}
         /\ \A q \in Repo, v \in User :
              users'[q][v] = IF q = entry.repo /\ v = u
                             THEN Append(users[q][v], entry.permissions) ELSE users[q][v]
         /\ UNCHANGED <<remote, activity, calm, now>>
<1>1. syncs[s] \in Call /\ u \in User /\ syncs[s].pc = "push"
  BY CallIsNone, CallType DEF Upsert
<1>2. entry \in syncs[s].repos /\ entry.repo \in AllowedRepo
  BY <1>1 DEF Filtered
<1>3. entry \in Listed
  BY <1>1, <1>2, CallType
<1>4. syncs'[s] = [syncs[s] EXCEPT !.left = @ \ {entry}] /\ \A t \in Sync \ {s} : syncs'[t] = syncs[t]
  BY DEF Upsert, SyncTypeOK
<1>5. /\ syncs'[s].user = u /\ syncs'[s].pc = "push"
      /\ syncs'[s].repos = syncs[s].repos /\ syncs'[s].left = syncs[s].left \ {entry}
  BY <1>1, <1>4 DEF Call
<1>6. entry.repo \in Repo /\ entry.permissions \in Permission
  BY <1>3 DEF Listed
<1>7. \A q \in Repo, v \in User :
        users'[q][v] = IF q = entry.repo /\ v = u
                       THEN Append(users[q][v], entry.permissions) ELSE users[q][v]
  BY <1>1, <1>6 DEF Upsert, SyncTypeOK
<1>8. UNCHANGED <<remote, activity, calm, now>>
  BY DEF Upsert, gitServer
<1> QED
  BY <1>1, <1>2, <1>4, <1>5, <1>6, <1>7, <1>8

LEMMA StartDoes ==
  ASSUME SyncTypeOK, NEW s \in Sync, NEW u \in User, Start(s, u)
  PROVE  /\ syncs[s] = NoSync
         /\ \A t \in Sync \ {s} : syncs'[t] = syncs[t]
         /\ syncs'[s].user = u /\ syncs'[s].pc = "list" /\ syncs'[s].page = 1 /\ syncs'[s].repos = {}
         /\ calm' = IF Running(u) = {} THEN calm \cup {u} ELSE calm \ {u}
         /\ UNCHANGED <<remote, activity, users, now>>
<1>1. syncs'[s] = [user |-> u, pc |-> "list", page |-> 1, repos |-> {}, left |-> {}]
  BY DEF Start, SyncTypeOK
<1>2. syncs'[s].user = u /\ syncs'[s].pc = "list" /\ syncs'[s].page = 1 /\ syncs'[s].repos = {}
  BY <1>1
<1>3. \A t \in Sync \ {s} : syncs'[t] = syncs[t]
  BY DEF Start, SyncTypeOK
<1> QED
  BY <1>2, <1>3 DEF Start, gitServer, db

LEMMA EndDoes ==
  ASSUME SyncTypeOK, NEW s \in Sync, ListFails(s) \/ Done(s)
  PROVE  /\ \A t \in Sync \ {s} : syncs'[t] = syncs[t]
         /\ syncs'[s] = NoSync
         /\ UNCHANGED <<remote, activity, users, now>>
BY DEF ListFails, Done, SyncTypeOK, gitServer, db

\* What goes on is a call, and remains one of its user.
LEMMA StepRuns ==
  ASSUME NEW s \in Sync, Step(s) \/ ListFails(s)
  PROVE  syncs[s] # NoSync
<1>1. CASE ListPage(s) \/ ListFails(s)
  BY <1>1 DEF ListPage, ListFails, NoSync
<1>2. CASE Pulled(s) \/ Done(s)
  BY <1>2 DEF Pulled, Done, NoSync
<1>3. CASE \E r \in Repo : Pull(s, r)
  BY <1>3 DEF Pull, NoSync
<1>4. CASE syncs[s].pc = "push" /\ \E entry \in syncs[s].left : Upsert(s, entry)
  BY <1>4 DEF NoSync
<1> QED
  BY <1>1, <1>2, <1>3, <1>4 DEF Step

LEMMA StepDoes ==
  ASSUME SyncTypeOK, Filtered, NEW s \in Sync, Step(s) \/ ListFails(s)
  PROVE  /\ \A t \in Sync \ {s} : syncs'[t] = syncs[t]
         /\ UNCHANGED <<remote, activity>>
         /\ syncs'[s] = NoSync \/ syncs'[s].user = syncs[s].user
<1>1. CASE ListPage(s)
  BY <1>1, ListPageDoes
<1>2. CASE Pulled(s)
  BY <1>2, PulledDoes
<1>3. CASE Done(s) \/ ListFails(s)
  BY <1>3, EndDoes
<1>4. CASE \E r \in Repo : Pull(s, r)
  BY <1>4, PullDoes
<1>5. CASE syncs[s].pc = "push" /\ \E entry \in syncs[s].left : Upsert(s, entry)
  BY <1>5, UpsertDoes
<1> QED
  BY <1>1, <1>2, <1>3, <1>4, <1>5 DEF Step

-----------------------------------------------------------------------------
LEMMA FilteredStep ==
  ASSUME SyncIInv, [SyncNext]_syncVars
  PROVE  Filtered'
<1>1. SyncTypeOK /\ Filtered
  BY DEF SyncIInv
<1>2. CASE UNCHANGED <<syncs, users>>
  BY <1>1, <1>2 DEF Filtered
<1>3. ASSUME NEW s \in Sync, NEW u \in User, Start(s, u) PROVE Filtered'
  BY <1>1, <1>3, StartDoes DEF Filtered
<1>4. ASSUME NEW s \in Sync, ListPage(s) PROVE Filtered'
  BY <1>1, <1>4, ListPageDoes DEF Filtered
<1>5. ASSUME NEW s \in Sync, ListFails(s) \/ Done(s) PROVE Filtered'
  BY <1>1, <1>5, EndDoes DEF Filtered, NoSync
<1>6. ASSUME NEW s \in Sync, NEW r \in Repo, Pull(s, r) PROVE Filtered'
  BY <1>1, <1>6, PullDoes DEF Filtered
<1>7. ASSUME NEW s \in Sync, Pulled(s) PROVE Filtered'
  BY <1>1, <1>7, PulledDoes DEF Filtered
<1>8. ASSUME NEW s \in Sync, NEW entry \in syncs[s].left, Upsert(s, entry) PROVE Filtered'
  <2>1. /\ entry.repo \in AllowedRepo
        /\ \A t \in Sync \ {s} : syncs'[t] = syncs[t]
        /\ syncs'[s].pc = "push" /\ syncs[s].pc = "push"
        /\ syncs'[s].repos = syncs[s].repos /\ syncs'[s].left \subseteq syncs[s].left
    BY <1>1, <1>8, UpsertDoes
  <2>2. \A q \in Repo, v \in User : q # entry.repo => users'[q][v] = users[q][v]
    BY <1>1, <1>8, UpsertDoes
  <2> QED
    BY <1>1, <2>1, <2>2 DEF Filtered
<1>9. ASSUME NEW u \in User, NEW r \in Repo, NEW p \in Permission \cup {None}, ChangePermission(u, r, p)
      PROVE  Filtered'
  BY <1>2, <1>9 DEF ChangePermission, db
<1>10. ASSUME NEW r \in Repo, Push(r) \/ SetRepoLastUpdate(r) PROVE Filtered'
  BY <1>2, <1>10 DEF Push, SetRepoLastUpdate, db
<1> QED
  BY <1>2, <1>3, <1>4, <1>5, <1>6, <1>7, <1>8, <1>9, <1>10
  DEF SyncNext, SyncReposRoute, SyncAllRepos, Step, syncVars

LEMMA NothingAheadStep ==
  ASSUME SyncIInv, [SyncNext]_syncVars
  PROVE  NothingAhead'
<1>1. SyncTypeOK /\ Filtered /\ NothingAhead /\ now \in Nat
  BY DEF SyncIInv, SyncTypeOK
<1>2. CASE UNCHANGED <<syncs, now>>
  BY <1>1, <1>2 DEF NothingAhead
<1>3. ASSUME NEW s \in Sync, NEW u \in User, Start(s, u) PROVE NothingAhead'
  <2>1. (\A t \in Sync \ {s} : syncs'[t] = syncs[t]) /\ syncs'[s].repos = {} /\ now' = now
    BY <1>1, <1>3, StartDoes
  <2> QED
    BY <1>1, <2>1 DEF NothingAhead
<1>4. ASSUME NEW s \in Sync, ListPage(s) PROVE NothingAhead'
  <2> DEFINE u == syncs[s].user
             n == syncs[s].page
  <2>1. /\ u \in User /\ n \in Nat \ {0} /\ syncs[s].pc = "list" /\ now' = now
        /\ \A t \in Sync \ {s} : syncs'[t] = syncs[t]
        /\ \/ syncs'[s].repos = {e \in syncs[s].repos : e.repo \in AllowedRepo}
           \/ syncs'[s].repos = syncs[s].repos \cup {Entry(u, r, n) : r \in Page(u, n)}
    BY <1>1, <1>4, ListPageDoes
  <2>2. \A r \in Page(u, n) : Entry(u, r, n).lastUpdate <= now
    BY <1>1, <2>1 DEF Entry, Page, Visible, SyncTypeOK
  <2> QED
    BY <1>1, <2>1, <2>2 DEF NothingAhead
<1>5. ASSUME NEW s \in Sync, ListFails(s) \/ Done(s) PROVE NothingAhead'
  BY <1>1, <1>5, EndDoes DEF NothingAhead, NoSync
<1>6. ASSUME NEW s \in Sync, NEW r \in Repo, Pull(s, r) PROVE NothingAhead'
  BY <1>1, <1>6, PullDoes DEF NothingAhead
<1>7. ASSUME NEW s \in Sync, Pulled(s) PROVE NothingAhead'
  BY <1>1, <1>7, PulledDoes DEF NothingAhead
<1>8. ASSUME NEW s \in Sync, NEW entry \in syncs[s].left, Upsert(s, entry) PROVE NothingAhead'
  BY <1>1, <1>8, UpsertDoes DEF NothingAhead
<1>9. ASSUME NEW u \in User, NEW r \in Repo, NEW p \in Permission \cup {None}, ChangePermission(u, r, p)
      PROVE  NothingAhead'
  BY <1>2, <1>9 DEF ChangePermission
<1>10. ASSUME NEW r \in Repo, Push(r) \/ SetRepoLastUpdate(r) PROVE NothingAhead'
  <2>1. syncs' = syncs /\ now' = now + 1
    BY <1>10 DEF Push, SetRepoLastUpdate
  <2>2. ASSUME NEW s \in Sync, syncs[s].pc # "none", NEW e \in syncs[s].repos PROVE e.lastUpdate <= now + 1
    <3>1. e.lastUpdate \in Nat
      BY <1>1, <2>2, CallIsNone, CallType DEF Listed
    <3> QED
      BY <1>1, <2>2, <3>1 DEF NothingAhead
  <2> QED
    BY <2>1, <2>2 DEF NothingAhead
<1> QED
  BY <1>2, <1>3, <1>4, <1>5, <1>6, <1>7, <1>8, <1>9, <1>10
  DEF SyncNext, SyncReposRoute, SyncAllRepos, Step, syncVars

-----------------------------------------------------------------------------
(* The calm users.                                                         *)

\* What concerns neither the user nor the user's calls leaves them alone, unless
\* it moves the pages of a list.
LEMMA CalmFrame ==
  ASSUME NEW u \in User, CalmUser(u), remote'[u] = remote[u],
         \/ ~ByActivity
         \/ activity' = activity
         \/ \A s \in Running(u) : syncs[s].pc # "list",
         \A r \in Repo : users'[r][u] = users[r][u],
         \A s \in Sync : \/ syncs'[s] = syncs[s]
                         \/ /\ ~(syncs[s] # NoSync /\ syncs[s].user = u)
                            /\ ~(syncs'[s] # NoSync /\ syncs'[s].user = u)
  PROVE  CalmUser(u)'
<1>1. Running(u)' = Running(u)
  BY DEF Running
<1>2. Visible(u)' = Visible(u)
  BY DEF Visible
<1>3. \/ \A r : Place(u, r)' = Place(u, r)
      \/ \A s \in Running(u) : syncs[s].pc # "list"
  BY <1>2 DEF Place, Before
<1>4. \A r : Expected(u, r)' = Expected(u, r)
  BY DEF Expected
<1>5. AllowedRepo \subseteq Repo
  BY SyncAssumption DEF SyncAssumption
<1>6. ASSUME NEW s \in Running(u) PROVE CalmCall(s, u)'
  <2>1. syncs'[s] = syncs[s] /\ CalmCall(s, u)
    BY DEF Running, CalmUser
  <2>2. ListedOnce(s, u)'
    BY <2>1, <1>2 DEF CalmCall, ListedOnce
  <2>3. \A r : IsListed(s, r)' <=> IsListed(s, r)
    BY <2>1 DEF IsListed
  <2> QED
    BY <2>1, <2>2, <2>3, <1>2, <1>3, <1>4, <1>5 DEF CalmCall
<1>7. (\A s, t \in Running(u) : s = t)'
  BY <1>1 DEF CalmUser
<1>8. (Running(u) = {} => \A r \in Repo : users[r][u] = Expected(u, r))'
  BY <1>1, <1>4 DEF CalmUser
<1> QED
  BY <1>1, <1>6, <1>7, <1>8 DEF CalmUser

\* The step of a user's only call.
LEMMA CalmOwnStep ==
  ASSUME NEW u \in User, CalmUser(u), NEW s \in Running(u),
         \A t \in Sync \ {s} : syncs'[t] = syncs[t],
         syncs'[s].user = u, syncs'[s].pc # "none", CalmCall(s, u)'
  PROVE  CalmUser(u)'
<1>1. Running(u) = {s}
  BY DEF CalmUser
<1>2. syncs'[s] # NoSync
  BY DEF NoSync
<1>3. Running(u)' = {s}
  BY <1>1, <1>2 DEF Running
<1> QED
  BY <1>3 DEF CalmUser

LEMMA CalmStart ==
  ASSUME SyncIInv, NEW s \in Sync, NEW u \in User, Start(s, u)
  PROVE  \A v \in calm' : CalmUser(v)'
<1>1. /\ SyncTypeOK /\ syncs[s] = NoSync
      /\ \A t \in Sync \ {s} : syncs'[t] = syncs[t]
      /\ syncs'[s].user = u /\ syncs'[s].pc = "list" /\ syncs'[s].page = 1 /\ syncs'[s].repos = {}
      /\ calm' = IF Running(u) = {} THEN calm \cup {u} ELSE calm \ {u}
      /\ UNCHANGED <<remote, activity, users, now>>
  BY StartDoes DEF SyncIInv
<1>2. ASSUME NEW v \in calm, v # u PROVE CalmUser(v)'
  <2>1. v \in User /\ CalmUser(v)
    BY DEF SyncIInv, SyncTypeOK
  <2>2. \A t \in Sync : \/ syncs'[t] = syncs[t]
                         \/ /\ ~(syncs[t] # NoSync /\ syncs[t].user = v)
                            /\ ~(syncs'[t] # NoSync /\ syncs'[t].user = v)
    BY <1>1, <1>2
  <2> QED
    BY <1>1, <2>1, <2>2, CalmFrame
<1>3. CASE Running(u) = {}
  <2>1. syncs'[s] # NoSync
    BY <1>1 DEF NoSync
  <2>2. Running(u)' = {s}
    BY <1>1, <1>3, <2>1 DEF Running
  <2>3. \A r \in Visible(u)' : ~(Place(u, r)' < (syncs'[s].page - 1) * PageSize)
    <3>1. PageSize \in Nat /\ syncs'[s].page = 1
      BY <1>1, SyncAssumption DEF SyncAssumption
    <3>2. (syncs'[s].page - 1) * PageSize = 0
      BY <3>1
    <3>3. Visible(u)' = Visible(u) /\ \A r : Place(u, r)' = Place(u, r)
      BY <1>1 DEF Visible, Place, Before
    <3>4. \A r \in Visible(u) : Place(u, r) \in 0..(Cardinality(Visible(u)) - 1)
      BY <1>1, Places
    <3>5. \A r \in Visible(u) : ~(Place(u, r) < 0)
      BY <3>4, VisibleIsFinite
    <3> QED
      BY <3>2, <3>3, <3>5
  <2>4. CalmCall(s, u)'
    BY <1>1, <2>3 DEF CalmCall, ListedOnce, IsListed
  <2>5. CalmUser(u)'
    BY <2>2, <2>4 DEF CalmUser
  <2> QED
    BY <1>1, <1>2, <1>3, <2>5
<1>4. CASE Running(u) # {}
  BY <1>1, <1>2, <1>4
<1> QED
  BY <1>3, <1>4

LEMMA CalmListPage ==
  ASSUME SyncIInv, NEW s \in Sync, ListPage(s), NEW u \in calm, s \in Running(u)
  PROVE  CalmUser(u)'
<1> DEFINE n == syncs[s].page
           before == (n - 1) * PageSize
           repos == syncs[s].repos
<1>1. /\ syncs[s].user = u /\ u \in User /\ n \in Nat \ {0} /\ syncs[s].pc = "list"
      /\ \A t \in Sync \ {s} : syncs'[t] = syncs[t]
      /\ syncs'[s].user = u
      /\ \/ /\ Page(u, n) = {} /\ syncs'[s].pc = "pull" /\ syncs'[s].left = AllowedRepo
            /\ syncs'[s].repos = {e \in repos : e.repo \in AllowedRepo}
         \/ /\ Page(u, n) # {} /\ syncs'[s].pc = "list" /\ syncs'[s].page = n + 1
            /\ syncs'[s].repos = repos \cup {Entry(u, r, n) : r \in Page(u, n)}
      /\ UNCHANGED <<remote, activity, users>>
  <2>1. SyncTypeOK /\ syncs[s].user = u
    BY DEF SyncIInv, Running
  <2> QED
    BY <2>1, ListPageDoes
<1>2. CalmUser(u) /\ CalmCall(s, u) /\ ListedOnce(s, u)
  BY DEF SyncIInv, CalmUser, CalmCall
<1>3. Visible(u)' = Visible(u) /\ \A r : Place(u, r)' = Place(u, r)
  BY <1>1 DEF Visible, Place, Before
<1>4. \A r \in Visible(u) : IsListed(s, r) <=> Place(u, r) < before
  BY <1>1, <1>2 DEF CalmCall
<1>5. \A r : IsListed(s, r) => r \in Visible(u)
  BY <1>2 DEF ListedOnce, IsListed
<1> HIDE DEF n, before
<1>6. CASE Page(u, n) = {}
  <2>1. \A r : IsListed(s, r) <=> r \in Visible(u)
    BY <1>1, <1>4, <1>5, <1>6, EmptyPageEnds DEF before, SyncIInv
  <2>2. syncs'[s].repos = {e \in repos : e.repo \in AllowedRepo}
    BY <1>1, <1>6
  <2>3. ListedOnce(s, u)'
    BY <1>1, <1>2, <1>3, <2>2 DEF ListedOnce
  <2>4. \A r \in AllowedRepo : IsListed(s, r)' <=> IsListed(s, r)
    BY <2>2 DEF IsListed
  <2>5. CalmCall(s, u)'
    BY <1>1, <1>3, <1>6, <2>1, <2>3, <2>4 DEF CalmCall
  <2> QED
    BY <1>1, <1>2, <1>6, <2>5, CalmOwnStep
<1>7. CASE Page(u, n) # {}
  <2> DEFINE entries == {Entry(u, r, n) : r \in Page(u, n)}
  <2>1. syncs'[s].repos = repos \cup entries
    BY <1>1, <1>7
  <2>2. \A e \in entries : e.repo \in Page(u, n) /\ e.permissions = remote[u][e.repo]
    BY DEF Entry
  <2>3. \A e, f \in entries : e.repo = f.repo => e = f
    BY DEF Entry
  <2>4. PageSize \in Nat \ {0}
    BY SyncAssumption DEF SyncAssumption
  <2>5. /\ before \in Nat /\ n * PageSize = before + PageSize
        /\ (syncs'[s].page - 1) * PageSize = before + PageSize
    <3>1. n \in Nat \ {0}
      BY <1>1
    <3>2. syncs'[s].page = n + 1
      BY <1>1, <1>7
    <3>3. syncs'[s].page - 1 = n
      BY <3>1, <3>2
    <3>4. before \in Nat /\ n * PageSize = before + PageSize
      BY <2>4, <3>1 DEF before
    <3> QED
      BY <3>3, <3>4
  <2>6. Page(u, n) = {r \in Visible(u) : before <= Place(u, r) /\ Place(u, r) < before + PageSize}
    BY <2>5 DEF Page, before
  <2>7. \A r \in Visible(u) : Place(u, r) \in Nat
    BY <1>1, Places, VisibleIsFinite DEF SyncIInv
  <2>8. \A e \in repos : e.repo \in Visible(u) /\ e.repo \notin Page(u, n)
    BY <1>2, <1>4, <2>5, <2>6, <2>7 DEF ListedOnce, IsListed
  <2> HIDE DEF entries
  <2>9. ListedOnce(s, u)'
    BY <1>1, <1>2, <1>3, <2>1, <2>2, <2>3, <2>6, <2>8 DEF ListedOnce
  <2>10. \A r \in Visible(u) : IsListed(s, r)' <=> Place(u, r) < before + PageSize
    <3>1. \A r : IsListed(s, r)' <=> IsListed(s, r) \/ \E e \in entries : e.repo = r
      BY <2>1 DEF IsListed
    <3>2. \A r : (\E e \in entries : e.repo = r) <=> r \in Page(u, n)
      <4>1. \A r \in Page(u, n) : Entry(u, r, n) \in entries /\ Entry(u, r, n).repo = r
        BY DEF Entry, entries
      <4> QED
        BY <2>2, <4>1
    <3> QED
      BY <1>4, <2>4, <2>5, <2>6, <2>7, <3>1, <3>2
  <2>11. CalmCall(s, u)'
    BY <1>1, <1>3, <1>7, <2>5, <2>9, <2>10 DEF CalmCall
  <2> QED
    BY <1>1, <1>2, <1>7, <2>11, CalmOwnStep
<1> QED
  BY <1>6, <1>7

LEMMA CalmPull ==
  ASSUME SyncIInv, NEW s \in Sync, NEW q \in Repo, Pull(s, q), NEW u \in calm, s \in Running(u)
  PROVE  CalmUser(u)'
<1>1. SyncTypeOK /\ syncs[s].user = u /\ CalmUser(u) /\ CalmCall(s, u)
  BY DEF SyncIInv, Running, CalmUser
<1>2. /\ u \in User /\ syncs[s].pc = "pull"
      /\ \A t \in Sync \ {s} : syncs'[t] = syncs[t]
      /\ syncs'[s].user = u /\ syncs'[s].pc = "pull"
      /\ syncs'[s].repos = syncs[s].repos /\ syncs'[s].left = syncs[s].left \ {q}
      /\ \A r \in Repo : users'[r][u] = IF r = q THEN <<>> ELSE users[r][u]
      /\ UNCHANGED remote
  BY <1>1, PullDoes
<1>3. Visible(u)' = Visible(u) /\ AllowedRepo \subseteq Repo
  BY <1>2, SyncAssumption DEF Visible, SyncAssumption
<1>4. ListedOnce(s, u)' /\ \A r : IsListed(s, r)' <=> IsListed(s, r)
  BY <1>1, <1>2, <1>3 DEF CalmCall, ListedOnce, IsListed
<1>5. \A r \in AllowedRepo \ syncs'[s].left : users'[r][u] = <<>>
  BY <1>1, <1>2, <1>3 DEF CalmCall
<1>6. CalmCall(s, u)'
  BY <1>1, <1>2, <1>3, <1>4, <1>5 DEF CalmCall
<1> QED
  BY <1>1, <1>2, <1>6, CalmOwnStep

LEMMA CalmPulled ==
  ASSUME SyncIInv, NEW s \in Sync, Pulled(s), NEW u \in calm, s \in Running(u)
  PROVE  CalmUser(u)'
<1>1. SyncTypeOK /\ syncs[s].user = u /\ CalmUser(u) /\ CalmCall(s, u)
  BY DEF SyncIInv, Running, CalmUser
<1>2. /\ u \in User /\ syncs[s].pc = "pull" /\ syncs[s].left = {}
      /\ \A t \in Sync \ {s} : syncs'[t] = syncs[t]
      /\ syncs'[s].user = u /\ syncs'[s].pc = "push"
      /\ syncs'[s].repos = syncs[s].repos /\ syncs'[s].left = syncs[s].repos
      /\ UNCHANGED <<remote, users>>
  BY <1>1, PulledDoes
<1>3. /\ Visible(u)' = Visible(u) /\ AllowedRepo \subseteq Repo
      /\ \A r : Expected(u, r)' = Expected(u, r)
  BY <1>2, SyncAssumption DEF Visible, Expected, SyncAssumption
<1>4. ListedOnce(s, u)' /\ \A r : IsListed(s, r)' <=> IsListed(s, r)
  BY <1>1, <1>2, <1>3 DEF CalmCall, ListedOnce, IsListed
<1>5. ASSUME NEW r \in AllowedRepo
      PROVE  users'[r][u] = IF \E e \in syncs'[s].left : e.repo = r THEN <<>> ELSE Expected(u, r)
  <2>1. users'[r][u] = <<>>
    BY <1>1, <1>2 DEF CalmCall
  <2>2. (\E e \in syncs'[s].left : e.repo = r) <=> r \in Visible(u)
    BY <1>1, <1>2 DEF CalmCall, IsListed
  <2>3. r \notin Visible(u) => Expected(u, r) = <<>>
    BY <1>3 DEF Visible, Expected
  <2> QED
    BY <2>1, <2>2, <2>3
<1>6. CalmCall(s, u)'
  BY <1>1, <1>2, <1>3, <1>4, <1>5 DEF CalmCall
<1> QED
  BY <1>1, <1>2, <1>6, CalmOwnStep

LEMMA CalmUpsert ==
  ASSUME SyncIInv, NEW s \in Sync, NEW entry \in syncs[s].left, Upsert(s, entry),
         NEW u \in calm, s \in Running(u)
  PROVE  CalmUser(u)'
<1>1. SyncTypeOK /\ Filtered /\ syncs[s].user = u /\ CalmUser(u) /\ CalmCall(s, u)
  BY DEF SyncIInv, Running, CalmUser
<1>2. /\ u \in User /\ syncs[s].pc = "push" /\ entry \in syncs[s].repos
      /\ entry.repo \in AllowedRepo
      /\ \A t \in Sync \ {s} : syncs'[t] = syncs[t]
      /\ syncs'[s].user = u /\ syncs'[s].pc = "push"
      /\ syncs'[s].repos = syncs[s].repos /\ syncs'[s].left = syncs[s].left \ {entry}
      /\ UNCHANGED remote
  BY <1>1, UpsertDoes
<1>3. \A r \in Repo : users'[r][u] = IF r = entry.repo THEN Append(users[r][u], entry.permissions)
                                       ELSE users[r][u]
  BY <1>1, <1>2, UpsertDoes
<1>4. /\ Visible(u)' = Visible(u) /\ AllowedRepo \subseteq Repo
      /\ \A r : Expected(u, r)' = Expected(u, r)
  BY <1>2, SyncAssumption DEF Visible, Expected, SyncAssumption
<1>5. ListedOnce(s, u)' /\ \A r : IsListed(s, r)' <=> IsListed(s, r)
  BY <1>1, <1>2, <1>4 DEF CalmCall, ListedOnce, IsListed
<1>6. ASSUME NEW r \in AllowedRepo
      PROVE  users'[r][u] = IF \E e \in syncs'[s].left : e.repo = r THEN <<>> ELSE Expected(u, r)
  <2>1. users[r][u] = IF \E e \in syncs[s].left : e.repo = r THEN <<>> ELSE Expected(u, r)
    BY <1>1, <1>2 DEF CalmCall
  <2>2. CASE r = entry.repo
    <3>1. users[r][u] = <<>>
      BY <2>1, <2>2
    <3>2. users'[r][u] = <<entry.permissions>>
      <4>1. users'[r][u] = Append(<<>>, entry.permissions)
        BY <1>3, <1>4, <2>2, <3>1
      <4>2. entry.permissions \in Permission
        BY <1>1, UpsertDoes
      <4>3. \A p \in Permission : Append(<<>>, p) = <<p>>
        OBVIOUS
      <4> QED
        BY <4>1, <4>2, <4>3
    <3>3. entry.permissions = remote[u][r] /\ r \in Visible(u)
      BY <1>1, <1>2, <2>2 DEF CalmCall, ListedOnce
    <3>4. Expected(u, r) = <<entry.permissions>>
      BY <3>3 DEF Expected, Visible
    <3>5. ~ \E e \in syncs'[s].left : e.repo = r
      BY <1>1, <1>2, <2>2 DEF Filtered, CalmCall, ListedOnce
    <3> QED
      BY <3>2, <3>4, <3>5
  <2>3. CASE r # entry.repo
    <3>1. users'[r][u] = users[r][u]
      BY <1>3, <1>4, <2>3
    <3>2. (\E e \in syncs'[s].left : e.repo = r) <=> \E e \in syncs[s].left : e.repo = r
      BY <1>2, <2>3
    <3> QED
      BY <2>1, <3>1, <3>2
  <2> QED
    BY <2>2, <2>3
<1>7. CalmCall(s, u)'
  BY <1>1, <1>2, <1>4, <1>5, <1>6 DEF CalmCall
<1> QED
  BY <1>1, <1>2, <1>7, CalmOwnStep

LEMMA CalmDone ==
  ASSUME SyncIInv, NEW s \in Sync, Done(s), NEW u \in calm, s \in Running(u)
  PROVE  CalmUser(u)'
<1>1. /\ SyncTypeOK /\ Filtered /\ u \in User /\ CalmUser(u) /\ CalmCall(s, u)
      /\ syncs[s].pc = "push" /\ syncs[s].left = {}
  BY DEF SyncIInv, SyncTypeOK, Running, CalmUser, Done
<1>2. (\A t \in Sync \ {s} : syncs'[t] = syncs[t]) /\ syncs'[s] = NoSync /\ UNCHANGED <<remote, users>>
  BY <1>1, EndDoes
<1>3. Running(u)' = {}
  BY <1>1, <1>2 DEF CalmUser, Running
<1>4. ASSUME NEW r \in Repo PROVE users[r][u] = Expected(u, r)
  <2>1. CASE r \in AllowedRepo
    BY <1>1, <2>1 DEF CalmCall
  <2>2. CASE r \notin AllowedRepo
    BY <1>1, <2>2 DEF Filtered, Expected
  <2> QED
    BY <2>1, <2>2
<1>5. \A r : Expected(u, r)' = Expected(u, r)
  BY <1>2 DEF Expected
<1> QED
  BY <1>2, <1>3, <1>4, <1>5 DEF CalmUser

\* What a user's call does is nothing to another user.
LEMMA CalmStep ==
  ASSUME SyncIInv, [SyncNext]_syncVars
  PROVE  \A u \in calm' : CalmUser(u)'
<1>1. SyncTypeOK /\ Filtered /\ \A u \in calm : u \in User /\ CalmUser(u)
  BY DEF SyncIInv, SyncTypeOK
<1>2. CASE UNCHANGED <<remote, activity, users, syncs, calm>>
  BY <1>1, <1>2, CalmFrame
<1>3. ASSUME NEW v \in User, NEW r \in Repo, NEW p \in Permission \cup {None}, ChangePermission(v, r, p)
      PROVE  \A u \in calm' : CalmUser(u)'
  <2>1. calm' = calm \ {v} /\ UNCHANGED <<activity, users, syncs>> /\ \A u \in User \ {v} : remote'[u] = remote[u]
    BY <1>1, <1>3 DEF ChangePermission, db, SyncTypeOK
  <2> QED
    BY <1>1, <2>1, CalmFrame
<1>4. ASSUME NEW r \in Repo, Push(r) PROVE \A u \in calm' : CalmUser(u)'
  <2>1. calm' = calm \ Moved /\ UNCHANGED <<remote, users, syncs>>
    BY <1>4 DEF Push, db
  <2>2. ASSUME NEW u \in User \ Moved
        PROVE  ~ByActivity \/ \A s \in Running(u) : syncs[s].pc # "list"
    BY <2>2 DEF Moved
  <2> QED
    BY <1>1, <2>1, <2>2, CalmFrame
<1>8. ASSUME NEW r \in Repo, SetRepoLastUpdate(r) PROVE \A u \in calm' : CalmUser(u)'
  BY <1>2, <1>8 DEF SetRepoLastUpdate, gitServer
<1>5. ASSUME NEW s \in Sync, NEW u \in calm, s \notin Running(u), Step(s) \/ ListFails(s) PROVE CalmUser(u)'
  <2>1. \A t \in Sync \ {s} : syncs'[t] = syncs[t]
    BY <1>1, <1>5, StepDoes
  <2>2. remote' = remote /\ activity' = activity
    BY <1>1, <1>5, StepDoes
  <2>3. syncs[s] # NoSync /\ syncs[s].user # u /\ (syncs'[s] = NoSync \/ syncs'[s].user # u)
    <3>1. syncs[s] # NoSync
      BY <1>5, StepRuns
    <3>2. syncs[s].user # u
      BY <1>5, <3>1 DEF Running
    <3>3. syncs'[s] = NoSync \/ syncs'[s].user = syncs[s].user
      BY <1>1, <1>5, StepDoes
    <3> QED
      BY <3>1, <3>2, <3>3
  <2>4. \A r \in Repo : users'[r][u] = users[r][u]
    <3>1. CASE ListPage(s) \/ Pulled(s) \/ Done(s) \/ ListFails(s)
      BY <3>1 DEF ListPage, Pulled, Done, ListFails, db
    <3>2. ASSUME NEW r \in Repo, Pull(s, r) PROVE \A q \in Repo : users'[q][u] = users[q][u]
      BY <1>1, <2>3, <3>2, PullDoes
    <3>3. ASSUME NEW entry \in syncs[s].left, Upsert(s, entry)
          PROVE  \A q \in Repo : users'[q][u] = users[q][u]
      BY <1>1, <2>3, <3>3, UpsertDoes
    <3> QED
      BY <1>5, <3>1, <3>2, <3>3 DEF Step
  <2> QED
    BY <1>1, <2>1, <2>2, <2>3, <2>4, CalmFrame
<1>6. ASSUME NEW s \in Sync, Step(s) PROVE \A u \in calm' : CalmUser(u)'
  <2>1. calm' = calm
    BY <1>6 DEF Step, ListPage, Pulled, Done, Pull, Upsert
  <2> QED
    BY <1>5, <1>6, <2>1, CalmListPage, CalmPull, CalmPulled, CalmUpsert, CalmDone DEF Step
<1>7. ASSUME NEW s \in Sync, ListFails(s) PROVE \A u \in calm' : CalmUser(u)'
  <2>1. calm' = calm \ {syncs[s].user}
    BY <1>7 DEF ListFails
  <2> QED
    BY <1>5, <1>7, <2>1 DEF Running
<1> QED
  BY <1>2, <1>3, <1>4, <1>6, <1>7, <1>8, CalmStart DEF SyncNext, SyncReposRoute, SyncAllRepos, syncVars

LEMMA SyncStep ==
  ASSUME SyncIInv, [SyncNext]_syncVars
  PROVE  SyncIInv'
BY SyncTypeStep, FilteredStep, NothingAheadStep, CalmStep DEF SyncIInv

\* A sync that no other of the user overlapped, and whose pages did not move
\* while it listed them, leaves the user exactly the permissions that the git
\* server gives (syncRepos), however many syncs of others are under way.
THEOREM SyncInvHolds == SyncSpec => []SyncInv
BY InitSync, SyncStep, SyncImplies, PTL DEF SyncSpec

-----------------------------------------------------------------------------
(* The list of repositories.                                               *)

\* Those that come before a repository in the list of the browser's user.
Newer(r) == {q \in Pullable(walk.user) : lastUpdate[q] > lastUpdate[r]}

Reading == walk.pc \in {"count", "find"}

\* No repository joined the list, left it or sank: what the browser has not
\* seen yet comes after the pages that it has read, and the count is that of
\* the list.
WalkInv ==
  Reading =>
    /\ walk.still \subseteq Untied(Pullable(walk.user), lastUpdate)
    /\ walk.seen \subseteq Pullable(walk.user)
    /\ walk.pc = "find" => walk.count = Cardinality(Pullable(walk.user))
    /\ \A r \in walk.still \ walk.seen : walk.page * walk.size <= Cardinality(Newer(r))

ListIInv == SyncIInv /\ ListTypeOK /\ WalkInv /\ NothingPassesUnseen

LEMMA WalkType ==
  ASSUME ListTypeOK
  PROVE  /\ walk.pc # "none" => walk \in Walk
         /\ walk \in Walk =>
              /\ walk.user \in User \cup {NoUser} /\ walk.size \in Nat \ {0} /\ walk.page \in Nat
              /\ walk.count \in Nat /\ walk.seen \in SUBSET Repo /\ walk.still \in SUBSET Repo
              /\ walk.pc \in {"count", "find", "done"}
<1>1. walk \in Walk \cup {NoWalk}
  BY DEF ListTypeOK
<1>2. NoWalk.pc = "none"
  BY DEF NoWalk
<1>3. walk.pc # "none" => walk \in Walk
  BY <1>1, <1>2
<1> QED
  BY <1>3 DEF Walk

LEMMA PullableIsFinite ==
  ASSUME ListTypeOK, NEW user
  PROVE  /\ Pullable(user) \subseteq Repo /\ IsFiniteSet(Pullable(user))
         /\ Cardinality(Pullable(user)) \in Nat
<1>1. Pullable(user) \in SUBSET Repo
  BY SyncAssumption DEF ListTypeOK, Pullable, UserCanPullDbQuery, SyncAssumption
<1> QED
  BY <1>1, RepoIsFinite, FS_Subset, FS_CardinalityType

\* Whatever ties the database broke, a repository without ties is where the
\* newer ones end.
LEMMA SortedPlace ==
  ASSUME NEW P \in SUBSET Repo, IsFiniteSet(P), \A r \in P : lastUpdate[r] \in Nat,
         NEW list \in Sorted(P), NEW r \in Untied(P, lastUpdate)
  PROVE  LET k == Cardinality({q \in P : lastUpdate[q] > lastUpdate[r]})
         IN  k \in Nat /\ k + 1 \in 1..Cardinality(P) /\ list[k + 1] = r
<1> DEFINE n == Cardinality(P)
           newer == {q \in P : lastUpdate[q] > lastUpdate[r]}
<1>1. /\ n \in Nat /\ list \in [1..n -> P] /\ r \in P
      /\ \A i, j \in 1..n : i < j => list[i] # list[j] /\ lastUpdate[list[i]] >= lastUpdate[list[j]]
      /\ \A q \in P \ {r} : lastUpdate[q] # lastUpdate[r]
  BY FS_CardinalityType DEF Sorted, Untied
<1> HIDE DEF n
<1>2. list \in Injection(1..n, P)
  <2>1. \A i, j \in 1..n : list[i] = list[j] => i = j
    BY <1>1
  <2> QED
    BY <1>1, <2>1 DEF Injection, IsInjective
<1>3. Cardinality(1..n) = Cardinality(P)
  BY <1>1, FS_Interval DEF n
<1>4. list \in Surjection(1..n, P)
  BY <1>2, <1>3, FS_Injection
<1>5. \A q \in P : \E i \in 1..n : list[i] = q
  BY <1>4 DEF Surjection
<1>6. PICK i \in 1..n : list[i] = r
  BY <1>1, <1>5
<1> DEFINE g == [j \in 1..(i - 1) |-> list[j]]
<1>7. \A j \in 1..(i - 1) : j \in 1..n /\ j < i /\ list[j] \in newer
  BY <1>1, <1>6
<1>8. \A q \in newer : \E j \in 1..(i - 1) : list[j] = q
  <2>1. SUFFICES ASSUME NEW q \in newer PROVE \E j \in 1..(i - 1) : list[j] = q
    OBVIOUS
  <2>2. PICK j \in 1..n : list[j] = q
    BY <1>5
  <2>3. j # i /\ ~(i < j)
    BY <1>1, <1>6, <2>2
  <2>4. j \in 1..(i - 1)
    BY <1>1, <2>3
  <2> QED
    BY <2>2, <2>4
<1> HIDE DEF newer
<1>9. g \in Bijection(1..(i - 1), newer)
  <2>1. \A j, k \in 1..(i - 1) : list[j] = list[k] => j = k
    BY <1>2, <1>7 DEF Injection, IsInjective
  <2> QED
    BY <1>7, <1>8, <2>1 DEF Bijection, Injection, Surjection, IsInjective
<1>10. IsFiniteSet(1..(i - 1)) /\ Cardinality(1..(i - 1)) = i - 1
  BY <1>1, FS_Interval
<1>11. Cardinality(newer) = i - 1
  BY <1>9, <1>10, FS_Bijection DEF ExistsBijection
<1> QED
  BY <1>1, <1>6, <1>11 DEF newer, n

LEMMA ListImplies == ListIInv => ListInv
BY SyncImplies DEF ListIInv, ListInv

LEMMA InitList == ListInit => ListIInv
<1> SUFFICES ASSUME ListInit PROVE ListIInv
  OBVIOUS
<1>1. SyncIInv
  BY InitSync DEF ListInit
<1>2. ListTypeOK
  BY DEF ListInit, SyncInit, ListTypeOK
<1>3. WalkInv /\ NothingPassesUnseen
  BY DEF ListInit, NoWalk, WalkInv, Reading, NothingPassesUnseen
<1> QED
  BY <1>1, <1>2, <1>3 DEF ListIInv

-----------------------------------------------------------------------------
(* The steps of the browser.                                               *)

\* They change nothing that the syncs know of.
LEMMA BrowserFrame ==
  ASSUME ListIInv, UNCHANGED <<remote, activity, now, users, lastUpdate, syncs, calm, stored>>
  PROVE  /\ SyncIInv'
         /\ \A user : Pullable(user)' = Pullable(user)
         /\ walk' \in Walk \cup {NoWalk} => ListTypeOK'
<1>1. SyncTypeOK' /\ Filtered' /\ NothingAhead'
  BY DEF ListIInv, SyncIInv, SyncTypeOK, Filtered, NothingAhead
<1>2. \A u \in calm : u \in User /\ CalmUser(u)
  BY DEF ListIInv, SyncIInv, SyncTypeOK
<1>3. \A u \in calm' : CalmUser(u)'
  BY <1>2, CalmFrame
<1>4. SyncIInv'
  BY <1>1, <1>3 DEF SyncIInv
<1>5. \A user : Pullable(user)' = Pullable(user)
  BY DEF Pullable, UserCanPullDbQuery, UserCanPull
<1>6. walk' \in Walk \cup {NoWalk} => ListTypeOK'
  BY DEF ListIInv, ListTypeOK
<1> QED
  BY <1>4, <1>5, <1>6

LEMMA OpenStep ==
  ASSUME ListIInv, NEW user \in User \cup {NoUser}, NEW requested \in RequestedSize,
         Open(user, requested)
  PROVE  ListIInv'
<1> DEFINE size == IF requested = 0 THEN DefaultSize ELSE requested
           pcs == IF RequireLogin /\ user = NoUser THEN "done" ELSE "count"
           still == IF RequireLogin /\ user = NoUser THEN {} ELSE Untied(Pullable(user), lastUpdate)
           new == [pc |-> pcs, user |-> user, size |-> size, page |-> 0, count |-> 0,
                   seen |-> {}, still |-> still]
<1>1. /\ walk' = new
      /\ UNCHANGED <<remote, activity, now, users, lastUpdate, syncs, calm, stored>>
  BY DEF Open, syncVars
<1>2. /\ size \in Nat \ {0} /\ pcs \in {"done", "count"} /\ still \in SUBSET Repo
      /\ still \subseteq Untied(Pullable(user), lastUpdate)
      /\ pcs = "done" => still = {}
  BY ListingAssumption, PullableIsFinite DEF ListingAssumption, Untied, ListIInv
<1> HIDE DEF size, pcs, still
<1>3. walk' \in Walk
  BY <1>1, <1>2 DEF Walk
<1>4. /\ walk'.pc = pcs /\ walk'.user = user /\ walk'.size = size /\ walk'.page = 0 /\ walk'.count = 0
      /\ walk'.seen = {} /\ walk'.still = still
  BY <1>1
<1>5. SyncIInv' /\ ListTypeOK' /\ Pullable(user)' = Pullable(user)
  BY <1>1, <1>3, BrowserFrame
<1>6. WalkInv'
  <2>1. walk'.page * walk'.size = 0
    BY <1>2, <1>4
  <2>2. \A r : Cardinality(Newer(r)') \in Nat
    <3> SUFFICES ASSUME NEW r PROVE Cardinality(Newer(r)') \in Nat
      OBVIOUS
    <3>1. Newer(r)' \in SUBSET Pullable(user)
      BY <1>4, <1>5 DEF Newer
    <3> HIDE DEF Newer
    <3> QED
      BY <3>1, PullableIsFinite, FS_Subset, FS_CardinalityType DEF ListIInv
  <2>3. \A r : walk'.page * walk'.size <= Cardinality(Newer(r)')
    BY <2>1, <2>2
  <2>4. Untied(Pullable(walk.user), lastUpdate)' = Untied(Pullable(user), lastUpdate)
    BY <1>1, <1>4, <1>5 DEF Untied
  <2> QED
    BY <1>2, <1>4, <2>3, <2>4 DEF WalkInv, Reading
<1>7. NothingPassesUnseen'
  BY <1>2, <1>4, FS_EmptySet DEF NothingPassesUnseen
<1> QED
  BY <1>5, <1>6, <1>7 DEF ListIInv

LEMMA CountStep ==
  ASSUME ListIInv, Count
  PROVE  ListIInv'
<1> DEFINE P == Pullable(walk.user)
<1>1. /\ walk.pc = "count" /\ walk' = [walk EXCEPT !.pc = "find", !.count = Cardinality(P)]
      /\ UNCHANGED <<remote, activity, now, users, lastUpdate, syncs, calm, stored>>
  BY DEF Count, syncVars
<1>2. walk \in Walk /\ Cardinality(P) \in Nat
  BY <1>1, WalkType, PullableIsFinite DEF ListIInv
<1> HIDE DEF P
<1>3. walk' \in Walk
  BY <1>1, <1>2 DEF Walk
<1>4. /\ walk'.pc = "find" /\ walk'.count = Cardinality(P)
      /\ walk'.user = walk.user /\ walk'.size = walk.size /\ walk'.page = walk.page
      /\ walk'.seen = walk.seen /\ walk'.still = walk.still
  BY <1>1, <1>2 DEF Walk
<1>5. SyncIInv' /\ ListTypeOK' /\ Pullable(walk.user)' = P
  BY <1>1, <1>3, <1>4, BrowserFrame DEF P
<1>6. WalkInv'
  <2>1. \A r : Newer(r)' = Newer(r)
    BY <1>1, <1>5 DEF Newer, P
  <2>2. Untied(Pullable(walk.user), lastUpdate)' = Untied(P, lastUpdate)
    BY <1>1, <1>5 DEF Untied
  <2>3. /\ walk.still \subseteq Untied(P, lastUpdate)
        /\ walk.seen \subseteq P
        /\ \A r \in walk.still \ walk.seen : walk.page * walk.size <= Cardinality(Newer(r))
    BY <1>1 DEF ListIInv, WalkInv, Reading, P
  <2> QED
    BY <1>4, <1>5, <2>1, <2>2, <2>3 DEF WalkInv, Reading
<1>7. NothingPassesUnseen'
  BY <1>4 DEF NothingPassesUnseen
<1> QED
  BY <1>5, <1>6, <1>7 DEF ListIInv

\* The next page: what it does not show comes later still.
LEMMA FindStep ==
  ASSUME ListIInv, Find
  PROVE  ListIInv'
<1> DEFINE P == Pullable(walk.user)
           more == (walk.page + 1) * walk.size < walk.count
<1>1. PICK list \in Sorted(P) :
        walk' = [walk EXCEPT !.seen = @ \cup PageOf(list, walk.page, walk.size),
                             !.pc = IF more THEN "count" ELSE "done",
                             !.page = IF more THEN @ + 1 ELSE @]
  BY DEF Find
<1>2. /\ walk.pc = "find"
      /\ UNCHANGED <<remote, activity, now, users, lastUpdate, syncs, calm, stored>>
  BY DEF Find, syncVars
<1>3. /\ walk \in Walk /\ walk.user \in User \cup {NoUser} /\ walk.size \in Nat \ {0} /\ walk.page \in Nat
      /\ walk.count \in Nat /\ walk.seen \in SUBSET Repo /\ walk.still \in SUBSET Repo
  BY <1>2, WalkType DEF ListIInv
<1>4. P \subseteq Repo /\ IsFiniteSet(P) /\ Cardinality(P) \in Nat
  BY PullableIsFinite DEF ListIInv
<1> DEFINE seen == walk.seen \cup PageOf(list, walk.page, walk.size)
           pcs == IF more THEN "count" ELSE "done"
           page == IF more THEN walk.page + 1 ELSE walk.page
<1>5. walk' = [walk EXCEPT !.seen = seen, !.pc = pcs, !.page = page]
  BY <1>1
<1>6. list \in [1..Cardinality(P) -> P] /\ PageOf(list, walk.page, walk.size) \subseteq P
  BY DEF Sorted, PageOf
<1>7. seen \in SUBSET Repo /\ pcs \in {"count", "done"} /\ page \in Nat
  BY <1>3, <1>4, <1>6
<1> HIDE DEF P, seen, pcs, page, more
<1>8. walk' \in Walk
  BY <1>3, <1>5, <1>7 DEF Walk
<1>9. /\ walk'.seen = seen /\ walk'.pc = pcs /\ walk'.page = page
      /\ walk'.user = walk.user /\ walk'.size = walk.size /\ walk'.count = walk.count
      /\ walk'.still = walk.still
  BY <1>3, <1>5 DEF Walk
<1>10. SyncIInv' /\ ListTypeOK' /\ Pullable(walk.user)' = P
  BY <1>2, <1>8, <1>9, BrowserFrame DEF P
<1>11. /\ walk.still \subseteq Untied(P, lastUpdate)
       /\ walk.seen \subseteq P /\ walk.count = Cardinality(P)
       /\ \A r \in walk.still \ walk.seen : walk.page * walk.size <= Cardinality(Newer(r))
  BY <1>2 DEF ListIInv, WalkInv, Reading, P
<1>12. seen \subseteq P
  BY <1>6, <1>11 DEF seen
<1>13. ASSUME NEW r \in walk.still \ seen
       PROVE  /\ Cardinality(Newer(r)) \in Nat /\ Cardinality(Newer(r)) < Cardinality(P)
              /\ (walk.page + 1) * walk.size <= Cardinality(Newer(r))
  <2> DEFINE k == Cardinality(Newer(r))
             offset == walk.page * walk.size
  <2>1. Newer(r) = {q \in P : lastUpdate[q] > lastUpdate[r]}
    BY DEF Newer, P
  <2>2. \A q \in P : lastUpdate[q] \in Nat
    BY <1>4 DEF ListIInv, SyncIInv, SyncTypeOK
  <2>3. k \in Nat /\ k + 1 \in 1..Cardinality(P) /\ list[k + 1] = r
    <3>1. P \in SUBSET Repo /\ r \in Untied(P, lastUpdate)
      BY <1>4, <1>11, <1>13
    <3> QED
      BY <1>4, <2>1, <2>2, <3>1, SortedPlace
  <2>4. offset \in Nat /\ (walk.page + 1) * walk.size = offset + walk.size
    BY <1>3
  <2>5. offset <= k
    BY <1>11, <1>13 DEF seen
  <2>6. k + 1 \notin (offset + 1)..(offset + walk.size)
    BY <1>6, <1>13, <2>3 DEF seen, PageOf, Offset
  <2> HIDE DEF k, offset
  <2>7. offset + walk.size <= k
    BY <1>3, <2>3, <2>4, <2>5, <2>6
  <2>8. k < Cardinality(P)
    BY <1>4, <2>3
  <2> QED
    BY <2>3, <2>4, <2>7, <2>8 DEF k
<1>14. WalkInv'
  <2>1. SUFFICES ASSUME pcs = "count" PROVE WalkInv'
    BY <1>7, <1>9 DEF WalkInv, Reading
  <2>2. more /\ page = walk.page + 1
    BY <2>1 DEF pcs, page
  <2>3. \A r : Newer(r)' = Newer(r)
    BY <1>2, <1>10 DEF Newer, P
  <2>4. Untied(Pullable(walk.user), lastUpdate)' = Untied(P, lastUpdate)
    BY <1>2, <1>10 DEF Untied
  <2> QED
    BY <1>9, <1>10, <1>11, <1>12, <1>13, <2>1, <2>2, <2>3, <2>4 DEF WalkInv, Reading
<1>15. NothingPassesUnseen'
  <2>1. SUFFICES ASSUME pcs = "done"
                 PROVE  walk.still \subseteq seen /\ Cardinality(seen) <= walk.count
    BY <1>9 DEF NothingPassesUnseen
  <2>2. ~((walk.page + 1) * walk.size < walk.count)
    BY <2>1 DEF pcs, more
  <2>3. walk.count = Cardinality(P) /\ seen \in SUBSET P
    BY <1>11, <1>12, <2>1
  <2>4. \A r \in walk.still \ seen : FALSE
    <3> SUFFICES ASSUME NEW r \in walk.still \ seen PROVE FALSE
      OBVIOUS
    <3> DEFINE k == Cardinality(Newer(r))
               next == (walk.page + 1) * walk.size
    <3>1. k \in Nat /\ k < Cardinality(P) /\ next <= k
      BY <1>13, <2>1
    <3>2. ~(next < Cardinality(P)) /\ next \in Nat
      BY <1>3, <2>2, <2>3
    <3> HIDE DEF k, next
    <3> QED
      BY <1>4, <3>1, <3>2
  <2>5. Cardinality(seen) <= Cardinality(P)
    BY <1>4, <2>3, FS_Subset
  <2> QED
    BY <2>3, <2>4, <2>5
<1> QED
  BY <1>10, <1>14, <1>15 DEF ListIInv

LEMMA CloseStep ==
  ASSUME ListIInv, Close
  PROVE  ListIInv'
<1>1. /\ walk' = NoWalk
      /\ UNCHANGED <<remote, activity, now, users, lastUpdate, syncs, calm, stored>>
  BY DEF Close, syncVars
<1>2. SyncIInv' /\ ListTypeOK'
  BY <1>1, BrowserFrame
<1>3. WalkInv' /\ NothingPassesUnseen'
  BY <1>1 DEF NoWalk, WalkInv, Reading, NothingPassesUnseen
<1> QED
  BY <1>2, <1>3 DEF ListIInv

-----------------------------------------------------------------------------
(* The syncs and pipelines meanwhile.                                      *)

LEMMA MeanwhileListType ==
  ASSUME ListIInv, Meanwhile
  PROVE  ListTypeOK'
<1>1. SyncNext /\ stored' = StoredNext
  BY DEF Meanwhile, Recorded
<1>2. SyncIInv'
  BY <1>1, SyncStep DEF ListIInv
<1>3. stored' \subseteq AllowedRepo
  <2>1. \A r \in Repo : (\E u \in User : users'[r][u] # <<>>) => r \in AllowedRepo
    BY <1>2 DEF SyncIInv, Filtered
  <2> QED
    BY <1>1, <2>1 DEF StoredNext, ListIInv, ListTypeOK
<1>4. \A r \in Repo : r \notin stored' => \A u \in User : users'[r][u] = <<>>
  BY <1>1 DEF StoredNext
<1>5. walk' \in Walk \cup {NoWalk}
  <2>1. CASE Reading /\ ~Shaken
    <3> DEFINE still == {r \in walk.still \cap Untied(Pullable(walk.user), lastUpdate') :
                           lastUpdate'[r] = lastUpdate[r]}
    <3>1. walk' = [walk EXCEPT !.still = still]
      BY <2>1 DEF Meanwhile, Recorded, Reading, Follow
    <3>2. walk \in Walk /\ still \in SUBSET Repo
      BY <2>1, WalkType DEF ListIInv, Reading
    <3> HIDE DEF still
    <3> QED
      BY <3>1, <3>2 DEF Walk
  <2>2. CASE ~Reading \/ Shaken
    BY <2>2 DEF Meanwhile, Recorded, Reading, Follow
  <2> QED
    BY <2>1, <2>2
<1> QED
  BY <1>3, <1>4, <1>5 DEF ListTypeOK

\* A repository whose time stays where it was does not come before one that
\* was newer and has not sunk.
LEMMA MeanwhileWalk ==
  ASSUME ListIInv, Meanwhile, Reading, ~Shaken
  PROVE  WalkInv' /\ NothingPassesUnseen'
<1> DEFINE P == Pullable(walk.user)
           after == UserCanPullDbQuery(walk.user, users', StoredNext)
           still == {r \in walk.still \cap Untied(P, lastUpdate') : lastUpdate'[r] = lastUpdate[r]}
<1>1. walk' = [walk EXCEPT !.still = still] /\ stored' = StoredNext /\ walk \in Walk
  BY WalkType DEF Meanwhile, Recorded, Reading, Follow, ListIInv
<1>2. /\ still \subseteq walk.still /\ still \subseteq Untied(P, lastUpdate')
      /\ \A r \in still : lastUpdate'[r] = lastUpdate[r]
  OBVIOUS
<1>3. after = P /\ \A r \in P : ~(lastUpdate'[r] < lastUpdate[r])
  BY DEF Shaken
<1> HIDE DEF still
<1>4. /\ walk'.still = still /\ walk'.pc = walk.pc /\ walk'.user = walk.user
      /\ walk'.size = walk.size /\ walk'.page = walk.page
      /\ walk'.count = walk.count /\ walk'.seen = walk.seen
  BY <1>1 DEF Walk
<1>5. Pullable(walk.user)' = P
  <2>1. Pullable(walk.user)' = UserCanPullDbQuery(walk'.user, users', StoredNext)
    BY <1>1 DEF Pullable
  <2> QED
    BY <1>3, <1>4, <2>1
<1>6. SyncTypeOK /\ SyncTypeOK'
  BY SyncTypeStep DEF Meanwhile, ListIInv, SyncIInv
<1>7. ASSUME NEW r \in still \ walk.seen
      PROVE  walk.page * walk.size <= Cardinality(Newer(r)')
  <2>1. walk.page * walk.size <= Cardinality(Newer(r))
    BY <1>2, <1>7 DEF ListIInv, WalkInv
  <2>2. Newer(r)' = {q \in P : lastUpdate'[q] > lastUpdate'[r]}
    BY <1>5 DEF Newer
  <2>3. P \subseteq Repo /\ IsFiniteSet(P)
    BY PullableIsFinite DEF ListIInv
  <2>4. r \in Repo /\ \A q \in Repo : lastUpdate[q] \in Nat /\ lastUpdate'[q] \in Nat
    BY <1>1, <1>2, <1>6, <1>7 DEF SyncTypeOK, Walk
  <2>5. \A q \in P : lastUpdate[q] > lastUpdate[r] => lastUpdate'[q] > lastUpdate'[r]
    BY <1>2, <1>3, <1>7, <2>3, <2>4
  <2>6. Newer(r) \in SUBSET (Newer(r)') /\ Newer(r)' \in SUBSET P
    BY <2>2, <2>5 DEF Newer
  <2>7. IsFiniteSet(Newer(r)') /\ IsFiniteSet(Newer(r))
    BY <2>3, <2>6, FS_Subset
  <2>8. /\ Cardinality(Newer(r)) <= Cardinality(Newer(r)')
        /\ Cardinality(Newer(r)) \in Nat /\ Cardinality(Newer(r)') \in Nat
    BY <2>6, <2>7, FS_Subset, FS_CardinalityType
  <2>9. walk.page * walk.size \in Nat
    BY <1>1 DEF Walk
  <2> HIDE DEF P
  <2> QED
    BY <2>1, <2>8, <2>9
<1>8. walk.seen \subseteq P /\ (walk.pc = "find" => walk.count = Cardinality(P))
  BY DEF ListIInv, WalkInv
<1>9. WalkInv'
  <2>1. Untied(Pullable(walk.user), lastUpdate)' = Untied(P, lastUpdate')
    BY <1>5 DEF Untied
  <2>2. walk'.still \subseteq Untied(Pullable(walk.user), lastUpdate)'
    BY <1>2, <1>4, <2>1
  <2> QED
    BY <1>4, <1>5, <1>7, <1>8, <2>2 DEF WalkInv
<1>10. NothingPassesUnseen'
  BY <1>4 DEF NothingPassesUnseen, Reading
<1> QED
  BY <1>9, <1>10

LEMMA MeanwhileStep ==
  ASSUME ListIInv, Meanwhile
  PROVE  ListIInv'
<1>1. SyncIInv'
  BY SyncStep DEF Meanwhile, ListIInv
<1>2. ListTypeOK'
  BY MeanwhileListType
<1>3. CASE Reading /\ ~Shaken
  BY <1>1, <1>2, <1>3, MeanwhileWalk DEF ListIInv
<1>4. CASE ~Reading \/ Shaken
  <2>1. walk' = NoWalk
    BY <1>4 DEF Meanwhile, Recorded, Reading, Follow
  <2> QED
    BY <1>1, <1>2, <2>1 DEF ListIInv, WalkInv, Reading, NothingPassesUnseen, NoWalk
<1> QED
  BY <1>3, <1>4

LEMMA ListStep ==
  ASSUME ListIInv, [ListNext]_allVars
  PROVE  ListIInv'
<1>1. CASE UNCHANGED allVars
  <2>1. UNCHANGED <<remote, activity, now, users, lastUpdate, syncs, calm, stored>> /\ walk' = walk
    BY <1>1 DEF allVars, syncVars, listVars
  <2>2. SyncIInv' /\ ListTypeOK' /\ \A user : Pullable(user)' = Pullable(user)
    BY <2>1, BrowserFrame DEF ListIInv, ListTypeOK
  <2>3. \A r : Newer(r)' = Newer(r)
    BY <2>1, <2>2 DEF Newer
  <2>4. Untied(Pullable(walk.user), lastUpdate)' = Untied(Pullable(walk.user), lastUpdate)
    BY <2>1, <2>2 DEF Untied
  <2> QED
    BY <2>1, <2>2, <2>3, <2>4 DEF ListIInv, WalkInv, Reading, NothingPassesUnseen
<1> QED
  BY <1>1, OpenStep, CountStep, FindStep, CloseStep, MeanwhileStep DEF ListNext

\* A browser that reads the list while only pipelines disturb it misses no
\* repository that stayed where it was, and a sync that nothing disturbed is
\* exact (listReposRoute, syncRepos).
THEOREM ListInvHolds == ListSpec => []ListInv
BY InitList, ListStep, ListImplies, PTL DEF ListSpec
=============================================================================
