---------------------------- MODULE CommitSource ----------------------------
(***************************************************************************)
(* Where the commit of a pipeline comes from: the payload of a webhook     *)
(* (parseWebhookPayload) or the head of a branch (getLatestCommit), read   *)
(* from Gitea, Gitlab or Github while the branches go on changing.  The    *)
(* repository is set up and the secrets of its webhooks are right: see     *)
(* RepoSetup for when they are not.                                        *)
(***************************************************************************)
EXTENDS Naturals, Sequences, FiniteSets, SequencesExt

CONSTANTS
  Branch,      \* branches of the repository
  Message,     \* commit messages, as far as markers and clients tell them apart
  NoMessage,   \* the empty one
  Title,       \* message |-> its first line
  Matched,     \* skip marker |-> the messages that match it, a regular expression
  Markers,     \* values of METROLINE_COMMIT_MESSAGE_SKIP_MARKER
  MessagesOf,  \* server |-> the messages of its commits
  MaxCommits,  \* bounds the commits
  MaxChanges,  \* bounds the changes of a branch
  MaxManual    \* bounds the manual pipelines

Commit == 1..MaxCommits
NoCommit == 0

ASSUME SourceAssumption ==
  /\ NoMessage \in Message /\ Title \in [Message -> Message]
  /\ Matched \in [DOMAIN Matched -> SUBSET Message]
  /\ Markers \subseteq SUBSET DOMAIN Matched
  /\ DOMAIN MessagesOf \subseteq {"gitea", "gitlab", "github"}
  /\ \A s \in DOMAIN MessagesOf : MessagesOf[s] \subseteq Message
  /\ {MaxCommits, MaxChanges, MaxManual} \subseteq Nat

VARIABLES
  server,     \* GIT_SERVER_TYPE
  markers,    \* the skip markers of the server's environment
  messages,   \* commit |-> its message
  pushed,     \* the number of commits made
  history,    \* branch |-> the states it has had, the present one last
  requests,   \* postCommit and runManualPipeline
  pipelines   \* the collection

vars == <<server, markers, messages, pushed, history, requests, pipelines>>

BranchState == [head : Commit \cup {NoCommit}, protected : BOOLEAN]

\* The step of a request: the answers it waits for, and what it has.
Request ==
  [from : {"webhook", "manual"}, branch : Branch, after : Commit \cup {NoCommit},
   commits : SUBSET Commit, since : Nat, stage : {"new", "waiting", "created", "refused", "hung"},
   waiting : SUBSET {"branch", "repo", "commit"}, protected : BOOLEAN]

\* Who asked for a pipeline, and how long the branch was when it was made.
Pipeline ==
  [request : Nat, sha : Commit \cup {NoCommit}, branch : Branch, protectedBranch : BOOLEAN,
   until : Nat, status : {"created", "skipped"}]

TypeOK ==
  /\ server \in DOMAIN MessagesOf
  /\ markers \in Markers
  /\ messages \in [Commit -> MessagesOf[server]]
  /\ pushed \in 0..MaxCommits
  /\ history \in [Branch -> Seq(BranchState) \ {<<>>}]
  /\ requests \in Seq(Request)
  /\ \A r \in DOMAIN requests : requests[r].stage # "waiting" => requests[r].waiting = {}
  /\ pipelines \in Seq(Pipeline)
  /\ \A i \in DOMAIN pipelines :
       LET r == pipelines[i].request IN r \in DOMAIN requests /\ requests[r].stage = "created"
  /\ \A i, k \in DOMAIN pipelines : pipelines[i].request = pipelines[k].request => i = k

Init ==
  /\ server \in DOMAIN MessagesOf
  /\ markers \in Markers
  /\ messages \in [Commit -> MessagesOf[server]]
  /\ pushed = 0
  /\ history = [b \in Branch |-> <<[head |-> NoCommit, protected |-> FALSE]>>]
  /\ requests = <<>>
  /\ pipelines = <<>>

Now(b) == Last(history[b])

-----------------------------------------------------------------------------
(* The git server.                                                         *)

Change(b, state) ==
  /\ Len(history[b]) <= MaxChanges
  /\ history' = [history EXCEPT ![b] = Append(@, state)]

NewRequest(from, b, after, commits) ==
  [from |-> from, branch |-> b, after |-> after, commits |-> commits,
   since |-> Len(history'[b]), stage |-> "new", waiting |-> {}, protected |-> FALSE]

\* A branch moves and the webhook reports it.  The payload lists the commits
\* that are new to the repository: none when the branch is deleted or goes to
\* a commit the repository has.
Move(b, c, commits) ==
  /\ Change(b, [Now(b) EXCEPT !.head = c])
  /\ requests' = Append(requests, NewRequest("webhook", b, c, commits))
  /\ UNCHANGED <<server, markers, messages, pipelines>>

GitPush(b, c) ==
  /\ c \in Commit /\ c > pushed
  /\ pushed' = c
  /\ Move(b, c, (pushed + 1)..c)

MoveBranch(b, c) ==
  /\ c \in 0..pushed /\ c # Now(b).head
  /\ Move(b, c, {})
  /\ UNCHANGED pushed

Protect(b) ==
  /\ Change(b, [Now(b) EXCEPT !.protected = ~@])
  /\ UNCHANGED <<server, markers, messages, pushed, requests, pipelines>>

-----------------------------------------------------------------------------
(* The requests.                                                           *)

Update(r, q) == requests' = [requests EXCEPT ![r] = q]

Ask(q, answers) == [q EXCEPT !.stage = "waiting", !.waiting = answers]

Refuse(q) == [q EXCEPT !.stage = "refused", !.waiting = {}]

Hung(q) == [q EXCEPT !.stage = "hung", !.waiting = {}]

\* Broken: the schema asks for nothing of the commits.
ValidWithout(q) == q.after # NoCommit

\* What the payload of a webhook has of the message: Gitlab's client takes the
\* title.
PayloadMessage(c) == IF server = "gitlab" THEN Title[messages[c]] ELSE messages[c]

\* $webhookPayload: there are commits, `after` is one of them, and the message
\* of none is empty, be it `after` or another one.
ValidPayload(q) ==
  /\ q.commits # {} /\ q.after \in q.commits
  /\ \A c \in q.commits : PayloadMessage(c) # NoMessage

ParseWebhookPayload(r) ==
  /\ requests[r].from = "webhook" /\ requests[r].stage = "new"
  /\ IF ValidPayload(requests[r])
     THEN Update(r, Ask(requests[r], {"branch"}))
     ELSE Update(r, Refuse(requests[r]))
  /\ UNCHANGED <<server, markers, messages, pushed, history, pipelines>>

RunManualPipeline(b) ==
  /\ Cardinality({r \in DOMAIN requests : requests[r].from = "manual"}) < MaxManual
  /\ UNCHANGED history
  /\ requests' = Append(requests, NewRequest("manual", b, NoCommit, {}))
  /\ UNCHANGED <<server, markers, messages, pushed, pipelines>>

\* The branch and the repository are asked for at once.
GetLatestCommit(r) ==
  /\ requests[r].from = "manual" /\ requests[r].stage = "new"
  /\ Update(r, Ask(requests[r], {"branch", "repo"}))
  /\ UNCHANGED <<server, markers, messages, pushed, history, pipelines>>

\* Gitlab asks for the commit once it has both.
StillWaiting(q, what) ==
  LET left == q.waiting \ {what}
  IN IF left = {} /\ server = "gitlab" /\ q.from = "manual" /\ what # "commit"
     THEN {"commit"} ELSE left

Got(q, what) == [q EXCEPT !.waiting = StillWaiting(q, what)]

\* The head matters to a manual pipeline only; Gitea and Github answer with
\* the whole message, as Gitlab does.
GotBranch(q, b) ==
  [Got(q, "branch") EXCEPT !.protected = b.protected,
                           !.after = IF q.from = "manual" THEN b.head ELSE @]

\* $branch wants a message too.
GetBranch(r) ==
  LET b == Now(requests[r].branch)
  IN /\ "branch" \in requests[r].waiting
     /\ b.head # NoCommit /\ messages[b.head] # NoMessage
     /\ Update(r, GotBranch(requests[r], b))
     /\ UNCHANGED <<server, markers, messages, pushed, history, pipelines>>

Answered(r, what) ==
  /\ what \in requests[r].waiting \ {"branch"}
  /\ Update(r, Got(requests[r], what))
  /\ UNCHANGED <<server, markers, messages, pushed, history, pipelines>>

\* Broken: the branch of a webhook is taken for a protected one.
ProtectedOrTrue(q) == [q EXCEPT !.waiting = {}, !.protected = TRUE]

\* Broken: what a webhook's request rejects with is not caught.
Rejected(q) == Refuse(q)

\* A branch that cannot be read is taken for an unprotected one.
CatchGetBranch(q) == [q EXCEPT !.waiting = {}, !.protected = FALSE]

\* A request of ours fails, the branch is gone, or the answer is not valid.
RequestFails(r) ==
  /\ requests[r].waiting # {}
  /\ Update(r, IF requests[r].from = "webhook" THEN CatchGetBranch(requests[r])
                                              ELSE Refuse(requests[r]))
  /\ UNCHANGED <<server, markers, messages, pushed, history, pipelines>>

\* No request has a time-out: one that is never answered keeps the handler
\* waiting for ever.
Unanswered(r) ==
  /\ requests[r].waiting # {}
  /\ Update(r, Hung(requests[r]))
  /\ UNCHANGED <<server, markers, messages, pushed, history, pipelines>>

\* A manual pipeline has the whole message of the head.
MessageOf(q) ==
  IF q.from = "webhook" THEN PayloadMessage(q.after) ELSE messages[q.after]

ShouldSkipCommit(message) == \E m \in markers : message \in Matched[m]

Ended(q) == [q EXCEPT !.stage = "created"]

NewPipeline(r, q) ==
  [request |-> r, sha |-> q.after, branch |-> q.branch, protectedBranch |-> q.protected,
   until |-> Len(history[q.branch]),
   status |-> IF ShouldSkipCommit(MessageOf(q)) THEN "skipped" ELSE "created"]

CreatePipeline(r) ==
  /\ requests[r].stage = "waiting" /\ requests[r].waiting = {}
  /\ pipelines' = Append(pipelines, NewPipeline(r, requests[r]))
  /\ Update(r, Ended(requests[r]))
  /\ UNCHANGED <<server, markers, messages, pushed, history>>

Handle(r) ==
  \/ ParseWebhookPayload(r) \/ GetLatestCommit(r)
  \/ GetBranch(r) \/ \E what \in {"repo", "commit"} : Answered(r, what)
  \/ RequestFails(r) \/ Unanswered(r) \/ CreatePipeline(r)

Next ==
  \/ \E b \in Branch :
       \/ \E c \in 0..MaxCommits : GitPush(b, c) \/ MoveBranch(b, c)
       \/ Protect(b) \/ RunManualPipeline(b)
  \/ \E r \in DOMAIN requests : Handle(r)

Spec == Init /\ [][Next]_vars

MaxRequests == MaxManual + MaxChanges * Cardinality(Branch)
FairSpec == Spec /\ \A r \in 1..MaxRequests : WF_vars(r \in DOMAIN requests /\ Handle(r))

-----------------------------------------------------------------------------
(* Properties.                                                             *)

\* What the branch of a pipeline was like while its request was served.
SeenBy(p) ==
  {history[p.branch][i] : i \in requests[p.request].since..p.until}

\* A pipeline is for a commit that was the head of its branch while its
\* request was served, and one that a push brought, unless it was started by
\* hand: neither a branch that is deleted nor one that is reset is built.
BuiltWasHead ==
  \A p \in ToSet(pipelines) :
    /\ p.sha # NoCommit
    /\ \E s \in SeenBy(p) : s.head = p.sha
    /\ requests[p.request].from = "webhook" => p.sha \in requests[p.request].commits

\* A pipeline is skipped if and only if the message of its commit matches a
\* marker, read as a regular expression, whichever way the commit came: with
\* '[ci skip]' unescaped that is 'chore: test' too (should-skip-commit.spec.ts).
\* Not so for what only the part of a message matches that Gitlab's client
\* leaves out.
MarkerSkips ==
  \A p \in ToSet(pipelines) :
    p.status = "skipped" <=> \E m \in markers : messages[p.sha] \in Matched[m]

\* No message has its marker where its client does not look.
MarksSeen ==
  "gitlab" \in DOMAIN MessagesOf =>
    \A message \in MessagesOf["gitlab"], m \in DOMAIN Matched :
      message \in Matched[m] <=> Title[message] \in Matched[m]

\* The state invariant: the variables are well typed, a request makes at most
\* one pipeline, for a head it was asked for, skipped if the commit says so.
SourceInv == TypeOK /\ BuiltWasHead /\ MarkerSkips

\* A pipeline counts as one of a protected branch only if the branch was
\* protected at some moment while the request was served: requests that fail
\* and branches that are gone never make it one.
ProtectedWasProtected ==
  \A p \in ToSet(pipelines) :
    p.protectedBranch => \E s \in SeenBy(p) : s.protected

\* A push of new commits, none with an empty message.
PushedWithMessages(r) ==
  /\ r \in DOMAIN requests /\ requests[r].from = "webhook" /\ requests[r].commits # {}
  /\ \A c \in requests[r].commits : PayloadMessage(c) # NoMessage

BuiltOrHung(r) ==
  /\ r \in DOMAIN requests
  /\ requests[r].stage = "hung" \/ \E p \in ToSet(pipelines) : p.request = r

\* A push whose commits all have a message gets its pipeline even if the git
\* server refuses to tell of its branch: only a git server that neither answers
\* nor fails keeps it from being built.
PushIsBuilt ==
  \A r \in 1..MaxRequests : PushedWithMessages(r) ~> BuiltOrHung(r)
=============================================================================
