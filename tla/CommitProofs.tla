---------------------------- MODULE CommitProofs ----------------------------
(***************************************************************************)
(* A pipeline is for a commit that was the head of its branch while its    *)
(* request was served, for any branches and any number of commits, changes *)
(* and requests.                                                           *)
(***************************************************************************)
EXTENDS CommitSource, TLAPS

-----------------------------------------------------------------------------
(* Sequences and records.                                                  *)

LEMMA Appended ==
  ASSUME NEW S, NEW s \in Seq(S), NEW x \in S
  PROVE  /\ Append(s, x) \in Seq(S) \ {<<>>} /\ Len(Append(s, x)) = Len(s) + 1
         /\ Append(s, x)[Len(s) + 1] = x
         /\ \A i \in 1..Len(s) : Append(s, x)[i] = s[i]
OBVIOUS

LEMMA Replaced ==
  ASSUME NEW S, NEW s \in Seq(S), NEW x \in S, NEW i \in 1..Len(s)
  PROVE  /\ [s EXCEPT ![i] = x] \in Seq(S) /\ Len([s EXCEPT ![i] = x]) = Len(s)
         /\ [s EXCEPT ![i] = x][i] = x
         /\ \A k \in 1..Len(s) : k # i => [s EXCEPT ![i] = x][k] = s[k]
OBVIOUS

\* What a request keeps while it is served.
Kept(p, q) ==
  /\ p \in Request
  /\ p.from = q.from /\ p.branch = q.branch /\ p.commits = q.commits /\ p.since = q.since

LEMMA Asked ==
  ASSUME NEW q \in Request, NEW answers \in SUBSET {"branch", "repo", "commit"}
  PROVE  /\ Kept(Ask(q, answers), q)
         /\ Ask(q, answers).after = q.after /\ Ask(q, answers).protected = q.protected
         /\ Ask(q, answers).stage = "waiting" /\ Ask(q, answers).waiting = answers
BY DEF Request, Ask, Kept

LEMMA RefusedOnce ==
  ASSUME NEW q \in Request
  PROVE  /\ Kept(Refuse(q), q)
         /\ Refuse(q).after = q.after /\ Refuse(q).protected = q.protected
         /\ Refuse(q).stage = "refused" /\ Refuse(q).waiting = {}
BY DEF Request, Refuse, Kept

LEMMA HungOnce ==
  ASSUME NEW q \in Request
  PROVE  /\ Kept(Hung(q), q)
         /\ Hung(q).after = q.after /\ Hung(q).protected = q.protected
         /\ Hung(q).stage = "hung" /\ Hung(q).waiting = {}
BY DEF Request, Hung, Kept

LEMMA Waits ==
  ASSUME NEW q \in Request, NEW what \in {"branch", "repo", "commit"}
  PROVE  /\ StillWaiting(q, what) \in SUBSET {"branch", "repo", "commit"}
         /\ "branch" \in q.waiting /\ what # "branch" => "branch" \in StillWaiting(q, what)
BY DEF Request, StillWaiting

LEMMA Gotten ==
  ASSUME NEW q \in Request, NEW what \in {"branch", "repo", "commit"}
  PROVE  /\ Kept(Got(q, what), q)
         /\ Got(q, what).after = q.after /\ Got(q, what).protected = q.protected
         /\ Got(q, what).stage = q.stage /\ Got(q, what).waiting = StillWaiting(q, what)
BY Waits DEF Request, Got, Kept

LEMMA GottenBranch ==
  ASSUME NEW q \in Request, NEW b \in BranchState
  PROVE  /\ Kept(GotBranch(q, b), q)
         /\ GotBranch(q, b).after = IF q.from = "manual" THEN b.head ELSE q.after
         /\ GotBranch(q, b).protected = b.protected
         /\ GotBranch(q, b).stage = q.stage
         /\ GotBranch(q, b).waiting = StillWaiting(q, "branch")
<1> DEFINE p == Got(q, "branch")
           after == IF q.from = "manual" THEN b.head ELSE p.after
<1>1. /\ p \in Request
      /\ p.from = q.from /\ p.branch = q.branch /\ p.commits = q.commits /\ p.since = q.since
      /\ p.after = q.after /\ p.stage = q.stage /\ p.waiting = StillWaiting(q, "branch")
  BY Gotten DEF Kept
<1>2. GotBranch(q, b) = [p EXCEPT !.protected = b.protected, !.after = after]
  BY DEF GotBranch
<1>3. b.protected \in BOOLEAN /\ after \in Commit \cup {NoCommit}
  BY <1>1 DEF BranchState, Request
<1>4. after = IF q.from = "manual" THEN b.head ELSE q.after
  BY <1>1
<1> HIDE DEF p, after
<1>5. /\ GotBranch(q, b) \in Request
      /\ GotBranch(q, b).from = p.from /\ GotBranch(q, b).branch = p.branch
      /\ GotBranch(q, b).commits = p.commits /\ GotBranch(q, b).since = p.since
      /\ GotBranch(q, b).stage = p.stage /\ GotBranch(q, b).waiting = p.waiting
      /\ GotBranch(q, b).after = after /\ GotBranch(q, b).protected = b.protected
  BY <1>1, <1>2, <1>3 DEF Request
<1> QED
  BY <1>1, <1>4, <1>5 DEF Kept

LEMMA Caught ==
  ASSUME NEW q \in Request
  PROVE  /\ Kept(CatchGetBranch(q), q)
         /\ CatchGetBranch(q).after = q.after /\ CatchGetBranch(q).protected = FALSE
         /\ CatchGetBranch(q).stage = q.stage /\ CatchGetBranch(q).waiting = {}
BY DEF Request, CatchGetBranch, Kept

LEMMA EndedOnce ==
  ASSUME NEW q \in Request
  PROVE  /\ Kept(Ended(q), q)
         /\ Ended(q).after = q.after /\ Ended(q).protected = q.protected
         /\ Ended(q).stage = "created" /\ Ended(q).waiting = q.waiting
BY DEF Request, Ended, Kept

-----------------------------------------------------------------------------
(* Types.                                                                  *)

LEMMA Shapes ==
  ASSUME TypeOK
  PROVE  /\ \A r \in DOMAIN requests : requests[r] \in Request
         /\ \A q \in Request : q.branch \in Branch /\ q.after \in Commit \cup {NoCommit}
         /\ \A i \in DOMAIN pipelines : pipelines[i] \in Pipeline
         /\ DOMAIN requests = 1..Len(requests) /\ Len(requests) \in Nat
         /\ DOMAIN pipelines = 1..Len(pipelines) /\ Len(pipelines) \in Nat
<1>1. requests \in Seq(Request) /\ pipelines \in Seq(Pipeline)
  BY DEF TypeOK
<1>2. \A q \in Request : q.branch \in Branch /\ q.after \in Commit \cup {NoCommit}
  BY DEF Request
<1> QED
  BY <1>1, <1>2

LEMMA HistoryShape ==
  ASSUME TypeOK, NEW b \in Branch
  PROVE  /\ Len(history[b]) \in Nat \ {0}
         /\ \A k \in 1..Len(history[b]) : history[b][k] \in BranchState
         /\ Now(b) \in BranchState /\ Now(b) = history[b][Len(history[b])]
<1>1. history[b] \in Seq(BranchState) /\ history[b] # <<>>
  BY DEF TypeOK
<1> QED
  BY <1>1 DEF Now, Last

\* No branch loses a state it has had.
HistoryGrows ==
  \A b \in Branch :
    /\ Len(history[b]) <= Len(history'[b]) /\ Len(history'[b]) \in Nat
    /\ \A k \in 1..Len(history[b]) : history'[b][k] = history[b][k]

LEMMA HistoryChanged ==
  ASSUME TypeOK, NEW b \in Branch, NEW state \in BranchState, Change(b, state)
  PROVE  /\ history' \in [Branch -> Seq(BranchState) \ {<<>>}] /\ HistoryGrows
         /\ Len(history'[b]) = Len(history[b]) + 1 /\ history'[b][Len(history'[b])] = state
<1>1. history[b] \in Seq(BranchState) /\ Len(history[b]) \in Nat
  BY DEF TypeOK
<1>2. /\ Append(history[b], state) \in Seq(BranchState) \ {<<>>}
      /\ Len(Append(history[b], state)) = Len(history[b]) + 1
      /\ Append(history[b], state)[Len(history[b]) + 1] = state
      /\ \A i \in 1..Len(history[b]) : Append(history[b], state)[i] = history[b][i]
  BY <1>1, Appended
<1>3. \A a \in Branch : Len(history[a]) \in Nat
  BY HistoryShape
<1> HIDE DEF BranchState
<1>4. /\ history'[b] = Append(history[b], state)
      /\ \A a \in Branch \ {b} : history'[a] = history[a]
  BY DEF Change, TypeOK
<1>5. history' = [a \in Branch |-> IF a = b THEN Append(history[b], state) ELSE history[a]]
  BY DEF Change, TypeOK
<1>6. \A a \in Branch : history[a] \in Seq(BranchState) \ {<<>>}
  BY DEF TypeOK
<1>7. history' \in [Branch -> Seq(BranchState) \ {<<>>}]
  BY <1>2, <1>5, <1>6
<1> QED
  BY <1>1, <1>2, <1>3, <1>4, <1>7 DEF HistoryGrows

-----------------------------------------------------------------------------
(* The invariant.                                                          *)

\* What a request has was true of its branch since it began; that of a webhook
\* brings its commit along, another one has it once it has read the branch.
RequestOK(q, states) ==
  /\ q.since \in 1..Len(states)
  /\ q.protected => \E k \in q.since..Len(states) : states[k].protected
  /\ q.from = "webhook" =>
       /\ states[q.since].head = q.after
       /\ q.stage \in {"waiting", "created"} => q.after \in q.commits
  /\ q.from = "manual" /\ q.stage = "waiting" /\ "branch" \notin q.waiting =>
       /\ q.after \in Commit
       /\ \E k \in q.since..Len(states) : states[k].head = q.after

\* A pipeline p of the request q.
PipelineOK(p, q, states) ==
  /\ q.stage = "created" /\ q.branch = p.branch
  /\ q.since \in 1..Len(states) /\ p.until \in q.since..Len(states)
  /\ p.sha \in Commit
  /\ \E k \in q.since..p.until : states[k].head = p.sha
  /\ p.protectedBranch => \E k \in q.since..p.until : states[k].protected
  /\ q.from = "webhook" => p.sha \in q.commits
  /\ MarksSeen => (p.status = "skipped" <=> \E m \in markers : messages[p.sha] \in Matched[m])

RequestsOK ==
  \A r \in DOMAIN requests : RequestOK(requests[r], history[requests[r].branch])

PipelinesOK ==
  \A i \in DOMAIN pipelines :
    /\ pipelines[i].request \in DOMAIN requests
    /\ PipelineOK(pipelines[i], requests[pipelines[i].request], history[pipelines[i].branch])

SourceIInv == TypeOK /\ RequestsOK /\ PipelinesOK

LEMMA SourceInit == Init => SourceIInv
<1> SUFFICES ASSUME Init PROVE SourceIInv
  OBVIOUS
<1>1. <<[head |-> NoCommit, protected |-> FALSE]>> \in Seq(BranchState) \ {<<>>}
  BY DEF BranchState
<1>2. requests \in Seq(Request) /\ pipelines \in Seq(Pipeline)
      /\ DOMAIN requests = {} /\ DOMAIN pipelines = {}
  BY DEF Init
<1>3. 0 \in 0..MaxCommits
  BY SourceAssumption DEF SourceAssumption
<1>4. TypeOK
  BY <1>1, <1>2, <1>3 DEF Init, TypeOK
<1> QED
  BY <1>2, <1>4 DEF SourceIInv, RequestsOK, PipelinesOK

LEMMA RequestStays ==
  ASSUME TypeOK, HistoryGrows, NEW q \in Request, RequestOK(q, history[q.branch])
  PROVE  RequestOK(q, history'[q.branch])
<1>1. /\ q.branch \in Branch /\ q.since \in Nat
      /\ Len(history[q.branch]) \in Nat /\ Len(history'[q.branch]) \in Nat
      /\ Len(history[q.branch]) <= Len(history'[q.branch])
      /\ \A k \in 1..Len(history[q.branch]) : history'[q.branch][k] = history[q.branch][k]
  BY HistoryShape DEF Request, HistoryGrows
<1>2. q.since \in 1..Len(history[q.branch]) /\ q.since \in 1..Len(history'[q.branch])
  BY <1>1 DEF RequestOK
<1>3. \A k \in q.since..Len(history[q.branch]) :
        k \in q.since..Len(history'[q.branch]) /\ history'[q.branch][k] = history[q.branch][k]
  BY <1>1, <1>2
<1>4. history'[q.branch][q.since] = history[q.branch][q.since]
  BY <1>1, <1>2
<1> QED
  BY <1>2, <1>3, <1>4 DEF RequestOK

LEMMA PipelineStays ==
  ASSUME TypeOK, HistoryGrows, UNCHANGED <<markers, messages>>, NEW p \in Pipeline, NEW q \in Request,
         PipelineOK(p, q, history[p.branch])
  PROVE  PipelineOK(p, q, history[p.branch])'
<1>1. /\ p.branch \in Branch /\ p.until \in Nat /\ q.since \in Nat
      /\ Len(history[p.branch]) \in Nat /\ Len(history'[p.branch]) \in Nat
      /\ Len(history[p.branch]) <= Len(history'[p.branch])
      /\ \A k \in 1..Len(history[p.branch]) : history'[p.branch][k] = history[p.branch][k]
  BY HistoryShape DEF Request, Pipeline, HistoryGrows
<1>2. /\ q.since \in 1..Len(history[p.branch]) /\ q.since \in 1..Len(history'[p.branch])
      /\ p.until \in q.since..Len(history[p.branch])
      /\ p.until \in q.since..Len(history'[p.branch])
  BY <1>1 DEF PipelineOK
<1>3. \A k \in q.since..p.until : history'[p.branch][k] = history[p.branch][k]
  BY <1>1, <1>2
<1> QED
  BY <1>2, <1>3 DEF PipelineOK

-----------------------------------------------------------------------------
(* The steps of the git server, and new requests.                          *)

\* The requests there are go on as they were, and so do their pipelines.
LEMMA PipelinesStay ==
  ASSUME SourceIInv, HistoryGrows, UNCHANGED <<markers, messages, pipelines>>,
         \A i \in DOMAIN pipelines :
           LET r == pipelines[i].request IN r \in DOMAIN requests' /\ requests'[r] = requests[r]
  PROVE  PipelinesOK'
<1> SUFFICES ASSUME NEW i \in DOMAIN pipelines
             PROVE  /\ pipelines[i].request \in DOMAIN requests'
                    /\ PipelineOK(pipelines[i], requests[pipelines[i].request],
                                  history[pipelines[i].branch])'
  BY DEF PipelinesOK
<1>1. TypeOK
  BY DEF SourceIInv
<1>2. PICK p \in Pipeline : p = pipelines[i]
  BY <1>1, Shapes
<1>3. PICK q \in Request : q = requests[p.request]
  BY <1>1, <1>2, Shapes DEF SourceIInv, PipelinesOK
<1>4. p = pipelines'[i] /\ q = requests'[p.request] /\ p.request \in DOMAIN requests'
  BY <1>2, <1>3
<1>5. PipelineOK(p, q, history[p.branch])
  BY <1>2, <1>3 DEF SourceIInv, PipelinesOK
<1>6. PipelineOK(p, q, history[p.branch])'
  BY <1>1, <1>5, PipelineStays
<1> QED
  BY <1>2, <1>4, <1>6

LEMMA OneMore ==
  ASSUME TypeOK, NEW q \in Request, requests' = Append(requests, q)
  PROVE  /\ requests' \in Seq(Request) /\ requests'[Len(requests) + 1] = q
         /\ DOMAIN requests' = DOMAIN requests \cup {Len(requests) + 1}
         /\ \A i \in DOMAIN requests : requests'[i] = requests[i]
<1>1. requests \in Seq(Request) /\ Len(requests) \in Nat /\ DOMAIN requests = 1..Len(requests)
  BY DEF TypeOK
<1>2. /\ requests' \in Seq(Request) /\ Len(requests') = Len(requests) + 1
      /\ requests'[Len(requests) + 1] = q
      /\ \A i \in 1..Len(requests) : requests'[i] = requests[i]
  BY <1>1, Appended
<1> QED
  BY <1>1, <1>2

LEMMA BranchStep ==
  ASSUME SourceIInv, HistoryGrows, history' \in [Branch -> Seq(BranchState) \ {<<>>}],
         pushed' \in 0..MaxCommits, UNCHANGED <<server, markers, messages, pipelines>>,
         \/ requests' = requests
         \/ \E q \in Request : /\ requests' = Append(requests, q) /\ q.waiting = {}
                               /\ RequestOK(q, history'[q.branch])
  PROVE  SourceIInv'
<1> TypeOK
  BY DEF SourceIInv
<1> requests \in Seq(Request) /\ Len(requests) \in Nat /\ DOMAIN requests = 1..Len(requests)
  BY DEF TypeOK
<1> DEFINE Added(r) == /\ requests'[r].waiting = {}
                       /\ RequestOK(requests'[r], history'[requests'[r].branch])
           Grown == /\ requests' \in Seq(Request) /\ DOMAIN requests \subseteq DOMAIN requests'
                    /\ \A r \in DOMAIN requests : requests'[r] = requests[r]
                    /\ \A r \in DOMAIN requests' : r \in DOMAIN requests \/ Added(r)
<1>1. Grown
  <2>1. CASE requests' = requests
    BY <2>1
  <2>2. ASSUME NEW q \in Request, requests' = Append(requests, q), q.waiting = {},
               RequestOK(q, history'[q.branch])
        PROVE  Grown
    <3>1. /\ requests' \in Seq(Request) /\ requests'[Len(requests) + 1] = q
          /\ DOMAIN requests' = DOMAIN requests \cup {Len(requests) + 1}
          /\ \A i \in DOMAIN requests : requests'[i] = requests[i]
      BY <2>2, OneMore
    <3>2. Added(Len(requests) + 1)
      BY <2>2, <3>1
    <3> HIDE DEF Added
    <3> QED
      BY <3>1, <3>2
  <2> QED
    BY <2>1, <2>2
<1>2. RequestsOK'
  <2> SUFFICES ASSUME NEW r \in DOMAIN requests'
               PROVE  RequestOK(requests'[r], history'[requests'[r].branch])
    BY DEF RequestsOK
  <2>1. CASE r \in DOMAIN requests
    <3>1. PICK q \in Request : q = requests[r] /\ q = requests'[r]
      BY <1>1, <2>1, Shapes
    <3>2. RequestOK(q, history[q.branch])
      BY <2>1, <3>1 DEF SourceIInv, RequestsOK
    <3> QED
      BY <3>1, <3>2, RequestStays
  <2> QED
    BY <1>1, <2>1
<1>3. \A i \in DOMAIN pipelines :
        LET r == pipelines[i].request IN r \in DOMAIN requests' /\ requests'[r] = requests[r]
  BY <1>1 DEF TypeOK
<1>4. PipelinesOK'
  BY <1>3, PipelinesStay
<1> HIDE DEF Added
<1>5. \A r \in DOMAIN requests' : requests'[r].stage # "waiting" => requests'[r].waiting = {}
  BY <1>1 DEF TypeOK, Added
<1>6. TypeOK'
  BY <1>1, <1>3, <1>5 DEF TypeOK
<1> QED
  BY <1>2, <1>4, <1>6 DEF SourceIInv

\* A request that begins, for the branch as it is from now on.
LEMMA NewRequestOK ==
  ASSUME NEW from \in {"webhook", "manual"}, NEW b \in Branch, NEW c \in Commit \cup {NoCommit},
         NEW commits \in SUBSET Commit, Len(history'[b]) \in Nat \ {0},
         from = "webhook" => history'[b][Len(history'[b])].head = c,
         NEW q, q = NewRequest(from, b, c, commits)
  PROVE  q \in Request /\ q.waiting = {} /\ RequestOK(q, history'[q.branch])
<1>1. q \in Request
  BY DEF NewRequest, Request
<1>2. /\ q.from = from /\ q.branch = b /\ q.after = c /\ q.commits = commits
      /\ q.since = Len(history'[b]) /\ q.stage = "new" /\ q.waiting = {} /\ q.protected = FALSE
  BY DEF NewRequest
<1>3. q.since \in 1..Len(history'[q.branch])
  BY <1>2
<1> QED
  BY <1>1, <1>2, <1>3 DEF RequestOK

LEMMA GitPushStep ==
  ASSUME SourceIInv, NEW b \in Branch, NEW c \in 0..MaxCommits, GitPush(b, c)
  PROVE  SourceIInv'
<1> DEFINE state == [Now(b) EXCEPT !.head = c]
           new == (pushed + 1)..c
<1> TypeOK
  BY DEF SourceIInv
<1>1. c \in Commit /\ pushed' = c /\ Change(b, state) /\ UNCHANGED <<server, markers, messages, pipelines>>
  BY DEF GitPush, Move
<1>2. requests' = Append(requests, NewRequest("webhook", b, c, new))
  BY DEF GitPush, Move
<1>3. state \in BranchState /\ state.head = c
  BY <1>1, HistoryShape DEF BranchState
<1>4. new \in SUBSET Commit /\ pushed' \in 0..MaxCommits
  BY <1>1, SourceAssumption DEF SourceAssumption, TypeOK, Commit
<1> HIDE DEF state, new
<1>5. /\ history' \in [Branch -> Seq(BranchState) \ {<<>>}] /\ HistoryGrows
      /\ Len(history'[b]) \in Nat \ {0} /\ history'[b][Len(history'[b])].head = c
  BY <1>1, <1>3, HistoryChanged, HistoryShape
<1>6. PICK q : q = NewRequest("webhook", b, c, new)
  OBVIOUS
<1>7. q \in Request /\ q.waiting = {} /\ RequestOK(q, history'[q.branch])
  BY <1>1, <1>4, <1>5, <1>6, NewRequestOK
<1> QED
  BY <1>1, <1>2, <1>4, <1>5, <1>6, <1>7, BranchStep

LEMMA MoveBranchStep ==
  ASSUME SourceIInv, NEW b \in Branch, NEW c \in 0..MaxCommits, MoveBranch(b, c)
  PROVE  SourceIInv'
<1> DEFINE state == [Now(b) EXCEPT !.head = c]
<1> TypeOK
  BY DEF SourceIInv
<1>1. Change(b, state) /\ UNCHANGED <<server, markers, messages, pushed, pipelines>>
  BY DEF MoveBranch, Move
<1>2. requests' = Append(requests, NewRequest("webhook", b, c, {}))
  BY DEF MoveBranch, Move
<1>3. c \in Commit \cup {NoCommit} /\ pushed' \in 0..MaxCommits
  BY <1>1, SourceAssumption DEF SourceAssumption, Commit, NoCommit, TypeOK
<1>4. state \in BranchState /\ state.head = c
  BY <1>3, HistoryShape DEF BranchState
<1> HIDE DEF state
<1>5. /\ history' \in [Branch -> Seq(BranchState) \ {<<>>}] /\ HistoryGrows
      /\ Len(history'[b]) \in Nat \ {0} /\ history'[b][Len(history'[b])].head = c
  BY <1>1, <1>4, HistoryChanged, HistoryShape
<1>6. PICK q : q = NewRequest("webhook", b, c, {})
  OBVIOUS
<1>7. q \in Request /\ q.waiting = {} /\ RequestOK(q, history'[q.branch])
  BY <1>3, <1>5, <1>6, NewRequestOK
<1> QED
  BY <1>1, <1>2, <1>3, <1>5, <1>6, <1>7, BranchStep

LEMMA ProtectStep ==
  ASSUME SourceIInv, NEW b \in Branch, Protect(b)
  PROVE  SourceIInv'
<1> DEFINE state == [Now(b) EXCEPT !.protected = ~@]
<1> TypeOK
  BY DEF SourceIInv
<1>1. Change(b, state) /\ UNCHANGED <<server, markers, messages, pushed, requests, pipelines>>
  BY DEF Protect
<1>2. state \in BranchState /\ pushed \in 0..MaxCommits
  BY HistoryShape DEF BranchState, TypeOK
<1> HIDE DEF state
<1>3. history' \in [Branch -> Seq(BranchState) \ {<<>>}] /\ HistoryGrows
  BY <1>1, <1>2, HistoryChanged
<1> QED
  BY <1>1, <1>2, <1>3, BranchStep

LEMMA HistoryKept ==
  ASSUME TypeOK, UNCHANGED history
  PROVE  HistoryGrows /\ history' \in [Branch -> Seq(BranchState) \ {<<>>}]
BY HistoryShape DEF HistoryGrows, TypeOK

LEMMA RunManualPipelineStep ==
  ASSUME SourceIInv, NEW b \in Branch, RunManualPipeline(b)
  PROVE  SourceIInv'
<1> TypeOK
  BY DEF SourceIInv
<1>1. /\ requests' = Append(requests, NewRequest("manual", b, NoCommit, {}))
      /\ UNCHANGED <<server, markers, messages, pushed, history, pipelines>>
  BY DEF RunManualPipeline
<1>2. HistoryGrows /\ history' \in [Branch -> Seq(BranchState) \ {<<>>}]
  BY <1>1, HistoryKept
<1>3. Len(history'[b]) \in Nat \ {0} /\ pushed' \in 0..MaxCommits
  BY <1>1, HistoryShape DEF TypeOK
<1>4. PICK q : q = NewRequest("manual", b, NoCommit, {})
  OBVIOUS
<1>5. q \in Request /\ q.waiting = {} /\ RequestOK(q, history'[q.branch])
  BY <1>3, <1>4, NewRequestOK
<1> QED
  BY <1>1, <1>2, <1>3, <1>4, <1>5, BranchStep

-----------------------------------------------------------------------------
(* The steps of a request.                                                 *)

LEMMA RequestStep ==
  ASSUME SourceIInv, NEW r \in DOMAIN requests, NEW q, Update(r, q), Kept(q, requests[r]),
         requests[r].stage # "created", q.stage # "waiting" => q.waiting = {},
         RequestOK(q, history[q.branch]),
         UNCHANGED <<server, markers, messages, pushed, history, pipelines>>
  PROVE  SourceIInv'
<1> TypeOK
  BY DEF SourceIInv
<1>1. requests \in Seq(Request) /\ r \in 1..Len(requests) /\ q \in Request
  BY DEF TypeOK, Kept
<1>2. /\ requests' \in Seq(Request) /\ Len(requests') = Len(requests) /\ requests'[r] = q
      /\ \A k \in 1..Len(requests) : k # r => requests'[k] = requests[k]
  BY <1>1, Replaced DEF Update
<1>3. DOMAIN requests' = DOMAIN requests /\ DOMAIN requests = 1..Len(requests)
  BY <1>1, <1>2
<1>4. RequestsOK'
  <2> SUFFICES ASSUME NEW k \in DOMAIN requests
               PROVE  RequestOK(requests'[k], history[requests'[k].branch])
    BY <1>3 DEF RequestsOK
  <2>1. CASE k = r
    BY <2>1, <1>2
  <2>2. CASE k # r
    BY <2>2, <1>2, <1>3 DEF SourceIInv, RequestsOK
  <2> QED
    BY <2>1, <2>2
<1>5. \A i \in DOMAIN pipelines :
        LET s == pipelines[i].request IN s \in DOMAIN requests' /\ requests'[s] = requests[s]
  BY <1>2, <1>3 DEF TypeOK
<1>6. PipelinesOK'
  BY <1>5, HistoryKept, PipelinesStay
<1>7. \A k \in DOMAIN requests' : requests'[k].stage # "waiting" => requests'[k].waiting = {}
  BY <1>2, <1>3 DEF TypeOK
<1>8. TypeOK'
  BY <1>2, <1>5, <1>7 DEF TypeOK
<1> QED
  BY <1>4, <1>6, <1>8 DEF SourceIInv

\* What a request that is served has, and where its branch is.
LEMMA Served ==
  ASSUME SourceIInv, NEW r \in DOMAIN requests
  PROVE  /\ TypeOK /\ requests[r] \in Request
         /\ RequestOK(requests[r], history[requests[r].branch])
         /\ requests[r].branch \in Branch /\ requests[r].from \in {"webhook", "manual"}
         /\ requests[r].after \in Commit \cup {NoCommit} /\ requests[r].since \in Nat
         /\ requests[r].waiting \in SUBSET {"branch", "repo", "commit"}
         /\ requests[r].waiting # {} => requests[r].stage = "waiting"
<1>1. TypeOK /\ requests[r] \in Request
  BY Shapes DEF SourceIInv
<1>2. \A q \in Request : /\ q.branch \in Branch /\ q.from \in {"webhook", "manual"}
                         /\ q.after \in Commit \cup {NoCommit} /\ q.since \in Nat
                         /\ q.waiting \in SUBSET {"branch", "repo", "commit"}
  BY DEF Request
<1> QED
  BY <1>1, <1>2 DEF SourceIInv, RequestsOK, TypeOK

\* A request that goes on for the same commit, no better protected.
LEMMA GoesOn ==
  ASSUME NEW q \in Request, NEW p, NEW states, Kept(p, q), RequestOK(q, states),
         p.after = q.after, p.protected => q.protected,
         q.from = "webhook" /\ p.stage \in {"waiting", "created"} => q.after \in q.commits,
         q.from = "manual" /\ p.stage = "waiting" /\ "branch" \notin p.waiting =>
           q.stage = "waiting" /\ "branch" \notin q.waiting
  PROVE  RequestOK(p, states)
BY DEF RequestOK, Kept

LEMMA ParseWebhookPayloadStep ==
  ASSUME SourceIInv, NEW r \in DOMAIN requests, ParseWebhookPayload(r)
  PROVE  SourceIInv'
<1> DEFINE q == requests[r]
<1>1. /\ q \in Request /\ RequestOK(q, history[q.branch])
      /\ q.from = "webhook" /\ q.stage = "new"
      /\ UNCHANGED <<server, markers, messages, pushed, history, pipelines>>
  BY Served DEF ParseWebhookPayload
<1>2. ASSUME NEW p, Update(r, p), Kept(p, q), p.after = q.after, p.protected = q.protected,
             p.stage \in {"waiting", "created"} => q.after \in q.commits,
             p.stage # "waiting" => p.waiting = {}
      PROVE  SourceIInv'
  <2>1. RequestOK(p, history[p.branch])
    BY <1>1, <1>2, GoesOn DEF Kept
  <2> QED
    BY <1>1, <1>2, <2>1, RequestStep
<1>3. CASE ValidPayload(q)
  <2> DEFINE p == Ask(q, {"branch"})
  <2>1. Update(r, p) /\ q.after \in q.commits
    BY <1>3 DEF ParseWebhookPayload, ValidPayload
  <2> HIDE DEF q
  <2>2. Kept(p, q) /\ p.after = q.after /\ p.protected = q.protected /\ p.stage = "waiting"
    BY <1>1, Asked
  <2> HIDE DEF p
  <2> QED
    BY <1>2, <2>1, <2>2
<1>4. CASE ~ValidPayload(q)
  <2> DEFINE p == Refuse(q)
  <2>1. Update(r, p)
    BY <1>4 DEF ParseWebhookPayload
  <2> HIDE DEF q
  <2>2. /\ Kept(p, q) /\ p.after = q.after /\ p.protected = q.protected
        /\ p.stage = "refused" /\ p.waiting = {}
    BY <1>1, RefusedOnce
  <2> HIDE DEF p
  <2> QED
    BY <1>2, <2>1, <2>2
<1> QED
  BY <1>3, <1>4

LEMMA GetLatestCommitStep ==
  ASSUME SourceIInv, NEW r \in DOMAIN requests, GetLatestCommit(r)
  PROVE  SourceIInv'
<1> DEFINE q == requests[r]
           p == Ask(q, {"branch", "repo"})
<1>1. /\ q \in Request /\ RequestOK(q, history[q.branch])
      /\ q.from = "manual" /\ q.stage = "new" /\ Update(r, p)
      /\ UNCHANGED <<server, markers, messages, pushed, history, pipelines>>
  BY Served DEF GetLatestCommit
<1> HIDE DEF q
<1>2. /\ Kept(p, q) /\ p.after = q.after /\ p.protected = q.protected
      /\ p.stage = "waiting" /\ p.waiting = {"branch", "repo"}
  BY <1>1, Asked
<1> HIDE DEF p
<1>3. RequestOK(p, history[p.branch])
  BY <1>1, <1>2, GoesOn DEF Kept
<1> QED
  BY <1>1, <1>2, <1>3, RequestStep DEF q

LEMMA GetBranchStep ==
  ASSUME SourceIInv, NEW r \in DOMAIN requests, GetBranch(r)
  PROVE  SourceIInv'
<1> DEFINE q == requests[r]
           b == Now(q.branch)
           p == GotBranch(q, b)
           states == history[q.branch]
<1>1. /\ TypeOK /\ q \in Request /\ RequestOK(q, states) /\ q.branch \in Branch
      /\ q.stage = "waiting" /\ "branch" \in q.waiting /\ b.head # NoCommit /\ Update(r, p)
      /\ UNCHANGED <<server, markers, messages, pushed, history, pipelines>>
  BY Served DEF GetBranch
<1> HIDE DEF q
<1>2. Len(states) \in Nat \ {0} /\ b \in BranchState /\ b = states[Len(states)]
  BY <1>1, HistoryShape
<1> HIDE DEF b
<1>3. /\ Kept(p, q) /\ p.after = (IF q.from = "manual" THEN b.head ELSE q.after)
      /\ p.protected = b.protected /\ p.stage = "waiting"
  BY <1>1, <1>2, GottenBranch
<1> HIDE DEF p, states
<1>4. b.head \in Commit
  BY <1>1, <1>2 DEF BranchState
<1>5. p.since = q.since /\ q.since \in 1..Len(states) /\ Len(states) \in q.since..Len(states)
  BY <1>1, <1>2, <1>3 DEF Kept, RequestOK
<1>6. RequestOK(p, states)
  BY <1>1, <1>2, <1>3, <1>4, <1>5 DEF Kept, RequestOK
<1>7. RequestOK(p, history[p.branch])
  BY <1>3, <1>6 DEF Kept, states
<1> QED
  BY <1>1, <1>3, <1>7, RequestStep DEF q

LEMMA AnsweredStep ==
  ASSUME SourceIInv, NEW r \in DOMAIN requests, NEW what \in {"repo", "commit"},
         Answered(r, what)
  PROVE  SourceIInv'
<1> DEFINE q == requests[r]
           p == Got(q, what)
<1>1. /\ q \in Request /\ RequestOK(q, history[q.branch])
      /\ q.stage = "waiting" /\ Update(r, p)
      /\ UNCHANGED <<server, markers, messages, pushed, history, pipelines>>
  BY Served DEF Answered
<1> HIDE DEF q
<1>2. /\ Kept(p, q) /\ p.after = q.after /\ p.protected = q.protected
      /\ p.stage = "waiting" /\ ("branch" \in q.waiting => "branch" \in p.waiting)
  BY <1>1, Gotten, Waits
<1> HIDE DEF p
<1>3. q.from = "webhook" => q.after \in q.commits
  BY <1>1 DEF RequestOK
<1>4. RequestOK(p, history[p.branch])
  BY <1>1, <1>2, <1>3, GoesOn DEF Kept
<1> QED
  BY <1>1, <1>2, <1>4, RequestStep DEF q

LEMMA RequestFailsStep ==
  ASSUME SourceIInv, NEW r \in DOMAIN requests, RequestFails(r)
  PROVE  SourceIInv'
<1> DEFINE q == requests[r]
           p == IF q.from = "webhook" THEN CatchGetBranch(q) ELSE Refuse(q)
<1>1. /\ q \in Request /\ RequestOK(q, history[q.branch])
      /\ q.stage = "waiting" /\ Update(r, p) /\ q.from \in {"webhook", "manual"}
      /\ UNCHANGED <<server, markers, messages, pushed, history, pipelines>>
  BY Served DEF RequestFails
<1> HIDE DEF q
<1>2. /\ Kept(p, q) /\ p.after = q.after /\ (p.protected => q.protected) /\ p.waiting = {}
      /\ q.from = "manual" => p.stage = "refused"
  BY <1>1, Caught, RefusedOnce
<1> HIDE DEF p
<1>3. q.from = "webhook" => q.after \in q.commits
  BY <1>1 DEF RequestOK
<1>4. RequestOK(p, history[p.branch])
  BY <1>1, <1>2, <1>3, GoesOn DEF Kept
<1> QED
  BY <1>1, <1>2, <1>4, RequestStep DEF q

LEMMA UnansweredStep ==
  ASSUME SourceIInv, NEW r \in DOMAIN requests, Unanswered(r)
  PROVE  SourceIInv'
<1> DEFINE q == requests[r]
           p == Hung(q)
<1>1. /\ q \in Request /\ RequestOK(q, history[q.branch])
      /\ q.stage = "waiting" /\ Update(r, p)
      /\ UNCHANGED <<server, markers, messages, pushed, history, pipelines>>
  BY Served DEF Unanswered
<1> HIDE DEF q
<1>2. /\ Kept(p, q) /\ p.after = q.after /\ p.protected = q.protected
      /\ p.stage = "hung" /\ p.waiting = {}
  BY <1>1, HungOnce
<1> HIDE DEF p
<1>3. RequestOK(p, history[p.branch])
  BY <1>1, <1>2, GoesOn DEF Kept
<1> QED
  BY <1>1, <1>2, <1>3, RequestStep DEF q

-----------------------------------------------------------------------------
(* The step that makes a pipeline.                                         *)

LEMMA NewPipelineFields ==
  ASSUME NEW r \in Nat, NEW q \in Request, Len(history[q.branch]) \in Nat,
         NEW p, p = NewPipeline(r, q)
  PROVE  /\ p \in Pipeline
         /\ p.request = r /\ p.sha = q.after /\ p.branch = q.branch
         /\ p.protectedBranch = q.protected /\ p.until = Len(history[q.branch])
         /\ p.status = IF ShouldSkipCommit(MessageOf(q)) THEN "skipped" ELSE "created"
<1>1. /\ q.after \in Commit \cup {NoCommit} /\ q.branch \in Branch /\ q.protected \in BOOLEAN
  BY DEF Request
<1>2. (IF ShouldSkipCommit(MessageOf(q)) THEN "skipped" ELSE "created") \in {"created", "skipped"}
  OBVIOUS
<1> QED
  BY <1>1, <1>2 DEF NewPipeline, Pipeline

\* The message that is read matches as the one of the commit does.
LEMMA MarkerIsSeen ==
  ASSUME TypeOK, MarksSeen, NEW q \in Request, q.after \in Commit
  PROVE  ShouldSkipCommit(MessageOf(q))
           <=> \E m \in markers : messages[q.after] \in Matched[m]
<1>1. /\ messages[q.after] \in MessagesOf[server] /\ server \in DOMAIN MessagesOf
      /\ markers \subseteq DOMAIN Matched
  BY SourceAssumption DEF TypeOK, SourceAssumption
<1>2. server = "gitlab" =>
        \A m \in markers : messages[q.after] \in Matched[m]
                            <=> Title[messages[q.after]] \in Matched[m]
  BY <1>1 DEF MarksSeen
<1> QED
  BY <1>2 DEF ShouldSkipCommit, MessageOf, PayloadMessage

LEMMA NewPipelineOK ==
  ASSUME TypeOK, NEW r \in Nat, NEW q \in Request, RequestOK(q, history[q.branch]),
         q.stage = "waiting", q.waiting = {}, NEW p, p = NewPipeline(r, q)
  PROVE  p \in Pipeline /\ p.request = r /\ PipelineOK(p, Ended(q), history[p.branch])
<1> DEFINE states == history[q.branch]
           e == Ended(q)
<1>1. Len(states) \in Nat \ {0} /\ q.branch \in Branch /\ q.since \in Nat
      /\ q.from \in {"webhook", "manual"} /\ q.after \in Commit \cup {NoCommit}
  BY HistoryShape, Shapes DEF Request
<1>2. /\ p \in Pipeline /\ p.request = r /\ p.sha = q.after /\ p.branch = q.branch
      /\ p.protectedBranch = q.protected /\ p.until = Len(states)
      /\ p.status = IF ShouldSkipCommit(MessageOf(q)) THEN "skipped" ELSE "created"
  BY <1>1, NewPipelineFields
<1>3. /\ e.stage = "created" /\ e.branch = q.branch /\ e.since = q.since
      /\ e.from = q.from /\ e.commits = q.commits
  BY EndedOnce DEF Kept
<1>4. q.after \in Commit
  <2>1. CASE q.from = "webhook"
    BY <2>1 DEF RequestOK, Request
  <2>2. CASE q.from = "manual"
    BY <2>2 DEF RequestOK
  <2> QED
    BY <1>1, <2>1, <2>2
<1>5. MarksSeen => (p.status = "skipped" <=> \E m \in markers : messages[p.sha] \in Matched[m])
  BY <1>2, <1>4, MarkerIsSeen
<1> HIDE DEF states, e
<1>6. q.since \in 1..Len(states) /\ p.until \in q.since..Len(states)
  BY <1>1, <1>2 DEF RequestOK, states
<1>7. \E k \in q.since..p.until : states[k].head = p.sha
  <2>1. CASE q.from = "webhook"
    <3>1. states[q.since].head = p.sha /\ q.since \in q.since..p.until
      BY <1>1, <1>2, <1>6, <2>1 DEF RequestOK, states
    <3> QED
      BY <3>1
  <2>2. CASE q.from = "manual"
    BY <1>2, <2>2 DEF RequestOK, states
  <2> QED
    BY <1>1, <2>1, <2>2
<1>8. p.protectedBranch => \E k \in q.since..p.until : states[k].protected
  BY <1>2 DEF RequestOK, states
<1>9. q.from = "webhook" => p.sha \in q.commits
  BY <1>2 DEF RequestOK
<1>10. PipelineOK(p, e, states)
  BY <1>2, <1>3, <1>4, <1>5, <1>6, <1>7, <1>8, <1>9 DEF PipelineOK
<1> QED
  BY <1>2, <1>10 DEF states, e

LEMMA CreatePipelineStep ==
  ASSUME SourceIInv, NEW r \in DOMAIN requests, CreatePipeline(r)
  PROVE  SourceIInv'
<1> DEFINE q == requests[r]
           e == Ended(q)
           n == Len(pipelines)
<1>1. /\ TypeOK /\ q \in Request /\ RequestOK(q, history[q.branch])
      /\ q.stage = "waiting" /\ q.waiting = {} /\ Update(r, e)
      /\ UNCHANGED <<server, markers, messages, pushed, history>>
  BY Served DEF CreatePipeline
<1>2. PICK p : p = NewPipeline(r, q)
  OBVIOUS
<1>3. pipelines' = Append(pipelines, p)
  BY <1>2 DEF CreatePipeline
<1>4. /\ requests \in Seq(Request) /\ r \in 1..Len(requests) /\ r \in Nat
      /\ DOMAIN requests = 1..Len(requests)
  BY <1>1 DEF TypeOK
<1> HIDE DEF q
<1>5. /\ Kept(e, q) /\ e.after = q.after /\ e.protected = q.protected
      /\ e.stage = "created" /\ e.waiting = {}
  BY <1>1, EndedOnce
<1>6. p \in Pipeline /\ p.request = r /\ PipelineOK(p, e, history[p.branch])
  BY <1>1, <1>2, <1>4, NewPipelineOK
<1> HIDE DEF e
<1>7. /\ requests' \in Seq(Request) /\ Len(requests') = Len(requests) /\ requests'[r] = e
      /\ \A k \in 1..Len(requests) : k # r => requests'[k] = requests[k]
  BY <1>1, <1>4, <1>5, Replaced DEF Update, Kept
<1>8. DOMAIN requests' = DOMAIN requests
  BY <1>4, <1>7
<1>9. pipelines \in Seq(Pipeline) /\ n \in Nat /\ DOMAIN pipelines = 1..n
  BY <1>1 DEF TypeOK
<1>10. /\ pipelines' \in Seq(Pipeline) /\ Len(pipelines') = n + 1 /\ pipelines'[n + 1] = p
       /\ \A i \in 1..n : pipelines'[i] = pipelines[i]
  BY <1>3, <1>6, <1>9, Appended
<1> HIDE DEF n
<1>11. DOMAIN pipelines' = DOMAIN pipelines \cup {n + 1} /\ n + 1 \notin DOMAIN pipelines
  BY <1>9, <1>10
<1>12. \A i \in DOMAIN pipelines :
         /\ pipelines'[i] = pipelines[i] /\ pipelines[i].request \in DOMAIN requests
         /\ pipelines[i].request # r
         /\ requests'[pipelines[i].request] = requests[pipelines[i].request]
  BY <1>1, <1>4, <1>7, <1>9, <1>10 DEF TypeOK, q
<1>13. RequestsOK'
  <2> SUFFICES ASSUME NEW k \in DOMAIN requests
               PROVE  RequestOK(requests'[k], history[requests'[k].branch])
    BY <1>1, <1>8 DEF RequestsOK
  <2>1. CASE k = r
    <3>1. q.from = "webhook" => q.after \in q.commits
      BY <1>1 DEF RequestOK
    <3>2. RequestOK(e, history[e.branch])
      BY <1>1, <1>5, <3>1, GoesOn DEF Kept
    <3> QED
      BY <2>1, <3>2, <1>7
  <2>2. CASE k # r
    BY <2>2, <1>4, <1>7 DEF SourceIInv, RequestsOK
  <2> QED
    BY <2>1, <2>2
<1>14. PipelinesOK'
  <2> SUFFICES ASSUME NEW i \in DOMAIN pipelines'
               PROVE  /\ pipelines'[i].request \in DOMAIN requests'
                      /\ PipelineOK(pipelines[i], requests[pipelines[i].request],
                                    history[pipelines[i].branch])'
    BY DEF PipelinesOK
  <2>1. CASE i = n + 1
    <3>1. p = pipelines'[i] /\ e = requests'[p.request] /\ p.request \in DOMAIN requests'
      BY <2>1, <1>6, <1>7, <1>8, <1>10
    <3>2. PipelineOK(p, requests'[p.request], history'[p.branch])
      BY <1>1, <1>6, <3>1
    <3>3. MarksSeen => (p.status = "skipped" <=> \E m \in markers' : messages'[p.sha] \in Matched[m])
      BY <1>1, <1>6 DEF PipelineOK
    <3> QED
      BY <1>1, <3>1, <3>2, <3>3 DEF PipelineOK
  <2>2. CASE i \in DOMAIN pipelines
    <3>1. /\ pipelines[i].request \in DOMAIN requests
          /\ PipelineOK(pipelines[i], requests[pipelines[i].request],
                        history[pipelines[i].branch])
      BY <2>2 DEF SourceIInv, PipelinesOK
    <3>2. /\ pipelines'[i] = pipelines[i] /\ markers' = markers /\ messages' = messages /\ history' = history
          /\ requests'[pipelines[i].request] = requests[pipelines[i].request]
      BY <1>1, <1>12, <2>2
    <3> QED
      BY <1>8, <3>1, <3>2 DEF PipelineOK
  <2> QED
    BY <2>1, <2>2, <1>11
<1>15. \A i, k \in DOMAIN pipelines' : pipelines'[i].request = pipelines'[k].request => i = k
  BY <1>1, <1>6, <1>10, <1>11, <1>12 DEF TypeOK
<1>16. \A i \in DOMAIN pipelines' :
         LET s == pipelines'[i].request
         IN s \in DOMAIN requests' /\ requests'[s].stage = "created"
  <2> SUFFICES ASSUME NEW i \in DOMAIN pipelines'
               PROVE  /\ pipelines'[i].request \in DOMAIN requests'
                      /\ requests'[pipelines'[i].request].stage = "created"
    OBVIOUS
  <2>1. CASE i = n + 1
    BY <2>1, <1>5, <1>6, <1>7, <1>8, <1>10
  <2>2. CASE i \in DOMAIN pipelines
    BY <2>2, <1>1, <1>8, <1>12 DEF TypeOK
  <2> QED
    BY <2>1, <2>2, <1>11
<1>17. \A k \in DOMAIN requests' : requests'[k].stage # "waiting" => requests'[k].waiting = {}
  BY <1>1, <1>4, <1>5, <1>7, <1>8 DEF TypeOK
<1>18. TypeOK'
  BY <1>1, <1>7, <1>10, <1>15, <1>16, <1>17 DEF TypeOK
<1> QED
  BY <1>13, <1>14, <1>18 DEF SourceIInv

-----------------------------------------------------------------------------
(* Every step, and the theorems.                                           *)

LEMMA SourceStep == SourceIInv /\ [Next]_vars => SourceIInv'
<1> SUFFICES ASSUME SourceIInv, [Next]_vars PROVE SourceIInv'
  OBVIOUS
<1>1. ASSUME NEW b \in Branch, NEW c \in 0..MaxCommits, GitPush(b, c) \/ MoveBranch(b, c)
      PROVE  SourceIInv'
  BY <1>1, GitPushStep, MoveBranchStep
<1>2. ASSUME NEW b \in Branch, Protect(b) \/ RunManualPipeline(b)
      PROVE  SourceIInv'
  BY <1>2, ProtectStep, RunManualPipelineStep
<1>3. ASSUME NEW r \in DOMAIN requests, Handle(r)
      PROVE  SourceIInv'
  BY <1>3, ParseWebhookPayloadStep, GetLatestCommitStep, GetBranchStep, AnsweredStep,
     RequestFailsStep, UnansweredStep, CreatePipelineStep DEF Handle
<1>4. CASE UNCHANGED vars
  <2>1. TypeOK'
    BY <1>4 DEF vars, SourceIInv, TypeOK
  <2>2. RequestsOK'
    BY <1>4 DEF vars, SourceIInv, RequestsOK, RequestOK
  <2>3. PipelinesOK'
    BY <1>4 DEF vars, SourceIInv, PipelinesOK, PipelineOK
  <2> QED
    BY <2>1, <2>2, <2>3 DEF SourceIInv
<1> QED
  BY <1>1, <1>2, <1>3, <1>4 DEF Next

LEMMA SourceInvariant == Spec => []SourceIInv
BY SourceInit, SourceStep, PTL DEF Spec

LEMMA OfARequest ==
  ASSUME SourceIInv, NEW p \in ToSet(pipelines)
  PROVE  PipelineOK(p, requests[p.request], history[p.branch])
BY DEF SourceIInv, PipelinesOK, ToSet

\* A pipeline is for a commit that was the head of its branch while its request
\* was served, brought by the push if a push asked for it.
LEMMA BuiltWasHeadIsImplied == SourceIInv => BuiltWasHead
<1> SUFFICES ASSUME SourceIInv, NEW p \in ToSet(pipelines)
             PROVE  /\ p.sha # NoCommit
                    /\ \E s \in SeenBy(p) : s.head = p.sha
                    /\ requests[p.request].from = "webhook" =>
                         p.sha \in requests[p.request].commits
  BY DEF BuiltWasHead
<1>1. PipelineOK(p, requests[p.request], history[p.branch])
  BY OfARequest
<1>2. p.sha # NoCommit
  BY <1>1 DEF PipelineOK, Commit, NoCommit
<1>3. \E s \in SeenBy(p) : s.head = p.sha
  BY <1>1 DEF PipelineOK, SeenBy
<1> QED
  BY <1>1, <1>2, <1>3 DEF PipelineOK

\* A request makes at most one pipeline, for a head of its branch while it was
\* served; the pipeline is skipped if and only if the commit's message matches a
\* marker, if no marker matches only what the client of the server leaves out.
THEOREM SourceInvHolds == ASSUME MarksSeen PROVE Spec => []SourceInv
<1>1. SourceIInv => MarkerSkips
  <2> SUFFICES ASSUME SourceIInv, NEW p \in ToSet(pipelines)
               PROVE  p.status = "skipped" <=> \E m \in markers : messages[p.sha] \in Matched[m]
    BY DEF MarkerSkips
  <2> QED
    BY OfARequest, MarksSeen DEF PipelineOK
<1>2. SourceIInv => SourceInv
  BY <1>1, BuiltWasHeadIsImplied DEF SourceInv, SourceIInv
<1> QED
  BY <1>2, SourceInvariant, PTL

\* The same but for the markers, for every server and every message: a deleted
\* or reset branch is not built, and no commit is that the push did not bring.
THEOREM BuiltWasHeadHolds == Spec => [](TypeOK /\ BuiltWasHead)
<1>1. SourceIInv => TypeOK /\ BuiltWasHead
  BY BuiltWasHeadIsImplied DEF SourceIInv
<1> QED
  BY <1>1, SourceInvariant, PTL

\* A pipeline is one of a protected branch only if the branch was protected at
\* some moment while its request was served.
THEOREM ProtectedWasProtectedHolds == Spec => []ProtectedWasProtected
<1>1. SourceIInv => ProtectedWasProtected
  <2> SUFFICES ASSUME SourceIInv, NEW p \in ToSet(pipelines), p.protectedBranch
               PROVE  \E s \in SeenBy(p) : s.protected
    BY DEF ProtectedWasProtected
  <2> QED
    BY OfARequest DEF PipelineOK, SeenBy
<1> QED
  BY <1>1, SourceInvariant, PTL
=============================================================================
