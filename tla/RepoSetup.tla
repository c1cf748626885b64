------------------------------ MODULE RepoSetup ------------------------------
(***************************************************************************)
(* How a repository is enabled and disabled, and how a push becomes a      *)
(* pipeline: the deploy key and the webhook on the git server, the record  *)
(* of them in the database, the deliveries of the webhooks and the         *)
(* requests that handle them.  A call of setupRepoRoute generates a key    *)
(* and a secret of its own: the call's identity stands for the key, for    *)
(* the webhook and for its secret.                                         *)
(***************************************************************************)
EXTENDS Naturals, FiniteSets

CONSTANTS
  Call,         \* identities of the calls that enable, disable or run manually
  Push,         \* pushes
  Empty,        \* those without a usable commit, such as removed branches
  Skipped,      \* those whose message has a skip marker
  None,
  Careful,      \* whether administrators wait for each other and enable what is disabled
  MaxPushes,    \* bounds the pushes that happen
  MaxFailures,  \* bounds the requests that the git server fails
  MaxCrashes    \* bounds the restarts of the server

ASSUME SetupAssumption ==
  /\ None \notin Call
  /\ Empty \subseteq Push /\ Skipped \subseteq Push
  /\ Careful \subseteq BOOLEAN
  /\ {MaxPushes, MaxFailures, MaxCrashes} \subseteq Nat

VARIABLES
  setup,        \* the call whose key and webhook the repository has recorded
  keys, hooks,  \* what is on the git server
  calls,        \* each call's state
  deliveries,   \* webhook requests on their way: a push, for a webhook
  handlers,     \* calls of createPipeline and what precedes it in postCommit
  pipelines,    \* the pipelines in the database, with the key of their clone job
  pushed,       \* pushes that have happened
  unwanted,     \* those at a time when the repository was disabled
  careful,      \* the case of Careful that this is
  interrupted,  \* the setups that a restart has left half removed
  failures, crashes

adminVars == <<setup, keys, hooks, calls, failures>>
pushVars == <<deliveries, handlers, pipelines, pushed>>
history == <<unwanted, careful, interrupted>>
vars == <<adminVars, pushVars, history, crashes>>

Idle == [op |-> "none"]
Finished == [op |-> "finished"]
Thing == {"key", "hook"}

\* What a request handles: the delivery for a webhook or a manual run.
Source == [push : Push, by : Call]

CallState ==
  {Idle, Finished}
    \cup [op : {"enable"}, todo : SUBSET Thing, failed : BOOLEAN]
    \cup [op : {"disable"}, todo : SUBSET Thing, target : Call]
    \cup [op : {"run"}]

\* What createPipeline has read of the repository comes with the record.
Handler ==
  [source : Source, pc : {"parse", "read"}] \cup
  [source : Source, pc : {"insert", "addJobs"}, key : Call]

Pipeline == [source : Source, status : {"created", "skipped"}, key : Call \cup {None}]

TypeOK ==
  /\ setup \in Call \cup {None}
  /\ keys \subseteq Call /\ hooks \subseteq Call
  /\ calls \in [Call -> CallState]
  /\ deliveries \subseteq Source
  /\ handlers \subseteq Handler
  /\ pipelines \subseteq Pipeline
  /\ pushed \subseteq Push
  /\ unwanted \subseteq pushed /\ careful \in Careful /\ interrupted \subseteq Call

Init ==
  /\ setup = None
  /\ keys = {} /\ hooks = {}
  /\ calls = [c \in Call |-> Idle]
  /\ deliveries = {} /\ handlers = {} /\ pipelines = {} /\ pushed = {}
  /\ unwanted = {} /\ careful \in Careful /\ interrupted = {}
  /\ failures = 0 /\ crashes = 0

-----------------------------------------------------------------------------
(* Administrators.                                                         *)

Running == {c \in Call : calls[c].op \in {"enable", "disable"}}

Set(c, call) == calls' = [calls EXCEPT ![c] = call]

\* setupRepoRoute, up to the requests to the git server.
SetupRepo(c) ==
  /\ calls[c] = Idle
  /\ careful => Running = {} /\ setup = None
  /\ Set(c, [op |-> "enable", todo |-> Thing, failed |-> FALSE])
  /\ UNCHANGED <<setup, keys, hooks, failures, pushVars, history, crashes>>

AddWebhook(c) == hooks' = hooks \cup {c} /\ UNCHANGED keys
AddDeployKey(c) == keys' = keys \cup {c} /\ UNCHANGED hooks
RemoveWebhook(s) == hooks' = hooks \ {s} /\ UNCHANGED keys
RemoveDeployKey(s) == keys' = keys \ {s} /\ UNCHANGED hooks

\* addDeployKey and addWebhook, in either order.
Add(c, thing) ==
  /\ calls[c].op = "enable" /\ thing \in calls[c].todo
  /\ Set(c, [calls[c] EXCEPT !.todo = @ \ {thing}])
  /\ IF thing = "key" THEN AddDeployKey(c) ELSE AddWebhook(c)
  /\ UNCHANGED <<setup, failures, pushVars, history, crashes>>

\* One of them fails: the call does too, and what the other one added stays.
AddFails(c, thing) ==
  /\ calls[c].op = "enable" /\ thing \in calls[c].todo /\ failures < MaxFailures
  /\ Set(c, [op |-> "enable", todo |-> calls[c].todo \ {thing}, failed |-> TRUE])
  /\ failures' = failures + 1
  /\ UNCHANGED <<setup, keys, hooks, pushVars, history, crashes>>

\* Broken: one success is enough.
BothAddedOrNot(call) == call.todo = {}

BothAdded(call) == call.todo = {} /\ ~call.failed

SaveSetup(c) ==
  /\ calls[c].op = "enable" /\ calls[c].todo = {}
  /\ setup' = IF BothAdded(calls[c]) THEN c ELSE setup
  /\ Set(c, Finished)
  /\ UNCHANGED <<keys, hooks, failures, pushVars, history, crashes>>

\* disableRepo: reads the setup, or refuses.
DisableRepo(c) ==
  /\ calls[c] = Idle
  /\ careful => Running = {}
  /\ setup # None
  /\ Set(c, [op |-> "disable", todo |-> Thing, target |-> setup])
  /\ UNCHANGED <<setup, keys, hooks, failures, pushVars, history, crashes>>

Remove(c, thing) ==
  /\ calls[c].op = "disable" /\ thing \in calls[c].todo
  /\ Set(c, [calls[c] EXCEPT !.todo = @ \ {thing}])
  /\ IF thing = "key" THEN RemoveDeployKey(calls[c].target) ELSE RemoveWebhook(calls[c].target)
  /\ UNCHANGED <<setup, failures, pushVars, history, crashes>>

\* A failure is logged: the administrator has to remove the thing by hand.
RemoveFails(c, thing) ==
  /\ calls[c].op = "disable" /\ thing \in calls[c].todo /\ failures < MaxFailures
  /\ Set(c, [calls[c] EXCEPT !.todo = @ \ {thing}])
  /\ failures' = failures + 1
  /\ UNCHANGED <<setup, keys, hooks, pushVars, history, crashes>>

\* The setup is unset, whichever it is by now.
UnsetSetup(c) ==
  /\ calls[c].op = "disable" /\ calls[c].todo = {}
  /\ setup' = None
  /\ Set(c, Finished)
  /\ UNCHANGED <<keys, hooks, failures, pushVars, history, crashes>>

-----------------------------------------------------------------------------
(* Pushes and pipelines.                                                   *)

\* The git server calls every webhook of the repository.
GitPush(p) ==
  /\ p \notin pushed /\ Cardinality(pushed) < MaxPushes
  /\ pushed' = pushed \cup {p}
  /\ deliveries' = deliveries \cup {[push |-> p, by |-> h] : h \in hooks}
  /\ unwanted' = IF setup = None /\ Running = {} THEN unwanted \cup {p} ELSE unwanted
  /\ UNCHANGED <<adminVars, careful, interrupted, handlers, pipelines, crashes>>

\* Broken: the secret is not compared.
VerifiedAlways(d) == setup # None

Verified(d) == setup # None /\ d.by = setup

\* postCommit: a repository without setup and a wrong secret are errors.
PostCommit(d) ==
  /\ deliveries' = deliveries \ {d}
  /\ handlers' = IF Verified(d)
                 THEN handlers \cup {[source |-> d, pc |-> "parse"]} ELSE handlers
  /\ UNCHANGED <<adminVars, pipelines, pushed, history, crashes>>

Continue(h, rest) == handlers' = (handlers \ {h}) \cup rest

Usable(p) == p \notin Empty

\* parseWebhookPayload refuses a push without the commit it is about.
ParseWebhookPayload(h) ==
  /\ h.pc = "parse"
  /\ Continue(h, IF Usable(h.source.push) THEN {[source |-> h.source, pc |-> "read"]} ELSE {})
  /\ UNCHANGED <<adminVars, deliveries, pipelines, pushed, history, crashes>>

\* runManualPipeline takes the latest commit of a branch.
RunManualPipeline(c, p) ==
  /\ calls[c] = Idle /\ p \in pushed \ Empty
  /\ Set(c, [op |-> "run"])
  /\ handlers' = handlers \cup {[source |-> [push |-> p, by |-> c], pc |-> "read"]}
  /\ UNCHANGED <<setup, keys, hooks, failures, deliveries, pipelines, pushed, history, crashes>>

IsSetUp == setup # None

\* createPipeline reads the repository again: it goes on with the setup that
\* is there now, or not at all.
CreatePipeline(h) ==
  /\ h.pc = "read"
  /\ Continue(h, IF IsSetUp THEN {[source |-> h.source, pc |-> "insert", key |-> setup]} ELSE {})
  /\ UNCHANGED <<adminVars, deliveries, pipelines, pushed, history, crashes>>

InsertPipeline(h) ==
  LET skip == h.source.push \in Skipped
  IN /\ h.pc = "insert"
     /\ pipelines' = pipelines \cup
          {[source |-> h.source, status |-> IF skip THEN "skipped" ELSE "created", key |-> None]}
     /\ Continue(h, IF skip THEN {} ELSE {[h EXCEPT !.pc = "addJobs"]})
     /\ UNCHANGED <<adminVars, deliveries, pushed, history, crashes>>

\* The clone job, with the private key that createPipeline read.
AddCloneJob(h) ==
  LET pipeline == [source |-> h.source, status |-> "created", key |-> None]
  IN /\ h.pc = "addJobs"
     /\ pipelines' = (pipelines \ {pipeline}) \cup {[pipeline EXCEPT !.key = h.key]}
     /\ Continue(h, {})
     /\ UNCHANGED <<adminVars, deliveries, pushed, history, crashes>>

\* The server stops and starts: the requests it was handling end where they
\* are.
Crash ==
  /\ crashes < MaxCrashes
  /\ crashes' = crashes + 1
  /\ calls' = [c \in Call |-> IF c \in Running THEN Finished ELSE calls[c]]
  /\ handlers' = {}
  /\ interrupted' = interrupted \cup
       {calls[c].target : c \in {d \in Running : calls[d].op = "disable"}}
  /\ UNCHANGED <<setup, keys, hooks, failures, deliveries, pipelines, pushed,
                 unwanted, careful>>

Admin(c) ==
  \/ SaveSetup(c) \/ UnsetSetup(c)
  \/ \E thing \in Thing : Add(c, thing) \/ Remove(c, thing)

Handle(h) ==
  ParseWebhookPayload(h) \/ CreatePipeline(h) \/ InsertPipeline(h) \/ AddCloneJob(h)

Next ==
  \/ \E c \in Call : SetupRepo(c) \/ DisableRepo(c) \/ Admin(c)
  \/ \E c \in Call, thing \in Thing : AddFails(c, thing) \/ RemoveFails(c, thing)
  \/ \E p \in Push : GitPush(p) \/ \E c \in Call : RunManualPipeline(c, p)
  \/ \E d \in deliveries : PostCommit(d)
  \/ \E h \in handlers : Handle(h)
  \/ Crash

Spec == Init /\ [][Next]_vars

-----------------------------------------------------------------------------
(* Properties.                                                             *)

\* While no call is removing them, the key and the webhook that the repository
\* has recorded are on the git server, however enabling, disabling, failures
\* of the git server and leftovers mix (setupRepoRoute, disableRepo).  A
\* restart in the middle of disableRepo harms no other setup than the one it
\* was removing: enabling the repository again makes it work.
SetupWorks ==
  /\ setup \notin interrupted \cup {None}
  /\ \A c \in Running : calls[c].op = "disable" => calls[c].target # setup
  => setup \in keys \cap hooks

\* The state invariant: the variables are well typed, and the setup works.
SetupInv == TypeOK /\ SetupWorks

\* The pipelines that webhooks started.
Webhooked == {p \in pipelines : calls[p.source.by].op # "run"}

\* Webhooks left behind are deaf: a push made while the repository was
\* disabled gets no pipeline, even if it is enabled before the delivery and
\* the server is restarted in between, however careless administrators are.
UnwantedIsIgnored == \A p \in Webhooked : p.source.push \notin unwanted

\* A push gets one pipeline, however many webhooks are left on the git server
\* and report it, as long as administrators are careful.
OnePipelinePerPush ==
  careful => \A p, q \in Webhooked : p.source.push = q.source.push => p = q
=============================================================================
