----------------------------- MODULE SetupProofs -----------------------------
(***************************************************************************)
(* What RepoSetup promises, for any calls, pushes, failures and restarts:  *)
(* a recorded setup works, pushes to a disabled repository are ignored,    *)
(* and a push gets one pipeline where administrators wait for each other.  *)
(***************************************************************************)
EXTENDS RepoSetup, TLAPS

Op(c) == calls[c].op

\* Everything is in the shape that TypeOK says; handlers and pipelines one by
\* one, since only some handlers have a key.
LEMMA TypeInit == Init => TypeOK
BY DEF Init, TypeOK, CallState, Idle

LEMMA CallShapes ==
  ASSUME TypeOK, NEW c \in Call
  PROVE  /\ Op(c) \in {"none", "finished", "enable", "disable", "run"}
         /\ Op(c) = "none" <=> calls[c] = Idle
         /\ Op(c) = "finished" <=> calls[c] = Finished
         /\ Op(c) = "enable" => calls[c] \in [op : {"enable"}, todo : SUBSET Thing, failed : BOOLEAN]
         /\ Op(c) = "disable" =>
              calls[c] \in [op : {"disable"}, todo : SUBSET Thing, target : Call]
BY DEF TypeOK, CallState, Op, Idle, Finished

LEMMA TypeStep == TypeOK /\ [Next]_vars => TypeOK'
<1> SUFFICES ASSUME TypeOK, [Next]_vars PROVE TypeOK'
  OBVIOUS
<1> USE DEF TypeOK, Handler, Pipeline, adminVars, pushVars, history, Set
<1>1. ASSUME NEW c \in Call, SetupRepo(c) \/ DisableRepo(c) PROVE TypeOK'
  <2>1. ASSUME NEW call \in CallState, Set(c, call) PROVE calls' \in [Call -> CallState]
    BY <2>1
  <2>2. CASE SetupRepo(c)
    BY <2>1, <2>2 DEF SetupRepo, CallState
  <2>3. CASE DisableRepo(c)
    BY <2>1, <2>3 DEF DisableRepo, CallState
  <2> QED
    BY <1>1, <2>2, <2>3
<1>2. ASSUME NEW c \in Call, NEW thing \in Thing,
             Add(c, thing) \/ AddFails(c, thing) \/ Remove(c, thing) \/ RemoveFails(c, thing)
      PROVE  TypeOK'
  <2>1. CASE Add(c, thing) \/ AddFails(c, thing)
    <3>1. /\ [calls[c] EXCEPT !.todo = @ \ {thing}] \in CallState
          /\ [op |-> "enable", todo |-> calls[c].todo \ {thing}, failed |-> TRUE] \in CallState
      BY <2>1, CallShapes DEF Add, AddFails, CallState, Op
    <3> QED
      BY <2>1, <3>1 DEF Add, AddFails, AddWebhook, AddDeployKey
  <2>2. CASE Remove(c, thing) \/ RemoveFails(c, thing)
    <3>1. [calls[c] EXCEPT !.todo = @ \ {thing}] \in CallState
      BY <2>2, CallShapes DEF Remove, RemoveFails, CallState, Op
    <3> QED
      BY <2>2, <3>1 DEF Remove, RemoveFails, RemoveWebhook, RemoveDeployKey
  <2> QED
    BY <1>2, <2>1, <2>2
<1>3. ASSUME NEW c \in Call, SaveSetup(c) \/ UnsetSetup(c) PROVE TypeOK'
  BY <1>3 DEF SaveSetup, UnsetSetup, CallState
<1>4. ASSUME NEW p \in Push, GitPush(p) PROVE TypeOK'
  BY <1>4 DEF GitPush, Source
<1>5. ASSUME NEW p \in Push, NEW c \in Call, RunManualPipeline(c, p) PROVE TypeOK'
  BY <1>5 DEF RunManualPipeline, Source, CallState
<1>6. ASSUME NEW d \in deliveries, PostCommit(d) PROVE TypeOK'
  BY <1>6 DEF PostCommit
<1>7. ASSUME NEW h \in handlers, Handle(h) PROVE TypeOK'
  <2>1. CASE ParseWebhookPayload(h)
    BY <2>1 DEF ParseWebhookPayload, Continue
  <2>2. CASE CreatePipeline(h)
    BY <2>2 DEF CreatePipeline, Continue, IsSetUp
  <2>3. CASE InsertPipeline(h)
    BY <2>3 DEF InsertPipeline, Continue
  <2>4. CASE AddCloneJob(h)
    BY <2>4 DEF AddCloneJob, Continue
  <2> QED
    BY <1>7, <2>1, <2>2, <2>3, <2>4 DEF Handle
<1>8. CASE Crash
  BY <1>8, CallShapes DEF Crash, Running, CallState, Op
<1>9. CASE UNCHANGED vars
  BY <1>9 DEF vars
<1> QED
  BY <1>1, <1>2, <1>3, <1>4, <1>5, <1>6, <1>7, <1>8, <1>9 DEF Next, Admin

\* The variables of RepoSetup keep their types through every step of
\* administrators, of the git server and of the requests it makes (setupRepoRoute,
\* disableRepo, postCommit, createPipeline).
THEOREM SetupTypeCorrect == Spec => []TypeOK
BY TypeInit, TypeStep, PTL DEF Spec

-----------------------------------------------------------------------------
(* The setup.                                                              *)

\* A call that is recorded, or being removed, has added its key and webhook
\* before, and does nothing more.  Until then nobody removes what it adds.
RecordInv ==
  /\ setup # None => Op(setup) = "finished"
  /\ \A c \in Call :
       /\ Op(c) = "disable" => calls[c].target \in Call /\ Op(calls[c].target) = "finished"
       /\ Op(c) = "enable" /\ ~calls[c].failed =>
            /\ "key" \notin calls[c].todo => c \in keys
            /\ "hook" \notin calls[c].todo => c \in hooks

SetupIInv == TypeOK /\ RecordInv /\ SetupWorks

LEMMA SetupInit == Init => SetupIInv
BY TypeInit DEF Init, SetupIInv, RecordInv, SetupWorks, Op, Idle

\* A call begins.
LEMMA BeginStep ==
  ASSUME SetupIInv, NEW c \in Call, Op(c) = "none", NEW call, Set(c, call),
         \/ call.op = "run"
         \/ call = [op |-> "enable", todo |-> Thing, failed |-> FALSE]
         \/ call = [op |-> "disable", todo |-> Thing, target |-> setup] /\ setup # None,
         UNCHANGED <<setup, keys, hooks, interrupted>>, TypeOK'
  PROVE  SetupIInv'
<1>1. calls'[c] = call /\ \A d \in Call : d # c => calls'[d] = calls[d]
  BY DEF SetupIInv, TypeOK, Set
<1>2. RecordInv'
  BY <1>1 DEF SetupIInv, TypeOK, RecordInv, Op, Thing
<1>3. SetupWorks'
  BY <1>1 DEF SetupIInv, TypeOK, RecordInv, SetupWorks, Running, Op
<1> QED
  BY <1>2, <1>3 DEF SetupIInv

LEMMA AddStep ==
  ASSUME SetupIInv, NEW c \in Call, NEW thing \in Thing, Add(c, thing) \/ AddFails(c, thing), TypeOK'
  PROVE  SetupIInv'
<1> USE DEF SetupIInv, TypeOK, Set, Op, Thing, adminVars, history, pushVars
<1>1. \A d \in Call : d # c => calls'[d] = calls[d]
  BY DEF Add, AddFails
<1>2. calls[c].op = "enable" /\ calls'[c].op = "enable" /\ calls'[c].todo = calls[c].todo \ {thing}
  BY CallShapes DEF Add, AddFails
<1>3. (calls'[c].failed = calls[c].failed /\ Add(c, thing)) \/ calls'[c].failed
  BY CallShapes DEF Add, AddFails
<1>4. setup' = setup /\ interrupted' = interrupted /\ keys \subseteq keys' /\ hooks \subseteq hooks'
  BY DEF Add, AddFails, AddWebhook, AddDeployKey
<1>5. Add(c, thing) => c \in IF thing = "key" THEN keys' ELSE hooks'
  BY DEF Add, AddWebhook, AddDeployKey
<1>6. RecordInv'
  BY <1>1, <1>2, <1>3, <1>4, <1>5 DEF RecordInv
<1>7. SetupWorks'
  BY <1>1, <1>2, <1>4 DEF SetupWorks, Running
<1> QED
  BY <1>6, <1>7

LEMMA SaveStep ==
  ASSUME SetupIInv, NEW c \in Call, SaveSetup(c), TypeOK'
  PROVE  SetupIInv'
<1> USE DEF SetupIInv, TypeOK, Set, Op, adminVars, history, pushVars
<1>1. calls'[c] = Finished /\ \A d \in Call : d # c => calls'[d] = calls[d]
  BY DEF SaveSetup
<1>2. setup' = IF BothAdded(calls[c]) THEN c ELSE setup
  BY DEF SaveSetup
<1>3. calls[c].op = "enable" /\ UNCHANGED <<keys, hooks, interrupted>> /\ calls[c].todo = {}
  BY DEF SaveSetup
<1>4. RecordInv'
  BY <1>1, <1>2, <1>3 DEF RecordInv, Finished
<1>5. SetupWorks'
  BY <1>1, <1>2, <1>3, SetupAssumption DEF SetupWorks, RecordInv, Running, BothAdded, Finished
<1> QED
  BY <1>4, <1>5

LEMMA RemoveStep ==
  ASSUME SetupIInv, NEW c \in Call, NEW thing \in Thing,
         Remove(c, thing) \/ RemoveFails(c, thing), TypeOK'
  PROVE  SetupIInv'
<1> USE DEF SetupIInv, TypeOK, Set, Op, adminVars, history, pushVars
<1>1. \A d \in Call : d # c => calls'[d] = calls[d]
  BY DEF Remove, RemoveFails
<1>2. calls[c].op = "disable" /\ calls'[c].op = "disable" /\ calls'[c].target = calls[c].target
  BY CallShapes DEF Remove, RemoveFails
<1>3. /\ setup' = setup /\ interrupted' = interrupted
      /\ keys \ {calls[c].target} \subseteq keys' /\ hooks \ {calls[c].target} \subseteq hooks'
  BY DEF Remove, RemoveFails, RemoveWebhook, RemoveDeployKey
<1>4. calls[c].target \in Call
  BY <1>2, CallShapes
<1>5. RecordInv'
  BY <1>1, <1>2, <1>3, <1>4 DEF RecordInv
<1>6. SetupWorks'
  BY <1>1, <1>2, <1>3 DEF SetupWorks, Running
<1> QED
  BY <1>5, <1>6

LEMMA UnsetStep ==
  ASSUME SetupIInv, NEW c \in Call, UnsetSetup(c), TypeOK'
  PROVE  SetupIInv'
<1> USE DEF SetupIInv, TypeOK, Set, Op, adminVars, history, pushVars
<1>1. calls'[c] = Finished /\ \A d \in Call : d # c => calls'[d] = calls[d]
  BY DEF UnsetSetup
<1>2. setup' = None /\ UNCHANGED <<keys, hooks>>
  BY DEF UnsetSetup
<1>3. RecordInv'
  BY <1>1, <1>2 DEF RecordInv, Finished
<1> QED
  BY <1>2, <1>3 DEF SetupWorks

LEMMA CrashStep ==
  ASSUME SetupIInv, Crash, TypeOK'
  PROVE  SetupIInv'
<1> USE DEF SetupIInv, TypeOK, Op
<1>1. \A c \in Call : calls'[c] = IF Op(c) \in {"enable", "disable"} THEN Finished ELSE calls[c]
  BY DEF Crash, Running
<1>2. /\ UNCHANGED <<setup, keys, hooks>>
      /\ interrupted \subseteq interrupted'
      /\ \A c \in Call : Op(c) = "disable" => calls[c].target \in interrupted'
  BY DEF Crash, Running
<1>3. RecordInv'
  BY <1>1, <1>2 DEF RecordInv, Finished
<1>4. SetupWorks'
  BY <1>1, <1>2 DEF SetupWorks, Running, Finished
<1> QED
  BY <1>3, <1>4

LEMMA SetupStep == SetupIInv /\ [Next]_vars => SetupIInv'
<1> SUFFICES ASSUME SetupIInv, [Next]_vars PROVE SetupIInv'
  OBVIOUS
<1> USE DEF adminVars, history, pushVars
<1>1. TypeOK'
  BY TypeStep DEF SetupIInv
<1>2. CASE UNCHANGED adminVars /\ interrupted' = interrupted
  BY <1>1, <1>2 DEF SetupIInv, RecordInv, SetupWorks, Op, Running
<1>3. ASSUME NEW c \in Call, SetupRepo(c) \/ DisableRepo(c) PROVE SetupIInv'
  BY <1>1, <1>3, BeginStep DEF SetupRepo, DisableRepo, Op, Idle
<1>4. ASSUME NEW c \in Call, NEW p \in Push, RunManualPipeline(c, p) PROVE SetupIInv'
  BY <1>1, <1>4, BeginStep DEF RunManualPipeline, Op, Idle
<1>5. ASSUME NEW c \in Call, Admin(c) \/ \E thing \in Thing : AddFails(c, thing) \/ RemoveFails(c, thing)
      PROVE  SetupIInv'
  BY <1>1, <1>5, AddStep, SaveStep, RemoveStep, UnsetStep DEF Admin
<1>6. ASSUME NEW p \in Push, GitPush(p) PROVE UNCHANGED adminVars /\ interrupted' = interrupted
  BY <1>6 DEF GitPush
<1>7. ASSUME NEW d \in deliveries, PostCommit(d) PROVE UNCHANGED adminVars /\ interrupted' = interrupted
  BY <1>7 DEF PostCommit
<1>8. ASSUME NEW h \in handlers, Handle(h) PROVE UNCHANGED adminVars /\ interrupted' = interrupted
  BY <1>8 DEF Handle, ParseWebhookPayload, CreatePipeline, InsertPipeline, AddCloneJob
<1>9. UNCHANGED vars => UNCHANGED adminVars /\ interrupted' = interrupted
  BY DEF vars
<1> QED
  BY <1>1, <1>2, <1>3, <1>4, <1>5, <1>6, <1>7, <1>8, <1>9, CrashStep DEF Next

LEMMA SetupIInvAlways == Spec => []SetupIInv
BY SetupInit, SetupStep, PTL DEF Spec

\* While no call removes them, the key and the webhook of the recorded setup
\* are on the git server (setupRepoRoute, disableRepo), whatever overlaps.
THEOREM SetupInvHolds == Spec => []SetupInv
<1>1. SetupIInv => SetupInv
  BY DEF SetupIInv, SetupInv
<1> QED
  BY <1>1, SetupIInvAlways, PTL

-----------------------------------------------------------------------------
(* The pushes.                                                             *)

\* The calls whose webhook is answered, now or as soon as they are recorded.
Live(c) == c = setup \/ Op(c) = "enable"

Webhook(x) == Op(x.by) # "run"

\* The deliveries and manual runs that got past postCommit.
Taken == {h.source : h \in handlers} \cup {p.source : p \in pipelines}

\* Webhooks belong to calls that have begun, what was taken to recorded ones.
HookInv ==
  /\ \A c \in hooks : Op(c) \in {"enable", "finished"}
  /\ \A d \in deliveries : Op(d.by) \in {"enable", "finished"} /\ d.push \in pushed
  /\ \A x \in Taken : Op(x.by) \in {"finished", "run"} /\ x.push \in pushed

\* A push to a disabled repository is only delivered for webhooks that nobody
\* answers any more.
UnwantedInv ==
  /\ \A d \in deliveries : d.push \in unwanted => ~Live(d.by)
  /\ \A x \in Taken : Webhook(x) => x.push \notin unwanted

OneLive == \A c, d \in Call : Live(c) /\ Live(d) => c = d

\* Administrators who wait for each other leave one webhook that is answered:
\* once a push was taken, its other deliveries are in vain.
OnceInv ==
  /\ \A x \in Taken, d \in deliveries : Webhook(x) /\ x.push = d.push => ~Live(d.by)
  /\ \A x, y \in Taken : Webhook(x) /\ Webhook(y) /\ x.push = y.push => x = y

\* What was taken is in one place, the handler or the pipeline it has made; or
\* in both, before the jobs are added.
PlaceInv ==
  /\ \A h, k \in handlers : Webhook(h.source) /\ h.source = k.source => h = k
  /\ \A p, q \in pipelines : Webhook(p.source) /\ p.source = q.source => p = q
  /\ \A h \in handlers, p \in pipelines :
       Webhook(h.source) /\ h.source = p.source =>
         h.pc = "addJobs" /\ p = [source |-> h.source, status |-> "created", key |-> None]

CarefulInv == careful => OneLive /\ OnceInv /\ PlaceInv

PushIInv == HookInv /\ UnwantedInv /\ CarefulInv

LEMMA PushInit == Init => PushIInv
BY DEF Init, PushIInv, HookInv, UnwantedInv, CarefulInv, OneLive, OnceInv, PlaceInv, Live, Op, Idle,
   Taken

\* What a step of administrators may do to pushes.
AdminEffect ==
  /\ UNCHANGED <<deliveries, pipelines, pushed, unwanted, careful>>
  /\ handlers' \subseteq handlers
  /\ \A c \in Call :
       /\ Op(c) \in {"finished", "run"} => Op(c)' = Op(c)
       /\ Op(c) = "enable" => Op(c)' \in {"enable", "finished"}
       /\ c \in hooks' \ hooks => Op(c)' = "enable"
       /\ Live(c)' /\ Op(c) # "none" => Live(c)
  /\ careful /\ OneLive => OneLive'

LEMMA AdminKeeps ==
  ASSUME TypeOK, TypeOK', PushIInv, AdminEffect
  PROVE  PushIInv'
<1> USE DEF AdminEffect
<1>1. /\ Taken' \subseteq Taken /\ handlers' \subseteq handlers
      /\ UNCHANGED <<deliveries, pipelines, pushed, unwanted, careful>>
  BY DEF Taken
<1>2. /\ \A x \in Taken : x.by \in Call
      /\ \A d \in deliveries : d.by \in Call
      /\ \A h \in handlers' : h.source \in Taken
      /\ \A p \in pipelines : p.source \in Taken
  BY DEF TypeOK, Handler, Pipeline, Source, Taken
<1>3. \A x \in Taken : Webhook(x)' <=> Webhook(x)
  BY <1>2 DEF PushIInv, HookInv, Webhook, Op
<1>4. HookInv'
  BY <1>1, <1>2 DEF PushIInv, HookInv, TypeOK
<1>5. \A d \in deliveries : Live(d.by)' => Live(d.by)
  BY <1>2 DEF PushIInv, HookInv
<1>6. UnwantedInv'
  BY <1>1, <1>3, <1>5 DEF PushIInv, UnwantedInv
<1>7. CarefulInv'
  <2> SUFFICES ASSUME careful PROVE OneLive' /\ OnceInv' /\ PlaceInv'
    BY <1>1 DEF CarefulInv
  <2>1. OneLive /\ OnceInv /\ PlaceInv
    BY DEF PushIInv, CarefulInv
  <2>2. OnceInv'
    BY <1>1, <1>3, <1>5, <2>1 DEF OnceInv
  <2>3. PlaceInv'
    BY <1>1, <1>2, <1>3, <2>1 DEF PlaceInv, Webhook
  <2> QED
    BY <2>1, <2>2, <2>3
<1> QED
  BY <1>4, <1>6, <1>7 DEF PushIInv

LEMMA EffectBegin ==
  ASSUME SetupIInv, NEW c \in Call, SetupRepo(c) \/ DisableRepo(c)
  PROVE  AdminEffect
<1> USE DEF SetupIInv, TypeOK, Set, Op, adminVars, history, pushVars
<1>1. Op(c) = "none" /\ \A d \in Call : d # c => calls'[d] = calls[d]
  BY DEF SetupRepo, DisableRepo, Idle
<1>2. Op(c)' \in {"enable", "disable"}
  BY DEF SetupRepo, DisableRepo
<1>3. Op(c)' = "enable" => (careful => setup = None /\ \A d \in Call : Op(d) # "enable")
  <2>1. CASE SetupRepo(c)
    BY <2>1 DEF SetupRepo, Running
  <2>2. CASE DisableRepo(c)
    BY <2>2 DEF DisableRepo
  <2> QED
    BY <2>1, <2>2
<1>4. UNCHANGED <<setup, keys, hooks, deliveries, handlers, pipelines, pushed, unwanted, careful>>
  BY DEF SetupRepo, DisableRepo
<1>5. careful /\ OneLive => OneLive'
  BY <1>1, <1>2, <1>3, <1>4, SetupAssumption DEF OneLive, Live, SetupAssumption
<1> QED
  BY <1>1, <1>2, <1>4, <1>5 DEF AdminEffect, Live

LEMMA EffectRequest ==
  ASSUME SetupIInv, NEW c \in Call, NEW thing \in Thing,
         Add(c, thing) \/ AddFails(c, thing) \/ Remove(c, thing) \/ RemoveFails(c, thing)
  PROVE  AdminEffect
<1> USE DEF SetupIInv, TypeOK, Set, Op, adminVars, history, pushVars
<1>1. \A d \in Call : d # c => calls'[d] = calls[d]
  BY DEF Add, AddFails, Remove, RemoveFails
<1>2. Op(c)' = Op(c)
  BY CallShapes DEF Add, AddFails, Remove, RemoveFails
<1>3. Op(c) # "enable" => hooks' \subseteq hooks
  BY DEF Add, AddFails, Remove, RemoveFails, RemoveWebhook, RemoveDeployKey
<1>4. hooks' \subseteq hooks \cup {c}
  BY DEF Add, AddFails, Remove, RemoveFails, AddWebhook, AddDeployKey, RemoveWebhook, RemoveDeployKey
<1>5. UNCHANGED <<setup, deliveries, handlers, pipelines, pushed, unwanted, careful>>
  BY DEF Add, AddFails, Remove, RemoveFails
<1>6. \A d \in Call : Op(d)' = Op(d)
  BY <1>1, <1>2
<1>7. \A d \in Call : d \in hooks' \ hooks => Op(d)' = "enable"
  <2>1. c \in Call /\ (c \in hooks' \ hooks => Op(c) = "enable" \/ Op(c) # "enable")
    OBVIOUS
  <2>2. Op(c) \in {"enable", "disable"}
    BY DEF Add, AddFails, Remove, RemoveFails
  <2> QED
    BY <1>3, <1>4, <1>6, <2>2
<1> QED
  BY <1>5, <1>6, <1>7 DEF AdminEffect, Live, OneLive

LEMMA EffectEnd ==
  ASSUME SetupIInv, NEW c \in Call, SaveSetup(c) \/ UnsetSetup(c)
  PROVE  AdminEffect
<1> USE DEF SetupIInv, TypeOK, Set, Op, adminVars, history, pushVars
<1>1. /\ calls'[c] = Finished /\ \A d \in Call : d # c => calls'[d] = calls[d]
      /\ Op(c) \in {"enable", "disable"}
  BY DEF SaveSetup, UnsetSetup
<1>2. /\ Op(c) = "enable" => setup' \in {setup, c}
      /\ Op(c) = "disable" => setup' = None
  BY DEF SaveSetup, UnsetSetup
<1>3. UNCHANGED <<hooks, deliveries, handlers, pipelines, pushed, unwanted, careful>>
  BY DEF SaveSetup, UnsetSetup
<1>4. \A d \in Call : Live(d)' => Live(d)
  BY <1>1, <1>2, SetupAssumption DEF Live, Finished, SetupAssumption
<1> QED
  BY <1>1, <1>3, <1>4 DEF AdminEffect, OneLive, Finished

LEMMA EffectCrash ==
  ASSUME SetupIInv, Crash
  PROVE  AdminEffect
<1>1. \A c \in Call : calls'[c] = IF Op(c) \in {"enable", "disable"} THEN Finished ELSE calls[c]
  BY DEF Crash, Running, Op
<1>2. UNCHANGED <<setup, hooks, deliveries, pipelines, pushed, unwanted, careful>> /\ handlers' = {}
  BY DEF Crash
<1>3. \A d \in Call : Live(d)' => Live(d)
  BY <1>1, <1>2 DEF Live, Op, Finished
<1> QED
  BY <1>1, <1>2, <1>3 DEF AdminEffect, OneLive, Op, Finished

-----------------------------------------------------------------------------
(* Pushes, deliveries and the requests that handle them.                   *)

\* A push is delivered for the first time.
LEMMA PushStep ==
  ASSUME TypeOK, PushIInv, NEW p \in Push, GitPush(p)
  PROVE  PushIInv'
<1> USE DEF adminVars
<1>1. /\ p \notin pushed /\ pushed' = pushed \cup {p}
      /\ deliveries' = deliveries \cup {[push |-> p, by |-> h] : h \in hooks}
      /\ UNCHANGED <<setup, hooks, calls, handlers, pipelines, careful>>
      /\ unwanted' \subseteq unwanted \cup {p}
  BY DEF GitPush
<1>2. Taken' = Taken /\ hooks \subseteq Call
  BY <1>1 DEF Taken, TypeOK
<1>3. p \in unwanted' => \A c \in Call : ~Live(c)
  BY <1>1, SetupAssumption DEF GitPush, TypeOK, Live, Op, Running, SetupAssumption
<1>4. HookInv'
  BY <1>1, <1>2 DEF PushIInv, HookInv, Op
<1>5. UnwantedInv'
  BY <1>1, <1>2, <1>3 DEF PushIInv, HookInv, UnwantedInv, Live, Op, Webhook
<1>6. CarefulInv'
  <2>1. OneLive => OneLive'
    BY <1>1 DEF OneLive, Live, Op
  <2>2. OnceInv => OnceInv'
    BY <1>1, <1>2 DEF OnceInv, PushIInv, HookInv, Live, Op, Webhook
  <2>3. PlaceInv => PlaceInv'
    BY <1>1 DEF PlaceInv, Webhook, Op
  <2> QED
    BY <1>1, <2>1, <2>2, <2>3 DEF PushIInv, CarefulInv
<1> QED
  BY <1>4, <1>5, <1>6 DEF PushIInv

\* The first delivery that is verified is of a webhook that is answered, and
\* the only one of its push.
LEMMA DeliveryStep ==
  ASSUME SetupIInv, PushIInv, NEW d \in deliveries, PostCommit(d)
  PROVE  PushIInv'
<1> USE DEF adminVars, history
<1> DEFINE h == [source |-> d, pc |-> "parse"]
<1>1. /\ deliveries' = deliveries \ {d}
      /\ handlers' = IF Verified(d) THEN handlers \cup {h} ELSE handlers
      /\ UNCHANGED <<setup, hooks, calls, pipelines, pushed, unwanted, careful>>
  BY DEF PostCommit
<1>2. h.source = d /\ h.pc = "parse"
  OBVIOUS
<1>3. Taken' = IF Verified(d) THEN Taken \cup {d} ELSE Taken
  BY <1>1, <1>2 DEF Taken
<1>4. /\ d \in Source /\ deliveries \subseteq Source /\ d.by \in Call
      /\ Verified(d) => d.by = setup /\ Live(d.by) /\ Op(d.by) = "finished" /\ Webhook(d)
  BY DEF Verified, SetupIInv, TypeOK, RecordInv, Live, Webhook, Source
<1>5. /\ \A x : Webhook(x)' <=> Webhook(x)
      /\ \A c : (Live(c)' <=> Live(c)) /\ Op(c)' = Op(c)
  BY <1>1 DEF Webhook, Live, Op
<1> HIDE DEF h
<1>6. HookInv'
  BY <1>1, <1>3, <1>4, <1>5 DEF PushIInv, HookInv
<1>7. UnwantedInv'
  BY <1>1, <1>3, <1>4, <1>5 DEF PushIInv, UnwantedInv
<1>8. ASSUME careful PROVE OneLive' /\ OnceInv' /\ PlaceInv'
  <2>1. OneLive /\ OnceInv /\ PlaceInv
    BY <1>8 DEF PushIInv, CarefulInv
  <2>2. OneLive'
    BY <1>5, <2>1 DEF OneLive
  <2>3. ASSUME Verified(d), NEW e \in deliveries \ {d}, e.push = d.push PROVE ~Live(e.by)
    BY <1>4, <2>1, <2>3 DEF OneLive, Source
  <2>4. ASSUME Verified(d), NEW x \in Taken, Webhook(x) PROVE x.push # d.push
    BY <1>4, <2>1, <2>4 DEF OnceInv
  <2>5. OnceInv'
    BY <1>1, <1>3, <1>4, <1>5, <2>1, <2>3, <2>4 DEF OnceInv
  <2>6. Verified(d) => \A k \in handlers : k.source # d
    BY <1>4, <2>4 DEF Taken
  <2>7. Verified(d) => \A p \in pipelines : p.source # d
    BY <1>4, <2>4 DEF Taken
  <2>8. PlaceInv'
    BY <1>1, <1>2, <1>5, <2>1, <2>6, <2>7 DEF PlaceInv
  <2> QED
    BY <2>2, <2>5, <2>8
<1> QED
  BY <1>1, <1>6, <1>7, <1>8 DEF PushIInv, CarefulInv

\* A manual run is of no webhook.
LEMMA ManualStep ==
  ASSUME SetupIInv, PushIInv, NEW c \in Call, NEW p \in Push, RunManualPipeline(c, p)
  PROVE  PushIInv'
<1> USE DEF history
<1> DEFINE x == [push |-> p, by |-> c]
<1> DEFINE h == [source |-> x, pc |-> "read"]
<1>1. /\ Op(c) = "none" /\ p \in pushed
      /\ h.source = x /\ handlers' = handlers \cup {h}
      /\ UNCHANGED <<setup, hooks, deliveries, pipelines, pushed, unwanted, careful>>
  BY DEF RunManualPipeline, Idle, Op
<1>2. Op(c)' = "run" /\ \A e \in Call : e # c => calls'[e] = calls[e]
  BY DEF RunManualPipeline, Set, SetupIInv, TypeOK, Op
<1>3. Taken' = Taken \cup {x} /\ x.by = c /\ x.push = p
  BY <1>1 DEF Taken
<1>4. /\ deliveries \subseteq Source /\ Taken \subseteq Source /\ hooks \subseteq Call
      /\ setup \in Call \cup {None}
      /\ \A k \in handlers : k.source \in Taken
      /\ \A q \in pipelines : q.source \in Taken
  BY DEF SetupIInv, TypeOK, Handler, Pipeline, Taken
<1>5. /\ \A y \in Taken \cup deliveries : y.by # c /\ y.by \in Call
      /\ c \notin hooks
  BY <1>1, <1>4 DEF PushIInv, HookInv, Source
<1>6. /\ \A y \in Taken \cup deliveries : Op(y.by)' = Op(y.by) /\ (Live(y.by)' <=> Live(y.by))
      /\ \A y \in Taken : Webhook(y)' <=> Webhook(y)
      /\ ~Webhook(x)'
  BY <1>1, <1>2, <1>3, <1>5 DEF Op, Live, Webhook
<1> HIDE DEF x, h
<1>7. HookInv'
  BY <1>1, <1>2, <1>3, <1>4, <1>5, <1>6 DEF PushIInv, HookInv, Op
<1>8. UnwantedInv'
  BY <1>1, <1>3, <1>6 DEF PushIInv, UnwantedInv
<1>9. CarefulInv'
  <2>1. OneLive => OneLive'
    BY <1>1, <1>2 DEF OneLive, Live, Op
  <2>2. OnceInv => OnceInv'
    BY <1>1, <1>3, <1>6 DEF OnceInv
  <2>3. PlaceInv => PlaceInv'
    BY <1>1, <1>4, <1>5, <1>6 DEF PlaceInv
  <2> QED
    BY <1>1, <2>1, <2>2, <2>3 DEF PushIInv, CarefulInv
<1> QED
  BY <1>7, <1>8, <1>9 DEF PushIInv

\* The requests go on, or end, one by one.
LEMMA HandleStep ==
  ASSUME SetupIInv, PushIInv, NEW h \in handlers, Handle(h)
  PROVE  PushIInv'
<1> USE DEF adminVars, history, Continue
<1>1. UNCHANGED <<setup, hooks, calls, deliveries, pushed, unwanted, careful>>
  BY DEF Handle, ParseWebhookPayload, CreatePipeline, InsertPipeline, AddCloneJob
<1>2. /\ \A x : Webhook(x)' <=> Webhook(x)
      /\ \A c : (Live(c)' <=> Live(c)) /\ Op(c)' = Op(c)
  BY <1>1 DEF Webhook, Live, Op
<1>3. h \in Handler /\ h.source \in Taken /\ \A k \in handlers : k \in Handler
  BY DEF SetupIInv, TypeOK, Taken
<1>4. /\ \A k \in handlers' : k \in handlers \/ k.source = h.source
      /\ \A p \in pipelines' : p \in pipelines \/ p.source = h.source
  BY <1>3 DEF Handle, ParseWebhookPayload, CreatePipeline, InsertPipeline, AddCloneJob, Handler
<1>5. Taken' \subseteq Taken
  BY <1>3, <1>4 DEF Taken
<1>6. HookInv' /\ UnwantedInv'
  BY <1>1, <1>2, <1>5 DEF PushIInv, HookInv, UnwantedInv
<1>7. ASSUME careful PROVE OneLive' /\ OnceInv' /\ PlaceInv'
  <2>1. OneLive /\ OnceInv /\ PlaceInv
    BY <1>7 DEF PushIInv, CarefulInv
  <2>2. OneLive' /\ OnceInv'
    BY <1>1, <1>2, <1>5, <2>1 DEF OneLive, OnceInv
  <2> DEFINE ofHook == Webhook(h.source)
  <2>3. ofHook => \A k \in handlers \ {h} : k.source # h.source
    BY <2>1 DEF PlaceInv
  <2>4. ofHook => \A p \in pipelines : p.source = h.source =>
          h.pc = "addJobs" /\ p = [source |-> h.source, status |-> "created", key |-> None]
    BY <2>1 DEF PlaceInv
  <2>5. CASE ParseWebhookPayload(h) \/ CreatePipeline(h)
    <3>1. PICK k : k.source = h.source /\ handlers' \subseteq (handlers \ {h}) \cup {k}
      BY <2>5 DEF ParseWebhookPayload, CreatePipeline
    <3>2. h.pc # "addJobs" /\ pipelines' = pipelines
      BY <2>5 DEF ParseWebhookPayload, CreatePipeline
    <3> QED
      BY <1>2, <2>1, <2>2, <2>3, <2>4, <3>1, <3>2 DEF PlaceInv
  <2>6. CASE InsertPipeline(h)
    <3>1. PICK p : /\ p.source = h.source /\ pipelines' = pipelines \cup {p}
                   /\ h.source.push \notin Skipped =>
                        p = [source |-> h.source, status |-> "created", key |-> None]
      BY <2>6 DEF InsertPipeline
    <3>2. PICK k : /\ k.source = h.source /\ k.pc = "addJobs"
                   /\ handlers' = (handlers \ {h}) \cup IF h.source.push \in Skipped THEN {} ELSE {k}
      BY <1>3, <2>6 DEF InsertPipeline, Handler
    <3>3. h.pc # "addJobs"
      BY <2>6 DEF InsertPipeline
    <3> QED
      BY <1>2, <2>1, <2>2, <2>3, <2>4, <3>1, <3>2, <3>3 DEF PlaceInv
  <2>7. CASE AddCloneJob(h)
    <3> DEFINE before == [source |-> h.source, status |-> "created", key |-> None]
    <3>1. PICK p : p.source = h.source /\ pipelines' = (pipelines \ {before}) \cup {p}
      BY <2>7 DEF AddCloneJob
    <3>2. handlers' = handlers \ {h}
      BY <2>7 DEF AddCloneJob
    <3> QED
      BY <1>2, <2>1, <2>2, <2>3, <2>4, <3>1, <3>2 DEF PlaceInv
  <2> QED
    BY <2>2, <2>5, <2>6, <2>7 DEF Handle
<1> QED
  BY <1>1, <1>6, <1>7 DEF PushIInv, CarefulInv

LEMMA PushesStep == SetupIInv /\ SetupIInv' /\ PushIInv /\ [Next]_vars => PushIInv'
<1> SUFFICES ASSUME SetupIInv, SetupIInv', PushIInv, [Next]_vars PROVE PushIInv'
  OBVIOUS
<1>1. CASE Crash \/ \E c \in Call : \/ SetupRepo(c) \/ DisableRepo(c) \/ Admin(c)
                                    \/ \E thing \in Thing : AddFails(c, thing) \/ RemoveFails(c, thing)
  BY <1>1, EffectBegin, EffectRequest, EffectEnd, EffectCrash, AdminKeeps DEF Admin, SetupIInv
<1>2. CASE UNCHANGED vars
  BY <1>2 DEF vars, adminVars, pushVars, history, PushIInv, HookInv, UnwantedInv, CarefulInv, OneLive,
     OnceInv, PlaceInv, Live, Op, Webhook, Taken
<1> QED
  BY <1>1, <1>2, PushStep, DeliveryStep, ManualStep, HandleStep DEF Next, SetupIInv

LEMMA PushIInvAlways == Spec => []PushIInv
BY PushInit, PushesStep, SetupIInvAlways, PTL DEF Spec

\* A push to a disabled repository gets no pipeline, whatever webhooks are
\* left behind and whoever enables the repository meanwhile (postCommit).
THEOREM UnwantedIsIgnoredHolds == Spec => []UnwantedIsIgnored
<1>1. PushIInv => UnwantedIsIgnored
  BY DEF PushIInv, UnwantedInv, UnwantedIsIgnored, Webhooked, Webhook, Op, Taken
<1> QED
  BY <1>1, PushIInvAlways, PTL

\* Where administrators wait for each other a push gets one pipeline, however
\* many webhooks report it (postCommit, createPipeline).
THEOREM OnePipelinePerPushHolds == Spec => []OnePipelinePerPush
<1>1. PushIInv => OnePipelinePerPush
  <2> SUFFICES ASSUME PushIInv, careful, NEW p \in Webhooked, NEW q \in Webhooked,
                      p.source.push = q.source.push
               PROVE  p = q
    BY DEF OnePipelinePerPush
  <2>1. /\ p \in pipelines /\ Webhook(p.source) /\ p.source \in Taken
        /\ q \in pipelines /\ Webhook(q.source) /\ q.source \in Taken
    BY DEF Webhooked, Webhook, Op, Taken
  <2>2. p.source = q.source
    BY <2>1 DEF PushIInv, CarefulInv, OnceInv
  <2> QED
    BY <2>1, <2>2 DEF PushIInv, CarefulInv, PlaceInv
<1> QED
  BY <1>1, PushIInvAlways, PTL
=============================================================================
