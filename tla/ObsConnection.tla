--------------------------- MODULE ObsConnection ---------------------------
(***************************************************************************)
(* The OBS connections that have gone by one name: the task each runs, the *)
(* queue of requests to it, and the routes that call it with obs_call and  *)
(* obs_call_sync (src/src/obs.rs; register_obs_fns in src/src/route.rs).   *)
(*                                                                         *)
(* A task outlives its entry in ObsManager: a route keeps the sender it    *)
(* was given when it started, and a task ends only when it is connected,   *)
(* its queue is empty and no sender is left.  The table through which      *)
(* events reach routes belongs to the module Daemon.                       *)
(***************************************************************************)
EXTENDS Naturals, Sequences

CONSTANTS
  Callers,    \* loop threads of route instances
  Settings,   \* settings the connection can have in config.toml
  Removed,    \* the section is not in config.toml
  QueueCap,   \* capacity of the request queue (64)
  MaxCalls,   \* bound: calls of all callers together
  MaxChanges  \* bound: changes of config.toml

ASSUME QueueAssumption   == QueueCap \in Nat \ {0}
ASSUME CallsAssumption   == MaxCalls \in Nat /\ MaxChanges \in Nat
ASSUME RemovedAssumption == Removed \notin Settings

VARIABLES
  cfg,      \* the settings ObsManager.connections has
  changes,
  tasks,    \* the tasks spawned, in order: [pc, queue, req]
  view,     \* caller -> the task whose sender it holds, 0: none
  stage,    \* caller -> "new", "on" or "gone"
  calls,    \* how many calls were made; they are numbered in this order
  waiting,  \* caller -> the call obs_call_sync waits for, 0: none
  inbox,    \* caller -> the answer in the reply channel of that call
  answer,   \* caller -> what its last obs_call_sync returned
  asked,    \* the requests OBS was handed, in order
  outcome   \* call -> how OBS answered

callerVars == <<view, stage, calls, waiting, inbox, answer>>
vars == <<cfg, changes, tasks, callerVars, asked, outcome>>

Calls == Callers \X (1 .. MaxCalls)
NoReq == <<>>
Tasks == DOMAIN tasks

Fresh == [pc |-> "connect", queue |-> <<>>, req |-> NoReq]

(* The sender ObsManager hands out is the one of the last task.            *)
Current == IF cfg = Removed THEN 0 ELSE Len(tasks)

Holders(t) == {i \in Callers : view[i] = t}
Orphan(t)  == t # Current /\ Holders(t) = {}

-----------------------------------------------------------------------------
Init ==
  /\ cfg \in Settings \cup {Removed} /\ changes = 0
  /\ tasks = IF cfg = Removed THEN <<>> ELSE <<Fresh>>
  /\ view = [i \in Callers |-> 0] /\ stage = [i \in Callers |-> "new"]
  /\ calls = 0 /\ waiting = [i \in Callers |-> 0]
  /\ inbox = [i \in Callers |-> "none"]
  /\ answer = [i \in Callers |-> [call |-> 0, out |-> "none"]]
  /\ asked = <<>> /\ outcome = [c \in Calls |-> "none"]

(* Mutation: the task that is replaced or removed is aborted.              *)
MutantSync(c) ==
  /\ cfg' = c /\ changes' = changes + 1
  /\ tasks' = LET ended == [t \in Tasks |-> [tasks[t] EXCEPT !.pc = "done"]]
              IN IF c = Removed THEN ended ELSE Append(ended, Fresh)
  /\ UNCHANGED <<callerVars, asked, outcome>>

(* ObsManager::sync with settings that differ from those it has.           *)
Sync(c) ==
  /\ cfg' = c /\ changes' = changes + 1
  /\ tasks' = IF c = Removed THEN tasks ELSE Append(tasks, Fresh)
  /\ UNCHANGED <<callerVars, asked, outcome>>

ChangeConfig ==
  /\ changes < MaxChanges
  /\ \E c \in (Settings \cup {Removed}) \ {cfg} : Sync(c)

-----------------------------------------------------------------------------
(* Routes.                                                                 *)

(* Route::start: sender_map().                                             *)
Start(i) ==
  /\ stage[i] = "new" /\ stage' = [stage EXCEPT ![i] = "on"]
  /\ view' = [view EXCEPT ![i] = Current]
  /\ UNCHANGED <<cfg, changes, tasks, calls, waiting, inbox, answer, asked, outcome>>

(* The loop thread ends and its senders go with its Lua VM.                *)
Stop(i) ==
  /\ stage[i] = "on" /\ waiting[i] = 0
  /\ stage' = [stage EXCEPT ![i] = "gone"] /\ view' = [view EXCEPT ![i] = 0]
  /\ UNCHANGED <<cfg, changes, tasks, calls, waiting, inbox, answer, asked, outcome>>

MayCall(i) ==
  stage[i] = "on" /\ waiting[i] = 0 /\ calls < MaxCalls

(* Mutation: the queue takes one request more than its capacity.           *)
MutantFits(t) == tasks[t].pc # "done" /\ Len(tasks[t].queue) <= QueueCap

Fits(t) == tasks[t].pc # "done" /\ Len(tasks[t].queue) < QueueCap

Enqueue(i) ==
  tasks' = [tasks EXCEPT ![view[i]].queue = Append(@, <<i, calls + 1>>)]

(* obs_call: a request that does not fit is dropped.                       *)
ObsCall(i) ==
  /\ MayCall(i) /\ view[i] # 0
  /\ calls' = calls + 1
  /\ IF Fits(view[i]) THEN Enqueue(i) ELSE tasks' = tasks
  /\ UNCHANGED <<cfg, changes, view, stage, waiting, inbox, answer, asked, outcome>>

(* obs_call_sync queues the request and waits for its answer; one that     *)
(* does not fit, or to a name unknown when the route started, returns an   *)
(* error at once.                                                          *)
ObsCallSync(i) ==
  /\ MayCall(i)
  /\ calls' = calls + 1
  /\ IF view[i] # 0 /\ Fits(view[i])
     THEN Enqueue(i) /\ waiting' = [waiting EXCEPT ![i] = calls + 1] /\ answer' = answer
     ELSE /\ answer' = [answer EXCEPT ![i] = [call |-> calls + 1, out |-> "refused"]]
          /\ UNCHANGED <<tasks, waiting>>
  /\ inbox' = [inbox EXCEPT ![i] = "none"]
  /\ UNCHANGED <<cfg, changes, view, stage, asked, outcome>>

Return(i, out) ==
  /\ waiting[i] # 0
  /\ answer' = [answer EXCEPT ![i] = [call |-> waiting[i], out |-> out]]
  /\ waiting' = [waiting EXCEPT ![i] = 0] /\ inbox' = [inbox EXCEPT ![i] = "none"]
  /\ UNCHANGED <<cfg, changes, tasks, view, stage, calls, asked, outcome>>

Answered(i) == inbox[i] # "none" /\ Return(i, inbox[i])

(* recv_timeout runs out; the request stays where it is.                   *)
TimedOut(i) == inbox[i] = "none" /\ Return(i, "timeout")

-----------------------------------------------------------------------------
(* run_connection                                                          *)

(* Attempts that fail wait RECONNECT_DELAY and are made again: they change *)
(* nothing.                                                                *)
Connect(t) ==
  /\ tasks[t].pc = "connect"
  /\ tasks' = [tasks EXCEPT ![t].pc = "up"]
  /\ UNCHANGED <<cfg, changes, callerVars, asked, outcome>>

Recv(t) ==
  /\ tasks[t].pc = "up" /\ tasks[t].queue # <<>>
  /\ asked' = Append(asked, Head(tasks[t].queue))
  /\ tasks' = [tasks EXCEPT ![t] =
       [pc |-> "request", queue |-> Tail(@.queue), req |-> Head(@.queue)]]
  /\ UNCHANGED <<cfg, changes, callerVars, outcome>>

(* Mutation: the caller has one reply channel for all its calls.           *)
MutantDeliver(c, out) ==
  inbox' = IF waiting[c[1]] # 0 THEN [inbox EXCEPT ![c[1]] = out] ELSE inbox

(* A reply channel belongs to one call: an answer nobody waits for is gone.*)
Deliver(c, out) ==
  inbox' = IF waiting[c[1]] = c[2] THEN [inbox EXCEPT ![c[1]] = out] ELSE inbox

(* Mutation: a request that failed is put back to be tried again.          *)
MutantReply(t) ==
  /\ tasks[t].pc = "request"
  /\ LET c == tasks[t].req IN
     \/ /\ Deliver(c, "ok") /\ outcome' = [outcome EXCEPT ![c] = "ok"]
        /\ tasks' = [tasks EXCEPT ![t].pc = "up", ![t].req = NoReq]
     \/ /\ inbox' = inbox /\ outcome' = outcome
        /\ tasks' = [tasks EXCEPT ![t] =
             [pc |-> "up", queue |-> Append(@.queue, c), req |-> NoReq]]
  /\ UNCHANGED <<cfg, changes, view, stage, calls, waiting, answer, asked>>

(* handle_request: OBS answers, refuses, or the connection breaks.         *)
Reply(t) ==
  /\ tasks[t].pc = "request"
  /\ \E out \in {"ok", "error"} :
       /\ Deliver(tasks[t].req, out)
       /\ outcome' = [outcome EXCEPT ![tasks[t].req] = out]
  /\ tasks' = [tasks EXCEPT ![t] = [pc |-> "up", queue |-> @.queue, req |-> NoReq]]
  /\ UNCHANGED <<cfg, changes, view, stage, calls, waiting, answer, asked>>

(* Mutation: the task starts again with an empty queue.                    *)
MutantDisconnect(t) ==
  /\ tasks[t].pc = "up"
  /\ tasks' = [tasks EXCEPT ![t] = Fresh]
  /\ UNCHANGED <<cfg, changes, callerVars, asked, outcome>>

(* The stream of events ends.                                              *)
Disconnect(t) ==
  /\ tasks[t].pc = "up"
  /\ tasks' = [tasks EXCEPT ![t].pc = "connect"]
  /\ UNCHANGED <<cfg, changes, callerVars, asked, outcome>>

(* Mutation: the closed queue is taken for a lost connection.              *)
MutantEnd(t) ==
  /\ tasks[t].pc = "up" /\ tasks[t].queue = <<>> /\ Orphan(t)
  /\ tasks' = [tasks EXCEPT ![t].pc = "connect"]
  /\ UNCHANGED <<cfg, changes, callerVars, asked, outcome>>

(* rx.recv() returns None.                                                 *)
End(t) ==
  /\ tasks[t].pc = "up" /\ tasks[t].queue = <<>> /\ Orphan(t)
  /\ tasks' = [tasks EXCEPT ![t].pc = "done"]
  /\ UNCHANGED <<cfg, changes, callerVars, asked, outcome>>

TaskStep(t) == Connect(t) \/ Recv(t) \/ Reply(t) \/ Disconnect(t) \/ End(t)

CallerStep(i) == \/ Start(i) \/ Stop(i) \/ ObsCall(i) \/ ObsCallSync(i)
                 \/ Answered(i) \/ TimedOut(i)

Next == \/ ChangeConfig
        \/ \E i \in Callers : CallerStep(i)
        \/ \E t \in Tasks : TaskStep(t)

Spec == Init /\ [][Next]_vars

TaskIds == 1 .. MaxChanges + 1

OfTask(A(_), t) == t \in Tasks /\ A(t)

(* Requests are answered or fail, and waits end.  Nothing says that OBS    *)
(* can ever be reached, or that a route ever ends.                         *)
Fairness ==
  /\ \A t \in TaskIds : WF_vars(OfTask(Recv, t)) /\ WF_vars(OfTask(Reply, t))
                     /\ WF_vars(OfTask(End, t))
  /\ \A i \in Callers : WF_vars(Answered(i) \/ TimedOut(i))

FairSpec == Spec /\ Fairness

(* OBS can be reached again and again, each time long enough for the task  *)
(* to look at its queue.                                                   *)
ReachableSpec ==
  /\ FairSpec
  /\ \A t \in TaskIds : /\ SF_vars(OfTask(Connect, t))
                        /\ SF_vars(OfTask(Recv, t)) /\ SF_vars(OfTask(End, t))

-----------------------------------------------------------------------------
TaskOK(w) ==
  /\ w.pc \in {"connect", "up", "request", "done"}
  /\ w.queue \in Seq(Calls) /\ Len(w.queue) <= QueueCap
  /\ w.req \in Calls \cup {NoReq}
  /\ (w.req # NoReq) <=> (w.pc = "request")

TypeOK ==
  /\ cfg \in Settings \cup {Removed} /\ changes \in 0 .. MaxChanges
  /\ Len(tasks) <= MaxChanges + 1
  /\ \A t \in Tasks : TaskOK(tasks[t])
  /\ view \in [Callers -> 0 .. Len(tasks)] /\ stage \in [Callers -> {"new", "on", "gone"}]
  /\ calls \in 0 .. MaxCalls /\ waiting \in [Callers -> 0 .. MaxCalls]
  /\ inbox \in [Callers -> {"none", "ok", "error"}]
  /\ answer \in [Callers -> [call : 0 .. MaxCalls,
                             out : {"none", "ok", "error", "refused", "timeout"}]]
  /\ asked \in Seq(Calls) /\ outcome \in [Calls -> {"none", "ok", "error"}]

(* OBS is handed the requests of a route in the order they were made and   *)
(* none twice, through lost connections, failures and time-outs            *)
(* (obs.rs:170-172): toggle_mute must not be repeated.                     *)
InOrder ==
  \A k, l \in DOMAIN asked :
    k < l /\ asked[k][1] = asked[l][1] => asked[k][2] < asked[l][2]

(* What obs_call_sync returns is the outcome of its own request, never the *)
(* late answer to one that timed out before (route.rs:1172-1188).          *)
OwnAnswer ==
  \A i \in Callers :
    answer[i].out \in {"ok", "error"} => outcome[<<i, answer[i].call>>] = answer[i].out

(* No route is left with a sender whose task is gone, however often the    *)
(* connection was reconfigured or removed since the route started: its     *)
(* calls are refused only when the queue is full (obs.rs:67-87, 170-176).  *)
CallersHaveTask ==
  \A i \in Callers : view[i] # 0 => tasks[view[i]].pc # "done"

(* While OBS can be reached, an accepted request is carried out: it waits  *)
(* through reconnects, also when its caller timed out, when the connection *)
(* was reconfigured and when its route has ended (obs.rs:146-188).         *)
Queued(c) == \E t \in Tasks : \E k \in DOMAIN tasks[t].queue : tasks[t].queue[k] = c

AcceptedIsServed == \A c \in Calls : Queued(c) ~> (outcome[c] # "none")

(* While OBS can be reached, a task nobody can call any more ends          *)
(* (obs.rs:173-176).                                                       *)
Ended(t) == t \in Tasks /\ tasks[t].pc = "done"

OrphanEnds == \A t \in TaskIds : (t \in Tasks /\ Orphan(t)) ~> Ended(t)

(* While OBS can be reached, no request and no task is left behind by      *)
(* changes of the configuration.                                           *)
TasksSettle == AcceptedIsServed /\ OrphanEnds
=============================================================================
