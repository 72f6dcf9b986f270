------------------------ MODULE ObsConnectionProofs ------------------------
(***************************************************************************)
(* The calls to OBS, for any number of routes, calls, changes of the       *)
(* configuration and any size of the queues: none is handed over twice or  *)
(* out of order, none is given the answer of another, and none is made to  *)
(* a task that has ended.                                                  *)
(***************************************************************************)
EXTENDS ObsConnection, TLAPS

-----------------------------------------------------------------------------
(* The inductive invariant, by parts.                                      *)

Task == [pc : {"connect", "up", "request", "done"}, queue : Seq(Calls),
         req : Calls \cup {NoReq}]

Queue(t) == tasks[t].queue

Shape ==
  /\ TypeOK
  /\ tasks \in Seq(Task) /\ Len(tasks) <= changes + 1
  /\ cfg # Removed => tasks # <<>>

(* The requests of a route wait in one queue, that of the task it was      *)
(* given when it started.                                                  *)
Has(t, i) == \E k \in 1 .. Len(Queue(t)) : Queue(t)[k][1] = i

HomeInv ==
  \A i \in Callers :
    /\ view[i] # 0 => stage[i] = "on"
    /\ \A t \in Tasks : Has(t, i) => stage[i] # "new" /\ view[i] \in {0, t}
    /\ \A t, u \in Tasks : Has(t, i) /\ Has(u, i) => t = u

(* They wait in their order, behind all that OBS was handed.               *)
Rises(s) ==
  \A k, l \in 1 .. Len(s) : k < l /\ s[k][1] = s[l][1] => s[k][2] < s[l][2]

OrderInv ==
  /\ Rises(asked) /\ \A k \in 1 .. Len(asked) : asked[k][2] <= calls
  /\ \A t \in Tasks :
       /\ Rises(Queue(t))
       /\ \A l \in 1 .. Len(Queue(t)) :
            /\ Queue(t)[l][2] <= calls
            /\ \A k \in 1 .. Len(asked) :
                 asked[k][1] = Queue(t)[l][1] => asked[k][2] < Queue(t)[l][2]

(* What OBS works on it was handed, once, and has not answered.            *)
Was(c) == \E k \in 1 .. Len(asked) : asked[k] = c

AskInv ==
  /\ \A c \in Calls : outcome[c] # "none" => Was(c)
  /\ \A t \in Tasks : tasks[t].pc = "request" =>
       /\ outcome[tasks[t].req] = "none" /\ Was(tasks[t].req)
       /\ \A u \in Tasks : tasks[u].pc = "request" /\ tasks[u].req = tasks[t].req => u = t

(* An answer that is there is that of the call its caller waits for.       *)
AnswerInv ==
  /\ \A i \in Callers :
       /\ inbox[i] # "none" => waiting[i] # 0 /\ outcome[<<i, waiting[i]>>] = inbox[i]
       /\ answer[i].out \in {"ok", "error"} => answer[i].call # 0
  /\ OwnAnswer

(* A task that ended is no route's, and no route will be given it.         *)
DoneInv == \A t \in Tasks : tasks[t].pc = "done" => Orphan(t)

IInv == Shape /\ HomeInv /\ OrderInv /\ AskInv /\ AnswerInv /\ DoneInv

-----------------------------------------------------------------------------
(* A request is known by its caller and its number.                        *)
LEMMA CallParts ==
  /\ \A c \in Calls : c[1] \in Callers /\ c[2] \in 1 .. MaxCalls /\ c = <<c[1], c[2]>>
  /\ \A i \in Callers, n \in 1 .. MaxCalls :
       <<i, n>> \in Calls /\ <<i, n>>[1] = i /\ <<i, n>>[2] = n
  /\ NoReq \notin Calls
  BY CallsAssumption DEF Calls, NoReq

(* What the types say of each task, queue and caller.                      *)
LEMMA ShapeParts ==
  ASSUME Shape
  PROVE  /\ Tasks = 1 .. Len(tasks) /\ Len(tasks) \in Nat
         /\ calls \in 0 .. MaxCalls /\ calls \in Nat
         /\ asked \in Seq(Calls) /\ \A k \in 1 .. Len(asked) : asked[k] \in Calls
         /\ \A t \in Tasks : /\ tasks[t] \in Task
                             /\ Queue(t) \in Seq(Calls) /\ Len(Queue(t)) \in Nat
                             /\ \A k \in 1 .. Len(Queue(t)) : Queue(t)[k] \in Calls
         /\ \A i \in Callers : view[i] # 0 => view[i] \in Tasks
         /\ view \in [Callers -> Nat] /\ stage \in [Callers -> {"new", "on", "gone"}]
  <1>1. /\ tasks \in Seq(Task) /\ calls \in 0 .. MaxCalls /\ asked \in Seq(Calls)
        /\ view \in [Callers -> 0 .. Len(tasks)] /\ stage \in [Callers -> {"new", "on", "gone"}]
    BY DEF Shape, TypeOK
  <1>2. Tasks = 1 .. Len(tasks) /\ Len(tasks) \in Nat
    BY <1>1 DEF Tasks
  <1>3. \A t \in Tasks : tasks[t] \in Task
    BY <1>1, <1>2
  <1>4. \A t \in Tasks : Queue(t) \in Seq(Calls)
    BY <1>3 DEF Task, Queue
  <1>5. \A t \in Tasks : Len(Queue(t)) \in Nat /\ \A k \in 1 .. Len(Queue(t)) : Queue(t)[k] \in Calls
    BY <1>4
  <1>6. calls \in Nat
    BY <1>1, CallsAssumption
  <1>7. \A k \in 1 .. Len(asked) : asked[k] \in Calls
    BY <1>1
  <1>8. \A i \in Callers : view[i] \in Nat /\ (view[i] # 0 => view[i] \in Tasks)
    BY <1>1, <1>2
  <1>9. view \in [Callers -> Nat]
    BY <1>1, <1>8
  <1>10. QED
    BY <1>1, <1>2, <1>3, <1>4, <1>5, <1>6, <1>7, <1>8, <1>9

(* The constructor of a task with another queue.                           *)
LEMMA WithQueue ==
  ASSUME NEW w \in Task, NEW q
  PROVE  [w EXCEPT !.queue = q] = [pc |-> w.pc, req |-> w.req, queue |-> q]
  BY DEF Task

(* A task whose place changes keeps its queue and its request.             *)
LEMMA WithPc ==
  ASSUME NEW w \in Task, NEW pc
  PROVE  [w EXCEPT !.pc = pc] = [pc |-> pc, queue |-> w.queue, req |-> w.req]
  BY DEF Task

(* A new task starts well: empty, and with nothing in hand.                *)
LEMMA FreshOK == /\ Fresh \in Task /\ TaskOK(Fresh)
                 /\ Fresh.pc = "connect" /\ Fresh.queue = <<>> /\ Fresh.req = NoReq
  <1>1. /\ Fresh \in Task /\ Fresh.pc = "connect" /\ Fresh.queue = <<>> /\ Fresh.req = NoReq
        /\ Len(<<>>) = 0 /\ <<>> \in Seq(Calls)
    BY DEF Fresh, Task
  <1>2. 0 <= QueueCap
    BY QueueAssumption
  <1>3. QED
    BY <1>1, <1>2 DEF TaskOK

(* The inductive invariant holds initially.                                *)
LEMMA IInvInit == Init => IInv
  <1> SUFFICES ASSUME Init PROVE IInv
    OBVIOUS
  <1>1. Fresh \in Task /\ Fresh.pc = "connect" /\ Fresh.queue = <<>> /\ Fresh.req = NoReq
    BY FreshOK
  <1>2. /\ tasks \in Seq(Task) /\ Len(tasks) <= 1 /\ Len(tasks) \in Nat /\ asked = <<>>
        /\ cfg # Removed => tasks # <<>>
        /\ \A t \in Tasks : tasks[t] = Fresh
    BY <1>1 DEF Init, Tasks
  <1>3. TypeOK
    <2>1. <<>> \in Seq(Calls)
      OBVIOUS
    <2>2. \A t \in Tasks : TaskOK(tasks[t])
      BY <1>2, FreshOK
    <2>3. 0 \in 0 .. MaxCalls /\ 0 \in 0 .. MaxChanges /\ 0 \in 0 .. Len(tasks)
          /\ Len(tasks) <= MaxChanges + 1
      BY <1>2, CallsAssumption
    <2>4. /\ cfg \in Settings \cup {Removed} /\ changes \in 0 .. MaxChanges
          /\ view \in [Callers -> 0 .. Len(tasks)] /\ stage \in [Callers -> {"new", "on", "gone"}]
          /\ calls \in 0 .. MaxCalls /\ waiting \in [Callers -> 0 .. MaxCalls]
          /\ inbox \in [Callers -> {"none", "ok", "error"}]
      BY <2>3 DEF Init
    <2>5. /\ answer \in [Callers -> [call : 0 .. MaxCalls,
                                    out : {"none", "ok", "error", "refused", "timeout"}]]
          /\ asked \in Seq(Calls) /\ outcome \in [Calls -> {"none", "ok", "error"}]
      BY <1>2, <2>1, <2>3 DEF Init
    <2>6. QED
      BY <2>2, <2>3, <2>4, <2>5 DEF TypeOK
  <1>4. Shape
    BY <1>2, <1>3 DEF Init, Shape
  <1>5. \A t \in Tasks : Queue(t) = <<>> /\ tasks[t].pc = "connect"
    BY <1>1, <1>2 DEF Queue
  <1>6. HomeInv
    <2>1. \A t \in Tasks, i \in Callers : ~Has(t, i)
      BY <1>5 DEF Has
    <2>2. \A i \in Callers : view[i] = 0
      BY DEF Init
    <2>3. QED
      BY <2>1, <2>2 DEF HomeInv
  <1>7. OrderInv
    BY <1>2, <1>5 DEF OrderInv, Rises
  <1>8. AskInv /\ DoneInv
    BY <1>5 DEF Init, AskInv, DoneInv
  <1>9. AnswerInv
    BY DEF Init, AnswerInv, OwnAnswer
  <1>10. QED
    BY <1>4, <1>6, <1>7, <1>8, <1>9 DEF IInv

-----------------------------------------------------------------------------
(* What the steps do to the tasks.                                         *)

(* One task is given a new state.                                          *)
LEMMA TaskChanged ==
  ASSUME Shape, NEW t \in Tasks, NEW r \in Task, tasks' = [tasks EXCEPT ![t] = r]
  PROVE  /\ tasks' \in Seq(Task) /\ Len(tasks') = Len(tasks) /\ Tasks' = Tasks
         /\ tasks'[t] = r /\ \A u \in Tasks : u # t => tasks'[u] = tasks[u]
  BY DEF Shape, Tasks

(* sync changes no task there is; it adds one at the end or none.          *)
LEMMA ConnectionAdded ==
  ASSUME Shape, NEW c, Sync(c)
  PROVE  /\ tasks' \in Seq(Task) /\ Len(tasks') \in {Len(tasks), Len(tasks) + 1}
         /\ \A t \in Tasks : t \in Tasks' /\ tasks'[t] = tasks[t]
         /\ \A t \in Tasks' : t \in Tasks \/ (t = Len(tasks) + 1 /\ tasks'[t] = Fresh)
         /\ c # Removed => Len(tasks') = Len(tasks) + 1
  <1>1. Fresh \in Task
    BY DEF Fresh, Task
  <1>2. CASE c = Removed
    BY <1>2 DEF Sync, Shape, Tasks
  <1>3. CASE c # Removed
    BY <1>1, <1>3, SMTT(30) DEF Sync, Shape, Tasks
  <1>4. QED
    BY <1>2, <1>3

(* A request that fits is added at the end of the queue of the task its    *)
(* caller sends to.                                                        *)
LEMMA RequestAdded ==
  ASSUME Shape, NEW i \in Callers, view[i] # 0, Fits(view[i]), calls < MaxCalls, Enqueue(i)
  PROVE  /\ view[i] \in Tasks /\ tasks[view[i]].pc # "done"
         /\ <<i, calls + 1>> \in Calls
         /\ tasks'[view[i]] = [pc |-> tasks[view[i]].pc, req |-> tasks[view[i]].req,
                               queue |-> Append(Queue(view[i]), <<i, calls + 1>>)]
         /\ tasks' \in Seq(Task) /\ Len(tasks') = Len(tasks) /\ Tasks' = Tasks
         /\ \A u \in Tasks : u # view[i] => tasks'[u] = tasks[u]
         /\ Len(Queue(view[i])) < QueueCap
  <1> DEFINE t == view[i]
             r == [pc |-> tasks[t].pc, req |-> tasks[t].req,
                   queue |-> Append(Queue(t), <<i, calls + 1>>)]
  <1>1. t \in Tasks /\ tasks[t] \in Task /\ Queue(t) \in Seq(Calls)
    BY ShapeParts
  <1>2. <<i, calls + 1>> \in Calls
    <2>1. calls + 1 \in 1 .. MaxCalls
      BY ShapeParts, CallsAssumption
    <2>2. QED
      BY <2>1, CallParts
  <1>3. r \in Task
    BY <1>1, <1>2 DEF Task
  <1>4. tasks' = [tasks EXCEPT ![t] = r]
    <2>1. tasks' = [tasks EXCEPT ![t] = [tasks[t] EXCEPT !.queue = Append(Queue(t), <<i, calls + 1>>)]]
      BY DEF Enqueue, Queue
    <2>2. [tasks[t] EXCEPT !.queue = Append(Queue(t), <<i, calls + 1>>)] = r
      BY <1>1, WithQueue
    <2>3. QED
      BY <2>1, <2>2
  <1>5. QED
    BY <1>1, <1>2, <1>3, <1>4, TaskChanged, ZenonT(60) DEF Fits, Queue
(* What a step does to the stage of a caller, if anything.                 *)
Moves(i) == \/ view'[i] = view[i] /\ stage'[i] = stage[i]
            \/ stage[i] = "new" /\ stage'[i] = "on"
            \/ stage'[i] = "gone" /\ view'[i] = 0

(* A step that hands nothing over and queues no request.                   *)
Quiet ==
  /\ asked' = asked /\ calls' \in Nat /\ calls <= calls'
  /\ \A t \in Tasks' : (t \in Tasks /\ Queue(t)' = Queue(t)) \/ Queue(t)' = <<>>
  /\ \A i \in Callers : Moves(i)

(* A step that takes the first request from a queue and hands it over.     *)
Handed(t) ==
  /\ asked' = Append(asked, Queue(t)[1]) /\ UNCHANGED <<calls, view, stage, outcome, inbox, waiting, answer>>
  /\ Tasks' = Tasks /\ 1 \in 1 .. Len(Queue(t)) /\ Len(Queue(t)') = Len(Queue(t)) - 1
  /\ \A k \in 1 .. Len(Queue(t)') : Queue(t)'[k] = Queue(t)[k + 1] /\ k + 1 \in 1 .. Len(Queue(t))
  /\ Queue(t)' \in Seq(Calls) /\ Queue(t)[1] \in Calls
  /\ tasks[t].pc = "up" /\ tasks'[t].pc = "request" /\ tasks'[t].req = Queue(t)[1]
  /\ \A u \in Tasks : u # t => tasks'[u] = tasks[u]

(* A step that queues the request of a route, the last one made.           *)
Added(i) ==
  /\ asked' = asked /\ calls' = calls + 1 /\ UNCHANGED <<view, stage, outcome>>
  /\ stage[i] = "on" /\ view[i] \in Tasks /\ Tasks' = Tasks
  /\ Queue(view[i])' = Append(Queue(view[i]), <<i, calls + 1>>) /\ <<i, calls + 1>> \in Calls
  /\ \A u \in Tasks : u # view[i] => Queue(u)' = Queue(u)
  /\ \A u \in Tasks : tasks'[u].pc = tasks[u].pc /\ tasks'[u].req = tasks[u].req

(* Recv takes the head of the queue and hands it to OBS (run_connection).  *)
LEMMA RecvHands ==
  ASSUME Shape, NEW t \in Tasks, Recv(t)
  PROVE  /\ Handed(t) /\ tasks' \in Seq(Task) /\ Len(tasks') = Len(tasks)
         /\ Queue(t)[1] \in Calls /\ Queue(t)' = Tail(Queue(t)) /\ Queue(t) # <<>>
         /\ UNCHANGED <<cfg, changes, callerVars, outcome>>
  <1>1. /\ tasks[t].pc = "up" /\ Queue(t) # <<>> /\ Queue(t) \in Seq(Calls)
        /\ asked' = Append(asked, Head(Queue(t)))
        /\ tasks' = [tasks EXCEPT ![t] =
                      [pc |-> "request", queue |-> Tail(Queue(t)), req |-> Head(Queue(t))]]
        /\ UNCHANGED <<cfg, changes, callerVars, outcome>>
    BY ShapeParts DEF Recv, Queue
  <1>2. /\ Head(Queue(t)) = Queue(t)[1] /\ Tail(Queue(t)) \in Seq(Calls)
        /\ Queue(t)[1] \in Calls /\ 1 \in 1 .. Len(Queue(t))
        /\ Len(Tail(Queue(t))) = Len(Queue(t)) - 1
        /\ \A k \in 1 .. Len(Tail(Queue(t))) : Tail(Queue(t))[k] = Queue(t)[k + 1]
                                               /\ k + 1 \in 1 .. Len(Queue(t))
    BY <1>1
  <1>3. [pc |-> "request", queue |-> Tail(Queue(t)), req |-> Queue(t)[1]] \in Task
    BY <1>2 DEF Task
  <1>4. /\ tasks' \in Seq(Task) /\ Len(tasks') = Len(tasks) /\ Tasks' = Tasks
        /\ tasks'[t] = [pc |-> "request", queue |-> Tail(Queue(t)), req |-> Queue(t)[1]]
        /\ \A u \in Tasks : u # t => tasks'[u] = tasks[u]
    BY <1>1, <1>2, <1>3, TaskChanged
  <1>5. Queue(t)' = Tail(Queue(t)) /\ tasks'[t].pc = "request" /\ tasks'[t].req = Queue(t)[1]
    BY <1>4 DEF Queue
  <1>6. QED
    BY <1>1, <1>2, <1>4, <1>5 DEF Handed, callerVars

(* A step of a task that leaves its queue alone.                           *)
LEMMA TaskQuiet ==
  ASSUME Shape, NEW t \in Tasks, NEW pc \in {"connect", "up", "request", "done"},
         NEW req \in Calls \cup {NoReq},
         tasks' = [tasks EXCEPT ![t] = [pc |-> pc, queue |-> Queue(t), req |-> req]],
         UNCHANGED <<asked, calls, view, stage>>
  PROVE  /\ Quiet /\ tasks' \in Seq(Task) /\ Len(tasks') = Len(tasks) /\ Tasks' = Tasks
         /\ tasks'[t].pc = pc /\ tasks'[t].req = req /\ Queue(t)' = Queue(t)
         /\ \A u \in Tasks : u # t => tasks'[u] = tasks[u]
  <1> DEFINE r == [pc |-> pc, queue |-> Queue(t), req |-> req]
  <1>1. tasks[t] \in Task /\ Queue(t) \in Seq(Calls)
    BY ShapeParts
  <1>2. r \in Task
    BY <1>1 DEF Task
  <1>3. /\ tasks' \in Seq(Task) /\ Len(tasks') = Len(tasks) /\ Tasks' = Tasks
        /\ tasks'[t] = r /\ \A u \in Tasks : u # t => tasks'[u] = tasks[u]
    BY <1>2, TaskChanged
  <1>4. tasks'[t].pc = pc /\ tasks'[t].req = req /\ Queue(t)' = Queue(t)
    BY <1>3 DEF Queue
  <1>5. Quiet
    BY <1>3, <1>4, ShapeParts DEF Quiet, Queue, Moves
  <1>6. QED
    BY <1>3, <1>4, <1>5

(* What each of these steps does to its task.                              *)
Becomes(t, pc, req) ==
  tasks' = [tasks EXCEPT ![t] = [pc |-> pc, queue |-> Queue(t), req |-> req]]

(* The other steps of run_connection move a task's place and leave its     *)
(* queue.                                                                  *)
LEMMA TaskBecomes ==
  ASSUME Shape, NEW t \in Tasks
  PROVE  /\ Connect(t) => tasks[t].pc = "connect" /\ Becomes(t, "up", tasks[t].req)
         /\ Disconnect(t) => tasks[t].pc = "up" /\ Becomes(t, "connect", tasks[t].req)
         /\ End(t) => tasks[t].pc = "up" /\ Orphan(t) /\ Becomes(t, "done", tasks[t].req)
         /\ Reply(t) => tasks[t].pc = "request" /\ Becomes(t, "up", NoReq)
  <1>1. tasks[t] \in Task /\ tasks \in Seq(Task) /\ t \in 1 .. Len(tasks)
    BY ShapeParts DEF Shape
  <1>2. \A pc : [tasks EXCEPT ![t].pc = pc]
                = [tasks EXCEPT ![t] = [pc |-> pc, queue |-> Queue(t), req |-> tasks[t].req]]
    BY <1>1, WithPc DEF Queue
  <1>3. QED
    BY <1>2 DEF Connect, Disconnect, End, Reply, Becomes, Queue

(* They move no request.                                                   *)
LEMMA TaskStepQuiet ==
  ASSUME Shape, NEW t \in Tasks, Connect(t) \/ Disconnect(t) \/ End(t) \/ Reply(t)
  PROVE  Quiet
  <1>1. tasks[t].req \in Calls \cup {NoReq} /\ NoReq \in Calls \cup {NoReq}
    BY ShapeParts DEF Task
  <1>2. UNCHANGED <<asked, calls, view, stage>>
    BY DEF Connect, Disconnect, End, Reply, callerVars
  <1>3. QED
    BY <1>1, <1>2, TaskBecomes, TaskQuiet DEF Becomes

(* A call adds a request or none (obs_call, obs_call_sync).                *)
LEMMA CallAdds ==
  ASSUME Shape, NEW i \in Callers, ObsCall(i) \/ ObsCallSync(i)
  PROVE  Quiet \/ Added(i)
  <1>1. /\ MayCall(i) /\ UNCHANGED <<asked, view, stage, outcome, cfg, changes>> /\ calls' = calls + 1
        /\ tasks' = tasks \/ (view[i] # 0 /\ Fits(view[i]) /\ Enqueue(i))
    BY DEF ObsCall, ObsCallSync
  <1>2. calls \in Nat /\ calls < MaxCalls /\ stage[i] = "on"
    BY <1>1, ShapeParts DEF MayCall
  <1>3. CASE tasks' = tasks
    BY <1>1, <1>2, <1>3 DEF Quiet, Queue, Tasks, Moves
  <1>4. CASE view[i] # 0 /\ Fits(view[i]) /\ Enqueue(i)
    <2>1. /\ view[i] \in Tasks /\ <<i, calls + 1>> \in Calls
          /\ tasks'[view[i]] = [pc |-> tasks[view[i]].pc, req |-> tasks[view[i]].req,
                                queue |-> Append(Queue(view[i]), <<i, calls + 1>>)]
          /\ Tasks' = Tasks
          /\ \A u \in Tasks : u # view[i] => tasks'[u] = tasks[u]
      BY <1>2, <1>4, RequestAdded
    <2>2. Queue(view[i])' = Append(Queue(view[i]), <<i, calls + 1>>)
      BY <1>1, <2>1 DEF Queue
    <2>3. \A u \in Tasks : tasks'[u].pc = tasks[u].pc /\ tasks'[u].req = tasks[u].req
      BY <2>1
    <2>4. QED
      BY <1>1, <1>2, <2>1, <2>2, <2>3 DEF Added, Queue
  <1>5. QED
    BY <1>1, <1>3, <1>4

(* No step moves requests in any other way: the cases of the proofs on     *)
(* order.                                                                  *)
LEMMA Steps ==
  ASSUME Shape, [Next]_vars
  PROVE  Quiet \/ (\E t \in Tasks : Handed(t)) \/ (\E i \in Callers : Added(i))
  <1>1. ASSUME ChangeConfig PROVE Quiet
    <2>1. PICK c : Sync(c)
      BY <1>1 DEF ChangeConfig
    <2>2. UNCHANGED <<asked, calls, view, stage>>
      BY <2>1 DEF Sync, callerVars
    <2>3. \A t \in Tasks' : (t \in Tasks /\ Queue(t)' = Queue(t)) \/ Queue(t)' = <<>>
      BY <2>1, ConnectionAdded, FreshOK DEF Queue
    <2>4. QED
      BY <2>2, <2>3, ShapeParts DEF Quiet, Moves
  <1>2. ASSUME NEW i \in Callers, Start(i) \/ Stop(i) \/ Answered(i) \/ TimedOut(i) PROVE Quiet
    <2>1. UNCHANGED <<asked, calls, tasks>>
      BY <1>2 DEF Start, Stop, Answered, TimedOut, Return
    <2>2. \A j \in Callers : Moves(j)
      <3>1. CASE Start(i)
        BY <3>1, ShapeParts DEF Start, Moves
      <3>2. CASE Stop(i)
        BY <3>2, ShapeParts DEF Stop, Moves
      <3>3. CASE Answered(i) \/ TimedOut(i)
        BY <3>3 DEF Answered, TimedOut, Return, Moves
      <3>4. QED
        BY <1>2, <3>1, <3>2, <3>3
    <2>3. QED
      BY <2>1, <2>2, ShapeParts DEF Quiet, Queue, Tasks
  <1>3. CASE UNCHANGED vars
    BY <1>3, ShapeParts DEF vars, callerVars, Quiet, Queue, Tasks, Moves
  <1>4. QED
    BY <1>1, <1>2, <1>3, CallAdds, TaskStepQuiet, RecvHands DEF Next, CallerStep, TaskStep

-----------------------------------------------------------------------------
(* One lemma per part.                                                     *)

(* Whose requests are in a queue after a step.                             *)
LEMMA HasAfter ==
  ASSUME Shape
  PROVE  /\ Quiet => \A t \in Tasks', i \in Callers : Has(t, i)' => t \in Tasks /\ Has(t, i)
         /\ \A t \in Tasks : Handed(t) =>
              \A u \in Tasks, i \in Callers : Has(u, i)' => Has(u, i)
         /\ \A j \in Callers : Added(j) =>
              \A u \in Tasks, i \in Callers : Has(u, i)' => Has(u, i) \/ (i = j /\ u = view[j])
  <1>1. ASSUME Quiet, NEW t \in Tasks', NEW i \in Callers, Has(t, i)' PROVE t \in Tasks /\ Has(t, i)
    <2>1. PICK k \in 1 .. Len(Queue(t)') : Queue(t)'[k][1] = i
      BY <1>1 DEF Has
    <2>2. Queue(t)' # <<>>
      BY <2>1
    <2>3. t \in Tasks /\ Queue(t)' = Queue(t)
      BY <1>1, <2>2 DEF Quiet
    <2>4. QED
      BY <2>1, <2>3 DEF Has
  <1>2. ASSUME NEW t \in Tasks, Handed(t), NEW u \in Tasks, NEW i \in Callers, Has(u, i)'
        PROVE  Has(u, i)
    <2>1. PICK k \in 1 .. Len(Queue(u)') : Queue(u)'[k][1] = i
      BY <1>2 DEF Has
    <2>2. CASE u = t
      <3>1. Queue(t)'[k] = Queue(t)[k + 1] /\ k + 1 \in 1 .. Len(Queue(t))
        BY <1>2, <2>1, <2>2 DEF Handed
      <3>2. QED
        BY <2>1, <2>2, <3>1 DEF Has
    <2>3. CASE u # t
      <3>1. Queue(u)' = Queue(u)
        BY <1>2, <2>3 DEF Handed, Queue
      <3>2. QED
        BY <2>1, <3>1 DEF Has
    <2>4. QED
      BY <2>2, <2>3
  <1>3. ASSUME NEW j \in Callers, Added(j), NEW u \in Tasks, NEW i \in Callers, Has(u, i)'
        PROVE  Has(u, i) \/ (i = j /\ u = view[j])
    <2>1. PICK k \in 1 .. Len(Queue(u)') : Queue(u)'[k][1] = i
      BY <1>3 DEF Has
    <2>2. CASE u = view[j]
      <3>1. Queue(u)' = Append(Queue(u), <<j, calls + 1>>) /\ Queue(u) \in Seq(Calls)
        BY <1>3, <2>2, ShapeParts DEF Added
      <3>2. CASE k \in 1 .. Len(Queue(u))
        <4>1. Queue(u)'[k] = Queue(u)[k]
          BY <3>1, <3>2
        <4>2. QED
          BY <2>1, <3>2, <4>1 DEF Has
      <3>3. CASE k = Len(Queue(u)) + 1
        <4>1. Queue(u)'[k] = <<j, calls + 1>>
          BY <3>1, <3>3
        <4>2. QED
          BY <2>1, <2>2, <4>1
      <3>4. Len(Queue(u)') = Len(Queue(u)) + 1 /\ Len(Queue(u)) \in Nat
        BY <3>1
      <3>5. QED
        BY <3>2, <3>3, <3>4
    <2>3. CASE u # view[j]
      <3>1. Queue(u)' = Queue(u)
        BY <1>3, <2>3 DEF Added
      <3>2. QED
        BY <2>1, <3>1 DEF Has
    <2>4. QED
      BY <2>2, <2>3
  <1>4. QED
    BY <1>1, <1>2, <1>3

(* Every step keeps HomeInv: the requests of a caller wait in one queue.   *)
LEMMA HomeStep == Shape /\ HomeInv /\ [Next]_vars => HomeInv'
  <1> SUFFICES ASSUME Shape, HomeInv, [Next]_vars PROVE HomeInv'
    OBVIOUS
  <1>1. CASE Quiet
    <2>1. \A t \in Tasks', i \in Callers : Has(t, i)' => t \in Tasks /\ Has(t, i)
      BY <1>1, HasAfter
    <2>2. \A i \in Callers : Moves(i)
      BY <1>1 DEF Quiet
    <2>3. QED
      BY <2>1, <2>2 DEF HomeInv, Moves
  <1>2. ASSUME NEW t \in Tasks, Handed(t) PROVE HomeInv'
    <2>1. \A u \in Tasks, i \in Callers : Has(u, i)' => Has(u, i)
      BY <1>2, HasAfter
    <2>2. Tasks' = Tasks /\ UNCHANGED <<view, stage>>
      BY <1>2 DEF Handed
    <2>3. QED
      BY <2>1, <2>2 DEF HomeInv
  <1>3. ASSUME NEW j \in Callers, Added(j) PROVE HomeInv'
    <2>1. \A u \in Tasks, i \in Callers : Has(u, i)' => Has(u, i) \/ (i = j /\ u = view[j])
      BY <1>3, HasAfter
    <2>2. /\ Tasks' = Tasks /\ UNCHANGED <<view, stage>> /\ stage[j] = "on"
          /\ view[j] \in Tasks /\ view[j] # 0
      BY <1>3, ShapeParts DEF Added
    <2>3. QED
      BY <2>1, <2>2 DEF HomeInv
  <1>4. QED
    BY <1>1, <1>2, <1>3, Steps

(* A sequence of rising calls that is given one more, or loses its first.  *)
LEMMA RisesAppend ==
  ASSUME NEW s \in Seq(Calls), NEW c \in Calls, Rises(s),
         \A k \in 1 .. Len(s) : s[k][1] = c[1] => s[k][2] < c[2]
  PROVE  Rises(Append(s, c))
  <1> DEFINE r == Append(s, c)
  <1>1. SUFFICES ASSUME NEW k \in 1 .. Len(r), NEW l \in 1 .. Len(r), k < l, r[k][1] = r[l][1]
                 PROVE  r[k][2] < r[l][2]
    BY DEF Rises
  <1>2. Len(s) \in Nat /\ Len(r) = Len(s) + 1
    OBVIOUS
  <1>3. k \in 1 .. Len(s) /\ r[k] = s[k]
    BY <1>1, <1>2
  <1>4. CASE l \in 1 .. Len(s)
    <2>1. r[l] = s[l]
      BY <1>4
    <2>2. QED
      BY <1>1, <1>3, <1>4, <2>1 DEF Rises
  <1>5. CASE l = Len(s) + 1
    <2>1. r[l] = c
      BY <1>5
    <2>2. QED
      BY <1>1, <1>3, <2>1
  <1>6. QED
    BY <1>2, <1>4, <1>5

(* The rest of a rising sequence rises.                                    *)
LEMMA RisesTail ==
  ASSUME NEW s \in Seq(Calls), NEW r \in Seq(Calls), Rises(s),
         \A k \in 1 .. Len(r) : r[k] = s[k + 1] /\ k + 1 \in 1 .. Len(s)
  PROVE  Rises(r)
  <1>1. SUFFICES ASSUME NEW k \in 1 .. Len(r), NEW l \in 1 .. Len(r), k < l, r[k][1] = r[l][1]
                 PROVE  r[k][2] < r[l][2]
    BY DEF Rises
  <1>2. k + 1 < l + 1 /\ r[k] = s[k + 1] /\ r[l] = s[l + 1]
    BY <1>1
  <1>3. s[k + 1][1] = s[l + 1][1]
    BY <1>1, <1>2
  <1>4. QED
    BY <1>2, <1>3 DEF Rises

(* The part of OrderInv about one queue.                                   *)
QueueOrder(t) ==
  /\ Rises(Queue(t))
  /\ \A l \in 1 .. Len(Queue(t)) :
       /\ Queue(t)[l][2] <= calls
       /\ \A k \in 1 .. Len(asked) :
            asked[k][1] = Queue(t)[l][1] => asked[k][2] < Queue(t)[l][2]

(* Every step keeps OrderInv: of each caller, the requests asked and then  *)
(* those queued have rising numbers.                                       *)
LEMMA OrderStep == Shape /\ HomeInv /\ OrderInv /\ [Next]_vars => OrderInv'
  <1> SUFFICES ASSUME Shape, HomeInv, OrderInv, [Next]_vars PROVE OrderInv'
    OBVIOUS
  <1>0. /\ Rises(asked) /\ \A k \in 1 .. Len(asked) : asked[k][2] <= calls
        /\ \A t \in Tasks : QueueOrder(t)
    BY DEF OrderInv, QueueOrder
  <1>a. SUFFICES /\ Rises(asked)' /\ \A k \in 1 .. Len(asked') : asked'[k][2] <= calls'
                 /\ \A t \in Tasks' : QueueOrder(t)'
    BY DEF OrderInv, QueueOrder
  <1> DEFINE Goal == /\ Rises(asked') /\ \A k \in 1 .. Len(asked') : asked'[k][2] <= calls'
                     /\ \A t \in Tasks' : QueueOrder(t)'
  <1>b. /\ \A k \in 1 .. Len(asked) : asked[k] \in Calls /\ asked[k][2] \in Nat
        /\ \A t \in Tasks : \A k \in 1 .. Len(Queue(t)) :
             Queue(t)[k] \in Calls /\ Queue(t)[k][1] \in Callers /\ Queue(t)[k][2] \in Nat
        /\ calls \in Nat
    <2>1. \A c \in Calls : c[1] \in Callers /\ c[2] \in Nat
      BY CallParts
    <2>2. QED
      BY <2>1, ShapeParts
  <1>1. CASE Quiet
    <2>1. asked' = asked /\ calls' \in Nat /\ calls <= calls'
      BY <1>1 DEF Quiet
    <2>2. \A k \in 1 .. Len(asked') : asked'[k][2] <= calls'
      BY <1>0, <1>b, <2>1
    <2>3. ASSUME NEW t \in Tasks' PROVE QueueOrder(t)'
      <3>1. CASE Queue(t)' = <<>>
        BY <3>1 DEF QueueOrder, Rises
      <3>2. CASE t \in Tasks /\ Queue(t)' = Queue(t)
        <4>1. \A l \in 1 .. Len(Queue(t)) : Queue(t)[l][2] <= calls'
          BY <1>0, <1>b, <2>1, <3>2 DEF QueueOrder
        <4>2. QED
          BY <1>0, <2>1, <3>2, <4>1 DEF QueueOrder
      <3>3. QED
        BY <1>1, <3>1, <3>2 DEF Quiet
    <2>4. QED
      BY <1>0, <2>1, <2>2, <2>3
  <1>2. ASSUME NEW t \in Tasks, Handed(t) PROVE Goal
    <2> DEFINE c == Queue(t)[1]
    <2>1. /\ c \in Calls /\ c[1] \in Callers /\ c[2] \in Nat /\ c[2] <= calls
          /\ asked' = Append(asked, c) /\ calls' = calls /\ Tasks' = Tasks
          /\ \A k \in 1 .. Len(asked) : asked[k][1] = c[1] => asked[k][2] < c[2]
      BY <1>0, <1>2, <1>b DEF Handed, QueueOrder
    <2>2. asked \in Seq(Calls) /\ Len(asked) \in Nat
      BY ShapeParts
    <2>3. Rises(asked')
      BY <1>0, <2>1, <2>2, RisesAppend
    <2>4. /\ Len(asked') = Len(asked) + 1 /\ asked'[Len(asked) + 1] = c
          /\ \A k \in 1 .. Len(asked) : asked'[k] = asked[k]
          /\ \A k \in 1 .. Len(asked') : k \in 1 .. Len(asked) \/ k = Len(asked) + 1
      BY <2>1, <2>2
    <2>5. \A k \in 1 .. Len(asked') : asked'[k][2] <= calls'
      BY <1>0, <2>1, <2>4
    <2>6. ASSUME NEW u \in Tasks, u # t PROVE QueueOrder(u)'
      <3>1. Queue(u)' = Queue(u)
        BY <1>2, <2>6 DEF Handed, Queue
      <3>2. \A l \in 1 .. Len(Queue(u)) : Queue(u)[l][1] # c[1]
        <4>1. Has(t, c[1])
          BY <1>2 DEF Handed, Has
        <4>2. \A l \in 1 .. Len(Queue(u)) : Has(u, Queue(u)[l][1])
          BY DEF Has
        <4>3. QED
          BY <2>1, <2>6, <4>1, <4>2 DEF HomeInv
      <3>3. ASSUME NEW l \in 1 .. Len(Queue(u)), NEW k \in 1 .. Len(asked'),
                   asked'[k][1] = Queue(u)[l][1]
            PROVE  asked'[k][2] < Queue(u)[l][2]
        <4>1. k \in 1 .. Len(asked) /\ asked'[k] = asked[k]
          BY <2>4, <3>2, <3>3
        <4>2. QED
          BY <1>0, <3>3, <4>1 DEF QueueOrder
      <3>4. QED
        BY <1>0, <2>1, <3>1, <3>3 DEF QueueOrder
    <2>7. QueueOrder(t)'
      <3> DEFINE q == Queue(t)
                 r == Queue(t)'
      <3>1. /\ \A k \in 1 .. Len(r) : r[k] = q[k + 1] /\ k + 1 \in 1 .. Len(q)
            /\ 1 \in 1 .. Len(q)
        BY <1>2 DEF Handed
      <3>2. r \in Seq(Calls) /\ q \in Seq(Calls)
        BY <1>2, ShapeParts DEF Handed
      <3>3. Rises(r)
        BY <1>0, <3>1, <3>2, RisesTail DEF QueueOrder
      <3>4. ASSUME NEW l \in 1 .. Len(r), NEW k \in 1 .. Len(asked'),
                   asked'[k][1] = r[l][1]
            PROVE  asked'[k][2] < r[l][2]
        <4>1. r[l] = q[l + 1] /\ l + 1 \in 1 .. Len(q) /\ 1 < l + 1
          BY <3>1
        <4>2. CASE k \in 1 .. Len(asked)
          BY <1>0, <2>4, <3>4, <4>1, <4>2 DEF QueueOrder
        <4>3. CASE k = Len(asked) + 1
          BY <1>0, <2>4, <3>1, <3>4, <4>1, <4>3 DEF QueueOrder, Rises
        <4>4. QED
          BY <2>4, <4>2, <4>3
      <3>5. \A l \in 1 .. Len(r) : r[l][2] <= calls
        BY <1>0, <3>1 DEF QueueOrder
      <3>6. QED
        BY <2>1, <3>3, <3>4, <3>5 DEF QueueOrder
    <2>8. QED
      BY <2>1, <2>3, <2>5, <2>6, <2>7
  <1>3. ASSUME NEW j \in Callers, Added(j) PROVE Goal
    <2>1. /\ asked' = asked /\ calls' = calls + 1 /\ Tasks' = Tasks /\ view[j] \in Tasks
      BY <1>3 DEF Added
    <2>2. \A k \in 1 .. Len(asked) : asked[k][2] <= calls'
      BY <1>0, <1>b, <2>1
    <2>3. ASSUME NEW u \in Tasks, u # view[j] PROVE QueueOrder(u)'
      <3>1. Queue(u)' = Queue(u)
        BY <1>3, <2>3 DEF Added
      <3>2. \A l \in 1 .. Len(Queue(u)) : Queue(u)[l][2] <= calls'
        BY <1>0, <1>b, <2>1 DEF QueueOrder
      <3>3. QED
        BY <1>0, <2>1, <3>1, <3>2 DEF QueueOrder
    <2>4. ASSUME NEW u \in Tasks, u = view[j] PROVE QueueOrder(u)'
      <3> DEFINE c == <<j, calls + 1>>
      <3>1. Queue(u)' = Append(Queue(u), c) /\ c \in Calls /\ Queue(u) \in Seq(Calls) /\ Len(Queue(u)) \in Nat
        BY <1>3, <2>4, ShapeParts DEF Added
      <3>2. c[1] = j /\ c[2] = calls + 1
        OBVIOUS
      <3>3. \A k \in 1 .. Len(Queue(u)) : Queue(u)[k][2] < c[2]
        BY <1>0, <1>b, <3>2 DEF QueueOrder
      <3>4. Rises(Queue(u)')
        BY <1>0, <3>1, <3>3, RisesAppend DEF QueueOrder
      <3>5. /\ Queue(u)'[Len(Queue(u)) + 1] = c
            /\ \A k \in 1 .. Len(Queue(u)) : Queue(u)'[k] = Queue(u)[k]
            /\ \A k \in 1 .. Len(Queue(u)') : k \in 1 .. Len(Queue(u)) \/ k = Len(Queue(u)) + 1
        BY <3>1
      <3>6. ASSUME NEW l \in 1 .. Len(Queue(u)')
            PROVE  /\ Queue(u)'[l][2] <= calls'
                   /\ \A k \in 1 .. Len(asked) :
                        asked[k][1] = Queue(u)'[l][1] => asked[k][2] < Queue(u)'[l][2]
        <4>1. CASE l \in 1 .. Len(Queue(u))
          BY <1>0, <1>b, <2>1, <3>5, <4>1 DEF QueueOrder
        <4>2. CASE l = Len(Queue(u)) + 1
          BY <1>0, <1>b, <2>1, <3>2, <3>5, <4>2
        <4>3. QED
          BY <3>5, <4>1, <4>2
      <3>7. QED
        BY <2>1, <3>4, <3>6 DEF QueueOrder
    <2>5. QED
      BY <1>0, <2>1, <2>2, <2>3, <2>4
  <1>4. QED
    BY <1>1, <1>2, <1>3, Steps

(* What OBS is working on is left alone.                                   *)
Calm ==
  /\ UNCHANGED <<asked, outcome>>
  /\ \A t \in Tasks' : tasks'[t].pc = "request"
       => t \in Tasks /\ tasks[t].pc = "request" /\ tasks'[t].req = tasks[t].req

(* Only Recv and Reply change what OBS works on.                           *)
LEMMA CalmSteps ==
  ASSUME Shape, [Next]_vars
  PROVE  Calm \/ (\E t \in Tasks : Recv(t) \/ Reply(t))
  <1>1. ASSUME ChangeConfig PROVE Calm
    <2>1. PICK c : Sync(c)
      BY <1>1 DEF ChangeConfig
    <2>2. UNCHANGED <<asked, outcome>>
      BY <2>1 DEF Sync
    <2>3. \A t \in Tasks : t \in Tasks' /\ tasks'[t] = tasks[t]
      BY <2>1, ConnectionAdded
    <2>4. \A t \in Tasks' : t \in Tasks \/ tasks'[t].pc = "connect"
      BY <2>1, ConnectionAdded, FreshOK
    <2>5. QED
      BY <2>2, <2>3, <2>4 DEF Calm
  <1>2. CASE UNCHANGED <<tasks, asked, outcome>>
    BY <1>2 DEF Calm, Tasks
  <1>3. ASSUME NEW i \in Callers, ObsCall(i) \/ ObsCallSync(i) PROVE Calm
    <2>1. /\ MayCall(i) /\ UNCHANGED <<asked, outcome>>
          /\ tasks' = tasks \/ (view[i] # 0 /\ Fits(view[i]) /\ Enqueue(i))
      BY <1>3 DEF ObsCall, ObsCallSync
    <2>2. CASE tasks' = tasks
      BY <2>1, <2>2 DEF Calm, Tasks
    <2>3. CASE view[i] # 0 /\ Fits(view[i]) /\ Enqueue(i)
      <3>1. calls < MaxCalls
        BY <2>1 DEF MayCall
      <3>2. /\ Tasks' = Tasks /\ view[i] \in Tasks
            /\ tasks'[view[i]] = [pc |-> tasks[view[i]].pc, req |-> tasks[view[i]].req,
                                  queue |-> Append(Queue(view[i]), <<i, calls + 1>>)]
            /\ \A u \in Tasks : u # view[i] => tasks'[u] = tasks[u]
        BY <2>3, <3>1, RequestAdded
      <3>3. \A u \in Tasks : tasks'[u].pc = tasks[u].pc /\ tasks'[u].req = tasks[u].req
        BY <3>2
      <3>4. QED
        BY <2>1, <3>2, <3>3 DEF Calm
    <2>4. QED
      BY <2>1, <2>2, <2>3
  <1>4. ASSUME NEW t \in Tasks, Connect(t) \/ Disconnect(t) \/ End(t) PROVE Calm
    <2>1. tasks[t].req \in Calls \cup {NoReq} /\ UNCHANGED <<asked, outcome, calls, view, stage>>
      BY <1>4, ShapeParts DEF Task, Connect, Disconnect, End, callerVars
    <2>2. \E pc \in {"connect", "up", "done"} : Becomes(t, pc, tasks[t].req)
      BY <1>4, TaskBecomes
    <2>3. /\ Tasks' = Tasks /\ tasks'[t].pc # "request"
          /\ \A u \in Tasks : u # t => tasks'[u] = tasks[u]
      <3>1. PICK pc \in {"connect", "up", "done"} : Becomes(t, pc, tasks[t].req)
        BY <2>2
      <3>2. QED
        BY <2>1, <3>1, TaskQuiet DEF Becomes
    <2>4. QED
      BY <2>1, <2>3 DEF Calm
  <1>5. QED
    BY <1>1, <1>2, <1>3, <1>4
    DEF Next, CallerStep, TaskStep, Start, Stop, Answered, TimedOut, Return, vars

(* Every step keeps AskInv: what OBS works on it was handed, once, and has *)
(* not answered.                                                           *)
LEMMA AskStep == Shape /\ OrderInv /\ AskInv /\ [Next]_vars => AskInv'
  <1> SUFFICES ASSUME Shape, OrderInv, AskInv, [Next]_vars PROVE AskInv'
    OBVIOUS
  <1>1. CASE Calm
    <2>1. \A c : Was(c)' <=> Was(c)
      BY <1>1 DEF Calm, Was
    <2>2. QED
      BY <1>1, <2>1 DEF Calm, AskInv
  <1>2. ASSUME NEW t \in Tasks, Recv(t) PROVE AskInv'
    <2>0. Queue(t)[1] \in Calls
      BY <1>2, RecvHands
    <2> PICK c \in Calls : c = Queue(t)[1]
      BY <2>0
    <2>1. /\ Handed(t) /\ UNCHANGED outcome /\ Queue(t) # <<>>
      BY <1>2, RecvHands
    <2>2. /\ asked' = Append(asked, c) /\ asked \in Seq(Calls) /\ Tasks' = Tasks
          /\ tasks'[t].pc = "request" /\ tasks'[t].req = c
          /\ \A u \in Tasks : u # t => tasks'[u] = tasks[u]
          /\ 1 \in 1 .. Len(Queue(t))
      BY <2>1, ShapeParts DEF Handed
    <2>3. /\ \A k \in 1 .. Len(asked) : asked'[k] = asked[k] /\ k \in 1 .. Len(asked')
          /\ asked'[Len(asked) + 1] = c /\ Len(asked) + 1 \in 1 .. Len(asked')
      BY <2>2
    <2>4. Was(c)' /\ \A d : Was(d) => Was(d)'
      BY <2>3 DEF Was
    <2>5. ~Was(c)
      <3>1. c[2] \in Nat
        BY <2>1, CallParts
      <3>2. \A k \in 1 .. Len(asked) : asked[k][1] = c[1] => asked[k][2] < c[2]
        BY <2>2 DEF OrderInv
      <3>3. QED
        BY <3>1, <3>2 DEF Was
    <2>6. outcome[c] = "none"
      BY <2>1, <2>5 DEF AskInv
    <2>7. \A u \in Tasks : tasks[u].pc = "request" => tasks[u].req # c
      BY <2>5 DEF AskInv
    <2>8. QED
      BY <2>1, <2>2, <2>4, <2>6, <2>7 DEF AskInv
  <1>3. ASSUME NEW t \in Tasks, Reply(t) PROVE AskInv'
    <2>0. tasks[t].req \in Calls
      BY <1>3 DEF Reply, Shape, TypeOK, TaskOK
    <2> PICK c \in Calls : c = tasks[t].req
      BY <2>0
    <2>1. /\ tasks[t].pc = "request" /\ asked' = asked
          /\ \E out \in {"ok", "error"} : outcome' = [outcome EXCEPT ![c] = out]
          /\ UNCHANGED <<calls, view, stage>>
      BY <1>3 DEF Reply
    <2>2. Was(c) /\ \A d : Was(d)' <=> Was(d)
      BY <2>1 DEF AskInv, Was
    <2>3. /\ Tasks' = Tasks /\ tasks'[t].pc = "up"
          /\ \A u \in Tasks : u # t => tasks'[u] = tasks[u]
      BY <1>3, <2>1, TaskBecomes, TaskQuiet DEF Becomes
    <2>4. outcome \in [Calls -> {"none", "ok", "error"}]
      BY DEF Shape, TypeOK
    <2>5. \A d \in Calls : d # c => outcome'[d] = outcome[d]
      BY <2>1, <2>4
    <2>6. \A d \in Calls : outcome'[d] # "none" => Was(d)'
      BY <2>2, <2>5 DEF AskInv
    <2>7. ASSUME NEW u \in Tasks, tasks'[u].pc = "request"
          PROVE  /\ outcome'[tasks'[u].req] = "none" /\ Was(tasks[u].req)'
                 /\ \A v \in Tasks : tasks'[v].pc = "request" /\ tasks'[v].req = tasks'[u].req => v = u
      <3>1. u # t /\ tasks'[u] = tasks[u] /\ tasks[u].req # c
        BY <2>1, <2>3, <2>7 DEF AskInv
      <3>2. tasks[u].pc = "request" /\ tasks[u].req \in Calls
        BY <2>7, <3>1 DEF Shape, TypeOK, TaskOK
      <3>3. PICK d \in Calls : d = tasks[u].req
        BY <3>2
      <3>4. outcome'[d] = "none" /\ Was(d)'
        BY <2>2, <2>5, <3>1, <3>2, <3>3 DEF AskInv
      <3>5. tasks'[u].req = d /\ Was(tasks[u].req)'
        BY <3>1, <3>3, <3>4 DEF Was
      <3>6. \A v \in Tasks : tasks'[v].pc = "request" => v # t /\ tasks'[v] = tasks[v]
        BY <2>3
      <3>7. \A v \in Tasks : tasks'[v].pc = "request" /\ tasks'[v].req = d => v = u
        BY <3>2, <3>3, <3>6 DEF AskInv
      <3>8. QED
        BY <3>4, <3>5, <3>7
    <2>8. QED
      BY <2>3, <2>6, <2>7 DEF AskInv
  <1>4. QED
    BY <1>1, <1>2, <1>3, CalmSteps

(* Every step keeps AnswerInv: the answer that is there is that of the     *)
(* call its caller waits for.                                              *)
LEMMA AnswerStep == Shape /\ AskInv /\ AnswerInv /\ [Next]_vars => AnswerInv'
  <1> SUFFICES ASSUME Shape, AskInv, AnswerInv, [Next]_vars PROVE AnswerInv'
    OBVIOUS
  <1> DEFINE Out == {"none", "ok", "error", "refused", "timeout"}
             Waits(i) == inbox[i] # "none" =>
                           waiting[i] # 0 /\ outcome[<<i, waiting[i]>>] = inbox[i]
             Knows(i) == answer[i].out \in {"ok", "error"} =>
                           /\ answer[i].call # 0
                           /\ outcome[<<i, answer[i].call>>] = answer[i].out
  <1>0. \A i \in Callers : Waits(i) /\ Knows(i)
    BY DEF AnswerInv, OwnAnswer
  <1>a. SUFFICES ASSUME NEW i \in Callers PROVE Waits(i)' /\ Knows(i)'
    BY DEF AnswerInv, OwnAnswer
  <1>b. /\ inbox \in [Callers -> {"none", "ok", "error"}] /\ waiting \in [Callers -> 0 .. MaxCalls]
        /\ answer \in [Callers -> [call : 0 .. MaxCalls, out : Out]]
        /\ outcome \in [Calls -> {"none", "ok", "error"}]
    BY DEF Shape, TypeOK
  <1>c. \A n \in 0 .. MaxCalls : n # 0 => <<i, n>> \in Calls
    <2>1. \A n \in 0 .. MaxCalls : n # 0 => n \in 1 .. MaxCalls
      BY CallsAssumption
    <2>2. QED
      BY <2>1, CallParts
  <1>1. CASE UNCHANGED <<inbox, waiting, answer, outcome>>
    BY <1>0, <1>1
  <1>2. ASSUME NEW t \in Tasks, Reply(t) PROVE Waits(i)' /\ Knows(i)'
    <2>0. tasks[t].req \in Calls
      BY <1>2 DEF Reply, Shape, TypeOK, TaskOK
    <2> PICK c \in Calls : c = tasks[t].req
      BY <2>0
    <2>1. PICK out \in {"ok", "error"} : Deliver(c, out) /\ outcome' = [outcome EXCEPT ![c] = out]
      BY <1>2 DEF Reply
    <2>2. UNCHANGED <<waiting, answer>> /\ outcome[c] = "none"
      BY <1>2 DEF Reply, AskInv
    <2>3. /\ c = <<c[1], c[2]>> /\ c[1] \in Callers /\ c[2] # 0
      BY CallParts, CallsAssumption
    <2>4. outcome'[c] = out /\ \A d \in Calls : d # c => outcome'[d] = outcome[d]
      BY <1>b, <2>1
    <2>5. Knows(i)'
      <3>1. ASSUME answer[i].out \in {"ok", "error"}
            PROVE  outcome'[<<i, answer[i].call>>] = answer[i].out
        <4>1. /\ answer[i].call # 0 /\ answer[i].call \in 0 .. MaxCalls
              /\ outcome[<<i, answer[i].call>>] = answer[i].out
          BY <1>0, <1>b, <3>1
        <4>2. <<i, answer[i].call>> \in Calls /\ <<i, answer[i].call>> # c
          BY <1>c, <2>2, <3>1, <4>1
        <4>3. QED
          BY <2>4, <4>1, <4>2
      <3>2. QED
        BY <1>0, <2>2, <3>1
    <2>6. Waits(i)'
      <3>1. CASE i = c[1] /\ waiting[i] = c[2]
        <4>1. inbox'[i] = out
          BY <1>b, <2>1, <3>1 DEF Deliver
        <4>2. QED
          BY <2>2, <2>3, <2>4, <3>1, <4>1
      <3>2. CASE ~(i = c[1] /\ waiting[i] = c[2])
        <4>1. inbox'[i] = inbox[i]
          BY <1>b, <2>1, <3>2 DEF Deliver
        <4>2. ASSUME inbox[i] # "none" PROVE outcome'[<<i, waiting[i]>>] = inbox[i] /\ waiting[i] # 0
          <5>1. /\ waiting[i] # 0 /\ waiting[i] \in 0 .. MaxCalls
                /\ outcome[<<i, waiting[i]>>] = inbox[i]
            BY <1>0, <1>b, <4>2
          <5>2. <<i, waiting[i]>> \in Calls /\ <<i, waiting[i]>> # c
            BY <1>c, <2>2, <4>2, <5>1
          <5>3. QED
            BY <2>4, <5>1, <5>2
        <4>3. QED
          BY <2>2, <4>1, <4>2
      <3>3. QED
        BY <3>1, <3>2
    <2>7. QED
      BY <2>5, <2>6
  <1>3. ASSUME NEW j \in Callers, Answered(j) \/ TimedOut(j) PROVE Waits(i)' /\ Knows(i)'
    <2>1. PICK out \in {inbox[j], "timeout"} : Return(j, out) /\ (inbox[j] = "none" => out = "timeout")
      BY <1>3 DEF Answered, TimedOut
    <2>2. /\ answer' = [answer EXCEPT ![j] = [call |-> waiting[j], out |-> out]]
          /\ waiting' = [waiting EXCEPT ![j] = 0] /\ inbox' = [inbox EXCEPT ![j] = "none"]
          /\ UNCHANGED outcome /\ waiting[j] # 0
      BY <2>1 DEF Return
    <2>3. CASE i = j
      <3>1. inbox'[i] = "none" /\ answer'[i].call = waiting[i] /\ answer'[i].out = out
        BY <1>b, <2>2, <2>3
      <3>2. out \in {"ok", "error"} => outcome[<<i, waiting[i]>>] = out
        BY <1>0, <2>1, <2>3
      <3>3. QED
        BY <2>2, <2>3, <3>1, <3>2
    <2>4. CASE i # j
      <3>1. inbox'[i] = inbox[i] /\ waiting'[i] = waiting[i] /\ answer'[i] = answer[i]
        BY <1>b, <2>2, <2>4
      <3>2. QED
        BY <1>0, <2>2, <3>1
    <2>5. QED
      BY <2>3, <2>4
  <1>4. ASSUME NEW j \in Callers, ObsCallSync(j) PROVE Waits(i)' /\ Knows(i)'
    <2>1. /\ inbox' = [inbox EXCEPT ![j] = "none"] /\ UNCHANGED outcome
          /\ \/ answer' = answer /\ waiting' = [waiting EXCEPT ![j] = calls + 1]
             \/ /\ answer' = [answer EXCEPT ![j] = [call |-> calls + 1, out |-> "refused"]]
                /\ waiting' = waiting
      BY <1>4 DEF ObsCallSync
    <2>2. CASE i = j
      <3>1. inbox'[i] = "none" /\ (answer'[i] = answer[i] \/ answer'[i].out = "refused")
        BY <1>b, <2>1, <2>2
      <3>2. QED
        BY <1>0, <2>1, <3>1
    <2>3. CASE i # j
      <3>1. inbox'[i] = inbox[i] /\ waiting'[i] = waiting[i] /\ answer'[i] = answer[i]
        BY <1>b, <2>1, <2>3
      <3>2. QED
        BY <1>0, <2>1, <3>1
    <2>4. QED
      BY <2>2, <2>3
  <1>5. QED
    BY <1>1, <1>2, <1>3, <1>4
    DEF Next, CallerStep, TaskStep, ChangeConfig, Sync, Start, Stop, ObsCall, Connect, Recv,
        Disconnect, End, vars, callerVars

(* Every step keeps DoneInv: a task that ended is no caller's, and none    *)
(* will be given it.                                                       *)
LEMMA DoneStep == Shape /\ DoneInv /\ [Next]_vars => DoneInv'
  <1> SUFFICES ASSUME Shape, DoneInv, [Next]_vars PROVE DoneInv'
    OBVIOUS
  <1>0. Tasks = 1 .. Len(tasks) /\ Len(tasks) \in Nat /\ view \in [Callers -> Nat]
    BY ShapeParts
  <1>1. ASSUME UNCHANGED <<cfg, view>>, Len(tasks') = Len(tasks), Tasks' = Tasks,
               \A t \in Tasks : tasks'[t].pc = "done" => tasks[t].pc = "done" \/ Orphan(t)
        PROVE  DoneInv'
    <2>1. \A t \in Tasks : tasks'[t].pc = "done" => Orphan(t)
      BY <1>1 DEF DoneInv
    <2>2. \A t \in Tasks : Orphan(t) => Orphan(t)'
      BY <1>1 DEF Orphan, Holders, Current
    <2>3. QED
      BY <1>1, <2>1, <2>2 DEF DoneInv
  <1>2. ASSUME NEW c, Sync(c) PROVE DoneInv'
    <2>1. /\ Len(tasks') \in {Len(tasks), Len(tasks) + 1} /\ UNCHANGED view /\ cfg' = c
          /\ c # Removed => Len(tasks') = Len(tasks) + 1
          /\ \A t \in Tasks' : (t \in Tasks /\ tasks'[t] = tasks[t]) \/ tasks'[t].pc = "connect"
      BY <1>2, ConnectionAdded, FreshOK DEF Sync, callerVars
    <2>2. \A t \in Tasks : Orphan(t) => Orphan(t)'
      BY <1>0, <2>1 DEF Orphan, Holders, Current
    <2>3. QED
      BY <2>1, <2>2 DEF DoneInv
  <1>3. ASSUME NEW i \in Callers, Start(i) \/ Stop(i) PROVE DoneInv'
    <2>1. UNCHANGED <<cfg, tasks>> /\ \E v \in {0, Current} : view' = [view EXCEPT ![i] = v]
      BY <1>3 DEF Start, Stop
    <2>2. \A t \in Tasks : Orphan(t) => Orphan(t)'
      BY <1>0, <2>1 DEF Orphan, Holders, Current
    <2>3. Tasks' = Tasks
      BY <2>1 DEF Tasks
    <2>4. QED
      BY <2>1, <2>2, <2>3 DEF DoneInv
  <1>4. ASSUME NEW i \in Callers, ObsCall(i) \/ ObsCallSync(i) PROVE DoneInv'
    <2>1. /\ MayCall(i) /\ UNCHANGED <<cfg, view>>
          /\ tasks' = tasks \/ (view[i] # 0 /\ Fits(view[i]) /\ Enqueue(i))
      BY <1>4 DEF ObsCall, ObsCallSync
    <2>2. CASE tasks' = tasks
      BY <1>1, <2>1, <2>2 DEF Tasks
    <2>3. CASE view[i] # 0 /\ Fits(view[i]) /\ Enqueue(i)
      <3>1. calls < MaxCalls
        BY <2>1 DEF MayCall
      <3>2. /\ Tasks' = Tasks /\ Len(tasks') = Len(tasks)
            /\ tasks'[view[i]] = [pc |-> tasks[view[i]].pc, req |-> tasks[view[i]].req,
                                  queue |-> Append(Queue(view[i]), <<i, calls + 1>>)]
            /\ \A u \in Tasks : u # view[i] => tasks'[u] = tasks[u]
        BY <2>3, <3>1, RequestAdded
      <3>3. \A u \in Tasks : tasks'[u].pc = tasks[u].pc
        BY <3>2
      <3>4. QED
        BY <1>1, <2>1, <3>2, <3>3
    <2>4. QED
      BY <2>1, <2>2, <2>3
  <1>5. ASSUME NEW t \in Tasks, Connect(t) \/ Disconnect(t) \/ End(t) \/ Reply(t) PROVE DoneInv'
    <2>1. /\ tasks[t].req \in Calls \cup {NoReq} /\ NoReq \in Calls \cup {NoReq}
          /\ UNCHANGED <<asked, calls, view, stage>> \/ Reply(t)
          /\ UNCHANGED <<cfg, view>>
      BY <1>5, ShapeParts DEF Task, Connect, Disconnect, End, Reply, callerVars
    <2>2. UNCHANGED <<asked, calls, view, stage>>
      BY <2>1 DEF Reply
    <2>3. PICK pc \in {"connect", "up", "done"}, req \in {NoReq, tasks[t].req} :
            Becomes(t, pc, req) /\ (pc = "done" => Orphan(t))
      BY <1>5, TaskBecomes
    <2>4. /\ Tasks' = Tasks /\ Len(tasks') = Len(tasks) /\ tasks'[t].pc = pc
          /\ \A u \in Tasks : u # t => tasks'[u] = tasks[u]
      BY <2>1, <2>2, <2>3, TaskQuiet DEF Becomes
    <2>5. QED
      BY <1>1, <2>1, <2>3, <2>4
  <1>6. ASSUME NEW t \in Tasks, Recv(t) PROVE DoneInv'
    <2>1. /\ Tasks' = Tasks /\ Len(tasks') = Len(tasks) /\ tasks'[t].pc = "request"
          /\ \A u \in Tasks : u # t => tasks'[u] = tasks[u]
          /\ UNCHANGED <<cfg, view>>
      BY <1>6, RecvHands DEF Handed, callerVars
    <2>2. QED
      BY <1>1, <2>1
  <1>7. CASE UNCHANGED <<cfg, view, tasks>>
    BY <1>1, <1>7 DEF Tasks
  <1>8. QED
    BY <1>2, <1>3, <1>4, <1>5, <1>6, <1>7
    DEF Next, CallerStep, TaskStep, ChangeConfig, Answered, TimedOut, Return, vars, callerVars

(* Shape, by the variables the steps change.                               *)
ConfigType == /\ cfg \in Settings \cup {Removed} /\ changes \in 0 .. MaxChanges
              /\ Len(tasks) <= changes + 1 /\ (cfg # Removed => tasks # <<>>)

TasksType == tasks \in Seq(Task) /\ \A t \in Tasks : TaskOK(tasks[t])

CallerType ==
  /\ view \in [Callers -> 0 .. Len(tasks)] /\ stage \in [Callers -> {"new", "on", "gone"}]
  /\ calls \in 0 .. MaxCalls /\ waiting \in [Callers -> 0 .. MaxCalls]
  /\ inbox \in [Callers -> {"none", "ok", "error"}]
  /\ answer \in [Callers -> [call : 0 .. MaxCalls,
                             out : {"none", "ok", "error", "refused", "timeout"}]]

AskType == asked \in Seq(Calls) /\ outcome \in [Calls -> {"none", "ok", "error"}]

(* Types, in the parts ShapeStep treats.                                   *)
LEMMA ShapeSplit == Shape <=> ConfigType /\ TasksType /\ CallerType /\ AskType
  <1>1. Shape => ConfigType /\ TasksType /\ CallerType /\ AskType
    BY DEF Shape, TypeOK, ConfigType, TasksType, CallerType, AskType
  <1>2. ASSUME ConfigType, TasksType, CallerType, AskType PROVE Shape
    <2>1. Len(tasks) \in Nat
      BY <1>2 DEF TasksType
    <2>2. Len(tasks) <= MaxChanges + 1
      BY <1>2, <2>1, CallsAssumption DEF ConfigType
    <2>3. QED
      BY <1>2, <2>2 DEF Shape, TypeOK, ConfigType, TasksType, CallerType, AskType
  <1>3. QED
    BY <1>1, <1>2

(* Types are kept.                                                         *)
LEMMA ShapeStep == Shape /\ HomeInv /\ [Next]_vars => Shape'
  <1> SUFFICES ASSUME Shape, HomeInv, [Next]_vars PROVE Shape'
    OBVIOUS
  <1>0. ConfigType /\ TasksType /\ CallerType /\ AskType /\ Len(tasks) \in Nat
        /\ Tasks = 1 .. Len(tasks)
    BY ShapeSplit, ShapeParts
  <1>a. (ConfigType /\ TasksType /\ CallerType /\ AskType)' => Shape'
    BY ShapeSplit, PTL
  <1>b. ASSUME Len(tasks') = Len(tasks), UNCHANGED <<cfg, changes>> PROVE ConfigType'
    BY <1>0, <1>b DEF ConfigType, TasksType
  <1>c. ASSUME Len(tasks') = Len(tasks), UNCHANGED callerVars PROVE CallerType'
    BY <1>0, <1>c DEF CallerType, callerVars
  <1>d. ASSUME NEW t \in Tasks, NEW r, TaskOK(r), tasks'[t] = r, tasks' \in Seq(Task), Tasks' = Tasks,
               \A u \in Tasks : u # t => tasks'[u] = tasks[u]
        PROVE  TasksType'
    BY <1>0, <1>d DEF TasksType
  <1>1. ASSUME ChangeConfig PROVE Shape'
    <2>1. PICK c \in (Settings \cup {Removed}) \ {cfg} : changes < MaxChanges /\ Sync(c)
      BY <1>1 DEF ChangeConfig
    <2>2. /\ tasks' \in Seq(Task) /\ Len(tasks') \in {Len(tasks), Len(tasks) + 1}
          /\ \A t \in Tasks' : (t \in Tasks /\ tasks'[t] = tasks[t]) \/ tasks'[t] = Fresh
          /\ c # Removed => Len(tasks') = Len(tasks) + 1
          /\ cfg' = c /\ changes' = changes + 1 /\ UNCHANGED <<callerVars, asked, outcome>>
      BY <2>1, ConnectionAdded DEF Sync
    <2>3. TasksType'
      BY <1>0, <2>2, FreshOK DEF TasksType
    <2>4. ConfigType'
      <3>1. changes \in Nat /\ changes' \in 0 .. MaxChanges
        BY <1>0, <2>1, <2>2, CallsAssumption DEF ConfigType
      <3>2. Len(tasks') <= changes' + 1
        BY <1>0, <2>2, <3>1 DEF ConfigType
      <3>3. c # Removed => tasks' # <<>>
        BY <1>0, <2>2
      <3>4. QED
        BY <2>1, <2>2, <3>1, <3>2, <3>3 DEF ConfigType
    <2>5. CallerType'
      <3>1. \A n \in 0 .. Len(tasks) : n \in 0 .. Len(tasks')
        BY <1>0, <2>2
      <3>2. view' \in [Callers -> 0 .. Len(tasks')]
        BY <1>0, <2>2, <3>1 DEF CallerType, callerVars
      <3>3. QED
        BY <1>0, <2>2, <3>2 DEF CallerType, callerVars
    <2>6. QED
      BY <1>0, <1>a, <2>2, <2>3, <2>4, <2>5 DEF AskType
  <1>2. ASSUME NEW i \in Callers, Start(i) \/ Stop(i) PROVE Shape'
    <2>1. /\ UNCHANGED <<cfg, changes, tasks, calls, waiting, inbox, answer, asked, outcome>>
          /\ \E v \in {0, Current} : view' = [view EXCEPT ![i] = v]
          /\ \E st \in {"on", "gone"} : stage' = [stage EXCEPT ![i] = st]
      BY <1>2 DEF Start, Stop
    <2>2. Current \in 0 .. Len(tasks)
      BY <1>0 DEF Current
    <2>3. CallerType'
      BY <1>0, <2>1, <2>2 DEF CallerType
    <2>4. QED
      BY <1>0, <1>a, <1>b, <2>1, <2>3 DEF TasksType, AskType, Tasks
  <1>3. ASSUME NEW i \in Callers, Answered(i) \/ TimedOut(i) PROVE Shape'
    <2>1. PICK out \in {"ok", "error", "timeout"} : Return(i, out)
      BY <1>0, <1>3 DEF Answered, TimedOut, CallerType
    <2>2. /\ UNCHANGED <<cfg, changes, tasks, view, stage, calls, asked, outcome>>
          /\ answer' = [answer EXCEPT ![i] = [call |-> waiting[i], out |-> out]]
          /\ waiting' = [waiting EXCEPT ![i] = 0] /\ inbox' = [inbox EXCEPT ![i] = "none"]
      BY <2>1 DEF Return
    <2>3. 0 \in 0 .. MaxCalls /\ waiting[i] \in 0 .. MaxCalls
      BY <1>0, CallsAssumption DEF CallerType
    <2>4. CallerType'
      BY <1>0, <2>2, <2>3 DEF CallerType
    <2>5. QED
      BY <1>0, <1>a, <1>b, <2>2, <2>4 DEF TasksType, AskType, Tasks
  <1>4. ASSUME NEW i \in Callers, ObsCall(i) \/ ObsCallSync(i) PROVE Shape'
    <2>1. /\ MayCall(i) /\ UNCHANGED <<cfg, changes, view, stage, asked, outcome>>
          /\ calls' = calls + 1
          /\ tasks' = tasks \/ (view[i] # 0 /\ Fits(view[i]) /\ Enqueue(i))
      BY <1>4 DEF ObsCall, ObsCallSync
    <2>2. calls < MaxCalls /\ calls + 1 \in 0 .. MaxCalls
      BY <1>0, <2>1, CallsAssumption DEF MayCall, CallerType
    <2>3. TasksType' /\ Len(tasks') = Len(tasks)
      <3>1. CASE tasks' = tasks
        BY <1>0, <3>1 DEF TasksType, Tasks
      <3>2. CASE view[i] # 0 /\ Fits(view[i]) /\ Enqueue(i)
        <4> DEFINE r == [pc |-> tasks[view[i]].pc, req |-> tasks[view[i]].req,
                         queue |-> Append(Queue(view[i]), <<i, calls + 1>>)]
        <4>1. /\ view[i] \in Tasks /\ Tasks' = Tasks /\ tasks' \in Seq(Task) /\ <<i, calls + 1>> \in Calls
              /\ tasks'[view[i]] = r /\ \A u \in Tasks : u # view[i] => tasks'[u] = tasks[u]
              /\ Len(tasks') = Len(tasks) /\ Len(Queue(view[i])) < QueueCap
          BY <2>2, <3>2, RequestAdded
        <4>2. Queue(view[i]) \in Seq(Calls) /\ TaskOK(tasks[view[i]])
          BY <1>0, <4>1, ShapeParts DEF TasksType
        <4>3. /\ Append(Queue(view[i]), <<i, calls + 1>>) \in Seq(Calls)
              /\ Len(Append(Queue(view[i]), <<i, calls + 1>>)) <= QueueCap
          BY <4>1, <4>2, QueueAssumption
        <4>4. TaskOK(r)
          BY <4>2, <4>3 DEF TaskOK
        <4>5. QED
          BY <1>d, <4>1, <4>4
      <3>3. QED
        BY <2>1, <3>1, <3>2
    <2>4. CallerType'
      <3>1. /\ waiting' = waiting \/ waiting' = [waiting EXCEPT ![i] = calls + 1]
            /\ inbox' = inbox \/ inbox' = [inbox EXCEPT ![i] = "none"]
            /\ answer' = answer
               \/ answer' = [answer EXCEPT ![i] = [call |-> calls + 1, out |-> "refused"]]
        BY <1>4 DEF ObsCall, ObsCallSync
      <3>2. waiting' \in [Callers -> 0 .. MaxCalls]
        BY <1>0, <2>2, <3>1 DEF CallerType
      <3>3. inbox' \in [Callers -> {"none", "ok", "error"}]
        BY <1>0, <3>1 DEF CallerType
      <3>4. answer' \in [Callers -> [call : 0 .. MaxCalls,
                                    out : {"none", "ok", "error", "refused", "timeout"}]]
        <4> DEFINE Answer == [call : 0 .. MaxCalls,
                              out : {"none", "ok", "error", "refused", "timeout"}]
        <4>1. [call |-> calls + 1, out |-> "refused"] \in Answer
          BY <2>2
        <4>2. answer \in [Callers -> Answer]
          BY <1>0 DEF CallerType
        <4> HIDE DEF Answer
        <4>3. answer' \in [Callers -> Answer]
          BY <3>1, <4>1, <4>2
        <4>4. QED
          BY <4>3 DEF Answer
      <3>5. /\ view' \in [Callers -> 0 .. Len(tasks')] /\ stage' \in [Callers -> {"new", "on", "gone"}]
            /\ calls' \in 0 .. MaxCalls
        BY <1>0, <2>1, <2>2, <2>3 DEF CallerType
      <3>6. QED
        BY <3>2, <3>3, <3>4, <3>5 DEF CallerType
    <2>5. QED
      BY <1>0, <1>a, <1>b, <2>1, <2>3, <2>4 DEF AskType
  <1>5. ASSUME NEW t \in Tasks, Connect(t) \/ Disconnect(t) \/ End(t) \/ Reply(t) PROVE Shape'
    <2>1. /\ UNCHANGED <<cfg, changes, asked, calls, view, stage, waiting, answer>>
          /\ TaskOK(tasks[t]) /\ tasks[t] \in Task
      BY <1>0, <1>5, ShapeParts DEF TasksType, Connect, Disconnect, End, Reply, callerVars
    <2>2. PICK pc \in {"connect", "up", "done"}, req \in {NoReq, tasks[t].req} :
            Becomes(t, pc, req) /\ req = NoReq
      BY <1>5, <2>1, TaskBecomes DEF TaskOK
    <2>3. TaskOK([pc |-> pc, queue |-> Queue(t), req |-> NoReq])
      BY <2>1 DEF TaskOK, Queue
    <2>4. /\ tasks' = [tasks EXCEPT ![t] = [pc |-> pc, queue |-> Queue(t), req |-> NoReq]]
          /\ [pc |-> pc, queue |-> Queue(t), req |-> NoReq] \in Task
      BY <2>1, <2>2 DEF Becomes, Task, Queue
    <2>5. /\ tasks' \in Seq(Task) /\ Tasks' = Tasks /\ Len(tasks') = Len(tasks)
          /\ tasks'[t] = [pc |-> pc, queue |-> Queue(t), req |-> NoReq]
          /\ \A u \in Tasks : u # t => tasks'[u] = tasks[u]
      BY <2>4, TaskChanged
    <2>6. TasksType'
      BY <1>d, <2>3, <2>5
    <2>7. inbox' \in [Callers -> {"none", "ok", "error"}] /\ outcome' \in [Calls -> {"none", "ok", "error"}]
      <3>1. CASE Reply(t)
        <4>1. PICK out \in {"ok", "error"} :
                /\ inbox' = inbox \/ inbox' = [inbox EXCEPT ![tasks[t].req[1]] = out]
                /\ outcome' = [outcome EXCEPT ![tasks[t].req] = out]
          BY <3>1 DEF Reply, Deliver
        <4>2. inbox \in [Callers -> {"none", "ok", "error"}] /\ outcome \in [Calls -> {"none", "ok", "error"}]
          BY <1>0 DEF CallerType, AskType
        <4>3. QED
          BY <4>1, <4>2
      <3>2. CASE Connect(t) \/ Disconnect(t) \/ End(t)
        BY <1>0, <3>2 DEF Connect, Disconnect, End, callerVars, CallerType, AskType
      <3>3. QED
        BY <1>5, <3>1, <3>2
    <2>8. CallerType' /\ AskType'
      BY <1>0, <2>1, <2>5, <2>7 DEF CallerType, AskType
    <2>9. QED
      BY <1>a, <1>b, <2>1, <2>5, <2>6, <2>8
  <1>6. ASSUME NEW t \in Tasks, Recv(t) PROVE Shape'
    <2>1. /\ Handed(t) /\ tasks' \in Seq(Task) /\ Len(tasks') = Len(tasks)
          /\ UNCHANGED <<cfg, changes, callerVars, outcome>>
      BY <1>6, RecvHands
    <2>2. /\ asked' = Append(asked, Queue(t)[1]) /\ Queue(t)[1] \in Calls /\ Tasks' = Tasks
          /\ tasks'[t].pc = "request" /\ tasks'[t].req = Queue(t)[1]
          /\ \A u \in Tasks : u # t => tasks'[u] = tasks[u]
          /\ Queue(t)' \in Seq(Calls) /\ Len(Queue(t)') = Len(Queue(t)) - 1
      BY <2>1 DEF Handed
    <2>3. Len(Queue(t)) \in Nat /\ Len(Queue(t)) <= QueueCap
      BY <1>0, ShapeParts DEF TasksType, TaskOK, Queue
    <2>4. Len(Queue(t)') <= QueueCap
      BY <2>2, <2>3, QueueAssumption
    <2>5. TaskOK(tasks'[t])
      BY <2>2, <2>4, CallParts DEF TaskOK, Queue
    <2>6. TasksType'
      BY <1>d, <2>1, <2>2, <2>5
    <2>7. AskType'
      BY <1>0, <2>1, <2>2 DEF AskType
    <2>8. QED
      BY <1>a, <1>b, <1>c, <2>1, <2>6, <2>7
  <1>7. CASE UNCHANGED vars
    BY <1>0, <1>a, <1>b, <1>c, <1>7 DEF vars, TasksType, AskType, Tasks
  <1>8. QED
    BY <1>1, <1>2, <1>3, <1>4, <1>5, <1>6, <1>7 DEF Next, CallerStep, TaskStep

(* The inductive invariant holds throughout: where the requests of         *)
(* run_connection (obs.rs:123-250) and of its callers (route.rs:1130-1195) *)
(* are.                                                                    *)
THEOREM Invariant == Spec => []IInv
  <1>1. IInv /\ [Next]_vars => IInv'
    BY ShapeStep, HomeStep, OrderStep, AskStep, AnswerStep, DoneStep DEF IInv
  <1>2. QED
    BY IInvInit, <1>1, PTL DEF Spec

-----------------------------------------------------------------------------
(* Every state is well typed; no queue of requests holds more than its     *)
(* capacity (mpsc::channel of run_connection), and a task has a request in *)
(* hand exactly while it waits for the answer of OBS.                      *)
THEOREM TypeCorrect == Spec => []TypeOK
  <1>1. IInv => TypeOK
    BY DEF IInv, Shape
  <1>2. QED
    BY <1>1, Invariant, PTL

(* OBS is handed the requests of each route in the order of its calls and  *)
(* none twice, whatever connections are lost, changed or removed meanwhile *)
(* (run_connection, handle_request, ObsManager::sync).                     *)
THEOREM CallsInOrder == Spec => []InOrder
  <1>1. IInv => InOrder
    <2>1. ASSUME Shape PROVE DOMAIN asked = 1 .. Len(asked)
      BY <2>1, ShapeParts
    <2>2. QED
      BY <2>1 DEF IInv, OrderInv, Rises, InOrder
  <1>2. QED
    BY <1>1, Invariant, PTL

(* obs_call_sync returns the answer to its own request, never one that     *)
(* comes late for a call that timed out before it (register_obs_fns).      *)
THEOREM AnswersMatch == Spec => []OwnAnswer
  <1>1. IInv => OwnAnswer
    BY DEF IInv, AnswerInv
  <1>2. QED
    BY <1>1, Invariant, PTL

(* A route that has a connection has one whose task runs, whatever became  *)
(* of the connection's section since (sender_map, run_connection).         *)
THEOREM TasksOutliveCallers == Spec => []CallersHaveTask
  <1>1. ASSUME IInv PROVE CallersHaveTask
    <2>1. SUFFICES ASSUME NEW i \in Callers, view[i] # 0, tasks[view[i]].pc = "done" PROVE FALSE
      BY DEF CallersHaveTask
    <2>2. view[i] \in Tasks /\ i \in Holders(view[i])
      BY <1>1, <2>1, ShapeParts DEF IInv, Holders
    <2>3. QED
      BY <1>1, <2>1, <2>2 DEF IInv, DoneInv, Orphan
  <1>2. QED
    BY <1>1, Invariant, PTL
=============================================================================
