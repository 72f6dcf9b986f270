------------------------ MODULE RouteInstanceProofs ------------------------
(***************************************************************************)
(* Safety of one route instance for every channel capacity, every width of *)
(* the tick counter and every set of tempi: the hooks and the tick stream, *)
(* which rest on the permits of the channel and the life of the timer.     *)
(***************************************************************************)
EXTENDS RouteInstance, TLAPS

-----------------------------------------------------------------------------
(* The inductive invariant, by parts.                                      *)

(* The receiver lives as long as the loop; what it held goes with it.      *)
ReceiverInv == /\ rxOpen <=> lpc # "done"
               /\ ~rxOpen => queue = <<>>

(* Permits: the channel promises no more than its capacity, and while the  *)
(* timer thread waits for one there is none to take.                       *)
PermitsInv ==
  /\ Free >= 0
  /\ tpc = "waiting" => rxOpen /\ Free = 0

(* The timer thread, which holds a sender, is there as long as its loop.   *)
TimerInv == lpc # "done" => tpc # "done" /\ running

(* The hooks that have run follow from the place of the loop thread.       *)
HooksInv ==
  /\ lpc = "load" => hooks = {}
  /\ lpc \in {"recv", "handle", "hook"} => hooks = {"on_startup"}
  /\ HooksPaired

(* The number of the next tick the loop receives.                          *)
Handling == lpc = "handle" /\ cur.kind = "Timer"
NextOut  == IF Handling THEN Succ(expected) ELSE expected

(* c[i] is the number of the tick that follows the first i events.         *)
Chain(q, from, to, c) ==
  /\ c \in [0 .. Len(q) -> 0 .. TickMod - 1]
  /\ c[0] = from /\ c[Len(q)] = to
  /\ \A i \in 1 .. Len(q) :
        IF q[i].kind = "Timer"
        THEN q[i].tick = c[i - 1] /\ c[i] = Succ(c[i - 1])
        ELSE c[i] = c[i - 1]

IsChain(q, from, to) ==
  \E c \in [0 .. Len(q) -> 0 .. TickMod - 1] : Chain(q, from, to, c)

TickInv ==
  /\ Handling => cur.tick = expected
  /\ rxOpen => IsChain(queue, NextOut, tick)

Safety == TypeOK /\ PermitsInv /\ ReceiverInv /\ TimerInv /\ HooksInv

IInv == Safety /\ TickInv

-----------------------------------------------------------------------------
(* Succ stays within the width of the counter.                             *)
LEMMA SuccType == \A n \in 0 .. TickMod - 1 : Succ(n) \in 0 .. TickMod - 1
  BY TickModAssumption, SMT DEF Succ

(* A tempo a script sets is stored as a natural number of hundredths.      *)
LEMMA SetBpmType == \A b \in BpmArgs : set_bpm(b) \in Nat
  BY BpmAssumption, SMT DEF set_bpm, Clamp

(* What producers, the timer and main put into the channel are events.     *)
LEMMA EventTypes == /\ \A n \in 0 .. TickMod - 1 : Tick(n) \in Events
                    /\ \A k \in Inputs : Event(k) \in Events
                    /\ Event("Shutdown") \in Events
  BY TickModAssumption, SMT DEF Tick, Event, Events, Inputs

-----------------------------------------------------------------------------
(* Safety holds initially.                                                 *)
LEMMA SafetyInit == Init => Safety
  BY CapAssumption, TickModAssumption, BpmAssumption, SMT
  DEF Init, Safety, TypeOK, PermitsInv, ReceiverInv, TimerInv,
      HooksInv, HooksPaired, Free, Events, NoEvent, Event, Holders

(* However the loop thread ends, it leaves the channel and the timer       *)
(* thread in order.                                                        *)
LEMMA ExitStep ==
  ASSUME Safety, ExitLoop,
         hooks' \in {{}, {"on_startup", "on_shutdown"}}
  PROVE  Safety'
  <1> USE DEF Safety, ExitLoop, mainVars
  <1>1. TypeOK'
    <2>1. queue' \in Seq(Events) /\ Len(queue') = 0
      BY SMT
    <2>2. hooks' \subseteq {"on_startup", "on_shutdown"}
      OBVIOUS
    <2>3. running' \in BOOLEAN /\ rxOpen' \in BOOLEAN
      BY DEF TypeOK
    <2>4. QED
      BY <2>1, <2>2, <2>3, CapAssumption, SMT DEF TypeOK
  <1>2. PermitsInv'
    BY CapAssumption, SMT DEF TypeOK, PermitsInv, Free
  <1>3. ReceiverInv' /\ TimerInv' /\ HooksInv'
    BY DEF ReceiverInv, TimerInv, HooksInv, HooksPaired
  <1>4. QED
    BY <1>1, <1>2, <1>3

(* Every step keeps Safety: one case for each action of the four kinds of  *)
(* thread.                                                                 *)
LEMMA SafetyStep == Safety /\ [Next]_vars => Safety'
  <1> SUFFICES ASSUME Safety, [Next]_vars PROVE Safety'
    OBVIOUS
  <1> USE CapAssumption, TickModAssumption
      DEF Safety, TypeOK, PermitsInv, ReceiverInv, TimerInv,
          HooksInv, HooksPaired, Free, CanSend, loopVars, mainVars, timerVars
  <1>1. CASE TimerCheck
    BY <1>1, SMT DEF TimerCheck
  <1>2. CASE TimerSend
    <2>1. tick \in 0 .. TickMod - 1 /\ queue' = Append(queue, Tick(tick))
      BY <1>2 DEF TimerSend
    <2>2. queue' \in Seq(Events) /\ Len(queue') = Len(queue) + 1
      BY <2>1, EventTypes
    <2>3. tick' \in 0 .. TickMod - 1
      BY <1>2, SuccType DEF TimerSend
    <2>4. QED
      BY <1>2, <2>2, <2>3, SMTT(30) DEF TimerSend
  <1>3. CASE TimerBlock
    BY <1>3, SMT DEF TimerBlock
  <1>4. CASE TimerClosed
    BY <1>4, SMT DEF TimerClosed
  <1>5. CASE TimerGranted
    <2>1. /\ tick \in 0 .. TickMod - 1
          /\ queue' = IF rxOpen THEN Append(queue, Tick(tick)) ELSE queue
      BY <1>5 DEF TimerGranted
    <2>2. /\ queue' \in Seq(Events)
          /\ Len(queue') = IF rxOpen THEN Len(queue) + 1 ELSE Len(queue)
      BY <2>1, EventTypes
    <2>3. tick' \in 0 .. TickMod - 1
      BY <1>5, SuccType DEF TimerGranted
    <2>4. QED
      BY <1>5, <2>2, <2>3, SMTT(30) DEF TimerGranted
  <1>6. CASE TimerWake
    BY <1>6, SMT DEF TimerWake
  <1>7. CASE LoadError
    BY <1>7, ExitStep DEF LoadError
  <1>8. CASE Startup
    BY <1>8, SetBpmType, SMT DEF Startup, Callback
  <1>9. CASE Recv
    BY <1>9, SMT DEF Recv
  <1>10. CASE Handle
    <2>1. expected' \in 0 .. TickMod - 1
      BY <1>10, SuccType, SMT DEF Handle, NoEvent, Event, Events
    <2>2. bpm' \in Nat
      BY <1>10, SetBpmType, SMT DEF Handle, Callback
    <2>3. QED
      BY <1>10, <2>1, <2>2, SMT DEF Handle
  <1>11. CASE HandleShutdown
    BY <1>11, SMT DEF HandleShutdown
  <1>12. CASE Shutdown
    BY <1>12, ExitStep DEF Shutdown
  <1>13. CASE Drop
    BY <1>13, SMT DEF Drop, DropRoute
  <1>14. CASE AskShutdown
    <2> DEFINE reserved == IF tpc = "granted" THEN 1 ELSE 0
    <2>0. \/ rxOpen /\ Free > 0 /\ queue' = Append(queue, Event("Shutdown"))
          \/ queue' = queue
      BY <1>14 DEF AskShutdown
    <2>1. queue' \in Seq(Events) /\ Len(queue') <= Cap - reserved
      <3>1. Len(queue) <= Cap - reserved
        BY SMT
      <3>2. CASE queue' = queue
        BY <3>1, <3>2
      <3>3. CASE Free > 0 /\ queue' = Append(queue, Event("Shutdown"))
        <4>1. queue' \in Seq(Events) /\ Len(queue') = Len(queue) + 1
          BY <3>3, EventTypes, SMT
        <4>2. Len(queue) + 1 <= Cap - reserved
          BY <3>3, SMT
        <4>3. QED
          BY <4>1, <4>2
      <3>4. QED
        BY <2>0, <3>2, <3>3
    <2>2. tpc = "waiting" => queue' = queue
      BY <2>0, SMT
    <2>3. ~rxOpen => queue' = <<>>
      BY <2>0
    <2>4. running' \in BOOLEAN /\ (lpc # "done" => running')
      BY <1>14 DEF AskShutdown, DropRoute
    <2>5. senders' \subseteq Holders
      BY <1>14 DEF AskShutdown, DropRoute
    <2>6. UNCHANGED <<tpc, rxOpen, tick, lpc, cur, expected, hooks, bpm>> /\ mpc' = "joining"
      BY <1>14 DEF AskShutdown
    <2>7. PermitsInv'
      <3>1. Free' = Cap - Len(queue') - reserved
        BY <2>6
      <3>2. Free' >= 0
        BY <3>1, <2>1, SMT
      <3>3. tpc' = "waiting" => rxOpen' /\ Free' = 0
        BY <3>1, <2>2, <2>6
      <3>4. QED
        BY <3>2, <3>3
    <2>8. TypeOK'
      <3>1. Len(queue') <= Cap
        BY <2>1, SMT
      <3>2. QED
        BY <3>1, <2>1, <2>4, <2>5, <2>6
    <2>9. ReceiverInv' /\ TimerInv' /\ HooksInv'
      BY <2>3, <2>4, <2>6
    <2>10. QED
      BY <2>7, <2>8, <2>9
  <1>15. CASE Join
    BY <1>15, SMT DEF Join
  <1>16. ASSUME NEW h \in Holders, DropInjector(h) PROVE Safety'
    BY <1>16, SMT DEF DropInjector
  <1>17. ASSUME NEW k \in Inputs, Inject(k) PROVE Safety'
    BY <1>17, EventTypes, SMT DEF Inject
  <1>18. CASE UNCHANGED vars
    BY <1>18, SMT DEF vars
  <1>19. QED
    BY <1>1, <1>2, <1>3, <1>4, <1>5, <1>6, <1>7, <1>8, <1>9, <1>10, <1>11,
       <1>12, <1>13, <1>14, <1>15, <1>16, <1>17, <1>18
    DEF Next, TimerStep, LoopStep, MainStep

-----------------------------------------------------------------------------
(* The chain of tick numbers: what a send does at its end and a receive at *)
(* its front.                                                              *)

(* An empty queue is a chain of the one number that both ends share.       *)
LEMMA ChainEmpty ==
  ASSUME NEW n \in 0 .. TickMod - 1
  PROVE  IsChain(<<>>, n, n)
  <1> DEFINE c == [i \in 0 .. 0 |-> n]
  <1>1. c \in [0 .. Len(<<>>) -> 0 .. TickMod - 1]
    BY SMT
  <1>2. Chain(<<>>, n, n, c)
    BY <1>1, SMT DEF Chain
  <1>3. QED
    BY <1>1, <1>2 DEF IsChain

(* An event that is not a tick leaves the chain as it is; a tick numbered  *)
(* with the last link extends it by one.                                   *)
LEMMA ChainAppend ==
  ASSUME NEW q \in Seq(Events), NEW from \in 0 .. TickMod - 1,
         NEW to \in 0 .. TickMod - 1, IsChain(q, from, to), NEW e \in Events,
         e.kind = "Timer" => e.tick = to
  PROVE  IsChain(Append(q, e), from,
                 IF e.kind = "Timer" THEN Succ(to) ELSE to)
  <1> DEFINE r  == Append(q, e)
             to2 == IF e.kind = "Timer" THEN Succ(to) ELSE to
  <1>1. PICK c \in [0 .. Len(q) -> 0 .. TickMod - 1] : Chain(q, from, to, c)
    BY DEF IsChain
  <1> DEFINE d == [i \in 0 .. Len(q) + 1 |-> IF i = Len(q) + 1 THEN to2 ELSE c[i]]
  <1>2. /\ r \in Seq(Events) /\ Len(q) \in Nat /\ Len(r) = Len(q) + 1
        /\ r[Len(q) + 1] = e
        /\ \A i \in 1 .. Len(q) : r[i] = q[i]
    BY SMT
  <1>3. to2 \in 0 .. TickMod - 1
    BY SuccType
  <1>4. d \in [0 .. Len(r) -> 0 .. TickMod - 1]
    BY <1>2, <1>3, SMT
  <1>5. d[0] = from /\ d[Len(r)] = to2
    BY <1>1, <1>2, SMT DEF Chain
  <1>6. ASSUME NEW i \in 1 .. Len(r)
        PROVE  IF r[i].kind = "Timer"
               THEN r[i].tick = d[i - 1] /\ d[i] = Succ(d[i - 1])
               ELSE d[i] = d[i - 1]
    <2>1. CASE i = Len(q) + 1
      <3>1. d[i] = to2 /\ d[i - 1] = to
        BY <1>1, <1>2, <2>1, SMT DEF Chain
      <3>2. QED
        BY <1>2, <2>1, <3>1
    <2>2. CASE i \in 1 .. Len(q)
      <3>1. d[i] = c[i] /\ d[i - 1] = c[i - 1]
        BY <1>2, <2>2, SMT
      <3>2. QED
        BY <1>1, <1>2, <2>2, <3>1 DEF Chain
    <2>3. QED
      BY <1>2, <2>1, <2>2, SMT
  <1>7. Chain(r, from, to2, d)
    BY <1>4, <1>5, <1>6 DEF Chain
  <1>8. QED
    BY <1>4, <1>7 DEF IsChain

(* The first event taken off: a tick has the number the chain starts at.   *)
LEMMA ChainTail ==
  ASSUME NEW q \in Seq(Events), q # <<>>, NEW from \in 0 .. TickMod - 1,
         NEW to \in 0 .. TickMod - 1, IsChain(q, from, to)
  PROVE  /\ Head(q).kind = "Timer" => Head(q).tick = from
         /\ IsChain(Tail(q), IF Head(q).kind = "Timer" THEN Succ(from) ELSE from, to)
  <1> DEFINE r == Tail(q)
             from2 == IF Head(q).kind = "Timer" THEN Succ(from) ELSE from
  <1>1. PICK c \in [0 .. Len(q) -> 0 .. TickMod - 1] : Chain(q, from, to, c)
    BY DEF IsChain
  <1> DEFINE d == [i \in 0 .. Len(r) |-> c[i + 1]]
  <1>2. /\ r \in Seq(Events) /\ Len(r) \in Nat /\ Len(q) = Len(r) + 1
        /\ Head(q) = q[1]
        /\ \A i \in 1 .. Len(r) : r[i] = q[i + 1]
    BY SMT
  <1>3. /\ c[0] = from /\ c[Len(q)] = to
        /\ IF q[1].kind = "Timer"
           THEN q[1].tick = c[0] /\ c[1] = Succ(c[0])
           ELSE c[1] = c[0]
    <2>1. 1 \in 1 .. Len(q) /\ 1 - 1 = 0
      BY <1>2, SMT
    <2>2. QED
      BY <1>1, <2>1 DEF Chain
  <1>4. Head(q).kind = "Timer" => Head(q).tick = from
    BY <1>2, <1>3
  <1>5. d \in [0 .. Len(r) -> 0 .. TickMod - 1]
    BY <1>2, SMT
  <1>6. d[0] = from2 /\ d[Len(r)] = to
    <2>1. d[0] = c[1] /\ d[Len(r)] = c[Len(q)]
      BY <1>2, SMT
    <2>2. QED
      BY <1>2, <1>3, <2>1
  <1>7. ASSUME NEW i \in 1 .. Len(r)
        PROVE  IF r[i].kind = "Timer"
               THEN r[i].tick = d[i - 1] /\ d[i] = Succ(d[i - 1])
               ELSE d[i] = d[i - 1]
    <2>1. /\ i + 1 \in 1 .. Len(q) /\ (i + 1) - 1 = i
          /\ d[i] = c[i + 1] /\ d[i - 1] = c[i] /\ r[i] = q[i + 1]
      BY <1>2, SMT
    <2>2. IF q[i + 1].kind = "Timer"
          THEN q[i + 1].tick = c[i] /\ c[i + 1] = Succ(c[i])
          ELSE c[i + 1] = c[i]
      BY <1>1, <2>1 DEF Chain
    <2>3. QED
      BY <2>1, <2>2
  <1>8. Chain(r, from2, to, d)
    BY <1>5, <1>6, <1>7 DEF Chain
  <1>9. QED
    BY <1>4, <1>5, <1>8 DEF IsChain

-----------------------------------------------------------------------------
(* The number of the timer's next tick is in its range.                    *)
LEMMA NextOutType == TypeOK => NextOut \in 0 .. TickMod - 1
  BY SuccType DEF TypeOK, NextOut

(* The chain of ticks holds initially.                                     *)
LEMMA TickInit == Init => TickInv
  <1> SUFFICES ASSUME Init PROVE TickInv
    OBVIOUS
  <1>1. ~Handling /\ NextOut = 0 /\ queue = <<>> /\ tick = 0
    BY DEF Init, Handling, NextOut
  <1>2. 0 \in 0 .. TickMod - 1
    BY TickModAssumption, SMT
  <1>3. QED
    BY <1>1, <1>2, ChainEmpty DEF TickInv

(* A step that sends one event, or none, and leaves the loop thread alone. *)
LEMMA SendStep ==
  ASSUME Safety, TickInv, NEW e \in Events, e.kind = "Timer" => e.tick = tick,
         rxOpen' = rxOpen,
         queue' = IF rxOpen THEN Append(queue, e) ELSE queue,
         tick' = IF e.kind = "Timer" THEN Succ(tick) ELSE tick,
         UNCHANGED <<lpc, cur, expected>>
  PROVE  TickInv'
  <1>1. Handling' = Handling /\ NextOut' = NextOut
    BY DEF Handling, NextOut
  <1>2. CASE rxOpen
    <2>1. IsChain(Append(queue, e), NextOut, tick')
      BY <1>2, ChainAppend, NextOutType DEF Safety, TypeOK, TickInv
    <2>2. QED
      BY <1>1, <1>2, <2>1 DEF TickInv
  <1>3. QED
    BY <1>1, <1>2 DEF TickInv

(* A step that changes neither the channel nor the numbers.                *)
LEMMA IdleStep ==
  ASSUME TickInv,
         queue' = queue \/ ~rxOpen', rxOpen' => rxOpen,
         tick' = tick, expected' = expected, Handling' = Handling,
         cur'.tick = cur.tick \/ ~Handling
  PROVE  TickInv'
  BY DEF TickInv, NextOut

(* Every step keeps the chain: sends extend it, receives take its head.    *)
LEMMA TickStep == IInv /\ [Next]_vars => TickInv'
  <1> SUFFICES ASSUME IInv, [Next]_vars PROVE TickInv'
    OBVIOUS
  <1> USE DEF IInv, loopVars, mainVars, timerVars
  <1>1. CASE TimerCheck \/ TimerBlock \/ TimerClosed \/ TimerWake \/ UNCHANGED vars
    BY <1>1, IdleStep
    DEF TimerCheck, TimerBlock, TimerClosed, TimerWake, vars, Handling
  <1>2. CASE TimerSend \/ TimerGranted
    <2>1. Tick(tick) \in Events
      BY EventTypes DEF Safety, TypeOK
    <2>2. Tick(tick).kind = "Timer" /\ Tick(tick).tick = tick
      BY DEF Tick
    <2>3. QED
      BY <1>2, <2>1, <2>2, SendStep DEF TimerSend, TimerGranted, CanSend
  <1>3. CASE LoadError \/ Shutdown
    BY <1>3, IdleStep DEF LoadError, Shutdown, ExitLoop, Handling
  <1>4. CASE Startup
    BY <1>4, IdleStep DEF Startup, Handling
  <1>5. CASE Recv
    <2>1. CASE queue = <<>>
      BY <1>5, <2>1, IdleStep DEF Recv, Handling
    <2>2. CASE queue # <<>>
      <3>1. rxOpen /\ rxOpen' /\ ~Handling /\ NextOut = expected
        BY <1>5 DEF Recv, Handling, NextOut, Safety, ReceiverInv
      <3>2. /\ Head(queue).kind = "Timer" => Head(queue).tick = expected
            /\ IsChain(Tail(queue), IF Head(queue).kind = "Timer"
                                    THEN Succ(expected) ELSE expected, tick)
        BY <2>2, <3>1, ChainTail DEF Safety, TypeOK, TickInv
      <3>3. /\ Handling' <=> Head(queue).kind = "Timer"
            /\ cur' = Head(queue) /\ queue' = Tail(queue)
            /\ expected' = expected /\ tick' = tick
        BY <1>5, <2>2 DEF Recv, Handling
      <3>4. NextOut' = IF Head(queue).kind = "Timer"
                       THEN Succ(expected) ELSE expected
        BY <3>3 DEF NextOut
      <3>5. QED
        BY <3>1, <3>2, <3>3, <3>4 DEF TickInv
    <2>3. QED
      BY <2>1, <2>2
  <1>6. CASE Handle
    <2>1. ~Handling' /\ NextOut' = NextOut
      BY <1>6 DEF Handle, Handling, NextOut, TickInv
    <2>2. QED
      BY <1>6, <2>1 DEF Handle, TickInv
  <1>7. CASE HandleShutdown
    BY <1>7, IdleStep DEF HandleShutdown, Handling
  <1>8. CASE Drop \/ Join \/ \E h \in Holders : DropInjector(h)
    BY <1>8, IdleStep DEF Drop, DropRoute, Join, DropInjector, Handling
  <1>9. CASE AskShutdown
    <2>1. Event("Shutdown") \in Events /\ Event("Shutdown").kind # "Timer"
      BY EventTypes DEF Event
    <2>2. CASE CanSend
      BY <1>9, <2>1, <2>2, SendStep DEF AskShutdown, DropRoute, CanSend
    <2>3. CASE ~CanSend
      BY <1>9, <2>3, IdleStep DEF AskShutdown, DropRoute, Handling
    <2>4. QED
      BY <2>2, <2>3
  <1>10. ASSUME NEW k \in Inputs, Inject(k) PROVE TickInv'
    <2>1. Event(k) \in Events /\ Event(k).kind # "Timer"
      BY EventTypes DEF Event, Inputs
    <2>2. QED
      BY <1>10, <2>1, SendStep DEF Inject, CanSend
  <1>11. QED
    BY <1>1, <1>2, <1>3, <1>4, <1>5, <1>6, <1>7, <1>8, <1>9, <1>10
    DEF Next, TimerStep, LoopStep, MainStep

(* The inductive invariant holds throughout.                               *)
LEMMA IInvInductive == Spec => []IInv
  <1>1. Init => IInv
    BY SafetyInit, TickInit DEF IInv
  <1>2. IInv /\ [Next]_vars => IInv'
    BY SafetyStep, TickStep DEF IInv
  <1>3. QED
    BY <1>1, <1>2, PTL DEF Spec

-----------------------------------------------------------------------------
(* Every variable of a route instance keeps its type.                      *)
THEOREM TypeCorrect == Spec => []TypeOK
  BY IInvInductive, PTL DEF IInv, Safety

(* on_startup and on_shutdown run both or not at all.                      *)
THEOREM HooksArePaired == Spec => []HooksPaired
  BY IInvInductive, PTL DEF IInv, Safety, HooksInv

(* The callbacks see the tick stream: none skipped, none out of order.     *)
THEOREM TicksFollowOneAnother == Spec => TickStreamSpec
  <1>1. Init => Ticks!Init
    BY DEF Init, Ticks!Init
  <1>2. IInv /\ [Next]_vars => [Ticks!Next]_(Ticks!vars)
    <2> SUFFICES ASSUME IInv, [Next]_vars
                 PROVE  \/ rxOpen /\ expected' = Succ(expected) /\ rxOpen' = rxOpen
                        \/ rxOpen /\ rxOpen' = FALSE /\ expected' = expected
                        \/ expected' = expected /\ rxOpen' = rxOpen
      BY DEF Ticks!Next, Ticks!vars, Ticks!Deliver, Ticks!Stop, Succ
    <2> USE DEF loopVars, mainVars, timerVars
    <2>1. CASE TimerStep \/ UNCHANGED vars
      BY <2>1 DEF TimerStep, TimerCheck, TimerSend, TimerBlock, TimerClosed,
                  TimerGranted, TimerWake, vars
    <2>2. CASE MainStep \/ \E k \in Inputs : Inject(k)
      BY <2>2 DEF MainStep, Drop, AskShutdown, Join, DropInjector, Inject
    <2>3. CASE Handle
      <3>1. rxOpen
        BY <2>3 DEF Handle, IInv, Safety, ReceiverInv
      <3>2. cur.kind = "Timer" => cur.tick = expected
        BY <2>3 DEF Handle, IInv, TickInv, Handling
      <3>3. QED
        BY <2>3, <3>1, <3>2 DEF Handle
    <2>4. CASE LoadError \/ Shutdown
      <3>1. rxOpen
        BY <2>4 DEF LoadError, Shutdown, IInv, Safety, ReceiverInv
      <3>2. QED
        BY <2>4, <3>1 DEF LoadError, Shutdown, ExitLoop
    <2>5. CASE Startup \/ Recv \/ HandleShutdown
      BY <2>5 DEF Startup, Recv, HandleShutdown
    <2>6. QED
      BY <2>1, <2>2, <2>3, <2>4, <2>5 DEF Next, LoopStep
  <1>3. QED
    BY <1>1, <1>2, IInvInductive, PTL DEF Spec, TickStreamSpec, Ticks!Spec
=============================================================================
