--------------------------- MODULE RouteInstance ---------------------------
(***************************************************************************)
(* One started route: the value Route::start returns and the two threads   *)
(* it spawns (src/src/route.rs, src/src/timer.rs).                         *)
(*                                                                         *)
(*   timer thread   sends a Tick with blocking_send, sleeps, repeats       *)
(*   loop thread    run_lua_event_loop: load the script, on_startup, then  *)
(*                  receive and handle one event at a time, on_shutdown    *)
(*   producers      the MIDI callback, the OSC and OBS injectors and       *)
(*                  send_resync: all try_send, an event that does not fit  *)
(*                  is dropped                                             *)
(*   main thread    holds the Route; drops it when the route is replaced   *)
(*                  or removed, or asks it to shut down and joins the loop *)
(*                                                                         *)
(* They share one bounded tokio channel.  Its permits are modelled as      *)
(* tokio implements them: a permit freed by a receive is handed to the     *)
(* sender that waits for one, never back to the pool a try_send draws on.  *)
(***************************************************************************)
EXTENDS Naturals, Sequences

CONSTANTS Cap,         \* capacity of the event channel (256)
          TickMod,     \* the tick counter counts modulo this (2^64)
          DefaultBpm,  \* bpm the timer starts with, in hundredths
          BpmArgs,     \* what scripts pass to set_bpm
          NaN          \* the float that is not a number

ASSUME CapAssumption     == Cap \in Nat \ {0}
ASSUME TickModAssumption == TickMod \in Nat \ {0}
ASSUME BpmAssumption     == /\ DefaultBpm \in Nat \ {0}
                            /\ BpmArgs \subseteq Nat \cup {NaN}

VARIABLES queue,     \* the events in the channel, oldest first
          rxOpen,    \* the loop thread still owns the receiver
          tpc,       \* where the timer thread is
          tick,      \* the number of the next tick it sends
          running,   \* Timer.running
          bpm,       \* Timer.bpm, in hundredths
          lpc,       \* where the loop thread is
          cur,       \* the event the loop thread is handling
          expected,  \* 1 + the number of the last tick handled
          hooks,     \* which of the lifecycle hooks have run
          mpc,       \* what the main thread does with this Route
          senders    \* clones of tx outside the timer thread

timerVars == <<tpc, tick, running>>
loopVars  == <<lpc, cur, expected, hooks, bpm>>
mainVars  == <<mpc, senders>>
vars == <<queue, rxOpen, timerVars, loopVars, mainVars>>

-----------------------------------------------------------------------------
(* Events.  Payloads other than the tick number are left out.              *)

Inputs == {"Midi", "Osc", "ObsEvent", "ResyncState"}

Tick(n)  == [kind |-> "Timer", tick |-> n]
Event(k) == [kind |-> k, tick |-> 0]

Events == [kind : Inputs \cup {"Timer", "Shutdown"}, tick : 0 .. TickMod - 1]

(* Mutation: the counter does not wrap.                                    *)
MutantSucc(n) == n + 1

(* tick.wrapping_add(1)                                                    *)
Succ(n) == (n + 1) % TickMod

NoEvent == Event("None")

(* The senders an input event comes from: the injectors hold clones of     *)
(* their own, resync and the MIDI callbacks live and die with the Route.   *)
Holder(k) == CASE k = "Osc"      -> "osc_dispatch"
               [] k = "ObsEvent" -> "obs_dispatch"
               [] OTHER          -> "route"

Holders == {"route", "osc_dispatch", "obs_dispatch"}

-----------------------------------------------------------------------------
(* The tokio channel.                                                      *)

(* Permits a try_send can take: the slots neither filled nor promised to   *)
(* the waiting timer thread.                                               *)
Free == Cap - Len(queue) - (IF tpc = "granted" THEN 1 ELSE 0)

CanSend == rxOpen /\ Free > 0

-----------------------------------------------------------------------------
Init ==
  /\ queue = <<>> /\ rxOpen = TRUE
  /\ tpc = "check" /\ tick = 0 /\ running = TRUE
  /\ bpm = DefaultBpm
  /\ lpc = "load" /\ cur = NoEvent /\ expected = 0 /\ hooks = {}
  /\ mpc = "up" /\ senders = Holders

-----------------------------------------------------------------------------
(* The timer thread.                                                       *)

(* Mutation: the thread does not look at running.                          *)
MutantTimerCheck ==
  /\ tpc = "check"
  /\ tpc' = IF bpm = 0 THEN "sleep" ELSE "send"
  /\ UNCHANGED <<queue, rxOpen, tick, running, loopVars, mainVars>>

(* running.load(), then bpm and ppqn.  set_ppqn and Timer::new keep ppqn   *)
(* at 1 or more, so only a bpm of 0 takes the guard.                       *)
TimerCheck ==
  /\ tpc = "check"
  /\ tpc' = IF ~running THEN "done" ELSE IF bpm = 0 THEN "sleep" ELSE "send"
  /\ UNCHANGED <<queue, rxOpen, tick, running, loopVars, mainVars>>

(* blocking_send with a permit at hand.                                    *)
TimerSend ==
  /\ tpc = "send" /\ CanSend
  /\ queue' = Append(queue, Tick(tick))
  /\ tick' = Succ(tick)
  /\ tpc' = "sleep"
  /\ UNCHANGED <<rxOpen, running, loopVars, mainVars>>

(* Mutation: the tick is sent with try_send, dropped, and counted.         *)
MutantTimerBlock ==
  /\ tpc = "send" /\ rxOpen /\ Free = 0
  /\ tpc' = "sleep" /\ tick' = Succ(tick)
  /\ UNCHANGED <<queue, rxOpen, running, loopVars, mainVars>>

(* blocking_send on a full channel: the thread joins the wait queue.       *)
TimerBlock ==
  /\ tpc = "send" /\ rxOpen /\ Free = 0
  /\ tpc' = "waiting"
  /\ UNCHANGED <<queue, rxOpen, tick, running, loopVars, mainVars>>

(* blocking_send on a closed channel: is_err(), the thread ends.  So does  *)
(* one that was handed a permit and looks at it after the close.           *)
TimerClosed ==
  /\ tpc \in {"send", "granted"} /\ ~rxOpen
  /\ tpc' = "done"
  /\ UNCHANGED <<queue, rxOpen, tick, running, loopVars, mainVars>>

(* The waiting thread was handed a permit and completes its send.  If the  *)
(* receiver is dropped between its look at the permit and the push, the    *)
(* event is lost and the thread notices at its next send.                  *)
TimerGranted ==
  /\ tpc = "granted"
  /\ queue' = IF rxOpen THEN Append(queue, Tick(tick)) ELSE queue
  /\ tick' = Succ(tick)
  /\ tpc' = "sleep"
  /\ UNCHANGED <<rxOpen, running, loopVars, mainVars>>

TimerWake ==
  /\ tpc = "sleep"
  /\ tpc' = "check"
  /\ UNCHANGED <<queue, rxOpen, tick, running, loopVars, mainVars>>

TimerStep == \/ TimerCheck \/ TimerSend \/ TimerBlock
             \/ TimerClosed \/ TimerGranted \/ TimerWake

-----------------------------------------------------------------------------
(* The producers.                                                          *)

(* try_send: an event the channel has no permit for is dropped, which      *)
(* changes nothing but the log.                                            *)
Inject(k) ==
  /\ Holder(k) \in senders
  /\ CanSend
  /\ queue' = Append(queue, Event(k))
  /\ UNCHANGED <<rxOpen, timerVars, loopVars, mainVars>>

-----------------------------------------------------------------------------
(* The loop thread.                                                        *)

(* The end of run_lua_event_loop drops the receiver and what is left in    *)
(* it, wakes a timer thread waiting to send with an error, and releases    *)
(* the loop's share of the Timer.  The last share to go stops the timer.   *)
ExitLoop ==
  /\ lpc' = "done" /\ rxOpen' = FALSE /\ queue' = <<>> /\ cur' = NoEvent
  /\ tpc' = IF tpc = "waiting" THEN "done" ELSE tpc
  /\ running' = (running /\ mpc = "up")
  /\ UNCHANGED <<tick, expected, bpm, mainVars>>

(* The script does not load: no hook of it runs.                           *)
LoadError == lpc = "load" /\ ExitLoop /\ UNCHANGED hooks

(* The script and its init() have run, then on_startup: any of them may    *)
(* set the tempo.                                                          *)
Clamp(b) == 100 * (IF b < 20 THEN 20 ELSE IF b > 200 THEN 200 ELSE b)

set_bpm(b) == IF b = NaN THEN 0 ELSE Clamp(b)

Callback == \/ bpm' = bpm
            \/ \E b \in BpmArgs : bpm' = set_bpm(b)

Startup ==
  /\ lpc = "load"
  /\ lpc' = "recv" /\ hooks' = {"on_startup"}
  /\ Callback
  /\ UNCHANGED <<queue, rxOpen, cur, expected, timerVars, mainVars>>

(* Mutation: the freed permit goes back to the pool and the timer thread   *)
(* has to compete for it again.                                            *)
MutantRecv ==
  /\ lpc = "recv" /\ queue # <<>>
  /\ cur' = Head(queue) /\ queue' = Tail(queue)
  /\ lpc' = "handle"
  /\ tpc' = IF tpc = "waiting" THEN "send" ELSE tpc
  /\ UNCHANGED <<rxOpen, tick, running, expected, hooks, bpm, mainVars>>

(* rx.blocking_recv(): an event, whose permit goes to the timer thread if  *)
(* that waits for one, or None when the channel is empty and every sender  *)
(* is gone, the timer thread's among them.                                 *)
Recv ==
  /\ lpc = "recv"
  /\ IF queue # <<>>
     THEN /\ cur' = Head(queue) /\ queue' = Tail(queue)
          /\ lpc' = "handle"
          /\ tpc' = IF tpc = "waiting" THEN "granted" ELSE tpc
     ELSE /\ senders = {} /\ tpc = "done"
          /\ lpc' = "hook"
          /\ UNCHANGED <<queue, cur, tpc>>
  /\ UNCHANGED <<rxOpen, tick, running, expected, hooks, bpm, mainVars>>

(* The callbacks of one event; an error in them is logged and swallowed.   *)
Handle ==
  /\ lpc = "handle" /\ cur.kind # "Shutdown"
  /\ expected' = IF cur.kind = "Timer" THEN Succ(cur.tick) ELSE expected
  /\ Callback
  /\ cur' = NoEvent /\ lpc' = "recv"
  /\ UNCHANGED <<queue, rxOpen, hooks, timerVars, mainVars>>

(* Mutation: the Shutdown arm only wakes the loop, it does not break.      *)
MutantHandleShutdown ==
  /\ lpc = "handle" /\ cur.kind = "Shutdown"
  /\ cur' = NoEvent /\ lpc' = "recv"
  /\ UNCHANGED <<queue, rxOpen, expected, hooks, bpm, timerVars, mainVars>>

(* RouteEvent::Shutdown => break                                           *)
HandleShutdown ==
  /\ lpc = "handle" /\ cur.kind = "Shutdown"
  /\ cur' = NoEvent /\ lpc' = "hook"
  /\ UNCHANGED <<queue, rxOpen, expected, hooks, bpm, timerVars, mainVars>>

(* Mutation: the function returns without calling the hook.                *)
MutantShutdown == lpc = "hook" /\ UNCHANGED hooks /\ ExitLoop

(* on_shutdown(), after which the thread ends.                             *)
Shutdown == lpc = "hook" /\ hooks' = hooks \cup {"on_shutdown"} /\ ExitLoop

LoopStep == \/ LoadError \/ Startup \/ Recv
            \/ Handle \/ HandleShutdown \/ Shutdown

-----------------------------------------------------------------------------
(* The main thread and the registries.                                     *)

(* Dropping the Route releases main's share of the Timer and the sender.   *)
DropRoute ==
  /\ senders' = senders \ {"route"}
  /\ running' = (running /\ lpc # "done")

(* The route is replaced by a reload or its file was removed.              *)
Drop ==
  /\ mpc = "up" /\ mpc' = "dropped"
  /\ DropRoute
  /\ UNCHANGED <<queue, rxOpen, tpc, tick, loopVars>>

(* graceful_shutdown: Route::shutdown try_sends the command, ignores       *)
(* whether it fitted, drops the Route and keeps the thread to join.        *)
AskShutdown ==
  /\ mpc = "up" /\ mpc' = "joining"
  /\ queue' = IF CanSend THEN Append(queue, Event("Shutdown")) ELSE queue
  /\ DropRoute
  /\ UNCHANGED <<rxOpen, tpc, tick, loopVars>>

Join ==
  /\ mpc = "joining" /\ lpc = "done"
  /\ mpc' = "joined"
  /\ UNCHANGED <<queue, rxOpen, timerVars, loopVars, senders>>

(* The dispatch tables let go of the injector of a route main no longer    *)
(* holds: replaced by the new one's, or unregistered.                      *)
DropInjector(h) ==
  /\ mpc = "dropped" /\ h \in senders
  /\ senders' = senders \ {h}
  /\ UNCHANGED <<queue, rxOpen, timerVars, loopVars, mpc>>

MainStep == Drop \/ AskShutdown \/ Join \/ \E h \in Holders : DropInjector(h)

Next == TimerStep \/ LoopStep \/ MainStep \/ \E k \in Inputs : Inject(k)

Spec == Init /\ [][Next]_vars

(* Threads are scheduled, callbacks return, join() returns once it can.    *)
(* Nothing obliges a producer to send or main to drop or stop the route.   *)
Fairness == WF_vars(TimerStep) /\ WF_vars(LoopStep) /\ WF_vars(Join)

FairSpec == Spec /\ Fairness
-----------------------------------------------------------------------------
(* Type invariant: of the fields above, the loop's and the timer's places  *)
(* in their code.                                                          *)
TypeOK ==
  /\ queue \in Seq(Events) /\ Len(queue) <= Cap
  /\ rxOpen \in BOOLEAN /\ running \in BOOLEAN
  /\ tpc \in {"check", "send", "waiting", "granted", "sleep", "done"}
  /\ tick \in 0 .. TickMod - 1 /\ expected \in 0 .. TickMod - 1
  /\ bpm \in Nat
  /\ lpc \in {"load", "recv", "handle", "hook", "done"}
  /\ cur \in Events \cup {NoEvent}
  /\ hooks \subseteq {"on_startup", "on_shutdown"}
  /\ mpc \in {"up", "dropped", "joining", "joined"}
  /\ senders \subseteq Holders

(* Every tick on_tick sees is the successor of the one before, whatever    *)
(* MIDI, OSC and OBS traffic fills the channel or is dropped from it: the  *)
(* loop implements the stream of TickStream (timer.rs:89-93 waits for room *)
(* and counts only what it sent; route.rs:853 delivers in order).          *)
Ticks == INSTANCE TickStream WITH next <- expected, alive <- rxOpen

TickStreamSpec == Ticks!Spec

(* A script that got its on_startup gets its on_shutdown before its thread *)
(* ends, and one that did not load gets neither (route.rs:796, 829, 912).  *)
HooksPaired ==
  lpc = "done" => hooks \in {{}, {"on_startup", "on_shutdown"}}

(* A Shutdown that was accepted ends the loop, whatever is queued before   *)
(* it and however full the channel is.                                     *)
ShutdownPending ==
  \/ lpc = "handle" /\ cur.kind = "Shutdown"
  \/ \E i \in 1 .. Len(queue) : queue[i].kind = "Shutdown"

AcceptedShutdownEnds == ShutdownPending ~> (lpc = "done")

(* A timer thread waiting for room gets it or learns that the channel is   *)
(* closed: the lossy producers cannot starve it.                           *)
TickNotStarved == (tpc = "waiting") ~> (tpc \in {"sleep", "done"})

(* When the loop has ended and main no longer holds the Route, the timer   *)
(* thread ends too, even if its tempo was set to NaN and it sends nothing. *)
TimerStops == (lpc = "done" /\ mpc # "up") ~> (tpc = "done")

(* The timer thread is neither starved while its loop takes events nor     *)
(* left over when its loop has ended.                                      *)
TimerProgresses == TickNotStarved /\ TimerStops

-----------------------------------------------------------------------------
(* Claims of the documents that the code does not keep.                    *)

(* README.md, graceful shutdown: main "waits for all of them to complete"  *)
(* and exits: the join returns.                                            *)
ShutdownJoins == (mpc = "joining") ~> (mpc = "joined")
=============================================================================
