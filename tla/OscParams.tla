----------------------------- MODULE OscParams -----------------------------
(***************************************************************************)
(* The declarative OSC parameters of one route and the clients subscribed  *)
(* to them (src/src/osc_params.rs, the arms of the event loop in           *)
(* src/src/route.rs that call it, and src/TouchOSC/lib/subscribe.lua).     *)
(*                                                                         *)
(* Every action of the route is one event its loop handles from beginning  *)
(* to end; the loop has one thread, so these do not interleave.  What      *)
(* interleaves is the traffic: the messages of a client travel as UDP      *)
(* datagrams and through a lossy channel, and are lost or overtake each    *)
(* other.                                                                  *)
(*                                                                         *)
(* Time is counted in seconds, as os.time does, and relative to now:       *)
(* left[a] is the subscriber's expiry minus now, evAge and hbAge are now   *)
(* minus last_eviction and last_heartbeat.                                 *)
(***************************************************************************)
EXTENDS Integers

CONSTANTS
  Addrs,              \* the ip:port feedback addresses of clients
  Params,             \* the params init() declares
  Readable,           \* those with a get()
  Writable,           \* those with a set()
  Flaky,              \* those whose get() or set() may raise an error
  Bound,              \* those bound to one MIDI key, in order
  Values,             \* what a param can be set to
  Nothing,            \* no value
  Timeout,            \* subscription length: subscribe.lua's and the default
  EVICTION_INTERVAL,
  HeartbeatInterval,  \* osc_heartbeat_interval
  TickGap,            \* ticks are handled at most this far apart
  HeartbeatDelay,     \* a client beats this often
  MaxLost             \* at most this many messages of a client lost in a row

ASSUME ParamsAssumption ==
  /\ Readable \subseteq Params /\ Writable \subseteq Params
  /\ Flaky \subseteq Readable
  /\ Nothing \notin Values
  /\ DOMAIN Bound \subseteq Nat /\ \A i \in DOMAIN Bound : Bound[i] \in Params
  /\ \A i, j \in DOMAIN Bound : Bound[i] = Bound[j] => i = j
ASSUME TimeAssumption ==
  /\ {Timeout, EVICTION_INTERVAL, HeartbeatInterval, TickGap, HeartbeatDelay}
        \subseteq Nat \ {0}
  /\ MaxLost \in Nat
ASSUME BeatAssumption == Timeout > HeartbeatDelay * (MaxLost + 1)

VARIABLES
  left,     \* the subscribers: address -> seconds until expiry
  evAge, hbAge,
  gap,      \* seconds since a tick was handled
  cache,    \* subs_cache, what send_osc without a target fans out to
  value,    \* the script's state, as get() reads it
  sent,     \* the value of a param an address was last sent
  up,       \* messages in flight from each client
  client,   \* "in": its layout is open, "out": closed
  beatAge,  \* seconds since the client sent subscribe or heartbeat
  missed,   \* messages of the client lost since one arrived
  switched, \* clients that opened or closed in this second
  heard     \* a message of the open layout arrived, and no unsubscribe since

routeVars  == <<left, evAge, hbAge, gap, cache, value, sent>>
clientVars == <<up, client, beatAge, missed, switched, heard>>
vars == <<routeVars, clientVars>>

Messages == {"subscribe", "heartbeat", "unsubscribe"}

Subscribers == DOMAIN left

-----------------------------------------------------------------------------
Init ==
  /\ left = [a \in {} |-> 0]
  /\ evAge = 0 /\ hbAge = 0 /\ gap = 0
  /\ cache = {}
  /\ value \in [Params -> Values]
  /\ sent = [a \in Addrs |-> [p \in Readable |-> Nothing]]
  /\ up = [a \in Addrs |-> {}]
  /\ client = [a \in Addrs |-> "out"]
  /\ beatAge = [a \in Addrs |-> 0]
  /\ missed = [a \in Addrs |-> 0]
  /\ switched = {} /\ heard = [a \in Addrs |-> FALSE]

-----------------------------------------------------------------------------
(* The route: subscriptions.                                               *)

Register(a) ==
  left' = [b \in Subscribers \cup {a} |-> IF b = a THEN Timeout ELSE left[b]]

Forget(S) == left' = [b \in Subscribers \ S |-> left[b]]

(* Mutation: the subscribers are told before set() has run.                *)
MutantNotify(P) ==
  sent' = [a \in Addrs |-> [p \in Readable |->
             IF a \in Subscribers /\ p \in P THEN value[p] ELSE sent[a][p]]]

(* Every subscriber is sent the value of the params in P.                  *)
Notify(P) ==
  sent' = [a \in Addrs |-> [p \in Readable |->
             IF a \in Subscribers /\ p \in P THEN value'[p] ELSE sent[a][p]]]

(* dump_state_to: every readable param in the order of the hash map, up to *)
(* the first whose get() raises.                                           *)
Dumped == {Readable} \cup UNION {SUBSET (Readable \ {f}) : f \in Flaky}

(* Mutation: params without a get() are dumped too.                        *)
MutantDump(a) == sent' = [sent EXCEPT ![a] = value]

(* A client is sent what dump_state_to gets to send.                       *)
Dump(a) ==
  \E P \in Dumped :
     sent' = [sent EXCEPT ![a] = [p \in Readable |->
                IF p \in P THEN value[p] ELSE sent[a][p]]]

Subscribe(a) == Register(a) /\ Dump(a)

(* Mutation: an unknown client that beats is registered, not caught up.    *)
MutantHeartbeat(a) == Register(a) /\ sent' = sent

(* Mutation: a heartbeat only matters to an address not on file.           *)
MutantRenewal(a) ==
  IF a \in Subscribers THEN UNCHANGED <<left, sent>> ELSE Register(a) /\ Dump(a)

(* A heartbeat renews; from an address not on file it subscribes.          *)
Heartbeat(a) ==
  /\ Register(a)
  /\ IF a \in Subscribers THEN sent' = sent ELSE Dump(a)

Unsubscribe(a) == Forget({a}) /\ sent' = sent

(* Mutation: the cache is read off before the event is handled.            *)
MutantRecache == cache' = Subscribers

(* subs_cache is refreshed after every OSC message and every tick, also    *)
(* when handling it ended in an error.                                     *)
Recache == cache' = DOMAIN left'

Deliver(a, m) ==
  /\ m \in up[a]
  /\ CASE m = "subscribe"   -> Subscribe(a)
       [] m = "heartbeat"   -> Heartbeat(a)
       [] m = "unsubscribe" -> Unsubscribe(a)
  /\ Recache
  /\ up' = [up EXCEPT ![a] = @ \ {m}]
  /\ missed' = [missed EXCEPT ![a] = 0]
  /\ heard' = [heard EXCEPT ![a] = m # "unsubscribe" /\ client[a] = "in"]
  /\ UNCHANGED <<evAge, hbAge, gap, value, client, beatAge, switched>>

-----------------------------------------------------------------------------
(* The route: params.                                                      *)

Sets(P) == value' \in {f \in [Params -> Values] : \A p \in Params \ P : f[p] = value[p]}

(* /prefix/p with arguments: set(), then get() and every subscriber is     *)
(* told; a get() that raises ends the dispatch before that.  A set() that  *)
(* raises may have left the value alone, and the rest happens all the same.*)
OscSet(p) ==
  /\ p \in Writable
  /\ Sets({p})
  /\ \/ Notify({p})
     \/ p \in Flaky /\ sent' = sent
  /\ UNCHANGED <<left, evAge, hbAge, gap, clientVars>>
  /\ Recache

(* /prefix/p without arguments calls set() of a param that has no get();   *)
(* one that has a get() is only read.                                      *)
OscTrigger(p) ==
  /\ p \in Writable \ Readable
  /\ Sets({p})
  /\ UNCHANGED <<left, evAge, hbAge, gap, sent, clientVars>>
  /\ Recache

(* dispatch_midi: the bindings of the key in order, each set() and told;   *)
(* a get() that raises ends the dispatch.                                  *)
MidiDispatch ==
  \E k \in DOMAIN Bound \cup {0} :
     LET Through(n) == {Bound[i] : i \in {j \in DOMAIN Bound : j <= n}} \cap Writable
         Raises == k + 1 \in DOMAIN Bound
     IN /\ Raises => Bound[k + 1] \in Flaky \cap Writable
        /\ Sets(IF Raises THEN Through(k + 1) ELSE Through(k))
        /\ Notify(Through(k))
        /\ UNCHANGED <<left, evAge, hbAge, gap, cache, clientVars>>

(* resync: every param with both functions is set to what it reads and     *)
(* told; one that raises an error is skipped, before or after its set().   *)
Resync ==
  \E P \in {Q \in SUBSET (Readable \cap Writable) :
               (Readable \cap Writable) \ Q \subseteq Flaky} :
     /\ Sets(Readable \cap Writable)
     /\ Notify(P)
     /\ UNCHANGED <<left, evAge, hbAge, gap, cache, clientVars>>

-----------------------------------------------------------------------------
(* The route: time.                                                        *)

(* Mutation: the sweep keeps a subscriber at its last second.              *)
MutantExpired == {a \in Subscribers : left[a] < 0}

Expired == {a \in Subscribers : left[a] <= 0}

(* Mutation: who is sent the route's heartbeat counts as alive.            *)
MutantOscTick ==
  /\ LET swept == IF evAge >= EVICTION_INTERVAL THEN Expired ELSE {}
         beats == hbAge >= HeartbeatInterval
     IN /\ left' = [b \in Subscribers \ swept |-> IF beats THEN Timeout ELSE left[b]]
        /\ evAge' = IF evAge >= EVICTION_INTERVAL THEN 0 ELSE evAge
        /\ hbAge' = IF beats THEN 0 ELSE hbAge
  /\ Recache
  /\ gap' = 0
  /\ UNCHANGED <<value, sent, clientVars>>

(* A Tick event: ps.tick() sweeps and beats when each is due.              *)
OscTick ==
  /\ IF evAge >= EVICTION_INTERVAL
     THEN Forget(Expired) /\ evAge' = 0
     ELSE left' = left /\ evAge' = evAge
  /\ hbAge' = IF hbAge >= HeartbeatInterval THEN 0 ELSE hbAge
  /\ Recache
  /\ gap' = 0
  /\ UNCHANGED <<value, sent, clientVars>>

(* A new instance of the route takes over, or the daemon restarts: it has  *)
(* no subscribers, and the script's own idea of its state.                 *)
Restart ==
  /\ left' = [a \in {} |-> 0] /\ cache' = {}
  /\ evAge' = 0 /\ hbAge' = 0
  /\ value' \in [Params -> Values]
  /\ sent' = [a \in Addrs |-> [p \in Readable |-> Nothing]]
  /\ heard' = [a \in Addrs |-> FALSE]
  /\ UNCHANGED <<gap, up, client, beatAge, missed, switched>>

-----------------------------------------------------------------------------
(* The clients and the world.                                              *)

Send(a, m) == up' = [up EXCEPT ![a] = @ \cup {m}]

(* init(): one subscribe, and the beat is armed.  The bound of one opening *)
(* or closing per client and second keeps the runs finite in a second.     *)
Open(a) ==
  /\ client[a] = "out" /\ a \notin switched
  /\ switched' = switched \cup {a}
  /\ client' = [client EXCEPT ![a] = "in"]
  /\ beatAge' = [beatAge EXCEPT ![a] = 0]
  /\ heard' = [heard EXCEPT ![a] = FALSE]
  /\ Send(a, "subscribe")
  /\ UNCHANGED <<routeVars, missed>>

(* update()                                                                *)
Beat(a) ==
  /\ client[a] = "in" /\ beatAge[a] >= HeartbeatDelay
  /\ beatAge' = [beatAge EXCEPT ![a] = 0]
  /\ Send(a, "heartbeat")
  /\ UNCHANGED <<routeVars, client, missed, switched, heard>>

(* onReceiveNotify("LayoutClosing")                                        *)
Close(a) ==
  /\ client[a] = "in" /\ a \notin switched
  /\ switched' = switched \cup {a}
  /\ client' = [client EXCEPT ![a] = "out"]
  /\ beatAge' = [beatAge EXCEPT ![a] = 0]
  /\ heard' = [heard EXCEPT ![a] = FALSE]
  /\ Send(a, "unsubscribe")
  /\ UNCHANGED <<routeVars, missed>>

(* A datagram is lost, or finds the event channel of the route full.       *)
Lose(a, m) ==
  /\ m \in up[a] /\ missed[a] < MaxLost
  /\ up' = [up EXCEPT ![a] = @ \ {m}]
  /\ missed' = [missed EXCEPT ![a] = @ + 1]
  /\ UNCHANGED <<routeVars, client, beatAge, switched, heard>>

(* A second passes.  Within it whatever is in flight arrives or is lost, a *)
(* client whose beat is due sends it, and ticks keep being handled.        *)
Advance ==
  /\ gap < TickGap
  /\ \A a \in Addrs : up[a] = {} /\ (client[a] = "in" => beatAge[a] < HeartbeatDelay)
  /\ left' = [a \in Subscribers |-> left[a] - 1]
  /\ evAge' = evAge + 1 /\ hbAge' = hbAge + 1 /\ gap' = gap + 1
  /\ beatAge' = [a \in Addrs |-> IF client[a] = "in" THEN beatAge[a] + 1 ELSE 0]
  /\ switched' = {}
  /\ UNCHANGED <<cache, value, sent, up, client, missed, heard>>

ClientStep(a) == Open(a) \/ Beat(a) \/ Close(a)

Next ==
  \/ \E a \in Addrs : ClientStep(a)
  \/ \E a \in Addrs, m \in Messages : Deliver(a, m) \/ Lose(a, m)
  \/ \E p \in Params : OscSet(p) \/ OscTrigger(p)
  \/ MidiDispatch \/ Resync \/ OscTick \/ Restart \/ Advance

Spec == Init /\ [][Next]_vars

(* Ticks are handled, beats are sent, and what is in flight leaves the     *)
(* network one way or the other.  Time passes whatever else happens: a     *)
(* client opens or closes its layout at most once a second, and routes are *)
(* not restarted without end between two seconds.                          *)
Fairness ==
  /\ SF_vars(Advance) /\ WF_vars(OscTick)
  /\ \A a \in Addrs : WF_vars(Beat(a))
  /\ \A a \in Addrs, m \in Messages : WF_vars(Deliver(a, m) \/ Lose(a, m))

FairSpec == Spec /\ Fairness

-----------------------------------------------------------------------------
TypeOK ==
  /\ Subscribers \subseteq Addrs /\ \A a \in Subscribers : left[a] \in Int
  /\ evAge \in Nat /\ hbAge \in Nat /\ gap \in 0 .. TickGap
  /\ cache \subseteq Addrs
  /\ value \in [Params -> Values]
  /\ sent \in [Addrs -> [Readable -> Values \cup {Nothing}]]
  /\ up \in [Addrs -> SUBSET Messages]
  /\ client \in [Addrs -> {"in", "out"}]
  /\ beatAge \in [Addrs -> 0 .. HeartbeatDelay]
  /\ missed \in [Addrs -> 0 .. MaxLost]
  /\ switched \subseteq Addrs /\ heard \in [Addrs -> BOOLEAN]

(* A subscriber that stopped beating is sent updates for at most           *)
(* EVICTION_INTERVAL plus the distance of two ticks after its expiry, and  *)
(* subscribers hear the route's own heartbeat as regularly                 *)
(* (osc_params.rs:454-475).                                                *)
StaleBound ==
  /\ \A a \in Subscribers : left[a] > 1 - EVICTION_INTERVAL - TickGap
  /\ hbAge < HeartbeatInterval + TickGap

(* A client that keeps beating stays subscribed, however many of its       *)
(* messages are lost, if never more than MaxLost in a row: the sweep takes *)
(* only clients that went silent (subscribe.lua:28, osc_params.rs:364,     *)
(* 458).                                                                   *)
BeatingStays == \A a \in Addrs : heard[a] => a \in Subscribers

(* Whatever mix of OSC, MIDI, resync, late and repeated subscriptions      *)
(* happened, the last value a subscriber was sent of a param is the value  *)
(* the param has (osc_params.rs:341, 367, 278-295, 426-442, 502-518).      *)
SubscribersCaughtUp ==
  \A a \in Subscribers, p \in Readable : sent[a][p] = value[p]

(* Between two events send_osc without a target reaches exactly the        *)
(* subscribers (route.rs:858, 873).                                        *)
CacheCurrent == cache = Subscribers

(* A client whose layout is closed is forgotten, even when its unsubscribe *)
(* is lost or is overtaken by a heartbeat that subscribes it again.        *)
GoneForgotten ==
  \A a \in Addrs : (client[a] = "out") ~> (a \notin Subscribers \/ client[a] = "in")

(* A client whose layout is open ends up subscribed and caught up, also    *)
(* after the route restarted and lost its subscribers, without a second    *)
(* subscribe (osc_params.rs:352-371).                                      *)
OpenRecovers ==
  \A a \in Addrs :
     (client[a] = "in") ~> (\/ a \in Subscribers /\ \A p \in Readable : sent[a][p] = value[p]
                            \/ client[a] = "out")

(* Subscriptions follow the layouts: open, in the end a client is on file  *)
(* and caught up, and closed it is forgotten, through lost and overtaken   *)
(* messages and restarts of the route.                                     *)
SubscriptionsSettle == GoneForgotten /\ OpenRecovers

-----------------------------------------------------------------------------
(* A claim the code does not keep.                                         *)

(* osc_params.rs:302, "Push every readable param's current value"; README, *)
(* subscribe "sends current state of all get-able params immediately": a   *)
(* subscriber holds a value of each param whose get() never fails.         *)
HealthyParamsPushed ==
  \A a \in Subscribers, p \in Readable \ Flaky : sent[a][p] # Nothing
=============================================================================
