--------------------------- MODULE OscParamsProofs ---------------------------
(***************************************************************************)
(* Safety of the subscriptions of one route, for every set of clients and  *)
(* params, every binding and every choice of intervals: who is subscribed, *)
(* for how long, and what subscribers were last sent.                      *)
(***************************************************************************)
EXTENDS OscParams, TLAPS

-----------------------------------------------------------------------------
(* The intervals, one by one.                                              *)
LEMMA Intervals ==
  /\ Timeout \in Nat /\ Timeout > 0
  /\ EVICTION_INTERVAL \in Nat /\ EVICTION_INTERVAL > 0
  /\ HeartbeatInterval \in Nat /\ HeartbeatInterval > 0
  /\ TickGap \in Nat /\ TickGap > 0
  /\ HeartbeatDelay \in Nat /\ HeartbeatDelay > 0
  /\ MaxLost \in Nat
  BY TimeAssumption

(* Initially every variable has its type.                                  *)
LEMMA TypeInit == Init => TypeOK
  BY Intervals, SMT DEF Init, TypeOK, Subscribers, Messages

(* The four ways a message of a client or a tick changes the subscribers.  *)
LEMMA RegisterType ==
  ASSUME TypeOK, NEW a \in Addrs, Register(a)
  PROVE  /\ DOMAIN left' = Subscribers \cup {a}
         /\ left'[a] = Timeout
         /\ \A b \in Subscribers \ {a} : left'[b] = left[b]
  BY DEF Register

(* Forgetting subscribers keeps the expiry of the others.                  *)
LEMMA ForgetType ==
  ASSUME TypeOK, NEW S, Forget(S)
  PROVE  /\ DOMAIN left' = Subscribers \ S
         /\ \A b \in Subscribers \ S : left'[b] = left[b]
  BY DEF Forget

(* A dump sends values of params (dump_state_to).                          *)
LEMMA DumpType ==
  ASSUME TypeOK, NEW a \in Addrs, Dump(a)
  PROVE  sent' \in [Addrs -> [Readable -> Values \cup {Nothing}]]
  <1>1. PICK P \in Dumped :
          sent' = [sent EXCEPT ![a] = [p \in Readable |->
                     IF p \in P THEN value[p] ELSE sent[a][p]]]
    BY DEF Dump
  <1>2. [p \in Readable |-> IF p \in P THEN value[p] ELSE sent[a][p]]
          \in [Readable -> Values \cup {Nothing}]
    BY ParamsAssumption DEF TypeOK
  <1>3. QED
    BY <1>1, <1>2 DEF TypeOK

(* A notification sends values of params (notify_subscribers).             *)
LEMMA NotifyType ==
  ASSUME TypeOK, value' \in [Params -> Values], NEW P, Notify(P)
  PROVE  sent' \in [Addrs -> [Readable -> Values \cup {Nothing}]]
  BY ParamsAssumption DEF TypeOK, Notify

(* A set stores a value (OscParamSet::handle_osc).                         *)
LEMMA SetsType ==
  ASSUME NEW P, Sets(P)
  PROVE  value' \in [Params -> Values]
  BY DEF Sets

(* A message that arrives changes the subscribers by one, and has its      *)
(* sender sent at most a dump.                                             *)
LEMMA DeliverParts ==
  ASSUME TypeOK, NEW a \in Addrs, NEW m \in Messages, Deliver(a, m)
  PROVE  /\ m \in {"subscribe", "heartbeat"} =>
              /\ Register(a)
              /\ \/ sent' = sent /\ a \in Subscribers
                 \/ Dump(a)
         /\ m = "unsubscribe" => Forget({a}) /\ sent' = sent
  BY DEF Deliver, Subscribe, Heartbeat, Unsubscribe

(* Whatever message arrives, types are kept.                               *)
LEMMA DeliverType ==
  ASSUME TypeOK, NEW a \in Addrs, NEW m \in Messages, Deliver(a, m)
  PROVE  TypeOK'
  <1>1. /\ DOMAIN left' \subseteq Addrs
        /\ \A b \in DOMAIN left' : left'[b] \in Int
    <2>1. CASE m = "unsubscribe"
      BY <2>1, DeliverParts, ForgetType DEF TypeOK
    <2>2. CASE m \in {"subscribe", "heartbeat"}
      <3>1. Register(a)
        BY <2>2, DeliverParts
      <3>2. /\ DOMAIN left' = Subscribers \cup {a}
            /\ left'[a] = Timeout
            /\ \A b \in Subscribers \ {a} : left'[b] = left[b]
        BY <3>1, RegisterType
      <3>3. QED
        BY <3>2, Intervals, SMT DEF TypeOK
    <2>3. QED
      BY <2>1, <2>2 DEF Messages
  <1>2. sent' \in [Addrs -> [Readable -> Values \cup {Nothing}]]
    BY DeliverParts, DumpType DEF TypeOK, Messages
  <1>3. cache' \subseteq Addrs
    BY <1>1 DEF Deliver, Recache
  <1>4. missed' \in [Addrs -> 0 .. MaxLost]
    BY Intervals DEF Deliver, TypeOK
  <1>5. /\ up' \in [Addrs -> SUBSET Messages]
        /\ heard' \in [Addrs -> BOOLEAN]
    BY DEF Deliver, TypeOK
  <1>6. QED
    BY <1>1, <1>2, <1>3, <1>4, <1>5 DEF Deliver, TypeOK, Subscribers

(* Every step keeps the types.                                             *)
LEMMA TypeStep == TypeOK /\ [Next]_vars => TypeOK'
  <1> SUFFICES ASSUME TypeOK, [Next]_vars PROVE TypeOK'
    OBVIOUS
  <1> USE Intervals DEF clientVars, routeVars
  <1>1. ASSUME NEW a \in Addrs, ClientStep(a) PROVE TypeOK'
    <2>1. up' \in [Addrs -> SUBSET Messages]
      BY <1>1 DEF ClientStep, Open, Beat, Close, Send, TypeOK, Messages
    <2>2. /\ client' \in [Addrs -> {"in", "out"}]
          /\ heard' \in [Addrs -> BOOLEAN]
          /\ switched' \subseteq Addrs
      BY <1>1 DEF ClientStep, Open, Beat, Close, TypeOK
    <2>3. beatAge' \in [Addrs -> 0 .. HeartbeatDelay]
      BY <1>1, SMT DEF ClientStep, Open, Beat, Close, TypeOK
    <2>4. QED
      BY <1>1, <2>1, <2>2, <2>3 DEF ClientStep, Open, Beat, Close, TypeOK, Subscribers
  <1>2. ASSUME NEW a \in Addrs, NEW m \in Messages, Deliver(a, m) PROVE TypeOK'
    BY <1>2, DeliverType
  <1>3. ASSUME NEW a \in Addrs, NEW m \in Messages, Lose(a, m) PROVE TypeOK'
    BY <1>3, SMT DEF Lose, TypeOK, Subscribers
  <1>4. ASSUME NEW p \in Params, OscSet(p) PROVE TypeOK'
    <2>1. value' \in [Params -> Values]
      BY <1>4, SetsType DEF OscSet
    <2>2. sent' \in [Addrs -> [Readable -> Values \cup {Nothing}]]
      BY <1>4, <2>1, NotifyType DEF OscSet, TypeOK
    <2>3. QED
      BY <1>4, <2>1, <2>2 DEF OscSet, Recache, TypeOK, Subscribers
  <1>5. ASSUME NEW p \in Params, OscTrigger(p) PROVE TypeOK'
    BY <1>5, SetsType DEF OscTrigger, Recache, TypeOK, Subscribers
  <1>6. CASE MidiDispatch
    <2>1. /\ \E P : Sets(P)
          /\ \E P : Notify(P)
          /\ UNCHANGED <<left, evAge, hbAge, gap, cache, clientVars>>
      BY <1>6 DEF MidiDispatch
    <2>2. QED
      BY <2>1, SetsType, NotifyType DEF TypeOK, Subscribers
  <1>7. CASE Resync
    <2>1. /\ \E P : Sets(P)
          /\ \E P : Notify(P)
          /\ UNCHANGED <<left, evAge, hbAge, gap, cache, clientVars>>
      BY <1>7 DEF Resync
    <2>2. QED
      BY <2>1, SetsType, NotifyType DEF TypeOK, Subscribers
  <1>8. CASE OscTick
    <2>1. /\ DOMAIN left' \subseteq Subscribers
          /\ \A a \in DOMAIN left' : left'[a] = left[a]
      BY <1>8, ForgetType DEF OscTick, Subscribers
    <2>2. evAge' \in Nat /\ hbAge' \in Nat /\ gap' \in 0 .. TickGap
      BY <1>8, SMT DEF OscTick, TypeOK
    <2>3. QED
      BY <1>8, <2>1, <2>2 DEF OscTick, Recache, TypeOK, Subscribers
  <1>9. CASE Restart
    BY <1>9, SMT DEF Restart, TypeOK, Subscribers
  <1>10. CASE Advance
    <2>1. beatAge' \in [Addrs -> 0 .. HeartbeatDelay]
      BY <1>10, SMT DEF Advance, TypeOK
    <2>2. DOMAIN left' = Subscribers /\ \A a \in Subscribers : left'[a] \in Int
      BY <1>10, SMT DEF Advance, TypeOK, Subscribers
    <2>3. evAge' \in Nat /\ hbAge' \in Nat /\ gap' \in 0 .. TickGap
      BY <1>10, SMT DEF Advance, TypeOK
    <2>4. QED
      BY <1>10, <2>1, <2>2, <2>3 DEF Advance, TypeOK, Subscribers
  <1>11. CASE UNCHANGED vars
    BY <1>11 DEF vars, TypeOK, Subscribers
  <1>12. QED
    BY <1>1, <1>2, <1>3, <1>4, <1>5, <1>6, <1>7, <1>8, <1>9, <1>10, <1>11 DEF Next

(* Every reachable state of a route's params and clients is well typed.    *)
THEOREM TypeCorrect == Spec => []TypeOK
  <1>1. QED
    BY TypeInit, TypeStep, PTL DEF Spec

-----------------------------------------------------------------------------
(* The cache of subscribers.                                               *)

(* send_osc without a target always reaches exactly the subscribers.       *)
THEOREM CacheIsCurrent == Spec => []CacheCurrent
  <1>1. Init => CacheCurrent
    BY DEF Init, CacheCurrent, Subscribers
  <1>2. TypeOK /\ CacheCurrent /\ [Next]_vars => CacheCurrent'
    <2> SUFFICES ASSUME TypeOK, CacheCurrent, [Next]_vars PROVE CacheCurrent'
      OBVIOUS
    <2> USE DEF CacheCurrent, Subscribers, Recache, clientVars, routeVars
    <2>1. ASSUME NEW a \in Addrs, ClientStep(a) PROVE CacheCurrent'
      BY <2>1 DEF ClientStep, Open, Beat, Close
    <2>2. ASSUME NEW a \in Addrs, NEW m \in Messages, Deliver(a, m) \/ Lose(a, m)
          PROVE  CacheCurrent'
      BY <2>2 DEF Deliver, Lose
    <2>3. ASSUME NEW p \in Params, OscSet(p) \/ OscTrigger(p) PROVE CacheCurrent'
      BY <2>3 DEF OscSet, OscTrigger
    <2>4. CASE MidiDispatch \/ Resync
      BY <2>4 DEF MidiDispatch, Resync
    <2>5. CASE OscTick \/ Restart \/ Advance
      BY <2>5 DEF OscTick, Restart, Advance
    <2>6. CASE UNCHANGED vars
      BY <2>6 DEF vars
    <2>7. QED
      BY <2>1, <2>2, <2>3, <2>4, <2>5, <2>6 DEF Next
  <1>3. QED
    BY <1>1, <1>2, TypeCorrect, PTL DEF Spec

-----------------------------------------------------------------------------
(* Time.                                                                   *)

(* The route's intervals cannot be missed by more than the distance of two *)
(* ticks, and a subscriber cannot have expired before the last sweep.      *)
TimeInv ==
  /\ evAge < EVICTION_INTERVAL + gap
  /\ hbAge < HeartbeatInterval + gap
  /\ \A a \in Subscribers : left[a] >= 1 - evAge

(* What is in flight was sent in this second.                              *)
FlightInv == \A a \in Addrs : up[a] # {} => beatAge[a] = 0

(* Each message lost costs a client that beats one beat; the one in flight *)
(* may be lost as well.                                                    *)
Slack(n) == HeartbeatDelay * n

Renewed(a) ==
  IF up[a] = {} THEN left[a] >= Timeout - Slack(missed[a]) - beatAge[a]
  ELSE left[a] >= Timeout - Slack(missed[a] + 1)

BeatInv ==
  \A a \in Addrs : heard[a] => a \in Subscribers /\ client[a] = "in" /\ Renewed(a)

(* Each lost beat costs one delay, and the timeout exceeds what all of     *)
(* them cost.                                                              *)
LEMMA SlackProperties ==
  /\ Slack(0) = 0
  /\ \A n \in Nat : Slack(n) \in Nat /\ Slack(n + 1) = Slack(n) + HeartbeatDelay
  /\ \A n \in 0 .. MaxLost : Slack(n) + HeartbeatDelay < Timeout
  <1>1. /\ Slack(0) = 0
        /\ \A n \in Nat : Slack(n) \in Nat /\ Slack(n + 1) = Slack(n) + HeartbeatDelay
    BY Intervals, SMT DEF Slack
  <1>2. ASSUME NEW n \in 0 .. MaxLost PROVE Slack(n) + HeartbeatDelay < Timeout
    <2>1. HeartbeatDelay * n <= HeartbeatDelay * MaxLost
      BY Intervals, SMT
    <2>2. HeartbeatDelay * (MaxLost + 1) = HeartbeatDelay * MaxLost + HeartbeatDelay
      BY Intervals, SMT
    <2>3. HeartbeatDelay * n \in Nat /\ HeartbeatDelay * MaxLost \in Nat
      BY Intervals, SMT
    <2>4. QED
      BY <2>1, <2>2, <2>3, Intervals, BeatAssumption, SMT DEF Slack
  <1>3. QED
    BY <1>1, <1>2

(* The parts of the invariant about time hold initially.                   *)
LEMMA TimeInit == Init => TimeInv /\ FlightInv /\ BeatInv
  BY Intervals, SMT DEF Init, TimeInv, FlightInv, BeatInv, Subscribers

(* Every step keeps TimeInv: the route's intervals are missed by less than *)
(* the distance of two ticks.                                              *)
LEMMA TimeStep == TypeOK /\ TimeInv /\ [Next]_vars => TimeInv'
  <1> SUFFICES ASSUME TypeOK, TimeInv, [Next]_vars PROVE TimeInv'
    OBVIOUS
  <1> USE Intervals DEF clientVars, routeVars
  <1>1. ASSUME NEW a \in Addrs, NEW m \in Messages, Deliver(a, m) PROVE TimeInv'
    <2>1. \A b \in DOMAIN left' : \/ left'[b] = Timeout
                                  \/ b \in Subscribers /\ left'[b] = left[b]
      BY <1>1, DeliverParts, RegisterType, ForgetType DEF Messages
    <2>2. UNCHANGED <<evAge, hbAge, gap>>
      BY <1>1 DEF Deliver
    <2>3. QED
      BY <2>1, <2>2, SMT DEF TimeInv, TypeOK, Subscribers
  <1>2. CASE UNCHANGED <<left, evAge, hbAge, gap>>
    BY <1>2 DEF TimeInv, Subscribers
  <1>3. CASE OscTick
    <2>1. CASE evAge >= EVICTION_INTERVAL
      <3>1. \A a \in DOMAIN left' : /\ a \in Subscribers \ Expired
                                    /\ left'[a] = left[a]
        BY <1>3, <2>1, ForgetType DEF OscTick
      <3>2. \A a \in DOMAIN left' : left'[a] >= 1
        BY <3>1, SMT DEF Expired, TypeOK
      <3>3. QED
        BY <1>3, <2>1, <3>2, SMT DEF OscTick, TimeInv, TypeOK, Subscribers
    <2>2. CASE ~(evAge >= EVICTION_INTERVAL)
      BY <1>3, <2>2, SMT DEF OscTick, TimeInv, TypeOK, Subscribers
    <2>3. QED
      BY <2>1, <2>2
  <1>4. CASE Restart
    BY <1>4, SMT DEF Restart, TimeInv, TypeOK, Subscribers
  <1>5. CASE Advance
    BY <1>5, SMT DEF Advance, TimeInv, TypeOK, Subscribers
  <1>6. ASSUME NEW a \in Addrs, ClientStep(a) PROVE UNCHANGED <<left, evAge, hbAge, gap>>
    BY <1>6 DEF ClientStep, Open, Beat, Close
  <1>7. ASSUME NEW a \in Addrs, NEW m \in Messages, Lose(a, m)
        PROVE  UNCHANGED <<left, evAge, hbAge, gap>>
    BY <1>7 DEF Lose
  <1>8. ASSUME NEW p \in Params, OscSet(p) \/ OscTrigger(p)
        PROVE  UNCHANGED <<left, evAge, hbAge, gap>>
    BY <1>8 DEF OscSet, OscTrigger
  <1>9. CASE MidiDispatch \/ Resync \/ UNCHANGED vars
    BY <1>2, <1>9 DEF MidiDispatch, Resync, vars
  <1>10. QED
    BY <1>1, <1>2, <1>3, <1>4, <1>5, <1>6, <1>7, <1>8, <1>9 DEF Next

(* A silent client is served for a bounded time, and the route's heartbeat *)
(* comes at bounded distances.                                             *)
THEOREM StaleIsBounded == Spec => []StaleBound
  <1>1. TypeOK /\ TimeInv => StaleBound
    BY Intervals, SMT DEF TypeOK, TimeInv, StaleBound
  <1>2. QED
    BY <1>1, TimeInit, TimeStep, TypeCorrect, PTL DEF Spec
(* Of one client: what changes nothing of its subscription, or only clears *)
(* heard, keeps the promise made to it.                                    *)
LEMMA KeepsBeat ==
  ASSUME BeatInv, NEW a \in Addrs,
         heard'[a] => heard[a],
         a \in Subscribers => a \in Subscribers' /\ left'[a] = left[a],
         heard'[a] => /\ client'[a] = client[a] /\ up'[a] = up[a]
                      /\ beatAge'[a] = beatAge[a] /\ missed'[a] = missed[a]
  PROVE  heard'[a] => a \in Subscribers' /\ client'[a] = "in" /\ Renewed(a)'
  BY DEF BeatInv, Renewed

(* Every step keeps FlightInv: what is under way was sent within this      *)
(* second.                                                                 *)
LEMMA FlightStep == TypeOK /\ FlightInv /\ [Next]_vars => FlightInv'
  <1> SUFFICES ASSUME TypeOK, FlightInv, [Next]_vars PROVE FlightInv'
    OBVIOUS
  <1> USE DEF FlightInv, TypeOK, clientVars, routeVars
  <1>1. ASSUME NEW a \in Addrs, ClientStep(a) PROVE FlightInv'
    BY <1>1, Intervals, SMT DEF ClientStep, Open, Beat, Close, Send
  <1>2. ASSUME NEW a \in Addrs, NEW m \in Messages, Deliver(a, m) \/ Lose(a, m)
        PROVE  FlightInv'
    BY <1>2 DEF Deliver, Lose
  <1>3. CASE UNCHANGED clientVars
    BY <1>3
  <1>4. CASE Restart
    BY <1>4 DEF Restart
  <1>5. CASE Advance
    BY <1>5 DEF Advance
  <1>6. QED
    BY <1>1, <1>2, <1>3, <1>4, <1>5
    DEF Next, OscSet, OscTrigger, MidiDispatch, Resync, OscTick, vars

(* Every step keeps BeatInv: the expiry of a client that is heard is ahead *)
(* by all the beats it may still lose.                                     *)
LEMMA BeatStep == TypeOK /\ FlightInv /\ BeatInv /\ [Next]_vars => BeatInv'
  <1> SUFFICES ASSUME TypeOK, FlightInv, BeatInv, [Next]_vars, NEW b \in Addrs, heard'[b]
               PROVE  b \in Subscribers' /\ client'[b] = "in" /\ Renewed(b)'
    BY DEF BeatInv
  <1> USE DEF clientVars, routeVars
  <1>1. ASSUME NEW a \in Addrs, Open(a) \/ Close(a)
        PROVE  b \in Subscribers' /\ client'[b] = "in" /\ Renewed(b)'
    <2>1. a # b
      BY <1>1 DEF Open, Close, TypeOK
    <2>2. QED
      BY <1>1, <2>1, KeepsBeat DEF Open, Close, Send, TypeOK, Subscribers
  <1>2. ASSUME NEW a \in Addrs, Beat(a)
        PROVE  b \in Subscribers' /\ client'[b] = "in" /\ Renewed(b)'
    <2>1. CASE a # b
      BY <1>2, <2>1, KeepsBeat DEF Beat, Send, TypeOK, Subscribers
    <2>2. CASE a = b
      <3>1. /\ b \in Subscribers' /\ left'[b] = left[b] /\ client'[b] = "in"
            /\ Renewed(b) /\ heard[b]
        BY <1>2, <2>2 DEF Beat, BeatInv, Subscribers
      <3>2. beatAge[b] = HeartbeatDelay
        <4>1. beatAge[b] >= HeartbeatDelay
          BY <1>2, <2>2 DEF Beat
        <4>2. beatAge[b] \in 0 .. HeartbeatDelay
          BY DEF TypeOK
        <4>3. QED
          BY <4>1, <4>2, Intervals, SMT
      <3>3. up'[b] # {} /\ missed'[b] = missed[b]
        BY <1>2, <2>2 DEF Beat, Send, TypeOK
      <3>4. left[b] >= Timeout - Slack(missed[b] + 1)
        <4>1. up[b] = {}
          BY <3>2, Intervals, SMT DEF FlightInv
        <4>2. missed[b] \in Nat /\ left[b] \in Int
          BY <1>2, <2>2, <3>1, Intervals DEF TypeOK, BeatInv
        <4>3. QED
          BY <3>1, <3>2, <4>1, <4>2, SlackProperties, Intervals, SMT DEF Renewed
      <3>5. QED
        BY <3>1, <3>3, <3>4 DEF Renewed
    <2>3. QED
      BY <2>1, <2>2
  <1>3. ASSUME NEW a \in Addrs, NEW m \in Messages, Deliver(a, m)
        PROVE  b \in Subscribers' /\ client'[b] = "in" /\ Renewed(b)'
    <2>1. CASE a # b
      <3>1. b \in Subscribers => b \in Subscribers' /\ left'[b] = left[b]
        <4>1. CASE m = "unsubscribe"
          <5>1. Forget({a})
            BY <1>3, <4>1, DeliverParts
          <5>2. QED
            BY <2>1, <5>1 DEF Forget, Subscribers
        <4>2. CASE m \in {"subscribe", "heartbeat"}
          <5>1. Register(a)
            BY <1>3, <4>2, DeliverParts
          <5>2. QED
            BY <2>1, <5>1 DEF Register, Subscribers
        <4>3. QED
          BY <4>1, <4>2 DEF Messages
      <3>2. QED
        BY <1>3, <2>1, <3>1, KeepsBeat DEF Deliver, TypeOK
    <2>2. CASE a = b
      <3>1. m # "unsubscribe" /\ client'[b] = "in"
        BY <1>3, <2>2 DEF Deliver, TypeOK
      <3>2. b \in Subscribers' /\ left'[b] = Timeout
        BY <1>3, <2>2, <3>1, DeliverParts, RegisterType DEF Messages, Subscribers
      <3>3. missed'[b] = 0 /\ beatAge'[b] \in Nat
        BY <1>3, <2>2, Intervals DEF Deliver, TypeOK
      <3>4. QED
        BY <3>1, <3>2, <3>3, SlackProperties, Intervals, SMT DEF Renewed
    <2>3. QED
      BY <2>1, <2>2
  <1>4. ASSUME NEW a \in Addrs, NEW m \in Messages, Lose(a, m)
        PROVE  b \in Subscribers' /\ client'[b] = "in" /\ Renewed(b)'
    <2>1. CASE a # b
      BY <1>4, <2>1, KeepsBeat DEF Lose, TypeOK, Subscribers
    <2>2. CASE a = b
      <3>1. /\ b \in Subscribers' /\ left'[b] = left[b] /\ client'[b] = "in"
            /\ Renewed(b) /\ b \in Subscribers
        BY <1>4, <2>2 DEF Lose, BeatInv, Subscribers
      <3>2. up[b] # {} /\ beatAge'[b] = 0
        BY <1>4, <2>2 DEF Lose, FlightInv
      <3>3. missed[b] \in Nat /\ missed'[b] = missed[b] + 1
        BY <1>4, <2>2, Intervals, SMT DEF Lose, TypeOK
      <3>4. left[b] >= Timeout - Slack(missed[b] + 1) /\ left[b] \in Int
        BY <3>1, <3>2 DEF Renewed, TypeOK
      <3>5. missed[b] + 1 \in Nat
        BY <3>3, SMT
      <3>6. Slack(missed[b] + 1) \in Nat
            /\ Slack(missed[b] + 1 + 1) = Slack(missed[b] + 1) + HeartbeatDelay
        BY <3>5, SlackProperties
      <3>7. QED
        BY <3>1, <3>2, <3>3, <3>4, <3>6, Intervals, SMT DEF Renewed
    <2>3. QED
      BY <2>1, <2>2
  <1>5. CASE OscTick
    <2>1. /\ b \in Subscribers /\ Renewed(b) /\ client'[b] = "in"
          /\ UNCHANGED <<up, missed, beatAge>>
      BY <1>5 DEF OscTick, BeatInv
    <2>2. left[b] > 0
      <3>1. missed[b] \in 0 .. MaxLost /\ beatAge[b] \in 0 .. HeartbeatDelay /\ left[b] \in Int
        BY <2>1 DEF TypeOK
      <3>2. /\ Slack(missed[b]) \in Nat
            /\ Slack(missed[b] + 1) = Slack(missed[b]) + HeartbeatDelay
            /\ Slack(missed[b]) + HeartbeatDelay < Timeout
        BY <3>1, SlackProperties, Intervals
      <3>3. QED
        BY <2>1, <3>1, <3>2, Intervals, SMT DEF Renewed
    <2>3. b \notin Expired
      BY <2>1, <2>2, SMT DEF Expired, TypeOK
    <2>4. b \in Subscribers' /\ left'[b] = left[b]
      BY <1>5, <2>1, <2>3, ForgetType DEF OscTick, Subscribers
    <2>5. QED
      BY <2>1, <2>4 DEF Renewed
  <1>6. CASE Restart
    BY <1>6 DEF Restart
  <1>7. CASE Advance
    <2>1. heard[b] /\ client[b] = "in" /\ b \in Subscribers /\ up[b] = {} /\ Renewed(b)
      BY <1>7 DEF Advance, BeatInv
    <2>2. /\ b \in Subscribers' /\ left'[b] = left[b] - 1 /\ client'[b] = "in"
          /\ beatAge'[b] = beatAge[b] + 1
          /\ up'[b] = {} /\ missed'[b] = missed[b]
      BY <1>7, <2>1 DEF Advance, Subscribers
    <2>3. /\ left[b] \in Int /\ beatAge[b] \in Nat /\ Slack(missed[b]) \in Nat
      BY <2>1, Intervals, SlackProperties DEF TypeOK
    <2>4. QED
      BY <2>1, <2>2, <2>3, Intervals, SMT DEF Renewed
  <1>8. CASE UNCHANGED <<left, clientVars>>
    BY <1>8, KeepsBeat DEF Subscribers
  <1>9. QED
    BY <1>1, <1>2, <1>3, <1>4, <1>5, <1>6, <1>7, <1>8
    DEF Next, ClientStep, OscSet, OscTrigger, MidiDispatch, Resync, vars

(* A client that beats stays subscribed, whatever is lost of it within the *)
(* bound: its expiry is further away than its next message can be.         *)
THEOREM BeatingClientsStay == Spec => []BeatingStays
  <1>1. BeatInv => BeatingStays
    BY DEF BeatInv, BeatingStays
  <1>2. QED
    BY <1>1, TimeInit, FlightStep, BeatStep, TypeCorrect, PTL DEF Spec

-----------------------------------------------------------------------------
(* What subscribers were sent.                                             *)

(* Of a client: it is on file and was sent the value of every readable     *)
(* param.                                                                  *)
CaughtUp(a) == \A p \in Readable : sent[a][p] = value[p]

(* A notification that does not fail leaves no subscriber behind.          *)
LEMMA NotifyCatchesUp ==
  ASSUME TypeOK, NEW P, Sets(P), Notify(P), NEW a \in Subscribers, CaughtUp(a)
  PROVE  CaughtUp(a)'
  BY ParamsAssumption DEF Sets, Notify, CaughtUp, TypeOK

(* No subscriber is left with an old value, if no get() or set() of the    *)
(* script raises an error.                                                 *)
THEOREM NobodyIsStale ==
  ASSUME Flaky = {}
  PROVE  Spec => []SubscribersCaughtUp
  <1> USE Flaky = {} DEF SubscribersCaughtUp, CaughtUp
  <1>1. Init => SubscribersCaughtUp
    BY DEF Init, Subscribers
  <1>2. ASSUME TypeOK, SubscribersCaughtUp, [Next]_vars PROVE SubscribersCaughtUp'
    <2> USE <1>2 DEF clientVars, routeVars
    <2>1. ASSUME NEW a \in Addrs, NEW m \in Messages, Deliver(a, m)
          PROVE  SubscribersCaughtUp'
      <3>1. UNCHANGED value
        BY <2>1 DEF Deliver
      <3>2. ASSUME Dump(a) PROVE CaughtUp(a)' /\ \A b \in Addrs \ {a} : sent'[b] = sent[b]
        BY <3>1, <3>2 DEF Dump, Dumped, TypeOK
      <3>3. ASSUME NEW b \in Subscribers' PROVE CaughtUp(b)'
        <4>1. CASE m = "unsubscribe"
          <5>1. Forget({a}) /\ sent' = sent
            BY <2>1, <4>1, DeliverParts
          <5>2. b \in Subscribers
            BY <3>3, <5>1, ForgetType DEF Subscribers
          <5>3. QED
            BY <3>1, <5>1, <5>2
        <4>2. CASE m \in {"subscribe", "heartbeat"}
          <5>1. DOMAIN left' = Subscribers \cup {a}
            BY <2>1, <4>2, DeliverParts, RegisterType
          <5>2. (sent' = sent /\ a \in Subscribers) \/ Dump(a)
            BY <2>1, <4>2, DeliverParts
          <5>3. CASE sent' = sent /\ a \in Subscribers
            BY <3>1, <3>3, <5>1, <5>3 DEF Subscribers
          <5>4. CASE Dump(a)
            BY <3>1, <3>2, <3>3, <5>1, <5>4 DEF Subscribers, TypeOK
          <5>5. QED
            BY <5>2, <5>3, <5>4
        <4>3. QED
          BY <4>1, <4>2 DEF Messages
      <3>4. QED
        BY <3>3
    <2>2. ASSUME NEW p \in Params, OscSet(p) PROVE SubscribersCaughtUp'
      BY <2>2, NotifyCatchesUp DEF OscSet, Subscribers
    <2>3. ASSUME NEW p \in Params, OscTrigger(p) PROVE SubscribersCaughtUp'
      BY <2>3, ParamsAssumption DEF OscTrigger, Sets, Subscribers
    <2>4. CASE MidiDispatch
      <3>1. /\ \E P : Sets(P) /\ Notify(P)
            /\ UNCHANGED left
        BY <2>4 DEF MidiDispatch
      <3>2. QED
        BY <3>1, NotifyCatchesUp DEF Subscribers
    <2>5. CASE Resync
      <3>1. /\ \E P : Sets(P) /\ Notify(P)
            /\ UNCHANGED left
        BY <2>5 DEF Resync
      <3>2. QED
        BY <3>1, NotifyCatchesUp DEF Subscribers
    <2>6. CASE OscTick
      BY <2>6, ForgetType DEF OscTick, Subscribers
    <2>7. CASE Restart
      BY <2>7 DEF Restart, Subscribers
    <2>8. CASE Advance
      BY <2>8 DEF Advance, Subscribers
    <2>9. CASE UNCHANGED routeVars
      BY <2>9 DEF Subscribers
    <2>10. QED
      BY <2>1, <2>2, <2>3, <2>4, <2>5, <2>6, <2>7, <2>8, <2>9
      DEF Next, ClientStep, Open, Beat, Close, Lose, vars
  <1>3. QED
    BY <1>1, <1>2, TypeCorrect, PTL DEF Spec
=============================================================================
