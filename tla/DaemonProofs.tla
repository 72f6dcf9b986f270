---------------------------- MODULE DaemonProofs ----------------------------
(***************************************************************************)
(* The registries of the daemon, for any number of routes, scripts,        *)
(* configurations and edits, and whatever fails: between two handlers they *)
(* agree, and once every report is handled they are those of the disk.     *)
(***************************************************************************)
EXTENDS Daemon, TLAPS

-----------------------------------------------------------------------------
(* The inductive invariant, by parts.                                      *)

Event    == {RouteChanged(n) : n \in Names} \cup {ConfigChanged}
Instance == [script : Scripts, ports : Nat]
Ids      == 1 .. Len(started)

World ==
  /\ disk \in [Names -> Scripts \cup {Absent}] /\ diskConfig \in Configs \cup {Broken}
  /\ events \in Seq(Event)
  /\ edits \in 0 .. MaxEdits /\ reloads \in 0 .. MaxReloads /\ asked \in BOOLEAN
  /\ missed \subseteq Names \cup {ConfigFile} /\ failed \subseteq Names

(* A handler reads and starts the routes of the names it was given; one    *)
(* that handles a changed file was given no other.                         *)
Control ==
  /\ pc \in {"load", "pick", "read", "start", "idle"} /\ mode \in {"load", "change", "reload"}
  /\ todo \subseteq Names /\ job \in Names \cup {Absent} /\ snapshot \in Scripts \cup {Absent}
  /\ config \in Configs
  /\ pc = "load" => mode = "load" /\ todo = {} /\ \A n \in Names : routes[n] = 0
  /\ pc \in {"read", "start"} => job \in Names
  /\ pc = "start" => snapshot \in Scripts
  /\ mode = "change" => todo = {}
  /\ pc = "idle" => mode = "change"

Started ==
  /\ started \in Seq(Instance)
  /\ DOMAIN fwd \subseteq Ids /\ \A p \in DOMAIN fwd : fwd[p] \in Ids
  /\ \A g \in Ids : started[g].ports \in DOMAIN fwd

Registries ==
  /\ routes \in [Names -> Instances] /\ oscTable \in [Names -> Instances]
  /\ specs \in [Names -> Scripts \cup {Absent}]
  /\ obsTable \in [Conns -> [Names -> Instances]] /\ obsRunning \in [Conns -> Nat]

(* The registries lead to the instances of the routes map, and no two      *)
(* names to one: so no two have the same ports.                            *)
AgreeInv ==
  \A n \in Names :
    /\ oscTable[n] = routes[n] /\ specs[n] = LoadedScript(n)
    /\ routes[n] # 0 => fwd[started[routes[n]].ports] = routes[n]
    /\ \A m \in Names : routes[n] # 0 /\ routes[m] = routes[n] => m = n

(* A handler of one changed file that fails leaves the receivers as the    *)
(* handler before it did.                                                  *)
ReceiverInv ==
  pc = "idle" \/ (mode = "change" /\ pc \in {"read", "start"})
    => receivers = Needed(routes, config) \ unbound

(* What is not on its way to the daemon has arrived or was lost.           *)
Pending(e) == \E k \in 1 .. Len(events) : events[k] = e

Due(n) ==
  \/ Pending(RouteChanged(n)) \/ n \in missed \cup failed
  \/ disk[n] # Absent /\ (n \in todo \/ (pc = "read" /\ job = n))
  \/ pc = "start" /\ job = n

FreshInv ==
  \A n \in Names : pc = "load" \/ LoadedScript(n) = disk[n] \/ Due(n)

StartInv ==
  pc = "start" =>
    snapshot = disk[job] \/ Pending(RouteChanged(job)) \/ job \in missed

ConfigInv == ConfigCaught \/ Pending(ConfigChanged)

ObsInv ==
  \A n \in Names, x \in Conns :
    routes[n] # 0 /\ x \in ObsConns[LoadedScript(n)] /\ obsRunning[x] # 0 =>
      obsTable[x][n] = routes[n] \/ Due(n)

(* Since the last reload nothing was edited.                               *)
ReloadInv ==
  asked = TRUE =>
    /\ pc = "start" => snapshot = disk[job]
    /\ \A n \in Names :
         routes[n] # 0 /\ disk[n] # Absent =>
           LoadedScript(n) = disk[n] \/ n \in failed \cup todo
           \/ (pc \in {"read", "start"} /\ job = n)

Shape == World /\ Control /\ Started /\ Registries

IInv == /\ Shape /\ AgreeInv /\ ReceiverInv /\ FreshInv /\ StartInv /\ ConfigInv
        /\ ObsInv /\ ReloadInv

-----------------------------------------------------------------------------
(* The steps, by what they change.                                         *)

(* Notifications of different files differ, and none is the                *)
(* configuration's.                                                        *)
LEMMA EventParts ==
  /\ \A n \in Names : RouteChanged(n) \in Event /\ RouteChanged(n) # ConfigChanged
                      /\ RouteChanged(n)[2] = n
  /\ ConfigChanged \in Event
  /\ \A e \in Event : e # ConfigChanged => \E n \in Names : e = RouteChanged(n)
  /\ \A m, n \in Names : RouteChanged(m) = RouteChanged(n) => m = n
  BY DEF Event, RouteChanged, ConfigChanged

(* Taking an event, the oldest: the others are still to come.              *)
LEMMA Taken ==
  ASSUME World, events # <<>>, events' = Tail(events)
  PROVE  /\ events' \in Seq(Event) /\ Len(events) \in Nat /\ Len(events) > 0
         /\ events[1] = Head(events) /\ Head(events) \in Event
         /\ \A e : Pending(e) => (Pending(e))' \/ e = Head(events)
  <1>1. /\ events \in Seq(Event) /\ Len(events) \in Nat /\ Len(events) > 0
        /\ events' \in Seq(Event) /\ Len(events') = Len(events) - 1
        /\ Head(events) = events[1] /\ Head(events) \in Event
        /\ \A k \in 1 .. Len(events) - 1 : events'[k] = events[k + 1]
    BY DEF World
  <1>2. ASSUME NEW e, NEW k \in 1 .. Len(events), events[k] = e, e # Head(events) PROVE (Pending(e))'
    <2>1. k - 1 \in 1 .. Len(events) - 1 /\ (k - 1) + 1 = k
      BY <1>1, <1>2
    <2>2. k - 1 \in 1 .. Len(events') /\ events'[k - 1] = e
      BY <1>1, <1>2, <2>1
    <2>3. QED
      BY <2>2 DEF Pending
  <1>3. QED
    BY <1>1, <1>2 DEF Pending

(* An edit is reported or is missed, and what was pending is still.        *)
LEMMA Edited ==
  ASSUME World, NEW e \in Event, NEW file \in Names \cup {ConfigFile}, Report(e, file)
  PROVE  /\ events' \in Seq(Event) /\ failed' = failed
         /\ (Pending(e))' \/ file \in missed'
         /\ \A d : Pending(d) => (Pending(d))'
         /\ \A f : f # file => (f \in missed' <=> f \in missed)
         /\ missed' \subseteq Names \cup {ConfigFile}
  <1>1. CASE events' = Append(events, e) /\ missed' = missed \ {file}
    <2>1. /\ events \in Seq(Event) /\ Len(events) \in Nat
          /\ events' \in Seq(Event) /\ Len(events') = Len(events) + 1
          /\ events'[Len(events) + 1] = e
          /\ \A k \in 1 .. Len(events) : events'[k] = events[k]
      BY <1>1 DEF World
    <2>2. Len(events) + 1 \in 1 .. Len(events') /\ \A k \in 1 .. Len(events) : k \in 1 .. Len(events')
      BY <2>1
    <2>3. (Pending(e))' /\ \A d : Pending(d) => (Pending(d))'
      BY <2>1, <2>2 DEF Pending
    <2>4. QED
      BY <1>1, <2>1, <2>3 DEF World, Report
  <1>2. CASE events' = events /\ missed' = missed \cup {file}
    BY <1>2 DEF World, Report, Pending
  <1>3. QED
    BY <1>1, <1>2 DEF Report

(* A registered number is that of an instance, which has a script and      *)
(* ports.                                                                  *)
LEMMA StartedParts ==
  ASSUME Started, Registries
  PROVE  /\ Len(started) \in Nat
         /\ \A g \in Ids : started[g] \in Instance /\ started[g].script \in Scripts
                           /\ started[g].ports \in DOMAIN fwd /\ started[g].ports \in Ids
         /\ \A n \in Names : routes[n] \in Nat /\ (routes[n] # 0 => routes[n] \in Ids)
  <1>1. /\ started \in Seq(Instance) /\ DOMAIN fwd \subseteq Ids
        /\ \A g \in Ids : started[g].ports \in DOMAIN fwd
        /\ routes \in [Names -> 0 .. Len(started)]
    BY DEF Started, Registries, Instances
  <1>2. Len(started) \in Nat /\ \A g \in Ids : started[g] \in Instance
    BY <1>1 DEF Ids
  <1>3. \A g \in Ids : started[g].script \in Scripts
    BY <1>2 DEF Instance
  <1>4. \A n \in Names : routes[n] \in Nat /\ (routes[n] # 0 => routes[n] \in Ids)
    BY <1>1, <1>2 DEF Ids
  <1>5. QED
    BY <1>1, <1>2, <1>3, <1>4

(* An instance that starts has a new number; it keeps the ports of the one *)
(* it replaces, or has new ones under that number.                         *)
Installed(g, p) ==
  /\ g = Len(started) + 1 /\ Len(started') = g /\ started' \in Seq(Instance)
  /\ \A k \in Ids : started'[k] = started[k]
  /\ started'[g].script = snapshot /\ started'[g].ports = p
  /\ DOMAIN fwd' = DOMAIN fwd \cup {p} /\ fwd'[p] = g
  /\ \A q \in DOMAIN fwd : q # p => fwd'[q] = fwd[q]
  /\ p = g \/ (routes[job] # 0 /\ p = started[routes[job]].ports)
  /\ routes' = [routes EXCEPT ![job] = g] /\ oscTable' = [oscTable EXCEPT ![job] = g]
  /\ specs' = [specs EXCEPT ![job] = snapshot]
  /\ obs_register(job, g, ObsConns[snapshot])

(* What Install changes: a new instance, under the name it was read for.   *)
LEMMA InstallEffect ==
  ASSUME Shape, Install
  PROVE  /\ job \in Names /\ snapshot \in Scripts /\ pc = "start" /\ pc' = "pick"
         /\ failed' = failed \ {job} /\ job' = Absent /\ snapshot' = Absent
         /\ UNCHANGED <<worldVars, missed, mode, todo, config, recvVars, obsRunning>>
         /\ \E p \in 1 .. Len(started) + 1 : Installed(Len(started) + 1, p)
  <1>1. /\ pc = "start" /\ pc' = "pick" /\ failed' = failed \ {job}
        /\ job' = Absent /\ snapshot' = Absent
        /\ UNCHANGED <<worldVars, missed, mode, todo, config, recvVars, obsRunning>>
    BY DEF Install, Done
  <1>2. job \in Names /\ snapshot \in Scripts
    BY <1>1 DEF Shape, Control
  <1>3. PICK p : /\ p = Ports(job, snapshot)
                 /\ started' = Append(started, [script |-> snapshot, ports |-> p])
                 /\ Redirect(Len(started) + 1, p)
                 /\ specs' = [specs EXCEPT ![job] = snapshot]
                 /\ oscTable' = [oscTable EXCEPT ![job] = Len(started) + 1]
                 /\ obs_register(job, Len(started) + 1, ObsConns[snapshot])
                 /\ routes' = [routes EXCEPT ![job] = Len(started) + 1]
    BY DEF Install
  <1>4. /\ Len(started) \in Nat /\ started \in Seq(Instance)
        /\ (routes[job] # 0 => started[routes[job]].ports \in Ids)
    BY <1>2, StartedParts DEF Shape, Started
  <1>5. /\ p \in 1 .. Len(started) + 1
        /\ p = Len(started) + 1 \/ (routes[job] # 0 /\ p = started[routes[job]].ports)
    BY <1>3, <1>4 DEF Ports, Ids
  <1>6. [script |-> snapshot, ports |-> p] \in Instance
    BY <1>2, <1>5 DEF Instance
  <1>7. /\ started' \in Seq(Instance) /\ Len(started') = Len(started) + 1
        /\ \A k \in Ids : started'[k] = started[k]
        /\ started'[Len(started) + 1] = [script |-> snapshot, ports |-> p]
    BY <1>3, <1>4, <1>6 DEF Ids
  <1>8. Installed(Len(started) + 1, p)
    <2>1. /\ DOMAIN fwd' = DOMAIN fwd \cup {p} /\ fwd'[p] = Len(started) + 1
          /\ \A q \in DOMAIN fwd : q # p => fwd'[q] = fwd[q]
      BY <1>3 DEF Redirect
    <2>2. started'[Len(started) + 1].script = snapshot /\ started'[Len(started) + 1].ports = p
      BY <1>7
    <2>3. QED
      BY <1>3, <1>5, <1>7, <2>1, <2>2 DEF Installed
  <1>9. QED
    BY <1>1, <1>2, <1>5, <1>8

(* What taking an event does, by what it finds.                            *)
StartsOne(n) ==
  /\ pc = "idle" /\ events # <<>> /\ Head(events) = RouteChanged(n) /\ events' = Tail(events)
  /\ disk[n] # Absent /\ pc' = "read" /\ job' = n /\ mode' = "change"
  /\ UNCHANGED <<disk, diskConfig, edits, reloads, asked, faultVars, todo, snapshot, config,
                 regVars, recvVars, obsRunning>>

LetsGo(n) ==
  /\ pc = "idle" /\ events # <<>> /\ Head(events) = RouteChanged(n) /\ events' = Tail(events)
  /\ disk[n] = Absent /\ Remove(n) /\ mode' = "change"
  /\ failed' = failed \ {n} /\ missed' = missed \ {n}
  /\ UNCHANGED <<disk, diskConfig, edits, reloads, asked, pc, todo, job, snapshot, config,
                 obsRunning>>

(* A reload, of a report or of a command.                                  *)
Asks ==
  \/ /\ events # <<>> /\ Head(events) = ConfigChanged /\ events' = Tail(events)
     /\ UNCHANGED <<asked, reloads>>
  \/ /\ events' = events /\ reloads < MaxReloads /\ reloads' = reloads + 1
     /\ asked' = (diskConfig # Broken)

Ignores ==
  /\ pc = "idle" /\ Asks /\ diskConfig = Broken
  /\ UNCHANGED <<disk, diskConfig, edits, faultVars, jobVars, config, regVars, recvVars, obsRunning>>

Reloads ==
  /\ pc = "idle" /\ Asks /\ diskConfig # Broken
  /\ config' = diskConfig /\ missed' = missed \ {ConfigFile} /\ failed' = failed
  /\ obs_sync(diskConfig)
  /\ mode' = "reload" /\ todo' = Loaded /\ pc' = "pick"
  /\ UNCHANGED <<disk, diskConfig, edits, job, snapshot, routes, started, fwd, specs, oscTable,
                 recvVars>>

(* A handler that looks at the disk starts one route, lets one go, ignores *)
(* the event or reloads.                                                   *)
LEMMA HandlerCases ==
  ASSUME World, TakeEvent \/ ReloadCommand
  PROVE  (\E n \in Names : StartsOne(n) \/ LetsGo(n)) \/ Ignores \/ Reloads
  <1>1. CASE ReloadCommand
    BY <1>1 DEF ReloadCommand, handle_config_changed, Asks, Ignores, Reloads
  <1>2. CASE TakeEvent /\ Head(events) = ConfigChanged
    BY <1>2 DEF TakeEvent, handle_config_changed, Asks, Ignores, Reloads
  <1>3. CASE TakeEvent /\ Head(events) # ConfigChanged
    <2>1. events # <<>> /\ events' = Tail(events)
      BY <1>3 DEF TakeEvent
    <2>2. PICK n \in Names : Head(events) = RouteChanged(n)
      BY <1>3, <2>1, Taken, EventParts
    <2>3. Head(events)[2] = n
      BY <2>2, EventParts
    <2>4. handle_route_changed(n)
      BY <1>3, <2>3 DEF TakeEvent
    <2>5. StartsOne(n) \/ LetsGo(n)
      BY <1>3, <2>2, <2>4 DEF TakeEvent, handle_route_changed, StartsOne, LetsGo, faultVars
    <2>6. QED
      BY <2>5
  <1>4. QED
    BY <1>1, <1>2, <1>3

(* The cases all proofs of this module go through.                         *)
LEMMA StepCases ==
  ASSUME World, [Next]_vars
  PROVE  \/ \E n \in Names : Edit(n) \/ StartsOne(n) \/ LetsGo(n)
         \/ EditConfig \/ LoadAll \/ Pick \/ Read \/ StartFails \/ Install \/ SyncReceivers
         \/ Ignores \/ Reloads \/ UNCHANGED vars
  BY HandlerCases DEF Next, MainStep

-----------------------------------------------------------------------------
(* Types.                                                                  *)

(* Initially every part has its type.                                      *)
LEMMA ShapeInit == Init => Shape
  <1> SUFFICES ASSUME Init PROVE Shape
    OBVIOUS
  <1>1. World
    <2>1. asked \in BOOLEAN
      BY DEF Init
    <2>2. edits \in 0 .. MaxEdits /\ reloads \in 0 .. MaxReloads
      BY BoundsAssumption DEF Init
    <2>3. events \in Seq(Event)
      BY DEF Init
    <2>4. QED
      BY <2>1, <2>2, <2>3 DEF Init, World
  <1>2. Control
    BY DEF Init, Control, NoOne
  <1>3. Started
    BY DEF Init, Started, Ids
  <1>4. Registries
    BY ScriptsAssumption DEF Init, Registries, Instances, NoOne
  <1>5. QED
    BY <1>1, <1>2, <1>3, <1>4 DEF Shape

(* Every step keeps the types of disk, watcher and queue.                  *)
LEMMA WorldStep == ASSUME Shape, [Next]_vars PROVE World'
  <1>0. World /\ Control
    BY DEF Shape
  <1>1. ASSUME NEW n \in Names, Edit(n) PROVE World'
    <2>1. /\ events' \in Seq(Event) /\ failed' = failed /\ missed' \subseteq Names \cup {ConfigFile}
          /\ disk' \in [Names -> Scripts \cup {Absent}]
      BY <1>0, <1>1, EventParts, Edited DEF Edit, World
    <2>2. edits < MaxEdits /\ edits' = edits + 1 /\ edits \in 0 .. MaxEdits
      BY <1>0, <1>1 DEF Edit, MayEdit, World
    <2>3. edits' \in 0 .. MaxEdits
      BY <2>2, BoundsAssumption
    <2>4. asked' \in BOOLEAN
      BY <1>1 DEF Edit, MayEdit
    <2>5. QED
      BY <1>0, <1>1, <2>1, <2>3, <2>4 DEF Edit, World
  <1>2. CASE EditConfig
    <2>1. /\ events' \in Seq(Event) /\ failed' = failed /\ missed' \subseteq Names \cup {ConfigFile}
      BY <1>0, <1>2, EventParts, Edited DEF EditConfig
    <2>2. edits < MaxEdits /\ edits' = edits + 1 /\ edits \in 0 .. MaxEdits
      BY <1>0, <1>2 DEF EditConfig, MayEdit, World
    <2>3. edits' \in 0 .. MaxEdits
      BY <2>2, BoundsAssumption
    <2>4. asked' \in BOOLEAN /\ diskConfig' \in Configs \cup {Broken}
      BY <1>2 DEF EditConfig, MayEdit
    <2>5. QED
      BY <1>0, <1>2, <2>1, <2>3, <2>4 DEF EditConfig, World
  <1>3. CASE LoadAll \/ Pick \/ SyncReceivers
    BY <1>0, <1>3 DEF LoadAll, Pick, SyncReceivers, worldVars, faultVars, World
  <1>4. CASE Read \/ StartFails
    BY <1>0, <1>4 DEF Read, StartFails, worldVars, World, Control
  <1>5. CASE Install
    BY <1>0, <1>5, InstallEffect DEF worldVars, World
  <1>6. ASSUME NEW n \in Names, StartsOne(n) \/ LetsGo(n) PROVE World'
    BY <1>0, <1>6, Taken DEF StartsOne, LetsGo, faultVars, World
  <1>7. CASE Ignores \/ Reloads
    <2>1. events' \in Seq(Event)
      BY <1>0, <1>7, Taken DEF Ignores, Reloads, Asks, World
    <2>2. reloads \in 0 .. MaxReloads /\ asked \in BOOLEAN
      BY <1>0 DEF World
    <2>3. reloads' = reloads \/ (reloads < MaxReloads /\ reloads' = reloads + 1)
      BY <1>7 DEF Ignores, Reloads, Asks
    <2>4. reloads' \in 0 .. MaxReloads
      BY <2>2, <2>3, BoundsAssumption
    <2>5. asked' \in BOOLEAN
      BY <1>7, <2>2 DEF Ignores, Reloads, Asks
    <2>6. QED
      BY <1>0, <1>7, <2>1, <2>4, <2>5 DEF Ignores, Reloads, faultVars, World
  <1>8. CASE UNCHANGED vars
    BY <1>0, <1>8 DEF vars, worldVars, faultVars, World
  <1>9. QED
    BY <1>0, <1>1, <1>2, <1>3, <1>4, <1>5, <1>6, <1>7, <1>8, StepCases

(* Every step keeps main at a place of its code, with what it holds there. *)
LEMMA ControlStep == ASSUME Shape, [Next]_vars PROVE Control'
  <1>0. World /\ Control
    BY DEF Shape
  <1>1. ASSUME UNCHANGED <<jobVars, config, regVars>> PROVE Control'
    BY <1>0, <1>1 DEF jobVars, regVars, Control
  <1>2. CASE LoadAll \/ Pick
    BY <1>0, <1>2 DEF LoadAll, Pick, jobVars, regVars, Control
  <1>3. CASE SyncReceivers
    BY <1>0, <1>3 DEF SyncReceivers, regVars, Control
  <1>4. CASE Read \/ StartFails
    BY <1>0, <1>4 DEF Read, StartFails, AfterFailure, Done, regVars, World, Control
  <1>5. CASE Install
    BY <1>0, <1>5, InstallEffect DEF Control
  <1>6. ASSUME NEW n \in Names, StartsOne(n) \/ LetsGo(n) PROVE Control'
    BY <1>0, <1>6 DEF StartsOne, LetsGo, Remove, Control
  <1>7. CASE Reloads
    BY <1>0, <1>7 DEF Reloads, Loaded, World, Control
  <1>8. QED
    BY <1>0, <1>1, <1>2, <1>3, <1>4, <1>5, <1>6, <1>7, StepCases
    DEF Edit, EditConfig, Ignores, vars

(* Every step keeps the instances and the ports they had made.             *)
LEMMA StartedStep == ASSUME Shape, [Next]_vars PROVE Started'
  <1>0. World /\ Started
    BY DEF Shape
  <1>1. CASE Install
    <2>1. PICK p \in 1 .. Len(started) + 1 : Installed(Len(started) + 1, p)
      BY <1>1, InstallEffect
    <2>2. /\ Len(started) \in Nat
          /\ \A k \in Ids : started[k].ports \in DOMAIN fwd
      BY StartedParts DEF Shape
    <2>3. /\ Len(started') = Len(started) + 1 /\ started' \in Seq(Instance)
          /\ DOMAIN fwd' = DOMAIN fwd \cup {p} /\ fwd'[p] = Len(started) + 1
          /\ \A q \in DOMAIN fwd : q # p => fwd'[q] = fwd[q]
          /\ started'[Len(started) + 1].ports = p /\ \A k \in Ids : started'[k] = started[k]
      BY <2>1 DEF Installed
    <2>4. Ids' = Ids \cup {Len(started) + 1}
      BY <2>2, <2>3 DEF Ids
    <2>5. p \in Ids'
      BY <2>1, <2>2, <2>3 DEF Ids
    <2>6. \A g \in Ids' : started'[g].ports \in DOMAIN fwd'
      BY <2>2, <2>3, <2>4
    <2>7. QED
      BY <1>0, <2>3, <2>4, <2>5, <2>6 DEF Started
  <1>2. CASE UNCHANGED <<started, fwd>>
    BY <1>0, <1>2 DEF Started, Ids
  <1>3. QED
    BY <1>0, <1>1, <1>2, StepCases
    DEF Edit, EditConfig, LoadAll, Pick, Read, StartFails, SyncReceivers, StartsOne, LetsGo,
        Remove, Ignores, Reloads, regVars, vars

(* Every step keeps the registries among the instances that were started.  *)
LEMMA RegistriesStep == ASSUME Shape, [Next]_vars PROVE Registries'
  <1>0. World /\ Control /\ Registries
    BY DEF Shape
  <1>1. CASE Install
    <2>1. PICK p \in 1 .. Len(started) + 1 : Installed(Len(started) + 1, p)
      BY <1>1, InstallEffect
    <2>2. /\ job \in Names /\ snapshot \in Scripts /\ obsRunning' = obsRunning
          /\ Len(started) \in Nat
      BY <1>1, InstallEffect, StartedParts DEF Shape
    <2>3. PICK g : g = Len(started) + 1
      OBVIOUS
    <2>4. g \in Instances' /\ Instances \subseteq Instances'
      BY <2>1, <2>2, <2>3 DEF Installed, Instances
    <2>5. /\ routes' = [routes EXCEPT ![job] = g] /\ oscTable' = [oscTable EXCEPT ![job] = g]
          /\ specs' = [specs EXCEPT ![job] = snapshot]
          /\ obs_register(job, g, ObsConns[snapshot])
      BY <2>1, <2>3 DEF Installed
    <2>6. \A x \in Conns : obsTable[x] \in [Names -> Instances']
      BY <1>0, <2>4 DEF Registries
    <2>7. obsTable' \in [Conns -> [Names -> Instances']]
      BY <2>4, <2>5, <2>6 DEF obs_register
    <2>8. routes' \in [Names -> Instances'] /\ oscTable' \in [Names -> Instances']
      BY <1>0, <2>4, <2>5 DEF Registries
    <2>9. QED
      BY <1>0, <2>2, <2>5, <2>7, <2>8 DEF Registries
  <1>2. ASSUME NEW n \in Names, LetsGo(n) PROVE Registries'
    <2>1. Instances' = Instances /\ 0 \in Instances
      BY <1>2, StartedParts DEF LetsGo, Remove, Instances, Shape
    <2>2. obsTable' \in [Conns -> [Names -> Instances]]
      BY <1>0, <1>2, <2>1 DEF LetsGo, Remove, obs_unregister, Registries
    <2>3. QED
      BY <1>0, <1>2, <2>1, <2>2 DEF LetsGo, Remove, Registries
  <1>3. CASE Reloads
    <2>1. /\ Instances' = Instances /\ 0 \in Instances /\ diskConfig \in Configs
          /\ UNCHANGED <<routes, oscTable, specs>>
      BY <1>0, <1>3, StartedParts DEF Reloads, Instances, Shape, World
    <2>2. obsTable' \in [Conns -> [Names -> Instances]] /\ obsRunning' \in [Conns -> Nat]
      BY <1>0, <1>3, <2>1, ScriptsAssumption DEF Reloads, obs_sync, NoOne, Registries
    <2>3. QED
      BY <1>0, <2>1, <2>2 DEF Registries
  <1>4. CASE UNCHANGED <<regVars, obsRunning>>
    BY <1>0, <1>4 DEF regVars, Registries, Instances
  <1>5. QED
    BY <1>0, <1>1, <1>2, <1>3, <1>4, StepCases
    DEF Edit, EditConfig, LoadAll, Pick, Read, StartFails, SyncReceivers, StartsOne, Ignores,
        regVars, vars

(* Types are kept: the four parts together.                                *)
LEMMA ShapeStep == ASSUME Shape, [Next]_vars PROVE Shape'
  BY WorldStep, ControlStep, StartedStep, RegistriesStep DEF Shape

-----------------------------------------------------------------------------
(* The scripts that are loaded, and what is due.                           *)

(* While no registry changes, every loaded script stays the same.          *)
LEMMA ScriptsKept ==
  ASSUME UNCHANGED <<routes, started>>
  PROVE  \A n \in Names : routes'[n] = routes[n] /\ (LoadedScript(n))' = LoadedScript(n)
  BY DEF LoadedScript

(* What is loaded is a script.                                             *)
LEMMA ScriptOfLoaded ==
  ASSUME Shape, NEW n \in Names, routes[n] # 0
  PROVE  LoadedScript(n) \in Scripts /\ LoadedScript(n) # Absent
  BY StartedParts, ScriptsAssumption DEF Shape, LoadedScript

(* Installing changes what is loaded under one name only, to what was      *)
(* read.                                                                   *)
LEMMA ScriptInstalled ==
  ASSUME Shape, Install
  PROVE  \A n \in Names :
           /\ n = job => routes'[n] = Len(started) + 1 /\ (LoadedScript(n))' = snapshot
           /\ n # job => routes'[n] = routes[n] /\ (LoadedScript(n))' = LoadedScript(n)
  <1>1. PICK p \in 1 .. Len(started) + 1 : Installed(Len(started) + 1, p)
    BY InstallEffect
  <1>2. /\ \A n \in Names : routes[n] \in Nat /\ (routes[n] # 0 => routes[n] \in Ids)
        /\ job \in Names /\ Len(started) \in Nat
        /\ routes \in [Names -> Instances]
    BY InstallEffect, StartedParts DEF Shape, Registries
  <1>3. /\ routes' = [routes EXCEPT ![job] = Len(started) + 1]
        /\ \A k \in Ids : started'[k] = started[k]
        /\ started'[Len(started) + 1].script = snapshot /\ Len(started) + 1 # 0
    BY <1>1, <1>2 DEF Installed
  <1>4. QED
    BY <1>2, <1>3 DEF LoadedScript

(* Removal empties one name only, whose file is gone (main.rs:237).        *)
LEMMA ScriptLetGo ==
  ASSUME Shape, NEW m \in Names, LetsGo(m)
  PROVE  \A n \in Names :
           /\ n = m => routes'[n] = 0 /\ (LoadedScript(n))' = disk'[n]
           /\ n # m => routes'[n] = routes[n] /\ (LoadedScript(n))' = LoadedScript(n)
  BY DEF Shape, Registries, LetsGo, Remove, LoadedScript

(* An edit is due, unless it was noticed before: what is due stays due     *)
(* until the route is loaded or let go.                                    *)
LEMMA EditIsDue ==
  ASSUME Shape, NEW n \in Names, Edit(n)
  PROVE  (Pending(RouteChanged(n)))' \/ n \in missed'
  BY Edited, EventParts DEF Edit, Shape

(* A file that waits to be read keeps waiting until its handler comes to   *)
(* it.                                                                     *)
LEMMA DueKept ==
  ASSUME Shape, [Next]_vars, NEW n \in Names, Due(n), ~Install \/ n # job, ~LetsGo(n)
  PROVE  (Due(n))'
  <1>0. World /\ Control /\ n # ConfigFile /\ RouteChanged(n) \in Event
    BY NamesAssumption, EventParts DEF Shape
  <1>1. ASSUME NEW m \in Names, Edit(m) PROVE (Due(n))'
    <2>1. CASE m = n
      BY <1>1, <2>1, EditIsDue DEF Due
    <2>2. CASE m # n
      <3>1. /\ Pending(RouteChanged(n)) => (Pending(RouteChanged(n)))'
            /\ n \in missed => n \in missed'
            /\ failed' = failed
        BY <1>0, <1>1, <2>2, Edited, EventParts DEF Edit
      <3>2. disk'[n] = disk[n] /\ UNCHANGED jobVars
        BY <1>0, <1>1, <2>2 DEF Edit, World
      <3>3. QED
        BY <3>1, <3>2 DEF Due, jobVars
    <2>3. QED
      BY <2>1, <2>2
  <1>2. CASE EditConfig
    <2>1. /\ Pending(RouteChanged(n)) => (Pending(RouteChanged(n)))'
          /\ n \in missed => n \in missed'
          /\ failed' = failed /\ UNCHANGED <<disk, jobVars>>
      BY <1>0, <1>2, Edited, EventParts DEF EditConfig
    <2>2. QED
      BY <2>1 DEF Due, jobVars
  <1>3. CASE LoadAll \/ Pick \/ SyncReceivers
    BY <1>0, <1>3 DEF LoadAll, Pick, SyncReceivers, worldVars, faultVars, Control, Due, Pending
  <1>4. CASE Read \/ StartFails
    <2>1. /\ UNCHANGED <<disk, todo>>
          /\ Pending(RouteChanged(n)) => (Pending(RouteChanged(n)))'
          /\ failed \subseteq failed'
      BY <1>4 DEF Read, StartFails, worldVars, Pending
    <2>2. CASE Read /\ job = n
      BY <2>1, <2>2 DEF Read, Due
    <2>3. CASE Read /\ job # n
      BY <2>1, <2>3 DEF Read, Due
    <2>4. CASE StartFails
      BY <2>1, <2>4 DEF StartFails, Due
    <2>5. QED
      BY <1>4, <2>2, <2>3, <2>4
  <1>5. CASE Install
    BY <1>0, <1>5, InstallEffect DEF worldVars, Due, Pending
  <1>6. ASSUME NEW m \in Names, StartsOne(m) \/ LetsGo(m) PROVE (Due(n))'
    <2>1. \A e : Pending(e) => (Pending(e))' \/ e = RouteChanged(m)
      BY <1>0, <1>6, Taken DEF StartsOne, LetsGo
    <2>2. m = n \/ (Pending(RouteChanged(n)) => (Pending(RouteChanged(n)))')
      BY <2>1, EventParts
    <2>3. CASE StartsOne(m)
      BY <1>0, <2>2, <2>3 DEF StartsOne, faultVars, Control, Due
    <2>4. CASE LetsGo(m)
      BY <1>0, <2>2, <2>4 DEF LetsGo, Control, Due
    <2>5. QED
      BY <1>6, <2>3, <2>4
  <1>7. CASE Ignores \/ Reloads
    <2>1. Pending(RouteChanged(n)) => (Pending(RouteChanged(n)))'
      <3>1. CASE events' = events
        BY <3>1 DEF Pending
      <3>2. CASE events # <<>> /\ events' = Tail(events) /\ Head(events) = ConfigChanged
        BY <1>0, <3>2, Taken, EventParts
      <3>3. QED
        BY <1>7, <3>1, <3>2 DEF Ignores, Reloads, Asks
    <2>2. CASE Ignores
      BY <2>1, <2>2 DEF Ignores, faultVars, jobVars, Due
    <2>3. CASE Reloads
      BY <1>0, <2>1, <2>3 DEF Reloads, Control, Due
    <2>4. QED
      BY <1>7, <2>2, <2>3
  <1>8. CASE UNCHANGED vars
    BY <1>8 DEF vars, worldVars, faultVars, jobVars, Due, Pending
  <1>9. QED
    BY <1>0, <1>1, <1>2, <1>3, <1>4, <1>5, <1>6, <1>7, <1>8, StepCases

-----------------------------------------------------------------------------
(* The registries.                                                         *)

(* Every step keeps AgreeInv: all registries change in the same step       *)
(* (main.rs:231-236, 239-243).                                             *)
LEMMA AgreeStep == ASSUME Shape, AgreeInv, [Next]_vars PROVE AgreeInv'
  <1>0. World /\ Registries
    BY DEF Shape
  <1>1. CASE Install
    <2>1. PICK p \in 1 .. Len(started) + 1 : Installed(Len(started) + 1, p)
      BY <1>1, InstallEffect
    <2>2. PICK g : g = Len(started) + 1
      OBVIOUS
    <2>3. /\ job \in Names /\ Len(started) \in Nat /\ g \notin Ids /\ g # 0
          /\ \A k \in Ids : started[k].ports \in DOMAIN fwd /\ started[k].ports \in Ids
          /\ \A n \in Names : routes[n] # 0 => routes[n] \in Ids
      BY <1>1, <2>2, InstallEffect, StartedParts DEF Shape, Ids
    <2>4. /\ p = g \/ (routes[job] # 0 /\ p = started[routes[job]].ports)
          /\ oscTable' = [oscTable EXCEPT ![job] = g] /\ specs' = [specs EXCEPT ![job] = snapshot]
          /\ fwd'[p] = g /\ \A q \in DOMAIN fwd : q # p => fwd'[q] = fwd[q]
          /\ started'[g].ports = p /\ \A k \in Ids : started'[k] = started[k]
      BY <2>1, <2>2 DEF Installed
    <2>5. \A n \in Names :
            /\ n = job => routes'[n] = g /\ (LoadedScript(n))' = snapshot
            /\ n # job => routes'[n] = routes[n] /\ (LoadedScript(n))' = LoadedScript(n)
      BY <1>1, <2>2, ScriptInstalled
    <2>6. \A n \in Names : oscTable'[n] = routes'[n] /\ specs'[n] = (LoadedScript(n))'
      BY <1>0, <2>4, <2>5 DEF AgreeInv, Registries
    <2>7. \A n, m \in Names : routes'[n] # 0 /\ routes'[m] = routes'[n] => m = n
      BY <2>3, <2>5 DEF AgreeInv
    <2>8. ASSUME NEW n \in Names, n # job, routes[n] # 0 PROVE fwd'[started'[routes[n]].ports] = routes[n]
      <3>1. /\ started[routes[n]].ports \in DOMAIN fwd /\ started[routes[n]].ports \in Ids
            /\ started'[routes[n]] = started[routes[n]]
            /\ fwd[started[routes[n]].ports] = routes[n]
        BY <2>3, <2>4, <2>8 DEF AgreeInv
      <3>2. started[routes[n]].ports # p
        BY <2>3, <2>4, <2>8, <3>1 DEF AgreeInv
      <3>3. QED
        BY <2>4, <3>1, <3>2
    <2>9. \A n \in Names : routes'[n] # 0 => fwd'[started'[routes'[n]].ports] = routes'[n]
      BY <2>3, <2>4, <2>5, <2>8
    <2>10. QED
      BY <2>6, <2>7, <2>9 DEF AgreeInv
  <1>2. ASSUME NEW m \in Names, LetsGo(m) PROVE AgreeInv'
    <2>1. /\ disk[m] = Absent /\ disk' = disk /\ UNCHANGED <<started, fwd>>
          /\ specs' = [specs EXCEPT ![m] = Absent] /\ oscTable' = [oscTable EXCEPT ![m] = 0]
      BY <1>2 DEF LetsGo, Remove
    <2>2. QED
      BY <1>0, <1>2, <2>1, ScriptLetGo DEF AgreeInv, Registries
  <1>3. CASE UNCHANGED <<routes, started, fwd, specs, oscTable>>
    BY <1>3, ScriptsKept DEF AgreeInv
  <1>4. QED
    BY <1>0, <1>1, <1>2, <1>3, StepCases
    DEF Edit, EditConfig, LoadAll, Pick, Read, StartFails, SyncReceivers, StartsOne, Ignores,
        Reloads, regVars, vars

(* Every step keeps ReceiverInv: ports are bound and given back where a    *)
(* handler ends (sync_osc_receivers).                                      *)
LEMMA ReceiverStep == ASSUME Shape, ReceiverInv, [Next]_vars PROVE ReceiverInv'
  <1>0. World /\ Control
    BY DEF Shape
  <1>1. CASE LoadAll \/ Pick \/ Reloads
    BY <1>0, <1>1 DEF LoadAll, Pick, Reloads, Control, ReceiverInv
  <1>2. CASE Install
    BY <1>2, InstallEffect DEF ReceiverInv
  <1>3. CASE SyncReceivers
    BY <1>3 DEF SyncReceivers, sync_osc_receivers, Needed, regVars, ReceiverInv
  <1>4. ASSUME NEW m \in Names, LetsGo(m) PROVE ReceiverInv'
    BY <1>4 DEF LetsGo, Remove, sync_osc_receivers, Needed, ReceiverInv
  <1>5. CASE Read \/ StartFails
    BY <1>5 DEF Read, StartFails, AfterFailure, regVars, recvVars, Needed, ReceiverInv
  <1>6. ASSUME NEW m \in Names, StartsOne(m) PROVE ReceiverInv'
    BY <1>6 DEF StartsOne, regVars, recvVars, Needed, ReceiverInv
  <1>7. ASSUME UNCHANGED <<jobVars, config, regVars, recvVars>> PROVE ReceiverInv'
    BY <1>7 DEF jobVars, regVars, recvVars, Needed, ReceiverInv
  <1>8. QED
    BY <1>0, <1>1, <1>2, <1>3, <1>4, <1>5, <1>6, <1>7, StepCases
    DEF Edit, EditConfig, Ignores, vars

-----------------------------------------------------------------------------
(* What was edited arrives.                                                *)

(* Every step keeps StartInv: the script a start has read is still the     *)
(* file's, or the edit will be reported or was missed.                     *)
LEMMA StartStep == ASSUME Shape, StartInv, [Next]_vars PROVE StartInv'
  <1>0. World /\ Control
    BY DEF Shape
  <1>1. SUFFICES ASSUME pc' = "start", NEW n, job' = n
                 PROVE  snapshot' = disk'[n] \/ (Pending(RouteChanged(n)))' \/ n \in missed'
    BY DEF StartInv, Pending
  <1>2. CASE Read
    BY <1>1, <1>2 DEF Read, AfterFailure, worldVars
  <1>3. ASSUME UNCHANGED jobVars
        PROVE  n \in Names /\ (snapshot' = disk[n] \/ Pending(RouteChanged(n)) \/ n \in missed)
    BY <1>0, <1>1, <1>3 DEF jobVars, Control, StartInv
  <1>4. ASSUME NEW m \in Names, Edit(m) PROVE snapshot' = disk'[n] \/ (Pending(RouteChanged(n)))' \/ n \in missed'
    <2>1. n \in Names /\ (snapshot' = disk[n] \/ Pending(RouteChanged(n)) \/ n \in missed)
      BY <1>3, <1>4 DEF Edit
    <2>2. CASE m = n
      BY <1>4, <2>2, EditIsDue
    <2>3. CASE m # n
      <3>1. /\ Pending(RouteChanged(n)) => (Pending(RouteChanged(n)))'
            /\ n \in missed => n \in missed'
        BY <1>0, <1>4, <2>3, Edited, EventParts DEF Edit
      <3>2. disk'[n] = disk[n]
        BY <1>0, <1>4, <2>1, <2>3 DEF Edit, World
      <3>3. QED
        BY <2>1, <3>1, <3>2
    <2>4. QED
      BY <2>2, <2>3
  <1>5. CASE EditConfig
    <2>1. n \in Names /\ (snapshot' = disk[n] \/ Pending(RouteChanged(n)) \/ n \in missed)
      BY <1>3, <1>5 DEF EditConfig
    <2>2. /\ Pending(RouteChanged(n)) => (Pending(RouteChanged(n)))'
          /\ n \in missed => n \in missed'
          /\ disk' = disk
      BY <1>0, <1>5, <2>1, Edited, EventParts, NamesAssumption DEF EditConfig
    <2>3. QED
      BY <2>1, <2>2
  <1>6. CASE UNCHANGED vars
    BY <1>3, <1>6 DEF vars, worldVars, faultVars, Pending
  <1>7. QED
    BY <1>0, <1>1, <1>2, <1>4, <1>5, <1>6, StepCases, InstallEffect
    DEF LoadAll, Pick, StartFails, AfterFailure, SyncReceivers, StartsOne, LetsGo, Ignores, Reloads,
        jobVars

(* Every step keeps FreshInv: a file that differs from what is loaded is   *)
(* due, missed or failed.                                                  *)
LEMMA FreshStep == ASSUME Shape, FreshInv, StartInv, [Next]_vars PROVE FreshInv'
  <1>0. World /\ Control
    BY DEF Shape
  <1>1. SUFFICES ASSUME NEW n \in Names PROVE pc' = "load" \/ (LoadedScript(n))' = disk'[n] \/ (Due(n))'
    BY DEF FreshInv
  <1>2. CASE LoadAll
    <2>1. routes[n] = 0 /\ UNCHANGED <<routes, disk>> /\ todo' = {k \in Names : disk[k] # Absent}
      BY <1>0, <1>2 DEF LoadAll, Control, regVars, worldVars
    <2>2. QED
      BY <2>1 DEF LoadedScript, Due
  <1>3. CASE Install /\ n = job
    <2>1. snapshot = disk[n] \/ Pending(RouteChanged(n)) \/ n \in missed
      BY <1>3, InstallEffect DEF StartInv
    <2>2. /\ (LoadedScript(n))' = snapshot /\ UNCHANGED <<disk, missed>>
          /\ Pending(RouteChanged(n)) => (Pending(RouteChanged(n)))'
      BY <1>3, ScriptInstalled, InstallEffect DEF worldVars, Pending
    <2>3. QED
      BY <2>1, <2>2 DEF Due
  <1>4. CASE LetsGo(n)
    BY <1>4, ScriptLetGo
  <1>5. CASE Edit(n)
    BY <1>5, EditIsDue DEF Due
  <1>6. CASE ~LoadAll /\ (~Install \/ n # job) /\ ~LetsGo(n) /\ ~Edit(n)
    <2>1. pc = "load" => pc' = "load"
      BY <1>0, <1>6, StepCases
      DEF Edit, EditConfig, Pick, Read, StartFails, Install, SyncReceivers, StartsOne, LetsGo, Ignores,
          Reloads, vars, jobVars
    <2>2. disk'[n] = disk[n]
      BY <1>0, <1>6, StepCases
      DEF Edit, EditConfig, Pick, Read, StartFails, Install, SyncReceivers, StartsOne, LetsGo, Ignores,
          Reloads, vars, worldVars, World
    <2>3. (LoadedScript(n))' = LoadedScript(n)
      <3>1. CASE Install
        BY <1>6, <3>1, ScriptInstalled
      <3>2. ASSUME NEW m \in Names, LetsGo(m) PROVE (LoadedScript(n))' = LoadedScript(n)
        BY <1>6, <3>2, ScriptLetGo
      <3>3. CASE UNCHANGED <<routes, started>>
        BY <3>3, ScriptsKept
      <3>4. QED
        BY <1>0, <1>6, <3>1, <3>2, <3>3, StepCases
        DEF Edit, EditConfig, Pick, Read, StartFails, SyncReceivers, StartsOne, Ignores,
            Reloads, vars, regVars
    <2>4. QED
      BY <1>6, <2>1, <2>2, <2>3, DueKept DEF FreshInv
  <1>7. QED
    BY <1>2, <1>3, <1>4, <1>5, <1>6

(* Every step keeps ConfigInv: so does config.toml.                        *)
LEMMA ConfigStep == ASSUME Shape, ConfigInv, [Next]_vars PROVE ConfigInv'
  <1>0. World /\ Control /\ ConfigFile \notin Names /\ ConfigChanged \in Event
    BY NamesAssumption, EventParts DEF Shape
  <1>1. ASSUME NEW m \in Names, Edit(m) PROVE ConfigInv'
    <2>1. /\ Pending(ConfigChanged) => (Pending(ConfigChanged))'
          /\ ConfigFile \in missed => ConfigFile \in missed'
          /\ UNCHANGED <<diskConfig, config>>
      BY <1>0, <1>1, Edited, EventParts DEF Edit
    <2>2. QED
      BY <2>1 DEF ConfigInv, ConfigCaught
  <1>2. CASE EditConfig
    <2>1. (Pending(ConfigChanged))' \/ ConfigFile \in missed'
      BY <1>0, <1>2, Edited DEF EditConfig
    <2>2. QED
      BY <2>1 DEF ConfigInv, ConfigCaught
  <1>3. ASSUME NEW m \in Names, StartsOne(m) \/ LetsGo(m) PROVE ConfigInv'
    <2>1. Pending(ConfigChanged) => (Pending(ConfigChanged))'
      BY <1>0, <1>3, Taken, EventParts DEF StartsOne, LetsGo
    <2>2. /\ ConfigFile \in missed => ConfigFile \in missed'
          /\ UNCHANGED <<diskConfig, config>>
      BY <1>0, <1>3 DEF StartsOne, LetsGo, faultVars
    <2>3. QED
      BY <2>1, <2>2 DEF ConfigInv, ConfigCaught
  <1>4. CASE Ignores \/ Reloads
    BY <1>4 DEF Ignores, Reloads, ConfigInv, ConfigCaught
  <1>5. CASE Read
    BY <1>0, <1>5 DEF Read, Control, worldVars, ConfigInv, ConfigCaught, Pending
  <1>6. CASE UNCHANGED <<worldVars, missed, config>>
    BY <1>6 DEF worldVars, ConfigInv, ConfigCaught, Pending
  <1>7. QED
    BY <1>0, <1>1, <1>2, <1>3, <1>4, <1>5, <1>6, StepCases
    DEF LoadAll, Pick, StartFails, Install, SyncReceivers, faultVars, vars

(* Every step keeps ObsInv: a running connection a loaded route asked for  *)
(* leads to that instance, or the route is about to start again.           *)
LEMMA ObsStep == ASSUME Shape, FreshInv, ObsInv, [Next]_vars PROVE ObsInv'
  <1>0. World /\ Control /\ Registries
    BY DEF Shape
  <1>1. SUFFICES ASSUME NEW n \in Names, NEW x \in Conns, routes'[n] # 0,
                        x \in ObsConns[(LoadedScript(n))'], obsRunning'[x] # 0
                 PROVE  obsTable'[x][n] = routes'[n] \/ (Due(n))'
    BY DEF ObsInv
  <1>2. CASE Install
    <2>1. PICK p \in 1 .. Len(started) + 1 : Installed(Len(started) + 1, p)
      BY <1>2, InstallEffect
    <2>2. obs_register(job, Len(started) + 1, ObsConns[snapshot]) /\ obsRunning' = obsRunning
      BY <1>2, <2>1, InstallEffect DEF Installed
    <2>3. CASE n = job
      <3>1. /\ routes'[n] = Len(started) + 1 /\ (LoadedScript(n))' = snapshot
            /\ obsTable[x] \in [Names -> Instances]
        BY <1>0, <1>2, <2>3, ScriptInstalled DEF Registries
      <3>2. obsTable'[x] = [obsTable[x] EXCEPT ![n] = Len(started) + 1]
        BY <1>1, <2>2, <2>3, <3>1 DEF obs_register
      <3>3. QED
        BY <3>1, <3>2
    <2>4. CASE n # job
      <3>1. routes'[n] = routes[n] /\ (LoadedScript(n))' = LoadedScript(n)
        BY <1>2, <2>4, ScriptInstalled
      <3>2. obsTable'[x][n] = obsTable[x][n]
        BY <1>0, <2>2, <2>4 DEF obs_register, Registries
      <3>3. ~LetsGo(n)
        BY <1>2 DEF LetsGo, Install
      <3>4. Due(n) => (Due(n))'
        BY <2>4, <3>3, DueKept
      <3>5. QED
        BY <1>1, <2>2, <3>1, <3>2, <3>4 DEF ObsInv
    <2>5. QED
      BY <2>3, <2>4
  <1>3. ASSUME NEW m \in Names, LetsGo(m) PROVE obsTable'[x][n] = routes'[n] \/ (Due(n))'
    <2>1. /\ n # m /\ routes'[n] = routes[n] /\ (LoadedScript(n))' = LoadedScript(n)
          /\ obsRunning' = obsRunning
      BY <1>1, <1>3, ScriptLetGo DEF LetsGo
    <2>2. obsTable'[x][n] = obsTable[x][n]
      BY <1>0, <1>3, <2>1 DEF LetsGo, Remove, obs_unregister, Registries
    <2>3. ~Install /\ ~LetsGo(n)
      BY <1>3, <2>1, EventParts DEF LetsGo, Install
    <2>4. QED
      BY <1>1, <2>1, <2>2, <2>3, DueKept DEF ObsInv
  <1>4. CASE Reloads
    <2>1. routes[n] # 0 /\ n \in todo' /\ disk' = disk /\ pc = "idle"
      BY <1>1, <1>4 DEF Reloads, Loaded
    <2>2. CASE disk[n] # Absent
      BY <2>1, <2>2 DEF Due
    <2>3. CASE disk[n] = Absent
      <3>1. LoadedScript(n) # disk[n]
        BY <2>1, <2>3, ScriptOfLoaded
      <3>2. Due(n)
        BY <2>1, <3>1 DEF FreshInv
      <3>3. ~Install /\ ~LetsGo(n)
        BY <1>4, <2>1 DEF Reloads, Install, LetsGo, Remove
      <3>4. QED
        BY <3>2, <3>3, DueKept
    <2>4. QED
      BY <2>2, <2>3
  <1>5. CASE UNCHANGED <<regVars, obsRunning>> /\ ~Install /\ ~LetsGo(n)
    <2>1. /\ routes'[n] = routes[n] /\ (LoadedScript(n))' = LoadedScript(n)
          /\ UNCHANGED <<obsTable, obsRunning>>
      BY <1>5, ScriptsKept DEF regVars
    <2>2. QED
      BY <1>1, <1>5, <2>1, DueKept DEF ObsInv
  <1>6. QED
    BY <1>0, <1>2, <1>3, <1>4, <1>5, StepCases
    DEF Edit, EditConfig, LoadAll, Pick, Read, StartFails, SyncReceivers, StartsOne, Ignores,
        regVars, vars

(* Every step keeps ReloadInv: what a reload has not refreshed is still in *)
(* its list.                                                               *)
LEMMA ReloadStep == ASSUME Shape, ReloadInv, [Next]_vars PROVE ReloadInv'
  <1>0. World /\ Control
    BY DEF Shape
  <1>1. ASSUME asked' = FALSE PROVE ReloadInv'
    BY <1>1 DEF ReloadInv
  <1>2. CASE LoadAll
    BY <1>0, <1>2 DEF LoadAll, Control, regVars, ReloadInv
  <1>3. CASE Install
    BY <1>0, <1>3, InstallEffect, ScriptInstalled DEF worldVars, ReloadInv
  <1>4. ASSUME NEW m \in Names, LetsGo(m) PROVE ReloadInv'
    BY <1>0, <1>4, ScriptLetGo DEF LetsGo, ReloadInv
  <1>5. CASE Reloads
    BY <1>5 DEF Reloads, Loaded, ReloadInv
  <1>6. CASE Pick \/ SyncReceivers
    <2>1. UNCHANGED <<routes, started, disk, asked, failed>>
      BY <1>6 DEF Pick, SyncReceivers, regVars, worldVars, faultVars
    <2>2. QED
      BY <1>6, <2>1, ScriptsKept DEF Pick, SyncReceivers, ReloadInv
  <1>7. CASE Read \/ StartFails
    <2>1. UNCHANGED <<routes, started, disk, asked, todo>> /\ failed \subseteq failed'
      BY <1>7 DEF Read, StartFails, regVars, worldVars
    <2>2. QED
      BY <1>7, <2>1, ScriptsKept DEF Read, StartFails, AfterFailure, Done, ReloadInv
  <1>8. ASSUME NEW m \in Names, StartsOne(m) PROVE ReloadInv'
    <2>1. UNCHANGED <<routes, started, disk, asked, todo, failed>>
      BY <1>8 DEF StartsOne, regVars, faultVars
    <2>2. QED
      BY <1>8, <2>1, ScriptsKept DEF StartsOne, ReloadInv
  <1>9. CASE UNCHANGED <<disk, asked, faultVars, jobVars, regVars>>
    <2>1. UNCHANGED <<routes, started, disk, asked, todo, failed, pc, job, snapshot>>
      BY <1>9 DEF regVars, faultVars, jobVars
    <2>2. QED
      BY <2>1, ScriptsKept DEF ReloadInv
  <1>10. QED
    BY <1>0, <1>1, <1>2, <1>3, <1>4, <1>5, <1>6, <1>7, <1>8, <1>9, StepCases
    DEF Edit, EditConfig, MayEdit, Ignores, Asks, vars, worldVars

-----------------------------------------------------------------------------
(* The inductive invariant holds initially.                                *)
LEMMA IInvInit == Init => IInv
  <1> SUFFICES ASSUME Init PROVE IInv
    OBVIOUS
  <1>1. AgreeInv
    BY DEF Init, AgreeInv, LoadedScript, NoOne
  <1>2. ReceiverInv /\ FreshInv /\ StartInv /\ ConfigInv /\ ObsInv /\ ReloadInv
    BY DEF Init, NoOne, ReceiverInv, FreshInv, StartInv, ConfigInv, ConfigCaught, ObsInv, ReloadInv
  <1>3. QED
    BY ShapeInit, <1>1, <1>2 DEF IInv

(* The inductive invariant holds throughout: what the handlers of the main *)
(* loop (main.rs:171-245) have done so far, at each of their places.       *)
THEOREM Invariant == Spec => []IInv
  <1>1. IInv /\ [Next]_vars => IInv'
    BY ShapeStep, AgreeStep, ReceiverStep, FreshStep, StartStep, ConfigStep, ObsStep, ReloadStep
    DEF IInv
  <1>2. QED
    BY IInvInit, <1>1, PTL DEF Spec

(* Every state is well typed; every number in a registry is that of an     *)
(* instance that was started (Daemon in main.rs, Route::start).            *)
THEOREM TypeCorrect == Spec => []TypeOK
  <1>1. ASSUME IInv PROVE TypeOK
    <2>1. World /\ Control /\ Started /\ Registries
      BY <1>1 DEF IInv, Shape
    <2>2. \A i \in DOMAIN events : events[i] \in {RouteChanged(n) : n \in Names} \cup {ConfigChanged}
      BY <2>1 DEF World, Event
    <2>3. /\ \A g \in DOMAIN started : started[g].script \in Scripts /\ started[g].ports \in DOMAIN fwd
          /\ Ids = Instances \ {0}
      <3>1. DOMAIN started = Ids /\ Len(started) \in Nat
        BY <2>1 DEF Started, Ids
      <3>2. \A g \in Ids : started[g].script \in Scripts /\ started[g].ports \in DOMAIN fwd
        BY <2>1, StartedParts
      <3>3. QED
        BY <3>1, <3>2 DEF Ids, Instances
    <2>4. QED
      BY <2>1, <2>2, <2>3 DEF World, Control, Started, Registries, TypeOK
  <1>2. QED
    BY <1>1, Invariant, PTL

(* Between two handlers no registry leads to an instance that was replaced *)
(* or removed, nor the ports of one route to the instance of another,      *)
(* whatever starts failed (handle_route_changed, reload_all_routes).       *)
THEOREM OneInstance == Spec => []RegistriesAgree
  <1>1. IInv => RegistriesAgree
    BY DEF IInv, AgreeInv, RegistriesAgree, Loaded
  <1>2. QED
    BY <1>1, Invariant, PTL

(* Between two handlers exactly the UDP ports are bound that are needed    *)
(* and could be (sync_osc_receivers).                                      *)
THEOREM PortsAreThoseNeeded == Spec => []ReceiversNeeded
  <1>1. IInv => ReceiversNeeded
    BY DEF IInv, ReceiverInv, ReceiversNeeded, Idle
  <1>2. QED
    BY <1>1, Invariant, PTL

(* When main is idle and the queue empty, a file is only unread if its     *)
(* last edit was missed or its start failed.                               *)
LEMMA NothingDue ==
  ASSUME Shape, Quiet, NEW n \in Names, Due(n)
  PROVE  n \in missed \cup failed
  BY DEF Shape, Control, Quiet, Idle, Due, Pending

(* When every reported edit was handled, the scripts and the configuration *)
(* in use are those on disk, but for what was lost or failed, though files *)
(* change while they are read (handle_route_changed, Route::start).        *)
THEOREM EditsArrive == Spec => []QuiescentFresh
  <1>1. ASSUME IInv, Quiet PROVE ConfigCaught /\ \A n \in Names : Caught(n)
    <2>1. ConfigCaught
      BY <1>1 DEF IInv, ConfigInv, Quiet, Pending
    <2>2. ASSUME NEW n \in Names PROVE Caught(n)
      BY <1>1, <2>2, NothingDue DEF IInv, FreshInv, Quiet, Idle, Caught
    <2>3. QED
      BY <2>1, <2>2
  <1>2. IInv => QuiescentFresh
    BY <1>1 DEF QuiescentFresh
  <1>3. QED
    BY <1>2, Invariant, PTL

(* Every route gets the events of the connections it declares, though the  *)
(* connections are changed under it (sync, register_route).                *)
THEOREM EventsReachRoutes == Spec => []ObsRegistered
  <1>1. ASSUME IInv, Quiet, NEW n \in Loaded \ (missed \cup failed), NEW x \in Conns,
               x \in ObsConns[LoadedScript(n)], obsRunning[x] # 0
        PROVE  obsTable[x][n] = routes[n]
    BY <1>1, NothingDue DEF IInv, ObsInv, Loaded
  <1>2. IInv => ObsRegistered
    BY <1>1 DEF ObsRegistered
  <1>3. QED
    BY <1>2, Invariant, PTL

(* A reload makes up for the edits that were missed (reload_all_routes).   *)
THEOREM ReloadCatchesUp == Spec => []ReloadRefreshesLoaded
  <1>1. ASSUME IInv, Quiet, asked, NEW n \in Loaded \ failed, disk[n] # Absent
        PROVE  LoadedScript(n) = disk[n]
    <2>1. asked = TRUE
      BY <1>1 DEF IInv, Shape, World
    <2>2. todo = {} /\ pc = "idle"
      BY <1>1 DEF IInv, Shape, Control, Quiet, Idle
    <2>3. QED
      BY <1>1, <2>1, <2>2 DEF IInv, ReloadInv, Loaded
  <1>2. IInv => ReloadRefreshesLoaded
    BY <1>1 DEF ReloadRefreshesLoaded
  <1>3. QED
    BY <1>2, Invariant, PTL
=============================================================================
