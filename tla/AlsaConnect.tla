---------------------------- MODULE AlsaConnect ----------------------------
(***************************************************************************)
(* The virtual ALSA ports of the routes and the subscriptions that connect *)
(* them to other clients (src/src/alsa_connect.rs; RoutePorts in           *)
(* src/src/route.rs; the calls of both in src/src/main.rs).                *)
(*                                                                         *)
(* Two threads subscribe: main applies every spec after it has loaded      *)
(* routes, a watcher connects each port the sequencer announces.  They     *)
(* share the specs under a lock, which apply_all holds for all of its scan *)
(* and the watcher for one port.  Everything else, the clients that come   *)
(* and go, is the sequencer's and waits for nobody.                        *)
(*                                                                         *)
(* A client has one port.  A client's name stands for "Client:Port", a     *)
(* pattern for the set of names it matches.  A route's ports are clients   *)
(* like any other: one route may be connected to another's.                *)
(***************************************************************************)
EXTENDS Naturals, Sequences, FiniteSetsExt

CONSTANTS
  Routes,
  PrefixOf,   \* route -> the routes whose name starts with its name
  PortIds,    \* names of ports of routes, inputs
  Inputs,     \* and outputs
  Sources,    \* names of other clients that can be read,
  Sinks,      \* and that can be written
  Scripts,
  Ports,      \* script -> the ports it declares
  Connects,   \* script -> the <<port, pattern>> it wants connected
  Free,       \* no client; no route
  Boot,       \* the routes there are when the daemon starts
  MaxClients, \* bound: ALSA client numbers
  MaxStarts,  \* bound: routes started after the daemon is up, or removed
  MaxPlugs    \* bound: other clients that come or go

Devices == Sources \cup Sinks
OurNames == Routes \X PortIds
Names == OurNames \cup Devices

ASSUME RoutesAssumption ==
  /\ Inputs \subseteq PortIds /\ Devices \cap OurNames = {} /\ Free \notin Names
  /\ \A r \in Routes : r \in PrefixOf[r] /\ PrefixOf[r] \subseteq Routes
ASSUME ScriptsAssumption ==
  /\ Free \notin Routes \cup Scripts /\ Boot \subseteq Routes
  /\ \A s \in Scripts : /\ Ports[s] \subseteq PortIds
                        /\ Connects[s] \subseteq Ports[s] \X SUBSET Names
ASSUME BoundsAssumption == {MaxClients, MaxStarts, MaxPlugs} \subseteq Nat

VARIABLES
  client,    \* the sequencer: client number -> name
  subs,      \* the subscriptions: <<sender, destination>>
  announced, \* PORT_START events the watcher has not read
  watching,  \* the port the watcher is about to connect, 0: none
  specs,     \* ConnectionManager.specs
  misled,    \* specs whose last lookup found a client that is not the route's
  script,    \* route -> the script of the Route main holds
  own,       \* name -> the client that is the port of that Route, 0: none
  pc,        \* where the main thread is
  mode,      \* the handler: "all" routes, or "change" of one
  todo,      \* the routes it still has to start
  job, next, \* the route it starts, and its new script
  fresh,     \* the ports created for it
  dying,     \* the ports of the Route it replaces
  scan,      \* the specs apply_all still has to look at
  starts, plugs

alsaVars  == <<client, subs, announced, plugs>>
tableVars == <<specs, misled, script, own>>
jobVars   == <<mode, todo, job, next, fresh, dying>>
vars == <<alsaVars, watching, tableVars, pc, jobVars, scan, starts>>

Ids == 1 .. MaxClients
Unloaded == [n \in OurNames |-> 0]
Loaded == {r \in Routes : script[r] # Free}

-----------------------------------------------------------------------------
(* The sequencer.                                                          *)

Unused == {i \in Ids : client[i] = Free}

(* A new client gets the lowest number, and its port is announced.         *)
Appear(n) ==
  /\ Unused # {}
  /\ client' = [client EXCEPT ![Min(Unused)] = n]
  /\ announced' = Append(announced, Min(Unused))

(* A client that closes takes its subscriptions with it.                   *)
Vanish(I) ==
  /\ client' = [i \in Ids |-> IF i \in I THEN Free ELSE client[i]]
  /\ subs' = {l \in subs : l[1] \notin I /\ l[2] \notin I}

Plug ==
  /\ plugs < MaxPlugs /\ plugs' = plugs + 1
  /\ \E d \in Devices : (\A i \in Ids : client[i] # d) /\ Appear(d)
  /\ UNCHANGED <<subs, watching, tableVars, pc, jobVars, scan, starts>>

Unplug ==
  /\ plugs < MaxPlugs /\ plugs' = plugs + 1
  /\ \E i \in Ids : client[i] \in Devices /\ Vanish({i})
  /\ UNCHANGED <<announced, watching, tableVars, pc, jobVars, scan, starts>>

-----------------------------------------------------------------------------
(* Specs.                                                                  *)

PortSpec(n, P) == [name |-> n, pattern |-> P]

Wanted(r, s) == {PortSpec(<<r, c[1]>>, c[2]) : c \in Connects[s]}

(* Mutation: the specs of the route's old script are kept.                 *)
MutantRetained(r) == specs

(* specs.retain: what does not start with the route's name.                *)
Retained(r) == {x \in specs : x.name[1] \notin PrefixOf[r]}

(* The first client of that name that has a port, 0: none.                 *)
find_our_port(n) ==
  LET I == {i \in Ids : client[i] = n} IN IF I = {} THEN 0 ELSE Min(I)

IsInput(x) == x.name[2] \in Inputs

(* A port with the pattern's name and the capability the direction needs.  *)
Matches(x, i) ==
  /\ client[i] \in x.pattern
  /\ client[i] \in IF IsInput(x) THEN Sources \cup Routes \X (PortIds \ Inputs)
                                 ELSE Sinks \cup Routes \X Inputs

Link(x, ours, i) == IF IsInput(x) THEN <<i, ours>> ELSE <<ours, i>>

(* The subscriptions of a spec to the clients in I.                        *)
Links(x, I) ==
  LET ours == find_our_port(x.name)
  IN IF ours = 0 THEN {} ELSE {Link(x, ours, i) : i \in {j \in I : Matches(x, j)}}

Misled(X) == {x \in X : find_our_port(x.name) # own[x.name]}

-----------------------------------------------------------------------------
Init ==
  /\ client \in {f \in [Ids -> Devices \cup {Free}] :
                   \A i, j \in Ids : f[i] = f[j] /\ i # j => f[i] = Free}
  /\ \A i \in Ids : client[i] # Free => \A j \in 1 .. i : client[j] # Free
  /\ subs = {} /\ announced = <<>> /\ watching = 0 /\ plugs = 0
  /\ specs = {} /\ misled = {} /\ script = [r \in Routes |-> Free] /\ own = Unloaded
  /\ pc = "all" /\ mode = "all" /\ todo = Boot
  /\ job = Free /\ next = Free /\ fresh = Unloaded /\ dying = {}
  /\ scan = {} /\ starts = 0

(* How long the daemon runs is bounded; how it starts is not.              *)
Counted == starts < MaxStarts /\ starts' = starts + 1

-----------------------------------------------------------------------------
(* Route::start, up to the ports.                                          *)

(* Ports are kept if the layout is.                                        *)
Kept(r, s) == script[r] # Free /\ Ports[script[r]] = Ports[s]

Begin(r) ==
  \E s \in Scripts :
    job' = r /\ next' = s /\ pc' = IF Kept(r, s) THEN "register" ELSE "create"

handle_route_changed(r) ==
  /\ pc = "idle" /\ Counted /\ mode' = "change" /\ Begin(r)
  /\ UNCHANGED <<alsaVars, watching, tableVars, todo, fresh, dying, scan>>

(* reload_all_routes                                                       *)
Reload ==
  /\ pc = "idle" /\ Counted /\ mode' = "all" /\ todo' = Loaded /\ pc' = "all"
  /\ UNCHANGED <<alsaVars, watching, tableVars, job, next, fresh, dying, scan>>

StartOne ==
  /\ pc = "all" /\ \E r \in todo : todo' = todo \ {r} /\ Begin(r)
  /\ UNCHANGED <<alsaVars, watching, tableVars, mode, fresh, dying, scan, starts>>

Missing == {p \in Ports[next] : fresh[<<job, p>>] = 0}

(* RoutePorts::create, the outputs first.                                  *)
CreatePort ==
  /\ pc = "create"
  /\ \E p \in Missing :
       /\ p \in Inputs => Missing \subseteq Inputs
       /\ Appear(<<job, p>>)
       /\ fresh' = [fresh EXCEPT ![<<job, p>>] = Min(Unused)]
  /\ UNCHANGED <<subs, plugs, watching, tableVars, pc, mode, todo, job, next, dying,
                 scan, starts>>

(* Mutation: a start that fails ends the handler.                          *)
MutantAfterJob == "idle"

(* Where the handler goes on after one route.                              *)
AfterJob == IF mode = "change" THEN "idle" ELSE "all"

NoJob == job' = Free /\ next' = Free /\ fresh' = Unloaded

FreshIds == {fresh[n] : n \in OurNames} \ {0}

(* Script or port fails, not once all ports exist: those made are closed.  *)
StartFails ==
  /\ pc = "register" \/ (pc = "create" /\ Missing # {})
  /\ Vanish(FreshIds)
  /\ pc' = AfterJob /\ NoJob
  /\ UNCHANGED <<announced, plugs, watching, tableVars, mode, todo, dying, scan, starts>>

-----------------------------------------------------------------------------
(* The handlers of main, after Route::start.                               *)

OwnIds(r) == {own[<<r, p>>] : p \in PortIds} \ {0}

(* register_route.  A changed route is connected before the Route it       *)
(* replaces is dropped; a reload drops all, and connects at its end.       *)
register_route ==
  /\ pc = "register" \/ (pc = "create" /\ Missing = {})
  /\ specs' = Retained(job) \cup Wanted(job, next)
  /\ misled' = misled \cap specs'
  /\ script' = [script EXCEPT ![job] = next]
  /\ IF Kept(job, next)
     THEN own' = own /\ dying' = {}
     ELSE /\ own' = [n \in OurNames |-> IF n[1] = job THEN fresh[n] ELSE own[n]]
          /\ dying' = OwnIds(job)
  /\ NoJob
  /\ IF mode = "change" THEN pc' = "apply" /\ scan' = specs'
                        ELSE pc' = "replace" /\ scan' = scan
  /\ UNCHANGED <<alsaVars, watching, mode, todo, starts>>

(* apply_all looks at one spec.                                            *)
Apply ==
  /\ pc = "apply"
  /\ \E x \in scan :
       /\ scan' = scan \ {x}
       /\ subs' = subs \cup Links(x, Ids)
       /\ misled' = (misled \ {x}) \cup Misled({x})
  /\ UNCHANGED <<client, announced, plugs, watching, specs, script, own, pc, jobVars, starts>>

Applied ==
  /\ pc = "apply" /\ scan = {}
  /\ pc' = IF mode = "change" THEN "replace" ELSE "idle"
  /\ UNCHANGED <<alsaVars, watching, tableVars, jobVars, scan, starts>>

InputIds(I) == {i \in I : client[i][2] \in Inputs}

(* Mutation: the inputs are shared with the loop thread too.               *)
MutantClose(I) == \E C \in {{}, I} : Vanish(C)

(* Dropping a Route closes its inputs.  Its outputs are shared with its    *)
(* loop thread, which lives on, unless it ended by an error.               *)
Close(I) == \E O \in {{}, I \ InputIds(I)} : Vanish(InputIds(I) \cup O)

(* self.routes.insert                                                      *)
Replace ==
  /\ pc = "replace"
  /\ Close(dying) /\ dying' = {}
  /\ pc' = AfterJob
  /\ UNCHANGED <<announced, plugs, watching, tableVars, mode, todo, job, next, fresh,
                 scan, starts>>

(* The loop over the routes ends in apply_all.                             *)
AllStarted ==
  /\ pc = "all" /\ todo = {}
  /\ pc' = "apply" /\ scan' = specs
  /\ UNCHANGED <<alsaVars, watching, tableVars, jobVars, starts>>

(* The route of a file that is gone: self.routes.remove, unregister_route. *)
Remove(r) ==
  /\ pc = "idle" /\ Counted /\ r \in Loaded
  /\ Close(OwnIds(r))
  /\ specs' = Retained(r) /\ misled' = misled \cap specs'
  /\ script' = [script EXCEPT ![r] = Free]
  /\ own' = [n \in OurNames |-> IF n[1] = r THEN 0 ELSE own[n]]
  /\ UNCHANGED <<announced, plugs, watching, pc, jobVars, scan>>

MainStep == \/ StartOne \/ CreatePort \/ StartFails \/ register_route
            \/ Apply \/ Applied \/ Replace \/ AllStarted

-----------------------------------------------------------------------------
(* The watcher thread.                                                     *)

(* A PORT_START is read; the port is given 100 ms.                         *)
WatchRead ==
  /\ watching = 0 /\ announced # <<>>
  /\ watching' = Head(announced) /\ announced' = Tail(announced)
  /\ UNCHANGED <<client, subs, plugs, tableVars, pc, jobVars, scan, starts>>

(* Mutation: while main applies the specs the announcement is passed over. *)
MutantWatchConnect ==
  /\ watching # 0
  /\ IF pc = "apply" THEN subs' = subs /\ misled' = misled
     ELSE LET X == {x \in specs : Matches(x, watching)}
          IN /\ subs' = subs \cup UNION {Links(x, {watching}) : x \in X}
             /\ misled' = misled \cup Misled(X)
  /\ watching' = 0
  /\ UNCHANGED <<client, announced, plugs, specs, script, own, pc, jobVars, scan, starts>>

(* connect_new_port: whoever has that address now.                         *)
connect_new_port ==
  /\ watching # 0 /\ pc # "apply"
  /\ LET X == {x \in specs : Matches(x, watching)}
     IN /\ subs' = subs \cup UNION {Links(x, {watching}) : x \in X}
        /\ misled' = misled \cup Misled(X)
  /\ watching' = 0
  /\ UNCHANGED <<client, announced, plugs, specs, script, own, pc, jobVars, scan, starts>>

Next == \/ MainStep \/ Reload \/ \E r \in Routes : handle_route_changed(r) \/ Remove(r)
        \/ WatchRead \/ connect_new_port \/ Plug \/ Unplug

Spec == Init /\ [][Next]_vars

-----------------------------------------------------------------------------
TypeOK ==
  /\ client \in [Ids -> Names \cup {Free}]
  /\ subs \subseteq Ids \X Ids
  /\ announced \in Seq(Ids) /\ watching \in Ids \cup {0} /\ plugs \in 0 .. MaxPlugs
  /\ \A x \in specs : x.name \in OurNames /\ x.pattern \subseteq Names
  /\ misled \subseteq specs /\ scan \subseteq specs
  /\ script \in [Routes -> Scripts \cup {Free}]
  /\ own \in [OurNames -> Ids \cup {0}] /\ fresh \in [OurNames -> Ids \cup {0}]
  /\ pc \in {"all", "create", "register", "apply", "replace", "idle"}
  /\ mode \in {"all", "change"} /\ todo \subseteq Routes
  /\ job \in Routes \cup {Free} /\ next \in Scripts \cup {Free}
  /\ dying \subseteq Ids /\ starts \in 0 .. MaxStarts
  /\ pc = "idle" => todo = {} /\ job = Free /\ dying = {} /\ scan = {}

Quiet == pc = "idle" /\ announced = <<>> /\ watching = 0

(* Between two handlers the specs are those of the loaded scripts, also    *)
(* after starts that failed, and of no other (alsa_connect.rs:36-91).      *)
SpecsOfLoaded ==
  pc = "idle" => specs = UNION {Wanted(r, script[r]) : r \in Loaded}

(* Each port of a loaded route is a client of its name, through every      *)
(* reload that keeps, replaces or fails to create ports; and there is no   *)
(* input that belongs to no loaded route: what was removed receives no     *)
(* MIDI (route.rs:281-295, main.rs:224-243).                               *)
PortsOfLoaded ==
  /\ \A r \in Loaded, p \in PortIds :
       IF p \in Ports[script[r]]
       THEN own[<<r, p>>] # 0 /\ client[own[<<r, p>>]] = <<r, p>>
       ELSE own[<<r, p>>] = 0
  /\ pc = "idle" =>
       \A i \in Ids : client[i] \in Routes \X Inputs => own[client[i]] = i

(* What the manager and the sequencer hold is that of the loaded routes.   *)
LoadedOnly == SpecsOfLoaded /\ PortsOfLoaded

(* When main and the watcher have nothing to do, every client a spec       *)
(* matches is connected to the port of its route, whichever of them came   *)
(* first, during a scan, or on a number that was somebody else's.  This    *)
(* leaves out the specs whose last lookup of the port found another client *)
(* of its name (alsa_connect.rs:94-102, 184-199, 202-227).                 *)
Connected(x) ==
  \A i \in Ids : Matches(x, i) => Link(x, own[x.name], i) \in subs

Wired == Quiet => \A x \in specs \ misled : Connected(x)

-----------------------------------------------------------------------------
(* Claims the code does not keep.                                          *)

(* README, Hot-plug: "When a device appears after the daemon has started,  *)
(* any matching route ports are connected to it automatically".            *)
HotPlugged == Quiet => \A r \in Loaded : \A x \in Wanted(r, script[r]) : Connected(x)
=============================================================================
