------------------------------- MODULE Daemon -------------------------------
(***************************************************************************)
(* The main thread of the daemon: it loads the scripts of routes_dir,      *)
(* follows the edits inotify reports and the reloads asked of it, and      *)
(* keeps the registries that lead events to the running instance of each   *)
(* route (src/src/main.rs; Route::start in src/src/route.rs; the           *)
(* registration half of ObsManager in src/src/obs.rs; the spec table of    *)
(* src/src/alsa_connect.rs).                                               *)
(*                                                                         *)
(* A handler of the main thread runs to completion before the next event   *)
(* is taken, but the disk does not wait for it: a handler is cut at every  *)
(* point where it looks at the disk.  What a route declares is a function  *)
(* of its script: what its section of config.toml adds is left out.  The   *)
(* instances themselves are modelled in RouteInstance, the connections to  *)
(* OBS in ObsConnection.                                                   *)
(***************************************************************************)
EXTENDS Naturals, Sequences

CONSTANTS
  Names,      \* file stems of routes, none the prefix of another
  Scripts,    \* what a file can contain
  Absent,     \* no such file; no such route
  Layout,     \* script -> the ports it declares
  OscPort,    \* script -> the OSC ports it declares: one or none, as a set
  ObsConns,   \* script -> the OBS connections it wants events of
  Conns,      \* names of OBS connections
  Configs,    \* what config.toml can contain,
  Broken,     \* and a content that config.rs cannot parse
  ConfigObs,  \* config -> [Conns -> settings], 0: not configured
  ConfigPort, \* config -> the global OSC ports: one or none, as a set
  MaxEdits,   \* bound: edits of files
  MaxReloads, \* bound: reload commands
  Faults      \* which of "startup edits", "misses", "start fails" and
              \* "bind fails" may happen

ASSUME BoundsAssumption == MaxEdits \in Nat /\ MaxReloads \in Nat
ASSUME ScriptsAssumption ==
  /\ Absent \notin Scripts /\ Broken \notin Configs
  /\ \A s \in Scripts : s \in DOMAIN Layout /\ s \in DOMAIN OscPort
  /\ ObsConns \in [Scripts -> SUBSET Conns]
  /\ ConfigObs \in [Configs -> [Conns -> Nat]]

VARIABLES
  disk,       \* the files of routes_dir
  diskConfig, \* config.toml
  events,     \* what the watcher put in its channel, oldest first
  edits, reloads,
  asked,      \* a reload was asked for after the last edit
  missed,     \* what was edited unreported and not read since
  failed,     \* routes whose last start failed
  pc,         \* where the main thread is
  mode,       \* which handler: "load", "change" or "reload"
  todo,       \* the routes the handler still has to start
  job,        \* the route it is starting,
  snapshot,   \* and the script it read for it
  config,     \* Daemon.config
  started,    \* every Route::start that succeeded, in order
  routes,     \* Daemon.routes: name -> index into started, 0: none
  fwd,        \* port set -> the instance its MIDI goes to
  specs,      \* ConnectionManager: name -> the script whose ports are there
  oscTable,   \* osc_dispatch: name -> instance
  receivers,  \* osc_receivers: the UDP ports bound
  unbound,    \* the needed ports whose last bind failed
  obsRunning, \* ObsManager.connections: connection -> settings, 0: none
  obsTable    \* ObsManager.dispatch: connection -> name -> instance

worldVars == <<disk, diskConfig, events, edits, reloads, asked>>
faultVars == <<missed, failed>>
jobVars   == <<pc, mode, todo, job, snapshot>>
regVars   == <<routes, started, fwd, specs, oscTable, obsTable>>
recvVars  == <<receivers, unbound>>
vars == <<worldVars, faultVars, jobVars, config, regVars, recvVars, obsRunning>>

Loaded == {n \in Names : routes[n] # 0}

NoOne == [n \in Names |-> 0]

-----------------------------------------------------------------------------
(* The watcher.  ConfigChanged carries no path.                            *)

RouteChanged(n) == <<"RouteChanged", n>>
ConfigChanged   == <<"ConfigChanged">>

ConfigFile == "config.toml"

ASSUME NamesAssumption == ConfigFile \notin Names

(* The watcher is set up after the routes are loaded: an edit before that  *)
(* is not reported.  inotify may also miss one.                            *)
Watching == pc # "load" /\ mode # "load"

Report(e, file) ==
  /\ \/ Watching /\ events' = Append(events, e) /\ missed' = missed \ {file}
     \/ /\ ~Watching \/ "misses" \in Faults
        /\ events' = events /\ missed' = missed \cup {file}
  /\ failed' = failed

MayEdit == /\ edits < MaxEdits /\ edits' = edits + 1 /\ asked' = FALSE
           /\ Watching \/ "startup edits" \in Faults

(* A file is created, written or removed.  Truncating a file before it is  *)
(* written is an edit of its own.                                          *)
Edit(n) ==
  /\ MayEdit
  /\ \E s \in (Scripts \cup {Absent}) \ {disk[n]} : disk' = [disk EXCEPT ![n] = s]
  /\ Report(RouteChanged(n), n)
  /\ UNCHANGED <<diskConfig, reloads, jobVars, config, regVars, recvVars, obsRunning>>

EditConfig ==
  /\ MayEdit
  /\ \E c \in (Configs \cup {Broken}) \ {diskConfig} : diskConfig' = c
  /\ Report(ConfigChanged, ConfigFile)
  /\ UNCHANGED <<disk, reloads, jobVars, config, regVars, recvVars, obsRunning>>

-----------------------------------------------------------------------------
(* ObsManager.                                                             *)

(* sync: a connection that is new or changed is started, with an empty     *)
(* dispatch table; one that is gone loses its table.                       *)
obs_sync(c) ==
  /\ obsRunning' = ConfigObs[c]
  /\ obsTable' = [x \in Conns |->
       IF ConfigObs[c][x] = obsRunning[x] THEN obsTable[x] ELSE NoOne]

(* Mutation: an injector replaces one there is, and is not added.          *)
mutant_obs_register(n, g, wanted) ==
  obsTable' = [x \in Conns |->
    IF x \in wanted /\ obsTable[x][n] # 0
    THEN [obsTable[x] EXCEPT ![n] = g] ELSE obsTable[x]]

(* register_route: an injector is added for each connection declared that  *)
(* is configured; unregister_route removes it from all.                    *)
obs_register(n, g, wanted) ==
  obsTable' = [x \in Conns |->
    IF x \in wanted /\ obsRunning[x] # 0
    THEN [obsTable[x] EXCEPT ![n] = g] ELSE obsTable[x]]

obs_unregister(n) == obsTable' = [x \in Conns |-> [obsTable[x] EXCEPT ![n] = 0]]

-----------------------------------------------------------------------------
Needed(r, c) ==
  ConfigPort[c] \cup UNION {OscPort[started[r[n]].script] : n \in {m \in Names : r[m] # 0}}

(* sync_osc_receivers: a port that is needed and not bound is tried again, *)
(* and a port that is no longer needed is released.                        *)
sync_osc_receivers(r, c) ==
  \E refused \in SUBSET (IF "bind fails" \in Faults THEN Needed(r, c) \ receivers ELSE {}) :
    receivers' = Needed(r, c) \ refused /\ unbound' = refused

Init ==
  /\ disk \in [Names -> Scripts \cup {Absent}] /\ diskConfig \in Configs
  /\ events = <<>> /\ edits = 0 /\ reloads = 0 /\ asked = FALSE
  /\ missed = {} /\ failed = {}
  /\ pc = "load" /\ mode = "load" /\ todo = {} /\ job = Absent /\ snapshot = Absent
  /\ config = diskConfig
  /\ routes = NoOne /\ started = <<>> /\ fwd = <<>>
  /\ specs = [n \in Names |-> Absent]
  /\ oscTable = NoOne /\ receivers = {} /\ unbound = {}
  /\ obsRunning = ConfigObs[diskConfig]
  /\ obsTable = [x \in Conns |-> NoOne]

(* load_all_routes: the entries of the directory.                          *)
LoadAll ==
  /\ pc = "load"
  /\ todo' = {n \in Names : disk[n] # Absent}
  /\ pc' = "pick"
  /\ UNCHANGED <<worldVars, faultVars, mode, job, snapshot, config, regVars, recvVars, obsRunning>>

-----------------------------------------------------------------------------
(* Starting one route.                                                     *)

(* Where a failure to start one route leads: the other routes follow; the  *)
(* handler of one changed route is over.                                   *)
AfterFailure == IF mode = "change" THEN "idle" ELSE "pick"

Done == job' = Absent /\ snapshot' = Absent

Pick ==
  /\ pc = "pick" /\ todo # {}
  /\ \E n \in todo : job' = n /\ todo' = todo \ {n}
  /\ pc' = "read"
  /\ UNCHANGED <<worldVars, faultVars, mode, snapshot, config, regVars, recvVars, obsRunning>>

(* Mutation: a reload starts the script it has, with the new config.       *)
MutantRead ==
  /\ pc = "read"
  /\ \/ disk[job] = Absent /\ pc' = AfterFailure /\ Done /\ missed' = missed
     \/ /\ disk[job] # Absent /\ pc' = "start" /\ missed' = missed \ {job}
        /\ snapshot' = IF mode = "reload" THEN started[routes[job]].script ELSE disk[job]
        /\ job' = job
  /\ UNCHANGED <<worldVars, failed, mode, todo, config, regVars, recvVars, obsRunning>>

(* Route::start reads the file, which may be gone by now.                  *)
Read ==
  /\ pc = "read"
  /\ \/ disk[job] = Absent /\ pc' = AfterFailure /\ Done /\ missed' = missed
     \/ /\ disk[job] # Absent /\ pc' = "start" /\ missed' = missed \ {job}
        /\ snapshot' = disk[job] /\ job' = job
  /\ UNCHANGED <<worldVars, failed, mode, todo, config, regVars, recvVars, obsRunning>>

(* RoutePorts::create fails; the running instance, if any, is untouched.   *)
StartFails ==
  /\ pc = "start" /\ "start fails" \in Faults
  /\ routes[job] # 0 => Layout[started[routes[job]].script] # Layout[snapshot]
  /\ pc' = AfterFailure /\ Done /\ failed' = failed \cup {job}
  /\ UNCHANGED <<worldVars, missed, mode, todo, config, regVars, recvVars, obsRunning>>

(* Mutation: once a route is loaded, the events already reported for it    *)
(* are considered handled.                                                 *)
Debounced(n) == SelectSeq(events, LAMBDA e : e # RouteChanged(n))

(* Route::start succeeds: MIDI of ports that are kept goes to the new      *)
(* instance, otherwise new ports are created.  Then the handler registers  *)
(* the instance everywhere and lets the old one go.                        *)
Ports(n, s) ==
  IF routes[n] # 0 /\ Layout[started[routes[n]].script] = Layout[s]
  THEN started[routes[n]].ports
  ELSE Len(started) + 1

(* Mutation: ports that are created are not wired to the instance.         *)
MutantRedirect(g, p) ==
  fwd' = [q \in DOMAIN fwd |-> IF q = p THEN g ELSE fwd[q]]

Redirect(g, p) ==
  fwd' = [q \in DOMAIN fwd \cup {p} |-> IF q = p THEN g ELSE fwd[q]]

(* Mutation: Debounced.                                                    *)
MutantInstall ==
  /\ pc = "start"
  /\ LET g == Len(started) + 1
         p == Ports(job, snapshot)
     IN /\ started' = Append(started, [script |-> snapshot, ports |-> p])
        /\ Redirect(g, p)
        /\ specs' = [specs EXCEPT ![job] = snapshot]
        /\ oscTable' = [oscTable EXCEPT ![job] = g]
        /\ obs_register(job, g, ObsConns[snapshot])
        /\ routes' = [routes EXCEPT ![job] = g]
  /\ pc' = "pick" /\ Done /\ failed' = failed \ {job}
  /\ events' = Debounced(job)
  /\ UNCHANGED <<disk, diskConfig, edits, reloads, asked, missed, mode, todo, config,
                 recvVars, obsRunning>>

Install ==
  /\ pc = "start"
  /\ LET g == Len(started) + 1
         p == Ports(job, snapshot)
     IN /\ started' = Append(started, [script |-> snapshot, ports |-> p])
        /\ Redirect(g, p)
        /\ specs' = [specs EXCEPT ![job] = snapshot]
        /\ oscTable' = [oscTable EXCEPT ![job] = g]
        /\ obs_register(job, g, ObsConns[snapshot])
        /\ routes' = [routes EXCEPT ![job] = g]
  /\ pc' = "pick" /\ Done /\ failed' = failed \ {job}
  /\ UNCHANGED <<worldVars, missed, mode, todo, config, recvVars, obsRunning>>

(* The handler's last act; after load_all_routes the watcher is set up.    *)
SyncReceivers ==
  /\ pc = "pick" /\ todo = {}
  /\ sync_osc_receivers(routes, config)
  /\ pc' = "idle" /\ mode' = "change"
  /\ UNCHANGED <<worldVars, faultVars, todo, job, snapshot, config, regVars, obsRunning>>

-----------------------------------------------------------------------------
(* Handlers.                                                               *)

(* Mutation: the OSC dispatch table keeps the injector.                    *)
MutantRemove(n) ==
  /\ routes' = [routes EXCEPT ![n] = 0]
  /\ specs' = [specs EXCEPT ![n] = Absent]
  /\ oscTable' = oscTable
  /\ obs_unregister(n)
  /\ sync_osc_receivers(routes', config)
  /\ UNCHANGED <<started, fwd>>

(* Mutation: the receivers are synchronised before the route is let go.    *)
MutantLateRemove(n) ==
  /\ routes' = [routes EXCEPT ![n] = 0]
  /\ specs' = [specs EXCEPT ![n] = Absent]
  /\ oscTable' = [oscTable EXCEPT ![n] = 0]
  /\ obs_unregister(n)
  /\ sync_osc_receivers(routes, config)
  /\ UNCHANGED <<started, fwd>>

(* The route of a file that is gone.                                       *)
Remove(n) ==
  /\ routes' = [routes EXCEPT ![n] = 0]
  /\ specs' = [specs EXCEPT ![n] = Absent]
  /\ oscTable' = [oscTable EXCEPT ![n] = 0]
  /\ obs_unregister(n)
  /\ sync_osc_receivers(routes', config)
  /\ UNCHANGED <<started, fwd>>

handle_route_changed(n) ==
  /\ mode' = "change"
  /\ \/ disk[n] # Absent /\ pc' = "read" /\ job' = n /\ UNCHANGED <<failed, regVars, recvVars>>
        /\ missed' = missed
     \/ disk[n] = Absent /\ Remove(n) /\ UNCHANGED <<pc, job>>
        /\ failed' = failed \ {n} /\ missed' = missed \ {n}
  /\ UNCHANGED <<todo, snapshot, config, obsRunning>>

(* A config.toml that cannot be parsed changes nothing.  Otherwise         *)
(* reload_all_routes starts the routes that are loaded.                    *)
handle_config_changed ==
  \/ /\ diskConfig = Broken
     /\ UNCHANGED <<faultVars, jobVars, config, regVars, recvVars, obsRunning>>
  \/ /\ diskConfig # Broken
     /\ config' = diskConfig /\ missed' = missed \ {ConfigFile} /\ failed' = failed
     /\ obs_sync(diskConfig)
     /\ mode' = "reload" /\ todo' = Loaded /\ pc' = "pick"
     /\ UNCHANGED <<job, snapshot, routes, started, fwd, specs, oscTable, recvVars>>

TakeEvent ==
  /\ pc = "idle" /\ events # <<>>
  /\ events' = Tail(events)
  /\ IF Head(events) = ConfigChanged
     THEN handle_config_changed
     ELSE handle_route_changed(Head(events)[2])
  /\ UNCHANGED <<disk, diskConfig, edits, reloads, asked>>

(* The control socket's reload.                                            *)
ReloadCommand ==
  /\ pc = "idle" /\ reloads < MaxReloads
  /\ reloads' = reloads + 1 /\ asked' = (diskConfig # Broken)
  /\ handle_config_changed
  /\ UNCHANGED <<disk, diskConfig, events, edits>>

MainStep == \/ LoadAll \/ Pick \/ Read \/ StartFails \/ Install
            \/ SyncReceivers \/ TakeEvent

Next == MainStep \/ ReloadCommand \/ EditConfig \/ \E n \in Names : Edit(n)

Spec == Init /\ [][Next]_vars

-----------------------------------------------------------------------------
(* A number of an instance: 0 is none.                                     *)
Instances == 0 .. Len(started)

TypeOK ==
  /\ disk \in [Names -> Scripts \cup {Absent}] /\ diskConfig \in Configs \cup {Broken}
  /\ \A i \in DOMAIN events : events[i] \in {RouteChanged(n) : n \in Names} \cup {ConfigChanged}
  /\ edits \in 0 .. MaxEdits /\ reloads \in 0 .. MaxReloads /\ asked \in BOOLEAN
  /\ pc \in {"load", "pick", "read", "start", "idle"}
  /\ mode \in {"load", "change", "reload"} /\ todo \subseteq Names
  /\ job \in Names \cup {Absent} /\ snapshot \in Scripts \cup {Absent}
  /\ config \in Configs
  /\ missed \subseteq Names \cup {ConfigFile} /\ failed \subseteq Names
  /\ \A g \in DOMAIN started : started[g].script \in Scripts
                              /\ started[g].ports \in DOMAIN fwd
  /\ \A p \in DOMAIN fwd : fwd[p] \in Instances \ {0}
  /\ routes \in [Names -> Instances] /\ oscTable \in [Names -> Instances]
  /\ specs \in [Names -> Scripts \cup {Absent}]
  /\ obsTable \in [Conns -> [Names -> Instances]] /\ obsRunning \in [Conns -> Nat]

LoadedScript(n) == IF routes[n] = 0 THEN Absent ELSE started[routes[n]].script

Idle  == pc = "idle"
Quiet == Idle /\ events = <<>>

(* Between two handlers every registry leads to the instance the routes    *)
(* map holds, or to none where it holds none: MIDI of the route's ports,   *)
(* OSC by its name, and ALSA connections for the ports it has; also after  *)
(* starts that failed half way (main.rs:183-187, 203-207, 227-231,         *)
(* 238-241; route.rs:281-295).                                             *)
RegistriesAgree ==
  Idle => \A n \in Names :
    /\ oscTable[n] = routes[n]
    /\ specs[n] = LoadedScript(n)
    /\ n \in Loaded => fwd[started[routes[n]].ports] = routes[n]

(* Between two handlers a UDP port is bound exactly if the config or a     *)
(* loaded route names it and the last attempt to bind it did not fail      *)
(* (main.rs:131-154), however routes and config changed and whatever failed*)
ReceiversNeeded == Idle => receivers = Needed(routes, config) \ unbound

(* When all reported edits are handled the loaded scripts and the config   *)
(* are those on disk, though files change while a handler reads them       *)
(* (main.rs:216-264): all but those whose last edit went unreported or     *)
(* whose last start failed.                                                *)
Caught(n) == n \in missed \cup failed \/ LoadedScript(n) = disk[n]
ConfigCaught == ConfigFile \in missed \/ diskConfig \in {config, Broken}

QuiescentFresh == Quiet => ConfigCaught /\ \A n \in Names : Caught(n)

(* When all reported edits are handled each route gets the events of every *)
(* configured OBS connection it declares, though a changed connection      *)
(* starts with an empty table (obs.rs:71-74, main.rs:256-258).             *)
ObsRegistered ==
  Quiet => \A n \in Loaded \ (missed \cup failed), x \in Conns :
    x \in ObsConns[LoadedScript(n)] /\ obsRunning[x] # 0 => obsTable[x][n] = routes[n]

(* A reload command brings every loaded route whose file exists and which  *)
(* starts to the content of its file, also when inotify missed edits       *)
(* (main.rs:197-214).                                                      *)
ReloadRefreshesLoaded ==
  Quiet /\ asked =>
    \A n \in Loaded \ failed : disk[n] # Absent => LoadedScript(n) = disk[n]
=============================================================================
