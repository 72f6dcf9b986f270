# TLA+ models of midi-daemon

midi-daemon runs Lua scripts ("routes") that transform MIDI, OSC and OBS events.
This directory holds TLA+ models of its concurrent core, TLC configurations that
check them on small instances, and TLAPS proofs of what holds for every size.
Line references are to the files of this repository (`src/route.rs` and so on);
every action below carries the name of the function it models, or a comment that
names it.

## 1. The system

| Component | State it keeps | Operations | Talks to |
|---|---|---|---|
| **Route instance** `route.rs`, `timer.rs` | a bounded channel of 256 events; `Timer {bpm, ppqn, running}` shared by two threads; the Lua VM | `Route::start`, the loop `run_lua_event_loop`, the timer thread, `shutdown`, drop | producers `try_send` into the channel, the timer uses `blocking_send`; main joins the loop |
| **OSC params** `osc_params.rs`, `TouchOSC/lib/subscribe.lua` | subscribers with expiry, time of the last sweep and heartbeat, MIDI bindings, a cache of subscribers for `send_osc` | subscribe, unsubscribe, heartbeat, set, trigger, `dispatch_midi`, `resync`, `tick` | clients over UDP; called by the loop of the route |
| **Daemon main loop** `main.rs` | `routes`, `osc_dispatch`, `osc_receivers`, `config` | load, change and removal of a route, change of config, reload, resync, status, graceful shutdown | inotify, signals, the control socket; starts and drops routes |
| **OBS manager** `obs.rs` | running connections with their settings, a dispatch table per connection, a request queue and a task per connection | `sync`, `register_route`, `unregister_route`, `run_connection`, `obs_call`, `obs_call_sync` | route threads queue requests; the task injects events into routes |
| **ALSA connection manager** `alsa_connect.rs` | specs of wanted subscriptions by port name | apply, remove, `on_port_start` | the ALSA sequencer; called by the main loop and a watcher thread |
| **OSC transport** `osc.rs`, `main.rs`, `route.rs` | a UDP socket and a thread per port; a socket and targets per route | receive, dispatch by prefix, drop and join; `send_osc` | the dispatch table, under its lock; the route's script |
| **Configuration** `config.rs` | the parsed `config.toml` | search, load, defaults | main loop |
| **Declarations** `route.rs` | none | extraction of ports, patterns, `osc` and `obs` from script, section and globals | `Route::start` |
| **MIDI codec** `lua_api.rs`, `osc_params.rs` | none | bytes to table and back, keys, payloads and scales of bindings | `on_midi`, `send`, params |
| **Saved state** `lua_api.rs` | a state file per route, which outlives the process | `save_state`, `load_state` | callbacks of every instance of the route |
| **Control socket** `main.rs`, `config.rs` | a socket file, a queue of 8 commands | bind, accept, enqueue, answer; removal at exit | clients, main loop, other daemons at the same path |
| **Routes** `routes.d/*.lua` | script variables | callbacks | their instance |

### What is hard here, and what makes each part correct

* **Route instance.** Four kinds of thread share one small channel; three of them
  drop what does not fit, and one waits. The ticks a script counts must stay
  gapless, the waiting timer must not starve, an accepted shutdown must be acted
  upon, and the two threads, which keep each other alive through the channel and
  the `Arc<Timer>`, must end.
* **OSC params.** Subscriptions are soft state over a lossy, reordering transport,
  and are swept on ticks. A client that beats must stay, one that is gone must be
  forgotten within a bound, and no subscriber may show a stale value.
* **Main loop.** Files change while a handler reads them, some edits are never
  reported, starts and binds fail half way, and five registries must point at the
  same instance afterwards.
* **OBS.** Tasks outlive their entry in the configuration, requests wait through
  reconnects, callers time out. Nothing may be repeated, overtaken, lost or
  answered with somebody else's answer.
* **ALSA connections.** Two threads subscribe while ports come and go, by looking clients
  up by name, while old and new ports of one name may exist together. Whatever a loaded
  route wants connected and exists must get connected, and what is gone must receive nothing.
* **Declarations.** Three sources, two ways to name a port in each, lists that may be cut
  short by a value of another kind, and scripts that do not load: each port must get the most
  specific patterns, and what falls back to other ports must still be able to send.
* **Codec.** Scripts write any number into any field. What is passed on must arrive as it
  came, what is altered must stay a message of its type, and a release must not look like a press.
* **Saved state.** The file is truncated and written in place, by every instance that lives:
  the current one, those left over from reloads, and `on_shutdown` last.
* **Socket and ports.** Daemons crash and leave files, take each other's path, and give ports
  back while threads read them; a client must not wait for ever.

## 2. Modules

| Module | What it is | Source |
|---|---|---|
| `TickStream` | abstract: `on_tick` is called with consecutive numbers until the loop ends | `timer.rs:93`, `route.rs:853` |
| `RouteInstance` | one started route: timer thread, loop thread, producers, main's use of the Route; implements `TickStream` | `route.rs`, `timer.rs`, `main.rs:293-312` |
| `OscParams` | subscriptions and params of one route, its clients, the network, time | `osc_params.rs`, `route.rs:846-885`, `subscribe.lua` |
| `Daemon` | main loop, disk, watcher, registries, registration half of OBS | `main.rs`, `route.rs:246-295`, `obs.rs:60-121` |
| `ObsConnection` | the tasks that have served one connection name, and their callers | `obs.rs:50-250`, `route.rs:1130-1195` |
| `AlsaConnect` | ports of routes, the specs, main and the watcher that subscribe, the sequencer | `alsa_connect.rs`, `route.rs:66-175, 281-295`, `main.rs:171-245` |
| `Declarations` | what a route is given, as functions of script, section and globals | `route.rs:14-75, 297-335, 436-724` |
| `MidiCodec` | messages as bytes, as tables and as values of params, as functions | `lua_api.rs:79-205`, `osc_params.rs:10-132` |
| `OscMessages` | arguments of OSC and the destinations of `send_osc`, as functions | `lua_api.rs:207-297`, `route.rs:1013-1128` |
| `LuaApi` | a route seen from its script; composes the three | `route.rs:246-375, 831-970` |
| `StateFile` | the state file of one route, its instances, and the ends of the daemon | `lua_api.rs:6-50`, `main.rs:293-312` |
| `Endpoints` | several daemons: socket files, clients, commands, the threads of OSC ports | `main.rs:35-153, 313-397, 512-564`, `osc.rs:54-123`, `config.rs:147-177` |
| `RouteInstanceProofs`, `OscParamsProofs`, `DaemonProofs`, `ObsConnectionProofs`, `AlsaConnectProofs`, `StateFileProofs`, `EndpointsProofs`, `LuaApiProofs` | TLAPS proofs about the module so named; `LuaApiProofs` also about the functions `LuaApi` composes | |
| `MC*` | instances for TLC | |

`RouteInstance`, `OscParams`, `ObsConnection` and `AlsaConnect` look closely at different
parts of what `Daemon` treats as a number in `started`. They are checked separately. The
assumption one makes about another is stated where it is used: `OscParams`
handles one event at a time because `RouteInstance` has one loop thread; `Daemon`
replaces an instance in one step (`Install`) because no other thread touches the
registries in between; `ObsConnection`'s callers get their sender at
`Route::start`, as `Daemon!Install` does; `AlsaConnect!Close` leaves it open whether outputs
of a dropped route close, because `RouteInstance` shows that its loop, which shares them,
lives on unless it ended by an error; `StateFile` lets instances left over from a reload go on
saving for the same reason; `LuaApi` handles one event at a time and takes the cache of
subscribers from `OscParams`; `Endpoints` reduces what a reload does, which `Daemon` has, to
another set of ports it needs, takes the route injectors not to wait (`try_send`,
`RouteInstance!Inject`), and leaves it open whether `graceful_shutdown` ever has joined the
loops of the routes (`RouteInstance!ShutdownJoins`).

### RouteInstance

| Variable | Code |
|---|---|
| `queue`, `rxOpen` | the tokio channel; the receiver is owned by the loop thread |
| `tpc`, `tick` | program counter and local counter of the timer thread |
| `running`, `bpm` | fields of `Timer`; bpm in hundredths, 0 stands for what NaN becomes |
| `lpc`, `cur`, `hooks` | program counter of the loop, event being handled, lifecycle hooks that ran |
| `expected` | history: the number that follows the last tick handled |
| `mpc`, `senders` | what main does with the `Route`; the clones of `tx` outside the timer thread |

The channel is modelled at the level of permits, because that is where the
question "can lossy producers starve the timer" is decided: tokio hands a freed
permit to the oldest waiter (`tpc = "granted"`) and a `try_send` only sees permits
that are free *and* unpromised. A callback (`Handle`, `Startup`) may call
`set_bpm` with any of `BpmArgs`. `set_bpm(NaN)` survives `clamp` and is stored as 0.

### OscParams

Time is relative: `left[a]` is expiry minus now, and so on, so the state space is
finite without a bound on time. `Advance` is a second; within a second everything
in flight arrives or is lost, and a due beat is sent. `missed` bounds the losses in
a row, and `BeatAssumption` says the timeout exceeds what a client may lose.
`sent[a][p]` is history: the last value put on the wire for `a`. `Flaky` params are
those whose `get` or `set` may raise.

### Daemon

A handler of the main loop is cut at each point where it reads the disk, because
that is where an edit can fall between: `LoadAll`/`TakeEvent` (list or look),
`Pick`, `Read` (the script), `Install` or `StartFails`, `SyncReceivers`. `started`
numbers instances; each registry maps to such a number. `missed` and `failed` are
history: files whose last edit went unreported and was not read since, and routes
whose last start failed. `asked` is history for the reload command.

### ObsConnection

`tasks` are all tasks ever spawned for one connection name. `Connect`, `Recv`,
`Reply`, `Disconnect`, `End` are the steps of `run_connection`; `ObsCall`,
`ObsCallSync`, `Answered`, `TimedOut` those of the Lua functions. `calls` numbers the calls of
all callers, a request is its caller and that number, and `asked` and `outcome` are OBS's side.

### AlsaConnect

| Variable | Code |
|---|---|
| `client`, `subs`, `announced` | the sequencer: clients by number, subscriptions, PORT_START events not yet read |
| `specs` | `ConnectionManager.specs` |
| `script`, `own` | the `Route` main holds, as far as its ports go |
| `pc`, `mode`, `todo`, `job`, `next`, `fresh`, `dying`, `scan` | where main is in its handler |
| `watching` | the port for which the watcher waits 100 ms |
| `misled` | history: specs whose last lookup by name found a client that is not the route's |

A client has one port; a pattern is the set of names it matches; client numbers are
reused, the lowest first. `apply_all` holds the lock for its whole scan, so the watcher
(`connect_new_port`) waits while `pc = "apply"`, but devices do not. A changed route is
connected before its old `Route` is dropped (`main.rs:228` before 231); a reload drops
each old `Route` as it goes and connects once, at its end (`main.rs:207, 213`). The
failures to open the sequencer or to subscribe, and the moment before the watcher
subscribes to announcements, are left out.

### Declarations, MidiCodec, OscMessages, LuaApi

The first three are operators named after the functions they model. Where the code returns
an error or `None`, the operator returns the empty set, and else the set of its result; a
script's table, a section and the globals are records of sequences in which `NotAString`
stands for a value of another kind. `LuaApi` gives them a route: `Start` resolves a member of
`Givens`, `MidiIn`, `OscIn` and `TickIn` are the arms of the event loop, and between them and
`Return` the script may write one field (`Change`), remove one (`Drop`) and send (`Send`,
`SendOsc`, `Reply`). `sets` are the calls of `set()` that bindings made for the event.
`connect_from_toml` and `apply_connect_defaults` are checked against `Candidates` and `Before`,
which state without them what there is for a port and which of it goes before what; where the
code and the README disagree on that, `Before` has no opinion (section 4 names both cases). `subs` may hold an address that does not parse: it is passed
over, and the other subscribers get the message.

### StateFile

| Variable | Code |
|---|---|
| `file` | the content of `state.json`, as a sequence of pieces `<<value, place>>` |
| `writes` | each instance's call of `std::fs::write`: what, how far, and whether another was at it |
| `phase`, `current` | the loops of instances, and the one in the `routes` map |
| `daemon`, `last` | how the process ends; history: what the last `on_shutdown` saved |
| `saved`, `torn` | history: the last save that returned, and whether it was disturbed since |

`Open` is `O_TRUNC`; each `Write` puts the next piece at the writer's own place, so that two
writers leave what the kernel would: a mixture, or a `Hole` before the place of the second.
`Shutdown` is an `on_shutdown` that saves, `ShutdownUnsaved` one that does not, is missing, or
whose save fails before it opens the file.

### Endpoints

| Variable | Code |
|---|---|
| `file`, `at` | the socket files, and the path each daemon chose (`control_socket_path`) |
| `pc` | where main is: before `bind`, loading, binding receivers, dropping them, in its loop, answering, joining the loops of routes, leaving |
| `deaf` | `accept()` failed: the accept loop ended, and the listener with it |
| `queue`, `cur`, `client` | the channel of `ControlCmd`s, the one in hand, and the clients' connections |
| `needed`, `open`, `running`, `thread` | `needed_osc_ports`, `osc_receivers`, `OscReceiver.running`, and its thread |
| `alone`, `failed` | history: no other daemon was started at this path since; the last start failed though alone |

A daemon started again is the same member of `Daemons`. `start_control_socket` is cut between
the removal of the old file (`Start`) and `bind` (`Bind`); `sync_osc_receivers` before it drops
(`SyncOpen`), and at each receiver it drops (`SyncDrop`) and joins (`SyncJoin`); `Opens` binds what
is missing. A start that
fails after the bind (`StartFails`) drops what it has, in reverse order, as does the end of `main`
(`Stop`, `Join`, then the receivers, `Exit`). A client connects (`Connect`) if somebody listens
and else gives up, is accepted and its word looked at (`Accept`), and only a command waits for room
in the queue (`Enqueue`); main prefers commands to events of the watcher (`Idle`), and signals to both.

## 3. Runs

Deadlock is checked for `state`, `state_stop` and `osc_flaky`. The other runs pass `CHECK_DEADLOCK FALSE`:
their models really may stop. A route may be joined, edits, calls and starts are bounded, when
the clients have closed nothing is due, and most routes of `lua_api` are only started.

| Run | Question | Bounds and why they suffice |
|---|---|---|
| `route_instance` | safety and liveness of a route under every interleaving of timer, loop, producers, reload, shutdown | `Cap = 2`: full, one free and one promised slot all occur, with an event queued behind another. `TickMod = 4 > Cap + 1`: two ticks in flight are never confused, and the counter wraps. Tempi: below the clamp, and NaN |
| `route_join` | README: shutdown waits for routes and exits | *violated*, finding 1 |
| `osc` | values and life times of subscriptions | two clients, a param that is read and written and one that is only written, a MIDI key bound to both, two values; timeout 3, sweep 2, ticks at most 1 s apart, a beat each second, at most one message lost in a row: every relation between expiry, sweep and beat occurs |
| `osc_flaky` | "Push every readable param's current value" (`osc_params.rs:302`) | *violated*, finding 2 |
| `daemon` | registries and freshness under edits, unreported edits, failing starts and binds | two routes (symmetric), three scripts (same layout, other layout; with and without OSC port, with and without OBS), two configs and one that does not parse, two edits, one reload: an edit of the route or of the config falls into each cut of a handler, also of a reload |
| `obs` | order, once-only, own answer, live task; accepted requests are served, orphaned tasks end | two callers that make two calls between them, in any split, a queue of 1, so that it is full; one change of configuration, to other settings or to none: a late answer meets a second call, a request waits in the queue of a task that was superseded, and both callers share a queue |
| `alsa` | ports, specs and subscriptions while devices come and go | two routes, one of them booted; two layouts, each with an input and an output, which differ in the output; an input connected to a keyboard and to the other route's output, an output connected to a synthesizer; two starts, reloads or removals, two (un)pluggings: a device or a port comes during a scan, before and after it, and the layout changes with the old ports still there. Six client numbers, reused, are enough for all ports at once |
| `alsa_hotplug` | README: "any matching route ports are connected to it automatically" | *violated*, finding 4; route "t" beside route "t2" |
| `lua_api` | what routes are given, and what becomes of messages | scripts with every mixture of missing, empty and broken lists for two ports and for all, with and without a section and a global; one message of each type, at both ends of its ranges; numbers at and beyond every limit of 7, 8, 14 and 16 bits; arguments of each kind, and one of them unsendable at each place; one, two and no targets and subscribers |
| `state` | the state file | three instances (symmetric) of two processes or more, a value written in one piece and one in two: a shorter text over a longer one, two writers at every distance, failures and kills at every step. Saves are unbounded |
| `state_stop` | README: `systemctl stop` preserves state | *violated*, finding 3; two instances |
| `endpoints` | sockets, ports and commands; every command is answered, or its connection ends | a daemon of the system and one of a user, two starts among them: one beside the other at one path and at two, and either again after its exit, its crash or a start that failed; two clients and a queue of 1: one is answered or queued and the other waits for room, while files change and reloads follow without a bound; one port that is needed at times by each; a packet with a message as deep as allowed and one deeper. No symmetry, as it is not sound for liveness |

### Properties

* `HooksPaired`: `on_startup` and `on_shutdown` both or neither. `TickStreamSpec`: the
  route implements `TickStream`, with `next <- expected, alive <- rxOpen`.
  `AcceptedShutdownEnds` and `TimerProgresses` (`TickNotStarved`, `TimerStops`): liveness.
* `SubscribersCaughtUp`: the last value sent of a param is its value. `CacheCurrent`:
  `send_osc` without a target reaches exactly the subscribers. `StaleBound`: how long
  a silent client may be served. `BeatingStays`: a beating client is never swept.
  `SubscriptionsSettle` (`GoneForgotten`, `OpenRecovers`): liveness, including across
  restarts of the route.
* `RegistriesAgree`, `ReceiversNeeded`, `QuiescentFresh`, `ObsRegistered`,
  `ReloadRefreshesLoaded`: what the five registries, the bound ports and the loaded
  scripts have to do with the disk and with each other between handlers. Their
  exceptions (`missed`, `failed`, `unbound`) are the failures themselves, so a fault
  excuses only the file, route or port it hit.
* `InOrder`, `OwnAnswer`, `CallersHaveTask`: a request is not repeated, overtaken, answered with
  another's answer or given to a task that ended. `TasksSettle` (`AcceptedIsServed`,
  `OrphanEnds`): liveness.
* `ConnectResolved`: every port is connected to the whole of one declaration before which there
  is no other. The order is the one code, tests and README agree on: a port's entry before that
  for all ports of the same place, script before section for the same ports, all before globals.
  `SendsPossible`: `send(msg)` reaches a port that exists, whatever became of the declared
  ones (`DefaultSendLands`), and a route that may receive OSC can answer (`RepliesPossible`).
* `MidiKept` (`PassThrough`, `StatusKept`, `BendSaturates`): messages on their way through a
  script: passed on, they are sent as they came (a silent `note_on` as a `note_off`); altered, they
  keep type and channel, though data bytes are sent as the script gave them, above 127 too; a bend
  saturates as long as its sum has 16 bits, that is up to 24575. `ParamsFollow` (`ScaledInRange`, `PressIsPress`): params bound to MIDI.
  `ArgumentsKept`: arguments are sent all or not at all (`OscComplete`), and keep value and
  kind (`EchoKept`).
* `SavedState`: the file holds the last save whole. `ShutdownSaved`: and what `on_shutdown`
  saved, if its instance is the only one. Their exceptions are a save cut off, one that failed,
  and two at a time: they show that nothing *else* damages the file.
* `AloneServes` (`Reachable`, `StartsAfterCrash`): a daemon alone at its path can start there, and
  is found there until its accept loop ends on an error. Not alone is one displaced at its own
  path, and a user's daemon that chose the system's path because of a file there.
  `ReleasedIsClosed`: no thread reads a port its daemon gave back. `Answered`: liveness; its one
  exception is a daemon that waits in `graceful_shutdown` for its routes, which may be for ever.
* `LoadedOnly`: between handlers the specs are those of the loaded scripts (`SpecsOfLoaded`),
  and every port of a loaded route exists, through failing starts, and no other input does
  (`PortsOfLoaded`). `Wired`: when both threads are quiet, what a spec matches is connected
  to the route's own port. Its exception, `misled`, is a lookup by name that found a port
  of the instance being replaced, which the code cannot tell from the new one (section 4).

A name in parentheses is a part of the property before it. Each property of a passing run, and
each part, has a mutant in its module (operators named `Mutant...` or `mutant_...`): a plausible
error in one definition that breaks it.

### Fairness

* `RouteInstance!Fairness`: weak fairness of the timer thread, the loop thread and
  the join: the operating system schedules threads, script callbacks return, sleeps end.
  Producers are not fair, and nothing obliges main to drop a route. Starvation freedom
  of the timer needs no strong fairness *because* permits are handed over.
* `OscParams!Fairness`: ticks are handled, beats are sent, datagrams leave the
  network. Time passes (`SF` of `Advance`), which rules out only infinitely many
  events within one second.
* `ObsConnection!FairSpec`: requests are answered or fail, waits end. It does *not*
  say that OBS can be reached. `ReachableSpec` adds that it can again and again, long
  enough to look at the queue; `AcceptedIsServed` and `OrphanEnds` need it.
* `Endpoints!Fairness`: weak fairness of the main thread of each daemon, of each receiver
  thread, which wakes every 100 ms, of the accept loop and of each connection's task, which waits
  for the queue. `Enqueue` is enabled only while there is room; that it is fair is tokio's doing, which
  serves those that wait in their order, and weak fairness is enough, as each client asks once. Signals, crashes, changes of files and connecting are not fair, and
  nothing is assumed of `Join`. A daemon that ends closes its connections.
* `LuaApi` and `StateFile` have only safety properties; nothing is promised there to happen.
* `Daemon` and `AlsaConnect` have only safety properties: that handlers run to their end
  is their sequential code, and `Wired` speaks of the states in which both threads are done.

## 4. Findings

Where code and documents disagree, a run ends in a counterexample.

1. **A graceful shutdown may hang** (`route_join`). `shutdown()` ignores a `try_send`
   that finds the channel full (`route.rs:195`); main then joins a thread nobody told to end.
   Until it is killed, clients of the control socket get no answer (`Answered` excepts them).
2. **One failing `get()` hides other params** (`osc_flaky`). `dump_state_to` stops at the
   first error (`osc_params.rs:318`), the client is on file already, and no heartbeat
   repairs it.
3. **A dropped `Route` goes on running, and `systemctl stop` may lose the state** (`state_stop`),
   against the comment at `route.rs:169`, "Dropping this stops everything cleanly": its timer thread
   holds a sender (`route.rs:347`) and its loop holds the `Timer` (`route.rs:356`), so the loop never
   finds its channel closed. It gets neither MIDI nor OSC any more, but ticks, and goes on saving, say
   from `on_tick`, into the file in which its successor's `on_shutdown` saves, before, during or after
   it (README, lines 901-902). That it goes on is proved: `TimerInv`, part of the invariant of
   `RouteInstance`, says that while the loop runs, the timer runs and holds a sender.
4. **A route named like the beginning of another's takes its connections along**
   (`alsa_hotplug`). Specs are removed by name prefix (`alsa_connect.rs:44`, 90): when `t.lua`
   is edited or removed, `t2` is no longer connected to devices plugged in later.

Also seen, and not made into a run:

* Main loop. reload is not "equivalent to touching all watched files at once" (README, line
  317): it neither loads new files nor removes routes whose file is gone (`main.rs:198`). An
  edit between the loading of the routes and `watcher.watch` is not reported
  (`main.rs:472-496`; the model has it, `Watching`).
* OBS. sync "stops removed ones" (`obs.rs:67-70`), but a task looks at its queue only while
  connected, so one that cannot reach OBS is retried for ever (`obs.rs:152`; `OrphanEnds`
  needs `ReachableSpec`). A connection a route no longer declares keeps the injector of the
  old instance (`obs.rs:104`; the model has it, `obs_register`).
* ALSA. After a change of layout a new port may be left unconnected until the next scan:
  connections are applied while the replaced ports still exist (`main.rs:228`), and `find_our_port`
  may find the old one of that name (the model has it, `misled`). A pattern that is taken back
  leaves its connections (`alsa_connect.rs:196`); the watcher thread ends when announcements overrun its queue (`alsa_connect.rs:253`).
* Declarations. A section's `connect_p-in` goes before a script's `connect.input`
  (`route.rs:670`, and the comment of `apply_connect_defaults`), though `init()` is "the most specific
  level" (README, 916) and overrides the section (README, 943). The globals are left out by direction:
  a route with patterns for its inputs only has its outputs connected to the global default
  (`route.rs:661-664`), which is "not applied to that route at all" (README, 963-965; the comment at
  `route.rs:660` agrees with the README). The model has the code's order in both. `init()` runs twice for each start, first with stubs
  (`route.rs:550`). A broken script, or a table that lacks one direction, gets the default ports and never those of the
  section (`route.rs:536, 703`), and a host name in `osc_send_addr` is ignored (`route.rs:641`).
* Codec. A `pitch_bend` above 24575 is sent as the lowest value, and panics in a debug build
  (`lua_api.rs:183`; the model has it, `Wrap16`); data bytes above 127 are sent as they are, and are status
  bytes to who receives them (`lua_api.rs:159`); a
  Nil argument hides the ones after it from a script that walks the table (`lua_api.rs:215`).
* State. A kill or a failure while `save_state` writes loses the state that was there before,
  too (`lua_api.rs:48`), and a reload may load while the old instance saves.
* Socket. A second daemon removes the first one's socket, and the first, when it ends, the
  second's (`main.rs:335, 326`; `Reachable` excepts it). A user's daemon cannot start while the
  system's socket file exists, even a stale one (`config.rs:165`). After an error of
  `accept()` a daemon runs on and is deaf to commands (`main.rs:352`; the model has it, `AcceptFails`).

## 5. Proofs

Every safety property that a passing run checks is a theorem too, for all values of the
constants that satisfy the assumptions below, where the run has one small instance. Two
theorems, marked below, need a hypothesis besides, and each theorem has the exceptions its
property has (section 3): `MessagesAreKept` says nothing of bends above 24575 or of data bytes out
of range, `ConnectionsAreMade` nothing of specs misled by a change of layout, `PatternsResolved`
nothing where code and README disagree (section 4).

| Module | Theorem | States | Assumed of the constants |
|---|---|---|---|
| `RouteInstanceProofs` | `TypeCorrect`, `HooksArePaired` | `TypeOK`, `HooksPaired` | a capacity, a modulus of ticks, tempi: `CapAssumption`, `TickModAssumption`, `BpmAssumption` |
| | `TicksFollowOneAnother` | the refinement `TickStreamSpec` | |
| `OscParamsProofs` | `TypeCorrect`, `CacheIsCurrent`, `StaleIsBounded`, `BeatingClientsStay` | `TypeOK`, `CacheCurrent`, `StaleBound`, `BeatingStays` | `ParamsAssumption`, `TimeAssumption`; `BeatAssumption`: the timeout exceeds the beats that may be lost in a row and one more |
| | `NobodyIsStale` | `SubscribersCaughtUp` | *hypothesis* `Flaky = {}`: no `get` or `set` fails. With it false, run `osc_flaky` finds finding 2 |
| `DaemonProofs` | `TypeCorrect`, `OneInstance`, `PortsAreThoseNeeded`, `EditsArrive`, `EventsReachRoutes`, `ReloadCatchesUp` | `TypeOK`, `RegistriesAgree`, `ReceiversNeeded`, `QuiescentFresh`, `ObsRegistered`, `ReloadRefreshesLoaded` | `BoundsAssumption`, `ScriptsAssumption`; `NamesAssumption`: `config.toml` is no route's file |
| `ObsConnectionProofs` | `TypeCorrect`, `CallsInOrder`, `AnswersMatch`, `TasksOutliveCallers` | `TypeOK`, `InOrder`, `OwnAnswer`, `CallersHaveTask` | `QueueAssumption`, `CallsAssumption`, `RemovedAssumption` |
| `AlsaConnectProofs` | `TypeCorrect`, `ConnectionsAreMade` | `TypeOK`, `Wired` | `RoutesAssumption`, `ScriptsAssumption`, `BoundsAssumption` |
| | `PortsBelong` | `PortsOfLoaded`, half of `LoadedOnly` | |
| | `NothingElseIsLeft` | `LoadedOnly` | *hypothesis* `Distinct`: no route is named like the beginning of another's. With it false, the other half is what finding 4 is about |
| `StateFileProofs` | `TypeCorrect`, `SaveIsWhole`, `StopSaves` | `TypeOK`, `SavedState`, `ShutdownSaved` | `SizeAssumption`, `BlankAssumption`; `InstancesAssumption`: instances can be counted |
| `EndpointsProofs` | `TypeCorrect`, `AloneIsServed`, `PortsAreReleased` | `TypeOK`, `AloneServes`, `ReleasedIsClosed` | `EndpointsAssumption` |
| `LuaApiProofs` | `TypeCorrect`, `PatternsResolved`, `ScriptsAreHeard`, `ArgumentsAreKept`, `MessagesAreKept`, `ParamsFollowControls` | `TypeOK`, `ConnectResolved`, `SendsPossible`, `ArgumentsKept`, `MidiKept`, `ParamsFollow` | what the code's types and libraries make of inputs: below |

In each module `IInv` is the inductive invariant. It comes first, as a conjunction of named
parts; each part has one lemma that says every step keeps it, with a step per action; theorem
`Invariant` is `Spec => []IInv` (`IInvInductive` in `RouteInstanceProofs`; `OscParamsProofs`, whose
parts build on one another, has a theorem for each instead). Why the properties are not inductive alone:

* **`RouteInstance`**, `IInv == Safety /\ TickInv`. The capacity bound of `TypeOK` needs to count
  the permit promised to the timer (`PermitsInv`) and to know that a closed receiver left an empty
  queue (`ReceiverInv`), and `HooksPaired` the hooks at each place of the loop (`HooksInv`).
  `TimerInv`, that the timer holds a sender while the loop runs, is used in the case of `Recv` that
  finds no sender: it never does (finding 3).
  The tick stream needs the most: `TickInv` says there is a *chain* of numbers
  `c[0..Len(queue)]` that starts with the next number the loop has to see, ends with the timer's
  counter, is increased by each tick in the queue (which bears the number of its link) and kept
  by every other event. A send extends the chain at its end (`ChainAppend`), a receive takes its
  first link (`ChainTail`), and `Handle` makes the refined step. A chain needs no count of ticks,
  hence no induction over the queue.
* **`OscParams`**. `BeatingStays` says nothing about clients whose beat is on its way. `BeatInv`
  does: the expiry is ahead by all the beats the client may still lose, counted from the one in
  flight if there is one, and what is in flight was sent in this second (`FlightInv`).
  `StaleBound` follows from `TimeInv`: no interval is missed by more than the distance of two
  ticks, and no subscriber expired before the last sweep.
* **`Daemon`**. The properties speak of the moments between handlers; the invariant must hold
  inside them. `AgreeInv` needs no exception, since all registries change in one step. It must
  add that no two names share an instance, or `Redirect` could take the ports of another route.
  `FreshInv` says what differs from the disk is `Due`: its report is pending, it was missed or
  failed, or the handler has it in its list or its hand. `StartInv` bridges the cut between
  reading a script and installing it, `ReloadInv` the same for a reload, `ObsInv` ties
  the registrations at OBS to what is due.
* **`ObsConnection`**. `InOrder` speaks of what OBS was handed. `OrderInv` adds what still waits,
  in the order of its numbers and behind it all; `HomeInv` says the requests of a caller wait in
  one queue only, so that two tasks of one name cannot overtake each other with them.
  `OwnAnswer` needs `AskInv` (what OBS works on it was handed, once) and `AnswerInv` (an
  answer that is there is that of the call its caller waits for, since a late one is dropped).
* **`AlsaConnect`**. `PortInv` follows the ports through a start: those made for it are nobody's yet
  (`FreshInv`), those replaced are nobody's any more (`DyingInv`), and every input is of one of
  these kinds or its route's own (`InputInv`). `WireInv` says why a missing link will be made:
  the client is announced, or `apply_all` has the spec before it.
* **`StateFile`**. `AloneInv`: a writer that met no other has written the beginning of its text,
  and nothing else is in the file. `LastInv` says of a daemon that stops that the last instance
  alive goes undisturbed to its end.
* **`Endpoints`**. `AloneServes` is about the socket file only. `AloneInv` adds that no other
  daemon which could remove it has this path, and `BoundInv` that whoever listens may write
  there. `QueueInv` is for `TypeOK`: the client whose command is handled waits for this daemon
  and no other.
* **`LuaApi`**. `IInv` says what was resolved from which declarations (`StartInv`) and that what is
  sent comes from the event in hand (`EventInv`). The work is in the lemmas before it: what the
  functions return for every input, e.g. `ByRank`, `RoundTrip`, `BytesOut`, `LinearParts`, `Echo`.

The assumptions of `LuaApi`: MIDI that comes in is made of bytes, of which all but the first
have seven bits unless it is a system message; OSC arguments have the kinds of `OscType`; what
a script sends by OSC is a list (`IsList`); the bounds of a linear scale are whole numbers;
what parses as an address is no path (a path starts with a slash). `GivensAreDeclarations` gives
declarations the shape in which `Declarations` takes them, junk included.

Where a list is searched for the first entry of a kind (`LuaList`, `Walk`, `Before`), or the
least client number is taken (`Min`), the proofs use the least element of a set of numbers, from
the library's theorem that `<` on `Nat` is well founded. The library's induction theorems take an
operator as a parameter, which the provers cannot instantiate. Of `TomlList`, which is recursive,
it is proved that it keeps strings only; that it keeps all of them is checked by TLC.

What stays with TLC: all liveness, as fairness and ENABLED are out of the prover's reach:
`AcceptedShutdownEnds`, `TimerProgresses`, `SubscriptionsSettle`, `TasksSettle` and `Answered`.
And the four runs marked *violated*, which are counterexamples.

## 6. Abstractions

* Contents of events are left out of all modules but `LuaApi` and those it composes, except
  that a param of `OscParams` has a value. A `set()` changes only the param it belongs to.
* MIDI that comes in has seven bits, as the sequencer delivers it; an OSC argument is a kind
  and a content that conversions keep, for Double and Time up to 32 bits. Scales are exact
  fractions, where the code rounds to 64 bits.
* In `Daemon` and `AlsaConnect` what a route declares is a function of its script (`Layout`,
  `OscPort`, `ObsConns`); how it comes from script, section and globals is in `Declarations`. No route name is the prefix
  of another in `Daemon` and in the run `alsa` (see finding 4).
* Truncating a file before writing it is an edit of its own; duplicate notifications are
  covered by several edits.
* Time in `OscParams` never goes back (`os.time` may).
* `StateFile`: the machine does not crash, so what was written is on the disk; the text of a
  value is as long as it takes writes.
* `Endpoints`: permissions are a set of daemons that may write the system's directory; clients
  wait for their answer; a start or a reload takes steps where it binds and drops ports only.
* Scripts return from their callbacks; one that loops for ever stops its route.

Not modelled yet: see the plan. Not worth modelling: the example routes without state,
`stdlib.lua` (constructors), the TouchOSC layouts (data), packaging.

## 7. Plan

Done: `TickStream`, `RouteInstance`, `OscParams`, `Daemon`, `ObsConnection`, `AlsaConnect`,
`Declarations`, `MidiCodec`, `OscMessages`, `LuaApi`, `StateFile`, `Endpoints`, and proofs of
their safety properties.

1. Proofs: that `ObsConnection` implements a queue with one answer per request, and `StateFile`
   a register that a save replaces, as refinements of abstract modules to be written; and what
   `TomlList` computes, with its filter stated as a function on positions.
2. `Metronome` and `TimingTrainer`: bar position, count-in, phases over a `TickStream`.
   `MixerBridge`: the echo of a mixer that answers late.
3. `ObsConnection`: delivery of events while an old and a new task are both connected.
4. `Config`: the search for `config.toml` and what the command line overrides.

## 8. How to run

    tlc -config MCRouteInstance.cfg MCRouteInstance
    tlapm RouteInstanceProofs.tla

and likewise for the other `MC*.cfg`. `MCRoute_ShutdownJoins.cfg` belongs to `MCRouteInstance`
and every other `MCX_*.cfg` to `MCX`; the configurations of section 3 marked *violated* end in
a counterexample. The table of runs, the lines each definition stands for, the hazards and the
theorems are in `PROJECT.json`.
