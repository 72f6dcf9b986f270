----------------------------- MODULE Endpoints -----------------------------
(***************************************************************************)
(* Where daemons are reached: the control socket and its clients           *)
(* (src/src/main.rs: start_control_socket, handle_control_conn,            *)
(* do_control_cmd; src/src/config.rs: control_socket_path) and the UDP     *)
(* ports of OSC with the thread that reads each (src/src/osc.rs), as far   *)
(* as several daemons on one machine, and the threads of one, can be in    *)
(* each other's way.                                                       *)
(*                                                                         *)
(* A daemon is a process, or the next process that takes its place.  Only  *)
(* those of System (root, or the system service) may write the system      *)
(* directory; everybody may connect.  A client of another user looks for   *)
(* the system's socket first, and so does a daemon.                        *)
(*                                                                         *)
(* What the commands do to routes is in Daemon; here a reload changes the  *)
(* ports that are needed, and to shut the routes down may take for ever    *)
(* (RouteInstance, ShutdownJoins).                                         *)
(***************************************************************************)
EXTENDS Naturals, Sequences, FiniteSets

CONSTANTS Daemons, System, Clients, Ports,
          Needs,        \* sets of ports the routes of a daemon may declare
          Packets,      \* of each OSC packet, how deep each message is nested
          QueueCap,     \* commands that wait (8)
          MaxStarts,    \* bound: starts of all daemons
          Nobody

ASSUME EndpointsAssumption ==
  /\ System \subseteq Daemons /\ QueueCap \in Nat \ {0} /\ MaxStarts \in Nat
  /\ Needs \subseteq SUBSET Ports /\ Packets \subseteq Seq(Nat)
  /\ "absent" \notin Daemons /\ "stale" \notin Daemons /\ Nobody \notin Clients

VARIABLES file,     \* of each path: the daemon that listens, "absent" or "stale"
          pc,       \* where the main thread of a daemon is
          at,       \* the path of its socket
          deaf,     \* its accept loop has ended
          alone,    \* no other daemon was started at that path, since it was
          failed,   \* its last start found the path taken though it was alone
          queue,    \* the commands main has not taken yet
          cur,      \* the client whose command it handles, or Nobody
          client,   \* of each client: [st, to]
          needed,   \* the ports its routes and its config need
          open,     \* osc_receivers
          thread,   \* of each port: what its thread does, and messages left
          running,  \* OscReceiver.running
          starts
mainVars == <<file, pc, at, deaf, alone, failed, cur, needed, open, running, starts>>
vars == <<mainVars, queue, client, thread>>

Paths == {"system", "user"}

Off == [st |-> "off", left |-> 0]

(* Two processes cannot have a port at a time.                             *)
Taken(p) == \E d \in Daemons : thread[d][p] # Off

Done(st) == [st |-> st, to |-> Nobody]

Init ==
  /\ file = [x \in Paths |-> "absent"]
  /\ pc = [d \in Daemons |-> "off"]
  /\ at = [d \in Daemons |-> "user"]
  /\ deaf = [d \in Daemons |-> FALSE]
  /\ alone = [d \in Daemons |-> TRUE]
  /\ failed = [d \in Daemons |-> FALSE]
  /\ queue = [d \in Daemons |-> <<>>]
  /\ cur = [d \in Daemons |-> Nobody]
  /\ client = [c \in Clients |-> Done("idle")]
  /\ needed = [d \in Daemons |-> {}]
  /\ open = [d \in Daemons |-> {}]
  /\ thread = [d \in Daemons |-> [p \in Ports |-> Off]]
  /\ running = [d \in Daemons |-> [p \in Ports |-> FALSE]]
  /\ starts = 0

-----------------------------------------------------------------------------
(* The socket file.                                                        *)

control_socket_path(system) == IF system \/ file["system"] # "absent" THEN "system" ELSE "user"

MayWrite(d, x) == x = "user" \/ d \in System

(* Mutation: an old file is left where it is.                              *)
MutantCleared(d, x) == file

(* The file that is there is removed, whoever listens on it.               *)
Cleared(d, x) == IF MayWrite(d, x) THEN [file EXCEPT ![x] = "absent"] ELSE file

Start(d) ==
  /\ pc[d] = "off" /\ starts < MaxStarts
  /\ LET x == control_socket_path(d \in System)
         others == {e \in Daemons \ {d} : pc[e] # "off" /\ at[e] = x}
     IN /\ file' = Cleared(d, x)
        /\ at' = [at EXCEPT ![d] = x]
        /\ alone' = [e \in Daemons |-> IF e = d THEN others = {} /\ MayWrite(d, x)
                                       ELSE alone[e] /\ (e \notin others \/ ~MayWrite(d, x))]
  /\ pc' = [pc EXCEPT ![d] = "binding"]
  /\ failed' = [failed EXCEPT ![d] = FALSE]
  /\ starts' = starts + 1
  /\ UNCHANGED <<deaf, needed, cur, open, running, queue, client, thread>>

(* Mutation: the guard that removes the file is dropped where it was made. *)
MutantBound(d) == file

Bound(d) == [file EXCEPT ![at[d]] = d]

Bind(d) ==
  /\ pc[d] = "binding"
  /\ LET ok == file[at[d]] = "absent" /\ MayWrite(d, at[d])
     IN /\ file' = IF ok THEN Bound(d) ELSE file
        /\ pc' = [pc EXCEPT ![d] = IF ok THEN "loading" ELSE "off"]
        /\ failed' = [failed EXCEPT ![d] = ~ok /\ alone[d]]
  /\ UNCHANGED <<at, deaf, alone, cur, needed, open, running, starts, queue, client, thread>>

-----------------------------------------------------------------------------
(* The ports of OSC.                                                       *)

(* Routes are loaded, whose declarations say which ports are needed, and   *)
(* the receivers that are missing are bound, as far as the ports are free. *)
Opens(d, needs, next) ==
  /\ needed' = [needed EXCEPT ![d] = needs]
  /\ LET new == {p \in needs \ open[d] : ~Taken(p)}
     IN /\ open' = [open EXCEPT ![d] = @ \cup new]
        /\ thread' = [thread EXCEPT ![d] =
                        [p \in Ports |-> IF p \in new THEN [st |-> "check", left |-> 0] ELSE @[p]]]
        /\ running' = [running EXCEPT ![d] = [p \in Ports |-> p \in new \/ @[p]]]
  /\ pc' = [pc EXCEPT ![d] = next]
  /\ UNCHANGED <<file, at, deaf, alone, failed, cur, starts, queue, client>>

(* At the start; then the directories are watched, and main serves.        *)
Load(d) == pc[d] = "loading" /\ \E needs \in Needs : Opens(d, needs, "serving")

SyncOpen(d) == pc[d] = "syncing" /\ \E needs \in Needs : Opens(d, needs, "dropping")

(* Those that are dropped: the ones no longer needed, at the end all.      *)
Dropped(d) == CASE pc[d] = "dropping" -> open[d] \ needed[d]
                [] pc[d] = "leaving"  -> open[d]
                [] OTHER              -> {}

(* One of them is told to end ...                                          *)
SyncDrop(d, p) ==
  /\ p \in Dropped(d)
  /\ \A q \in open[d] : running[d][q]
  /\ running' = [running EXCEPT ![d][p] = FALSE]
  /\ UNCHANGED <<file, pc, at, deaf, alone, failed, cur, needed, open, starts, queue, client, thread>>

(* Mutation: nobody waits for the thread.                                  *)
MutantJoined(d, p) == TRUE

Joined(d, p) == thread[d][p] = Off

(* ... and waited for.                                                     *)
SyncJoin(d, p) ==
  /\ p \in open[d] /\ ~running[d][p]
  /\ Joined(d, p)
  /\ open' = [open EXCEPT ![d] = @ \ {p}]
  /\ UNCHANGED <<file, pc, at, deaf, alone, failed, cur, needed, running, starts, queue, client, thread>>

(* Mutation: the table of routes is locked while receivers are dropped.    *)
MutantLocked(d) == pc[d] = "dropping"

(* main locks it to change one entry, and not while it waits for a thread. *)
Locked(d) == FALSE

MAX_BUNDLE_DEPTH == 16

(* How many messages of a packet are handed over.                          *)
dispatch_packet(packet) == Cardinality({k \in DOMAIN packet : packet[k] <= MAX_BUNDLE_DEPTH})

Goes(d, p, st, left) ==
  /\ thread' = [thread EXCEPT ![d][p] = [st |-> st, left |-> left]]
  /\ UNCHANGED <<mainVars, queue, client>>

Check(d, p) ==
  /\ thread[d][p].st = "check"
  /\ IF running[d][p] THEN Goes(d, p, "receiving", 0) ELSE Goes(d, p, "off", 0)

HandsOn(d, p, left) == Goes(d, p, IF left = 0 THEN "check" ELSE "handing", left)

(* 100 ms pass, the socket reports an error (and a second passes), or a    *)
(* packet arrives.                                                         *)
Received(d, p) ==
  /\ thread[d][p].st = "receiving"
  /\ \/ Goes(d, p, "check", 0)
     \/ \E packet \in Packets : HandsOn(d, p, dispatch_packet(packet))

Hand(d, p) ==
  /\ thread[d][p].st = "handing" /\ ~Locked(d)
  /\ HandsOn(d, p, thread[d][p].left - 1)

ThreadStep(d, p) == Check(d, p) \/ Received(d, p) \/ Hand(d, p)

-----------------------------------------------------------------------------
(* Clients.                                                                *)

(* do_control_cmd finds a listener, and the word it sends waits for the    *)
(* accept loop.  Without one it gives up, and may be run again.            *)
Connect(c, system) ==
  /\ client[c].st = "idle"
  /\ LET d == file[control_socket_path(system)]
     IN /\ d \in Daemons /\ ~deaf[d]
        /\ client' = [client EXCEPT ![c] = [st |-> "asking", to |-> d]]
  /\ UNCHANGED <<mainVars, queue, thread>>

(* The connection is accepted and its word read (handle_control_conn); a   *)
(* word that is no command is answered at once.                            *)
Accept(c) ==
  /\ client[c].st = "asking"
  /\ \/ client' = [client EXCEPT ![c].st = "sending"]
     \/ client' = [client EXCEPT ![c] = Done("answered")]
  /\ UNCHANGED <<mainVars, queue, thread>>

(* A command is handed to main; it waits while the queue is full.          *)
Enqueue(c) ==
  LET d == client[c].to IN
  /\ client[c].st = "sending"
  /\ Len(queue[d]) < QueueCap
  /\ queue' = [queue EXCEPT ![d] = Append(@, c)]
  /\ client' = [client EXCEPT ![c].st = "queued"]
  /\ UNCHANGED <<mainVars, thread>>

Cut(d, states) == [c \in Clients |-> IF client[c].to = d /\ client[c].st \in states
                                     THEN Done("eof") ELSE client[c]]

(* accept() fails: the loop ends and with it the listener, whose file      *)
(* stays.                                                                  *)
AcceptFails(d) ==
  /\ pc[d] \notin {"off", "binding"} /\ ~deaf[d]
  /\ deaf' = [deaf EXCEPT ![d] = TRUE]
  /\ file' = [x \in Paths |-> IF file[x] = d THEN "stale" ELSE file[x]]
  /\ client' = Cut(d, {"asking"})
  /\ UNCHANGED <<pc, at, alone, failed, cur, needed, open, running, starts, queue, thread>>

(* main takes a command.  A status or a resync leaves the ports alone.     *)
Take(d) ==
  /\ pc[d] = "serving" /\ queue[d] # <<>>
  /\ queue' = [queue EXCEPT ![d] = Tail(@)]
  /\ cur' = [cur EXCEPT ![d] = Head(queue[d])]
  /\ \E next \in {"replying", "syncing"} : pc' = [pc EXCEPT ![d] = next]
  /\ UNCHANGED <<file, at, deaf, alone, failed, needed, open, running, starts, client, thread>>

Turns(d, from, to) ==
  /\ pc[d] = from
  /\ pc' = [pc EXCEPT ![d] = to]
  /\ UNCHANGED <<file, at, deaf, alone, failed, cur, needed, open, running, starts, queue, client, thread>>

(* Mutation: the events of the watcher are looked at first.                *)
MutantIdle(d) == TRUE

(* The select is biased: commands go before events.                        *)
Idle(d) == queue[d] = <<>>

(* A file was changed: routes are loaded again.                            *)
WatchEvent(d) == Idle(d) /\ Turns(d, "serving", "syncing")

(* The receivers are up to date.                                           *)
Synced(d) ==
  /\ pc[d] = "dropping" /\ open[d] \subseteq needed[d]
  /\ pc' = [pc EXCEPT ![d] = IF cur[d] = Nobody THEN "serving" ELSE "replying"]
  /\ UNCHANGED <<file, at, deaf, alone, failed, cur, needed, open, running, starts, queue, client, thread>>

Respond(d, next) ==
  /\ pc[d] = "replying"
  /\ client' = [client EXCEPT ![cur[d]] = Done("answered")]
  /\ cur' = [cur EXCEPT ![d] = next]
  /\ pc' = [pc EXCEPT ![d] = "serving"]
  /\ UNCHANGED <<file, at, deaf, alone, failed, needed, open, running, starts, queue, thread>>

(* Mutation: the sender of the answer is kept when it was used.            *)
MutantReply(d) == Respond(d, cur[d])

Reply(d) == Respond(d, Nobody)

-----------------------------------------------------------------------------
(* The end of a daemon.                                                    *)

(* The routes cannot be listed, or a directory not be watched: main        *)
(* returns, without graceful_shutdown.                                     *)
StartFails(d) ==
  \/ Turns(d, "loading", "leaving")
  \/ pc[d] = "loading" /\ \E needs \in Needs : Opens(d, needs, "leaving")

(* SIGTERM or SIGINT, which go before commands: graceful_shutdown waits    *)
(* for the loops of the routes,                                            *)
Stop(d) == Turns(d, "serving", "joining")

(* and may wait for ever.  Then the receivers end one after the other.     *)
Join(d) == Turns(d, "joining", "leaving")

(* All that waited for an answer see the connection close.                 *)
Gone(d, newFile) ==
  /\ file' = newFile
  /\ pc' = [pc EXCEPT ![d] = "off"]
  /\ queue' = [queue EXCEPT ![d] = <<>>]
  /\ cur' = [cur EXCEPT ![d] = Nobody]
  /\ client' = Cut(d, {"asking", "sending", "queued"})
  /\ open' = [open EXCEPT ![d] = {}]
  /\ thread' = [thread EXCEPT ![d] = [p \in Ports |-> Off]]
  /\ running' = [running EXCEPT ![d] = [p \in Ports |-> FALSE]]
  /\ needed' = [needed EXCEPT ![d] = {}]
  /\ at' = [at EXCEPT ![d] = "user"]
  /\ deaf' = [deaf EXCEPT ![d] = FALSE]
  /\ alone' = [alone EXCEPT ![d] = TRUE]
  /\ UNCHANGED <<failed, starts>>

Exit(d) == pc[d] = "leaving" /\ open[d] = {} /\ Gone(d, [file EXCEPT ![at[d]] = "absent"])

Kill(d) ==
  /\ pc[d] # "off"
  /\ Gone(d, [x \in Paths |-> IF file[x] = d THEN "stale" ELSE file[x]])

-----------------------------------------------------------------------------
MainStep(d) ==
  \/ Bind(d) \/ Load(d) \/ SyncOpen(d) \/ Synced(d) \/ Take(d) \/ Reply(d) \/ Exit(d)
  \/ \E p \in Ports : SyncDrop(d, p) \/ SyncJoin(d, p)

EnvironmentStep(d) ==
  Start(d) \/ StartFails(d) \/ AcceptFails(d) \/ WatchEvent(d) \/ Stop(d) \/ Join(d) \/ Kill(d)

ClientStep(c) == Connect(c, TRUE) \/ Connect(c, FALSE) \/ Accept(c) \/ Enqueue(c)

Next ==
  \/ \E d \in Daemons : MainStep(d) \/ EnvironmentStep(d)
  \/ \E d \in Daemons, p \in Ports : ThreadStep(d, p)
  \/ \E c \in Clients : ClientStep(c)

(* Nothing is assumed of Join: a loop that missed its Shutdown goes on.    *)
Fairness ==
  /\ \A d \in Daemons : WF_vars(MainStep(d))
  /\ \A d \in Daemons, p \in Ports : WF_vars(ThreadStep(d, p))
  /\ \A c \in Clients : WF_vars(Accept(c) \/ Enqueue(c))

Spec == Init /\ [][Next]_vars /\ Fairness

-----------------------------------------------------------------------------
Phases == {"off", "binding", "loading", "syncing", "dropping", "serving", "replying",
           "joining", "leaving"}

(* A thread has messages to hand on while it hands them on.                *)
ThreadStates == [st : {"off", "check", "receiving"}, left : {0}]
                  \cup [st : {"handing"}, left : Nat \ {0}]

TypeOK ==
  /\ file \in [Paths -> Daemons \cup {"absent", "stale"}]
  /\ pc \in [Daemons -> Phases]
  /\ at \in [Daemons -> Paths] /\ deaf \in [Daemons -> BOOLEAN]
  /\ alone \in [Daemons -> BOOLEAN] /\ failed \in [Daemons -> BOOLEAN]
  /\ queue \in [Daemons -> Seq(Clients)] /\ \A d \in Daemons : Len(queue[d]) <= QueueCap
  /\ cur \in [Daemons -> Clients \cup {Nobody}]
  /\ \A d \in Daemons : cur[d] # Nobody => client[cur[d]] = [st |-> "queued", to |-> d]
  /\ client \in [Clients -> [st : {"idle", "asking", "sending", "queued", "answered", "eof"},
                             to : Daemons \cup {Nobody}]]
  /\ needed \in [Daemons -> SUBSET Ports] /\ open \in [Daemons -> SUBSET Ports]
  /\ thread \in [Daemons -> [Ports -> ThreadStates]]
  /\ running \in [Daemons -> [Ports -> BOOLEAN]]
  /\ starts \in 0 .. MaxStarts

(* A daemon that listens is found by its clients at its path, through all  *)
(* starts, crashes and exits at the other path, as long as no daemon was   *)
(* started at its own (main.rs:335-357).                                   *)
Reachable ==
  \A d \in Daemons :
    alone[d] /\ ~deaf[d] /\ pc[d] \notin {"off", "binding"} => file[at[d]] = d

(* A crash leaves the socket file: the next start takes it over, and only  *)
(* another daemon can make its bind fail (main.rs:339).                    *)
StartsAfterCrash == \A d \in Daemons : ~failed[d]

(* A daemon alone at its path binds it, and is found there as long as its  *)
(* accept loop runs.                                                       *)
AloneServes == Reachable /\ StartsAfterCrash

(* No thread reads a port that its daemon does not hold, so a reload that  *)
(* takes a port back finds it free (osc.rs:94-96).                         *)
ReleasedIsClosed ==
  \A d \in Daemons, p \in Ports : thread[d][p] # Off => p \in open[d]

(* Every command that is sent gets its answer, or the end of the           *)
(* connection, also one that has to wait for room in the queue, whatever   *)
(* OSC threads are in the middle of and however often routes are reloaded. *)
(* Only while a daemon waits in graceful_shutdown for its loops does       *)
(* nobody hear from it (main.rs:293-311, 362-380, 514-560).                *)
Stopping(c) == client[c].to # Nobody /\ pc[client[c].to] = "joining"

Answered ==
  \A c \in Clients : client[c].st \in {"asking", "sending", "queued"}
                        ~> client[c].st \in {"answered", "eof"} \/ Stopping(c)
=============================================================================
