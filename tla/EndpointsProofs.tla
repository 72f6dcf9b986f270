-------------------------- MODULE EndpointsProofs --------------------------
(***************************************************************************)
(* Daemons and how they are reached, for any number of daemons, clients,   *)
(* ports and starts: who is found at a path, which ports are read, and     *)
(* whose command is handled.                                               *)
(***************************************************************************)
EXTENDS Endpoints, FiniteSetTheorems, TLAPS

-----------------------------------------------------------------------------
(* The inductive invariant, by parts.                                      *)

(* Whoever got as far as listening may write its directory.                *)
BoundInv ==
  \A d \in Daemons : pc[d] \notin {"off", "binding"} => MayWrite(d, at[d])

(* A daemon that does not listen yet has an accept loop to come.           *)
DeafInv ==
  \A d \in Daemons : deaf[d] => pc[d] \notin {"off", "binding"}

(* The path of a daemon that is alone there is its own: no other that may  *)
(* write it has it, and what it holds is what the daemon left there.       *)
Left(d) == CASE pc[d] = "binding" -> "absent"
             [] pc[d] # "binding" /\ deaf[d]  -> "stale"
             [] pc[d] # "binding" /\ ~deaf[d] -> d

AloneInv ==
  \A d \in Daemons :
    alone[d] /\ pc[d] # "off" =>
      /\ MayWrite(d, at[d])
      /\ \A e \in Daemons \ {d} : pc[e] # "off" /\ at[e] = at[d] => ~MayWrite(e, at[d])
      /\ file[at[d]] = Left(d)

(* A client that waits is in the queue of one daemon, once, or is the one  *)
(* whose command is handled.                                               *)

At(d) == [st |-> "queued", to |-> d]

States == {"idle", "asking", "sending", "queued", "answered", "eof"}

QueueInv ==
  /\ \A d \in Daemons : \A k \in 1 .. Len(queue[d]) :
       /\ client[queue[d][k]] = At(d) /\ queue[d][k] # cur[d]
       /\ \A l \in 1 .. Len(queue[d]) : queue[d][k] = queue[d][l] => k = l
  /\ \A c \in Clients : client[c].st \in {"asking", "sending"} => client[c].to \in Daemons

IInv == TypeOK /\ BoundInv /\ DeafInv /\ AloneInv /\ StartsAfterCrash /\ QueueInv /\ ReleasedIsClosed

-----------------------------------------------------------------------------
(* The nesting of a packet is a number, or too deep and none               *)
(* (dispatch_packet).                                                      *)
LEMMA DispatchType == \A packet \in Packets : dispatch_packet(packet) \in Nat
  <1>1. SUFFICES ASSUME NEW packet \in Packets PROVE dispatch_packet(packet) \in Nat
    OBVIOUS
  <1>2. packet \in Seq(Nat)
    BY EndpointsAssumption
  <1>3. IsFiniteSet(1 .. Len(packet))
    BY <1>2, FS_Interval
  <1>4. IsFiniteSet({k \in DOMAIN packet : packet[k] <= MAX_BUNDLE_DEPTH})
    BY <1>2, <1>3, FS_Subset
  <1>5. QED
    BY <1>4, FS_CardinalityType DEF dispatch_packet

(* What is known of a client that only goes from state to state.           *)
LEMMA Moves ==
  ASSUME NEW r \in [st : States, to : Daemons \cup {Nobody}], NEW st \in States
  PROVE  [r EXCEPT !.st = st] \in [st : States, to : Daemons \cup {Nobody}]
  OBVIOUS

(* The inductive invariant holds initially.                                *)
LEMMA IInvInit == Init => IInv
  <1> SUFFICES ASSUME Init PROVE IInv
    OBVIOUS
  <1> USE DEF Init, Done, Off, Paths
  <1>1. TypeOK
    <2>1. Off \in ThreadStates
      BY DEF ThreadStates
    <2>2. thread \in [Daemons -> [Ports -> ThreadStates]]
      BY <2>1
    <2>3. QED
      BY <2>2, EndpointsAssumption, SMT DEF TypeOK, Phases
  <1>2. BoundInv /\ DeafInv /\ AloneInv /\ StartsAfterCrash /\ ReleasedIsClosed
    BY DEF BoundInv, DeafInv, AloneInv, StartsAfterCrash, ReleasedIsClosed
  <1>3. QueueInv
    BY SMT DEF QueueInv
  <1>4. QED
    BY <1>1, <1>2, <1>3 DEF IInv

-----------------------------------------------------------------------------
(* The paths.                                                              *)

(* What main does between bind and exit.                                   *)
Serves(d) ==
  Load(d) \/ SyncOpen(d) \/ Synced(d) \/ StartFails(d) \/ WatchEvent(d) \/ Take(d)
    \/ Reply(d) \/ Stop(d) \/ Join(d)

Listens(phase) == phase \notin {"off", "binding"}

(* It stays with its socket, and goes from phase to phase.                 *)
LEMMA ServesPlaces ==
  ASSUME TypeOK, NEW d \in Daemons, Serves(d)
  PROVE  /\ UNCHANGED <<file, at, deaf, alone, failed>>
         /\ pc' \in [Daemons -> Phases] /\ Listens(pc[d]) /\ Listens(pc'[d])
         /\ \A e \in Daemons \ {d} : pc'[e] = pc[e]
  <1> USE DEF TypeOK, Phases, Listens
  <1>1. ASSUME NEW from, NEW to \in Phases \ {"off", "binding"}, from \notin {"off", "binding"},
               Turns(d, from, to)
        PROVE  /\ UNCHANGED <<file, at, deaf, alone, failed>>
               /\ pc' \in [Daemons -> Phases] /\ Listens(pc[d]) /\ Listens(pc'[d])
               /\ \A e \in Daemons \ {d} : pc'[e] = pc[e]
    BY <1>1 DEF Turns
  <1>2. CASE WatchEvent(d) \/ Turns(d, "loading", "leaving") \/ Stop(d) \/ Join(d)
    BY <1>1, <1>2 DEF WatchEvent, Stop, Join
  <1>3. ASSUME pc[d] \in {"loading", "syncing"}, NEW needs,
               NEW next \in {"serving", "dropping", "leaving"}, Opens(d, needs, next)
        PROVE  /\ UNCHANGED <<file, at, deaf, alone, failed>>
               /\ pc' \in [Daemons -> Phases] /\ Listens(pc[d]) /\ Listens(pc'[d])
               /\ \A e \in Daemons \ {d} : pc'[e] = pc[e]
    <2>1. UNCHANGED <<file, at, deaf, alone, failed>> /\ pc' = [pc EXCEPT ![d] = next]
      BY <1>3 DEF Opens
    <2>2. QED
      BY <1>3, <2>1
  <1>4. CASE Synced(d)
    BY <1>4 DEF Synced
  <1>5. CASE Take(d)
    <2>1. /\ UNCHANGED <<file, at, deaf, alone, failed>> /\ pc[d] = "serving"
          /\ pc' = [pc EXCEPT ![d] = "replying"] \/ pc' = [pc EXCEPT ![d] = "syncing"]
      BY <1>5 DEF Take
    <2>2. QED
      BY <2>1
  <1>6. CASE Reply(d)
    BY <1>6 DEF Reply, Respond
  <1>7. QED
    BY <1>2, <1>3, <1>4, <1>5, <1>6 DEF Serves, Load, SyncOpen, StartFails

(* Every step keeps BoundInv: whoever listens at a path may write its      *)
(* directory (start_control_socket).                                       *)
LEMMA BoundStep == TypeOK /\ BoundInv /\ [Next]_vars => BoundInv'
  <1> SUFFICES ASSUME TypeOK, BoundInv, [Next]_vars PROVE BoundInv'
    OBVIOUS
  <1> USE DEF BoundInv, TypeOK, MayWrite
  <1>1. ASSUME NEW d \in Daemons, Start(d) PROVE BoundInv'
    BY <1>1 DEF Start
  <1>2. ASSUME NEW d \in Daemons, Bind(d) PROVE BoundInv'
    BY <1>2 DEF Bind
  <1>3. ASSUME NEW d \in Daemons, Serves(d) PROVE BoundInv'
    BY <1>3, ServesPlaces DEF Listens
  <1>4. ASSUME NEW d \in Daemons, Exit(d) \/ Kill(d) PROVE BoundInv'
    BY <1>4 DEF Exit, Kill, Gone
  <1>5. CASE UNCHANGED <<pc, at>>
    BY <1>5
  <1>6. QED
    BY <1>1, <1>2, <1>3, <1>4, <1>5, ZenonT(60)
    DEF Next, MainStep, EnvironmentStep, ClientStep, Serves, SyncDrop, SyncJoin, AcceptFails,
        ThreadStep, Check, Received, Hand, HandsOn, Goes, Connect, Accept, Enqueue, vars, mainVars

(* Every step keeps DeafInv: the accept loop starts with the listener      *)
(* (start_control_socket).                                                 *)
LEMMA DeafStep == TypeOK /\ DeafInv /\ [Next]_vars => DeafInv'
  <1> SUFFICES ASSUME TypeOK, DeafInv, [Next]_vars PROVE DeafInv'
    OBVIOUS
  <1> USE DEF DeafInv, TypeOK
  <1>1. ASSUME NEW d \in Daemons, Start(d) \/ Bind(d) PROVE DeafInv'
    <2>1. /\ UNCHANGED deaf /\ ~deaf[d]
          /\ \A e \in Daemons \ {d} : pc'[e] = pc[e]
      BY <1>1 DEF Start, Bind
    <2>2. QED
      BY <2>1
  <1>2. ASSUME NEW d \in Daemons, Serves(d) PROVE DeafInv'
    BY <1>2, ServesPlaces DEF Listens
  <1>3. ASSUME NEW d \in Daemons, AcceptFails(d) PROVE DeafInv'
    BY <1>3 DEF AcceptFails
  <1>4. ASSUME NEW d \in Daemons, Exit(d) \/ Kill(d) PROVE DeafInv'
    <2>1. /\ deaf' = [deaf EXCEPT ![d] = FALSE] /\ pc' = [pc EXCEPT ![d] = "off"]
      BY <1>4 DEF Exit, Kill, Gone
    <2>2. QED
      BY <2>1
  <1>5. CASE UNCHANGED <<pc, deaf>>
    BY <1>5
  <1>6. QED
    BY <1>1, <1>2, <1>3, <1>4, <1>5, ZenonT(60)
    DEF Next, MainStep, EnvironmentStep, ClientStep, Serves, SyncDrop, SyncJoin,
        ThreadStep, Check, Received, Hand, HandsOn, Goes, Connect, Accept, Enqueue, vars, mainVars

(* Every step keeps AloneInv: nobody else can remove or replace the socket *)
(* of a daemon that is alone at its path.                                  *)
LEMMA AloneStep == TypeOK /\ BoundInv /\ DeafInv /\ AloneInv /\ [Next]_vars => AloneInv'
  <1> SUFFICES ASSUME TypeOK, BoundInv, DeafInv, AloneInv, [Next]_vars PROVE AloneInv'
    OBVIOUS
  <1> USE DEF TypeOK, MayWrite
  <1>1. ASSUME NEW d \in Daemons, Start(d) PROVE AloneInv'
    <2> DEFINE x == control_socket_path(d \in System)
               others == {e \in Daemons \ {d} : pc[e] # "off" /\ at[e] = x}
    <2>1. /\ file' = Cleared(d, x)
          /\ at' = [at EXCEPT ![d] = x] /\ pc' = [pc EXCEPT ![d] = "binding"] /\ UNCHANGED deaf
          /\ alone' = [e \in Daemons |-> IF e = d THEN others = {} /\ MayWrite(d, x)
                                         ELSE alone[e] /\ (e \notin others \/ ~MayWrite(d, x))]
      BY <1>1 DEF Start
    <2>2. x \in Paths
      BY DEF control_socket_path, Paths
    <2> HIDE DEF x
    <2>3. SUFFICES ASSUME NEW e \in Daemons, alone'[e], pc'[e] # "off"
                   PROVE  /\ MayWrite(e, at'[e])
                          /\ \A f \in Daemons \ {e} : pc'[f] # "off" /\ at'[f] = at'[e]
                                                        => ~MayWrite(f, at'[e])
                          /\ file'[at'[e]] = Left(e)'
      BY DEF AloneInv
    <2>4. CASE e = d
      BY <2>1, <2>2, <2>3, <2>4 DEF Cleared, Left
    <2>5. CASE e # d
      <3>1. /\ alone[e] /\ at'[e] = at[e] /\ pc'[e] = pc[e] /\ at'[d] = x
            /\ at[e] = x => ~MayWrite(d, x)
        BY <2>1, <2>3, <2>5
      <3>2. file'[at[e]] = file[at[e]]
        BY <2>1, <2>2, <3>1 DEF Cleared
      <3>3. \A f \in Daemons \ {e} : pc'[f] # "off" /\ at'[f] = at[e] => ~MayWrite(f, at[e])
        BY <2>1, <2>3, <3>1 DEF AloneInv
      <3>4. QED
        BY <2>1, <2>3, <3>1, <3>2, <3>3 DEF AloneInv, Left
    <2>6. QED
      BY <2>4, <2>5
  <1>2. ASSUME NEW d \in Daemons, Bind(d) PROVE AloneInv'
    BY <1>2 DEF Bind, Bound, AloneInv, Left, DeafInv
  <1>3. ASSUME NEW d \in Daemons, Serves(d) PROVE AloneInv'
    <2>1. /\ UNCHANGED <<file, at, deaf, alone>>
          /\ \A e \in Daemons : /\ (pc'[e] = "off") <=> (pc[e] = "off")
                                /\ (pc'[e] = "binding") <=> (pc[e] = "binding")
      BY <1>3, ServesPlaces DEF Listens
    <2>2. QED
      BY <2>1 DEF AloneInv, Left
  <1>4. ASSUME NEW d \in Daemons, Exit(d) PROVE AloneInv'
    <2>1. /\ file' = [file EXCEPT ![at[d]] = "absent"] /\ MayWrite(d, at[d])
          /\ pc[d] = "leaving" /\ pc'[d] = "off"
          /\ \A e \in Daemons \ {d} : pc'[e] = pc[e] /\ at'[e] = at[e] /\ alone'[e] = alone[e]
                                    /\ deaf'[e] = deaf[e]
      BY <1>4 DEF Exit, Gone, BoundInv
    <2>2. \A e \in Daemons \ {d} : alone[e] /\ pc[e] # "off" => at[e] # at[d]
      BY <2>1 DEF AloneInv
    <2>3. \A e \in Daemons \ {d} : alone[e] /\ pc[e] # "off" => file'[at[e]] = file[at[e]]
      BY <2>1, <2>2
    <2>4. SUFFICES ASSUME NEW e \in Daemons, alone'[e], pc'[e] # "off"
                   PROVE  /\ MayWrite(e, at'[e])
                          /\ \A f \in Daemons \ {e} : pc'[f] # "off" /\ at'[f] = at'[e]
                                                        => ~MayWrite(f, at'[e])
                          /\ file'[at'[e]] = Left(e)'
      BY DEF AloneInv
    <2>5. e # d /\ alone[e] /\ pc[e] # "off" /\ pc'[e] = pc[e] /\ at'[e] = at[e] /\ deaf'[e] = deaf[e]
      BY <2>1, <2>4
    <2>6. \A f \in Daemons \ {e} : pc'[f] # "off" => f # d /\ pc'[f] = pc[f] /\ at'[f] = at[f]
      BY <2>1
    <2>7. QED
      BY <2>1, <2>3, <2>5, <2>6 DEF AloneInv, Left
  <1>5. ASSUME NEW d \in Daemons, Kill(d) PROVE AloneInv'
    BY <1>5, EndpointsAssumption DEF Kill, Gone, AloneInv, Left
  <1>6. ASSUME NEW d \in Daemons, AcceptFails(d) PROVE AloneInv'
    BY <1>6, EndpointsAssumption DEF AcceptFails, AloneInv, Left
  <1>7. CASE UNCHANGED <<pc, at, deaf, alone, file>>
    BY <1>7 DEF AloneInv, Left
  <1>8. QED
    BY <1>1, <1>2, <1>3, <1>4, <1>5, <1>6, <1>7, ZenonT(60)
    DEF Next, MainStep, EnvironmentStep, ClientStep, Serves, SyncDrop, SyncJoin,
        ThreadStep, Check, Received, Hand, HandsOn, Goes, Connect, Accept, Enqueue, vars, mainVars

(* Every step keeps StartsAfterCrash: the file a crash leaves is removed   *)
(* by the next start (start_control_socket).                               *)
LEMMA StartsStep == TypeOK /\ AloneInv /\ StartsAfterCrash /\ [Next]_vars => StartsAfterCrash'
  <1> SUFFICES ASSUME TypeOK, AloneInv, StartsAfterCrash, [Next]_vars PROVE StartsAfterCrash'
    OBVIOUS
  <1>1. ASSUME NEW d \in Daemons, Bind(d) PROVE StartsAfterCrash'
    BY <1>1 DEF Bind, AloneInv, Left, StartsAfterCrash, TypeOK
  <1>2. ASSUME NEW d \in Daemons, Start(d) PROVE StartsAfterCrash'
    BY <1>2 DEF Start, StartsAfterCrash, TypeOK
  <1>3. ASSUME NEW d \in Daemons, Serves(d) PROVE StartsAfterCrash'
    BY <1>3, ServesPlaces DEF StartsAfterCrash
  <1>4. CASE UNCHANGED failed
    BY <1>4 DEF StartsAfterCrash
  <1>5. QED
    BY <1>1, <1>2, <1>3, <1>4, ZenonT(60)
    DEF Next, MainStep, EnvironmentStep, ClientStep, Serves, Exit, Kill, Gone, SyncDrop, SyncJoin,
        AcceptFails, ThreadStep, Check, Received, Hand, HandsOn, Goes, Connect, Accept, Enqueue,
        vars, mainVars

-----------------------------------------------------------------------------
(* The ports.                                                              *)

(* A thread that goes on in its loop, whatever it does next, opens         *)
(* nothing.                                                                *)
LEMMA GoesReleased ==
  ASSUME TypeOK, ReleasedIsClosed, NEW d \in Daemons, NEW p \in Ports,
         thread[d][p].st # "off", NEW st, NEW left, Goes(d, p, st, left)
  PROVE  ReleasedIsClosed'
  <1>1. p \in open[d]
    BY DEF ReleasedIsClosed, Off
  <1>2. UNCHANGED open /\ \A e \in Daemons, q \in Ports :
                            <<e, q>> # <<d, p>> => thread'[e][q] = thread[e][q]
    BY DEF Goes, mainVars, TypeOK
  <1>3. QED
    BY <1>1, <1>2 DEF ReleasedIsClosed

(* Every step keeps ReleasedIsClosed: a receiver is joined before its port *)
(* is given back (OscReceiver).                                            *)
LEMMA ReleasedStep == TypeOK /\ ReleasedIsClosed /\ [Next]_vars => ReleasedIsClosed'
  <1> SUFFICES ASSUME TypeOK, ReleasedIsClosed, [Next]_vars PROVE ReleasedIsClosed'
    OBVIOUS
  <1>1. ASSUME NEW d \in Daemons, NEW needs, NEW next, Opens(d, needs, next) PROVE ReleasedIsClosed'
    BY <1>1 DEF Opens, ReleasedIsClosed, TypeOK
  <1>2. ASSUME NEW d \in Daemons, NEW p \in Ports, SyncJoin(d, p) PROVE ReleasedIsClosed'
    BY <1>2 DEF SyncJoin, Joined, ReleasedIsClosed, TypeOK
  <1>3. ASSUME NEW d \in Daemons, NEW p \in Ports, ThreadStep(d, p) PROVE ReleasedIsClosed'
    BY <1>3, GoesReleased DEF ThreadStep, Check, Received, Hand, HandsOn
  <1>4. ASSUME NEW d \in Daemons, Exit(d) \/ Kill(d) PROVE ReleasedIsClosed'
    <2>1. /\ \A p \in Ports : thread'[d][p] = Off
          /\ \A e \in Daemons \ {d} : thread'[e] = thread[e] /\ open'[e] = open[e]
      BY <1>4 DEF Exit, Kill, Gone, TypeOK
    <2>2. QED
      BY <2>1 DEF ReleasedIsClosed
  <1>5. CASE UNCHANGED <<open, thread>>
    BY <1>5 DEF ReleasedIsClosed
  <1>6. QED
    BY <1>1, <1>2, <1>3, <1>4, <1>5
    DEF Next, MainStep, EnvironmentStep, ClientStep, Start, Bind, Load, SyncOpen, Synced, Take,
        Reply, Respond, Turns, StartFails, WatchEvent, Stop, Join, SyncDrop, AcceptFails, Connect,
        Accept, Enqueue, vars, mainVars

-----------------------------------------------------------------------------
(* The clients.                                                            *)

(* Every step keeps QueueInv: a client is queued once, at the daemon it    *)
(* waits for, and not the one being answered.                              *)
LEMMA QueueStep == TypeOK /\ QueueInv /\ [Next]_vars => QueueInv'
  <1> SUFFICES ASSUME TypeOK, QueueInv, [Next]_vars PROVE QueueInv'
    OBVIOUS
  <1> DEFINE Fits(d, k) == /\ client[queue[d][k]] = At(d) /\ queue[d][k] # cur[d]
                           /\ \A l \in 1 .. Len(queue[d]) : queue[d][k] = queue[d][l] => k = l
             Sent == \A c \in Clients : client[c].st \in {"asking", "sending"} => client[c].to \in Daemons
  <1>a. /\ \A d \in Daemons : queue[d] \in Seq(Clients)
        /\ client \in [Clients -> [st : States, to : Daemons \cup {Nobody}]]
        /\ queue \in [Daemons -> Seq(Clients)] /\ cur \in [Daemons -> Clients \cup {Nobody}]
    BY DEF TypeOK, States
  <1>b. /\ \A d \in Daemons : Len(queue[d]) \in Nat
        /\ \A d \in Daemons : \A k \in 1 .. Len(queue[d]) : queue[d][k] \in Clients
    BY <1>a
  <1>c. \A d \in Daemons : cur[d] # Nobody => cur[d] \in Clients /\ client[cur[d]] = At(d)
    BY DEF TypeOK, At
  <1>d. Sent /\ \A d \in Daemons : \A k \in 1 .. Len(queue[d]) : Fits(d, k)
    BY DEF QueueInv
  <1>e. SUFFICES Sent' /\ \A d \in Daemons : \A k \in 1 .. Len(queue'[d]) : Fits(d, k)'
    BY DEF QueueInv
  <1>f. ASSUME NEW b \in Clients, client'[b] = client[b]
        PROVE  \A d \in Daemons : client[b] = At(d) => client'[b] = At(d)
    BY <1>f
  <1>g. \A b, d : client[b] = At(d) => client[b].st = "queued" /\ client[b].to = d
    BY DEF At
  <1>h. ASSUME NEW d \in Daemons, queue'[d] = queue[d], cur'[d] = cur[d] \/ cur'[d] = Nobody,
               \A k \in 1 .. Len(queue[d]) : client'[queue[d][k]] = client[queue[d][k]]
        PROVE  \A k \in 1 .. Len(queue'[d]) : Fits(d, k)'
    <2> SUFFICES ASSUME NEW k \in 1 .. Len(queue'[d]) PROVE Fits(d, k)'
      OBVIOUS
    <2>1. queue[d][k] \in Clients /\ Fits(d, k)
      BY <1>b, <1>d, <1>h
    <2>2. client'[queue[d][k]] = At(d)
      BY <1>f, <1>h, <2>1
    <2>3. queue'[d][k] # cur'[d]
      BY <1>h, <2>1, EndpointsAssumption
    <2>4. \A l \in 1 .. Len(queue'[d]) : queue'[d][k] = queue'[d][l] => k = l
      BY <1>h, <2>1
    <2>5. client'[queue[d][k]] = At(d) => client'[queue'[d][k]] = At(d)
      BY <1>h
    <2>6. QED
      BY <2>2, <2>3, <2>4, <2>5
  <1> DEFINE Goal == Sent' /\ \A d \in Daemons : \A k \in 1 .. Len(queue'[d]) : Fits(d, k)'
  <1> HIDE DEF Fits
  <1>1. ASSUME NEW c \in Clients, NEW system \in BOOLEAN, Connect(c, system) PROVE Goal
    <2>1. client[c].st = "idle" /\ UNCHANGED <<queue, cur>>
      BY <1>1 DEF Connect, mainVars
    <2>2. \E x \in Daemons : client' = [client EXCEPT ![c] = [st |-> "asking", to |-> x]]
      BY <1>1 DEF Connect
    <2>3. /\ \A b \in Clients \ {c} : client'[b] = client[b]
          /\ client'[c].st \in {"asking", "sending"} => client'[c].to \in Daemons
      BY <1>a, <2>2
    <2>4. Sent'
      BY <1>d, <2>3
    <2>5. \A d \in Daemons : \A k \in 1 .. Len(queue[d]) :
            queue[d][k] # c /\ queue[d][k] \in Clients
      BY <1>b, <1>d, <1>g, <2>1 DEF Fits
    <2>6. QED
      BY <1>h, <2>1, <2>3, <2>4, <2>5
  <1>2. ASSUME NEW c \in Clients, Enqueue(c) PROVE Goal
    <2>0. client[c].st = "sending" /\ client[c].to \in Daemons
      BY <1>2, <1>d DEF Enqueue
    <2> PICK d \in Daemons : d = client[c].to
      BY <2>0
    <2>1. client[c].st = "sending" /\ UNCHANGED cur
      BY <1>2 DEF Enqueue, mainVars
    <2>2. \A e \in Daemons : \A k \in 1 .. Len(queue[e]) : queue[e][k] # c /\ queue[e][k] \in Clients
      BY <1>b, <1>d, <1>g, <2>1 DEF Fits
    <2>3. \A e \in Daemons : cur[e] # c
      BY <1>c, <1>g, <2>1, EndpointsAssumption
    <2>5. /\ queue' = [queue EXCEPT ![d] = Append(@, c)]
          /\ client' = [client EXCEPT ![c].st = "queued"]
      BY <1>2 DEF Enqueue
    <2>6. QED
      <3>1. /\ client'[c].st = "queued" /\ client'[c].to = client[c].to
            /\ \A b \in Clients \ {c} : client'[b] = client[b]
        BY <1>a, <2>5
      <3>2. /\ Len(queue'[d]) = Len(queue[d]) + 1 /\ queue'[d][Len(queue[d]) + 1] = c
            /\ \A k \in 1 .. Len(queue[d]) : queue'[d][k] = queue[d][k]
            /\ \A e \in Daemons \ {d} : queue'[e] = queue[e]
        BY <1>a, <2>1, <2>5
      <3>3. Sent'
        BY <1>d, <3>1
      <3>4. \A e \in Daemons \ {d} : \A k \in 1 .. Len(queue'[e]) : Fits(e, k)'
        BY <1>h, <2>1, <2>2, <3>1, <3>2
      <3>5. client'[c] = At(d)
        <4>1. client' = [client EXCEPT ![c] = [client[c] EXCEPT !.st = "queued"]]
          BY <2>5
        <4>2. client[c] \in [st : States, to : Daemons \cup {Nobody}]
          BY <1>a
        <4>3. QED
          BY <1>a, <4>1, <4>2 DEF At
      <3>6. ASSUME NEW k \in 1 .. Len(queue'[d]) PROVE Fits(d, k)'
        <4>1. Len(queue[d]) \in Nat
          BY <1>b, <2>1
        <4>2. \A l \in 1 .. Len(queue'[d]) : \/ l = Len(queue[d]) + 1 /\ queue'[d][l] = c
                                             \/ /\ l \in 1 .. Len(queue[d])
                                                /\ queue'[d][l] = queue[d][l] /\ queue[d][l] # c
          <5>1. \A l \in 1 .. Len(queue'[d]) : l = Len(queue[d]) + 1 \/ l \in 1 .. Len(queue[d])
            BY <3>2, <4>1
          <5>2. QED
            BY <2>2, <3>2, <5>1
        <4>3. CASE k = Len(queue[d]) + 1
          <5>1. queue'[d][k] = c
            BY <3>2, <4>3
          <5>2. \A l \in 1 .. Len(queue'[d]) : queue'[d][l] = c => l = k
            BY <4>2, <4>3
          <5>3. cur'[d] # c
            BY <2>1, <2>3
          <5>4. QED
            BY <3>5, <5>1, <5>2, <5>3 DEF Fits
        <4>4. CASE k \in 1 .. Len(queue[d])
          <5>1. Fits(d, k) /\ queue'[d][k] = queue[d][k] /\ queue[d][k] # c /\ queue[d][k] \in Clients
            BY <1>d, <2>1, <2>2, <3>2, <4>4
          <5>2. \A l \in 1 .. Len(queue'[d]) : queue'[d][k] = queue'[d][l] => k = l
            BY <4>2, <5>1 DEF Fits
          <5>3. client'[queue[d][k]] = At(d)
            BY <1>f, <2>1, <3>1, <5>1 DEF Fits
          <5>4. client'[queue'[d][k]] = At(d)
            BY <5>1, <5>3
          <5>5. QED
            BY <2>1, <5>1, <5>2, <5>4 DEF Fits
        <4>5. QED
          BY <3>2, <4>1, <4>3, <4>4
      <3>7. QED
        BY <3>3, <3>4, <3>6
  <1>3. ASSUME NEW d \in Daemons, Take(d) PROVE Goal
    <2>1. /\ UNCHANGED client /\ queue[d] # <<>>
          /\ queue' = [queue EXCEPT ![d] = Tail(@)] /\ cur' = [cur EXCEPT ![d] = Head(queue[d])]
      BY <1>3 DEF Take
    <2>2. /\ Len(queue'[d]) = Len(queue[d]) - 1 /\ cur'[d] = queue[d][1]
          /\ \A k \in 1 .. Len(queue'[d]) : queue'[d][k] = queue[d][k + 1] /\ k + 1 \in 1 .. Len(queue[d])
          /\ 1 \in 1 .. Len(queue[d])
          /\ \A e \in Daemons \ {d} : queue'[e] = queue[e] /\ cur'[e] = cur[e]
      BY <1>a, <2>1
    <2>3. Sent'
      BY <1>d, <2>1
    <2>4. \A e \in Daemons \ {d} : \A k \in 1 .. Len(queue'[e]) : Fits(e, k)'
      BY <1>h, <2>1, <2>2
    <2>5. ASSUME NEW k \in 1 .. Len(queue'[d]) PROVE Fits(d, k)'
      <3>1. /\ Fits(d, k + 1) /\ Fits(d, 1) /\ queue'[d][k] = queue[d][k + 1]
            /\ k + 1 \in 1 .. Len(queue[d]) /\ 1 \in 1 .. Len(queue[d]) /\ k + 1 # 1
        BY <1>d, <2>2
      <3>2. queue'[d][k] # cur'[d]
        BY <2>2, <3>1 DEF Fits
      <3>3. \A l \in 1 .. Len(queue'[d]) : queue'[d][k] = queue'[d][l] => k + 1 = l + 1
        BY <2>2, <3>1 DEF Fits
      <3>4. client'[queue'[d][k]] = At(d)
        BY <2>1, <3>1 DEF Fits
      <3>5. \A l \in 1 .. Len(queue'[d]) : queue'[d][k] = queue'[d][l] => k = l
        BY <3>3
      <3>6. QED
        BY <3>2, <3>4, <3>5 DEF Fits
    <2>6. QED
      BY <2>3, <2>4, <2>5
  <1>4. ASSUME NEW d \in Daemons, Reply(d) PROVE Goal
    <2>1. /\ client' = [client EXCEPT ![cur[d]] = Done("answered")]
          /\ cur' = [cur EXCEPT ![d] = Nobody] /\ UNCHANGED queue
      BY <1>4 DEF Reply, Respond
    <2>2. \A e \in Daemons : cur'[e] = cur[e] \/ cur'[e] = Nobody
      BY <1>a, <2>1
    <2>3. \A b \in Clients : client'[b] = client[b] \/ (b = cur[d] /\ client'[b].st = "answered")
      <3>1. \A b \in Clients : client'[b] = client[b] \/ (b = cur[d] /\ client'[b] = Done("answered"))
        <4>1. client' = [b \in Clients |-> IF b = cur[d] THEN Done("answered") ELSE client[b]]
          BY <1>a, <2>1, Zenon
        <4>2. QED
          BY <4>1
      <3>2. QED
        BY <3>1 DEF Done
    <2>4. Sent'
      BY <1>d, <2>3
    <2>5. ASSUME NEW e \in Daemons, NEW k \in 1 .. Len(queue[e])
          PROVE  client'[queue[e][k]] = client[queue[e][k]]
      <3>1. queue[e][k] \in Clients /\ queue[e][k] # cur[e] /\ client[queue[e][k]] = At(e)
        BY <1>b, <1>d DEF Fits
      <3>2. queue[e][k] # cur[d]
        <4>1. CASE cur[d] = Nobody
          BY <3>1, <4>1, EndpointsAssumption
        <4>2. CASE cur[d] # Nobody
          <5>1. client[cur[d]].to = d /\ client[queue[e][k]].to = e
            BY <1>c, <1>g, <3>1, <4>2
          <5>2. QED
            BY <3>1, <5>1
        <4>3. QED
          BY <4>1, <4>2
      <3>3. QED
        BY <2>3, <3>1, <3>2
    <2>6. QED
      BY <1>h, <2>1, <2>2, <2>4, <2>5
  <1>5. ASSUME NEW d \in Daemons, Exit(d) \/ Kill(d) PROVE Goal
    <2>1. /\ queue'[d] = <<>>
          /\ \A e \in Daemons \ {d} : queue'[e] = queue[e] /\ cur'[e] = cur[e]
      BY <1>a, <1>5 DEF Exit, Kill, Gone
    <2>2. client' = Cut(d, {"asking", "sending", "queued"})
      BY <1>5 DEF Exit, Kill, Gone
    <2>3. \A b \in Clients : /\ client'[b] = client[b] \/ client'[b].st = "eof"
                             /\ client[b].to # d => client'[b] = client[b]
      BY <2>2 DEF Done, Cut
    <2>4. Sent'
      BY <1>d, <2>3
    <2>5. \A e \in Daemons \ {d} : \A k \in 1 .. Len(queue[e]) :
            client'[queue[e][k]] = client[queue[e][k]]
      <3>1. ASSUME NEW e \in Daemons \ {d}, NEW k \in 1 .. Len(queue[e])
            PROVE  client'[queue[e][k]] = client[queue[e][k]]
        <4>1. queue[e][k] \in Clients /\ client[queue[e][k]] = At(e)
          BY <1>b, <1>d DEF Fits
        <4>2. client[queue[e][k]].to # d
          BY <1>g, <4>1
        <4>3. QED
          BY <2>3, <4>1, <4>2
      <3>2. QED
        BY <3>1
    <2>6. \A e \in Daemons \ {d} : \A k \in 1 .. Len(queue'[e]) : Fits(e, k)'
      BY <1>h, <2>1, <2>5
    <2>7. QED
      BY <2>1, <2>4, <2>6
  <1>6. ASSUME NEW c \in Clients, Accept(c) PROVE Goal
    <2>1. client[c].st = "asking" /\ UNCHANGED <<queue, cur>>
      BY <1>6 DEF Accept, mainVars
    <2>2. /\ \A b \in Clients \ {c} : client'[b] = client[b]
          /\ client'[c].st \in {"asking", "sending"} => client'[c].to = client[c].to
      BY <1>a, <1>6 DEF Accept, Done
    <2>3. Sent'
      BY <1>d, <2>1, <2>2
    <2>4. \A d \in Daemons : \A k \in 1 .. Len(queue[d]) :
            queue[d][k] # c /\ queue[d][k] \in Clients
      BY <1>b, <1>d, <1>g, <2>1 DEF Fits
    <2>5. QED
      BY <1>h, <2>1, <2>2, <2>3, <2>4
  <1>7. ASSUME NEW d \in Daemons, AcceptFails(d) PROVE Goal
    <2>1. client' = Cut(d, {"asking"}) /\ UNCHANGED <<queue, cur>>
      BY <1>7 DEF AcceptFails
    <2>2. \A b \in Clients : \/ client'[b] = client[b]
                             \/ client'[b].st = "eof" /\ client[b].st = "asking"
      <3>1. \A b \in Clients : \/ client'[b] = client[b]
                               \/ client'[b] = Done("eof") /\ client[b].st = "asking"
        BY <2>1 DEF Cut
      <3>2. QED
        BY <3>1 DEF Done
    <2>3. Sent'
      BY <1>d, <2>2
    <2>4. \A e \in Daemons : \A k \in 1 .. Len(queue[e]) :
            queue[e][k] \in Clients /\ client[queue[e][k]].st # "asking"
      <3>1. ASSUME NEW e \in Daemons, NEW k \in 1 .. Len(queue[e])
            PROVE  queue[e][k] \in Clients /\ client[queue[e][k]].st # "asking"
        <4>1. queue[e][k] \in Clients /\ client[queue[e][k]] = At(e)
          BY <1>b, <1>d DEF Fits
        <4>2. QED
          BY <1>g, <4>1
      <3>2. QED
        BY <3>1
    <2>5. QED
      BY <1>h, <2>1, <2>2, <2>3, <2>4
  <1>8. CASE UNCHANGED <<queue, cur, client>>
    BY <1>d, <1>8 DEF Fits
  <1>9. QED
    BY <1>1, <1>2, <1>3, <1>4, <1>5, <1>6, <1>7, <1>8, ZenonT(60)
    DEF Next, MainStep, EnvironmentStep, ClientStep, Start, Bind, Synced, Turns, StartFails,
        WatchEvent, Stop, Join, Load, SyncOpen, Opens, SyncDrop, SyncJoin,
        ThreadStep, Check, Received, Hand, HandsOn, Goes, vars, mainVars

(* The variables fall into groups that few steps change: types are kept.   *)
LEMMA TypeStep == TypeOK /\ QueueInv /\ [Next]_vars => TypeOK'
  <1> DEFINE CurInv == \A d \in Daemons : cur[d] # Nobody => client[cur[d]] = At(d)
             MainType ==
               /\ file \in [Paths -> Daemons \cup {"absent", "stale"}]
               /\ pc \in [Daemons -> Phases] /\ at \in [Daemons -> Paths]
               /\ deaf \in [Daemons -> BOOLEAN] /\ alone \in [Daemons -> BOOLEAN]
               /\ failed \in [Daemons -> BOOLEAN] /\ needed \in [Daemons -> SUBSET Ports]
               /\ starts \in 0 .. MaxStarts
             PortType ==
               /\ open \in [Daemons -> SUBSET Ports]
               /\ thread \in [Daemons -> [Ports -> ThreadStates]]
               /\ running \in [Daemons -> [Ports -> BOOLEAN]]
             ClientType ==
               /\ queue \in [Daemons -> Seq(Clients)] /\ \A d \in Daemons : Len(queue[d]) <= QueueCap
               /\ cur \in [Daemons -> Clients \cup {Nobody}]
               /\ client \in [Clients -> [st : States, to : Daemons \cup {Nobody}]]
  <1> SUFFICES ASSUME TypeOK, QueueInv, [Next]_vars PROVE TypeOK'
    OBVIOUS
  <1>1. MainType /\ PortType /\ ClientType /\ CurInv
    BY DEF TypeOK, At, States
  <1>2. SUFFICES MainType' /\ PortType' /\ ClientType' /\ CurInv'
    BY DEF TypeOK, At, States
  <1>3. MainType'
    <2> USE <1>1
    <2>1. ASSUME NEW d \in Daemons, Start(d) PROVE MainType'
      <3>1. control_socket_path(d \in System) \in Paths
        BY DEF control_socket_path, Paths
      <3>2. /\ file' = Cleared(d, control_socket_path(d \in System))
            /\ pc' = [pc EXCEPT ![d] = "binding"]
            /\ at' = [at EXCEPT ![d] = control_socket_path(d \in System)]
            /\ failed' = [failed EXCEPT ![d] = FALSE] /\ UNCHANGED <<deaf, needed>>
        BY <2>1 DEF Start
      <3>3. alone' \in [Daemons -> BOOLEAN] /\ starts' \in 0 .. MaxStarts
        <4>1. starts < MaxStarts /\ starts' = starts + 1
          BY <2>1 DEF Start
        <4>2. alone' \in [Daemons -> BOOLEAN]
          BY <2>1 DEF Start
        <4>3. QED
          BY <4>1, <4>2, EndpointsAssumption
      <3>4. QED
        BY <3>1, <3>2, <3>3 DEF Cleared, Phases
    <2>2. ASSUME NEW d \in Daemons, Bind(d) PROVE MainType'
      BY <2>2 DEF Bind, Bound, Phases
    <2>3. ASSUME NEW d \in Daemons, Serves(d) PROVE MainType'
      <3>1. /\ UNCHANGED <<file, at, deaf, alone, failed, starts>>
            /\ UNCHANGED needed \/ \E n \in Needs : needed' = [needed EXCEPT ![d] = n]
        BY <2>3 DEF Serves, Load, SyncOpen, Opens, Synced, StartFails, WatchEvent, Take, Reply,
                    Respond, Stop, Join, Turns
      <3>2. needed' \in [Daemons -> SUBSET Ports]
        <4>1. ASSUME NEW n \in Needs, needed' = [needed EXCEPT ![d] = n]
              PROVE  needed' \in [Daemons -> SUBSET Ports]
          BY <4>1, EndpointsAssumption
        <4>2. QED
          BY <3>1, <4>1
      <3>3. pc' \in [Daemons -> Phases]
        BY <2>3, ServesPlaces
      <3>4. QED
        BY <3>1, <3>2, <3>3
    <2>4. ASSUME NEW d \in Daemons, AcceptFails(d) PROVE MainType'
      BY <2>4 DEF AcceptFails
    <2>5. ASSUME NEW d \in Daemons, Exit(d) \/ Kill(d) PROVE MainType'
      <3>1. /\ file' = [file EXCEPT ![at[d]] = "absent"]
               \/ file' = [x \in Paths |-> IF file[x] = d THEN "stale" ELSE file[x]]
            /\ pc' = [pc EXCEPT ![d] = "off"] /\ at' = [at EXCEPT ![d] = "user"]
            /\ alone' = [alone EXCEPT ![d] = TRUE] /\ needed' = [needed EXCEPT ![d] = {}]
            /\ deaf' = [deaf EXCEPT ![d] = FALSE]
            /\ UNCHANGED <<failed, starts>>
        BY <2>5 DEF Exit, Kill, Gone
      <3>2. "user" \in Paths /\ "off" \in Phases
        BY DEF Paths, Phases
      <3>3. QED
        BY <3>1, <3>2
    <2>6. CASE UNCHANGED <<file, pc, at, deaf, alone, failed, needed, starts>>
      BY <2>6
    <2>7. QED
      BY <2>1, <2>2, <2>3, <2>4, <2>5, <2>6, ZenonT(60)
      DEF Next, MainStep, EnvironmentStep, ClientStep, Serves, SyncDrop, SyncJoin, ThreadStep, Check,
          Received, Hand, HandsOn, Goes, Connect, Accept, Enqueue, vars, mainVars
  <1>4. PortType'
    <2> USE <1>1
    <2>1. ASSUME NEW d \in Daemons, NEW needs \in SUBSET Ports, NEW next, Opens(d, needs, next)
          PROVE  PortType'
      <3>1. PICK new \in SUBSET Ports :
              /\ open' = [open EXCEPT ![d] = @ \cup new]
              /\ thread' = [thread EXCEPT ![d] =
                              [p \in Ports |-> IF p \in new THEN [st |-> "check", left |-> 0] ELSE @[p]]]
              /\ running' = [running EXCEPT ![d] = [p \in Ports |-> p \in new \/ @[p]]]
        BY <2>1 DEF Opens
      <3>2. thread' \in [Daemons -> [Ports -> ThreadStates]]
        <4>1. [st |-> "check", left |-> 0] \in ThreadStates
          BY DEF ThreadStates
        <4>2. thread[d] \in [Ports -> ThreadStates]
          OBVIOUS
        <4>3. [p \in Ports |-> IF p \in new THEN [st |-> "check", left |-> 0] ELSE thread[d][p]]
                \in [Ports -> ThreadStates]
          BY <4>1, <4>2
        <4>4. QED
          BY <3>1, <4>3
      <3>3. QED
        BY <3>1, <3>2
    <2>2. ASSUME NEW d \in Daemons, NEW p \in Ports, SyncDrop(d, p) \/ SyncJoin(d, p) PROVE PortType'
      <3>1. CASE SyncDrop(d, p)
        <4>1. UNCHANGED <<open, thread>> /\ running' = [running EXCEPT ![d][p] = FALSE]
          BY <3>1 DEF SyncDrop
        <4>2. QED
          BY <4>1
      <3>2. CASE SyncJoin(d, p)
        BY <3>2 DEF SyncJoin
      <3>3. QED
        BY <2>2, <3>1, <3>2
    <2>3. ASSUME NEW d \in Daemons, NEW p \in Ports, NEW st, NEW left,
                 [st |-> st, left |-> left] \in ThreadStates, Goes(d, p, st, left)
          PROVE  PortType'
      BY <2>3 DEF Goes, mainVars
    <2>4. ASSUME NEW d \in Daemons, NEW p \in Ports, ThreadStep(d, p) PROVE PortType'
      <3>1. \A st \in {"off", "check", "receiving"} : [st |-> st, left |-> 0] \in ThreadStates
        BY DEF ThreadStates
      <3>2. ASSUME NEW left \in Nat, HandsOn(d, p, left) PROVE PortType'
        <4>1. left # 0 => [st |-> "handing", left |-> left] \in ThreadStates
          BY DEF ThreadStates
        <4>2. QED
          BY <2>3, <3>1, <3>2, <4>1 DEF HandsOn
      <3>3. thread[d][p].st = "handing" => thread[d][p].left - 1 \in Nat
        <4>1. thread[d][p] \in ThreadStates
          OBVIOUS
        <4>2. QED
          BY <4>1 DEF ThreadStates
      <3>4. CASE Check(d, p)
        BY <2>3, <3>1, <3>4 DEF Check
      <3>5. CASE Received(d, p)
        BY <2>3, <3>1, <3>2, <3>5, DispatchType DEF Received
      <3>6. CASE Hand(d, p)
        BY <3>2, <3>3, <3>6 DEF Hand
      <3>7. QED
        BY <2>4, <3>4, <3>5, <3>6 DEF ThreadStep
    <2>5. ASSUME NEW d \in Daemons, Exit(d) \/ Kill(d) PROVE PortType'
      <3>1. /\ open' = [open EXCEPT ![d] = {}]
            /\ thread' = [thread EXCEPT ![d] = [p \in Ports |-> Off]]
            /\ running' = [running EXCEPT ![d] = [p \in Ports |-> FALSE]]
        BY <2>5 DEF Exit, Kill, Gone
      <3>2. Off \in ThreadStates
        BY DEF Off, ThreadStates
      <3>3. QED
        BY <3>1, <3>2
    <2>6. CASE UNCHANGED <<open, thread, running>>
      BY <2>6
    <2>7. ASSUME NEW d \in Daemons, Load(d) \/ SyncOpen(d) \/ StartFails(d) PROVE PortType'
      BY <2>1, <2>6, <2>7, EndpointsAssumption DEF Load, SyncOpen, StartFails, Turns
    <2>8. QED
      BY <2>2, <2>4, <2>5, <2>6, <2>7
      DEF Next, MainStep, EnvironmentStep, ClientStep, Start, Bind, Synced, Take, Reply, Respond,
          Turns, WatchEvent, Stop, Join, AcceptFails, Connect, Accept, Enqueue, vars, mainVars
  <1>5. ClientType' /\ CurInv'
    <2> USE <1>1
    <2>1. ASSUME NEW c \in Clients, NEW system \in BOOLEAN, Connect(c, system)
          PROVE  ClientType' /\ CurInv'
      <3>1. client[c].st = "idle" /\ UNCHANGED <<queue, cur>>
        BY <2>1 DEF Connect, mainVars
      <3>2. \E r \in [st : States, to : Daemons \cup {Nobody}] : client' = [client EXCEPT ![c] = r]
        BY <2>1 DEF Connect, Done, States
      <3>3. \A d \in Daemons : cur[d] # c
        <4>1. ASSUME NEW d \in Daemons, cur[d] = c PROVE client[c].st = "queued"
          <5>1. client[c] = At(d)
            BY <4>1, EndpointsAssumption
          <5>2. QED
            BY <5>1 DEF At
        <4>2. QED
          BY <3>1, <4>1
      <3>4. QED
        BY <3>1, <3>2, <3>3
    <2>2. ASSUME NEW c \in Clients, Enqueue(c) PROVE ClientType' /\ CurInv'
      <3>1. client[c].st = "sending" /\ UNCHANGED cur
        BY <2>2 DEF Enqueue, mainVars
      <3>2. \E r \in [st : States, to : Daemons \cup {Nobody}] : client' = [client EXCEPT ![c] = r]
        <4>1. [client[c] EXCEPT !.st = "queued"] \in [st : States, to : Daemons \cup {Nobody}]
          <5>1. client[c] \in [st : States, to : Daemons \cup {Nobody}] /\ "queued" \in States
            BY DEF States
          <5>2. QED
            BY <5>1, Moves
        <4>2. client' = [client EXCEPT ![c] = [client[c] EXCEPT !.st = "queued"]]
          BY <2>2 DEF Enqueue
        <4>3. QED
          BY <4>1, <4>2
      <3>3. \A d \in Daemons : cur[d] # c
        <4>1. ASSUME NEW d \in Daemons, cur[d] = c PROVE client[c].st = "queued"
          <5>1. client[c] = At(d)
            BY <4>1, EndpointsAssumption
          <5>2. QED
            BY <5>1 DEF At
        <4>2. QED
          BY <3>1, <4>1
      <3>4. /\ Len(queue[client[c].to]) < QueueCap
            /\ queue' = [queue EXCEPT ![client[c].to] = Append(@, c)]
        BY <2>2 DEF Enqueue
      <3>5. queue' \in [Daemons -> Seq(Clients)] /\ \A d \in Daemons : Len(queue'[d]) <= QueueCap
        <4>1. PICK d \in Daemons : d = client[c].to
          BY <3>1 DEF QueueInv
        <4>2. /\ Append(queue[d], c) \in Seq(Clients) /\ Len(queue[d]) \in Nat
              /\ Len(Append(queue[d], c)) = Len(queue[d]) + 1
          BY <4>1
        <4>3. Len(Append(queue[d], c)) <= QueueCap
          BY <3>4, <4>1, <4>2, EndpointsAssumption
        <4>4. QED
          BY <3>4, <4>1, <4>2, <4>3
      <3>6. QED
        BY <3>1, <3>2, <3>3, <3>5
    <2>3. ASSUME NEW d \in Daemons, Take(d) PROVE ClientType' /\ CurInv'
      <3>1. /\ UNCHANGED client /\ queue[d] # <<>> /\ queue[d] \in Seq(Clients)
            /\ queue' = [queue EXCEPT ![d] = Tail(@)] /\ cur' = [cur EXCEPT ![d] = Head(queue[d])]
        BY <2>3 DEF Take
      <3>2. /\ Tail(queue[d]) \in Seq(Clients) /\ Head(queue[d]) = queue[d][1]
            /\ Len(queue[d]) \in Nat /\ Len(Tail(queue[d])) = Len(queue[d]) - 1
            /\ 1 \in 1 .. Len(queue[d]) /\ queue[d][1] \in Clients
        BY <3>1
      <3>3. client[queue[d][1]] = At(d)
        BY <3>2 DEF QueueInv
      <3>4. Len(Tail(queue[d])) <= QueueCap
        BY <3>2, EndpointsAssumption
      <3>5. QED
        BY <3>1, <3>2, <3>3, <3>4
    <2>4. ASSUME NEW d \in Daemons, Reply(d) PROVE ClientType' /\ CurInv'
      <3>1. /\ client' = [client EXCEPT ![cur[d]] = Done("answered")]
            /\ cur' = [cur EXCEPT ![d] = Nobody] /\ UNCHANGED queue
        BY <2>4 DEF Reply, Respond
      <3>2. Done("answered") \in [st : States, to : Daemons \cup {Nobody}]
        BY DEF Done, States
      <3>3. ASSUME NEW e \in Daemons, cur'[e] # Nobody PROVE client'[cur'[e]] = At(e)
        <4>1. e # d /\ cur'[e] = cur[e] /\ cur[e] \in Clients /\ client[cur[e]] = At(e)
          BY <3>1, <3>3
        <4>2. cur[e] # cur[d]
          <5>1. At(d) # At(e)
            BY <4>1 DEF At
          <5>2. QED
            BY <4>1, <5>1, EndpointsAssumption
        <4>3. QED
          BY <3>1, <4>1, <4>2
      <3>4. QED
        BY <3>1, <3>2, <3>3
    <2>5. ASSUME NEW d \in Daemons, Exit(d) \/ Kill(d) PROVE ClientType' /\ CurInv'
      <3>1. /\ queue' = [queue EXCEPT ![d] = <<>>] /\ cur' = [cur EXCEPT ![d] = Nobody]
            /\ client' = Cut(d, {"asking", "sending", "queued"})
        BY <2>5 DEF Exit, Kill, Gone
      <3>2. Done("eof") \in [st : States, to : Daemons \cup {Nobody}]
        BY DEF Done, States
      <3>3. ASSUME NEW e \in Daemons, cur'[e] # Nobody PROVE client'[cur'[e]] = At(e)
        <4>1. e # d /\ cur'[e] = cur[e] /\ cur[e] \in Clients /\ client[cur[e]] = At(e)
          BY <3>1, <3>3
        <4>2. client[cur[e]].to # d
          BY <4>1 DEF At
        <4>3. QED
          BY <3>1, <4>1, <4>2 DEF Cut
      <3>4. queue' \in [Daemons -> Seq(Clients)] /\ \A e \in Daemons : Len(queue'[e]) <= QueueCap
        BY <3>1, EndpointsAssumption
      <3>5. client' \in [Clients -> [st : States, to : Daemons \cup {Nobody}]]
        BY <3>1, <3>2 DEF Cut
      <3>6. QED
        BY <3>1, <3>3, <3>4, <3>5
    <2>6. ASSUME NEW c \in Clients, Accept(c) PROVE ClientType' /\ CurInv'
      <3>1. client[c].st = "asking" /\ UNCHANGED <<queue, cur>>
        BY <2>6 DEF Accept, mainVars
      <3>2. /\ Done("answered") \in [st : States, to : Daemons \cup {Nobody}]
            /\ [client[c] EXCEPT !.st = "sending"] \in [st : States, to : Daemons \cup {Nobody}]
        <4>1. [client[c] EXCEPT !.st = "sending"] \in [st : States, to : Daemons \cup {Nobody}]
          <5>1. client[c] \in [st : States, to : Daemons \cup {Nobody}] /\ "sending" \in States
            BY DEF States
          <5>2. QED
            BY <5>1, Moves
        <4>2. Done("answered") \in [st : States, to : Daemons \cup {Nobody}]
          BY DEF Done, States
        <4>3. QED
          BY <4>1, <4>2
      <3>3. \E r \in [st : States, to : Daemons \cup {Nobody}] : client' = [client EXCEPT ![c] = r]
        <4>1. \/ client' = [client EXCEPT ![c] = [client[c] EXCEPT !.st = "sending"]]
              \/ client' = [client EXCEPT ![c] = Done("answered")]
          BY <2>6 DEF Accept
        <4>2. QED
          BY <3>2, <4>1
      <3>4. \A d \in Daemons : cur[d] # c
        <4>1. ASSUME NEW d \in Daemons, cur[d] = c PROVE client[c].st = "queued"
          <5>1. client[c] = At(d)
            BY <4>1, EndpointsAssumption
          <5>2. QED
            BY <5>1 DEF At
        <4>2. QED
          BY <3>1, <4>1
      <3>5. QED
        BY <3>1, <3>3, <3>4
    <2>7. ASSUME NEW d \in Daemons, AcceptFails(d) PROVE ClientType' /\ CurInv'
      <3>1. client' = Cut(d, {"asking"}) /\ UNCHANGED <<queue, cur>>
        BY <2>7 DEF AcceptFails
      <3>2. Done("eof") \in [st : States, to : Daemons \cup {Nobody}]
        BY DEF Done, States
      <3>3. ASSUME NEW e \in Daemons, cur'[e] # Nobody PROVE client'[cur'[e]] = At(e)
        <4>1. cur'[e] = cur[e] /\ cur[e] \in Clients /\ client[cur[e]] = At(e)
          BY <3>1, <3>3
        <4>2. client[cur[e]].st # "asking"
          BY <4>1 DEF At
        <4>3. QED
          BY <3>1, <4>1, <4>2 DEF Cut
      <3>4. client' \in [Clients -> [st : States, to : Daemons \cup {Nobody}]]
        BY <3>1, <3>2 DEF Cut
      <3>5. QED
        BY <3>1, <3>3, <3>4
    <2>8. CASE UNCHANGED <<queue, cur, client>>
      BY <2>8
    <2>9. QED
      BY <2>1, <2>2, <2>3, <2>4, <2>5, <2>6, <2>7, <2>8, ZenonT(60)
      DEF Next, MainStep, EnvironmentStep, ClientStep, Start, Bind, Synced, Turns, StartFails,
          WatchEvent, Stop, Join, Load, SyncOpen, Opens, SyncDrop, SyncJoin,
          ThreadStep, Check, Received, Hand, HandsOn, Goes, vars, mainVars
  <1>6. QED
    BY <1>3, <1>4, <1>5

(* The inductive invariant holds throughout: sockets and their owners      *)
(* (main.rs:313-397), commands and their clients, threads and their ports  *)
(* (osc.rs:54-123).                                                        *)
THEOREM Invariant == Spec => []IInv
  <1>1. IInv /\ [Next]_vars => IInv'
    BY BoundStep, DeafStep, AloneStep, StartsStep, ReleasedStep, QueueStep, TypeStep DEF IInv
  <1>2. QED
    BY IInvInit, <1>1, PTL DEF Spec

-----------------------------------------------------------------------------
(* Every state is well typed; in particular the queue of commands stays    *)
(* within its bound, and the client whose command main handles is waiting  *)
(* for this daemon and no other (main.rs, the control channel).            *)
THEOREM TypeCorrect == Spec => []TypeOK
  <1>1. IInv => TypeOK
    BY DEF IInv
  <1>2. QED
    BY <1>1, Invariant, PTL

(* A daemon that is alone at its path binds it, whatever crashes left      *)
(* there, and is found there by every client until it ends or its accept   *)
(* loop does (start_control_socket, control_socket_path, and the guard     *)
(* that removes the file).                                                 *)
THEOREM AloneIsServed == Spec => []AloneServes
  <1>1. IInv => AloneServes
    BY DEF IInv, AloneInv, Left, AloneServes, Reachable
  <1>2. QED
    BY <1>1, Invariant, PTL

(* A port that was given back has no thread that still reads it            *)
(* (OscReceiver, whose drop joins its thread).                             *)
THEOREM PortsAreReleased == Spec => []ReleasedIsClosed
  <1>1. IInv => ReleasedIsClosed
    BY DEF IInv
  <1>2. QED
    BY <1>1, Invariant, PTL
=============================================================================
