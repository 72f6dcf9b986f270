------------------------- MODULE AlsaConnectProofs -------------------------
(***************************************************************************)
(* The ports of the routes and their connections, for any number of        *)
(* routes, scripts, clients, starts and plugs: the sequencer holds the     *)
(* ports of the loaded routes and no other inputs, and when nothing is     *)
(* left to do every port is connected to what it matches.                  *)
(***************************************************************************)
EXTENDS AlsaConnect, TLAPS, WellFoundedInduction

-----------------------------------------------------------------------------
(* The inductive invariant, by parts.                                      *)

PortSpecs == [name : OurNames, pattern : SUBSET Names]

Sequencer ==
  /\ client \in [Ids -> Names \cup {Free}] /\ subs \subseteq Ids \X Ids
  /\ announced \in Seq(Ids) /\ watching \in Ids \cup {0} /\ plugs \in 0 .. MaxPlugs

Tables ==
  /\ specs \subseteq PortSpecs /\ misled \subseteq specs /\ scan \subseteq specs
  /\ script \in [Routes -> Scripts \cup {Free}]
  /\ own \in [OurNames -> Ids \cup {0}] /\ fresh \in [OurNames -> Ids \cup {0}]
  /\ dying \subseteq Ids

(* The main thread: a handler of one changed file has nothing else to do,  *)
(* and what a handler needs in between is gone when it is over.            *)
Starting == pc \in {"create", "register"}

Control ==
  /\ pc \in {"all", "create", "register", "apply", "replace", "idle"}
  /\ mode \in {"all", "change"} /\ todo \subseteq Routes /\ starts \in 0 .. MaxStarts
  /\ job \in Routes \cup {Free} /\ next \in Scripts \cup {Free}
  /\ Starting => job \in Routes /\ next \in Scripts
  /\ ~Starting => job = Free
  /\ pc # "create" => fresh = Unloaded
  /\ pc \in {"apply", "idle"} \/ mode = "change" => todo = {}
  /\ pc = "replace" \/ (pc = "apply" /\ mode = "change") \/ dying = {}
  /\ pc = "apply" \/ scan = {}
  /\ Starting => (pc = "register" <=> Kept(job, next))

Shape == Sequencer /\ Tables /\ Control

Has(r, p) == script[r] # Free /\ p \in Ports[script[r]]

OwnInv ==
  \A r \in Routes, p \in PortIds :
    /\ Has(r, p) => own[<<r, p>>] # 0 /\ client[own[<<r, p>>]] = <<r, p>>
    /\ ~Has(r, p) => own[<<r, p>>] = 0

(* The ports that are made for a start are ports of nobody yet.            *)
FreshInv ==
  \A n \in OurNames : fresh[n] # 0 =>
    /\ n[1] = job /\ n[2] \in Ports[next]
    /\ client[fresh[n]] = n /\ own[n] # fresh[n]

(* The ports that are about to be closed are nobody's any more.            *)
DyingInv == \A i \in dying : client[i] \in OurNames /\ own[client[i]] # i

InputInv ==
  \A i \in Ids : client[i] \in Routes \X Inputs =>
    own[client[i]] = i \/ fresh[client[i]] = i \/ i \in dying

PortInv == OwnInv /\ FreshInv /\ DyingInv /\ InputInv

SpecInv == \A x \in specs : \E r \in Loaded : x \in Wanted(r, script[r])

(* What is not connected will be: the client is announced, or apply_all    *)
(* comes to the spec.                                                      *)
Announced(i) == watching = i \/ \E k \in 1 .. Len(announced) : announced[k] = i

Unscanned(x) == x \in scan \/ (mode = "all" /\ pc \in {"all", "create", "register", "replace"})

WireInv ==
  \A x \in specs \ misled, i \in Ids : Matches(x, i) =>
    Link(x, own[x.name], i) \in subs \/ Announced(i) \/ Unscanned(x)

IInv == Shape /\ PortInv /\ SpecInv /\ WireInv

(* Where no route's name starts with another's.                            *)
Distinct == \A r \in Routes : PrefixOf[r] = {r}

WholeInv == \A r \in Loaded : Wanted(r, script[r]) \subseteq specs

-----------------------------------------------------------------------------
(* Operators.                                                              *)

(* The least-number principle is taken from the library's theorem that <   *)
(* on Nat is well founded.                                                 *)
LEMMA NatLess == IsWellFoundedOn({ss \in Nat \X Nat : ss[1] < ss[2]}, Nat)
  BY NatLessThanWellFounded DEF OpToRel

(* Min chooses a member: what find_our_port and client_create rely on.     *)
LEMMA MinIsThere == ASSUME NEW I \in SUBSET Nat, I # {} PROVE Min(I) \in I
  <1> DEFINE Less == {ss \in Nat \X Nat : ss[1] < ss[2]}
  <1>1. \A x, y \in Nat : y < x => <<y, x>> \in Less
    OBVIOUS
  <1>2. IsWellFoundedOn(Less, Nat)
    BY NatLess
  <1> HIDE DEF Less
  <1>3. PICK x \in I : \A y \in I : <<y, x>> \notin Less
    BY <1>2, WFMin
  <1>4. ASSUME NEW y \in I PROVE x <= y
    <2>1. x \in Nat /\ y \in Nat /\ ~(y < x)
      BY <1>1, <1>3
    <2>2. QED
      BY <2>1
  <1>5. QED
    BY <1>4 DEF Min

(* Client numbers are naturals other than 0, and the least unused one is   *)
(* one of them.                                                            *)
LEMMA IdParts == /\ 0 \notin Ids /\ Ids \subseteq Nat
                 /\ \A I \in SUBSET Ids : I # {} => Min(I) \in I /\ Min(I) \in Ids
  <1>1. MaxClients \in Nat
    BY BoundsAssumption
  <1>2. 0 \notin Ids /\ Ids \subseteq Nat
    BY <1>1 DEF Ids
  <1>3. QED
    BY <1>2, MinIsThere

(* What belongs to a route, a port of a route and a device are told apart  *)
(* by their names.                                                         *)
LEMMA NameParts ==
  /\ \A n \in OurNames : /\ n[1] \in Routes /\ n[2] \in PortIds /\ n = <<n[1], n[2]>>
                         /\ n \in Names /\ n \notin Devices /\ n # Free
  /\ \A r \in Routes, p \in PortIds :
       <<r, p>> \in OurNames /\ <<r, p>>[1] = r /\ <<r, p>>[2] = p
  /\ \A d \in Devices : d \in Names /\ d # Free /\ d \notin OurNames
  /\ Routes \X Inputs \subseteq OurNames
  BY RoutesAssumption DEF OurNames, Names

(* A spec a script wants is of a port that this script declares, of the    *)
(* route that runs it (connect_specs).                                     *)
LEMMA WantedParts ==
  ASSUME NEW r \in Routes, NEW s \in Scripts, NEW x \in Wanted(r, s)
  PROVE  /\ x \in PortSpecs /\ x.name[1] = r
         /\ \E p \in Ports[s] : p \in PortIds /\ x.name = <<r, p>>
  <1>1. PICK c \in Connects[s] : x = PortSpec(<<r, c[1]>>, c[2])
    BY DEF Wanted
  <1>2. /\ c[1] \in Ports[s] /\ c[1] \in PortIds /\ c[2] \in SUBSET Names
    BY ScriptsAssumption
  <1>3. x.name = <<r, c[1]>> /\ x \in PortSpecs
    BY <1>1, <1>2 DEF PortSpec, PortSpecs, OurNames
  <1>4. QED
    BY <1>2, <1>3

(* A lookup by name finds a client of that name or none (find_our_port).   *)
LEMMA FindParts ==
  ASSUME Sequencer, NEW n
  PROVE  find_our_port(n) = 0 \/ (find_our_port(n) \in Ids /\ client[find_our_port(n)] = n)
  BY IdParts DEF find_our_port

(* Subscribing only links clients that exist.                              *)
LEMMA LinksParts ==
  ASSUME Sequencer, NEW x, NEW I \in SUBSET Ids
  PROVE  Links(x, I) \subseteq Ids \X Ids
  BY FindParts DEF Links, Link

(* A client that appears has a number nobody had, and is announced.        *)
Appeared(i, n) ==
  /\ i \in Ids /\ client[i] = Free /\ client' = [client EXCEPT ![i] = n]
  /\ announced' \in Seq(Ids) /\ (Announced(i))' /\ \A j : Announced(j) => (Announced(j))'

(* A new client takes the least free number and disturbs no other.         *)
LEMMA AppearEffect ==
  ASSUME Sequencer, NEW n, Appear(n), watching' = watching
  PROVE  \E i \in Ids : i = Min(Unused) /\ Appeared(i, n)
  <1>1. Min(Unused) \in Ids /\ client[Min(Unused)] = Free
    BY IdParts DEF Appear, Unused
  <1>2. PICK i \in Ids : i = Min(Unused)
    BY <1>1
  <1>3. announced' = Append(announced, i) /\ client' = [client EXCEPT ![i] = n]
    BY <1>2 DEF Appear
  <1>4. /\ announced \in Seq(Ids) /\ Len(announced) \in Nat
        /\ announced' \in Seq(Ids) /\ Len(announced') = Len(announced) + 1
        /\ announced'[Len(announced) + 1] = i
        /\ \A k \in 1 .. Len(announced) : announced'[k] = announced[k]
    BY <1>3 DEF Sequencer
  <1>5. /\ Len(announced) + 1 \in 1 .. Len(announced')
        /\ \A k \in 1 .. Len(announced) : k \in 1 .. Len(announced')
    BY <1>4
  <1>6. \E k \in 1 .. Len(announced') : announced'[k] = i
    BY <1>4, <1>5
  <1>7. ASSUME NEW j, Announced(j) PROVE (Announced(j))'
    BY <1>4, <1>5, <1>7 DEF Announced
  <1>8. (Announced(i))'
    BY <1>6 DEF Announced
  <1>9. QED
    BY <1>1, <1>2, <1>3, <1>4, <1>7, <1>8 DEF Appeared

(* A client that goes takes its own subscriptions along and no others.     *)
LEMMA VanishEffect ==
  ASSUME Sequencer, NEW I, Vanish(I)
  PROVE  /\ client' \in [Ids -> Names \cup {Free}] /\ subs' \subseteq Ids \X Ids
         /\ \A i \in Ids : /\ i \in I => client'[i] = Free
                           /\ i \notin I => client'[i] = client[i]
         /\ \A i, j : <<i, j>> \in subs /\ i \notin I /\ j \notin I => <<i, j>> \in subs'
  BY DEF Sequencer, Vanish

(* Closing the ports I closes at least the inputs.                         *)
LEMMA CloseEffect ==
  ASSUME NEW I, Close(I)
  PROVE  \E J \in SUBSET I : Vanish(J) /\ InputIds(I) \subseteq J
  <1>1. PICK O \in {{}, I \ InputIds(I)} : Vanish(InputIds(I) \cup O)
    BY DEF Close
  <1>2. InputIds(I) \cup O \in SUBSET I /\ InputIds(I) \subseteq InputIds(I) \cup O
    BY DEF InputIds
  <1>3. QED
    BY <1>1, <1>2

-----------------------------------------------------------------------------
(* Types.                                                                  *)

(* Initially every part has its type.                                      *)
LEMMA ShapeInit == Init => Shape
  <1> SUFFICES ASSUME Init PROVE Shape
    OBVIOUS
  <1>1. 0 \in 0 .. MaxPlugs /\ 0 \in 0 .. MaxStarts
    BY BoundsAssumption
  <1>2. Sequencer
    <2>1. client \in [Ids -> Names \cup {Free}]
      BY DEF Init, Names
    <2>2. QED
      BY <1>1, <2>1 DEF Init, Sequencer
  <1>3. Tables
    BY DEF Init, Tables, Unloaded
  <1>4. Control
    BY <1>1, ScriptsAssumption DEF Init, Control, Starting
  <1>5. QED
    BY <1>2, <1>3, <1>4 DEF Shape

(* Handing announcements to the watcher.                                   *)
LEMMA ReadEffect ==
  ASSUME Sequencer, WatchRead
  PROVE  /\ announced' \in Seq(Ids) /\ watching' \in Ids
         /\ \A j : Announced(j) /\ j # 0 => (Announced(j))'
  <1>1. /\ announced \in Seq(Ids) /\ announced # <<>> /\ watching = 0
        /\ watching' = Head(announced) /\ announced' = Tail(announced)
    BY DEF Sequencer, WatchRead
  <1>2. /\ Len(announced) \in Nat /\ Len(announced) > 0 /\ watching' = announced[1]
        /\ watching' \in Ids /\ announced' \in Seq(Ids) /\ Len(announced') = Len(announced) - 1
        /\ \A k \in 1 .. Len(announced) - 1 : announced'[k] = announced[k + 1]
    BY <1>1
  <1>3. ASSUME NEW k \in 1 .. Len(announced), k # 1
        PROVE  k - 1 \in 1 .. Len(announced') /\ announced'[k - 1] = announced[k]
    <2>1. k - 1 \in 1 .. Len(announced) - 1 /\ (k - 1) + 1 = k
      BY <1>2, <1>3
    <2>2. QED
      BY <1>2, <2>1
  <1>4. ASSUME NEW j, Announced(j), j # 0 PROVE (Announced(j))'
    <2>1. PICK k \in 1 .. Len(announced) : announced[k] = j
      BY <1>1, <1>4 DEF Announced
    <2>2. CASE k = 1
      BY <1>2, <2>1, <2>2 DEF Announced
    <2>3. CASE k # 1
      BY <1>3, <2>1, <2>3 DEF Announced
    <2>4. QED
      BY <2>2, <2>3
  <1>5. QED
    BY <1>2, <1>4

(* Every step keeps the types of the sequencer's state.                    *)
LEMMA SequencerStep == ASSUME Shape, [Next]_vars PROVE Sequencer'
  <1>0. Sequencer /\ Tables /\ Control
    BY DEF Shape
  <1>1. CASE Plug
    <2>1. PICK d \in Devices : Appear(d)
      BY <1>1 DEF Plug
    <2>2. PICK i \in Ids : Appeared(i, d)
      BY <1>0, <1>1, <2>1, AppearEffect DEF Plug
    <2>3. plugs' \in 0 .. MaxPlugs
      BY <1>0, <1>1, BoundsAssumption DEF Plug, Sequencer
    <2>4. QED
      BY <1>0, <1>1, <2>2, <2>3, NameParts DEF Plug, Appeared, Sequencer
  <1>2. CASE Unplug
    <2>1. PICK i \in Ids : Vanish({i})
      BY <1>2 DEF Unplug
    <2>2. plugs' \in 0 .. MaxPlugs
      BY <1>0, <1>2, BoundsAssumption DEF Unplug, Sequencer
    <2>3. QED
      BY <1>0, <1>2, <2>1, <2>2, VanishEffect DEF Unplug, Sequencer
  <1>3. CASE CreatePort
    <2>1. PICK p \in Missing : Appear(<<job, p>>)
      BY <1>3 DEF CreatePort
    <2>2. <<job, p>> \in Names
      BY <1>0, <1>3, ScriptsAssumption, NameParts DEF CreatePort, Control, Starting, Missing
    <2>3. PICK i \in Ids : Appeared(i, <<job, p>>)
      BY <1>0, <1>3, <2>1, AppearEffect DEF CreatePort
    <2>4. QED
      BY <1>0, <1>3, <2>2, <2>3 DEF CreatePort, Appeared, Sequencer
  <1>4. CASE StartFails
    BY <1>0, <1>4, VanishEffect DEF StartFails, Sequencer
  <1>5. CASE Replace
    <2>1. PICK J : Vanish(J)
      BY <1>5, CloseEffect DEF Replace
    <2>2. QED
      BY <1>0, <1>5, <2>1, VanishEffect DEF Replace, Sequencer
  <1>6. ASSUME NEW r \in Routes, Remove(r) PROVE Sequencer'
    <2>1. PICK J : Vanish(J)
      BY <1>6, CloseEffect DEF Remove
    <2>2. QED
      BY <1>0, <1>6, <2>1, VanishEffect DEF Remove, Sequencer
  <1>7. CASE Apply
    <2>1. PICK x \in scan : subs' = subs \cup Links(x, Ids)
      BY <1>7 DEF Apply
    <2>2. Links(x, Ids) \subseteq Ids \X Ids
      BY <1>0, LinksParts
    <2>3. QED
      BY <1>0, <1>7, <2>1, <2>2 DEF Apply, Sequencer
  <1>8. CASE connect_new_port
    <2>1. watching \in Ids
      BY <1>0, <1>8 DEF connect_new_port, Sequencer
    <2>2. \A x : Links(x, {watching}) \subseteq Ids \X Ids
      BY <1>0, <2>1, LinksParts
    <2>3. subs' \subseteq Ids \X Ids
      <3>1. PICK X : subs' = subs \cup UNION {Links(x, {watching}) : x \in X}
        BY <1>8 DEF connect_new_port
      <3>2. UNION {Links(x, {watching}) : x \in X} \subseteq Ids \X Ids
        BY <2>2
      <3>3. QED
        BY <1>0, <3>1, <3>2 DEF Sequencer
    <2>4. QED
      BY <1>0, <1>8, <2>3 DEF connect_new_port, Sequencer
  <1>9. CASE WatchRead
    BY <1>0, <1>9, ReadEffect DEF WatchRead, Sequencer
  <1>10. CASE UNCHANGED <<alsaVars, watching>>
    BY <1>0, <1>10 DEF alsaVars, Sequencer
  <1>11. QED
    BY <1>1, <1>2, <1>3, <1>4, <1>5, <1>6, <1>7, <1>8, <1>9, <1>10
    DEF Next, MainStep, Reload, handle_route_changed, StartOne, register_route, Applied,
        AllStarted, vars

(* Every step keeps the types of the specs and of the routes main holds.   *)
LEMMA TablesStep == ASSUME Shape, [Next]_vars PROVE Tables'
  <1>0. Sequencer /\ Tables /\ Control
    BY DEF Shape
  <1>a. Unloaded \in [OurNames -> Ids \cup {0}]
    BY DEF Unloaded
  <1>1. CASE CreatePort
    <2>1. PICK p \in Missing : Appear(<<job, p>>) /\ fresh' = [fresh EXCEPT ![<<job, p>>] = Min(Unused)]
      BY <1>1 DEF CreatePort
    <2>2. Min(Unused) \in Ids
      BY <2>1, IdParts DEF Appear, Unused
    <2>3. QED
      BY <1>0, <1>1, <2>1, <2>2 DEF CreatePort, tableVars, Tables
  <1>2. CASE StartFails
    BY <1>0, <1>a, <1>2 DEF StartFails, NoJob, tableVars, Tables
  <1>3. CASE register_route
    <2>1. job \in Routes /\ next \in Scripts
      BY <1>0, <1>3 DEF register_route, Control, Starting
    <2>2. specs' \subseteq PortSpecs
      BY <1>0, <1>3, <2>1, WantedParts DEF register_route, Retained, Tables
    <2>3. own' \in [OurNames -> Ids \cup {0}] /\ dying' \subseteq Ids
      <3>1. CASE Kept(job, next)
        BY <1>0, <1>3, <3>1 DEF register_route, Tables
      <3>2. CASE ~Kept(job, next)
        <4>1. /\ own' = [n \in OurNames |-> IF n[1] = job THEN fresh[n] ELSE own[n]]
              /\ dying' = OwnIds(job)
          BY <1>3, <3>2 DEF register_route
        <4>2. own \in [OurNames -> Ids \cup {0}] /\ fresh \in [OurNames -> Ids \cup {0}]
          BY <1>0 DEF Tables
        <4>3. OwnIds(job) \subseteq Ids
          <5>1. \A p \in PortIds : <<job, p>> \in OurNames
            BY <2>1 DEF OurNames
          <5>2. \A p \in PortIds : own[<<job, p>>] \in Ids \cup {0}
            BY <4>2, <5>1
          <5>3. QED
            BY <5>2 DEF OwnIds
        <4>4. QED
          BY <4>1, <4>2, <4>3
      <3>3. QED
        BY <3>1, <3>2
    <2>4. scan' \subseteq specs'
      BY <1>0, <1>3 DEF register_route, Control, Starting
    <2>5. QED
      BY <1>0, <1>a, <1>3, <2>1, <2>2, <2>3, <2>4 DEF register_route, NoJob, Tables
  <1>4. CASE Apply \/ connect_new_port
    BY <1>0, <1>4 DEF Apply, connect_new_port, Misled, jobVars, Tables
  <1>5. CASE Replace
    BY <1>0, <1>5 DEF Replace, tableVars, Tables
  <1>6. CASE AllStarted
    BY <1>0, <1>6 DEF AllStarted, tableVars, jobVars, Tables
  <1>7. ASSUME NEW r \in Routes, Remove(r) PROVE Tables'
    <2>1. scan' = {}
      BY <1>0, <1>7 DEF Remove, Control
    <2>2. QED
      BY <1>0, <1>7, <2>1 DEF Remove, Retained, jobVars, Tables
  <1>8. CASE UNCHANGED <<tableVars, scan, fresh, dying>>
    BY <1>0, <1>8 DEF tableVars, Tables
  <1>9. QED
    BY <1>1, <1>2, <1>3, <1>4, <1>5, <1>6, <1>7, <1>8
    DEF Next, MainStep, Reload, handle_route_changed, StartOne, Applied, Plug, Unplug, WatchRead,
        jobVars, vars

(* Every step keeps main and the watcher at a place of their code.         *)
LEMMA ControlStep == ASSUME Shape, [Next]_vars PROVE Control'
  <1>0. Sequencer /\ Tables /\ Control /\ MaxStarts \in Nat
    BY BoundsAssumption DEF Shape
  <1>1. ASSUME NEW r \in Routes, handle_route_changed(r) PROVE Control'
    <2>1. PICK s \in Scripts : /\ job' = r /\ next' = s
                               /\ pc' = IF Kept(r, s) THEN "register" ELSE "create"
      BY <1>1 DEF handle_route_changed, Begin
    <2>2. starts' \in 0 .. MaxStarts
      BY <1>0, <1>1 DEF handle_route_changed, Counted, Control
    <2>3. QED
      BY <1>0, <1>1, <2>1, <2>2 DEF handle_route_changed, tableVars, Kept, Control, Starting
  <1>2. CASE Reload
    <2>1. starts' \in 0 .. MaxStarts
      BY <1>0, <1>2 DEF Reload, Counted, Control
    <2>2. QED
      BY <1>0, <1>2, <2>1 DEF Reload, Loaded, Control, Starting
  <1>3. CASE StartOne
    <2>1. PICK r \in todo, s \in Scripts :
            /\ todo' = todo \ {r} /\ job' = r /\ next' = s
            /\ pc' = IF Kept(r, s) THEN "register" ELSE "create"
      BY <1>3 DEF StartOne, Begin
    <2>2. QED
      BY <1>0, <1>3, <2>1 DEF StartOne, tableVars, Kept, Control, Starting
  <1>4. CASE CreatePort
    BY <1>0, <1>4 DEF CreatePort, tableVars, Kept, Control, Starting
  <1>5. CASE StartFails
    BY <1>0, <1>5 DEF StartFails, AfterJob, NoJob, Control, Starting
  <1>6. CASE register_route
    BY <1>0, <1>6 DEF register_route, NoJob, Control, Starting
  <1>7. CASE Apply \/ Applied
    BY <1>0, <1>7 DEF Apply, Applied, jobVars, Control, Starting
  <1>8. CASE Replace \/ AllStarted
    BY <1>0, <1>8 DEF Replace, AllStarted, AfterJob, jobVars, Control, Starting
  <1>9. ASSUME NEW r \in Routes, Remove(r) PROVE Control'
    <2>1. starts' \in 0 .. MaxStarts
      BY <1>0, <1>9 DEF Remove, Counted, Control
    <2>2. QED
      BY <1>0, <1>9, <2>1 DEF Remove, jobVars, Control, Starting
  <1>10. CASE UNCHANGED <<pc, jobVars, scan, starts, script>>
    BY <1>0, <1>10 DEF jobVars, Kept, Control, Starting
  <1>11. QED
    BY <1>1, <1>2, <1>3, <1>4, <1>5, <1>6, <1>7, <1>8, <1>9, <1>10
    DEF Next, MainStep, Plug, Unplug, WatchRead, connect_new_port, tableVars, vars

(* Types are kept: the three parts together.                               *)
LEMMA ShapeStep == ASSUME Shape, [Next]_vars PROVE Shape'
  BY SequencerStep, TablesStep, ControlStep DEF Shape

-----------------------------------------------------------------------------
(* Ports.                                                                  *)

(* What concerns the ports does not change while clients that are no ports *)
(* come and go, and while connections are made.                            *)
LEMMA PortsKept ==
  ASSUME Shape, PortInv, UNCHANGED <<script, own, fresh, dying>>,
         job' = job \/ fresh = Unloaded, next' = next \/ fresh = Unloaded,
         \A i \in Ids : client'[i] = client[i] \/ (client[i] \notin OurNames /\ client'[i] \notin OurNames)
  PROVE  PortInv'
  <1>0. /\ own \in [OurNames -> Ids \cup {0}] /\ fresh \in [OurNames -> Ids \cup {0}]
        /\ dying \subseteq Ids
    BY DEF Shape, Tables
  <1>1. OwnInv'
    <2>1. SUFFICES ASSUME NEW r \in Routes, NEW p \in PortIds
                   PROVE  /\ Has(r, p) => own[<<r, p>>] # 0 /\ client'[own[<<r, p>>]] = <<r, p>>
                          /\ ~Has(r, p) => own[<<r, p>>] = 0
      BY DEF OwnInv, Has
    <2>2. <<r, p>> \in OurNames
      BY DEF OurNames
    <2>3. /\ Has(r, p) => own[<<r, p>>] # 0 /\ client[own[<<r, p>>]] = <<r, p>>
          /\ ~Has(r, p) => own[<<r, p>>] = 0
      BY DEF PortInv, OwnInv
    <2>4. QED
      BY <1>0, <2>2, <2>3
  <1>2. FreshInv'
    <2>1. SUFFICES ASSUME NEW n \in OurNames, fresh[n] # 0
                   PROVE  /\ n[1] = job' /\ n[2] \in Ports[next']
                          /\ client'[fresh[n]] = n /\ own[n] # fresh[n]
      BY DEF FreshInv
    <2>2. fresh # Unloaded
      BY <2>1 DEF Unloaded
    <2>3. /\ n[1] = job /\ n[2] \in Ports[next]
          /\ client[fresh[n]] = n /\ own[n] # fresh[n]
      BY <2>1 DEF PortInv, FreshInv
    <2>4. QED
      BY <1>0, <2>1, <2>2, <2>3
  <1>3. DyingInv'
    BY <1>0 DEF PortInv, DyingInv
  <1>4. InputInv'
    BY NameParts DEF PortInv, InputInv
  <1>5. QED
    BY <1>1, <1>2, <1>3, <1>4 DEF PortInv

(* Initially no route has a port.                                          *)
LEMMA PortInit == Init => PortInv
  <1> SUFFICES ASSUME Init PROVE PortInv
    OBVIOUS
  <1>1. /\ \A n \in OurNames : own[n] = 0 /\ fresh[n] = 0
        /\ \A r \in Routes : script[r] = Free
        /\ dying = {} /\ \A i \in Ids : client[i] \in Devices \cup {Free}
    BY DEF Init, Unloaded
  <1>2. OwnInv
    BY <1>1, NameParts DEF OwnInv, Has
  <1>3. FreshInv /\ DyingInv
    BY <1>1 DEF FreshInv, DyingInv
  <1>4. InputInv
    <2>1. ASSUME NEW i \in Ids PROVE client[i] \notin Routes \X Inputs
      BY <1>1, NameParts, RoutesAssumption DEF Names
    <2>2. QED
      BY <2>1 DEF InputInv
  <1>5. QED
    BY <1>2, <1>3, <1>4 DEF PortInv

(* Devices that come and go leave the ports of routes alone.               *)
LEMMA PlugPorts == ASSUME Shape, PortInv, Plug \/ Unplug PROVE PortInv'
  <1>0. Sequencer
    BY DEF Shape
  <1>1. UNCHANGED <<script, own, fresh, dying, job, next, watching>>
    BY DEF Plug, Unplug, tableVars, jobVars
  <1>2. CASE Plug
    <2>1. PICK d \in Devices, i \in Ids : Appeared(i, d)
      BY <1>0, <1>1, <1>2, AppearEffect DEF Plug
    <2>2. \A j \in Ids : client'[j] = client[j] \/ (client[j] \notin OurNames /\ client'[j] \notin OurNames)
      BY <1>0, <2>1, NameParts DEF Appeared, Sequencer
    <2>3. QED
      BY <1>1, <2>2, PortsKept
  <1>3. CASE Unplug
    <2>1. PICK i \in Ids : client[i] \in Devices /\ Vanish({i})
      BY <1>3 DEF Unplug
    <2>2. \A j \in Ids : client'[j] = client[j] \/ (client[j] \notin OurNames /\ client'[j] \notin OurNames)
      BY <1>0, <2>1, NameParts, VanishEffect
    <2>3. QED
      BY <1>1, <2>2, PortsKept
  <1>4. QED
    BY <1>2, <1>3

(* A start adds a port to those that are nobody's yet (Route::start).      *)
LEMMA CreatePorts == ASSUME Shape, PortInv, CreatePort PROVE PortInv'
  <1>0. /\ Sequencer /\ job \in Routes /\ next \in Scripts /\ pc = "create"
        /\ own \in [OurNames -> Ids \cup {0}] /\ fresh \in [OurNames -> Ids \cup {0}]
        /\ dying = {}
        /\ UNCHANGED <<script, own, dying, job, next, watching>>
    BY DEF Shape, Control, Starting, Tables, CreatePort, tableVars
  <1>1. PICK p \in Missing : Appear(<<job, p>>) /\ fresh' = [fresh EXCEPT ![<<job, p>>] = Min(Unused)]
    BY DEF CreatePort
  <1>2. /\ p \in Ports[next] /\ p \in PortIds
        /\ <<job, p>> \in OurNames /\ <<job, p>>[1] = job /\ <<job, p>>[2] = p
    BY <1>0, <1>1, ScriptsAssumption DEF Missing, OurNames
  <1>3. PICK n : n = <<job, p>>
    OBVIOUS
  <1>4. Appear(n) /\ n \in OurNames /\ n[1] = job /\ n[2] \in Ports[next]
    BY <1>1, <1>2, <1>3
  <1>5. PICK i \in Ids : i = Min(Unused) /\ Appeared(i, n)
    BY <1>0, <1>4, AppearEffect
  <1>6. /\ client[i] = Free /\ client'[i] = n /\ \A j \in Ids : j # i => client'[j] = client[j]
        /\ fresh' = [fresh EXCEPT ![n] = i]
    BY <1>0, <1>1, <1>3, <1>5 DEF Appeared, Sequencer
  <1>7. OwnInv'
    <2>1. SUFFICES ASSUME NEW r \in Routes, NEW q \in PortIds
                   PROVE  /\ Has(r, q) => own[<<r, q>>] # 0 /\ client'[own[<<r, q>>]] = <<r, q>>
                          /\ ~Has(r, q) => own[<<r, q>>] = 0
      BY <1>0 DEF OwnInv, Has
    <2>2. <<r, q>> \in OurNames /\ <<r, q>> # Free
      BY NameParts
    <2>3. /\ Has(r, q) => own[<<r, q>>] # 0 /\ client[own[<<r, q>>]] = <<r, q>>
          /\ ~Has(r, q) => own[<<r, q>>] = 0
      BY DEF PortInv, OwnInv
    <2>4. QED
      BY <1>0, <1>6, <2>2, <2>3
  <1>8. FreshInv'
    <2>1. ASSUME NEW m \in OurNames, fresh'[m] # 0
          PROVE  /\ m[1] = job /\ m[2] \in Ports[next]
                 /\ client'[fresh'[m]] = m /\ own[m] # fresh'[m]
      <3>1. CASE m = n
        <4>1. fresh'[m] = i
          BY <1>0, <1>4, <1>6, <3>1
        <4>2. own[m] # i
          <5>1. \A r \in Routes, q \in PortIds :
                  own[<<r, q>>] # 0 => client[own[<<r, q>>]] = <<r, q>>
            BY DEF PortInv, OwnInv
          <5>2. own[m] # 0 => client[own[m]] = m /\ m # Free
            BY <2>1, <5>1, NameParts
          <5>3. QED
            BY <1>5, <1>6, <5>2, IdParts
        <4>3. QED
          BY <1>4, <1>6, <3>1, <4>1, <4>2
      <3>2. CASE m # n
        <4>1. fresh'[m] = fresh[m] /\ m # Free
          BY <1>0, <1>6, <2>1, <3>2, NameParts
        <4>2. /\ m[1] = job /\ m[2] \in Ports[next]
              /\ client[fresh[m]] = m /\ own[m] # fresh[m]
          BY <2>1, <4>1 DEF PortInv, FreshInv
        <4>3. QED
          BY <1>0, <1>6, <2>1, <4>1, <4>2
      <3>3. QED
        BY <3>1, <3>2
    <2>2. QED
      BY <1>0, <2>1 DEF FreshInv
  <1>9. DyingInv'
    BY <1>0 DEF DyingInv
  <1>10. InputInv'
    <2>1. ASSUME NEW j \in Ids, client'[j] \in Routes \X Inputs
          PROVE  own[client'[j]] = j \/ fresh'[client'[j]] = j
      <3>1. CASE j = i
        BY <1>0, <1>4, <1>6, <3>1
      <3>2. CASE j # i
        <4>1. client'[j] = client[j] /\ client[j] \in OurNames
          BY <1>6, <2>1, <3>2, NameParts
        <4>2. own[client[j]] = j \/ fresh[client[j]] = j
          BY <1>0, <2>1, <4>1 DEF PortInv, InputInv
        <4>3. n # client[j] \/ fresh[n] = 0
          BY <1>1, <1>3 DEF Missing
        <4>4. QED
          BY <1>0, <1>6, <3>2, <4>1, <4>2, <4>3, IdParts
      <3>3. QED
        BY <3>1, <3>2
    <2>2. QED
      BY <1>0, <2>1 DEF InputInv
  <1>11. QED
    BY <1>7, <1>8, <1>9, <1>10 DEF PortInv

(* The port of a loaded route exists under its name.                       *)
LEMMA OwnClient ==
  ASSUME Shape, PortInv, NEW n \in OurNames, own[n] # 0
  PROVE  own[n] \in Ids /\ client[own[n]] = n /\ own[n] \notin dying
  <1>1. own[n] \in Ids /\ n[1] \in Routes /\ n[2] \in PortIds /\ n = <<n[1], n[2]>>
    BY NameParts DEF Shape, Tables
  <1>2. client[own[n]] = n
    BY <1>1 DEF PortInv, OwnInv
  <1>3. own[n] \notin dying
    BY <1>2 DEF PortInv, DyingInv
  <1>4. QED
    BY <1>1, <1>2, <1>3

(* A client of a route is the port the route has under that client's name. *)
LEMMA OwnIdsParts ==
  ASSUME Shape, PortInv, NEW r \in Routes, NEW i \in OwnIds(r)
  PROVE  /\ i \in Ids /\ client[i] \in OurNames /\ client[i][1] = r
         /\ own[client[i]] = i
  <1>1. PICK p \in PortIds : i = own[<<r, p>>] /\ i # 0
    BY DEF OwnIds
  <1>2. <<r, p>> \in OurNames /\ <<r, p>>[1] = r
    BY NameParts
  <1>3. i \in Ids /\ client[i] = <<r, p>>
    BY <1>1, <1>2, OwnClient
  <1>4. QED
    BY <1>1, <1>2, <1>3

(* A start that fails takes back the ports it made and no others           *)
(* (Route::start).                                                         *)
LEMMA FailPorts == ASSUME Shape, PortInv, StartFails PROVE PortInv'
  <1>0. /\ Sequencer /\ Vanish(FreshIds) /\ fresh' = Unloaded /\ dying = {}
        /\ own \in [OurNames -> Ids \cup {0}] /\ fresh \in [OurNames -> Ids \cup {0}]
        /\ UNCHANGED <<script, own, dying>>
    BY DEF Shape, Control, Tables, StartFails, NoJob, tableVars
  <1>1. \A i \in Ids : /\ i \in FreshIds => client'[i] = Free
                       /\ i \notin FreshIds => client'[i] = client[i]
    BY <1>0, VanishEffect
  <1>2. ASSUME NEW n \in OurNames, own[n] # 0 PROVE client'[own[n]] = n
    <2>1. own[n] \in Ids /\ client[own[n]] = n
      BY <1>2, OwnClient
    <2>2. ASSUME NEW m \in OurNames, fresh[m] = own[n] PROVE FALSE
      BY <1>0, <1>2, <2>1, <2>2 DEF PortInv, FreshInv
    <2>3. own[n] \notin FreshIds
      BY <2>2 DEF FreshIds
    <2>4. QED
      BY <1>1, <2>1, <2>3
  <1>3. OwnInv'
    <2>1. \A r \in Routes, p \in PortIds : (Has(r, p) <=> own[<<r, p>>] # 0) /\ <<r, p>> \in OurNames
      BY NameParts DEF PortInv, OwnInv
    <2>2. QED
      BY <1>0, <1>2, <2>1 DEF OwnInv, Has
  <1>4. FreshInv' /\ DyingInv'
    BY <1>0 DEF FreshInv, DyingInv, Unloaded
  <1>5. InputInv'
    <2>1. ASSUME NEW i \in Ids, client'[i] \in Routes \X Inputs PROVE own[client'[i]] = i
      <3>1. client'[i] # Free
        BY <2>1, NameParts
      <3>2. i \notin FreshIds /\ client'[i] = client[i] /\ client[i] \in OurNames
        BY <1>1, <2>1, <3>1, NameParts
      <3>3. fresh[client[i]] # i
        BY <3>2, IdParts DEF FreshIds
      <3>4. QED
        BY <1>0, <2>1, <3>2, <3>3 DEF PortInv, InputInv
    <2>2. QED
      BY <1>0, <2>1 DEF InputInv
  <1>6. QED
    BY <1>3, <1>4, <1>5 DEF PortInv

(* Dropping the old Route closes its inputs, and no port of a loaded route *)
(* (main.rs:231-233).                                                      *)
LEMMA ReplacePorts == ASSUME Shape, PortInv, Replace PROVE PortInv'
  <1>0. /\ Sequencer /\ Close(dying) /\ dying' = {} /\ fresh = Unloaded
        /\ UNCHANGED <<script, own, fresh>>
    BY DEF Shape, Control, Replace, tableVars
  <1>1. PICK J \in SUBSET dying : Vanish(J) /\ InputIds(dying) \subseteq J
    BY <1>0, CloseEffect
  <1>2. \A i \in Ids : /\ i \in J => client'[i] = Free
                       /\ i \notin J => client'[i] = client[i]
    BY <1>0, <1>1, VanishEffect
  <1>3. ASSUME NEW n \in OurNames, own[n] # 0 PROVE client'[own[n]] = n
    BY <1>1, <1>2, <1>3, OwnClient
  <1>4. OwnInv'
    <2>1. \A r \in Routes, p \in PortIds : (Has(r, p) <=> own[<<r, p>>] # 0) /\ <<r, p>> \in OurNames
      BY NameParts DEF PortInv, OwnInv
    <2>2. QED
      BY <1>0, <1>3, <2>1 DEF OwnInv, Has
  <1>5. FreshInv' /\ DyingInv'
    BY <1>0 DEF FreshInv, DyingInv, Unloaded
  <1>6. InputInv'
    <2>1. ASSUME NEW i \in Ids, client'[i] \in Routes \X Inputs PROVE own[client'[i]] = i
      <3>1. client'[i] # Free
        BY <2>1, NameParts
      <3>2. i \notin J /\ client'[i] = client[i] /\ client[i] \in OurNames
        BY <1>2, <2>1, <3>1, NameParts
      <3>3. client[i][2] \in Inputs
        BY <2>1, <3>2
      <3>4. i \notin dying
        BY <1>1, <3>2, <3>3 DEF InputIds
      <3>5. fresh[client[i]] # i
        BY <1>0, <3>2, IdParts DEF Unloaded
      <3>6. QED
        BY <2>1, <3>2, <3>4, <3>5 DEF PortInv, InputInv
    <2>2. QED
      BY <1>0, <2>1 DEF InputInv
  <1>7. QED
    BY <1>4, <1>5, <1>6 DEF PortInv

(* A removed route has no ports any more (main.rs:237-244).                *)
LEMMA RemovePorts == ASSUME Shape, PortInv, NEW r \in Routes, Remove(r) PROVE PortInv'
  <1>0. /\ Sequencer /\ Close(OwnIds(r)) /\ dying = {} /\ fresh = Unloaded
        /\ own \in [OurNames -> Ids \cup {0}] /\ script \in [Routes -> Scripts \cup {Free}]
        /\ script' = [script EXCEPT ![r] = Free]
        /\ own' = [n \in OurNames |-> IF n[1] = r THEN 0 ELSE own[n]]
        /\ UNCHANGED <<fresh, dying>>
    BY DEF Shape, Control, Starting, Tables, Remove, jobVars
  <1>1. PICK J \in SUBSET OwnIds(r) : Vanish(J) /\ InputIds(OwnIds(r)) \subseteq J
    BY <1>0, CloseEffect
  <1>2. \A i \in Ids : /\ i \in J => client'[i] = Free
                       /\ i \notin J => client'[i] = client[i]
    BY <1>0, <1>1, VanishEffect
  <1>3. \A i \in OwnIds(r) : i \in Ids /\ client[i] \in OurNames /\ client[i][1] = r
    BY OwnIdsParts
  <1>4. ASSUME NEW n \in OurNames, n[1] # r, own[n] # 0 PROVE client'[own[n]] = n
    BY <1>1, <1>2, <1>3, <1>4, OwnClient
  <1>5. OwnInv'
    <2>1. \A q \in Routes, p \in PortIds :
            /\ Has(q, p) <=> own[<<q, p>>] # 0
            /\ <<q, p>> \in OurNames /\ <<q, p>>[1] = q
      BY NameParts DEF PortInv, OwnInv
    <2>2. ASSUME NEW q \in Routes, NEW p \in PortIds
          PROVE  /\ (Has(q, p))' => own'[<<q, p>>] # 0 /\ client'[own'[<<q, p>>]] = <<q, p>>
                 /\ ~(Has(q, p))' => own'[<<q, p>>] = 0
      <3>1. CASE q = r
        BY <1>0, <2>1, <3>1 DEF Has
      <3>2. CASE q # r
        <4>1. own'[<<q, p>>] = own[<<q, p>>] /\ ((Has(q, p))' <=> Has(q, p))
          BY <1>0, <2>1, <3>2 DEF Has
        <4>2. QED
          BY <1>4, <2>1, <3>2, <4>1
      <3>3. QED
        BY <3>1, <3>2
    <2>3. QED
      BY <2>2 DEF OwnInv
  <1>6. FreshInv' /\ DyingInv'
    BY <1>0 DEF FreshInv, DyingInv, Unloaded
  <1>7. InputInv'
    <2>1. ASSUME NEW i \in Ids, client'[i] \in Routes \X Inputs PROVE own'[client'[i]] = i
      <3>1. client'[i] # Free
        BY <2>1, NameParts
      <3>2. i \notin J /\ client'[i] = client[i] /\ client[i] \in OurNames
        BY <1>2, <2>1, <3>1, NameParts
      <3>3. fresh[client[i]] # i
        BY <1>0, <3>2, IdParts DEF Unloaded
      <3>4. own[client[i]] = i /\ client[i][2] \in Inputs
        BY <1>0, <2>1, <3>2, <3>3 DEF PortInv, InputInv
      <3>5. client[i][1] # r
        <4>1. SUFFICES ASSUME client[i][1] = r PROVE FALSE
          OBVIOUS
        <4>2. client[i] = <<r, client[i][2]>> /\ client[i][2] \in PortIds
          BY <3>2, <4>1, NameParts
        <4>3. i \in OwnIds(r)
          BY <3>4, <4>2, IdParts DEF OwnIds
        <4>4. QED
          BY <1>1, <3>2, <3>4, <4>3 DEF InputIds
      <3>6. QED
        BY <1>0, <3>2, <3>4, <3>5
    <2>2. QED
      BY <2>1 DEF InputInv
  <1>8. QED
    BY <1>5, <1>6, <1>7 DEF PortInv

(* Registering a route hands it the ports made for it; those it had are    *)
(* then nobody's (main.rs:225-231).                                        *)
LEMMA RegisterPorts == ASSUME Shape, PortInv, register_route PROVE PortInv'
  <1>0. /\ job \in Routes /\ next \in Scripts /\ dying = {} /\ client' = client
        /\ fresh' = Unloaded /\ script' = [script EXCEPT ![job] = next]
        /\ own \in [OurNames -> Ids \cup {0}] /\ fresh \in [OurNames -> Ids \cup {0}]
        /\ script \in [Routes -> Scripts \cup {Free}] /\ next # Free
    BY ScriptsAssumption
    DEF Shape, Control, Starting, Tables, register_route, NoJob, alsaVars
  <1>1. FreshInv'
    BY <1>0 DEF FreshInv, Unloaded
  <1>2. \A q \in Routes, p \in PortIds :
          /\ Has(q, p) => own[<<q, p>>] # 0 /\ client[own[<<q, p>>]] = <<q, p>>
          /\ ~Has(q, p) => own[<<q, p>>] = 0
          /\ <<q, p>> \in OurNames /\ <<q, p>>[1] = q /\ <<q, p>>[2] = p
    BY NameParts DEF PortInv, OwnInv
  <1>3. \A q \in Routes, p \in PortIds :
          /\ q # job => ((Has(q, p))' <=> Has(q, p))
          /\ q = job => ((Has(q, p))' <=> p \in Ports[next])
    BY <1>0 DEF Has
  <1>4. CASE Kept(job, next)
    <2>1. /\ own' = own /\ dying' = {} /\ fresh = Unloaded
          /\ \A p : Has(job, p) <=> p \in Ports[next]
      BY <1>4 DEF register_route, Shape, Control, Starting, Kept, Has
    <2>2. OwnInv'
      <3>1. \A q \in Routes, p \in PortIds : (Has(q, p))' <=> Has(q, p)
        BY <1>3, <2>1
      <3>2. QED
        BY <1>0, <1>2, <2>1, <3>1 DEF OwnInv
    <2>3. InputInv'
      BY <1>0, <2>1 DEF PortInv, InputInv
    <2>4. QED
      BY <1>1, <2>1, <2>2, <2>3 DEF PortInv, DyingInv
  <1>5. CASE ~Kept(job, next)
    <2>1. /\ own' = [n \in OurNames |-> IF n[1] = job THEN fresh[n] ELSE own[n]]
          /\ dying' = OwnIds(job) /\ pc = "create" /\ Missing = {}
      BY <1>5 DEF register_route, Shape, Control, Starting
    <2>2. OwnInv'
      <3>1. ASSUME NEW q \in Routes, NEW p \in PortIds
            PROVE  /\ (Has(q, p))' => own'[<<q, p>>] # 0 /\ client[own'[<<q, p>>]] = <<q, p>>
                   /\ ~(Has(q, p))' => own'[<<q, p>>] = 0
        <4>1. CASE q = job
          <5>1. own'[<<q, p>>] = fresh[<<q, p>>]
            BY <1>2, <2>1, <4>1
          <5>2. fresh[<<q, p>>] # 0 => p \in Ports[next] /\ client[fresh[<<q, p>>]] = <<q, p>>
            BY <1>2 DEF PortInv, FreshInv
          <5>3. p \in Ports[next] => fresh[<<q, p>>] # 0
            BY <2>1, <4>1 DEF Missing
          <5>4. QED
            BY <1>3, <4>1, <5>1, <5>2, <5>3
        <4>2. CASE q # job
          BY <1>2, <1>3, <2>1, <4>2
        <4>3. QED
          BY <4>1, <4>2
      <3>2. QED
        BY <1>0, <3>1 DEF OwnInv
    <2>3. DyingInv'
      <3>1. ASSUME NEW i \in OwnIds(job) PROVE client[i] \in OurNames /\ own'[client[i]] # i
        <4>1. /\ i \in Ids /\ client[i] \in OurNames /\ client[i][1] = job
              /\ own[client[i]] = i
          BY <1>0, OwnIdsParts
        <4>2. own'[client[i]] = fresh[client[i]]
          BY <2>1, <4>1
        <4>3. i # 0
          BY <4>1, IdParts
        <4>4. QED
          BY <4>1, <4>2, <4>3 DEF PortInv, FreshInv
      <3>2. QED
        BY <1>0, <2>1, <3>1 DEF DyingInv
    <2>4. InputInv'
      <3>1. ASSUME NEW i \in Ids, client[i] \in Routes \X Inputs PROVE own'[client[i]] = i \/ i \in dying'
        <4>1. /\ client[i] \in OurNames /\ i # 0 /\ client[i] = <<client[i][1], client[i][2]>>
              /\ client[i][2] \in PortIds
          BY <3>1, NameParts, IdParts
        <4>2. CASE own[client[i]] = i /\ client[i][1] = job
          <5>1. own[<<job, client[i][2]>>] = i
            BY <4>1, <4>2
          <5>2. QED
            BY <2>1, <4>1, <5>1 DEF OwnIds
        <4>3. CASE own[client[i]] = i /\ client[i][1] # job
          BY <2>1, <4>1, <4>3
        <4>4. CASE fresh[client[i]] = i
          BY <2>1, <4>1, <4>4 DEF PortInv, FreshInv
        <4>5. QED
          BY <1>0, <3>1, <4>2, <4>3, <4>4 DEF PortInv, InputInv
      <3>2. QED
        BY <1>0, <3>1 DEF InputInv
    <2>5. QED
      BY <1>1, <2>2, <2>3, <2>4 DEF PortInv
  <1>6. QED
    BY <1>4, <1>5

(* Every step keeps PortInv: one case for each action that touches ports.  *)
LEMMA PortStep == ASSUME Shape, PortInv, [Next]_vars PROVE PortInv'
  <1>1. ASSUME UNCHANGED <<client, script, own, fresh, dying>>,
               job' = job \/ fresh = Unloaded, next' = next \/ fresh = Unloaded
        PROVE  PortInv'
    BY <1>1, PortsKept
  <1>2. pc # "create" => fresh = Unloaded
    BY DEF Shape, Control
  <1>3. ASSUME NEW r \in Routes, handle_route_changed(r) PROVE PortInv'
    BY <1>1, <1>2, <1>3 DEF handle_route_changed, alsaVars, tableVars
  <1>4. CASE StartOne
    BY <1>1, <1>2, <1>4 DEF StartOne, alsaVars, tableVars
  <1>5. CASE Reload \/ Applied \/ AllStarted \/ WatchRead
    BY <1>1, <1>5 DEF Reload, Applied, AllStarted, WatchRead, alsaVars, tableVars, jobVars
  <1>6. CASE Apply \/ connect_new_port
    BY <1>1, <1>6 DEF Apply, connect_new_port, jobVars
  <1>7. CASE UNCHANGED vars
    BY <1>1, <1>7 DEF vars, alsaVars, tableVars, jobVars
  <1>8. QED
    BY <1>3, <1>4, <1>5, <1>6, <1>7, PlugPorts, CreatePorts, FailPorts, RegisterPorts,
       ReplacePorts, RemovePorts
    DEF Next, MainStep

-----------------------------------------------------------------------------
(* Specs and subscriptions.                                                *)

(* A spec in the table is for a port its route has.                        *)
LEMMA SpecHasPort ==
  ASSUME Shape, PortInv, SpecInv, NEW x \in specs
  PROVE  /\ x.name \in OurNames /\ own[x.name] # 0
         /\ own[x.name] \in Ids /\ client[own[x.name]] = x.name
  <1>1. PICK r \in Loaded : x \in Wanted(r, script[r])
    BY DEF SpecInv
  <1>2. r \in Routes /\ script[r] \in Scripts /\ script[r] # Free
    BY <1>1 DEF Loaded, Shape, Tables
  <1>3. PICK p \in Ports[script[r]] : p \in PortIds /\ x.name = <<r, p>>
    BY <1>1, <1>2, WantedParts
  <1>4. <<r, p>> \in OurNames /\ own[<<r, p>>] # 0
    BY <1>2, <1>3, NameParts DEF PortInv, OwnInv, Has
  <1>5. QED
    BY <1>3, <1>4, OwnClient

(* Every step keeps SpecInv: a spec is one that a loaded script wants.     *)
LEMMA SpecStep == ASSUME Shape, SpecInv, [Next]_vars PROVE SpecInv'
  <1>0. Control /\ Tables /\ \A r \in Routes : r \in PrefixOf[r]
    BY RoutesAssumption DEF Shape
  <1>1. CASE register_route
    <2>1. /\ job \in Routes /\ next \in Scripts /\ next # Free
          /\ specs' = Retained(job) \cup Wanted(job, next)
          /\ script' = [script EXCEPT ![job] = next]
          /\ script \in [Routes -> Scripts \cup {Free}]
      BY <1>0, <1>1, ScriptsAssumption DEF register_route, Control, Starting, Tables
    <2>2. job \in Loaded' /\ script'[job] = next
      BY <2>1 DEF Loaded
    <2>3. ASSUME NEW x \in Retained(job) PROVE \E r \in Loaded' : x \in Wanted(r, script'[r])
      <3>1. PICK r \in Loaded : x \in Wanted(r, script[r])
        BY <2>3 DEF SpecInv, Retained
      <3>2. r \in Routes /\ script[r] \in Scripts /\ script[r] # Free
        BY <2>1, <3>1 DEF Loaded
      <3>3. x.name[1] = r /\ r # job
        BY <1>0, <2>1, <2>3, <3>1, <3>2, WantedParts DEF Retained
      <3>4. script'[r] = script[r] /\ r \in Loaded'
        BY <2>1, <3>2, <3>3 DEF Loaded
      <3>5. QED
        BY <3>1, <3>4
    <2>4. QED
      BY <2>1, <2>2, <2>3 DEF SpecInv
  <1>2. ASSUME NEW q \in Routes, Remove(q) PROVE SpecInv'
    <2>1. /\ specs' = Retained(q) /\ script' = [script EXCEPT ![q] = Free]
          /\ script \in [Routes -> Scripts \cup {Free}]
      BY <1>0, <1>2 DEF Remove, Tables
    <2>2. ASSUME NEW x \in Retained(q) PROVE \E r \in Loaded' : x \in Wanted(r, script'[r])
      <3>1. PICK r \in Loaded : x \in Wanted(r, script[r])
        BY <2>2 DEF SpecInv, Retained
      <3>2. r \in Routes /\ script[r] \in Scripts /\ script[r] # Free
        BY <2>1, <3>1 DEF Loaded
      <3>3. x.name[1] = r /\ r # q
        BY <1>0, <2>2, <3>1, <3>2, WantedParts DEF Retained
      <3>4. script'[r] = script[r] /\ r \in Loaded'
        BY <2>1, <3>2, <3>3 DEF Loaded
      <3>5. QED
        BY <3>1, <3>4
    <2>3. QED
      BY <2>1, <2>2 DEF SpecInv
  <1>3. CASE UNCHANGED <<specs, script>>
    BY <1>3 DEF SpecInv, Loaded
  <1>4. QED
    BY <1>1, <1>2, <1>3
    DEF Next, MainStep, Plug, Unplug, Reload, handle_route_changed, StartOne, CreatePort, StartFails,
        Apply, Applied, Replace, AllStarted, WatchRead, connect_new_port, tableVars, vars

(* Without prefixes the table has every spec of every loaded route.        *)
LEMMA WholeStep == ASSUME Distinct, Shape, WholeInv, [Next]_vars PROVE WholeInv'
  <1>0. Control /\ Tables
    BY DEF Shape
  <1>a. ASSUME NEW q \in Routes, NEW r \in Loaded, r # q PROVE Wanted(r, script[r]) \subseteq Retained(q)
    <2>1. r \in Routes /\ script[r] \in Scripts
      BY <1>0 DEF Loaded, Tables
    <2>2. \A x \in Wanted(r, script[r]) : x \in specs /\ x.name[1] = r
      BY <2>1, WantedParts DEF WholeInv
    <2>3. QED
      BY <1>a, <2>2 DEF Distinct, Retained
  <1>1. CASE register_route
    <2>1. /\ job \in Routes /\ specs' = Retained(job) \cup Wanted(job, next)
          /\ script' = [script EXCEPT ![job] = next]
          /\ script \in [Routes -> Scripts \cup {Free}]
      BY <1>0, <1>1 DEF register_route, Control, Starting, Tables
    <2>2. ASSUME NEW r \in Loaded' PROVE Wanted(r, script'[r]) \subseteq specs'
      <3>1. CASE r = job
        BY <2>1, <3>1
      <3>2. CASE r # job
        <4>1. r \in Loaded /\ script'[r] = script[r]
          BY <2>1, <2>2, <3>2 DEF Loaded
        <4>2. QED
          BY <1>a, <2>1, <3>2, <4>1
      <3>3. QED
        BY <3>1, <3>2
    <2>3. QED
      BY <2>2 DEF WholeInv
  <1>2. ASSUME NEW q \in Routes, Remove(q) PROVE WholeInv'
    <2>1. /\ specs' = Retained(q) /\ script' = [script EXCEPT ![q] = Free]
          /\ script \in [Routes -> Scripts \cup {Free}]
      BY <1>0, <1>2 DEF Remove, Tables
    <2>2. ASSUME NEW r \in Loaded' PROVE Wanted(r, script'[r]) \subseteq specs'
      <3>1. r # q /\ r \in Loaded /\ script'[r] = script[r]
        BY <2>1, <2>2 DEF Loaded
      <3>2. QED
        BY <1>a, <2>1, <3>1
    <2>3. QED
      BY <2>2 DEF WholeInv
  <1>3. CASE UNCHANGED <<specs, script>>
    BY <1>3 DEF WholeInv, Loaded
  <1>4. QED
    BY <1>1, <1>2, <1>3
    DEF Next, MainStep, Plug, Unplug, Reload, handle_route_changed, StartOne, CreatePort, StartFails,
        Apply, Applied, Replace, AllStarted, WatchRead, connect_new_port, tableVars, vars

(* A step that takes no link from a client that stays, and announces the   *)
(* clients that come.                                                      *)
LEMMA WireKept ==
  ASSUME Shape, WireInv,
         specs' \ misled' \subseteq specs \ misled,
         \A x \in specs' \ misled' : own'[x.name] = own[x.name] /\ (Unscanned(x) => (Unscanned(x))'),
         \A i \in Ids : /\ client'[i] = client[i] \/ client'[i] = Free \/ (Announced(i))'
                        /\ Announced(i) => (Announced(i))',
         \A x \in specs' \ misled', i \in Ids :
           client'[i] = client[i] /\ client[i] # Free /\ Link(x, own[x.name], i) \in subs
             => Link(x, own[x.name], i) \in subs'
  PROVE  WireInv'
  <1>1. SUFFICES ASSUME NEW x \in specs' \ misled', NEW i \in Ids, (Matches(x, i))',
                        ~(Announced(i))', ~(Unscanned(x))'
                 PROVE  Link(x, own'[x.name], i) \in subs'
    BY DEF WireInv
  <1>2. x \in specs \ misled /\ own'[x.name] = own[x.name] /\ ~Unscanned(x) /\ ~Announced(i)
    BY <1>1
  <1>3. client'[i] \in Names /\ client'[i] # Free
    BY <1>1, <1>2, RoutesAssumption DEF Matches, Shape, Tables, PortSpecs
  <1>4. client'[i] = client[i]
    BY <1>1, <1>3
  <1>5. Matches(x, i)
    BY <1>1, <1>4 DEF Matches
  <1>6. Link(x, own[x.name], i) \in subs
    BY <1>2, <1>5 DEF WireInv
  <1>7. Link(x, own[x.name], i) \in subs'
    BY <1>3, <1>4, <1>6
  <1>8. QED
    BY <1>2, <1>7

(* Clients that vanish, none of them the port of a spec that stays.        *)
LEMMA WireVanish ==
  ASSUME Shape, PortInv, SpecInv, WireInv, NEW I, Vanish(I),
         specs' \ misled' \subseteq specs \ misled,
         \A x \in specs' \ misled' : own'[x.name] = own[x.name] /\ (Unscanned(x) => (Unscanned(x))'),
         \A x \in specs' \ misled' : own[x.name] \notin I,
         UNCHANGED <<announced, watching>>
  PROVE  WireInv'
  <1>1. /\ \A i \in Ids : /\ i \in I => client'[i] = Free
                          /\ i \notin I => client'[i] = client[i]
        /\ \A i, j : <<i, j>> \in subs /\ i \notin I /\ j \notin I => <<i, j>> \in subs'
    BY VanishEffect DEF Shape
  <1>2. \A i \in Ids : Announced(i) => (Announced(i))'
    BY DEF Announced
  <1>3. ASSUME NEW x \in specs' \ misled', NEW i \in Ids, client'[i] = client[i], client[i] # Free,
               Link(x, own[x.name], i) \in subs
        PROVE  Link(x, own[x.name], i) \in subs'
    <2>1. i \notin I /\ own[x.name] \notin I
      BY <1>1, <1>3
    <2>2. QED
      BY <1>1, <1>3, <2>1 DEF Link
  <1>4. QED
    BY <1>1, <1>2, <1>3, WireKept

(* A client that appears.                                                  *)
LEMMA WireAppear ==
  ASSUME Shape, WireInv, NEW i, NEW n, Appeared(i, n),
         UNCHANGED <<specs, misled, own, subs, pc, mode, scan>>
  PROVE  WireInv'
  <1>1. \A j \in Ids : /\ client'[j] = client[j] \/ (Announced(j))'
                       /\ Announced(j) => (Announced(j))'
    BY DEF Appeared, Shape, Sequencer
  <1>2. QED
    BY <1>1, WireKept DEF Unscanned

(* The port a lookup finds is the route's or the spec is misled.           *)
LEMMA LooksUp ==
  ASSUME Shape, PortInv, SpecInv, NEW x \in specs, find_our_port(x.name) = own[x.name],
         NEW I \in SUBSET Ids, NEW i \in I, Matches(x, i)
  PROVE  Link(x, own[x.name], i) \in Links(x, I)
  BY SpecHasPort DEF Links

(* The scan of apply_all connects what the spec it looks at matches        *)
(* (apply_all).                                                            *)
LEMMA WireApply == ASSUME Shape, PortInv, SpecInv, WireInv, Apply PROVE WireInv'
  <1>1. /\ pc = "apply" /\ specs' = specs /\ own' = own /\ scan \subseteq specs
        /\ UNCHANGED <<client, announced, watching, pc, mode>>
    BY DEF Apply, Shape, Tables, jobVars
  <1>2. PICK x \in scan : /\ scan' = scan \ {x}
                          /\ subs' = subs \cup Links(x, Ids)
                          /\ misled' = (misled \ {x}) \cup Misled({x})
    BY DEF Apply
  <1>3. SUFFICES ASSUME NEW y \in specs \ misled', NEW i \in Ids, Matches(y, i),
                        ~Announced(i), ~(Unscanned(y))'
                 PROVE  Link(y, own[y.name], i) \in subs'
    BY <1>1 DEF WireInv, Matches, Announced
  <1>4. CASE y = x
    <2>1. find_our_port(x.name) = own[x.name]
      BY <1>2, <1>3, <1>4 DEF Misled
    <2>2. QED
      BY <1>1, <1>2, <1>3, <1>4, <2>1, LooksUp
  <1>5. CASE y # x
    BY <1>1, <1>2, <1>3, <1>5 DEF WireInv, Unscanned
  <1>6. QED
    BY <1>4, <1>5

(* What the watcher connects for a new port is what its specs match        *)
(* (connect_new_port).                                                     *)
LEMMA WireConnect == ASSUME Shape, PortInv, SpecInv, WireInv, connect_new_port PROVE WireInv'
  <1>1. /\ specs' = specs /\ own' = own /\ watching \in Ids
        /\ UNCHANGED <<client, announced, pc, mode, scan>>
    BY DEF connect_new_port, Shape, Sequencer, jobVars
  <1>2. PICK X : /\ X = {x \in specs : Matches(x, watching)}
                 /\ subs' = subs \cup UNION {Links(x, {watching}) : x \in X}
                 /\ misled' = misled \cup Misled(X)
    BY DEF connect_new_port
  <1>3. SUFFICES ASSUME NEW y \in specs \ misled', NEW i \in Ids, Matches(y, i),
                        ~(Announced(i))', ~(Unscanned(y))'
                 PROVE  Link(y, own[y.name], i) \in subs'
    BY <1>1 DEF WireInv, Matches
  <1>4. CASE watching = i
    <2>1. y \in X /\ find_our_port(y.name) = own[y.name]
      BY <1>2, <1>3, <1>4 DEF Misled
    <2>2. Link(y, own[y.name], i) \in Links(y, {watching})
      BY <1>1, <1>3, <1>4, <2>1, LooksUp
    <2>3. QED
      BY <1>2, <2>1, <2>2
  <1>5. CASE watching # i
    <2>1. ~Announced(i) /\ ~Unscanned(y)
      BY <1>1, <1>3, <1>5 DEF Announced, Unscanned
    <2>2. QED
      BY <1>2, <1>3, <2>1 DEF WireInv
  <1>6. QED
    BY <1>4, <1>5

(* Every step keeps WireInv: what matches is connected, is still to be     *)
(* scanned, or is announced.                                               *)
LEMMA WireStep == ASSUME Shape, PortInv, SpecInv, WireInv, [Next]_vars PROVE WireInv'
  <1>0. Sequencer /\ Tables /\ Control
    BY DEF Shape
  <1>1. CASE Plug
    <2>1. PICK d \in Devices, i \in Ids : Appeared(i, d)
      BY <1>0, <1>1, AppearEffect DEF Plug
    <2>2. QED
      BY <1>1, <2>1, WireAppear DEF Plug, tableVars, jobVars
  <1>2. CASE Unplug
    <2>1. PICK i \in Ids : client[i] \in Devices /\ Vanish({i})
      BY <1>2 DEF Unplug
    <2>2. \A x \in specs : own[x.name] \notin {i}
      BY <2>1, SpecHasPort, NameParts
    <2>3. QED
      BY <1>2, <2>1, <2>2, WireVanish DEF Unplug, tableVars, jobVars, Unscanned
  <1>3. CASE CreatePort
    <2>1. PICK p \in Missing : Appear(<<job, p>>)
      BY <1>3 DEF CreatePort
    <2>2. PICK n : n = <<job, p>>
      OBVIOUS
    <2>3. PICK i \in Ids : Appeared(i, n)
      BY <1>0, <1>3, <2>1, <2>2, AppearEffect DEF CreatePort
    <2>4. QED
      BY <1>3, <2>3, WireAppear DEF CreatePort, tableVars
  <1>4. CASE StartFails
    <2>1. ASSUME NEW x \in specs, NEW m \in OurNames, fresh[m] = own[x.name] PROVE FALSE
      BY <2>1, SpecHasPort DEF PortInv, FreshInv
    <2>2. \A x \in specs : own[x.name] \notin FreshIds
      BY <2>1 DEF FreshIds
    <2>3. \A x : Unscanned(x) => (Unscanned(x))'
      BY <1>0, <1>4 DEF StartFails, AfterJob, Control, Unscanned
    <2>4. QED
      BY <1>4, <2>2, <2>3, WireVanish DEF StartFails, tableVars
  <1>5. CASE register_route
    BY <1>0, <1>5 DEF register_route, Control, Unscanned, WireInv
  <1>6. CASE Replace
    <2>1. PICK J \in SUBSET dying : Vanish(J)
      BY <1>6, CloseEffect DEF Replace
    <2>2. \A x \in specs : own[x.name] \notin J
      BY <2>1, SpecHasPort, OwnClient
    <2>3. \A x : Unscanned(x) => (Unscanned(x))'
      BY <1>0, <1>6 DEF Replace, AfterJob, Control, Unscanned
    <2>4. QED
      BY <1>6, <2>1, <2>2, <2>3, WireVanish DEF Replace, tableVars
  <1>7. ASSUME NEW q \in Routes, Remove(q) PROVE WireInv'
    <2>1. PICK J \in SUBSET OwnIds(q) : Vanish(J)
      BY <1>7, CloseEffect DEF Remove
    <2>2. /\ specs' = Retained(q) /\ misled' = misled \cap specs'
          /\ own' = [n \in OurNames |-> IF n[1] = q THEN 0 ELSE own[n]]
          /\ UNCHANGED <<announced, watching, pc, mode, scan>>
      BY <1>7 DEF Remove, jobVars
    <2>3. ASSUME NEW x \in specs' PROVE x \in specs /\ x.name \in OurNames /\ x.name[1] # q
      BY <2>2, <2>3, SpecHasPort, RoutesAssumption DEF Retained
    <2>4. \A x \in specs' : own'[x.name] = own[x.name] /\ own[x.name] \notin J
      BY <2>1, <2>2, <2>3, SpecHasPort, OwnIdsParts
    <2>5. QED
      BY <2>1, <2>2, <2>3, <2>4, WireVanish DEF Unscanned
  <1>8. CASE AllStarted
    BY <1>8 DEF AllStarted, tableVars, Unscanned, WireInv
  <1>9. CASE WatchRead
    <2>1. /\ \A i \in Ids : Announced(i) => (Announced(i))'
          /\ UNCHANGED <<client, subs, specs, misled, own, pc, mode, scan>>
      BY <1>0, <1>9, ReadEffect, IdParts DEF WatchRead, tableVars, jobVars
    <2>2. QED
      BY <2>1, WireKept DEF Unscanned
  <1>10. CASE StartOne \/ Reload \/ Applied \/ \E r \in Routes : handle_route_changed(r)
    <2>1. UNCHANGED <<client, announced, watching, subs, specs, misled, own>>
      BY <1>10 DEF StartOne, Reload, Applied, handle_route_changed, alsaVars, tableVars
    <2>2. \A x : Unscanned(x) => (Unscanned(x))'
      BY <1>0, <1>10 DEF StartOne, Begin, Reload, Applied, handle_route_changed, jobVars, Control, Unscanned
    <2>3. QED
      BY <2>1, <2>2, WireKept DEF Announced
  <1>11. CASE UNCHANGED vars
    <2>1. UNCHANGED <<client, announced, watching, subs, specs, misled, own, pc, mode, scan>>
      BY <1>11 DEF vars, alsaVars, tableVars, jobVars
    <2>2. QED
      BY <2>1, WireKept DEF Announced, Unscanned
  <1>12. QED
    BY <1>1, <1>2, <1>3, <1>4, <1>5, <1>6, <1>7, <1>8, <1>9, <1>10, <1>11, WireApply, WireConnect
    DEF Next, MainStep

-----------------------------------------------------------------------------
(* The inductive invariant holds initially.                                *)
LEMMA IInvInit == Init => IInv
  <1>1. Init => SpecInv /\ WireInv
    BY DEF Init, SpecInv, WireInv
  <1>2. QED
    BY <1>1, ShapeInit, PortInit DEF IInv

(* The inductive invariant holds throughout: what the handlers of          *)
(* main.rs:171-245 and the watcher (alsa_connect.rs:201-263) have done so  *)
(* far, at each place of their code.                                       *)
THEOREM Invariant == Spec => []IInv
  <1>1. IInv /\ [Next]_vars => IInv'
    BY ShapeStep, PortStep, SpecStep, WireStep DEF IInv
  <1>2. QED
    BY IInvInit, <1>1, PTL DEF Spec

(* Every state is well typed; when the main thread waits for events, no    *)
(* handler has left anything half done (handle_route_changed, apply_all).  *)
THEOREM TypeCorrect == Spec => []TypeOK
  <1>1. ASSUME IInv PROVE TypeOK
    <2>1. Sequencer /\ Tables /\ Control
      BY <1>1 DEF IInv, Shape
    <2>2. \A x \in specs : x.name \in OurNames /\ x.pattern \subseteq Names
      BY <2>1 DEF Tables, PortSpecs
    <2>3. pc = "idle" => todo = {} /\ job = Free /\ dying = {} /\ scan = {}
      BY <2>1 DEF Control, Starting
    <2>4. QED
      BY <2>1, <2>2, <2>3 DEF Sequencer, Tables, Control, TypeOK
  <1>2. QED
    BY <1>1, Invariant, PTL

(* Each port of a loaded route is a client of its name, also after starts  *)
(* that failed half way, and no input is left of a route that was removed  *)
(* or replaced (RoutePorts::create, Route::start).                         *)
THEOREM PortsBelong == Spec => []PortsOfLoaded
  <1>1. ASSUME IInv PROVE PortsOfLoaded
    <2>1. \A r \in Loaded, p \in PortIds :
            IF p \in Ports[script[r]]
            THEN own[<<r, p>>] # 0 /\ client[own[<<r, p>>]] = <<r, p>>
            ELSE own[<<r, p>>] = 0
      BY <1>1 DEF IInv, PortInv, OwnInv, Has, Loaded
    <2>2. ASSUME pc = "idle", NEW i \in Ids, client[i] \in Routes \X Inputs PROVE own[client[i]] = i
      <3>1. fresh = Unloaded /\ dying = {}
        BY <1>1, <2>2 DEF IInv, Shape, Control
      <3>2. client[i] \in OurNames /\ i # 0
        BY <2>2, NameParts, IdParts
      <3>3. QED
        BY <1>1, <2>2, <3>1, <3>2 DEF IInv, PortInv, InputInv, Unloaded
    <2>3. QED
      BY <2>1, <2>2 DEF PortsOfLoaded
  <1>2. QED
    BY <1>1, Invariant, PTL

(* Between two handlers the manager has the specs of the loaded routes and *)
(* the sequencer their ports, and none else, where no route's name is the  *)
(* start of another's (register_route, unregister_route).                  *)
THEOREM NothingElseIsLeft == ASSUME Distinct PROVE Spec => []LoadedOnly
  <1>1. Init => WholeInv
    BY DEF Init, WholeInv, Loaded
  <1>2. IInv /\ WholeInv /\ [Next]_vars => WholeInv'
    BY WholeStep DEF IInv
  <1>3. SpecInv /\ WholeInv => SpecsOfLoaded
    BY DEF SpecInv, WholeInv, SpecsOfLoaded
  <1>4. IInv => SpecInv
    BY DEF IInv
  <1>5. SpecsOfLoaded /\ PortsOfLoaded => LoadedOnly
    BY DEF LoadedOnly
  <1>6. QED
    BY Invariant, PortsBelong, <1>1, <1>2, <1>3, <1>4, <1>5, PTL DEF Spec

(* When nobody has anything to do, every client that a port should be      *)
(* connected to is, in whatever order main and the watcher came to it,     *)
(* unless the last lookup found another's port (apply_all,                 *)
(* connect_new_port, find_our_port).                                       *)
THEOREM ConnectionsAreMade == Spec => []Wired
  <1>1. ASSUME IInv, Quiet, NEW x \in specs \ misled, NEW i \in Ids, Matches(x, i)
        PROVE  Link(x, own[x.name], i) \in subs
    <2>1. ~Announced(i)
      BY <1>1, IdParts DEF Quiet, Announced
    <2>2. ~Unscanned(x)
      BY <1>1 DEF IInv, Shape, Control, Quiet, Unscanned
    <2>3. QED
      BY <1>1, <2>1, <2>2 DEF IInv, WireInv
  <1>2. IInv => Wired
    BY <1>1 DEF Wired, Connected
  <1>3. QED
    BY <1>2, Invariant, PTL
=============================================================================
