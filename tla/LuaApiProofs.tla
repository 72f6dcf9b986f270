---------------------------- MODULE LuaApiProofs ----------------------------
(***************************************************************************)
(* Proofs about LuaApi and the functions it is built from: Declarations,   *)
(* MidiCodec and OscMessages.                                              *)
(*                                                                         *)
(* Most of a property of LuaApi is a fact about one of these functions, so *)
(* the lemmas come first, function by function; the inductive invariant    *)
(* only says which results the state holds.  Where a function looks for    *)
(* the first or the last of its kind, the argument is the least number of  *)
(* a set (Least) instead of an induction along the list.                   *)
(***************************************************************************)
EXTENDS LuaApi, FiniteSetTheorems, WellFoundedInduction, TLAPS

-----------------------------------------------------------------------------
(* Lists.                                                                  *)

(* The least-number principle is taken from the library's theorem that <   *)
(* on Nat is well founded.                                                 *)
LEMMA NatLess == IsWellFoundedOn({ss \in Nat \X Nat : ss[1] < ss[2]}, Nat)
  BY NatLessThanWellFounded DEF OpToRel

(* Every nonempty set of numbers has a least one.                          *)
LEMMA Least == ASSUME NEW S \in SUBSET Nat, S # {} PROVE \E n \in S : \A m \in S : n <= m
  <1> DEFINE Less == {ss \in Nat \X Nat : ss[1] < ss[2]}
  <1>1. \A m, n \in Nat : m < n => <<m, n>> \in Less
    OBVIOUS
  <1>2. IsWellFoundedOn(Less, Nat)
    BY NatLess
  <1> HIDE DEF Less
  <1>3. PICK n \in S : \A m \in S : <<m, n>> \notin Less
    BY <1>2, WFMin
  <1>4. ASSUME NEW m \in S PROVE n <= m
    <2>1. m \in Nat /\ n \in Nat /\ ~(m < n)
      BY <1>1, <1>3
    <2>2. QED
      BY <2>1
  <1>5. QED
    BY <1>4

(* A list from Lua, cut at the first entry that is no string, holds        *)
(* strings only (lua_val_to_patterns).                                     *)
LEMMA LuaListType ==
  ASSUME NEW v, IsList(v)
  PROVE  LuaList(v) \in Seq(Range(v)) /\ NotAString \notin Range(LuaList(v))
  <1> DEFINE Ends(n) == /\ \A i \in 1 .. n : v[i] # NotAString
                        /\ n < Len(v) => v[n + 1] = NotAString
             S == {n \in 0 .. Len(v) : n < Len(v) => v[n + 1] = NotAString}
  <1>1. v \in Seq(Range(v)) /\ Len(v) \in Nat /\ DOMAIN v = 1 .. Len(v)
    BY DEF IsList
  <1>2. Len(v) \in S /\ S \subseteq Nat
    BY <1>1
  <1>3. PICK n \in S : \A m \in S : n <= m
    BY <1>2, Least
  <1>4. Ends(n)
    <2>1. ASSUME NEW i \in 1 .. n, v[i] = NotAString PROVE FALSE
      <3>1. i - 1 \in S /\ i - 1 < n
        BY <1>1, <2>1
      <3>2. n <= i - 1 /\ n \in Nat
        <4> HIDE DEF S
        <4>1. QED
          BY <1>2, <1>3, <3>1
      <3>3. QED
        BY <2>1, <3>1, <3>2
    <2>2. QED
      BY <2>1
  <1> DEFINE m == CHOOSE k \in 0 .. Len(v) : Ends(k)
  <1>5. m \in 0 .. Len(v) /\ Ends(m)
    BY <1>4
  <1>6. LuaList(v) = SubSeq(v, 1, m)
    BY DEF LuaList
  <1> HIDE DEF m
  <1>7. /\ SubSeq(v, 1, m) \in Seq(Range(v))
        /\ Len(SubSeq(v, 1, m)) = m
        /\ \A i \in 1 .. m : SubSeq(v, 1, m)[i] = v[i]
    BY <1>1, <1>5
  <1>8. QED
    BY <1>5, <1>6, <1>7 DEF Range

(* A list from TOML, without the entries that are no strings, holds        *)
(* strings only.                                                           *)
LEMMA TomlListType ==
  ASSUME NEW v, IsList(v)
  PROVE  TomlList(v) \in Seq(Range(v)) /\ NotAString \notin Range(TomlList(v))
  <1> DEFINE T == Range(v) \ {NotAString}
             Step(f, n) == IF n = 0 THEN <<>>
                           ELSE IF v[n] = NotAString THEN f[n - 1] ELSE Append(f[n - 1], v[n])
             Good(f, k) == f = [n \in 0 .. k |-> Step(f, n)] /\ \A n \in 0 .. k : f[n] \in Seq(T)
             S == {k \in 0 .. Len(v) : ~\E f : Good(f, k)}
  <1>1. v \in Seq(Range(v)) /\ Len(v) \in Nat /\ \A n \in 1 .. Len(v) : v[n] \in Range(v)
    BY DEF IsList, Range
  <1>2. S = {}
    <2>1. SUFFICES ASSUME S # {} PROVE FALSE
      OBVIOUS
    <2>2. PICK k \in S : \A m \in S : k <= m
      <3>1. S \in SUBSET Nat
        BY <1>1
      <3> HIDE DEF S
      <3>2. QED
        BY <2>1, <3>1, Least
    <2>3. CASE k = 0
      <3>1. Good([n \in 0 .. 0 |-> <<>>], 0)
        OBVIOUS
      <3>2. QED
        BY <2>2, <2>3, <3>1
    <2>4. CASE k # 0
      <3>1. k \in 1 .. Len(v) /\ k - 1 \in 0 .. Len(v) /\ k - 1 \notin S
        <4>1. k \in 0 .. Len(v)
          BY <2>2
        <4>2. k - 1 \notin S
          <5>1. S \subseteq Nat
            BY <1>1
          <5> HIDE DEF S
          <5>2. QED
            BY <2>2, <5>1
        <4>3. QED
          BY <1>1, <2>4, <4>1, <4>2
      <3>2. PICK f : Good(f, k - 1)
        BY <3>1
      <3> DEFINE g == [n \in 0 .. k |-> IF n = k THEN Step(f, k) ELSE f[n]]
      <3>3. ASSUME NEW n \in 0 .. k PROVE g[n] = Step(g, n) /\ g[n] \in Seq(T)
        <4>1. CASE n = 0
          BY <2>4, <3>1, <3>2, <4>1, SMTT(30)
        <4>2. CASE n \in 1 .. k - 1
          <5>1. g[n] = f[n] /\ g[n - 1] = f[n - 1] /\ n \in 0 .. k - 1
            BY <3>1, <4>2
          <5>2. QED
            BY <3>2, <4>2, <5>1
        <4>3. CASE n = k
          <5>1. g[n] = Step(f, k) /\ g[n - 1] = f[n - 1] /\ f[k - 1] \in Seq(T)
            BY <3>1, <3>2, <4>3
          <5>2. v[k] \in Range(v)
            BY <1>1, <3>1
          <5>3. QED
            BY <2>4, <4>3, <5>1, <5>2
        <4>4. QED
          BY <3>1, <4>1, <4>2, <4>3
      <3>4. Good(g, k)
        BY <3>3, Zenon
      <3>5. QED
        BY <2>2, <3>4
    <2>5. QED
      BY <2>3, <2>4
  <1> DEFINE kept == CHOOSE f : f = [n \in 0 .. Len(v) |-> Step(f, n)]
  <1>3. TomlList(v) = kept[Len(v)]
    BY DEF TomlList
  <1>4. kept = [n \in 0 .. Len(v) |-> Step(kept, n)]
    <2>1. \E f : f = [n \in 0 .. Len(v) |-> Step(f, n)]
      BY <1>1, <1>2
    <2>2. QED
      BY <2>1, Zenon
  <1> HIDE DEF kept
  <1>5. \A n \in 0 .. Len(v) : kept[n] \in Seq(T)
    <2> DEFINE U == {n \in 0 .. Len(v) : kept[n] \notin Seq(T)}
    <2>1. SUFFICES ASSUME U # {} PROVE FALSE
      OBVIOUS
    <2>2. PICK n \in U : \A m \in U : n <= m
      <3>1. U \in SUBSET Nat
        BY <1>1
      <3> HIDE DEF U
      <3>2. QED
        BY <2>1, <3>1, Least
    <2>3. n # 0 => n - 1 \in 0 .. Len(v) /\ kept[n - 1] \in Seq(T)
      <3>1. n \in 0 .. Len(v) /\ n - 1 \notin U
        BY <1>1, <2>2
      <3>2. QED
        BY <1>1, <3>1
    <2>4. kept[n] = Step(kept, n)
      BY <1>4, <2>2
    <2>5. n # 0 => v[n] \in Range(v)
      BY <1>1, <2>2
    <2>6. kept[n] \in Seq(T)
      <3>1. CASE n = 0
        BY <2>4, <3>1
      <3>2. CASE n # 0
        BY <2>3, <2>4, <2>5, <3>2
      <3>3. QED
        BY <3>1, <3>2
    <2>7. QED
      BY <2>2, <2>6
  <1>6. TomlList(v) \in Seq(T)
    BY <1>1, <1>3, <1>5
  <1>7. QED
    <2>1. \A i \in DOMAIN TomlList(v) : TomlList(v)[i] \in T
      BY <1>6
    <2>2. Seq(T) \subseteq Seq(Range(v))
      OBVIOUS
    <2>3. QED
      BY <1>6, <2>1, <2>2 DEF Range

(* An empty list stays empty.                                              *)
LEMMA NoList == IsList(<<>>) /\ LuaList(<<>>) = <<>> /\ TomlList(<<>>) = <<>>
  <1>1. IsList(<<>>) /\ Range(<<>>) = {}
    BY DEF IsList, Range
  <1>2. LuaList(<<>>) \in Seq({}) /\ TomlList(<<>>) \in Seq({})
    BY <1>1, LuaListType, TomlListType
  <1>3. \A s \in Seq({}) : s = <<>>
    OBVIOUS
  <1>4. QED
    BY <1>1, <1>2, <1>3

-----------------------------------------------------------------------------
(* Declarations.                                                           *)

TheDecl == extract_all_decls(given.script, given.section, Hosts)

TheConnect == apply_connect_defaults(TheDecl.connect, TheDecl.ports, given.global.connect)

(* What a script or a section says of a port, as the list it is.           *)
LEMMA Said ==
  ASSUME given \in Givens, NEW d \in Directions, NEW p
  PROVE  /\ IsList(At(given.script.connect[d], p)) /\ IsList(At(given.section.connect[d], p))
         /\ IsList(Lua(d, p)) /\ NotAString \notin Range(Lua(d, p))
         /\ IsList(Toml(d, p)) /\ NotAString \notin Range(Toml(d, p))
         /\ p \notin DOMAIN given.script.connect[d] => Lua(d, p) = <<>>
         /\ p \notin DOMAIN given.section.connect[d] => Toml(d, p) = <<>>
  <1>1. IsList(At(given.script.connect[d], p)) /\ IsList(At(given.section.connect[d], p))
    BY GivensAreDeclarations, NoList DEF At
  <1>2. \A s, S : s \in Seq(S) => s \in Seq(Range(s))
    BY DEF Range
  <1>3. /\ \A v : IsList(v) => IsList(LuaList(v)) /\ NotAString \notin Range(LuaList(v))
        /\ \A v : IsList(v) => IsList(TomlList(v)) /\ NotAString \notin Range(TomlList(v))
    <2>1. ASSUME NEW v, IsList(v)
          PROVE  /\ IsList(LuaList(v)) /\ NotAString \notin Range(LuaList(v))
                 /\ IsList(TomlList(v)) /\ NotAString \notin Range(TomlList(v))
      BY <1>2, <2>1, LuaListType, TomlListType DEF IsList
    <2>2. QED
      BY <2>1
  <1>4. Range(<<>>) = {}
    BY DEF Range
  <1>5. QED
    BY <1>1, <1>3, <1>4, NoList DEF Lua, Toml, At

(* The patterns before the defaults: the script's, or else the section's.  *)
LEMMA RawPatterns ==
  ASSUME given \in Givens, NEW d \in Directions
  PROVE  /\ DOMAIN TheDecl.connect[d] = OwnPatterns(d)
         /\ \A p \in OwnPatterns(d) :
              TheDecl.connect[d][p] = IF Lua(d, p) # <<>> THEN Lua(d, p) ELSE Toml(d, p)
  <1> DEFINE script  == given.script.connect
             section == given.section.connect
             Ours    == IF given.script.kind = "table" THEN connect_from_lua_table(script)[d] ELSE <<>>
             Theirs  == Given([p \in DOMAIN section[d] |-> TomlList(section[d][p])])
  <1>1. TheDecl.connect[d] = Over(Ours, Theirs)
    <2>1. given.script.kind \in {"table", "plain", "broken"}
      BY GivensAreDeclarations
    <2>2. NoConnect[d] = <<>>
      BY DEF NoConnect, Directions
    <2>3. QED
      BY <2>1, <2>2 DEF TheDecl, extract_all_decls, Decl, connect_from_toml
  <1>2. /\ DOMAIN Theirs = {p \in DOMAIN section[d] : Toml(d, p) # <<>>}
        /\ \A p \in DOMAIN Theirs : Theirs[p] = Toml(d, p)
    BY DEF Given, Toml, At
  <1>3. /\ DOMAIN Ours = {p \in DOMAIN script[d] : Lua(d, p) # <<>>}
        /\ \A p \in DOMAIN Ours : Ours[p] = Lua(d, p)
    <2>1. CASE given.script.kind = "table"
      BY <2>1 DEF connect_from_lua_table, Given, Lua, At
    <2>2. CASE given.script.kind # "table"
      BY <2>2 DEF Lua
    <2>3. QED
      BY <2>1, <2>2
  <1> HIDE DEF Ours, Theirs
  <1>4. /\ DOMAIN Over(Ours, Theirs) = DOMAIN Ours \cup DOMAIN Theirs
        /\ \A p \in DOMAIN Ours \cup DOMAIN Theirs :
             Over(Ours, Theirs)[p] = IF p \in DOMAIN Ours THEN Ours[p] ELSE Theirs[p]
    BY DEF Over
  <1>5. \A p : /\ p \in DOMAIN Ours <=> Lua(d, p) # <<>>
               /\ p \in DOMAIN Theirs <=> Toml(d, p) # <<>>
    BY <1>2, <1>3, Said
  <1>6. \A p : p \in OwnPatterns(d) <=> Lua(d, p) # <<>> \/ Toml(d, p) # <<>>
    BY Said DEF OwnPatterns
  <1>7. QED
    BY <1>1, <1>2, <1>3, <1>4, <1>5, <1>6

(* The patterns after the defaults.                                        *)
LEMMA Resolved ==
  ASSUME given \in Givens, NEW d \in Directions
  PROVE  /\ \A p \in DOMAIN TheConnect[d] : /\ TheConnect[d][p] # <<>>
                                            /\ NotAString \notin Range(TheConnect[d][p])
         /\ \A p \in Range(TheDecl.ports[d]) :
              At(TheConnect[d], p) =
                IF p # All /\ p \in OwnPatterns(d) THEN TheDecl.connect[d][p]
                ELSE IF All \in OwnPatterns(d) THEN TheDecl.connect[d][All]
                ELSE IF OwnPatterns(d) = {} THEN given.global.connect[d] ELSE <<>>
  <1> DEFINE raw   == TheDecl.connect
             named == DOMAIN raw[d] \ {All}
             all   == IF All \in DOMAIN raw[d] THEN raw[d][All]
                      ELSE IF DOMAIN raw[d] = {} THEN given.global.connect[d] ELSE <<>>
             ports == Range(TheDecl.ports[d])
             f     == [p \in named \cup ports |-> IF p \in named THEN raw[d][p] ELSE all]
  <1>1. TheConnect[d] = Given(f)
    BY DEF TheConnect, apply_connect_defaults, Range
  <1>2. \A p \in OwnPatterns(d) : /\ raw[d][p] # <<>>
                                  /\ NotAString \notin Range(raw[d][p])
    BY RawPatterns, Said DEF OwnPatterns
  <1>3. NotAString \notin Range(all)
    BY <1>2, RawPatterns, GivensAreDeclarations DEF Range
  <1>4. DOMAIN raw[d] = OwnPatterns(d)
    BY RawPatterns
  <1> HIDE DEF raw, ports
  <1>5. /\ DOMAIN f = named \cup ports
        /\ \A p \in named : f[p] = raw[d][p]
        /\ \A p \in ports \ named : f[p] = all
    OBVIOUS
  <1> HIDE DEF f
  <1>6. /\ DOMAIN TheConnect[d] = {p \in DOMAIN f : f[p] # <<>>}
        /\ \A p \in DOMAIN TheConnect[d] : TheConnect[d][p] = f[p]
    BY <1>1 DEF Given
  <1>7. \A p \in DOMAIN f : At(TheConnect[d], p) = f[p]
    BY <1>6 DEF At
  <1>8. \A p \in DOMAIN f : NotAString \notin Range(f[p])
    BY <1>2, <1>3, <1>4, <1>5
  <1>9. \A p \in ports : f[p] = IF p # All /\ p \in OwnPatterns(d) THEN raw[d][p] ELSE all
    BY <1>4, <1>5
  <1>10. QED
    BY <1>4, <1>5, <1>6, <1>7, <1>8, <1>9 DEF raw, ports

(* The patterns of a port are those of the first of its candidates that    *)
(* has any (apply_connect_defaults).                                       *)
LEMMA ByRank ==
  ASSUME given \in Givens, NEW d \in Directions, NEW p \in Range(TheDecl.ports[d])
  PROVE  LET ranked == Candidates(d, p)
             says   == {i \in DOMAIN ranked : ranked[i] # <<>>}
         IN \/ says = {} /\ At(TheConnect[d], p) = <<>>
            \/ \E i \in says : (\A j \in says : i <= j) /\ At(TheConnect[d], p) = ranked[i]
  <1> DEFINE ranked == Candidates(d, p)
             says   == {i \in DOMAIN ranked : ranked[i] # <<>>}
             at     == At(TheConnect[d], p)
  <1>1. /\ DOMAIN ranked = 1 .. 5
        /\ ranked[1] = Lua(d, p) /\ ranked[2] = Toml(d, p)
        /\ ranked[3] = Lua(d, All) /\ ranked[4] = Toml(d, All)
        /\ ranked[5] = IF OwnPatterns(d) = {} THEN given.global.connect[d] ELSE <<>>
    BY DEF Candidates
  <1>2. \A q : q \in OwnPatterns(d) <=> Lua(d, q) # <<>> \/ Toml(d, q) # <<>>
    BY Said DEF OwnPatterns
  <1>3. \A q \in OwnPatterns(d) :
          TheDecl.connect[d][q] = IF Lua(d, q) # <<>> THEN Lua(d, q) ELSE Toml(d, q)
    BY RawPatterns
  <1>4. at = IF p # All /\ p \in OwnPatterns(d) THEN TheDecl.connect[d][p]
             ELSE IF All \in OwnPatterns(d) THEN TheDecl.connect[d][All]
             ELSE IF OwnPatterns(d) = {} THEN given.global.connect[d] ELSE <<>>
    BY Resolved
  <1> HIDE DEF ranked, at
  <1>5. \/ (\A i \in 1 .. 5 : ranked[i] = <<>>) /\ at = <<>>
        \/ \E i \in 1 .. 5 : /\ ranked[i] # <<>> /\ at = ranked[i]
                             /\ \A j \in 1 .. 5 : ranked[j] # <<>> => i <= j
    <2>1. CASE p \in OwnPatterns(d)
      <3>1. at = IF Lua(d, p) # <<>> THEN Lua(d, p) ELSE Toml(d, p)
        BY <1>3, <1>4, <2>1
      <3>2. QED
        BY <1>1, <1>2, <2>1, <3>1
    <2>2. CASE p \notin OwnPatterns(d) /\ All \in OwnPatterns(d)
      <3>1. at = IF Lua(d, All) # <<>> THEN Lua(d, All) ELSE Toml(d, All)
        BY <1>3, <1>4, <2>2
      <3>2. QED
        BY <1>1, <1>2, <2>2, <3>1
    <2>3. CASE p \notin OwnPatterns(d) /\ All \notin OwnPatterns(d)
      <3>1. at = ranked[5]
        BY <1>1, <1>4, <2>3
      <3>2. QED
        BY <1>1, <1>2, <2>3, <3>1
    <2>4. QED
      BY <2>1, <2>2, <2>3
  <1>6. QED
    BY <1>1, <1>5 DEF at, ranked

(* A route has a port in each direction, whatever it declares              *)
(* (parse_port_decl_from_lua, parse_port_decl_from_toml).                  *)
LEMMA PortsGiven ==
  ASSUME given \in Givens, NEW d \in Directions
  PROVE  IsList(TheDecl.ports[d]) /\ TheDecl.ports[d] # <<>>
  <1> DEFINE FromLua  == [e \in Directions |-> LuaList(given.script.ports[e])]
             FromToml == [e \in Directions |-> TomlList(given.section.ports[e])]
  <1>1. ASSUME NEW S, NEW s \in Seq(S) PROVE IsList(s)
    BY DEF IsList, Range
  <1>2. IsList(FromLua[d]) /\ IsList(FromToml[d])
    BY <1>1, GivensAreDeclarations, LuaListType, TomlListType
  <1>3. IsList(DefaultPorts[d]) /\ DefaultPorts[d] # <<>>
    <2>1. DefaultPorts[d] = <<"default">>
      BY DEF DefaultPorts, Directions
    <2>2. <<"default">> \in Seq({"default"}) /\ <<"default">> # <<>>
      OBVIOUS
    <2>3. QED
      BY <1>1, <2>1, <2>2
  <1> HIDE DEF FromLua, FromToml
  <1>4. ASSUME NEW ports, IsList(ports[d]), NEW result,
               result = Either(Complete(ports), DefaultPorts)
        PROVE  IsList(result[d]) /\ result[d] # <<>>
    <2>1. CASE ports.in = <<>> \/ ports.out = <<>>
      <3>1. result = DefaultPorts
        BY <1>4, <2>1 DEF Either, Complete
      <3>2. QED
        BY <1>3, <3>1
    <2>2. CASE ports.in # <<>> /\ ports.out # <<>>
      <3>1. Complete(ports) = {ports}
        BY <2>2 DEF Complete
      <3>2. result = ports
        BY <1>4, <3>1 DEF Either
      <3>3. QED
        BY <1>4, <2>2, <3>2 DEF Directions
    <2>3. QED
      BY <2>1, <2>2
  <1>5. \/ TheDecl.ports = Either(Complete(FromLua), DefaultPorts)
        \/ TheDecl.ports = Either(Complete(FromToml), DefaultPorts)
        \/ TheDecl.ports = DefaultPorts
    BY GivensAreDeclarations
    DEF TheDecl, extract_all_decls, Decl, parse_port_decl_from_lua, parse_port_decl_from_toml,
        FromLua, FromToml
  <1>6. QED
    BY <1>2, <1>3, <1>4, <1>5

(* A receive port has 16 bits; any other number is none                    *)
(* (osc_from_lua_table).                                                   *)
LEMMA ReceiveInRange == given \in Givens => TheDecl.receive \in Nat /\ TheDecl.receive <= 65535
  <1>1. ASSUME given \in Givens
        PROVE  TheDecl.receive = 0 \/ TheDecl.receive = ReceivePort(given.script.receive)
    BY <1>1, GivensAreDeclarations DEF TheDecl, extract_all_decls, Decl
  <1>2. given \in Givens => given.script.receive \in Int
    BY GivensAreDeclarations
  <1>3. QED
    BY <1>1, <1>2 DEF ReceivePort

(* A sender's targets are addresses, and a route that may receive has one. *)
LEMMA SenderParts ==
  ASSUME given \in Givens
  PROVE  /\ \A targets \in Sender(TheDecl, given.global, Hosts) : Range(targets) \subseteq Hosts
         /\ TheDecl.receive # 0 \/ given.global.receive # 0
              => Sender(TheDecl, given.global, Hosts) # {}
  <1>1. Range(<<>>) = {}
    BY DEF Range
  <1>2. Range(TheDecl.send) \subseteq Hosts
    BY <1>1, GivensAreDeclarations DEF TheDecl, extract_all_decls, Decl, SendTargets, Range
  <1>3. ASSUME given.global.send \in Hosts
        PROVE  Range([default |-> given.global.send]) \subseteq Hosts
    BY <1>3 DEF Range
  <1>4. QED
    BY <1>1, <1>2, <1>3 DEF Sender

-----------------------------------------------------------------------------
(* The codec.                                                              *)

(* Numbers of 16 bits do not wrap.                                         *)
LEMMA Mod16 == \A n \in Int : 0 <= n /\ n < 65536 => n % 65536 = n
  OBVIOUS

(* A number of 14 bits is made of two of 7.                                *)
LEMMA Halves ==
  ASSUME NEW n \in Int, 0 <= n, n < 16384
  PROVE  /\ n % 128 \in 0 .. 127 /\ n \div 128 \in 0 .. 127
         /\ (n % 128) + 128 * (n \div 128) = n
  <1>1. n % 128 \in 0 .. 127 /\ n \div 128 \in Int /\ n = 128 * (n \div 128) + (n % 128)
    OBVIOUS
  <1> DEFINE q == n \div 128
             r == n % 128
  <1> HIDE DEF q, r
  <1>2. r \in 0 .. 127 /\ q \in Int /\ n = 128 * q + r
    BY <1>1 DEF q, r
  <1>3. q \in 0 .. 127 /\ r + 128 * q = n
    BY <1>2
  <1>4. QED
    BY <1>2, <1>3 DEF q, r

(* A field a table lacks has no number.                                    *)
LEMMA Numbered == \A m, f : Field(m, f) = IF f \in DOMAIN m.num THEN {m.num[f]} ELSE {}
  BY DEF Field

(* A channel from 1 to 16 is kept, and every other number becomes one      *)
(* (lua_api.rs:158).                                                       *)
LEMMA ChannelParts ==
  ASSUME NEW m, NEW c \in Channel(m)
  PROVE  /\ c \in 0 .. 15
         /\ Field(m, "channel") \subseteq 1 .. 16 => c + 1 \in Field(m, "channel")
  <1>1. PICK n \in U8(m, "channel") : c = (IF n = 0 THEN 0 ELSE n - 1) % 16
    BY DEF Channel
  <1>2. n \in Byte /\ n \in Field(m, "channel")
    BY DEF U8
  <1>3. QED
    BY <1>1, <1>2 DEF Byte

(* Data bytes are bytes.                                                   *)
LEMMA DataParts == \A m, f : Data(m, f) \subseteq Byte
  BY DEF Data, U8, Byte

(* A bend saturates at both ends, up to where the sum overflows its 16     *)
(* bits (lua_api.rs:183).                                                  *)
LEMMA BendParts ==
  ASSUME NEW v, IsI16(v)
  PROVE  /\ Bend(v) \in Int /\ 0 <= Bend(v) /\ Bend(v) < 16384
         /\ IsI16(v + 8192) =>
              Bend(v) = (IF v < -8192 THEN -8192 ELSE IF v > 8191 THEN 8191 ELSE v) + 8192
  <1> DEFINE w == Wrap16(v + 8192)
  <1> USE DEF IsI16
  <1>1. w \in Int
    BY DEF Wrap16
  <1>2. v <= 24575 => w = v + 8192
    <2> DEFINE n == v + 8192 + 32768
    <2>1. v <= 24575 => n \in Int /\ 0 <= n /\ n < 65536
      OBVIOUS
    <2>2. w = (n % 65536) - 32768
      BY DEF Wrap16
    <2> HIDE DEF n
    <2>3. v <= 24575 => n % 65536 = n
      BY <2>1, Mod16
    <2>4. QED
      BY <2>2, <2>3 DEF n
  <1>3. Bend(v) = IF w < 0 THEN 0 ELSE IF w > 16383 THEN 16383 ELSE w
    BY DEF Bend, Clamp
  <1> HIDE DEF w
  <1>4. Bend(v) \in Int /\ 0 <= Bend(v) /\ Bend(v) < 16384
    BY <1>1, <1>3
  <1>5. ASSUME v <= 24575
        PROVE  Bend(v) = (IF v < -8192 THEN -8192 ELSE IF v > 8191 THEN 8191 ELSE v) + 8192
    BY <1>2, <1>3, <1>5
  <1>6. IsI16(v + 8192) => v <= 24575
    OBVIOUS
  <1>7. QED
    BY <1>4, <1>5, <1>6

(* The nibbles of a status byte can be read back.                          *)
LEMMA StatusByte ==
  ASSUME NEW k \in 8 .. 14, NEW c \in 0 .. 15
  PROVE  /\ (k * 16) + c \in Byte
         /\ ((k * 16) + c) \div 16 = k
         /\ ((k * 16) + c) % 16 = c
  BY DEF Byte

(* What leaves are bytes; of a voice message, its type and channel, and    *)
(* the value of a bend.                                                    *)
LEMMA BytesOut ==
  ASSUME NEW m, NEW b \in lua_to_midi_bytes(m)
  PROVE  /\ Range(b) \subseteq Byte
         /\ m.type \in Voices => /\ b[1] \div 16 = Nibble[m.type]
                                 /\ \E c \in Channel(m) : b[1] % 16 = c
         /\ m.type = "pitch_bend" =>
              \E v \in Field(m, "value") : /\ IsI16(v)
                                           /\ b[2] + 128 * b[3] = Bend(v)
  <1> USE DEF Byte
  <1>1. CASE m.type \in DOMAIN Realtime
    <2>1. m.type \in {"clock", "start", "continue", "stop"}
      BY <1>1 DEF Realtime
    <2>2. b = <<Realtime[m.type]>>
      BY <1>1, <2>1 DEF lua_to_midi_bytes
    <2>3. Realtime[m.type] \in Byte /\ m.type \notin Voices /\ m.type # "pitch_bend"
      BY <2>1 DEF Realtime, Voices, Nibble
    <2>4. QED
      BY <2>2, <2>3 DEF Range
  <1>2. CASE m.type = "raw"
    <2>1. b = m.num /\ \A i \in DOMAIN m.num : m.num[i] \in Byte
      BY <1>2 DEF lua_to_midi_bytes, Realtime
    <2>2. QED
      BY <1>2, <2>1 DEF Range, Voices, Nibble
  <1>3. CASE m.type = "pitch_bend"
    <2>1. PICK c \in Channel(m), v \in {w \in Field(m, "value") : IsI16(w)} :
                 b = <<(14 * 16) + c, Bend(v) % 128, Bend(v) \div 128>>
      BY <1>3 DEF lua_to_midi_bytes, Realtime
    <2>2. /\ c \in 0 .. 15 /\ v \in Field(m, "value") /\ IsI16(v)
          /\ Bend(v) \in Int /\ 0 <= Bend(v) /\ Bend(v) < 16384
      BY ChannelParts, BendParts
    <2>3. /\ (14 * 16) + c \in Byte /\ ((14 * 16) + c) \div 16 = 14 /\ ((14 * 16) + c) % 16 = c
          /\ Bend(v) % 128 \in 0 .. 127 /\ Bend(v) \div 128 \in 0 .. 127
          /\ (Bend(v) % 128) + 128 * (Bend(v) \div 128) = Bend(v)
      BY <2>2, StatusByte, Halves
    <2>4. /\ b[1] = (14 * 16) + c /\ b[2] = Bend(v) % 128 /\ b[3] = Bend(v) \div 128
          /\ Range(b) = {(14 * 16) + c, Bend(v) % 128, Bend(v) \div 128}
      BY <2>1 DEF Range
    <2>5. QED
      BY <1>3, <2>3, <2>4 DEF Nibble
  <1>4. CASE m.type = "program_change"
    <2>1. PICK c \in Channel(m), p \in Data(m, "program") : b = <<(12 * 16) + c, p>>
      BY <1>4 DEF lua_to_midi_bytes, Realtime
    <2>2. c \in 0 .. 15 /\ p \in Byte
      BY ChannelParts, DataParts
    <2>3. QED
      BY <1>4, <2>1, <2>2, StatusByte DEF Nibble, Range
  <1>5. CASE m.type \in {"note_off", "note_on", "cc"}
    <2>1. PICK c \in Channel(m), x \in Data(m, Fields[m.type][1]), y \in Data(m, Fields[m.type][2]) :
                 b = <<(Nibble[m.type] * 16) + c, x, y>>
      BY <1>5 DEF lua_to_midi_bytes, Realtime
    <2>2. c \in 0 .. 15 /\ x \in Byte /\ y \in Byte
      BY ChannelParts, DataParts
    <2>3. Nibble[m.type] \in 8 .. 14
      BY <1>5 DEF Nibble
    <2>4. b[1] = (Nibble[m.type] * 16) + c /\ Range(b) = {(Nibble[m.type] * 16) + c, x, y}
      BY <2>1 DEF Range
    <2>5. QED
      BY <1>5, <2>2, <2>3, <2>4, StatusByte
  <1>6. QED
    BY <1>1, <1>2, <1>3, <1>4, <1>5 DEF lua_to_midi_bytes

(* What a script is given of a message: b, where the type is t.            *)
Read(b, t) ==
  /\ t = midi_bytes_to_lua(b).type
  /\ \/ /\ t \in Voices
        /\ (Silent(b) /\ t = "note_off") \/ (~Silent(b) /\ b[1] \div 16 = Nibble[t])
        /\ Len(b) = Size(t)
        /\ midi_bytes_to_lua(b).num = Named(t, b)
     \/ /\ t \in DOMAIN Realtime /\ ~Silent(b)
        /\ b = <<Realtime[t]>>
     \/ /\ t = "raw" /\ ~Silent(b)
        /\ midi_bytes_to_lua(b).num = b

(* What the name of a message says of its bytes (midi_bytes_to_lua).       *)
LEMMA Reading == ASSUME NEW b PROVE Read(b, midi_bytes_to_lua(b).type)
  <1> DEFINE t == CHOOSE u \in TypesOf(b) : TRUE
  <1>1. /\ TypesOf(b) = {} => midi_bytes_to_lua(b) = [type |-> "raw", num |-> b]
        /\ TypesOf(b) # {} =>
             midi_bytes_to_lua(b) = [type |-> t, num |-> IF t \in Voices THEN Named(t, b) ELSE <<>>]
    BY DEF midi_bytes_to_lua
  <1>2. TypesOf(b) # {} => t \in TypesOf(b)
    OBVIOUS
  <1> HIDE DEF t
  <1>3. CASE TypesOf(b) = {}
    <2>1. ~Silent(b)
      BY <1>3 DEF TypesOf
    <2>2. QED
      BY <1>1, <1>3, <2>1 DEF Read
  <1>4. CASE Silent(b)
    <2>1. TypesOf(b) = {"note_off"}
      BY <1>4 DEF TypesOf
    <2>2. Len(b) = Size("note_off") /\ "note_off" \in Voices
      BY <1>4 DEF Silent, Size, Fields, Voices, Nibble
    <2>3. midi_bytes_to_lua(b) = [type |-> "note_off", num |-> Named("note_off", b)]
      BY <1>1, <1>2, <2>1, <2>2
    <2>4. QED
      BY <1>4, <2>2, <2>3 DEF Read
  <1>5. CASE TypesOf(b) # {} /\ ~Silent(b)
    <2>1. \/ t \in DOMAIN Realtime /\ b = <<Realtime[t]>>
          \/ t \in Voices /\ Len(b) = Size(t) /\ b[1] \div 16 = Nibble[t]
      BY <1>2, <1>5 DEF TypesOf
    <2>2. QED
      BY <1>1, <1>5, <2>1 DEF Read
  <1>6. QED
    BY <1>3, <1>4, <1>5

(* A byte is made of its nibbles.                                          *)
LEMMA BytePart ==
  ASSUME NEW n \in Byte
  PROVE  /\ n % 16 \in 0 .. 15 /\ (n % 16) % 16 = n % 16
         /\ n \div 16 \in Int /\ n = 16 * (n \div 16) + (n % 16)
  BY DEF Byte

(* Messages of two and three bytes, byte by byte.                          *)
LEMMA Spelled ==
  /\ \A b \in Seq(Byte) : Len(b) = 2 => b = <<b[1], b[2]>> /\ b[1] \in Byte /\ b[2] \in Byte
  /\ \A b \in Seq(Byte) : Len(b) = 3 =>
       b = <<b[1], b[2], b[3]>> /\ b[1] \in Byte /\ b[2] \in Byte /\ b[3] \in Byte
  OBVIOUS

(* The numbers of a voice message.                                         *)
LEMMA NamedParts ==
  ASSUME NEW b, NEW t \in Voices
  PROVE  /\ DOMAIN Named(t, b) = {"channel"} \cup Range(Fields[t])
         /\ Named(t, b)["channel"] = (b[1] % 16) + 1
         /\ t = "pitch_bend" => Named(t, b)["value"] = Bent(b)
         /\ t # "pitch_bend" => \A i \in DOMAIN Fields[t] : Named(t, b)[Fields[t][i]] = b[1 + i]
  <1> DEFINE F == {Fields[t][i] : i \in DOMAIN Fields[t]}
             Place(f) == CHOOSE i \in DOMAIN Fields[t] : Fields[t][i] = f
  <1>1. Named(t, b) = [f \in {"channel"} \cup F |->
                         IF f = "channel" THEN (b[1] % 16) + 1
                         ELSE IF t = "pitch_bend" THEN Bent(b)
                         ELSE b[1 + Place(f)]]
    BY DEF Named
  <1>2. t \in {"note_off", "note_on", "cc", "program_change", "pitch_bend"}
    BY DEF Voices, Nibble
  <1>3. /\ F = Range(Fields[t]) /\ "channel" \notin F
        /\ t = "pitch_bend" => "value" \in F
        /\ \A i \in DOMAIN Fields[t] : /\ Fields[t][i] \in F
                                       /\ Place(Fields[t][i]) = i
    <2>1. \A i, j \in DOMAIN Fields[t] : Fields[t][i] = Fields[t][j] => i = j
      BY <1>2 DEF Fields
    <2>2. \A i \in DOMAIN Fields[t] : Fields[t][i] # "channel"
      BY <1>2 DEF Fields
    <2>3. t = "pitch_bend" => 1 \in DOMAIN Fields[t] /\ Fields[t][1] = "value"
      BY DEF Fields
    <2>4. QED
      BY <2>1, <2>2, <2>3 DEF Range
  <1> HIDE DEF F, Place
  <1>4. QED
    BY <1>1, <1>3

(* The bytes a voice message was made of.                                  *)
LEMMA VoiceBytes ==
  ASSUME NEW b \in Arrivals, NEW t, Read(b, t), t \in Voices
  PROVE  /\ \A i \in DOMAIN b : b[i] \in Byte
         /\ b[1] \in Byte /\ b[1] < 240
         /\ \A i \in 2 .. Len(b) : b[i] \in 0 .. 127
         /\ t = "program_change" => b = <<b[1], b[2]>> /\ b[2] \in 0 .. 127
         /\ t # "program_change" => /\ b = <<b[1], b[2], b[3]>>
                                    /\ b[2] \in 0 .. 127 /\ b[3] \in 0 .. 127
  <1>1. b \in Seq(Byte)
    BY ArrivalsAreMidi
  <1>2. t \in {"note_off", "note_on", "cc", "program_change", "pitch_bend"}
    BY DEF Voices, Nibble
  <1>3. Len(b) = Size(t) /\ Len(b) = IF t = "program_change" THEN 2 ELSE 3
    <2>1. t \notin DOMAIN Realtime /\ t # "raw"
      BY <1>2 DEF Realtime
    <2>2. Len(b) = Size(t)
      BY <2>1 DEF Read
    <2>3. /\ t \in {"note_off", "note_on", "cc"} => Len(Fields[t]) = 2
          /\ t = "program_change" => Len(Fields[t]) = 1
      BY DEF Fields
    <2>4. CASE t = "pitch_bend"
      BY <2>2, <2>4 DEF Size
    <2>5. CASE t # "pitch_bend"
      <3>1. Len(b) = 1 + Len(Fields[t])
        BY <2>2, <2>5 DEF Size
      <3>2. CASE t = "program_change"
        <4>1. Len(Fields[t]) = 1
          BY <2>3, <3>2
        <4>2. Len(b) = 2
          BY <3>1, <4>1
        <4>3. QED
          BY <2>2, <3>2, <4>2
      <3>3. CASE t # "program_change"
        <4>1. Len(Fields[t]) = 2
          BY <1>2, <2>3, <2>5, <3>3
        <4>2. QED
          BY <2>2, <3>1, <3>3, <4>1
      <3>4. QED
        BY <3>2, <3>3
    <2>6. QED
      BY <2>4, <2>5
  <1>4. b[1] \in Byte /\ b # <<>>
    BY <1>1, <1>3
  <1>5. b[1] \div 16 \in {8, 9, 11, 12, 14}
    <2>1. Silent(b) \/ b[1] \div 16 = Nibble[t]
      BY <1>2 DEF Read, Realtime
    <2>2. QED
      BY <1>2, <2>1 DEF Silent, Nibble
  <1>6. b[1] < 240
    <2> DEFINE q == b[1] \div 16
               r == b[1] % 16
    <2>1. q \in {8, 9, 11, 12, 14} /\ r \in 0 .. 15 /\ b[1] = 16 * q + r
      BY <1>4, <1>5, BytePart
    <2> HIDE DEF q, r
    <2>2. QED
      BY <2>1
  <1>7. \A i \in 2 .. Len(b) : b[i] \in 0 .. 127
    <2>1. \A n \in Byte : n < 128 => n \in 0 .. 127
      BY DEF Byte
    <2>2. ASSUME NEW i \in 2 .. Len(b) PROVE b[i] \in 0 .. 127
      <3>1. b[i] < 128 /\ b[i] \in Byte
        BY <1>1, <1>4, <1>6, ArrivalsAreMidi
      <3>2. QED
        BY <2>1, <3>1
    <2>3. QED
      BY <2>2
  <1>8. Len(b) = 2 => b = <<b[1], b[2]>>
    BY <1>1, Spelled
  <1>9. Len(b) = 3 => b = <<b[1], b[2], b[3]>>
    BY <1>1, Spelled
  <1>10. \A i \in DOMAIN b : b[i] \in Byte
    BY <1>1
  <1>11. /\ Len(b) >= 2 => b[2] \in 0 .. 127
         /\ Len(b) = 3 => b[3] \in 0 .. 127
    BY <1>1, <1>7
  <1>12. QED
    BY <1>3, <1>4, <1>6, <1>7, <1>8, <1>9, <1>10, <1>11

(* A message sent as it was received leaves as it came, but the release    *)
(* that came as a note_on of velocity 0.                                   *)
LEMMA RoundTrip ==
  ASSUME NEW b \in Arrivals, NEW x \in lua_to_midi_bytes(midi_bytes_to_lua(b))
  PROVE  x = IF Silent(b) THEN [b EXCEPT ![1] = @ - 16] ELSE b
  <1> DEFINE m == midi_bytes_to_lua(b)
             t == m.type
  <1>1. Read(b, t) /\ x \in lua_to_midi_bytes(m)
    BY Reading
  <1>2. t = midi_bytes_to_lua(b).type /\ m.type = t
    OBVIOUS
  <1> HIDE DEF m, t
  <1>3. CASE t \in DOMAIN Realtime
    <2>1. t \in {"clock", "start", "continue", "stop"} /\ t \notin Voices /\ t # "raw"
      BY <1>3 DEF Realtime, Voices, Nibble
    <2>2. ~Silent(b) /\ b = <<Realtime[t]>>
      BY <1>1, <2>1 DEF Read
    <2>3. x = <<Realtime[t]>>
      BY <1>1, <1>2, <1>3, <2>1 DEF lua_to_midi_bytes
    <2>4. QED
      BY <2>2, <2>3
  <1>4. CASE t = "raw"
    <2>1. t \notin Voices /\ t \notin DOMAIN Realtime
      BY <1>4 DEF Realtime, Voices, Nibble
    <2>2. ~Silent(b) /\ m.num = b
      BY <1>1, <2>1 DEF Read, m
    <2>3. x = m.num
      BY <1>1, <1>2, <1>4, <2>1 DEF lua_to_midi_bytes
    <2>4. QED
      BY <2>2, <2>3
  <1>5. CASE t \in Voices
    <2>1. t \in {"note_off", "note_on", "cc", "program_change", "pitch_bend"}
      BY <1>5 DEF Voices, Nibble
    <2>2. t \notin DOMAIN Realtime /\ t # "raw"
      BY <2>1 DEF Realtime
    <2>3. m.num = Named(t, b)
      BY <1>1, <2>2 DEF Read, m
    <2>4. (Silent(b) /\ t = "note_off") \/ (~Silent(b) /\ b[1] \div 16 = Nibble[t])
      BY <1>1, <2>2 DEF Read
    <2> DEFINE low == b[1] % 16
    <2>5. /\ b[1] \in Int /\ low \in 0 .. 15 /\ low % 16 = low
          /\ b[1] = 16 * (b[1] \div 16) + low
      <3>1. b[1] \in Byte
        BY <1>1, <1>5, VoiceBytes
      <3>2. b[1] \in Int
        BY <3>1 DEF Byte
      <3>3. QED
        BY <3>1, <3>2, BytePart
    <2> HIDE DEF low
    <2>6. \A c \in Channel(m) : c = low
      <3>1. m.num["channel"] = low + 1
        BY <2>3, <1>5, NamedParts DEF low
      <3>2. \A n \in Field(m, "channel") : n = low + 1
        BY <3>1 DEF Field
      <3>3. (low + 1) - 1 = low /\ low + 1 # 0
        BY <2>5
      <3>4. QED
        BY <2>5, <3>2, <3>3 DEF Channel, U8
    <2>7. \A i \in DOMAIN Fields[t] : /\ Fields[t][i] \in DOMAIN m.num
                                      /\ t # "pitch_bend" => m.num[Fields[t][i]] = b[1 + i]
      BY <2>3, <1>5, NamedParts, ZenonT(60) DEF Range
    <2>8. ASSUME NEW i \in DOMAIN Fields[t], t # "pitch_bend"
          PROVE  \A y \in Data(m, Fields[t][i]) : y = b[1 + i]
      <3>1. Field(m, Fields[t][i]) = {b[1 + i]}
        BY <2>7, <2>8, Numbered
      <3>2. QED
        BY <3>1 DEF Data, U8
    <2>9. CASE t \in {"note_off", "note_on", "cc"}
      <3>1. PICK c \in Channel(m), y \in Data(m, Fields[t][1]), z \in Data(m, Fields[t][2]) :
                   x = <<(Nibble[t] * 16) + c, y, z>>
        BY <1>1, <1>2, <2>2, <2>9 DEF lua_to_midi_bytes
      <3>2. DOMAIN Fields[t] = 1 .. 2 /\ t # "pitch_bend" /\ t # "program_change"
        BY <2>9 DEF Fields
      <3>3. x = <<(Nibble[t] * 16) + low, b[2], b[3]>>
        BY <2>6, <2>8, <3>1, <3>2
      <3>4. b = <<b[1], b[2], b[3]>>
        BY <1>1, <1>5, <3>2, VoiceBytes
      <3>5. CASE ~Silent(b)
        <4>1. (Nibble[t] * 16) + low = b[1]
          BY <2>4, <2>5, <2>9, <3>5 DEF Nibble
        <4>2. QED
          BY <3>3, <3>4, <3>5, <4>1
      <3>6. CASE Silent(b)
        <4>1. t = "note_off" /\ b[1] \div 16 = 9
          BY <2>4, <3>6 DEF Silent
        <4>2. (Nibble[t] * 16) + low = b[1] - 16
          BY <2>5, <4>1 DEF Nibble
        <4>3. [<<b[1], b[2], b[3]>> EXCEPT ![1] = @ - 16] = <<b[1] - 16, b[2], b[3]>>
          OBVIOUS
        <4>4. QED
          BY <3>3, <3>4, <3>6, <4>2, <4>3
      <3>7. QED
        BY <3>5, <3>6
    <2>10. CASE t = "program_change"
      <3>1. PICK c \in Channel(m), y \in Data(m, "program") : x = <<(12 * 16) + c, y>>
        BY <1>1, <1>2, <2>2, <2>10 DEF lua_to_midi_bytes
      <3>2. 1 \in DOMAIN Fields[t] /\ Fields[t][1] = "program" /\ t # "pitch_bend"
        BY <2>10 DEF Fields
      <3>3. x = <<(12 * 16) + low, b[2]>>
        BY <2>6, <2>8, <3>1, <3>2
      <3>4. ~Silent(b) /\ b[1] \div 16 = 12
        BY <2>4, <2>10 DEF Nibble
      <3>5. b = <<b[1], b[2]>>
        BY <1>1, <1>5, <2>10, VoiceBytes
      <3>6. (12 * 16) + low = b[1]
        BY <2>5, <3>4
      <3>7. QED
        BY <3>3, <3>4, <3>5, <3>6
    <2>11. CASE t = "pitch_bend"
      <3>1. PICK c \in Channel(m), v \in {w \in Field(m, "value") : IsI16(w)} :
                   x = <<(14 * 16) + c, Bend(v) % 128, Bend(v) \div 128>>
        BY <1>1, <1>2, <2>2, <2>11 DEF lua_to_midi_bytes
      <3>2. v = b[3] * 128 + b[2] - 8192
        <4>1. m.num["value"] = Bent(b)
          BY <1>5, <2>3, <2>11, NamedParts
        <4>2. QED
          BY <3>1, <4>1 DEF Field, Bent
      <3>3. /\ b = <<b[1], b[2], b[3]>> /\ b[2] \in 0 .. 127 /\ b[3] \in 0 .. 127
        BY <1>1, <1>5, <2>11, VoiceBytes
      <3>4. Bend(v) = b[3] * 128 + b[2]
        <4>1. v \in -8192 .. 8191 /\ ~(v < -8192) /\ ~(v > 8191)
          <5> DEFINE y == b[2]
                     z == b[3]
          <5>1. y \in 0 .. 127 /\ z \in 0 .. 127 /\ v = z * 128 + y - 8192
            BY <3>2, <3>3
          <5> HIDE DEF y, z
          <5>2. v \in Int /\ -8192 <= v /\ v <= 8191
            BY <5>1
          <5>3. QED
            BY <5>2
        <4>2. IsI16(v) /\ IsI16(v + 8192)
          BY <4>1 DEF IsI16
        <4>3. Bend(v) = v + 8192
          BY <4>1, <4>2, BendParts
        <4>4. QED
          BY <3>2, <3>3, <4>3, SMTT(30)
      <3>5. (b[3] * 128 + b[2]) % 128 = b[2] /\ (b[3] * 128 + b[2]) \div 128 = b[3]
        BY <3>3, SMTT(30)
      <3>6. ~Silent(b) /\ b[1] \div 16 = 14
        BY <2>4, <2>11 DEF Nibble
      <3>7. (14 * 16) + c = b[1]
        BY <2>5, <2>6, <3>6
      <3>8. x = <<b[1], b[2], b[3]>>
        BY <3>1, <3>4, <3>5, <3>7
      <3>9. QED
        BY <3>3, <3>6, <3>8
    <2>12. QED
      BY <2>1, <2>9, <2>10, <2>11
  <1>6. QED
    BY <1>1, <1>3, <1>4, <1>5 DEF Read

-----------------------------------------------------------------------------
(* Params bound to MIDI.                                                   *)

(* The key of a message begins with its type (midi_key_from_table).        *)
LEMMA KeyNamesType == ASSUME NEW m, NEW k \in midi_key_from_table(m) PROVE k[1] = m.type
  <1>1. CASE m.type \in DOMAIN Realtime
    <2>1. m.type \notin Voices
      BY <1>1 DEF Realtime, Voices, Nibble
    <2>2. k = <<m.type>>
      BY <1>1, <2>1 DEF midi_key_from_table
    <2>3. QED
      BY <2>2
  <1>2. CASE m.type \in Voices
    <2>1. m.type \notin DOMAIN Realtime
      BY <1>2 DEF Realtime, Voices, Nibble
    <2>2. CASE Keyed[m.type] = {}
      BY <1>2, <2>1, <2>2 DEF midi_key_from_table
    <2>3. CASE Keyed[m.type] # {}
      BY <1>2, <2>1, <2>3 DEF midi_key_from_table
    <2>4. QED
      BY <2>2, <2>3
  <1>3. QED
    BY <1>1, <1>2 DEF midi_key_from_table

(* A binding to note_on is not found by the release of a key.              *)
LEMMA PressFound ==
  ASSUME NEW b \in Arrivals, NEW s \in Bound(midi_bytes_to_lua(b)), s.spec.type = "note_on"
  PROVE  b[3] > 0
  <1> DEFINE m == midi_bytes_to_lua(b)
  <1>1. s \in Bindings /\ midi_key_from_table(s.spec) = midi_key_from_table(m)
    BY DEF Bound
  <1>2. PICK k \in midi_key_from_table(s.spec) : TRUE
    BY <1>1, BindingsHaveKeys
  <1>3. m.type = "note_on"
    BY <1>1, <1>2, KeyNamesType
  <1>4. Read(b, "note_on")
    BY <1>3, Reading
  <1>5. "note_on" \in Voices /\ "note_on" \notin DOMAIN Realtime
    BY DEF Voices, Nibble, Realtime
  <1>6. ~Silent(b) /\ b[1] \div 16 = 9 /\ Len(b) = 3
    BY <1>4, <1>5 DEF Read, Size, Fields, Nibble
  <1>7. b[3] \in 0 .. 127
    BY <1>4, <1>5, VoiceBytes
  <1>8. QED
    BY <1>6, <1>7 DEF Silent

(* The one number of a message that bindings pass on is within its range,  *)
(* and at an end when the bytes it comes from are.                         *)
LEMMA Payload ==
  ASSUME NEW b \in Arrivals, NEW m, m = midi_bytes_to_lua(b), NEW r \in midi_payload_raw(m)
  PROVE  LET lo == midi_payload_range(m.type)[1]
             hi == midi_payload_range(m.type)[2]
         IN /\ midi_payload_raw(m) = {r}
            /\ lo \in Int /\ hi \in Int /\ r \in Int /\ lo < hi /\ lo <= r /\ r <= hi
            /\ r \in {127, 8191} /\ b[Len(b)] = 127 => r = hi
            /\ r \in {0, -8192} /\ b[Len(b)] = 0 => r = lo
  <1> DEFINE t == m.type
  <1>1. t \in Voices /\ r \in Field(m, Fields[t][Len(Fields[t])])
        /\ midi_payload_raw(m) = Field(m, Fields[t][Len(Fields[t])])
    BY DEF midi_payload_raw
  <1>2. Read(b, t)
    BY Reading
  <1> HIDE DEF t
  <1>3. t \in {"note_off", "note_on", "cc", "program_change", "pitch_bend"} /\ t \notin DOMAIN Realtime
        /\ t # "raw"
    BY <1>1 DEF Voices, Nibble, Realtime
  <1>4. m.num = Named(t, b)
    BY <1>2, <1>3 DEF Read
  <1>5. midi_payload_raw(m) = {r} /\ r = m.num[Fields[t][Len(Fields[t])]]
    BY <1>1 DEF Field
  <1>6. CASE t = "pitch_bend"
    <2>1. Fields[t][Len(Fields[t])] = "value"
      BY <1>6 DEF Fields
    <2>2. r = b[3] * 128 + b[2] - 8192
      <3>1. Named(t, b)["value"] = Bent(b)
        BY <1>1, <1>6, NamedParts
      <3>2. r = Bent(b)
        BY <1>4, <1>5, <2>1, <3>1
      <3>3. QED
        BY <3>2 DEF Bent
    <2>3. b[2] \in 0 .. 127 /\ b[3] \in 0 .. 127
      BY <1>1, <1>2, <1>6, VoiceBytes
    <2> DEFINE y == b[2]
               z == b[3]
    <2>4. y \in 0 .. 127 /\ z \in 0 .. 127 /\ r = z * 128 + y - 8192
      BY <2>2, <2>3
    <2> HIDE DEF y, z
    <2>5. /\ r \in Int /\ -8192 <= r /\ r <= 8191
          /\ r \in {127, 8191} /\ z = 127 => r = 8191
          /\ r \in {0, -8192} /\ z = 0 => r = -8192
      BY <2>4
    <2>6. midi_payload_range(t) = <<-8192, 8191>>
      BY <1>6 DEF midi_payload_range
    <2>7. b[Len(b)] = z
      <3>1. b = <<b[1], b[2], b[3]>>
        BY <1>1, <1>2, <1>6, VoiceBytes
      <3>2. Len(<<b[1], b[2], b[3]>>) = 3
        OBVIOUS
      <3>3. QED
        BY <3>1, <3>2 DEF z
    <2>8. QED
      BY <1>5, <2>5, <2>6, <2>7 DEF t
  <1>7. CASE t # "pitch_bend"
    <2>1. /\ t = "program_change" => r = b[2]
          /\ t # "program_change" => r = b[3]
      <3>1. /\ t = "program_change" => Len(Fields[t]) = 1 /\ 1 \in DOMAIN Fields[t]
            /\ t # "program_change" => Len(Fields[t]) = 2 /\ 2 \in DOMAIN Fields[t]
        BY <1>3, <1>7 DEF Fields
      <3>2. \A i \in DOMAIN Fields[t] : m.num[Fields[t][i]] = b[1 + i]
        BY <1>1, <1>4, <1>7, NamedParts
      <3>3. QED
        BY <1>5, <3>1, <3>2
    <2>2. r \in 0 .. 127 /\ r = b[Len(b)]
      <3>1. CASE t = "program_change"
        <4>1. b = <<b[1], b[2]>> /\ b[2] \in 0 .. 127
          BY <1>1, <1>2, <3>1, VoiceBytes
        <4>2. Len(<<b[1], b[2]>>) = 2
          OBVIOUS
        <4>3. QED
          BY <2>1, <3>1, <4>1, <4>2
      <3>2. CASE t # "program_change"
        <4>1. b = <<b[1], b[2], b[3]>> /\ b[3] \in 0 .. 127
          BY <1>1, <1>2, <3>2, VoiceBytes
        <4>2. Len(<<b[1], b[2], b[3]>>) = 3
          OBVIOUS
        <4>3. QED
          BY <2>1, <3>2, <4>1, <4>2
      <3>3. QED
        BY <3>1, <3>2
    <2>3. midi_payload_range(t) = <<0, 127>>
      BY <1>7 DEF midi_payload_range
    <2>4. midi_payload_range(t)[1] = 0 /\ midi_payload_range(t)[2] = 127
      BY <2>3
    <2>5. r \in Int /\ 0 <= r /\ r <= 127
      <3>1. \A x \in 0 .. 127 : x \in Int /\ 0 <= x /\ x <= 127
        OBVIOUS
      <3>2. QED
        BY <2>2, <3>1, Zenon
    <2>6. /\ b[Len(b)] = 127 => r = 127
          /\ b[Len(b)] = 0 => r = 0
      BY <2>2, Zenon
    <2>7. QED
      BY <1>5, <2>4, <2>5, <2>6 DEF t
  <1>8. QED
    BY <1>6, <1>7

(* What scaling needs of multiplication.                                   *)
LEMMA Products ==
  /\ \A k, n, d \in Nat : k <= n => 0 <= k * d /\ k * d <= n * d
  /\ \A d \in Int : 0 * d = 0
  /\ \A n, x, y \in Int : n * (y - x) = y * n - x * n /\ n * (y - x) = -(n * (x - y))
  OBVIOUS

(* A linear scale stays between its ends and reaches them.                 *)
LEMMA LinearParts ==
  ASSUME NEW lo \in Int, NEW hi \in Int, NEW r \in Int, lo < hi, lo <= r, r <= hi,
         NEW min \in Int, NEW max \in Int
  PROVE  LET n == hi - lo
             v == min * n + (r - lo) * (max - min)
         IN /\ \/ min * n <= v /\ v <= max * n
               \/ max * n <= v /\ v <= min * n
            /\ r = hi => v = max * n
            /\ r = lo => v = min * n
  <1> DEFINE n == hi - lo
             k == r - lo
             up == max - min
             down == min - max
  <1>1. n \in Nat /\ k \in Nat /\ k <= n /\ (r = hi => k = n) /\ (r = lo => k = 0)
    OBVIOUS
  <1>2. up \in Int /\ down \in Int
    OBVIOUS
  <1>3. /\ n * up = max * n - min * n /\ k * up = -(k * down) /\ n * up = -(n * down)
        /\ max * n \in Int /\ min * n \in Int
    BY <1>1, Products
  <1>4. CASE min <= max
    <2>1. up \in Nat
      BY <1>4
    <2> HIDE DEF n, k, up, down
    <2>2. 0 <= k * up /\ k * up <= n * up /\ k * up \in Int /\ (k = 0 => k * up = 0)
      BY <1>1, <2>1, Products
    <2>3. /\ min * n <= min * n + k * up /\ min * n + k * up <= max * n
          /\ k = n => min * n + k * up = max * n
          /\ k = 0 => min * n + k * up = min * n
      BY <1>3, <2>2
    <2>4. QED
      BY <1>1, <2>3 DEF n, k, up
  <1>5. CASE max < min
    <2>1. down \in Nat
      BY <1>5
    <2> HIDE DEF n, k, up, down
    <2>2. /\ 0 <= k * down /\ k * down <= n * down /\ k * down \in Int /\ n * down \in Int
          /\ k = 0 => k * down = 0
      BY <1>1, <2>1, Products
    <2>3. /\ max * n <= min * n + k * up /\ min * n + k * up <= min * n
          /\ k = n => min * n + k * up = max * n
          /\ k = 0 => min * n + k * up = min * n
      BY <1>3, <2>2
    <2>4. QED
      BY <1>1, <2>3 DEF n, k, up
  <1>6. QED
    BY <1>4, <1>5

-----------------------------------------------------------------------------
(* OSC messages.                                                           *)

Filled(vs) == [i \in DOMAIN vs |-> [osc |-> SendKind(vs[i]), val |-> vs[i].val]]

(* What is sent of vals[n + 1], vals[n + 2] and so on.                     *)
Sent(msg, vals, n) ==
  /\ n <= Len(vals)
  /\ msg.args = [i \in 1 .. Len(vals) - n |->
                   [osc |-> SendKind(vals[n + i]), val |-> vals[n + i].val]]

(* A message is refused or carries all its arguments (register_send_osc).  *)
LEMMA MessageParts ==
  \A to, path, vs :
    \/ Message(to, path, vs) = Refused
    \/ Message(to, path, vs) = [failed |-> FALSE, to |-> to, path |-> path, args |-> Filled(vs)]
  <1> SUFFICES ASSUME NEW to, NEW path, NEW vs
               PROVE  \/ Message(to, path, vs) = Refused
                      \/ Message(to, path, vs) =
                           [failed |-> FALSE, to |-> to, path |-> path, args |-> Filled(vs)]
    OBVIOUS
  <1>1. Converted(vs) = {} \/ Converted(vs) = {Filled(vs)}
    BY DEF Converted, Filled
  <1>2. QED
    BY <1>1 DEF Message

(* A call that is refused, or goes nowhere, sends nothing.                 *)
LEMMA NothingSent ==
  /\ Refused.to = {} /\ Refused.failed = TRUE
  /\ Nowhere.to = {} /\ Nowhere.failed = FALSE
  BY DEF Refused, Nowhere

(* A message to an address or a named target carries everything behind its *)
(* path.                                                                   *)
LEMMA AddressedParts ==
  ASSUME NEW to, NEW vals, IsList(vals), NEW msg, msg = Addressed(to, vals)
  PROVE  \/ msg = Refused
         \/ /\ msg.failed = FALSE /\ msg.to = to /\ msg.path \in Paths
            /\ Sent(msg, vals, 2)
  <1>1. CASE Len(vals) > 1 /\ IsPath(vals[2])
    <2> DEFINE rest == SubSeq(vals, 3, Len(vals))
    <2>1. msg = Message(to, vals[2].val, rest) /\ vals[2].val \in Paths
      BY <1>1 DEF Addressed, IsPath
    <2>2. /\ Len(vals) \in Nat /\ 2 <= Len(vals)
          /\ DOMAIN rest = 1 .. Len(vals) - 2
          /\ \A i \in 1 .. Len(vals) - 2 : rest[i] = vals[2 + i]
      BY <1>1 DEF IsList
    <2> HIDE DEF rest
    <2>3. CASE msg = Refused
      BY <2>3
    <2>4. CASE /\ msg.failed = FALSE /\ msg.to = to /\ msg.path = vals[2].val
               /\ msg.args = Filled(rest)
      <3>1. msg.args = [i \in 1 .. Len(vals) - 2 |->
                          [osc |-> SendKind(vals[2 + i]), val |-> vals[2 + i].val]]
        BY <2>2, <2>4 DEF Filled
      <3>2. QED
        BY <2>1, <2>2, <2>4, <3>1 DEF Sent
    <2>5. msg = Message(to, vals[2].val, rest)
      BY <2>1
    <2>6. \/ msg = Refused
          \/ /\ msg.failed = FALSE /\ msg.to = to /\ msg.path = vals[2].val
             /\ msg.args = Filled(rest)
      BY <2>5, MessageParts
    <2>7. QED
      BY <2>3, <2>4, <2>6
  <1>2. CASE ~(Len(vals) > 1 /\ IsPath(vals[2]))
    BY <1>2 DEF Addressed
  <1>3. QED
    BY <1>1, <1>2

(* So does one that begins with its path, to the only target or to all     *)
(* subscribers.                                                            *)
LEMMA BroadcastParts ==
  ASSUME NEW targets, NEW cache, NEW vals, IsList(vals), vals # <<>>, vals[1].val \in Paths,
         Range(targets) \subseteq Hosts, NEW msg, msg = Broadcast(targets, cache, vals)
  PROVE  \/ msg \in {Refused, Nowhere}
         \/ /\ msg.failed = FALSE /\ msg.to \subseteq Hosts /\ msg.path \in Paths
            /\ Sent(msg, vals, 1)
  <1> DEFINE rest == Tail(vals)
  <1>1. /\ Len(vals) \in Nat /\ 1 <= Len(vals)
        /\ DOMAIN rest = 1 .. Len(vals) - 1
        /\ \A i \in 1 .. Len(vals) - 1 : rest[i] = vals[1 + i]
    BY DEF IsList
  <1>2. \/ msg \in {Refused, Nowhere}
        \/ \E to \in SUBSET Hosts : msg = Message(to, vals[1].val, rest)
    <2>1. targets = <<>> => Cardinality(DOMAIN targets) # 1
      BY FS_EmptySet
    <2>2. cache \cap Hosts \in SUBSET Hosts /\ Range(targets) \in SUBSET Hosts
      OBVIOUS
    <2> HIDE DEF rest
    <2>3. CASE Cardinality(DOMAIN targets) = 1
      BY <2>1, <2>2, <2>3 DEF Broadcast, rest
    <2>4. CASE Cardinality(DOMAIN targets) # 1 /\ targets = <<>>
      BY <2>2, <2>4 DEF Broadcast, rest
    <2>5. CASE Cardinality(DOMAIN targets) # 1 /\ targets # <<>>
      BY <2>5 DEF Broadcast, rest
    <2>6. QED
      BY <2>3, <2>4, <2>5
  <1> HIDE DEF rest
  <1>3. CASE \E to \in SUBSET Hosts : msg = Message(to, vals[1].val, rest)
    <2>1. PICK to \in SUBSET Hosts : msg = Message(to, vals[1].val, rest)
      BY <1>3
    <2>2. CASE msg = Refused
      BY <2>2
    <2>3. CASE /\ msg.failed = FALSE /\ msg.to = to /\ msg.path = vals[1].val
               /\ msg.args = Filled(rest)
      <3>1. msg.args = [i \in 1 .. Len(vals) - 1 |->
                          [osc |-> SendKind(vals[1 + i]), val |-> vals[1 + i].val]]
        BY <1>1, <2>3 DEF Filled
      <3>2. QED
        BY <1>1, <2>1, <2>3, <3>1 DEF Sent
    <2>4. msg = Message(to, vals[1].val, rest)
      BY <2>1
    <2>5. \/ msg = Refused
          \/ /\ msg.failed = FALSE /\ msg.to = to /\ msg.path = vals[1].val
             /\ msg.args = Filled(rest)
      BY <2>4, MessageParts
    <2>6. QED
      BY <2>2, <2>3, <2>5
  <1>4. QED
    BY <1>2, <1>3

(* A message goes to addresses, by a path, with all it was given after     *)
(* them, or it goes to nobody.                                             *)
LEMMA SendParts ==
  ASSUME NEW targets, NEW cache, NEW vals, IsList(vals),
         \A t \in targets : Range(t) \subseteq Hosts,
         NEW msg, msg = send_osc(targets, cache, vals)
  PROVE  /\ msg.to \subseteq Hosts
         /\ msg.failed => msg.to = {}
         /\ msg.to # {} => /\ msg.path \in Paths
                           /\ vals # <<>>
                           /\ Sent(msg, vals, IF vals[1].val \in Paths THEN 1 ELSE 2)
  <1> DEFINE t == CHOOSE u \in targets : TRUE
  <1>1. CASE targets = {} \/ vals = <<>> \/ ~IsText(vals[1])
    <2>1. msg \in {Refused, Nowhere}
      BY <1>1 DEF send_osc
    <2>2. QED
      BY <2>1, NothingSent
  <1>2. CASE targets # {} /\ vals # <<>> /\ IsText(vals[1])
    <2>1. t \in targets /\ Range(t) \subseteq Hosts
      BY <1>2
    <2>2. msg = IF vals[1].val \in Hosts THEN Addressed({vals[1].val}, vals)
                ELSE IF vals[1].val \in Paths THEN Broadcast(t, cache, vals)
                ELSE IF vals[1].val \in DOMAIN t THEN Addressed({t[vals[1].val]}, vals)
                ELSE Refused
      BY <1>2 DEF send_osc
    <2> HIDE DEF t
    <2>3. CASE vals[1].val \in Hosts
      <3>1. vals[1].val \notin Paths
        BY <2>3, AddressesAreNoPaths
      <3>2. msg = Addressed({vals[1].val}, vals) /\ {vals[1].val} \subseteq Hosts
        BY <2>2, <2>3
      <3>3. \/ msg = Refused
            \/ /\ msg.failed = FALSE /\ msg.to = {vals[1].val} /\ msg.path \in Paths
               /\ Sent(msg, vals, 2)
        BY <3>2, AddressedParts
      <3>4. QED
        BY <1>2, <3>1, <3>2, <3>3, NothingSent
    <2>4. CASE vals[1].val \notin Hosts /\ vals[1].val \in Paths
      <3>1. msg = Broadcast(t, cache, vals)
        BY <2>2, <2>4
      <3>2. \/ msg \in {Refused, Nowhere}
            \/ /\ msg.failed = FALSE /\ msg.to \subseteq Hosts /\ msg.path \in Paths
               /\ Sent(msg, vals, 1)
        BY <1>2, <2>1, <2>4, <3>1, BroadcastParts
      <3>3. QED
        BY <1>2, <2>4, <3>2, NothingSent
    <2>5. CASE vals[1].val \notin Hosts /\ vals[1].val \notin Paths /\ vals[1].val \in DOMAIN t
      <3>1. t[vals[1].val] \in Hosts
        BY <2>1, <2>5 DEF Range
      <3>2. msg = Addressed({t[vals[1].val]}, vals) /\ {t[vals[1].val]} \subseteq Hosts
        BY <2>2, <2>5, <3>1
      <3>3. \/ msg = Refused
            \/ /\ msg.failed = FALSE /\ msg.to = {t[vals[1].val]} /\ msg.path \in Paths
               /\ Sent(msg, vals, 2)
        BY <3>2, AddressedParts
      <3>4. QED
        BY <1>2, <2>5, <3>2, <3>3, NothingSent
    <2>6. CASE vals[1].val \notin Hosts /\ vals[1].val \notin Paths /\ vals[1].val \notin DOMAIN t
      BY <2>2, <2>6, NothingSent
    <2>7. QED
      BY <2>3, <2>4, <2>5, <2>6
  <1>3. QED
    BY <1>1, <1>2

(* A script that walks the arguments finds all before the first Nil        *)
(* (osc_message_to_lua).                                                   *)
LEMMA WalkParts ==
  ASSUME NEW args \in Packets, NEW found, found = Walk(osc_message_to_lua(args))
  PROVE  /\ IsList(found)
         /\ \A i \in DOMAIN args :
              (\A j \in 1 .. i : args[j].osc # "Nil")
                => i \in 1 .. Len(found) /\ found[i] = osc_type_to_lua_value(args[i])
  <1> DEFINE D   == {j \in DOMAIN args : args[j].osc # "Nil"}
             tab == [j \in D |-> osc_type_to_lua_value(args[j])]
             S   == {n \in Nat : n + 1 \notin D}
             Stops(n) == 1 .. n \subseteq D /\ n + 1 \notin D
             n   == CHOOSE k \in 0 .. Cardinality(D) : Stops(k)
  <1>1. args \in Seq(Range(args)) /\ Len(args) \in Nat /\ DOMAIN args = 1 .. Len(args)
    BY PacketsAreOsc DEF IsList
  <1>2. D \subseteq 1 .. Len(args) /\ D \subseteq Nat
    BY <1>1
  <1>3. IsFiniteSet(D) /\ Cardinality(D) \in Nat
    <2>1. IsFiniteSet(1 .. Len(args))
      BY <1>1, FS_Interval
    <2> HIDE DEF D
    <2>2. IsFiniteSet(D)
      BY <1>2, <2>1, FS_Subset
    <2>3. QED
      BY <2>2, FS_CardinalityType
  <1>4. \E k \in 0 .. Cardinality(D) : Stops(k)
    <2>1. Len(args) \in S /\ S \in SUBSET Nat
      BY <1>1, <1>2
    <2>2. PICK k \in S : \A m \in S : k <= m
      <3> HIDE DEF S
      <3>1. QED
        BY <2>1, Least
    <2>3. k \in Nat /\ k + 1 \notin D
      BY <2>2
    <2>4. ASSUME NEW i \in 1 .. k, i \notin D PROVE FALSE
      <3>1. i - 1 \in S
        BY <2>3, <2>4
      <3>2. k <= i - 1
        <4> HIDE DEF S
        <4>1. QED
          BY <2>2, <3>1
      <3>3. QED
        BY <2>3, <3>2
    <2>5. 1 .. k \subseteq D
      BY <2>4
    <2>6. Cardinality(1 .. k) = k /\ Cardinality(1 .. k) <= Cardinality(D)
      <3> HIDE DEF D
      <3>1. Cardinality(1 .. k) = k
        BY <2>3, FS_Interval
      <3>2. QED
        BY <1>3, <2>5, <3>1, FS_Subset
    <2>7. k \in 0 .. Cardinality(D)
      <3> HIDE DEF D
      <3>1. QED
        BY <1>3, <2>3, <2>6
    <2>8. QED
      BY <2>3, <2>5, <2>7
  <1>5. n \in 0 .. Cardinality(D) /\ Stops(n)
    BY <1>4
  <1>6. found = [i \in 1 .. n |-> tab[i]]
    <2>1. osc_message_to_lua(args) = tab /\ DOMAIN tab = D
      BY DEF osc_message_to_lua
    <2> HIDE DEF D, tab
    <2>2. QED
      BY <2>1 DEF Walk
  <1> HIDE DEF n
  <1>7. n \in Nat /\ 1 .. n \subseteq D
    BY <1>3, <1>5
  <1>8. \A i \in 1 .. n : tab[i] = osc_type_to_lua_value(args[i])
    BY <1>7
  <1> HIDE DEF tab
  <1>9. DOMAIN found = 1 .. n /\ Len(found) = n /\ IsList(found)
    BY <1>6, <1>7 DEF IsList, Range
  <1>10. ASSUME NEW i \in DOMAIN args, \A j \in 1 .. i : args[j].osc # "Nil"
         PROVE  i \in 1 .. n
    <2>1. 1 .. i \subseteq D /\ i \in Nat /\ i >= 1
      BY <1>1, <1>10
    <2>2. n + 1 \notin 1 .. i
      BY <1>5, <2>1
    <2>3. QED
      BY <1>7, <2>1, <2>2
  <1>11. QED
    BY <1>6, <1>8, <1>9, <1>10

Answer(host, path, found) ==
  <<[lua |-> "string", val |-> host], [lua |-> "string", val |-> path]>> \o found

Echoed(args, msg) ==
  \A i \in DOMAIN args :
    (\A j \in 1 .. i : args[j].osc # "Nil")
      => /\ i \in DOMAIN msg.args
         /\ msg.args[i].val = args[i].val
         /\ args[i].osc \in Range(OscKind) => msg.args[i].osc = args[i].osc

(* What comes back to a sender is what it sent.                            *)
LEMMA Echo ==
  ASSUME NEW args \in Packets, NEW targets, NEW cache, \A t \in targets : Range(t) \subseteq Hosts,
         NEW host \in Hosts, NEW path \in Paths,
         NEW found, found = Walk(osc_message_to_lua(args)),
         NEW msg, msg = send_osc(targets, cache, Answer(host, path, found))
  PROVE  /\ msg.to \subseteq Hosts /\ (msg.to # {} => msg.path \in Paths)
         /\ msg.failed => msg.to = {}
         /\ msg.to # {} => Echoed(args, msg)
  <1> DEFINE vals == Answer(host, path, found)
  <1>1. IsList(found)
    BY WalkParts
  <1>2. /\ IsList(vals) /\ Len(vals) = 2 + Len(found) /\ Len(found) \in Nat
        /\ vals[1] = [lua |-> "string", val |-> host]
        /\ \A i \in 1 .. Len(found) : vals[2 + i] = found[i]
    <2> DEFINE a == [lua |-> "string", val |-> host]
               b == [lua |-> "string", val |-> path]
               T == {a, b} \cup Range(found)
    <2>1. found \in Seq(T) /\ <<a, b>> \in Seq(T)
      BY <1>1 DEF IsList
    <2> HIDE DEF a, b, T
    <2>2. vals = <<a, b>> \o found
      BY DEF Answer, a, b
    <2> HIDE DEF vals
    <2>3. /\ vals \in Seq(T) /\ Len(vals) = 2 + Len(found) /\ Len(found) \in Nat
          /\ vals[1] = a
          /\ \A i \in 1 .. Len(found) : vals[2 + i] = found[i]
      BY <2>1, <2>2
    <2>4. IsList(vals)
      BY <2>3 DEF IsList, Range
    <2>5. QED
      BY <2>3, <2>4 DEF a
  <1> HIDE DEF vals
  <1>3. host \notin Paths
    BY AddressesAreNoPaths
  <1>4. msg = send_osc(targets, cache, vals)
    BY DEF vals
  <1>5. /\ msg.to \subseteq Hosts /\ (msg.to # {} => msg.path \in Paths)
        /\ msg.failed => msg.to = {}
        /\ msg.to # {} => Sent(msg, vals, 2)
    BY <1>2, <1>3, <1>4, SendParts
  <1>6. ASSUME msg.to # {}, NEW i \in DOMAIN args, \A j \in 1 .. i : args[j].osc # "Nil"
        PROVE  /\ i \in DOMAIN msg.args
               /\ msg.args[i].val = args[i].val
               /\ args[i].osc \in Range(OscKind) => msg.args[i].osc = args[i].osc
    <2>1. i \in 1 .. Len(found) /\ found[i] = osc_type_to_lua_value(args[i])
      BY <1>6, WalkParts
    <2>2. /\ i \in DOMAIN msg.args
          /\ msg.args[i] = [osc |-> SendKind(found[i]), val |-> found[i].val]
      BY <1>2, <1>5, <1>6, <2>1 DEF Sent
    <2>3. args[i].osc \in DOMAIN LuaKind /\ args[i].osc # "Nil"
      <3>1. i \in 1 .. i
        BY <1>2, <2>1
      <3>2. QED
        BY <1>6, <3>1, PacketsAreOsc
    <2>4. msg.args[i].val = args[i].val /\ msg.args[i].osc = OscKind[LuaKind[args[i].osc]]
      BY <2>1, <2>2 DEF osc_type_to_lua_value, SendKind
    <2>5. ASSUME NEW k \in Range(OscKind), k # "Nil" PROVE OscKind[LuaKind[k]] = k
      <3>1. k \in {"Int", "Float", "String", "Bool"}
        BY <2>5 DEF Range, OscKind
      <3>2. QED
        BY <3>1 DEF OscKind, LuaKind
    <2>6. QED
      BY <2>2, <2>3, <2>4, <2>5
  <1>7. QED
    BY <1>5, <1>6 DEF Echoed

-----------------------------------------------------------------------------
(* The inductive invariant: the route is what its declarations make it,    *)
(* and what the script holds comes from the event that is handled.         *)

StartInv ==
  /\ given \in Givens
  /\ route # Idle => route = [TheDecl EXCEPT !.connect = TheConnect]
  /\ \/ ~socket /\ sender = {}
     \/ socket /\ (route # Idle => sender = Sender(TheDecl, given.global, Hosts))
  /\ \A t \in sender : Range(t) \subseteq Hosts

IdleInv == event = Idle /\ sets = {} /\ midi = {} /\ osc = Nowhere

MidiInv ==
  \E b \in Arrivals :
    /\ event = [kind |-> "Midi", body |-> b]
    /\ sets = dispatch_midi(midi_bytes_to_lua(b))
    /\ \A m \in midi : m[2] \in lua_to_midi_bytes(table)
    /\ osc = Nowhere

OscInv ==
  \E args \in Packets :
    /\ event = [kind |-> "Osc", body |-> args]
    /\ table = osc_message_to_lua(args)
    /\ sets = {} /\ midi = {}
    /\ \/ osc = Nowhere
       \/ \E host \in Hosts, path \in Paths :
            osc = send_osc(sender, subs, Answer(host, path, Walk(table)))

TimerInv ==
  /\ event = [kind |-> "Timer", body |-> <<>>]
  /\ sets = {} /\ midi = {}
  /\ \/ osc = Nowhere
     \/ table \in Calls /\ osc = send_osc(sender, subs, table)

EventInv == IdleInv \/ (route # Idle /\ (MidiInv \/ OscInv \/ TimerInv))

IInv == StartInv /\ EventInv

(* The event that is handled tells which part of the invariant holds.      *)
LEMMA Kinds ==
  ASSUME EventInv
  PROVE  /\ event = Idle => IdleInv
         /\ event # Idle => route # Idle
         /\ Handling("Midi") => MidiInv
         /\ Handling("Osc") => OscInv
         /\ Handling("Timer") => TimerInv
  <1>1. MidiInv => event # Idle /\ event.kind = "Midi"
    BY IdleIsNoEvent DEF MidiInv
  <1>2. OscInv => event # Idle /\ event.kind = "Osc"
    BY IdleIsNoEvent DEF OscInv
  <1>3. TimerInv => event # Idle /\ event.kind = "Timer"
    BY IdleIsNoEvent DEF TimerInv
  <1>4. IdleInv => event = Idle
    BY DEF IdleInv
  <1>5. QED
    BY <1>1, <1>2, <1>3, <1>4 DEF EventInv, Handling

(* The inductive invariant holds initially.                                *)
LEMMA Initially == Init => IInv
  BY DEF Init, IInv, StartInv, EventInv, IdleInv

(* What Route::start made of the declarations stays as long as the route.  *)
LEMMA StartKept == StartInv /\ [Next]_vars => StartInv'
  <1> SUFFICES ASSUME StartInv, [Next]_vars PROVE StartInv'
    OBVIOUS
  <1>1. CASE Start
    <2>1. TheDecl = extract_all_decls(given.script, given.section, Hosts)
      BY DEF TheDecl
    <2>2. /\ given' = given
          /\ route' = [TheDecl EXCEPT !.connect = TheConnect]
          /\ socket' \in BOOLEAN
          /\ sender' = IF socket' THEN Sender(TheDecl, given.global, Hosts) ELSE {}
      BY <1>1 DEF Start, TheDecl, TheConnect
    <2>3. TheDecl' = TheDecl /\ TheConnect' = TheConnect
      BY <2>2 DEF TheDecl, TheConnect
    <2>4. given \in Givens
      BY DEF StartInv
    <2>5. \A t \in sender' : Range(t) \subseteq Hosts
      BY <2>2, <2>4, SenderParts
    <2>6. QED
      BY <2>2, <2>3, <2>4, <2>5 DEF StartInv
  <1>2. CASE UNCHANGED startVars
    BY <1>2 DEF StartInv, startVars, TheDecl, TheConnect
  <1>3. QED
    BY <1>1, <1>2
    DEF Next, vars, startVars, MidiIn, OscIn, Recache, TickIn, Drop, Change, Send, SendOsc, Reply, Return

(* Every step keeps EventInv: what is sent belongs to the event that is    *)
(* handled and to the table the script holds.                              *)
LEMMA EventKept == EventInv /\ [Next]_vars => EventInv'
  <1> SUFFICES ASSUME EventInv, [Next]_vars PROVE EventInv'
    OBVIOUS
  <1>1. CASE Start
    <2>1. IdleInv /\ UNCHANGED <<event, sets, midi, osc>>
      BY <1>1, Kinds DEF Start
    <2>2. QED
      BY <2>1 DEF EventInv, IdleInv
  <1>2. ASSUME NEW b \in Arrivals, MidiIn(b) PROVE EventInv'
    <2>1. IdleInv /\ route # Idle
      BY <1>2, Kinds DEF MidiIn, Waiting
    <2>2. MidiInv'
      BY <1>2, <2>1 DEF MidiIn, MidiInv, IdleInv, dispatch_midi, Bound
    <2>3. QED
      BY <1>2, <2>1, <2>2 DEF EventInv, MidiIn, startVars
  <1>3. ASSUME NEW args \in Packets, OscIn(args) PROVE EventInv'
    <2>1. IdleInv /\ route # Idle
      BY <1>3, Kinds DEF OscIn, Waiting
    <2>2. OscInv'
      BY <1>3, <2>1 DEF OscIn, OscInv, IdleInv
    <2>3. QED
      BY <1>3, <2>1, <2>2 DEF EventInv, OscIn, startVars
  <1>4. CASE TickIn
    <2>1. IdleInv /\ route # Idle
      BY <1>4, Kinds DEF TickIn, Waiting
    <2>2. TimerInv'
      BY <1>4, <2>1 DEF TickIn, TimerInv, IdleInv
    <2>3. QED
      BY <1>4, <2>1, <2>2 DEF EventInv, TickIn, startVars
  <1>5. ASSUME NEW S \in Caches, Recache(S) PROVE EventInv'
    <2>1. IdleInv
      BY <1>5, Kinds DEF Recache, Waiting
    <2>2. QED
      BY <1>5, <2>1 DEF EventInv, IdleInv, Recache
  <1>6. ASSUME \/ \E f \in MessageFields : Drop(f)
               \/ \E f \in MessageFields, n \in Numbers : Change(f, n)
        PROVE  EventInv'
    <2>1. Handling("Midi") /\ midi = {} /\ UNCHANGED <<startVars, event, sets, midi, osc>>
      BY <1>6 DEF Drop, Change
    <2>2. MidiInv /\ route # Idle
      BY <2>1, Kinds DEF Handling
    <2>3. MidiInv'
      BY <2>1, <2>2 DEF MidiInv
    <2>4. QED
      BY <2>1, <2>2, <2>3 DEF EventInv, startVars
  <1>7. ASSUME NEW port, Send(port) PROVE EventInv'
    <2>1. /\ Handling("Midi") /\ UNCHANGED <<startVars, event, table, sets, osc>>
          /\ midi' = IF port \in Range(route.ports.out)
                     THEN {<<port, b>> : b \in lua_to_midi_bytes(table)} ELSE {}
      BY <1>7 DEF Send
    <2>2. MidiInv /\ route # Idle
      BY <2>1, Kinds DEF Handling
    <2>3. \A m \in midi' : m[2] \in lua_to_midi_bytes(table)
      BY <2>1
    <2>4. lua_to_midi_bytes(table') = lua_to_midi_bytes(table)
      BY <2>1
    <2>5. MidiInv'
      BY <2>1, <2>2, <2>3, <2>4 DEF MidiInv
    <2>6. QED
      BY <2>1, <2>2, <2>5 DEF EventInv, startVars
  <1>8. ASSUME NEW v \in Calls, SendOsc(v) PROVE EventInv'
    <2>1. TimerInv /\ route # Idle
      BY <1>8, Kinds DEF SendOsc, Handling
    <2>2. TimerInv'
      BY <1>8, <2>1 DEF SendOsc, TimerInv, startVars
    <2>3. QED
      BY <1>8, <2>1, <2>2 DEF EventInv, SendOsc, startVars
  <1>9. ASSUME NEW host \in Hosts, NEW path \in Paths, Reply(host, path) PROVE EventInv'
    <2>1. OscInv /\ route # Idle
      BY <1>9, Kinds DEF Reply, Handling
    <2>2. /\ osc' = send_osc(sender, subs, Answer(host, path, Walk(table)))
          /\ UNCHANGED <<startVars, subs, event, table, sets, midi>>
      BY <1>9 DEF Reply, Answer
    <2>3. OscInv'
      BY <2>1, <2>2 DEF OscInv, startVars
    <2>4. QED
      BY <2>1, <2>2, <2>3 DEF EventInv, startVars
  <1>10. CASE Return
    BY <1>10 DEF Return, EventInv, IdleInv
  <1>11. CASE UNCHANGED vars
    BY <1>11 DEF vars, EventInv, IdleInv, MidiInv, OscInv, TimerInv, dispatch_midi, Bound
  <1>12. QED
    BY <1>1, <1>2, <1>3, <1>4, <1>5, <1>6, <1>7, <1>8, <1>9, <1>10, <1>11 DEF Next

(* The inductive invariant holds throughout: the route is what             *)
(* Route::start (route.rs:246-375) made of its declarations, and what      *)
(* leaves it belongs to the event its loop handles (route.rs:831-970).     *)
THEOREM Invariant == Spec => []IInv
  <1>1. IInv /\ [Next]_vars => IInv'
    BY StartKept, EventKept DEF IInv
  <1>2. QED
    BY <1>1, Initially, PTL DEF Spec

-----------------------------------------------------------------------------
(* Theorems.                                                               *)

(* What an OSC callback has sent went to addresses by a path, or nowhere   *)
(* (register_send_osc).                                                    *)
LEMMA OscParts ==
  ASSUME IInv
  PROVE  /\ osc.to \subseteq Hosts /\ (osc.to # {} => osc.path \in Paths)
         /\ osc.failed => osc.to = {}
  <1>1. CASE osc = Nowhere
    BY <1>1, NothingSent
  <1>2. \A t \in sender : Range(t) \subseteq Hosts
    BY DEF IInv, StartInv
  <1>3. CASE \E args \in Packets, host \in Hosts, path \in Paths :
               osc = send_osc(sender, subs, Answer(host, path, Walk(osc_message_to_lua(args))))
    <2>1. PICK args \in Packets, host \in Hosts, path \in Paths :
                 osc = send_osc(sender, subs, Answer(host, path, Walk(osc_message_to_lua(args))))
      BY <1>3
    <2> DEFINE found == Walk(osc_message_to_lua(args))
    <2>2. found = Walk(osc_message_to_lua(args)) /\ osc = send_osc(sender, subs, Answer(host, path, found))
      BY <2>1
    <2> HIDE DEF found
    <2>3. osc.to \subseteq Hosts /\ (osc.to # {} => osc.path \in Paths) /\ (osc.failed => osc.to = {})
      BY <1>2, <2>2, Echo
    <2>4. QED
      BY <2>3
  <1>4. CASE table \in Calls /\ osc = send_osc(sender, subs, table)
    <2>1. IsList(table)
      BY <1>4, CallsAreLists
    <2>2. QED
      BY <1>2, <1>4, <2>1, SendParts
  <1>5. QED
    BY <1>1, <1>3, <1>4 DEF IInv, EventInv, IdleInv, MidiInv, OscInv, TimerInv

(* Every state is well typed (Route::start, lua_to_midi_bytes, send_osc),  *)
(* whatever declarations routes are given, whatever arrives and whatever   *)
(* scripts write.                                                          *)
THEOREM TypeCorrect == Spec => []TypeOK
  <1>1. ASSUME IInv PROVE TypeOK
    <2>1. given \in Givens /\ (route # Idle => route = [TheDecl EXCEPT !.connect = TheConnect])
      BY <1>1 DEF IInv, StartInv
    <2>2. ASSUME route # Idle
          PROVE  /\ route.receive \in Nat /\ route.receive <= 65535
                 /\ \A d \in Directions : \A p \in DOMAIN route.connect[d] :
                      route.connect[d][p] # <<>> /\ NotAString \notin Range(route.connect[d][p])
      <3>1. route.receive = TheDecl.receive /\ route.connect = TheConnect
        BY <2>1, <2>2, GivensAreDeclarations DEF TheDecl, extract_all_decls, Decl
      <3>2. QED
        BY <2>1, <3>1, ReceiveInRange, Resolved
    <2>3. \A m \in midi : Range(m[2]) \subseteq Byte
      <3>1. midi = {} \/ \A m \in midi : m[2] \in lua_to_midi_bytes(table)
        BY <1>1 DEF IInv, EventInv, IdleInv, MidiInv, OscInv, TimerInv
      <3>2. QED
        BY <3>1, BytesOut
    <2>4. QED
      BY <1>1, <2>2, <2>3, OscParts DEF TypeOK
  <1>2. QED
    BY <1>1, Invariant, PTL

(* A started route has the ports, patterns and targets it was given.       *)
LEMMA RouteParts ==
  ASSUME IInv, route # Idle
  PROVE  /\ given \in Givens
         /\ route.ports = TheDecl.ports /\ route.receive = TheDecl.receive
         /\ route.connect = TheConnect
         /\ socket => sender = Sender(TheDecl, given.global, Hosts)
  <1>1. given \in Givens /\ route = [TheDecl EXCEPT !.connect = TheConnect]
        /\ (socket => sender = Sender(TheDecl, given.global, Hosts))
    BY DEF IInv, StartInv
  <1>2. QED
    BY <1>1, GivensAreDeclarations DEF TheDecl, extract_all_decls, Decl

(* Every port is connected to the whole of one declaration before which    *)
(* there is no other, in the order the code and its documentation agree    *)
(* on, for all declarations there may be (extract_all_decls,               *)
(* apply_connect_defaults).                                                *)
THEOREM PatternsResolved == Spec => []ConnectResolved
  <1>1. ASSUME IInv, route # Idle, NEW d \in Directions, NEW p \in Range(route.ports[d])
        PROVE  LET said == Candidates(d, p)
                   says == {i \in DOMAIN said : said[i] # <<>>}
                   at   == At(route.connect[d], p)
               IN \/ at = <<>> /\ (says = {} \/ (says = {5} /\ ~Bare))
                  \/ \E i \in says : at = said[i] /\ \A j \in says : ~Before(j, i)
    <2> DEFINE said == Candidates(d, p)
               says == {i \in DOMAIN said : said[i] # <<>>}
    <2>1. /\ given \in Givens /\ route.connect = TheConnect
          /\ p \in Range(TheDecl.ports[d])
      BY <1>1, RouteParts
    <2>2. \/ says = {} /\ At(TheConnect[d], p) = <<>>
          \/ \E i \in says : (\A j \in says : i <= j) /\ At(TheConnect[d], p) = said[i]
      BY <2>1, ByRank
    <2>3. DOMAIN said = 1 .. 5
      BY DEF Candidates
    <2>4. \A i, j \in 1 .. 5 : i <= j => ~Before(j, i)
      BY DEF Before
    <2> HIDE DEF said
    <2>5. QED
      BY <2>1, <2>2, <2>3, <2>4 DEF said
  <1>2. IInv => ConnectResolved
    BY <1>1 DEF ConnectResolved
  <1>3. QED
    BY <1>2, Invariant, PTL

(* A send() without a port has a port to go to, and a route that may       *)
(* receive OSC can answer, unless no socket could be opened                *)
(* (parse_port_decl_from_lua, Route::start).                               *)
THEOREM ScriptsAreHeard == Spec => []SendsPossible
  <1>1. ASSUME IInv PROVE SendsPossible
    <2>1. ASSUME route # Idle PROVE default_out \in Range(route.ports.out)
      <3>1. IsList(route.ports.out) /\ route.ports.out # <<>>
        <4>1. "out" \in Directions
          BY DEF Directions
        <4>2. IsList(TheDecl.ports["out"]) /\ TheDecl.ports["out"] # <<>>
          BY <1>1, <2>1, <4>1, RouteParts, PortsGiven
        <4>3. QED
          BY <1>1, <2>1, <4>2, RouteParts
      <3>2. default_out = route.ports.out[1] /\ 1 \in DOMAIN route.ports.out
        BY <3>1 DEF default_out, IsList
      <3>3. QED
        BY <3>2 DEF Range
    <2>2. ASSUME route # Idle, socket, route.receive # 0 \/ given.global.receive # 0
          PROVE  sender # {}
      BY <1>1, <2>2, RouteParts, SenderParts
    <2>3. QED
      BY <2>1, <2>2 DEF SendsPossible, DefaultSendLands, RepliesPossible
  <1>2. QED
    BY <1>1, Invariant, PTL

(* The arguments of a message are sent all or not at all, and unchanged,   *)
(* for every list of arguments (register_send_osc, osc_message_to_lua,     *)
(* lua_val_to_osc_type).                                                   *)
THEOREM ArgumentsAreKept == Spec => []ArgumentsKept
  <1>1. ASSUME IInv PROVE ArgumentsKept
    <2>1. EventInv /\ \A t \in sender : Range(t) \subseteq Hosts
      BY <1>1 DEF IInv, StartInv
    <2>2. OscComplete
      <3>1. SUFFICES ASSUME Handling("Timer"), osc.to # {}
                     PROVE  LET n == IF table[1].val \in Paths THEN 1 ELSE 2
                            IN /\ Len(osc.args) = Len(table) - n
                               /\ \A i \in DOMAIN osc.args : osc.args[i].val = table[n + i].val
        BY DEF OscComplete
      <3>2. table \in Calls /\ osc = send_osc(sender, subs, table)
        BY <2>1, <3>1, Kinds, NothingSent DEF TimerInv
      <3>3. IsList(table) /\ Len(table) \in Nat
        BY <3>2, CallsAreLists DEF IsList
      <3> DEFINE n == IF table[1].val \in Paths THEN 1 ELSE 2
      <3>4. Sent(osc, table, n) /\ n \in Nat
        BY <2>1, <3>1, <3>2, <3>3, SendParts
      <3> HIDE DEF n
      <3>5. /\ Len(osc.args) = Len(table) - n
            /\ \A i \in DOMAIN osc.args : osc.args[i].val = table[n + i].val
        BY <3>3, <3>4 DEF Sent
      <3>6. QED
        BY <3>5 DEF n
    <2>3. EchoKept
      <3>1. SUFFICES ASSUME Handling("Osc"), osc.to # {}, NEW i \in DOMAIN event.body,
                            \A j \in 1 .. i : event.body[j].osc # "Nil"
                     PROVE  /\ i \in DOMAIN osc.args
                            /\ osc.args[i].val = event.body[i].val
                            /\ event.body[i].osc \in Range(OscKind)
                                 => osc.args[i].osc = event.body[i].osc
        BY DEF EchoKept
      <3>2. PICK args \in Packets :
                   /\ event = [kind |-> "Osc", body |-> args]
                   /\ table = osc_message_to_lua(args)
                   /\ \/ osc = Nowhere
                      \/ \E host \in Hosts, path \in Paths :
                           osc = send_osc(sender, subs, Answer(host, path, Walk(table)))
        BY <2>1, <3>1, Kinds DEF OscInv
      <3>3. PICK host \in Hosts, path \in Paths :
                   osc = send_osc(sender, subs, Answer(host, path, Walk(osc_message_to_lua(args))))
        BY <3>1, <3>2, NothingSent
      <3> DEFINE found == Walk(osc_message_to_lua(args))
      <3>4. event.body = args /\ found = Walk(osc_message_to_lua(args))
            /\ osc = send_osc(sender, subs, Answer(host, path, found))
        BY <3>2, <3>3
      <3> HIDE DEF found
      <3>5. Echoed(args, osc)
        <4>1. \A t \in sender : Range(t) \subseteq Hosts
          BY <2>1
        <4>2. osc.to # {}
          BY <3>1
        <4>3. QED
          BY <3>4, <4>1, <4>2, Echo
      <3>6. QED
        BY <3>1, <3>4, <3>5 DEF Echoed
    <2>4. QED
      BY <2>2, <2>3 DEF ArgumentsKept
  <1>2. QED
    BY <1>1, Invariant, PTL

(* For every message and every number a script writes: a message sent as   *)
(* it was received leaves as it came, but for the note_off that came as a  *)
(* note_on of velocity 0; any other keeps the type and channel of its      *)
(* table; and a bend whose sum fits 16 bits saturates (midi_bytes_to_lua,  *)
(* lua_to_midi_bytes).                                                     *)
THEOREM MessagesAreKept == Spec => []MidiKept
  <1>1. ASSUME IInv PROVE MidiKept
    <2>1. ASSUME Handling("Midi")
          PROVE  /\ \E b \in Arrivals : event.body = b
                 /\ \A m \in midi : m[2] \in lua_to_midi_bytes(table)
      BY <1>1, <2>1, Kinds DEF IInv, MidiInv
    <2>2. PassThrough
      BY <2>1, RoundTrip DEF PassThrough, Untouched
    <2>3. StatusKept
      <3>1. SUFFICES ASSUME Handling("Midi"), table.type \in Voices, NEW m \in midi
                     PROVE  /\ m[2][1] \div 16 = Nibble[table.type]
                            /\ Field(table, "channel") \subseteq 1 .. 16
                                 => (m[2][1] % 16) + 1 \in Field(table, "channel")
        BY DEF StatusKept
      <3>2. m[2] \in lua_to_midi_bytes(table)
        BY <2>1, <3>1
      <3>3. m[2][1] \div 16 = Nibble[table.type] /\ \E c \in Channel(table) : m[2][1] % 16 = c
        BY <3>1, <3>2, BytesOut
      <3>4. QED
        BY <3>3, ChannelParts
    <2>4. BendSaturates
      <3>1. SUFFICES ASSUME Handling("Midi"), table.type = "pitch_bend", NEW m \in midi,
                            NEW v \in Field(table, "value"), IsI16(v), IsI16(v + 8192)
                     PROVE  (m[2][2] + 128 * m[2][3]) - 8192
                              = IF v < -8192 THEN -8192 ELSE IF v > 8191 THEN 8191 ELSE v
        BY DEF BendSaturates
      <3>2. m[2] \in lua_to_midi_bytes(table)
        BY <2>1, <3>1
      <3>3. PICK w \in Field(table, "value") : m[2][2] + 128 * m[2][3] = Bend(w)
        BY <3>1, <3>2, BytesOut
      <3>4. w = v
        BY Numbered
      <3> DEFINE bent == IF v < -8192 THEN -8192 ELSE IF v > 8191 THEN 8191 ELSE v
      <3>5. Bend(v) = bent + 8192
        BY <3>1, BendParts
      <3>6. bent \in Int
        BY <3>1 DEF IsI16
      <3>7. m[2][2] + 128 * m[2][3] = bent + 8192
        BY <3>3, <3>4, <3>5
      <3> DEFINE sent == m[2][2] + 128 * m[2][3]
      <3>8. sent - 8192 = bent
        <4>1. sent = bent + 8192
          BY <3>7
        <4> HIDE DEF sent, bent
        <4>2. QED
          BY <3>6, <4>1
      <3> HIDE DEF bent
      <3>9. QED
        BY <3>8 DEF bent
    <2>5. QED
      BY <2>2, <2>3, <2>4 DEF MidiKept
  <1>2. QED
    BY <1>1, Invariant, PTL

(* A param bound to MIDI is set within its scale and to its ends, and never *)
(* by a release (apply_midi_scale, midi_key_from_table), for all bindings. *)
THEOREM ParamsFollowControls == Spec => []ParamsFollow
  <1>1. ASSUME IInv, NEW s \in sets
        PROVE  \E b \in Arrivals :
                 /\ event.body = b
                 /\ s.by \in Bound(midi_bytes_to_lua(b))
                 /\ \A v \in s.value :
                      \E r \in midi_payload_raw(midi_bytes_to_lua(b)) :
                        v = apply_midi_scale(r, s.by.scale, midi_bytes_to_lua(b).type)
    <2>1. PICK b \in Arrivals : event = [kind |-> "Midi", body |-> b]
                                /\ sets = dispatch_midi(midi_bytes_to_lua(b))
      BY <1>1 DEF IInv, EventInv, IdleInv, MidiInv, OscInv, TimerInv
    <2>2. event.body = b
      BY <2>1
    <2> DEFINE m == midi_bytes_to_lua(b)
    <2> HIDE DEF m
    <2>3. s \in dispatch_midi(m)
      BY <2>1 DEF m
    <2>4. PICK k \in Bound(m) :
                 s = [by |-> k, value |-> IF midi_payload_raw(m) = {} THEN {}
                                          ELSE {apply_midi_scale(r, k.scale, m.type) :
                                                  r \in midi_payload_raw(m)}]
      BY <2>3 DEF dispatch_midi
    <2>5. /\ s.by \in Bound(m)
          /\ \A v \in s.value : \E r \in midi_payload_raw(m) : v = apply_midi_scale(r, s.by.scale, m.type)
      BY <2>4
    <2>6. QED
      BY <2>2, <2>5 DEF m
  <1>2. ASSUME IInv PROVE ScaledInRange
    <2>1. SUFFICES ASSUME NEW s \in sets, NEW v \in s.value, s.by.scale.kind = "linear"
                   PROVE  LET min == s.by.scale.min
                              max == s.by.scale.max
                              raw == CHOOSE r \in midi_payload_raw(midi_bytes_to_lua(event.body)) : TRUE
                              last == event.body[Len(event.body)]
                          IN /\ \/ min * v[2] <= v[1] /\ v[1] <= max * v[2]
                                \/ max * v[2] <= v[1] /\ v[1] <= min * v[2]
                             /\ raw \in {127, 8191} /\ last = 127 => v[1] = max * v[2]
                             /\ raw \in {0, -8192} /\ last = 0 => v[1] = min * v[2]
      BY DEF ScaledInRange
    <2>2. PICK b \in Arrivals :
                 /\ event.body = b
                 /\ s.by \in Bound(midi_bytes_to_lua(b))
                 /\ \E r \in midi_payload_raw(midi_bytes_to_lua(b)) :
                      v = apply_midi_scale(r, s.by.scale, midi_bytes_to_lua(b).type)
      BY <1>1, <1>2, <2>1
    <2> DEFINE m   == midi_bytes_to_lua(b)
               lo  == midi_payload_range(m.type)[1]
               hi  == midi_payload_range(m.type)[2]
               min == s.by.scale.min
               max == s.by.scale.max
    <2>3. PICK r \in midi_payload_raw(m) : v = apply_midi_scale(r, s.by.scale, m.type)
      BY <2>2
    <2>4. /\ midi_payload_raw(m) = {r}
          /\ lo \in Int /\ hi \in Int /\ r \in Int /\ lo < hi /\ lo <= r /\ r <= hi
          /\ r \in {127, 8191} /\ b[Len(b)] = 127 => r = hi
          /\ r \in {0, -8192} /\ b[Len(b)] = 0 => r = lo
      BY <2>3, Payload
    <2>5. v = <<min * (hi - lo) + (r - lo) * (max - min), hi - lo>>
      BY <2>1, <2>3 DEF apply_midi_scale, Linear
    <2>6. min \in Int /\ max \in Int
      BY <2>1, <2>2, BindingsHaveKeys DEF Bound
    <2>7. (CHOOSE u \in midi_payload_raw(m) : TRUE) = r
      BY <2>4
    <2> HIDE DEF m, lo, hi, min, max
    <2>8. /\ \/ min * v[2] <= v[1] /\ v[1] <= max * v[2]
             \/ max * v[2] <= v[1] /\ v[1] <= min * v[2]
          /\ r = hi => v[1] = max * v[2]
          /\ r = lo => v[1] = min * v[2]
      <3> DEFINE n == hi - lo
                 w == min * n + (r - lo) * (max - min)
      <3>1. v[1] = w /\ v[2] = n
        BY <2>5
      <3>2. /\ \/ min * n <= w /\ w <= max * n
               \/ max * n <= w /\ w <= min * n
            /\ r = hi => w = max * n
            /\ r = lo => w = min * n
        BY <2>4, <2>6, LinearParts
      <3> HIDE DEF n, w
      <3>3. QED
        BY <3>1, <3>2
    <2>9. QED
      BY <2>2, <2>4, <2>7, <2>8 DEF m, min, max
  <1>3. ASSUME IInv PROVE PressIsPress
    BY <1>1, <1>3, PressFound DEF PressIsPress
  <1>4. IInv => ParamsFollow
    BY <1>2, <1>3 DEF ParamsFollow
  <1>5. QED
    BY <1>4, Invariant, PTL
=============================================================================
