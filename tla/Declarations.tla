---------------------------- MODULE Declarations ----------------------------
(***************************************************************************)
(* What a route is given to work with: its ports, connect patterns, OSC    *)
(* and OBS declarations, resolved from the table its init() returns, its   *)
(* section of config.toml and the global defaults (src/src/route.rs:       *)
(* extract_all_decls, apply_connect_defaults and their helpers).           *)
(*                                                                         *)
(* A list, in Lua or in TOML, is a sequence of names or patterns with      *)
(* NotAString in the place of what is none; a single string stands for     *)
(* the list of it where the code takes both, and a value of another kind   *)
(* for the empty list.  A port is a name, and the name "" stands for all   *)
(* the ports of a direction, as in the code.                               *)
(***************************************************************************)
EXTENDS Integers, Sequences, Functions

CONSTANT NotAString

Directions == {"in", "out"}

All == ""

DefaultPorts == [in |-> <<"default">>, out |-> <<"default">>]

(* What no script declares.                                                *)
NoConnect == [in |-> <<>>, out |-> <<>>]

-----------------------------------------------------------------------------
(* Lists: Lua's end at the first value that is no string, TOML's skip it.  *)

LuaList(v) ==
  LET n == CHOOSE n \in 0 .. Len(v) :
             /\ \A i \in 1 .. n : v[i] # NotAString
             /\ n < Len(v) => v[n + 1] = NotAString
  IN SubSeq(v, 1, n)

TomlList(v) ==
  LET kept[n \in 0 .. Len(v)] ==
        IF n = 0 THEN <<>>
        ELSE IF v[n] = NotAString THEN kept[n - 1] ELSE Append(kept[n - 1], v[n])
  IN kept[Len(v)]

(* The entries of f that are not empty.                                    *)
Given(f) == [p \in {q \in DOMAIN f : f[q] # <<>>} |-> f[p]]

(* The entries of f, and those of g that f lacks.                          *)
Over(f, g) == [p \in DOMAIN f \cup DOMAIN g |-> IF p \in DOMAIN f THEN f[p] ELSE g[p]]

-----------------------------------------------------------------------------
(* Patterns.                                                               *)

connect_from_lua_table(c) ==
  [d \in Directions |-> Given([p \in DOMAIN c[d] |-> LuaList(c[d][p])])]

(* Mutation: the section comes before the script.                          *)
MutantFromToml(lua, c) ==
  [d \in Directions |-> Over(Given([p \in DOMAIN c[d] |-> TomlList(c[d][p])]), lua[d])]

(* The script comes before the section, port by port.                      *)
connect_from_toml(lua, c) ==
  [d \in Directions |-> Over(lua[d], Given([p \in DOMAIN c[d] |-> TomlList(c[d][p])]))]

(* Ports without patterns of their own take those of All, and the global   *)
(* ones only in a direction that says nothing else.  A global is a list of *)
(* one pattern or of none.                                                 *)

apply_connect_defaults(raw, ports, global) ==
  [d \in Directions |->
     LET named == DOMAIN raw[d] \ {All}
         all   == IF All \in DOMAIN raw[d] THEN raw[d][All]
                  ELSE IF DOMAIN raw[d] = {} THEN global[d] ELSE <<>>
     IN Given([p \in named \cup {ports[d][i] : i \in DOMAIN ports[d]} |->
                 IF p \in named THEN raw[d][p] ELSE all])]

-----------------------------------------------------------------------------
(* Ports, OSC and OBS.                                                     *)

(* Mutation: one of the two lists is enough.                               *)
MutantPorts(ports) == IF ports.in = <<>> /\ ports.out = <<>> THEN {} ELSE {ports}

(* Ports count only if both directions have some.                          *)
Complete(ports) == IF ports.in = <<>> \/ ports.out = <<>> THEN {} ELSE {ports}

Either(options, default) == IF options = {} THEN default ELSE CHOOSE x \in options : TRUE

parse_port_decl_from_lua(ports) ==
  Either(Complete([d \in Directions |-> LuaList(ports[d])]), DefaultPorts)

parse_port_decl_from_toml(ports) == Complete([d \in Directions |-> TomlList(ports[d])])

(* Mutation: a port of more than 16 bits is kept.                          *)
MutantReceive(n) == IF n > 0 THEN n ELSE 0

(* 0 is no port.                                                           *)
ReceivePort(n) == IF 0 < n /\ n <= 65535 THEN n ELSE 0

(* Targets whose address does not parse are left out.                      *)
SendTargets(send, hosts) == [n \in {m \in DOMAIN send : send[m] \in hosts} |-> send[n]]

Decl(ports, connect, receive, send, obs) ==
  [ports |-> ports, connect |-> connect, receive |-> receive, send |-> send, obs |-> obs]

(* A script that does not load gets the default ports, one that loads but  *)
(* has no table to return those of its section.                            *)
extract_all_decls(script, section, hosts) ==
  CASE script.kind = "table" ->
         Decl(parse_port_decl_from_lua(script.ports),
              connect_from_toml(connect_from_lua_table(script.connect), section.connect),
              ReceivePort(script.receive), SendTargets(script.send, hosts), LuaList(script.obs))
    [] script.kind = "plain" ->
         Decl(Either(parse_port_decl_from_toml(section.ports), DefaultPorts),
              connect_from_toml(NoConnect, section.connect), 0, <<>>, <<>>)
    [] script.kind = "broken" ->
         Decl(DefaultPorts, connect_from_toml(NoConnect, section.connect), 0, <<>>, <<>>)

(* Mutation: the port all routes share is forgotten.                       *)
MutantSender(decl, global, hosts) ==
  IF decl.send # <<>> THEN {decl.send}
  ELSE IF global.send \in hosts THEN {[default |-> global.send]}
  ELSE IF decl.receive # 0 THEN {<<>>} ELSE {}

(* The targets of the sender: none at all, or a function, which is empty   *)
(* for a route that only answers.                                          *)
Sender(decl, global, hosts) ==
  IF decl.send # <<>> THEN {decl.send}
  ELSE IF global.send \in hosts THEN {[default |-> global.send]}
  ELSE IF decl.receive # 0 \/ global.receive # 0 THEN {<<>>}
  ELSE {}
=============================================================================
