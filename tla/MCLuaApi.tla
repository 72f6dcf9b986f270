------------------------------ MODULE MCLuaApi ------------------------------
(***************************************************************************)
(* Declarations: every script, section and global default that can be made *)
(* of two port names and a pattern of its own for each place where one may *)
(* stand, with lists that are empty, or broken by something that is no     *)
(* string.  Traffic: one route that has everything, and three that differ  *)
(* in their targets, with the ends and the middle of every field.          *)
(***************************************************************************)
EXTENDS LuaApi

MCHosts == {"h1", "h2", "h3"}
MCPaths == {"/p"}

Both(in, out) == [in |-> in, out |-> out]

PortLists == {Both(<<>>, <<"p">>), Both(<<"p">>, <<>>), Both(<<"p", NotAString>>, <<"q">>),
              Both(<<"p", "q">>, <<"p">>), Both(<<NotAString, "p">>, <<"q">>)}

SectionPorts == {Both(<<>>, <<"p">>), Both(<<NotAString, "p">>, <<"q">>)}

(* The entries for one direction, of one declaration.                      *)
Entries(ports, p, all) ==
  {(x :> l) @@ (All :> m) : x \in ports, l \in {<<>>, <<p>>, <<NotAString, p>>},
                            m \in {<<>>, <<all>>}}

NoList(c) == [d \in Directions |-> <<>>]

Script(kind, ports, connect, receive, send) ==
  [kind |-> kind, ports |-> ports, connect |-> connect, receive |-> receive,
   send |-> send, obs |-> <<"main">>]

Global(in, receive, send) ==
  [connect |-> Both(in, <<"g">>), receive |-> receive, send |-> send]

(* Everything about ports and patterns.                                    *)
Declared ==
  {[script  |-> Script(kind, lp, Both(li, NoConnect.out), 0, <<>>),
    section |-> [ports |-> sp, connect |-> Both(si, All :> <<"o">>)],
    global  |-> Global(g, 0, "")] :
     kind \in {"table", "plain", "broken"}, lp \in PortLists, sp \in SectionPorts,
     li \in Entries({"p"}, "a", "b"), si \in Entries({"p", "default"}, "c", "d"),
     g \in {<<>>, <<"g">>}}

(* Everything about OSC.                                                   *)
Talking ==
  {[script  |-> Script("table", Both(<<"p">>, <<"q", "p">>), NoConnect, r, s),
    section |-> [ports |-> NoConnect, connect |-> NoConnect],
    global  |-> Global(<<>>, gr, gs)] :
     r \in {0, 9000, 65536}, gr \in {0, 9000}, gs \in {"", "h3", "bad"},
     s \in {<<>>, "t" :> "h1", "t" :> "bad", ("t" :> "h1") @@ ("u" :> "h2")}}

MCGivens == Declared \cup Talking

MCBusy == {g \in Talking : g.script.receive = 9000 /\ g.global.receive = 0 /\ g.global.send = ""
                             /\ g.script.send # "t" :> "bad"}

Sevens == {0, 64, 127}

MCArrivals ==
  {<<(16 * s) + c, x, y>> : s \in {8, 9, 10, 11, 14}, c \in {0, 15}, x \in Sevens, y \in Sevens}
  \cup {<<(16 * s) + 15, x>> : s \in {12, 13}, x \in Sevens}
  \cup {<<248>>, <<250>>, <<251>>, <<252>>, <<254>>, <<240, 1, 247>>}

MCNumbers == {-8193, 0, 16, 17, 255, 256, 8192, 24575, 32767}

Arg(kind, val) == [osc |-> kind, val |-> val]
OscArgs == {Arg("Int", "1"), Arg("Float", "1"), Arg("String", "x"), Arg("Bool", "true"),
            Arg("Nil", ""), Arg("Long", "huge"), Arg("Char", "x"), Arg("Color", "")}

MCPackets == UNION {[1 .. n -> OscArgs] : n \in 0 .. 2}

Value(kind, val) == [lua |-> kind, val |-> val]
Rest == {Value("integer", "1"), Value("integer", "huge"), Value("number", "1"),
         Value("table", ""), Value("string", "/p")}

MCCalls ==
  {<<>>, <<Value("integer", "1")>>}
  \cup {<<Value("string", f)>> \o r : f \in {"/p", "h1", "t", "u", "none"},
                                     r \in UNION {[1 .. n -> Rest] : n \in 0 .. 2}}

MCUnsendable == {"huge"}

Table(type, num) == [type |-> type, num |-> num]
LinearScale(min, max) == [kind |-> "linear", min |-> min, max |-> max]

MCBindings ==
  {[spec |-> Table("note_on", [channel |-> 1, note |-> 64]), scale |-> [kind |-> "raw"]],
   [spec |-> Table("cc", [channel |-> 16, controller |-> 64]), scale |-> LinearScale(10, 0)],
   [spec |-> Table("cc", [channel |-> 16, controller |-> 64]),
    scale |-> [kind |-> "threshold", at |-> 64, invert |-> TRUE]],
   [spec |-> Table("pitch_bend", [channel |-> 1]), scale |-> LinearScale(-2, 2)],
   [spec |-> Table("program_change", [channel |-> 16]), scale |-> LinearScale(0, 1)],
   [spec |-> Table("start", <<>>), scale |-> [kind |-> "raw"]]}

MCCaches == {{}, {"h2", "h3", "bad"}}
=============================================================================
