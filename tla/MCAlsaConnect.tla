--------------------------- MODULE MCAlsaConnect ---------------------------
(***************************************************************************)
(* A keyboard and a synthesizer; scripts of two layouts, one connected to  *)
(* the other route's output; "t" is a prefix of "t2" where the run says so.*)
(***************************************************************************)
EXTENDS AlsaConnect

MCPortIds == {"in", "out", "pan"}
MCInputs  == {"in"}
MCSources == {<<"KeyLab", "MIDI">>}
MCSinks   == {<<"Surge", "MIDI">>}
MCScripts == {"a", "b"}
MCPorts   == [s \in MCScripts |-> {"in", IF s = "a" THEN "out" ELSE "pan"}]
MCConnects == [s \in MCScripts |->
  IF s = "a" THEN {<<"out", MCSinks>>}
             ELSE {<<"in", MCSources \cup {<<"t2", "out">>}>>}]

MCDistinct == [r \in {"t", "t2"} |-> {r}]
MCPrefix   == [r \in {"t", "t2"} |-> IF r = "t" THEN {"t", "t2"} ELSE {"t2"}]
=============================================================================
