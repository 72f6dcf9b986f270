---------------------------- MODULE MCOscParams ----------------------------
(***************************************************************************)
(* A param that is read and written and one that is only written; a MIDI   *)
(* key bound to both.                                                      *)
(***************************************************************************)
EXTENDS OscParams

MCParams   == {"volume", "tap"}
MCReadable == {"volume"}
MCWritable == {"volume", "tap"}
MCBound    == <<"volume", "tap">>
MCFlakyBound == <<"volume">>
=============================================================================
