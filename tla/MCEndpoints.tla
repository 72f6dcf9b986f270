---------------------------- MODULE MCEndpoints ----------------------------
(***************************************************************************)
(* The daemon of the system and a user's, two starts among them, so that   *)
(* either may be started again after its end; two clients, a queue that    *)
(* one command fills, and one port that routes need at times.  A packet    *)
(* with a message in bundles as deep as is allowed, and one deeper.        *)
(***************************************************************************)
EXTENDS Endpoints

MCNeeds   == {{}, {9001}}
MCPackets == {<<16, 17>>}
=============================================================================
