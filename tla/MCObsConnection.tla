-------------------------- MODULE MCObsConnection --------------------------
(***************************************************************************)
(* Two routes that make two calls between them, in any split, a queue that *)
(* is full with one request, and a connection that is added, reconfigured  *)
(* or removed.                                                             *)
(***************************************************************************)
EXTENDS ObsConnection
=============================================================================
