-------------------------- MODULE MCRouteInstance --------------------------
(***************************************************************************)
(* A channel of two slots, ticks counted modulo 4, and scripts that set a  *)
(* tempo below the clamp or to NaN.                                        *)
(***************************************************************************)
EXTENDS RouteInstance

MCBpmArgs == {1, NaN}

(* No tick can be confused with the one a wrap away while it is queued.    *)
ASSUME TickMod > Cap + 1
=============================================================================
