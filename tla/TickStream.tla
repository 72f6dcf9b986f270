----------------------------- MODULE TickStream -----------------------------
(***************************************************************************)
(* What the clock of a route promises to the script's on_tick callback:    *)
(* the tick numbers it is called with start at 0 and follow one another,   *)
(* none skipped, repeated or reordered, until the event loop has ended.    *)
(* The number is a u64 that wraps: TickMod stands for 2^64.                *)
(***************************************************************************)
EXTENDS Naturals

CONSTANT TickMod

VARIABLES next,   \* the number the next call of on_tick receives
          alive   \* the event loop may still call on_tick

vars == <<next, alive>>

Init == next = 0 /\ alive = TRUE

Deliver == alive /\ next' = (next + 1) % TickMod /\ alive' = alive

Stop == alive /\ alive' = FALSE /\ next' = next

Next == Deliver \/ Stop

Spec == Init /\ [][Next]_vars
=============================================================================
