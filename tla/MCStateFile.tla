---------------------------- MODULE MCStateFile ----------------------------
(***************************************************************************)
(* Three instances in a process, the first two of which may be left over   *)
(* from reloads, and a short and a long text.                              *)
(***************************************************************************)
EXTENDS StateFile, TLC

CONSTANTS short, long

MCSize == (short :> 1) @@ (long :> 2)

InstancesAlike == Permutations(Instances)
=============================================================================
