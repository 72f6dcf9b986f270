----------------------------- MODULE MCDaemon -----------------------------
(***************************************************************************)
(* Two routes and three contents of a file: two with the same ports that   *)
(* differ in what else they declare, and one with other ports.  Two        *)
(* configs: they differ in the settings of the OBS connection and in the   *)
(* global OSC port.                                                        *)
(***************************************************************************)
EXTENDS Daemon, TLC

RoutesAlike == Permutations(Names)

MCScripts  == {"a", "b", "c"}
MCLayout   == [s \in MCScripts |-> IF s = "c" THEN "two ports" ELSE "default"]
MCOscPort  == [s \in MCScripts |-> IF s = "b" THEN {9001} ELSE {}]
MCObsConns == [s \in MCScripts |-> IF s = "b" THEN {} ELSE {"obs"}]
MCConns    == {"obs"}
MCConfigs  == {"v1", "v2"}
MCConfigObs  == [c \in MCConfigs |-> [x \in MCConns |-> IF c = "v1" THEN 1 ELSE 2]]
MCConfigPort == [c \in MCConfigs |-> IF c = "v1" THEN {9000} ELSE {}]
=============================================================================
