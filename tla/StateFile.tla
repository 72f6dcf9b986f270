----------------------------- MODULE StateFile -----------------------------
(***************************************************************************)
(* The file in which one route keeps its state (src/src/lua_api.rs:        *)
(* load_json_state, save_json_state; src/src/route.rs:                     *)
(* register_state_functions), the instances of the route that write it,    *)
(* and the ways the daemon ends (src/src/main.rs: graceful_shutdown).      *)
(*                                                                         *)
(* An instance that is replaced or removed is not stopped (RouteInstance,  *)
(* Drop): it goes on running its callbacks, and saving, until the process  *)
(* ends.  A save opens the file, which truncates it, and writes the text   *)
(* from the beginning, in one write or in several; each writer has its own *)
(* place in the file.  A text that is not whole does not parse, and then   *)
(* load_state() answers with an empty table.  The file outlives the        *)
(* daemon; the machine does not crash.                                     *)
(***************************************************************************)
EXTENDS Naturals, Sequences, FiniteSets

CONSTANTS Instances,   \* the instances one process may have
          Values,      \* what scripts save
          Size,        \* how many writes the text of a value takes
          Blank,       \* the empty table
          None,        \* no instance
          Hole         \* what a file holds where nothing was written

ASSUME SizeAssumption == Size \in [Values -> Nat \ {0}]

(* A saved table that is empty has a text, and is a value like any other.  *)
ASSUME BlankAssumption == Blank \notin Values
ASSUME InstancesAssumption == IsFiniteSet(Instances) /\ None \notin Instances

VARIABLES file,     \* the text in the file
          writes,   \* of each instance that saves: [val, done, alone]
          phase,    \* of each instance
          current,  \* the instance in the routes map, or None
          daemon,   \* "up", "stopping", "stopped" or "killed"
          loaded,   \* what load_state() gave each instance in on_startup
          saved,    \* the value of the last save that was carried out
          torn,     \* a save was cut off, failed or met another one since
          last      \* of the last stop: what on_shutdown saved, whether that
                    \* worked, and how many instances there were
vars == <<file, writes, phase, current, daemon, loaded, saved, torn, last>>

-----------------------------------------------------------------------------
Text(v) == [i \in 1 .. Size[v] |-> <<v, i>>]

(* A cell written at place k of a text f.                                  *)
Written(f, k, cell) ==
  [i \in 1 .. (IF k > Len(f) THEN k ELSE Len(f)) |->
     IF i = k THEN cell ELSE IF i <= Len(f) THEN f[i] ELSE Hole]

load_json_state ==
  IF \E v \in Values : file = Text(v) THEN CHOOSE v \in Values : file = Text(v) ELSE Blank

Idle == [val |-> Blank, done |-> 0, alone |-> TRUE]

Saving(i) == writes[i].val # Blank

Writers == {i \in Instances : Saving(i)}

Alive == {i \in Instances : phase[i] \in {"running", "stopping"}}

Init ==
  /\ file = <<>>
  /\ writes = [i \in Instances |-> Idle]
  /\ phase = [i \in Instances |-> "new"]
  /\ current = None
  /\ daemon = "up"
  /\ loaded = [i \in Instances |-> Blank]
  /\ saved = Blank
  /\ torn = FALSE
  /\ last = [val |-> Blank, failed |-> FALSE, crowd |-> 0]

-----------------------------------------------------------------------------
(* Saving.                                                                 *)

(* Mutation: the file is opened as it is.                                  *)
MutantOpened(f) == f

Opened(f) == <<>>

(* save_state() as far as the opening of the file.  Two saves at a time    *)
(* are in each other's way.                                                *)
Open(i, v) ==
  /\ ~Saving(i)
  /\ file' = Opened(file)
  /\ writes' = [j \in Instances |->
                  IF j = i THEN [val |-> v, done |-> 0, alone |-> Writers = {}]
                  ELSE [writes[j] EXCEPT !.alone = FALSE]]
  /\ UNCHANGED <<current, daemon, loaded, saved, torn>>

(* From a callback of an instance, whether it is the current one or not.   *)
Save(i, v) ==
  /\ phase[i] = "running" /\ daemon \in {"up", "stopping"}
  /\ Open(i, v)
  /\ UNCHANGED <<phase, last>>

(* Mutation: the loop goes on after on_shutdown.                           *)
MutantReturned(i) == phase

(* A save returns; that of on_shutdown is the last thing its loop does.    *)
Returned(i) == [phase EXCEPT ![i] = IF @ = "stopping" THEN "ended" ELSE @]

Write(i) ==
  /\ Saving(i)
  /\ LET w == writes[i]
         finished == w.done + 1 = Size[w.val]
     IN /\ file' = Written(file, w.done + 1, <<w.val, w.done + 1>>)
        /\ writes' = IF finished THEN [writes EXCEPT ![i] = Idle]
                     ELSE [writes EXCEPT ![i].done = @ + 1]
        /\ phase' = IF finished THEN Returned(i) ELSE phase
        /\ saved' = IF finished THEN w.val ELSE saved
        /\ torn' = IF finished THEN ~w.alone ELSE torn
  /\ UNCHANGED <<current, daemon, loaded, last>>

(* No room on the device, say: the error is logged.                        *)
WriteFails(i) ==
  /\ Saving(i)
  /\ writes' = [writes EXCEPT ![i] = Idle]
  /\ phase' = Returned(i)
  /\ torn' = TRUE
  /\ last' = [last EXCEPT !.failed = @ \/ phase[i] = "stopping"]
  /\ UNCHANGED <<file, current, daemon, loaded, saved>>

-----------------------------------------------------------------------------
(* The daemon.                                                             *)

(* A first start, a reload or a new start of the route: its on_startup     *)
(* loads the state.                                                        *)
Start(i) ==
  /\ daemon = "up" /\ phase[i] = "new"
  /\ phase' = [phase EXCEPT ![i] = "running"]
  /\ current' = i
  /\ loaded' = [loaded EXCEPT ![i] = load_json_state]
  /\ UNCHANGED <<file, writes, daemon, saved, torn, last>>

(* The script's file is deleted.                                           *)
Remove ==
  /\ daemon = "up" /\ current # None
  /\ current' = None
  /\ UNCHANGED <<file, writes, phase, daemon, loaded, saved, torn, last>>

(* SIGTERM: the routes in the map are told to shut down.                   *)
Stop ==
  /\ daemon = "up"
  /\ daemon' = "stopping"
  /\ UNCHANGED <<file, writes, phase, current, loaded, saved, torn, last>>

(* The current instance comes to its Shutdown event, and its on_shutdown   *)
(* saves v.                                                                *)
Shutdown(v) ==
  /\ daemon = "stopping" /\ current # None
  /\ phase[current] = "running"
  /\ Open(current, v)
  /\ phase' = [phase EXCEPT ![current] = "stopping"]
  /\ last' = [val |-> v, failed |-> FALSE, crowd |-> Cardinality(Alive)]

(* Or it saves nothing: there is no on_shutdown or none that saves, or its *)
(* save fails before the file is opened.  A save from another callback     *)
(* that fails there changes nothing.                                       *)
ShutdownUnsaved ==
  /\ daemon = "stopping" /\ current # None
  /\ phase[current] = "running" /\ ~Saving(current)
  /\ phase' = [phase EXCEPT ![current] = "ended"]
  /\ last' = [val |-> Blank, failed |-> FALSE, crowd |-> 0]
  /\ UNCHANGED <<file, writes, current, daemon, loaded, saved, torn>>

(* The process ends, and with it the instances and what they write.        *)
Ends(how) ==
  /\ daemon' = how
  /\ writes' = [i \in Instances |-> Idle]
  /\ phase' = [i \in Instances |-> "new"]
  /\ current' = None
  /\ loaded' = [i \in Instances |-> Blank]
  /\ torn' = (torn \/ Writers # {})
  /\ UNCHANGED <<file, saved>>

(* Mutation: the loops are told to end and not waited for.                 *)
MutantJoined == current # None => phase[current] \in {"stopping", "ended"}

(* main has joined the loop of the route in the map.                       *)
Joined == current # None => phase[current] = "ended"

Exit ==
  /\ daemon = "stopping" /\ Joined
  /\ last' = IF current = None THEN [last EXCEPT !.val = Blank] ELSE last
  /\ Ends("stopped")

(* SIGKILL, a panic of the process.                                        *)
Kill ==
  /\ daemon \in {"up", "stopping"}
  /\ Ends("killed")
  /\ UNCHANGED last

Restart ==
  /\ daemon \in {"stopped", "killed"}
  /\ daemon' = "up"
  /\ UNCHANGED <<file, writes, phase, current, loaded, saved, torn, last>>

Next ==
  \/ \E i \in Instances : Start(i) \/ Write(i) \/ WriteFails(i)
  \/ \E i \in Instances, v \in Values : Save(i, v)
  \/ \E v \in Values : Shutdown(v)
  \/ ShutdownUnsaved \/ Remove \/ Stop \/ Exit \/ Kill \/ Restart

Spec == Init /\ [][Next]_vars

-----------------------------------------------------------------------------
(* Properties.                                                             *)

(* Every state is well typed, and a writer is within its text.             *)
TypeOK ==
  /\ \A k \in DOMAIN file : file[k] = Hole \/ file[k][1] \in Values
  /\ \A i \in Instances :
       /\ Saving(i) => writes[i].val \in Values /\ writes[i].done < Size[writes[i].val]
       /\ Saving(i) => i \in Alive
       /\ phase[i] = "stopping" => Saving(i) /\ daemon = "stopping" /\ i = current
       /\ loaded[i] \in Values \cup {Blank}
  /\ current \in Alive \cup {i \in Instances : phase[i] = "ended"} \cup {None}
  /\ daemon \in {"up", "stopping", "stopped", "killed"}

(* Between saves the file holds, whole, the value saved last, unless the   *)
(* last save was cut off by the end of the process, failed, or ran while   *)
(* another instance saved.  In particular nothing is left of a longer text *)
(* that was there before.                                                  *)
SavedState ==
  (Writers = {} /\ ~torn) => IF saved = Blank THEN file = <<>> ELSE file = Text(saved)

(* After a graceful shutdown the file holds what on_shutdown saved, if the *)
(* save worked and no earlier instance of the route was still running.     *)
ShutdownSaved ==
  (daemon = "stopped" /\ last.val # Blank /\ ~last.failed /\ last.crowd = 1)
    => file = Text(last.val)

(* After a graceful shutdown whose last save worked, load_state() gives    *)
(* what on_shutdown saved: "always use systemctl stop to preserve state"   *)
(* (README).  It does not hold.                                            *)
StopPreservesState ==
  (daemon = "stopped" /\ last.val # Blank /\ ~last.failed) => load_json_state = last.val
=============================================================================
