-------------------------- MODULE StateFileProofs --------------------------
(***************************************************************************)
(* What the state file of a route holds, for any number of instances, all  *)
(* values and all lengths of their texts: the last save, whole, and after  *)
(* a graceful shutdown what on_shutdown saved.                             *)
(***************************************************************************)
EXTENDS StateFile, FiniteSetTheorems, TLAPS

-----------------------------------------------------------------------------
(* The inductive invariant, by parts.                                      *)

(* The variables TypeOK describes by their parts only.                     *)
Shape ==
  /\ file \in Seq({Hole} \cup Values \X Nat)
  /\ writes \in [Instances -> [val : Values \cup {Blank}, done : Nat, alone : BOOLEAN]]
  /\ phase \in [Instances -> {"new", "running", "stopping", "ended"}]
  /\ loaded \in [Instances -> Values \cup {Blank}]
  /\ current \in Instances \cup {None}
  /\ last \in [val : Values \cup {Blank}, failed : BOOLEAN, crowd : Nat]
  /\ saved \in Values \cup {Blank} /\ torn \in BOOLEAN

(* An instance ends only by on_shutdown, as the current one of a daemon    *)
(* that stops.                                                             *)
EndInv ==
  /\ \A i \in Instances : phase[i] \in {"stopping", "ended"} => daemon = "stopping" /\ i = current
  /\ daemon \in {"stopped", "killed"} => Alive = {}

(* A writer that met no other has written the beginning of its text, and   *)
(* nothing else is in the file.                                            *)
Beginning(v, n) == [k \in 1 .. n |-> <<v, k>>]

AloneInv ==
  \A i \in Writers :
    writes[i].alone => Writers = {i} /\ file = Beginning(writes[i].val, writes[i].done)

(* The last instance alive, once it is shutting down, goes undisturbed.    *)
LastAlone == last.crowd = 1 /\ ~last.failed

LastInv ==
  /\ (/\ daemon = "stopping" /\ current # None
      /\ phase[current] \in {"stopping", "ended"} /\ LastAlone)
     => /\ Alive \subseteq {current}
        /\ phase[current] = "stopping" => /\ writes[current].val = last.val
                                          /\ writes[current].alone
        /\ phase[current] = "ended" => file = Text(last.val)
  /\ ShutdownSaved

IInv == Shape /\ TypeOK /\ EndInv /\ AloneInv /\ SavedState /\ LastInv

-----------------------------------------------------------------------------
(* A set of one element has no other.                                      *)
LEMMA OnlyMember ==
  ASSUME NEW S, IsFiniteSet(S), Cardinality(S) = 1, NEW x \in S
  PROVE  S = {x}
  <1>1. IsFiniteSet(S \ {x}) /\ Cardinality(S \ {x}) = 0
    BY FS_RemoveElement
  <1>2. S \ {x} = {}
    BY <1>1, FS_EmptySet
  <1>3. QED
    BY <1>2

(* Instances that live can be counted.                                     *)
LEMMA AliveFinite == IsFiniteSet(Alive) /\ Cardinality(Alive) \in Nat
  BY FS_Subset, FS_CardinalityType, InstancesAssumption DEF Alive

(* A whole text is its own beginning, and a cell after a beginning makes   *)
(* one that is longer by one.                                              *)
LEMMA TextIsBeginning == \A v \in Values : Text(v) = Beginning(v, Size[v])
  BY DEF Text, Beginning

(* A writer that is alone adds the next piece of its text to the beginning *)
(* it wrote.                                                               *)
LEMMA WrittenBeginning ==
  ASSUME NEW v \in Values, NEW n \in Nat
  PROVE  Written(Beginning(v, n), n + 1, <<v, n + 1>>) = Beginning(v, n + 1)
  <1>1. Len(Beginning(v, n)) = n
    BY SMT DEF Beginning
  <1>2. Written(Beginning(v, n), n + 1, <<v, n + 1>>)
          = [i \in 1 .. n + 1 |-> IF i = n + 1 THEN <<v, n + 1>>
                                  ELSE IF i <= n THEN Beginning(v, n)[i] ELSE Hole]
    BY <1>1, SMT DEF Written
  <1>3. \A i \in 1 .. n + 1 : (IF i = n + 1 THEN <<v, n + 1>>
                               ELSE IF i <= n THEN Beginning(v, n)[i] ELSE Hole) = <<v, i>>
    BY SMT DEF Beginning
  <1>4. QED
    BY <1>2, <1>3 DEF Beginning

(* What is written into a file of pieces leaves one, holes included.       *)
LEMMA WrittenType ==
  ASSUME NEW S, NEW f \in Seq(S), Hole \in S, NEW k \in Nat \ {0}, NEW cell \in S
  PROVE  Written(f, k, cell) \in Seq(S)
  <1> DEFINE n == IF k > Len(f) THEN k ELSE Len(f)
  <1>1. n \in Nat
    BY SMT
  <1>2. \A i \in 1 .. n : (IF i = k THEN cell ELSE IF i <= Len(f) THEN f[i] ELSE Hole) \in S
    BY SMT
  <1>3. QED
    BY <1>1, <1>2, SMT DEF Written

(* The inductive invariant holds initially.                                *)
LEMMA IInvInit == Init => IInv
  <1> SUFFICES ASSUME Init PROVE IInv
    OBVIOUS
  <1> USE DEF Init, Idle, Saving, Writers, Alive
  <1>1. Shape
    <2>1. file \in Seq({Hole} \cup Values \X Nat)
      OBVIOUS
    <2>2. writes \in [Instances -> [val : Values \cup {Blank}, done : Nat, alone : BOOLEAN]]
      BY SMT
    <2>3. last \in [val : Values \cup {Blank}, failed : BOOLEAN, crowd : Nat]
      BY SMT
    <2>4. QED
      BY <2>1, <2>2, <2>3 DEF Shape
  <1>2. TypeOK
    BY DEF TypeOK
  <1>3. EndInv /\ AloneInv /\ SavedState /\ LastInv
    BY DEF EndInv, AloneInv, SavedState, LastInv, ShutdownSaved
  <1>4. QED
    BY <1>1, <1>2, <1>3 DEF IInv

-----------------------------------------------------------------------------
(* One lemma per part, one step per action.                                *)

(* Opening the file truncates it, and tells all writers that they are not  *)
(* alone.                                                                  *)
LEMMA OpenShape ==
  ASSUME Shape, NEW i \in Instances, NEW v \in Values, Open(i, v)
  PROVE  /\ file' = <<>>
         /\ writes' \in [Instances -> [val : Values \cup {Blank}, done : Nat, alone : BOOLEAN]]
         /\ writes'[i] = [val |-> v, done |-> 0, alone |-> Writers = {}]
         /\ \A j \in Instances \ {i} : writes'[j] = [writes[j] EXCEPT !.alone = FALSE]
         /\ UNCHANGED <<current, daemon, loaded, saved, torn>>
  <1>1. \A j \in Instances : [writes[j] EXCEPT !.alone = FALSE]
                               \in [val : Values \cup {Blank}, done : Nat, alone : BOOLEAN]
    BY ZenonT(60) DEF Shape
  <1>2. (Writers = {}) \in BOOLEAN
    OBVIOUS
  <1>3. [val |-> v, done |-> 0, alone |-> Writers = {}]
           \in [val : Values \cup {Blank}, done : Nat, alone : BOOLEAN]
    BY <1>2, SMT
  <1>4. QED
    BY <1>1, <1>3 DEF Open, Opened

(* What load_state returns is a value, or nothing (load_json_state).       *)
LEMMA LoadType == load_json_state \in Values \cup {Blank}
  BY DEF load_json_state

(* A write that completes the text, and one that does not.                 *)
Completes(i) == writes[i].done + 1 = Size[writes[i].val]

(* What a write does: to the file at its own place, and, if it is the      *)
(* last, to the history.                                                   *)
LEMMA WriteParts ==
  ASSUME Shape, NEW i \in Instances, Write(i)
  PROVE  /\ Saving(i)
         /\ file' = Written(file, writes[i].done + 1, <<writes[i].val, writes[i].done + 1>>)
         /\ Completes(i) => /\ writes' = [writes EXCEPT ![i] = Idle]
                            /\ phase' = Returned(i)
                            /\ saved' = writes[i].val /\ torn' = ~writes[i].alone
         /\ ~Completes(i) => /\ writes' = [writes EXCEPT ![i].done = writes[i].done + 1]
                             /\ UNCHANGED <<phase, saved, torn>>
         /\ UNCHANGED <<current, daemon, loaded, last>>
  <1>1. CASE Completes(i)
    BY <1>1 DEF Write, Completes
  <1>2. CASE ~Completes(i)
    BY <1>2 DEF Write, Completes
  <1>3. QED
    BY <1>1, <1>2

(* Types are kept.                                                         *)
LEMMA ShapeStep == Shape /\ TypeOK /\ [Next]_vars => Shape'
  <1> SUFFICES ASSUME Shape, TypeOK, [Next]_vars PROVE Shape'
    OBVIOUS
  <1>1. ASSUME NEW i \in Instances, Start(i) PROVE Shape'
    BY <1>1, LoadType DEF Start, Shape
  <1>2. ASSUME NEW i \in Instances, Write(i) PROVE Shape'
    <2> DEFINE w == writes[i]
    <2>1. /\ w.val \in Values /\ w.done \in Nat /\ w.alone \in BOOLEAN
          /\ w \in [val : Values \cup {Blank}, done : Nat, alone : BOOLEAN]
      <3>1. Saving(i)
        BY <1>2 DEF Write
      <3>2. QED
        BY <3>1 DEF Shape, TypeOK
    <2>2. file' \in Seq({Hole} \cup Values \X Nat)
      <3>1. file' = Written(file, w.done + 1, <<w.val, w.done + 1>>)
        BY <1>2 DEF Write
      <3>2. /\ w.done + 1 \in Nat \ {0}
            /\ <<w.val, w.done + 1>> \in {Hole} \cup Values \X Nat
        BY <2>1, SMT
      <3>3. file \in Seq({Hole} \cup Values \X Nat)
        BY DEF Shape
      <3>4. Hole \in {Hole} \cup Values \X Nat
        OBVIOUS
      <3>5. QED
        BY <3>1, <3>2, <3>3, <3>4, WrittenType
    <2>3. writes' \in [Instances -> [val : Values \cup {Blank}, done : Nat, alone : BOOLEAN]]
      <3>1. CASE Completes(i)
        <4>1. Idle \in [val : Values \cup {Blank}, done : Nat, alone : BOOLEAN]
          BY SMT DEF Idle
        <4>2. QED
          BY <1>2, <3>1, <4>1, WriteParts DEF Shape
      <3>2. CASE ~Completes(i)
        <4>1. writes' = [writes EXCEPT ![i].done = w.done + 1]
          BY <1>2, <3>2, WriteParts
        <4>2. w.done + 1 \in Nat
          BY <2>1, SMT
        <4>3. QED
          BY <4>1, <4>2, ZenonT(60) DEF Shape
      <3>3. QED
        BY <3>1, <3>2
    <2>4. /\ phase' \in [Instances -> {"new", "running", "stopping", "ended"}]
          /\ saved' \in Values \cup {Blank} /\ torn' \in BOOLEAN
      BY <1>2, <2>1 DEF Write, Shape, Returned
    <2>5. QED
      BY <1>2, <2>2, <2>3, <2>4 DEF Write, Shape
  <1>3. ASSUME NEW i \in Instances, WriteFails(i) PROVE Shape'
    <2>1. Idle \in [val : Values \cup {Blank}, done : Nat, alone : BOOLEAN]
      BY SMT DEF Idle
    <2>2. (last.failed \/ phase[i] = "stopping") \in BOOLEAN
      OBVIOUS
    <2>3. last' \in [val : Values \cup {Blank}, failed : BOOLEAN, crowd : Nat]
      BY <1>3, <2>2 DEF WriteFails, Shape
    <2>4. QED
      BY <1>3, <2>1, <2>3 DEF WriteFails, Shape, Returned
  <1>4. ASSUME NEW i \in Instances, NEW v \in Values, Save(i, v) PROVE Shape'
    <2>1. Open(i, v) /\ UNCHANGED <<phase, last>>
      BY <1>4 DEF Save
    <2>2. /\ file' = <<>>
          /\ writes' \in [Instances -> [val : Values \cup {Blank}, done : Nat, alone : BOOLEAN]]
          /\ UNCHANGED <<current, daemon, loaded, saved, torn>>
      BY <2>1, OpenShape
    <2>3. QED
      BY <2>1, <2>2 DEF Shape
  <1>5. ASSUME NEW v \in Values, Shutdown(v) PROVE Shape'
    <2>1. current \in Instances
      BY <1>5 DEF Shutdown, Shape
    <2>2. last' \in [val : Values \cup {Blank}, failed : BOOLEAN, crowd : Nat]
      BY <1>5, AliveFinite, SMT DEF Shutdown
    <2>3. /\ file' = <<>>
          /\ writes' \in [Instances -> [val : Values \cup {Blank}, done : Nat, alone : BOOLEAN]]
          /\ UNCHANGED <<current, daemon, loaded, saved, torn>>
      BY <1>5, <2>1, OpenShape DEF Shutdown
    <2>4. phase' \in [Instances -> {"new", "running", "stopping", "ended"}]
      BY <1>5 DEF Shutdown, Shape
    <2>5. QED
      BY <2>2, <2>3, <2>4 DEF Shape
  <1>6. CASE Remove \/ Stop \/ Restart
    BY <1>6 DEF Remove, Stop, Restart, Shape
  <1>7. ASSUME Exit \/ Kill PROVE Shape'
    <2>1. Idle \in [val : Values \cup {Blank}, done : Nat, alone : BOOLEAN]
      BY SMT DEF Idle
    <2>2. last' \in [val : Values \cup {Blank}, failed : BOOLEAN, crowd : Nat]
      BY <1>7 DEF Exit, Kill, Shape
    <2>3. \E how : Ends(how)
      BY <1>7 DEF Exit, Kill
    <2>4. (torn \/ Writers # {}) \in BOOLEAN
      OBVIOUS
    <2>5. QED
      BY <2>1, <2>2, <2>3, <2>4 DEF Ends, Shape
  <1>8. CASE UNCHANGED vars
    BY <1>8 DEF vars, Shape
  <1>9. CASE ShutdownUnsaved
    <2>1. /\ UNCHANGED <<file, writes, current, daemon, loaded, saved, torn>>
          /\ current \in Instances
          /\ phase' = [phase EXCEPT ![current] = "ended"]
          /\ last' = [val |-> Blank, failed |-> FALSE, crowd |-> 0]
      BY <1>9 DEF ShutdownUnsaved, Shape
    <2>2. last' \in [val : Values \cup {Blank}, failed : BOOLEAN, crowd : Nat]
      BY <2>1
    <2>3. phase' \in [Instances -> {"new", "running", "stopping", "ended"}]
      BY <2>1 DEF Shape
    <2>4. QED
      BY <2>1, <2>2, <2>3 DEF Shape
  <1>10. QED
    BY <1>1, <1>2, <1>3, <1>4, <1>5, <1>6, <1>7, <1>8, <1>9 DEF Next

(* Every step keeps EndInv: an instance ends only by on_shutdown, as the   *)
(* current one of a daemon that stops.                                     *)
LEMMA EndStep == Shape /\ TypeOK /\ EndInv /\ [Next]_vars => EndInv'
  <1> SUFFICES ASSUME Shape, TypeOK, EndInv, [Next]_vars PROVE EndInv'
    OBVIOUS
  <1> USE DEF EndInv, Alive
  <1>1. ASSUME NEW i \in Instances, Start(i) PROVE EndInv'
    BY <1>1 DEF Start, Shape
  <1>2. ASSUME NEW i \in Instances, Write(i) \/ WriteFails(i) PROVE EndInv'
    <2>1. /\ UNCHANGED <<daemon, current>>
          /\ phase' = phase \/ phase' = Returned(i)
      BY <1>2 DEF Write, WriteFails
    <2>2. \A j \in Instances : /\ phase'[j] \in {"stopping", "ended"}
                                    => phase[j] \in {"stopping", "ended"}
                               /\ phase'[j] \in {"running", "stopping"} => j \in Alive
      BY <2>1 DEF Returned, Shape
    <2>3. QED
      BY <2>1, <2>2
  <1>3. ASSUME NEW i \in Instances, NEW v \in Values, Save(i, v) PROVE EndInv'
    BY <1>3 DEF Save, Open
  <1>4. ASSUME NEW v \in Values, Shutdown(v) PROVE EndInv'
    BY <1>4 DEF Shutdown, Open, Shape
  <1>5. CASE Remove \/ Stop
    BY <1>5 DEF Remove, Stop
  <1>6. CASE Restart
    BY <1>6 DEF Restart
  <1>7. CASE Exit \/ Kill
    BY <1>7 DEF Exit, Kill, Ends
  <1>8. CASE UNCHANGED vars
    BY <1>8 DEF vars
  <1>9. CASE ShutdownUnsaved
    BY <1>9 DEF ShutdownUnsaved, Shape
  <1>10. QED
    BY <1>1, <1>2, <1>3, <1>4, <1>5, <1>6, <1>7, <1>8, <1>9 DEF Next

(* What TypeOK adds: writers are alive and within their text, and who      *)
(* stops is saving.                                                        *)
WriterInv ==
  /\ \A i \in Instances :
       /\ Saving(i) => /\ writes[i].val \in Values /\ writes[i].done < Size[writes[i].val]
                       /\ i \in Alive
       /\ phase[i] = "stopping" => Saving(i)
  /\ current # None => phase[current] # "new"
  /\ daemon \in {"up", "stopping", "stopped", "killed"}

(* Types follow from the parts of the invariant.                           *)
LEMMA TypeFromParts == Shape /\ EndInv /\ WriterInv => TypeOK
  <1> SUFFICES ASSUME Shape, EndInv, WriterInv PROVE TypeOK
    OBVIOUS
  <1>1. \A k \in DOMAIN file : file[k] = Hole \/ file[k][1] \in Values
    BY DEF Shape
  <1>2. current \in Alive \cup {i \in Instances : phase[i] = "ended"} \cup {None}
    BY DEF Shape, WriterInv, Alive
  <1>3. QED
    BY <1>1, <1>2 DEF Shape, EndInv, WriterInv, TypeOK

(* And the writers' part follows from the types.                           *)
LEMMA WriterFromType == Shape /\ TypeOK => WriterInv
  BY InstancesAssumption DEF Shape, TypeOK, WriterInv, Alive

(* A text takes at least one write.                                        *)
LEMMA Sizes == \A v \in Values : Size[v] \in Nat /\ Size[v] > 0
  BY SizeAssumption

(* A save that was opened.                                                 *)
LEMMA OpenedWriter ==
  ASSUME Shape, NEW i \in Instances, NEW v \in Values, Open(i, v)
  PROVE  /\ Writers' = Writers \cup {i}
         /\ writes'[i] = [val |-> v, done |-> 0, alone |-> Writers = {}]
         /\ \A j \in Instances \ {i} : /\ writes'[j].val = writes[j].val
                                       /\ writes'[j].done = writes[j].done
                                       /\ writes'[j].alone = FALSE
  <1>1. /\ writes'[i] = [val |-> v, done |-> 0, alone |-> Writers = {}]
        /\ \A j \in Instances \ {i} : writes'[j] = [writes[j] EXCEPT !.alone = FALSE]
    BY OpenShape
  <1>2. \A j \in Instances \ {i} : /\ writes'[j].val = writes[j].val
                                   /\ writes'[j].done = writes[j].done
                                   /\ writes'[j].alone = FALSE
    BY <1>1, ZenonT(60) DEF Shape
  <1>3. writes'[i].val = v
    BY <1>1
  <1>4. Writers' = Writers \cup {i}
    BY <1>2, <1>3, BlankAssumption DEF Writers, Saving
  <1>5. QED
    BY <1>1, <1>2, <1>4

(* A save that returned or failed.                                         *)
LEMMA ClosedWriter ==
  ASSUME Shape, NEW i \in Instances, writes' = [writes EXCEPT ![i] = Idle]
  PROVE  /\ Writers' = Writers \ {i}
         /\ \A j \in Instances \ {i} : writes'[j] = writes[j]
  BY DEF Shape, Writers, Saving, Idle

(* Every step keeps WriterInv: writers are alive and within their text,    *)
(* and who stops is saving.                                                *)
LEMMA WriterStep == Shape /\ EndInv /\ WriterInv /\ [Next]_vars => WriterInv'
  <1> SUFFICES ASSUME Shape, EndInv, WriterInv, [Next]_vars PROVE WriterInv'
    OBVIOUS
  <1> USE DEF WriterInv
  <1>1. ASSUME NEW i \in Instances, Start(i) PROVE WriterInv'
    BY <1>1 DEF Start, Shape, Saving, Alive
  <1>2. ASSUME NEW i \in Instances, Write(i) PROVE WriterInv'
    <2>1. CASE Completes(i)
      <3>1. /\ \A j \in Instances : Saving(j)' => j # i /\ Saving(j) /\ writes'[j] = writes[j]
            /\ \A j \in Instances \ {i} : phase'[j] = phase[j] /\ Saving(j)' = Saving(j)
            /\ phase'[i] # "stopping"
            /\ phase[i] # "new" => phase'[i] # "new"
        <4>1. /\ writes' = [writes EXCEPT ![i] = Idle] /\ phase' = Returned(i)
              /\ Saving(i)
          BY <1>2, <2>1, WriteParts
        <4>2. QED
          BY <4>1 DEF Returned, Shape, Saving, Idle
      <3>2. UNCHANGED <<current, daemon>>
        BY <1>2 DEF Write
      <3>3. QED
        BY <3>1, <3>2 DEF Shape, Alive
    <2>2. CASE ~Completes(i)
      <3>1. /\ writes' = [writes EXCEPT ![i].done = writes[i].done + 1]
            /\ UNCHANGED <<phase, current, daemon>> /\ Saving(i)
        BY <1>2, <2>2, WriteParts
      <3>2. /\ writes'[i].val = writes[i].val /\ writes'[i].done = writes[i].done + 1
            /\ \A j \in Instances \ {i} : writes'[j] = writes[j]
        BY <3>1 DEF Shape
      <3>3. writes[i].done + 1 < Size[writes[i].val]
        <4>1. /\ writes[i].val \in Values /\ writes[i].done < Size[writes[i].val]
              /\ writes[i].done \in Nat
          <5>1. writes[i].val \in Values /\ writes[i].done < Size[writes[i].val]
            BY <3>1
          <5>2. writes[i].done \in Nat
            BY DEF Shape
          <5>3. QED
            BY <5>1, <5>2
        <4>2. Size[writes[i].val] \in Nat
          BY <4>1, Sizes
        <4>3. QED
          BY <2>2, <4>1, <4>2, SMT DEF Completes
      <3>4. QED
        BY <3>1, <3>2, <3>3 DEF Saving, Alive
    <2>3. QED
      BY <2>1, <2>2
  <1>3. ASSUME NEW i \in Instances, WriteFails(i) PROVE WriterInv'
    <2>1. /\ \A j \in Instances : Saving(j)' => j # i /\ Saving(j) /\ writes'[j] = writes[j]
          /\ \A j \in Instances \ {i} : phase'[j] = phase[j] /\ Saving(j)' = Saving(j)
          /\ phase'[i] # "stopping"
          /\ phase[i] # "new" => phase'[i] # "new"
      BY <1>3, ClosedWriter DEF WriteFails, Returned, Shape, Saving, Idle
    <2>2. UNCHANGED <<current, daemon>>
      BY <1>3 DEF WriteFails
    <2>3. QED
      BY <2>1, <2>2 DEF Shape, Alive
  <1>4. ASSUME NEW i \in Instances, NEW v \in Values, Open(i, v),
               phase[i] = "running",
               phase' = phase \/ phase' = [phase EXCEPT ![i] = "stopping"]
        PROVE  WriterInv'
    <2>1. /\ writes'[i] = [val |-> v, done |-> 0, alone |-> Writers = {}]
          /\ \A j \in Instances \ {i} : /\ writes'[j].val = writes[j].val
                                        /\ writes'[j].done = writes[j].done
      BY <1>4, OpenedWriter
    <2>2. writes'[i].val = v /\ writes'[i].done = 0
      BY <2>1
    <2>3. /\ phase'[i] \in {"running", "stopping"}
          /\ \A j \in Instances \ {i} : phase'[j] = phase[j]
      BY <1>4 DEF Shape
    <2>4. UNCHANGED <<current, daemon>>
      BY <1>4 DEF Open
    <2>5. Saving(i)' /\ \A j \in Instances \ {i} : Saving(j)' = Saving(j)
      BY <2>1, <2>2, BlankAssumption DEF Saving
    <2>6. QED
      BY <2>1, <2>2, <2>3, <2>4, <2>5, Sizes, SMT DEF Alive, Shape
  <1>5. ASSUME NEW i \in Instances, NEW v \in Values, Save(i, v) PROVE WriterInv'
    BY <1>4, <1>5 DEF Save
  <1>6. ASSUME NEW v \in Values, Shutdown(v) PROVE WriterInv'
    BY <1>4, <1>6 DEF Shutdown, Shape
  <1>7. CASE Remove \/ Stop \/ Restart
    BY <1>7 DEF Remove, Stop, Restart, Saving, Alive
  <1>8. CASE Exit \/ Kill
    BY <1>8 DEF Exit, Kill, Ends, Saving, Idle, Alive
  <1>9. CASE UNCHANGED vars
    BY <1>9 DEF vars, Saving, Alive
  <1>10. CASE ShutdownUnsaved
    <2>1. /\ UNCHANGED <<writes, current, daemon>> /\ ~Saving(current)
          /\ phase' = [phase EXCEPT ![current] = "ended"]
      BY <1>10 DEF ShutdownUnsaved
    <2>2. \A j \in Instances : Saving(j)' = Saving(j)
      BY <2>1 DEF Saving
    <2>3. \A j \in Instances : /\ j # current => phase'[j] = phase[j]
                               /\ j = current => phase'[j] = "ended"
      BY <2>1 DEF Shape
    <2>4. QED
      BY <2>1, <2>2, <2>3 DEF Alive
  <1>11. QED
    BY <1>1, <1>2, <1>3, <1>5, <1>6, <1>7, <1>8, <1>9, <1>10 DEF Next

(* A writer that is alone makes the file a longer beginning of its text.   *)
LEMMA BeginningGrows ==
  ASSUME Shape, WriterInv, AloneInv, NEW i \in Instances, Write(i), writes[i].alone
  PROVE  /\ Writers = {i}
         /\ file' = Beginning(writes[i].val, writes[i].done + 1)
  <1>1. Saving(i)
    BY DEF Write
  <1>2. Writers = {i} /\ file = Beginning(writes[i].val, writes[i].done)
    BY <1>1 DEF AloneInv, Writers
  <1>3. writes[i].val \in Values /\ writes[i].done \in Nat
    BY <1>1 DEF WriterInv, Shape
  <1>4. QED
    BY <1>2, <1>3, WriteParts, WrittenBeginning

(* Every step keeps AloneInv: the file is the beginning a writer that is   *)
(* alone has written.                                                      *)
LEMMA AloneStep == Shape /\ WriterInv /\ AloneInv /\ [Next]_vars => AloneInv'
  <1> SUFFICES ASSUME Shape, WriterInv, AloneInv, [Next]_vars PROVE AloneInv'
    OBVIOUS
  <1>1. ASSUME NEW i \in Instances, Write(i) PROVE AloneInv'
    <2>1. CASE Completes(i)
      <3>1. writes' = [writes EXCEPT ![i] = Idle] /\ Saving(i)
        BY <1>1, <2>1, WriteParts
      <3>2. /\ Writers' = Writers \ {i} /\ i \in Writers
            /\ \A j \in Instances \ {i} : writes'[j] = writes[j]
        BY <3>1, ClosedWriter DEF Writers
      <3>3. \A j \in Writers \ {i} : ~writes[j].alone
        BY <3>2 DEF AloneInv
      <3>4. \A j \in Writers' : j \in Writers \ {i} /\ writes'[j] = writes[j]
        BY <3>2 DEF Writers
      <3>5. QED
        BY <3>3, <3>4 DEF AloneInv
    <2>2. CASE ~Completes(i)
      <3>1. /\ writes' = [writes EXCEPT ![i].done = writes[i].done + 1]
            /\ Saving(i)
        BY <1>1, <2>2, WriteParts
      <3>2. /\ writes'[i].val = writes[i].val /\ writes'[i].done = writes[i].done + 1
            /\ writes'[i].alone = writes[i].alone
            /\ \A j \in Instances \ {i} : writes'[j] = writes[j]
        BY <3>1 DEF Shape
      <3>3. Writers' = Writers
        BY <3>2 DEF Writers, Saving
      <3>4. \A j \in Writers \ {i} : ~writes[j].alone
        BY <3>1 DEF AloneInv, Writers
      <3>5. QED
        BY <1>1, <3>2, <3>3, <3>4, BeginningGrows DEF AloneInv, Writers
    <2>3. QED
      BY <2>1, <2>2
  <1>2. ASSUME NEW i \in Instances, WriteFails(i) PROVE AloneInv'
    <2>1. file' = file /\ Saving(i) /\ writes' = [writes EXCEPT ![i] = Idle]
      BY <1>2 DEF WriteFails
    <2>2. QED
      BY <2>1, ClosedWriter DEF AloneInv, Writers
  <1>3. ASSUME NEW i \in Instances, NEW v \in Values, Open(i, v) PROVE AloneInv'
    <2>1. /\ writes'[i] = [val |-> v, done |-> 0, alone |-> Writers = {}]
          /\ Writers' = Writers \cup {i}
          /\ \A j \in Instances \ {i} : writes'[j].alone = FALSE
      BY <1>3, OpenedWriter
    <2>2. file' = Beginning(v, 0)
      BY <1>3, SMT DEF Open, Opened, Beginning
    <2>3. writes'[i].val = v /\ writes'[i].done = 0 /\ writes'[i].alone = (Writers = {})
      BY <2>1
    <2>4. QED
      BY <2>1, <2>2, <2>3 DEF AloneInv, Writers
  <1>4. ASSUME \E how \in {"stopped", "killed"} : Ends(how) PROVE AloneInv'
    BY <1>4 DEF Ends, AloneInv, Writers, Saving, Idle
  <1>5. CASE UNCHANGED <<writes, file>>
    BY <1>5 DEF AloneInv, Writers, Saving
  <1>6. QED
    <2>1. ASSUME NEW v \in Values, Shutdown(v) PROVE AloneInv'
      BY <1>3, <2>1 DEF Shutdown, Shape, WriterInv
    <2>2. QED
      BY <1>1, <1>2, <1>3, <1>4, <1>5, <2>1
      DEF Next, Start, Save, ShutdownUnsaved, Remove, Stop, Exit, Kill, Restart, vars

(* Every step keeps SavedState.                                            *)
LEMMA SavedStep == Shape /\ WriterInv /\ AloneInv /\ SavedState /\ [Next]_vars => SavedState'
  <1> SUFFICES ASSUME Shape, WriterInv, AloneInv, SavedState, [Next]_vars,
                      Writers' = {}, ~torn'
               PROVE  IF saved' = Blank THEN file' = <<>> ELSE file' = Text(saved')
    BY DEF SavedState, Text
  <1>1. ASSUME NEW i \in Instances, Write(i)
        PROVE  saved' # Blank /\ file' = Text(saved')
    <2>1. Saving(i) /\ writes[i].val \in Values /\ writes[i].alone \in BOOLEAN
      BY <1>1 DEF Write, WriterInv, Shape
    <2>2. Completes(i)
      <3>1. ASSUME ~Completes(i) PROVE i \in Writers'
        <4>1. writes' = [writes EXCEPT ![i].done = writes[i].done + 1]
          BY <1>1, <3>1, WriteParts
        <4>2. writes'[i].val = writes[i].val
          BY <4>1 DEF Shape
        <4>3. QED
          BY <2>1, <4>2 DEF Writers, Saving
      <3>2. QED
        BY <3>1
    <2>3. saved' = writes[i].val /\ writes[i].alone
      BY <1>1, <2>1, <2>2, WriteParts
    <2>4. file' = Beginning(writes[i].val, Size[writes[i].val])
      BY <1>1, <2>2, <2>3, BeginningGrows DEF Completes
    <2>5. QED
      BY <2>1, <2>3, <2>4, TextIsBeginning, BlankAssumption
  <1>2. ASSUME NEW i \in Instances, WriteFails(i) PROVE FALSE
    BY <1>2 DEF WriteFails
  <1>3. ASSUME NEW i \in Instances, NEW v \in Values, Open(i, v) PROVE FALSE
    BY <1>3, OpenedWriter
  <1>4. ASSUME \E how \in {"stopped", "killed"} : Ends(how)
        PROVE  IF saved' = Blank THEN file' = <<>> ELSE file' = Text(saved')
    <2>1. Writers = {} /\ ~torn /\ file' = file /\ saved' = saved
      BY <1>4 DEF Ends, Shape
    <2>2. QED
      BY <2>1 DEF SavedState
  <1>5. ASSUME UNCHANGED <<writes, file, saved, torn>>
        PROVE  IF saved' = Blank THEN file' = <<>> ELSE file' = Text(saved')
    <2>1. Writers = {} /\ ~torn
      BY <1>5 DEF Writers, Saving
    <2>2. QED
      BY <1>5, <2>1 DEF SavedState
  <1>6. QED
    <2>1. ASSUME NEW v \in Values, Shutdown(v) PROVE FALSE
      BY <1>3, <2>1 DEF Shutdown, Shape, WriterInv
    <2>2. QED
      BY <1>1, <1>2, <1>3, <1>4, <1>5, <2>1
      DEF Next, Start, Save, ShutdownUnsaved, Remove, Stop, Exit, Kill, Restart, vars

(* Every step keeps LastInv: what on_shutdown saved stays in the file if   *)
(* nobody else is alive.                                                   *)
LEMMA LastStep ==
  Shape /\ EndInv /\ WriterInv /\ AloneInv /\ LastInv /\ [Next]_vars => LastInv'
  <1> DEFINE Stops == /\ daemon = "stopping" /\ current # None
                      /\ phase[current] \in {"stopping", "ended"} /\ LastAlone
             Calm == /\ Alive \subseteq {current}
                     /\ phase[current] = "stopping" => /\ writes[current].val = last.val
                                                       /\ writes[current].alone
                     /\ phase[current] = "ended" => file = Text(last.val)
  <1> SUFFICES ASSUME Shape, EndInv, WriterInv, AloneInv, LastInv, [Next]_vars
               PROVE  (Stops' => Calm') /\ ShutdownSaved'
    BY DEF LastInv
  <1>0. (Stops => Calm) /\ ShutdownSaved
    BY DEF LastInv
  <1> HIDE DEF Stops, Calm
  <1>1. ASSUME NEW i \in Instances, Write(i)
        PROVE  (Stops' => Calm') /\ ShutdownSaved'
    <2>1. UNCHANGED <<current, daemon, last>> /\ Saving(i) /\ i \in Alive
      BY <1>1 DEF Write, WriterInv
    <2>2. daemon \notin {"stopped", "killed"}
      BY <2>1 DEF EndInv
    <2>3. SUFFICES ASSUME Stops' PROVE Calm'
      BY <2>1, <2>2 DEF ShutdownSaved
    <2>4. phase' = phase \/ phase' = Returned(i)
      BY <1>1 DEF Write
    <2>5. Stops
      BY <2>1, <2>3, <2>4 DEF Stops, LastAlone, Returned, Shape
    <2>6. /\ Alive \subseteq {current} /\ current = i /\ i # None /\ phase[i] = "stopping"
          /\ writes[i].val = last.val /\ writes[i].alone
      BY <1>0, <2>1, <2>5 DEF Calm, Stops, Alive
    <2>7. file' = Beginning(last.val, writes[i].done + 1)
      BY <1>1, <2>6, BeginningGrows
    <2>8. Alive' \subseteq {current'}
      BY <2>1, <2>4, <2>6 DEF Alive, Returned, Shape
    <2>9. CASE Completes(i)
      <3>1. phase'[i] = "ended"
        BY <1>1, <2>6, <2>9, WriteParts DEF Returned, Shape
      <3>2. last.val \in Values
        BY <2>1, <2>6 DEF WriterInv
      <3>3. file' = Text(last.val)
        BY <2>6, <2>7, <2>9, <3>2, TextIsBeginning DEF Completes
      <3>4. QED
        BY <2>1, <2>6, <2>8, <3>1, <3>3 DEF Calm, Text
    <2>10. CASE ~Completes(i)
      <3>1. /\ writes' = [writes EXCEPT ![i].done = writes[i].done + 1]
            /\ phase' = phase
        BY <1>1, <2>10, WriteParts
      <3>2. writes'[i].val = last.val /\ writes'[i].alone
        BY <2>6, <3>1 DEF Shape
      <3>3. QED
        BY <2>1, <2>6, <2>8, <3>1, <3>2 DEF Calm
    <2>11. QED
      BY <2>9, <2>10
  <1>2. ASSUME NEW i \in Instances, WriteFails(i)
        PROVE  ~Stops' /\ ShutdownSaved'
    <2>1. UNCHANGED <<current, daemon>> /\ Saving(i) /\ i \in Alive
      BY <1>2 DEF WriteFails, WriterInv
    <2>2. daemon \notin {"stopped", "killed"}
      BY <2>1 DEF EndInv
    <2>3. ASSUME Stops' PROVE FALSE
      <3>1. phase' = Returned(i) /\ last' = [last EXCEPT !.failed = @ \/ phase[i] = "stopping"]
        BY <1>2 DEF WriteFails
      <3>2. /\ phase[current] \in {"stopping", "ended"}
            /\ ~last.failed /\ last.crowd = 1 /\ phase[i] # "stopping"
        BY <2>1, <2>3, <3>1 DEF Stops, LastAlone, Returned, Shape
      <3>3. Stops
        BY <2>1, <2>3, <3>2 DEF Stops, LastAlone
      <3>4. i = current
        BY <1>0, <2>1, <3>3 DEF Calm
      <3>5. QED
        BY <2>1, <3>2, <3>4 DEF Alive
    <2>4. QED
      BY <2>1, <2>2, <2>3 DEF ShutdownSaved
  <1>3. ASSUME NEW i \in Instances, NEW v \in Values, Save(i, v)
        PROVE  ~Stops' /\ ShutdownSaved'
    <2>1. /\ UNCHANGED <<current, daemon, phase, last>> /\ daemon \in {"up", "stopping"}
          /\ phase[i] = "running" /\ i \in Alive
      BY <1>3 DEF Save, Open, Alive
    <2>2. ASSUME Stops PROVE FALSE
      <3>1. i = current
        BY <1>0, <2>1, <2>2 DEF Calm
      <3>2. QED
        BY <2>1, <2>2, <3>1 DEF Stops
    <2>3. QED
      BY <2>1, <2>2 DEF ShutdownSaved, Stops, LastAlone
  <1>4. ASSUME NEW v \in Values, Shutdown(v)
        PROVE  (Stops' => Calm') /\ ShutdownSaved'
    <2>1. /\ daemon = "stopping" /\ current \in Instances /\ current \in Alive
          /\ Open(current, v) /\ ~Saving(current)
          /\ UNCHANGED <<current, daemon>>
      BY <1>4 DEF Shutdown, Open, Shape, Alive
    <2>2. phase' = [phase EXCEPT ![current] = "stopping"]
          /\ last' = [val |-> v, failed |-> FALSE, crowd |-> Cardinality(Alive)]
      BY <1>4 DEF Shutdown
    <2>3. ASSUME Stops' PROVE Calm'
      <3>1. Cardinality(Alive) = 1
        BY <2>2, <2>3 DEF Stops, LastAlone
      <3>2. Alive = {current}
        BY <2>1, <3>1, OnlyMember, AliveFinite
      <3>3. Writers = {}
        BY <2>1, <3>2 DEF Writers, WriterInv
      <3>4. writes'[current] = [val |-> v, done |-> 0, alone |-> Writers = {}]
        BY <2>1, OpenedWriter
      <3>5. writes'[current].val = v /\ writes'[current].alone
        <4>1. writes'[current].val = v /\ writes'[current].alone = (Writers = {})
          BY <3>4
        <4>2. QED
          BY <3>3, <4>1
      <3>6. Alive' \subseteq {current} /\ phase'[current] = "stopping"
        BY <2>1, <2>2, <3>2 DEF Alive, Shape
      <3>7. QED
        BY <2>1, <2>2, <3>5, <3>6 DEF Calm
    <2>4. QED
      BY <2>1, <2>3 DEF ShutdownSaved
  <1>5. ASSUME Exit PROVE ~Stops' /\ ShutdownSaved'
    <2>1. daemon = "stopping" /\ Joined /\ daemon' = "stopped" /\ file' = file
      BY <1>5 DEF Exit, Ends
    <2>2. CASE current = None
      BY <1>5, <2>1, <2>2 DEF Exit, Stops, ShutdownSaved, Shape
    <2>3. CASE current # None
      <3>1. last' = last /\ phase[current] = "ended"
        BY <1>5, <2>1, <2>3 DEF Exit, Joined
      <3>2. LastAlone => file = Text(last.val)
        BY <1>0, <2>1, <2>3, <3>1 DEF Stops, Calm
      <3>3. QED
        BY <2>1, <3>1, <3>2 DEF Stops, ShutdownSaved, LastAlone, Text
    <2>4. QED
      BY <2>2, <2>3
  <1>6. ASSUME daemon' \in {"up", "killed"} PROVE ~Stops' /\ ShutdownSaved'
    BY <1>6 DEF Stops, ShutdownSaved
  <1>7. ASSUME Stop PROVE ~Stops' /\ ShutdownSaved'
    BY <1>7 DEF Stop, EndInv, Shape, Stops, ShutdownSaved
  <1>8. CASE UNCHANGED vars
    BY <1>0, <1>8 DEF vars, Stops, Calm, LastAlone, Alive, ShutdownSaved, Text
  <1>9. ASSUME ShutdownUnsaved PROVE ~Stops' /\ ShutdownSaved'
    <2>1. /\ daemon = "stopping" /\ daemon' = daemon
          /\ last'.val = Blank /\ last'.crowd = 0
      BY <1>9 DEF ShutdownUnsaved
    <2>2. QED
      BY <2>1 DEF Stops, LastAlone, ShutdownSaved
  <1>10. QED
    BY <1>1, <1>2, <1>3, <1>4, <1>5, <1>6, <1>7, <1>8, <1>9
    DEF Next, Start, Remove, Kill, Ends, Restart

(* Every step keeps the inductive invariant.                               *)
LEMMA IInvStep == IInv /\ [Next]_vars => IInv'
  <1> SUFFICES ASSUME IInv, [Next]_vars PROVE IInv'
    OBVIOUS
  <1>1. Shape /\ TypeOK /\ EndInv /\ AloneInv /\ SavedState /\ LastInv /\ WriterInv
    BY WriterFromType DEF IInv
  <1>2. Shape' /\ EndInv' /\ WriterInv' /\ AloneInv' /\ SavedState' /\ LastInv'
    BY <1>1, ShapeStep, EndStep, WriterStep, AloneStep, SavedStep, LastStep
  <1>3. TypeOK'
    <2>1. (Shape /\ EndInv /\ WriterInv)' => TypeOK'
      BY TypeFromParts, PTL
    <2>2. QED
      BY <1>2, <2>1
  <1>4. QED
    BY <1>2, <1>3 DEF IInv

(* The inductive invariant holds throughout: how far the calls of          *)
(* save_state (lua_api.rs:37-50) are, and how the daemon ends.             *)
THEOREM Invariant == Spec => []IInv
  BY IInvInit, IInvStep, PTL DEF Spec

-----------------------------------------------------------------------------
(* Every save writes within the text of a value (save_json_state), an      *)
(* instance that saves is alive, and only the instance in the routes map   *)
(* comes to its on_shutdown.                                               *)
THEOREM TypeCorrect == Spec => []TypeOK
  <1>1. IInv => TypeOK
    BY DEF IInv
  <1>2. QED
    BY <1>1, Invariant, PTL

(* What a route saved last is what its file holds, whole, once nobody      *)
(* writes (save_json_state, which truncates first), whatever instances of  *)
(* the route are alive and whenever the process ends, unless that save was *)
(* cut off, failed, or met another.                                        *)
THEOREM SaveIsWhole == Spec => []SavedState
  <1>1. IInv => SavedState
    BY DEF IInv
  <1>2. QED
    BY <1>1, Invariant, PTL

(* A graceful shutdown that finds one instance alive and whose save works  *)
(* leaves in the file what on_shutdown saved (graceful_shutdown, which     *)
(* joins the route's thread before the process ends).                      *)
THEOREM StopSaves == Spec => []ShutdownSaved
  <1>1. IInv => ShutdownSaved
    BY DEF IInv, LastInv
  <1>2. QED
    BY <1>1, Invariant, PTL
=============================================================================
