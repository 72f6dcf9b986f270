---------------------------- MODULE OscMessages ----------------------------
(***************************************************************************)
(* The arguments of OSC messages as scripts see and give them, and where   *)
(* send_osc sends a message (src/src/lua_api.rs: osc_message_to_lua,       *)
(* lua_val_to_osc_type; src/src/route.rs: register_send_osc).              *)
(*                                                                         *)
(* An argument is a kind and a content; conversions change the kind and    *)
(* keep the content, for Double and Time up to the precision of 32 bits.   *)
(* Unsendable are the contents that fit no argument: integers and floats   *)
(* beyond 32 bits, infinity, and strings that are no text.                 *)
(***************************************************************************)
EXTENDS Integers, Sequences, SequencesExt

CONSTANTS Hosts,       \* the strings that parse as ip:port
          Paths,       \* the strings that begin with a slash
          Unsendable   \* contents send_osc refuses

-----------------------------------------------------------------------------
(* What arrives.                                                           *)

LuaKind == [Int |-> "integer", Long |-> "integer", Float |-> "number", Double |-> "number",
            Inf |-> "number", Time |-> "number", String |-> "string", Char |-> "string",
            Blob |-> "string", Bool |-> "boolean", Nil |-> "nil",
            Color |-> "table", Midi |-> "table", Array |-> "table"]

osc_type_to_lua_value(arg) == [lua |-> LuaKind[arg.osc], val |-> arg.val]

(* The table of the arguments: a Nil leaves a hole in it.                  *)
osc_message_to_lua(args) ==
  [i \in {j \in DOMAIN args : args[j].osc # "Nil"} |-> osc_type_to_lua_value(args[i])]

(* What a script finds that walks the table from 1.                        *)
Walk(table) ==
  LET n == CHOOSE n \in 0 .. Cardinality(DOMAIN table) :
             1 .. n \subseteq DOMAIN table /\ n + 1 \notin DOMAIN table
  IN [i \in 1 .. n |-> table[i]]

-----------------------------------------------------------------------------
(* What is sent.                                                           *)

OscKind == [integer |-> "Int", number |-> "Float", string |-> "String",
            boolean |-> "Bool", nil |-> "Nil"]

(* Mutation: a number without a fraction is sent as an integer.            *)
MutantSendKind(v) == IF v.lua = "number" THEN "Int" ELSE OscKind[v.lua]

SendKind(v) == OscKind[v.lua]

Sendable(v) == v.lua \in DOMAIN OscKind /\ v.val \notin Unsendable

(* Mutation: what cannot be converted is left out.                         *)
MutantConverted(vals) ==
  {[i \in DOMAIN SelectSeq(vals, Sendable) |->
      [osc |-> SendKind(SelectSeq(vals, Sendable)[i]), val |-> SelectSeq(vals, Sendable)[i].val]]}

(* The arguments, or no result if one of them cannot be sent.              *)
Converted(vals) ==
  IF \A i \in DOMAIN vals : Sendable(vals[i])
  THEN {[i \in DOMAIN vals |-> [osc |-> SendKind(vals[i]), val |-> vals[i].val]]}
  ELSE {}

Refused == [failed |-> TRUE, to |-> {}, path |-> "", args |-> <<>>]
Nowhere == [failed |-> FALSE, to |-> {}, path |-> "", args |-> <<>>]

Message(to, path, vals) ==
  IF Converted(vals) = {} THEN Refused
  ELSE [failed |-> FALSE, to |-> to, path |-> path, args |-> CHOOSE a \in Converted(vals) : TRUE]

IsText(v) == v.lua = "string" /\ v.val \notin Unsendable
IsPath(v) == IsText(v) /\ v.val \in Paths

(* A message whose path is the second argument.                            *)
Addressed(to, vals) ==
  IF Len(vals) > 1 /\ IsPath(vals[2]) THEN Message(to, vals[2].val, SubSeq(vals, 3, Len(vals)))
  ELSE Refused

(* A message that begins with its path: to the only target, or, if there   *)
(* is none, to all subscribers whose address parses.                       *)
Broadcast(targets, subs, vals) ==
  CASE Cardinality(DOMAIN targets) = 1 -> Message(Range(targets), vals[1].val, Tail(vals))
    [] targets = <<>> /\ subs = {}     -> Nowhere
    [] targets = <<>> /\ subs # {}     -> Message(subs \cap Hosts, vals[1].val, Tail(vals))
    [] OTHER                           -> Refused

(* sender: no function for a route without a socket, or its targets.       *)
send_osc(sender, subs, vals) ==
  IF sender = {} THEN Nowhere
  ELSE LET targets == CHOOSE t \in sender : TRUE IN
       IF vals = <<>> \/ ~IsText(vals[1]) THEN Refused
       ELSE IF vals[1].val \in Hosts THEN Addressed({vals[1].val}, vals)
       ELSE IF vals[1].val \in Paths THEN Broadcast(targets, subs, vals)
       ELSE IF vals[1].val \in DOMAIN targets THEN Addressed({targets[vals[1].val]}, vals)
       ELSE Refused
=============================================================================
