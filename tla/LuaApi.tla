------------------------------- MODULE LuaApi -------------------------------
(***************************************************************************)
(* A route seen from its script: what Route::start resolves for it, the    *)
(* tables its callbacks are given for MIDI and OSC messages, what params   *)
(* bound to MIDI are set to, and what send and send_osc make of what the   *)
(* script hands back (src/src/route.rs, src/src/lua_api.rs,                *)
(* src/src/osc_params.rs).                                                 *)
(*                                                                         *)
(* One event is handled at a time, on one thread (RouteInstance).  The     *)
(* cache of subscribers is the one OscParams keeps.                        *)
(***************************************************************************)
EXTENDS MidiCodec, Declarations, OscMessages

CONSTANTS Givens,    \* script, section and globals a route is started with
          Arrivals,  \* the MIDI messages that may arrive
          Packets,   \* the arguments of the OSC messages that may arrive
          Numbers,   \* what scripts write into fields
          Calls,     \* what scripts call send_osc with
          Bindings,  \* of params to MIDI: [spec, scale]
          Caches,    \* the sets of subscribers there may be
          Busy,      \* the members of Givens whose events are explored
          Idle

IsList(v) == v \in Seq(Range(v))

(* Messages are bytes, and where they are no system messages all but the   *)
(* first have seven bits.                                                  *)
ASSUME ArrivalsAreMidi ==
  \A b \in Arrivals : /\ b \in Seq(Byte)
                      /\ b # <<>> /\ b[1] < 240 => \A i \in 2 .. Len(b) : b[i] < 128

ASSUME PacketsAreOsc ==
  \A args \in Packets : /\ IsList(args)
                        /\ \A i \in DOMAIN args :
                             args[i] = [osc |-> args[i].osc, val |-> args[i].val]
                             /\ args[i].osc \in DOMAIN LuaKind

ASSUME CallsAreLists == \A vals \in Calls : IsList(vals)

ASSUME BindingsHaveKeys ==
  \A s \in Bindings : /\ midi_key_from_table(s.spec) # {}
                      /\ s.scale.kind = "linear" => s.scale.min \in Int /\ s.scale.max \in Int

(* What parses as an address does not begin with a slash.                  *)
ASSUME AddressesAreNoPaths == Hosts \cap Paths = {}

ASSUME GivensAreDeclarations ==
  \A g \in Givens :
    /\ g.script.kind \in {"table", "plain", "broken"}
    /\ \A decl \in {g.script, g.section}, d \in Directions :
         /\ IsList(decl.ports[d])
         /\ \A p \in DOMAIN decl.connect[d] : IsList(decl.connect[d][p])
    /\ g.script.receive \in Int
    /\ \A d \in Directions : IsList(g.global.connect[d])
                            /\ NotAString \notin Range(g.global.connect[d])

(* Idle is no event.                                                       *)
ASSUME IdleIsNoEvent ==
  /\ \A b \in Arrivals : Idle # [kind |-> "Midi", body |-> b]
  /\ \A args \in Packets : Idle # [kind |-> "Osc", body |-> args]
  /\ Idle # [kind |-> "Timer", body |-> <<>>]

VARIABLES given,   \* the member of Givens that was chosen
          route,   \* what Route::start made of it, or Idle
          socket,  \* a socket could be opened for the sender
          sender,  \* no function, or the targets of the route's OscSender
          subs,    \* the cache of subscribers
          event,   \* the message being handled, as it came, or Idle
          table,   \* the table the script holds
          sets,    \* the calls of set() for this event: [by, value]
          midi,    \* what the script last sent: <<port, bytes>>
          osc      \* what the script last made of send_osc

vars == <<given, route, socket, sender, subs, event, table, sets, midi, osc>>

startVars == <<given, route, socket, sender>>

-----------------------------------------------------------------------------
(* Route::start.                                                           *)

Init ==
  /\ given \in Givens
  /\ route = Idle
  /\ socket = FALSE
  /\ sender = {}
  /\ subs = {}
  /\ event = Idle
  /\ table = Idle
  /\ sets = {}
  /\ midi = {}
  /\ osc = Nowhere

Start ==
  /\ route = Idle
  /\ LET decl == extract_all_decls(given.script, given.section, Hosts)
     IN /\ route' = [decl EXCEPT !.connect =
                       apply_connect_defaults(decl.connect, decl.ports, given.global.connect)]
        /\ socket' \in BOOLEAN
        /\ sender' = IF socket' THEN Sender(decl, given.global, Hosts) ELSE {}
  /\ UNCHANGED <<given, subs, event, table, sets, midi, osc>>

default_out == IF route.ports.out = <<>> THEN "" ELSE Head(route.ports.out)

-----------------------------------------------------------------------------
(* Events.  A message that came from MIDI goes to the params bound to it   *)
(* before on_midi runs; a message without a payload calls set() with none. *)

Waiting == route # Idle /\ event = Idle /\ given \in Busy

Bound(m) == {b \in Bindings : midi_key_from_table(b.spec) = midi_key_from_table(m)}

dispatch_midi(m) ==
  {[by |-> b,
    value |-> IF midi_payload_raw(m) = {} THEN {}
              ELSE {apply_midi_scale(r, b.scale, m.type) : r \in midi_payload_raw(m)}] :
     b \in Bound(m)}

MidiIn(b) ==
  /\ Waiting
  /\ event' = [kind |-> "Midi", body |-> b]
  /\ table' = midi_bytes_to_lua(b)
  /\ sets' = dispatch_midi(midi_bytes_to_lua(b))
  /\ UNCHANGED <<startVars, subs, midi, osc>>

OscIn(args) ==
  /\ Waiting
  /\ event' = [kind |-> "Osc", body |-> args]
  /\ table' = osc_message_to_lua(args)
  /\ UNCHANGED <<startVars, subs, sets, midi, osc>>

TickIn ==
  /\ Waiting
  /\ event' = [kind |-> "Timer", body |-> <<>>]
  /\ UNCHANGED <<startVars, subs, table, sets, midi, osc>>

(* The kind of event whose callback is running.                            *)
Handling(k) == event # Idle /\ event.kind = k

(* The cache changes between events.                                       *)
Recache(S) ==
  /\ Waiting
  /\ subs' = S
  /\ UNCHANGED <<startVars, event, table, sets, midi, osc>>

(* The callback returns; what it sent is looked at no more.                *)
Return ==
  /\ event # Idle
  /\ event' = Idle
  /\ table' = Idle
  /\ sets' = {}
  /\ midi' = {}
  /\ osc' = Nowhere
  /\ UNCHANGED <<startVars, subs>>

-----------------------------------------------------------------------------
(* The script.  It writes one field of a message it was given, or takes    *)
(* one out, and sends what it has.                                         *)

Untouched == table = midi_bytes_to_lua(event.body)

Change(f, n) ==
  /\ Handling("Midi") /\ Untouched /\ midi = {}
  /\ table.type \in Voices /\ f \in DOMAIN table.num
  /\ table' = [table EXCEPT !.num[f] = n]
  /\ UNCHANGED <<startVars, subs, event, sets, midi, osc>>

Drop(f) ==
  /\ Handling("Midi") /\ Untouched /\ midi = {}
  /\ table.type \in Voices /\ f \in DOMAIN table.num
  /\ table' = [table EXCEPT !.num = [g \in DOMAIN table.num \ {f} |-> table.num[g]]]
  /\ UNCHANGED <<startVars, subs, event, sets, midi, osc>>

(* send(table) and send(port, table): an unknown port sends nothing.       *)
Send(port) ==
  /\ Handling("Midi")
  /\ midi' = IF port \in Range(route.ports.out)
             THEN {<<port, b>> : b \in lua_to_midi_bytes(table)} ELSE {}
  /\ UNCHANGED <<startVars, subs, event, table, sets, osc>>

SendOsc(vals) ==
  /\ Handling("Timer") /\ table = Idle
  /\ table' = vals
  /\ osc' = send_osc(sender, subs, vals)
  /\ UNCHANGED <<startVars, subs, event, sets, midi>>

(* The script answers with what it finds in the message.                   *)
Reply(host, path) ==
  /\ Handling("Osc")
  /\ osc' = send_osc(sender, subs,
                     <<[lua |-> "string", val |-> host],
                       [lua |-> "string", val |-> path]>> \o Walk(table))
  /\ UNCHANGED <<startVars, subs, event, table, sets, midi>>

MessageFields == {"channel"} \cup UNION {Range(Fields[t]) : t \in Voices}

PortNames == IF route = Idle THEN {} ELSE UNION {Range(route.ports[d]) : d \in Directions}

Next ==
  \/ Start
  \/ \E b \in Arrivals : MidiIn(b)
  \/ \E args \in Packets : OscIn(args)
  \/ \E S \in Caches : Recache(S)
  \/ TickIn
  \/ \E f \in MessageFields : Drop(f)
  \/ \E f \in MessageFields, n \in Numbers : Change(f, n)
  \/ Handling("Midi") /\ Send(default_out)
  \/ \E p \in PortNames : Send(p)
  \/ \E vals \in Calls : SendOsc(vals)
  \/ \E host \in Hosts, path \in Paths : Reply(host, path)
  \/ Return

Spec == Init /\ [][Next]_vars

-----------------------------------------------------------------------------
(* Properties.                                                             *)

(* Every state is well typed: what the route holds is resolved, no port is *)
(* beyond 16 bits, and whatever a script writes into a message, what is    *)
(* sent are bytes.                                                         *)
TypeOK ==
  /\ route # Idle => /\ route.receive \in Nat /\ route.receive <= 65535
                     /\ \A d \in Directions : \A p \in DOMAIN route.connect[d] :
                          route.connect[d][p] # <<>> /\ NotAString \notin Range(route.connect[d][p])
  /\ \A m \in midi : Range(m[2]) \subseteq Byte
  /\ osc.to \subseteq Hosts /\ (osc.to # {} => osc.path \in Paths)
  /\ osc.failed => osc.to = {}

At(f, p) == IF p \in DOMAIN f THEN f[p] ELSE <<>>

Lua(d, p) == IF given.script.kind = "table" THEN LuaList(At(given.script.connect[d], p)) ELSE <<>>
Toml(d, p) == TomlList(At(given.section.connect[d], p))

OwnPatterns(d) == {p \in DOMAIN given.script.connect[d] \cup DOMAIN given.section.connect[d] :
                     Lua(d, p) # <<>> \/ Toml(d, p) # <<>>}

(* The route has no patterns of its own.                                   *)
Bare == \A d \in Directions : OwnPatterns(d) = {}

(* What there is for a port: its own entries of the script and of the      *)
(* section, those for all ports, and the global default unless the route   *)
(* says something itself in that direction.                                *)
Candidates(d, p) ==
  <<Lua(d, p), Toml(d, p), Lua(d, All), Toml(d, All),
    IF OwnPatterns(d) = {} THEN given.global.connect[d] ELSE <<>>>>

(* The order the code, its tests and the documentation agree on: a port's  *)
(* own entry before that for all ports of the same place, the script       *)
(* before the section for the same ports, and all before the globals.  Of  *)
(* the section's entry for a port (2) and the script's for all (3) the     *)
(* code takes the first (route.rs:670) and the README the second (916,     *)
(* 943): nothing is said of these two.                                     *)
Before(i, j) == i < j /\ <<i, j>> # <<2, 3>>

(* Every port of a started route is connected to the whole of one          *)
(* declaration before which there is no other, in whatever of these        *)
(* patterns are missing, empty or no strings.  Where only the other        *)
(* direction has patterns it is connected to the globals by the code       *)
(* (route.rs:661) and to nothing by the README (963-965): either will do.  *)
ConnectResolved ==
  route # Idle =>
    \A d \in Directions : \A p \in Range(route.ports[d]) :
      LET said == Candidates(d, p)
          says == {i \in DOMAIN said : said[i] # <<>>}
          at   == At(route.connect[d], p)
      IN \/ at = <<>> /\ (says = {} \/ (says = {5} /\ ~Bare))
         \/ \E i \in says : at = said[i] /\ \A j \in says : ~Before(j, i)

(* A script that sends without naming a port reaches a port the route has, *)
(* whatever became of the ports it declared.                               *)
DefaultSendLands == route # Idle => default_out \in Range(route.ports.out)

(* A route that may receive OSC, on its own port or the daemon's, has a    *)
(* socket to answer and notify its subscribers with, whether or not a      *)
(* target is named, unless none could be opened.                           *)
RepliesPossible ==
  (route # Idle /\ socket /\ (route.receive # 0 \/ given.global.receive # 0))
    => sender # {}

(* A script that sends without a port, and a route that answers without a  *)
(* target, are heard.                                                      *)
SendsPossible == DefaultSendLands /\ RepliesPossible

(* What send_osc sends, it sends with all the arguments it was given: a    *)
(* call with an argument that cannot be sent reaches nobody, not some of   *)
(* the subscribers, nor with the rest of the arguments.                    *)
OscComplete ==
  (Handling("Timer") /\ osc.to # {}) =>
    LET n == IF table[1].val \in Paths THEN 1 ELSE 2
    IN /\ Len(osc.args) = Len(table) - n
       /\ \A i \in DOMAIN osc.args : osc.args[i].val = table[n + i].val

(* A message that is sent back as it was received reaches its sender with  *)
(* the arguments it had, of the kind they had where send_osc has that      *)
(* kind, up to the first Nil; one with an argument that cannot be sent is  *)
(* refused as a whole.                                                     *)
EchoKept ==
  (Handling("Osc") /\ osc.to # {}) =>
    \A i \in DOMAIN event.body :
      LET arg == event.body[i] IN
      (\A j \in 1 .. i : event.body[j].osc # "Nil")
        => /\ i \in DOMAIN osc.args
           /\ osc.args[i].val = arg.val
           /\ arg.osc \in Range(OscKind) => osc.args[i].osc = arg.osc

(* The arguments of a message are sent all or not at all, and unchanged.   *)
ArgumentsKept == OscComplete /\ EchoKept

(* A message the script sends as it received it leaves as it came, except  *)
(* that a note_on of velocity 0 leaves as the note_off it is.              *)
PassThrough ==
  (Handling("Midi") /\ Untouched) =>
    \A m \in midi : m[2] = IF Silent(event.body)
                           THEN [event.body EXCEPT ![1] = @ - 16] ELSE event.body

(* Whatever integer a script writes into a field, what is sent is of the   *)
(* type the table names, in the channel it names if there is such one.     *)
StatusKept ==
  (Handling("Midi") /\ table.type \in Voices) =>
    \A m \in midi :
      /\ m[2][1] \div 16 = Nibble[table.type]
      /\ Field(table, "channel") \subseteq 1 .. 16 => (m[2][1] % 16) + 1 \in Field(table, "channel")

(* A bend beyond the range is sent as the end of the range it is beyond.   *)
(* This is claimed as far as the sum fits 16 bits, for bends up to 24575;  *)
(* above, the code sends the lower end or panics (Bend).                   *)
BendSaturates ==
  (Handling("Midi") /\ table.type = "pitch_bend") =>
    \A m \in midi : \A v \in Field(table, "value") :
      IsI16(v) /\ IsI16(v + 8192) =>
        (m[2][2] + 128 * m[2][3]) - 8192 = IF v < -8192 THEN -8192 ELSE IF v > 8191 THEN 8191 ELSE v

(* A message leaves as it came where the script did nothing, but for the   *)
(* note_off that came as a note_on, and else with the type and channel of  *)
(* its table, and saturated where it is a bend up to 24575.  Data bytes    *)
(* are not claimed to have seven bits: the code sends what it is given.    *)
MidiKept == PassThrough /\ StatusKept /\ BendSaturates

(* A param bound with a scale is set within the scale by whatever arrives, *)
(* and to its ends by the ends of what can arrive.                         *)
ScaledInRange ==
  \A s \in sets : \A v \in s.value :
    s.by.scale.kind = "linear" =>
      LET min  == s.by.scale.min
          max  == s.by.scale.max
          raw  == CHOOSE r \in midi_payload_raw(midi_bytes_to_lua(event.body)) : TRUE
          last == event.body[Len(event.body)]
      IN /\ \/ min * v[2] <= v[1] /\ v[1] <= max * v[2]
            \/ max * v[2] <= v[1] /\ v[1] <= min * v[2]
         /\ raw \in {127, 8191} /\ last = 127 => v[1] = max * v[2]
         /\ raw \in {0, -8192} /\ last = 0 => v[1] = min * v[2]

(* A param bound to a note_on is never set by the release of the note,     *)
(* also where the keyboard releases with a note_on of velocity 0.          *)
PressIsPress ==
  \A s \in sets : s.by.spec.type = "note_on" => event.body[3] > 0

(* Params follow the controls they are bound to.                           *)
ParamsFollow == ScaledInRange /\ PressIsPress
=============================================================================
