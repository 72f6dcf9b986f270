----------------------------- MODULE MidiCodec -----------------------------
(***************************************************************************)
(* MIDI messages as bytes, as the Lua tables scripts see and send, and as  *)
(* values of params bound to them (src/src/lua_api.rs: midi_bytes_to_lua,  *)
(* lua_to_midi_bytes; src/src/osc_params.rs: MidiKey, MidiScale).          *)
(*                                                                         *)
(* A table is its type and its numbers; "num" is a function from the names *)
(* of its fields, or the sequence of bytes of a raw message.  A script may *)
(* leave a field out or put any integer in it.  Where the code returns an  *)
(* error an operator returns the empty set, and else the set of its result.*)
(*                                                                         *)
(* The data bytes that come in have seven bits, as the ALSA sequencer      *)
(* delivers them.                                                          *)
(***************************************************************************)
EXTENDS Integers, Sequences

Byte == 0 .. 255

Realtime == [clock |-> 248, start |-> 250, continue |-> 251, stop |-> 252]

(* The high nibble of the status byte.                                     *)
Nibble == [note_off |-> 8, note_on |-> 9, cc |-> 11, program_change |-> 12,
           pitch_bend |-> 14]

(* The fields the data bytes go to; pitch_bend has one for both bytes.     *)
Fields == [note_off |-> <<"note", "velocity">>, note_on |-> <<"note", "velocity">>,
           cc |-> <<"controller", "value">>, program_change |-> <<"program">>,
           pitch_bend |-> <<"value">>]

Voices == DOMAIN Nibble

Size(t) == IF t = "pitch_bend" THEN 3 ELSE 1 + Len(Fields[t])

-----------------------------------------------------------------------------
(* Bytes to table.                                                         *)

(* Mutation: a note_on of velocity 0 stays a note_on.                      *)
MutantSilent(b) == FALSE

Silent(b) == Len(b) = 3 /\ b[1] \div 16 = 9 /\ b[3] = 0

(* The type of the table: a note_on of velocity 0 is a note_off.           *)
TypesOf(b) ==
  IF Silent(b) THEN {"note_off"}
  ELSE {t \in DOMAIN Realtime : b = <<Realtime[t]>>}
       \cup {t \in Voices : Len(b) = Size(t) /\ b[1] \div 16 = Nibble[t]}

(* Mutation: the two bytes of a pitch bend are swapped.                    *)
MutantBent(b) == b[2] * 128 + b[3] - 8192

Bent(b) == b[3] * 128 + b[2] - 8192

Named(t, b) ==
  LET F == {Fields[t][i] : i \in DOMAIN Fields[t]}
      Place(f) == CHOOSE i \in DOMAIN Fields[t] : Fields[t][i] = f
  IN [f \in {"channel"} \cup F |->
        IF f = "channel" THEN (b[1] % 16) + 1
        ELSE IF t = "pitch_bend" THEN Bent(b)
        ELSE b[1 + Place(f)]]

midi_bytes_to_lua(b) ==
  IF TypesOf(b) = {} THEN [type |-> "raw", num |-> b]
  ELSE LET t == CHOOSE t \in TypesOf(b) : TRUE
       IN [type |-> t, num |-> IF t \in Voices THEN Named(t, b) ELSE <<>>]

-----------------------------------------------------------------------------
(* Table to bytes.                                                         *)

Field(m, f) == {m.num[g] : g \in DOMAIN m.num \cap {f}}

U8(m, f) == Field(m, f) \cap Byte

(* Mutation: the channel is taken as it is.                                *)
MutantChannel(m) == {c - 1 : c \in U8(m, "channel") \ {0}}

(* saturating_sub(1) & 0x0F                                                *)
Channel(m) == {(IF c = 0 THEN 0 ELSE c - 1) % 16 : c \in U8(m, "channel")}

IsI16(v) == v \in Int /\ -32768 <= v /\ v <= 32767

Wrap16(n) == ((n + 32768) % 65536) - 32768

Clamp(n, lo, hi) == IF n < lo THEN lo ELSE IF n > hi THEN hi ELSE n

(* Mutation: the end of the range is taken for its size.                   *)
MutantBend(v) == Clamp(Wrap16(v + 8192), 0, 16384)

(* The sum is an i16; it wraps in a release build and panics in a debug    *)
(* build.                                                                  *)
Bend(v) == Clamp(Wrap16(v + 8192), 0, 16383)

(* A note_off may leave its velocity out.                                  *)
Data(m, f) ==
  IF m.type = "note_off" /\ f = "velocity" /\ Field(m, f) = {} THEN {0} ELSE U8(m, f)

lua_to_midi_bytes(m) ==
  CASE m.type \in DOMAIN Realtime -> {<<Realtime[m.type]>>}
    [] m.type = "raw" -> IF \A i \in DOMAIN m.num : m.num[i] \in Byte THEN {m.num} ELSE {}
    [] m.type = "pitch_bend" ->
         {<<(14 * 16) + c, Bend(v) % 128, Bend(v) \div 128>> :
            c \in Channel(m), v \in {w \in Field(m, "value") : IsI16(w)}}
    [] m.type = "program_change" ->
         {<<(12 * 16) + c, p>> : c \in Channel(m), p \in Data(m, "program")}
    [] m.type \in {"note_off", "note_on", "cc"} ->
         {<<(Nibble[m.type] * 16) + c, x, y>> :
            c \in Channel(m), x \in Data(m, Fields[m.type][1]), y \in Data(m, Fields[m.type][2])}
    [] OTHER -> {}

-----------------------------------------------------------------------------
(* Params bound to MIDI.                                                   *)

Keyed == [note_off |-> {"note"}, note_on |-> {"note"}, cc |-> {"controller"},
          program_change |-> {}, pitch_bend |-> {}]

(* What of a message, or of a binding, the two must agree on.              *)
midi_key_from_table(m) ==
  CASE m.type \in DOMAIN Realtime -> {<<m.type>>}
    [] m.type \in Voices /\ Keyed[m.type] = {} -> {<<m.type, c>> : c \in U8(m, "channel")}
    [] m.type \in Voices /\ Keyed[m.type] # {} ->
         {<<m.type, c, k>> : c \in U8(m, "channel"),
                             k \in UNION {U8(m, f) : f \in Keyed[m.type]}}
    [] OTHER -> {}

(* The number a binding passes on: the last field of the table.            *)
midi_payload_raw(m) ==
  IF m.type \in Voices THEN Field(m, Fields[m.type][Len(Fields[m.type])]) ELSE {}

(* Mutation: every payload has seven bits.                                 *)
MutantRange(t) == <<0, 127>>

midi_payload_range(t) == IF t = "pitch_bend" THEN <<-8192, 8191>> ELSE <<0, 127>>

(* A value is a fraction <<numerator, denominator>>.                       *)
Linear(raw, min, max, t) ==
  LET lo == midi_payload_range(t)[1]
      hi == midi_payload_range(t)[2]
  IN <<min * (hi - lo) + (raw - lo) * (max - min), hi - lo>>

apply_midi_scale(raw, s, t) ==
  CASE s.kind = "raw"       -> <<raw, 1>>
    [] s.kind = "linear"    -> Linear(raw, s.min, s.max, t)
    [] s.kind = "threshold" -> IF (raw >= s.at) # s.invert THEN <<1, 1>> ELSE <<0, 1>>
=============================================================================
