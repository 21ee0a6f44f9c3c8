-------------------------------- MODULE Frame --------------------------------
(***************************************************************************)
(* The command frame and its codec: remote_cmd_t of cmd_payload.h, the     *)
(* functions that fill it in cmd_payload.c, encode_data_frame and          *)
(* decode_data_frame of dbus_comm.c, and the encoder of the client program *)
(* in src/utils/sys_utils.c.                                               *)
(*                                                                         *)
(* A frame on the bus is the sequence of the arguments of its message,     *)
(* each with its D-Bus type.  Names and values are abstract, but prio and  *)
(* duration keep their width: they are two bytes of remote_cmd_t that the  *)
(* codec writes and reads through pointers to 32-bit integers.             *)
(***************************************************************************)
EXTENDS Integers, Sequences

CONSTANT MaxEntries  \* MAX_ENTRIES, 32: the entries a command has room for

\* entry_count fits into a signed byte: see DurationWord.
ASSUME FrameAssumption == MaxEntries \in 1 .. 127

\* DBUS_TYPE_STRING, _INT32, _UINT32 and _DOUBLE.
Supported == {"s", "i", "u", "d"}

-----------------------------------------------------------------------------
(***************************************************************************)
(* remote_cmd_t: entry_count is the length of its entries                  *)
(***************************************************************************)

\* create_remote_cmd and remote_cmd_init.
RemoteCmd(component_id, umid, opcode, prio, duration) ==
  [component_id |-> component_id, umid |-> umid, opcode |-> opcode,
   prio |-> prio, duration |-> duration, entries |-> <<>>]

Entry(key, data_type, data_length, value) ==
  [key |-> key, data_type |-> data_type, data_length |-> data_length,
   value |-> value]

IsEntry(e) ==
  e = Entry(e.key, e.data_type, e.data_length, e.value)

\* A remote_cmd_t, with any number of entries: what another program sends
\* need not fit.
IsCommand(cmd) ==
  /\ cmd = [component_id |-> cmd.component_id, umid |-> cmd.umid,
            opcode |-> cmd.opcode, prio |-> cmd.prio,
            duration |-> cmd.duration, entries |-> cmd.entries]
  /\ cmd.prio \in 0 .. 255 /\ cmd.duration \in 0 .. 255
  /\ cmd.entries \in Seq({cmd.entries[i] : i \in DOMAIN cmd.entries})
  /\ \A i \in DOMAIN cmd.entries : IsEntry(cmd.entries[i])

IsFull(cmd) == Len(cmd.entries) >= MaxEntries

\* remote_cmd_add_string and remote_cmd_add_int: -1 when the command is full.
AddEntry(cmd, entry) ==
  IF IsFull(cmd) THEN cmd ELSE [cmd EXCEPT !.entries = Append(@, entry)]

-----------------------------------------------------------------------------
(***************************************************************************)
(* encode_data_frame                                                       *)
(***************************************************************************)

Arg(type, value) == [type |-> type, value |-> value]

\* The four bytes at &cmd->prio: prio, duration and two bytes of padding,
\* which calloc has cleared.
PrioWord(cmd) == cmd.prio + 256 * cmd.duration

\* The four bytes at &cmd->duration: duration, the padding, and the low byte
\* of entry_count.
DurationWord(cmd) == cmd.duration + 16777216 * Len(cmd.entries)

\* The structs (siiv) of the array: the variant has the type of the entry.
Structs(cmd) ==
  [i \in DOMAIN cmd.entries |->
     LET e == cmd.entries[i] IN
     [key |-> e.key, data_type |-> e.data_type, data_length |-> e.data_length,
      variant |-> Arg(e.data_type, e.value)]]

\* An entry of any other type ends the encoding with -EINVAL.
Encodable(cmd) ==
  \A i \in DOMAIN cmd.entries : cmd.entries[i].data_type \in Supported

Encode(cmd) ==
  << Arg("s", cmd.component_id), Arg("i", cmd.umid), Arg("i", cmd.opcode),
     Arg("i", PrioWord(cmd)), Arg("i", DurationWord(cmd)),
     Arg("a", Structs(cmd)) >>

\* The encoder of the client, and the frame the comment at cmd_payload.h:23
\* draws: no priority and no duration.
ClientEncode(cmd) ==
  << Arg("s", cmd.component_id), Arg("i", cmd.umid), Arg("i", cmd.opcode),
     Arg("a", Structs(cmd)) >>

-----------------------------------------------------------------------------
(***************************************************************************)
(* decode_data_frame                                                       *)
(***************************************************************************)

\* The arguments the decoder asks for, one after the other.
Layout == <<"s", "i", "i", "i", "i", "a">>

\* What libdbus writes is defined only if each of them is there.
Readable(wire) ==
  /\ Len(wire) >= Len(Layout)
  /\ \A k \in DOMAIN Layout : wire[k].type = Layout[k]

\* Mutant: the loop reads one entry more.
ReadCountOneMore(array) ==
  IF Len(array) <= MaxEntries THEN Len(array) ELSE MaxEntries + 1

\* The entries read before the loop ends.
ReadCount(array) == IF Len(array) < MaxEntries THEN Len(array) ELSE MaxEntries

\* The loop over the structs of the array; the value of a type that is not
\* supported stays what calloc has made it.
ReadEntries(array) ==
  [i \in 1 .. ReadCount(array) |->
     [key |-> array[i].key, data_type |-> array[i].data_type,
      data_length |-> array[i].data_length,
      value |-> IF array[i].data_type \in Supported
                THEN array[i].variant.value ELSE 0]]

\* The first byte of each word is what stays in prio and in duration; the
\* word written to duration also hits entry_count, which is then set.
Decode(wire) ==
  [component_id |-> wire[1].value, umid |-> wire[2].value,
   opcode |-> wire[3].value,
   prio |-> wire[4].value % 256, duration |-> wire[5].value % 256,
   entries |-> ReadEntries(wire[6].value)]

\* What a reader of both ends expects: the command as it was sent, without
\* the entries the receiver has no room for.
Fitting(cmd) ==
  [cmd EXCEPT !.entries = IF Len(@) > MaxEntries THEN SubSeq(@, 1, MaxEntries)
                         ELSE @]
=============================================================================
