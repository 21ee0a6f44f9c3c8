----------------------------- MODULE DBusProofs -----------------------------
(***************************************************************************)
(* What holds of the DBus side for every set of workers and of messages:   *)
(* of the codec (a command arrives as it was sent but for the entries      *)
(* there is no room for), of the lifetime of messages, and of the way they *)
(* take from the bus to a worker or to nobody.                             *)
(***************************************************************************)
EXTENDS DBus, TLAPS, FiniteSetTheorems, SequenceTheorems

-----------------------------------------------------------------------------
(***************************************************************************)
(* The codec.                                                              *)
(***************************************************************************)

Values(cmd) == {cmd.entries[i] : i \in DOMAIN cmd.entries}

-----------------------------------------------------------------------------
\* The low byte of the word at &cmd->prio is prio, whatever duration is.
LEMMA PrioByte ==
  ASSUME NEW p \in 0 .. 255, NEW d \in 0 .. 255
  PROVE  (p + 256 * d) % 256 = p
  OBVIOUS

\* The low byte of the word at &cmd->duration is duration, whatever
\* entry_count is.
LEMMA DurationByte ==
  ASSUME NEW cmd, cmd.duration \in 0 .. 255, Len(cmd.entries) \in Nat
  PROVE  DurationWord(cmd) % 256 = cmd.duration
<1>1. PICK k \in Nat : k = 65536 * Len(cmd.entries)
  BY SMT
<1>2. PICK d \in 0 .. 255 : d = cmd.duration
  BY SMT
<1>3. DurationWord(cmd) = d + 256 * k
  BY <1>1, <1>2, SMT DEF DurationWord
<1>4. (d + 256 * k) % 256 = d
  BY SMT
<1> QED
  BY <1>2, <1>3, <1>4, SMT

\* The loop of decode_data_frame reads the entries that fit.
LEMMA EntriesRead ==
  ASSUME NEW E, NEW s \in Seq(E)
  PROVE  [i \in 1 .. ReadCount(s) |-> s[i]]
           = IF Len(s) > MaxEntries THEN SubSeq(s, 1, MaxEntries) ELSE s
<1>1. MaxEntries \in Nat
  BY FrameAssumption
<1>2. CASE Len(s) > MaxEntries
  <2>1. ReadCount(s) = MaxEntries
    BY <1>1, <1>2 DEF ReadCount
  <2>2. SubSeq(s, 1, MaxEntries) = [i \in 1 .. MaxEntries |-> s[i]]
    BY <1>1, <1>2
  <2> QED
    BY <1>2, <2>1, <2>2
<1>3. CASE ~(Len(s) > MaxEntries)
  <2>1. ReadCount(s) = Len(s)
    BY <1>1, <1>3 DEF ReadCount
  <2>2. s = [i \in 1 .. Len(s) |-> s[i]]
    OBVIOUS
  <2> QED
    BY <1>3, <2>1, <2>2
<1> QED
  BY <1>2, <1>3

-----------------------------------------------------------------------------
\* A command is its fields.
LEMMA Fields ==
  ASSUME NEW cmd, IsCommand(cmd), NEW s
  PROVE  [cmd EXCEPT !.entries = s]
           = [component_id |-> cmd.component_id, umid |-> cmd.umid,
              opcode |-> cmd.opcode, prio |-> cmd.prio,
              duration |-> cmd.duration, entries |-> s]
<1> DEFINE C == [component_id |-> cmd.component_id, umid |-> cmd.umid,
                 opcode |-> cmd.opcode, prio |-> cmd.prio,
                 duration |-> cmd.duration, entries |-> cmd.entries]
<1>1. cmd = C
  BY Zenon DEF IsCommand
<1>2. [C EXCEPT !.entries = s]
        = [component_id |-> cmd.component_id, umid |-> cmd.umid,
           opcode |-> cmd.opcode, prio |-> cmd.prio,
           duration |-> cmd.duration, entries |-> s]
  OBVIOUS
<1> HIDE DEF C
<1> QED
  BY <1>1, <1>2, Zenon

\* Its entries are a sequence.
LEMMA EntriesSeq ==
  ASSUME NEW cmd, IsCommand(cmd)
  PROVE  /\ cmd.entries \in Seq(Values(cmd))
         /\ Len(cmd.entries) \in Nat
         /\ DOMAIN cmd.entries = 1 .. Len(cmd.entries)
<1>1. cmd.entries \in Seq(Values(cmd))
  BY Zenon DEF IsCommand, Values
<1> QED
  BY <1>1

\* The entries of a command the receiver has room for.
FittingPart(cmd) ==
  IF Len(cmd.entries) > MaxEntries THEN SubSeq(cmd.entries, 1, MaxEntries)
  ELSE cmd.entries

\* Fitting changes the entries alone.
LEMMA FittingEntries ==
  ASSUME NEW cmd, IsCommand(cmd)
  PROVE  Fitting(cmd)
           = [component_id |-> cmd.component_id, umid |-> cmd.umid,
              opcode |-> cmd.opcode, prio |-> cmd.prio,
              duration |-> cmd.duration, entries |-> FittingPart(cmd)]
<1>1. Fitting(cmd) = [cmd EXCEPT !.entries = FittingPart(cmd)]
  BY Zenon DEF Fitting, FittingPart
<1> QED
  BY <1>1, Fields

\* The structs of a frame hold the entries one by one, and as many as fit are
\* read out of them again.
LEMMA StructsRead ==
  ASSUME NEW cmd, IsCommand(cmd), Encodable(cmd),
         NEW array, array = Structs(cmd)
  PROVE  ReadEntries(array) = FittingPart(cmd)
<1>1. /\ cmd.entries \in Seq(Values(cmd)) /\ Len(cmd.entries) \in Nat
      /\ DOMAIN cmd.entries = 1 .. Len(cmd.entries)
  BY EntriesSeq
<1>2. DOMAIN array = 1 .. Len(cmd.entries) /\ Len(array) = Len(cmd.entries)
  <2>1. DOMAIN array = 1 .. Len(cmd.entries)
    BY <1>1 DEF Structs
  <2> QED
    BY <1>1, <2>1
<1>3. ReadCount(array) = ReadCount(cmd.entries)
  BY <1>2 DEF ReadCount
<1>4. ASSUME NEW i \in 1 .. ReadCount(array)
      PROVE  [key |-> array[i].key, data_type |-> array[i].data_type,
              data_length |-> array[i].data_length,
              value |-> IF array[i].data_type \in Supported
                        THEN array[i].variant.value ELSE 0] = cmd.entries[i]
  <2>1. i \in DOMAIN cmd.entries
    <3>1. /\ ReadCount(cmd.entries) \in Nat
          /\ ReadCount(cmd.entries) <= Len(cmd.entries)
      <4>1. Len(cmd.entries) \in Nat /\ MaxEntries \in Nat
        BY <1>1, FrameAssumption
      <4> QED
        BY <4>1, SMT DEF ReadCount
    <3>2. i \in 1 .. Len(cmd.entries)
      BY <1>1, <1>3, <3>1
    <3> QED
      BY <1>1, <3>2
  <2>2. /\ cmd.entries[i] = [key |-> cmd.entries[i].key,
                              data_type |-> cmd.entries[i].data_type,
                              data_length |-> cmd.entries[i].data_length,
                              value |-> cmd.entries[i].value]
        /\ cmd.entries[i].data_type \in Supported
    BY <2>1 DEF IsCommand, IsEntry, Entry, Encodable
  <2>3. array[i] = [key |-> cmd.entries[i].key,
                    data_type |-> cmd.entries[i].data_type,
                    data_length |-> cmd.entries[i].data_length,
                    variant |-> Arg(cmd.entries[i].data_type,
                                    cmd.entries[i].value)]
    BY <2>1 DEF Structs
  <2>4. /\ array[i].key = cmd.entries[i].key
        /\ array[i].data_type = cmd.entries[i].data_type
        /\ array[i].data_length = cmd.entries[i].data_length
        /\ array[i].variant.value = cmd.entries[i].value
    BY <2>3 DEF Arg
  <2> QED
    BY <2>2, <2>4
<1>5. ReadEntries(array)
        = [i \in 1 .. ReadCount(cmd.entries) |-> cmd.entries[i]]
  BY <1>3, <1>4 DEF ReadEntries
<1> QED
  BY <1>1, <1>5, EntriesRead DEF FittingPart

\* Whatever command of known types a program encodes as the service does
\* (encode_data_frame), the service decodes that command, cut at MAX_ENTRIES
\* (decode_data_frame):
\* the bytes written beside prio and duration do no harm.
THEOREM RoundTrip ==
  ASSUME NEW cmd, IsCommand(cmd), Encodable(cmd)
  PROVE  Decode(Encode(cmd)) = Fitting(cmd)
<1>1. /\ cmd.prio \in 0 .. 255 /\ cmd.duration \in 0 .. 255
      /\ Len(cmd.entries) \in Nat
  BY EntriesSeq DEF IsCommand
<1>2. /\ Encode(cmd)[1].value = cmd.component_id
      /\ Encode(cmd)[2].value = cmd.umid
      /\ Encode(cmd)[3].value = cmd.opcode
      /\ Encode(cmd)[4].value = PrioWord(cmd)
      /\ Encode(cmd)[5].value = DurationWord(cmd)
      /\ Encode(cmd)[6].value = Structs(cmd)
  BY DEF Encode, Arg
<1>3. PrioWord(cmd) % 256 = cmd.prio
  <2>1. (cmd.prio + 256 * cmd.duration) % 256 = cmd.prio
    BY <1>1, PrioByte
  <2> QED
    BY <2>1 DEF PrioWord
<1>4. DurationWord(cmd) % 256 = cmd.duration
  BY <1>1, DurationByte
<1>5. Decode(Encode(cmd)) =
        [component_id |-> cmd.component_id, umid |-> cmd.umid,
         opcode |-> cmd.opcode, prio |-> cmd.prio,
         duration |-> cmd.duration, entries |-> ReadEntries(Structs(cmd))]
  BY <1>2, <1>3, <1>4 DEF Decode
<1>6. ReadEntries(Structs(cmd)) = FittingPart(cmd)
  BY StructsRead
<1> QED
  BY <1>5, <1>6, FittingEntries

\* A frame of the service has every argument the decoder asks for; a frame of
\* the client program, which has neither prio nor duration, never has, so that
\* decode_data_frame then uses what libdbus has left undefined.
THEOREM ClientFrameIsShort ==
  ASSUME NEW cmd
  PROVE  Readable(Encode(cmd)) /\ ~Readable(ClientEncode(cmd))
<1>1. Readable(Encode(cmd))
  BY DEF Readable, Layout, Encode, Arg
<1>2. Len(ClientEncode(cmd)) = 4 /\ Len(Layout) = 6
  BY DEF ClientEncode, Layout
<1> QED
  BY <1>1, <1>2 DEF Readable

-----------------------------------------------------------------------------
(***************************************************************************)
(* The works of the queue.                                                 *)
(***************************************************************************)

\* The works there can be: reports of the service, and what the listener has
\* decoded.
Works ==
  {[from |-> None, cmd |-> Report]}
    \cup {[from |-> m, cmd |-> Decode(Encode(Cmd[m]))] : m \in Ours}

QueueInv == queue \in Seq(Works)

-----------------------------------------------------------------------------
\* A work of the set holds the command that was sent, cut at MAX_ENTRIES.
LEMMA WorksAsSent ==
  ASSUME NEW entry \in Works, entry.from # None, Encodable(Cmd[entry.from])
  PROVE  entry.cmd = Fitting(Cmd[entry.from])
<1>1. PICK m \in Ours : entry = [from |-> m, cmd |-> Decode(Encode(Cmd[m]))]
  BY DEF Works
<1>2. IsCommand(Cmd[m]) /\ Encodable(Cmd[m])
  BY <1>1, DBusAssumption
<1> QED
  BY <1>1, <1>2, RoundTrip

\* The queue grows by a report or by a decoded command, and loses its head.
LEMMA QueueStep ==
  ASSUME QueueInv, [Next]_vars
  PROVE  QueueInv'
<1>1. CASE UNCHANGED queue
  BY <1>1 DEF QueueInv
<1>2. CASE PushReport
  <2>1. [from |-> None, cmd |-> Report] \in Works
    BY DEF Works
  <2> QED
    BY <1>2, <2>1 DEF QueueInv, PushReport
<1>3. CASE Handle
  <2>1. CASE cur \in Ours /\ queue' = Append(queue,
               [from |-> cur, cmd |-> Decode(Encode(Cmd[cur]))])
    <3>1. [from |-> cur, cmd |-> Decode(Encode(Cmd[cur]))] \in Works
      BY <2>1 DEF Works
    <3> QED
      BY <2>1, <3>1 DEF QueueInv
  <2> QED
    BY <1>1, <1>3, <2>1 DEF Handle
<1>4. ASSUME NEW w \in Workers, Take(w)
      PROVE  QueueInv'
  BY <1>4 DEF QueueInv, Take
<1>5. ASSUME Listener, ~Handle
      PROVE  UNCHANGED queue
  BY <1>5 DEF Listener, Setup, RuleAdded, RuleReplied, SaveConnection, TestRun,
              EpollWait, NextEvent, ReadWriteDispatch, Pop, Reply, Unref
<1>6. ASSUME NEW w \in Workers, Worker(w), ~Take(w)
      PROVE  UNCHANGED queue
  BY <1>6 DEF Worker, Prepare, SendFrame, FlushRound, Flushed
<1>7. ASSUME NEW m \in Messages, Arrive(m)
      PROVE  UNCHANGED queue
  BY <1>7 DEF Arrive
<1>8. CASE ClearRun \/ SetEvent \/ CloseEvent \/ UNCHANGED vars
  BY <1>1, <1>8 DEF ClearRun, SetEvent, CloseEvent, vars
<1> QED
  BY <1>1, <1>2, <1>3, <1>4, <1>5, <1>6, <1>7, <1>8 DEF Next

\* What a program sends is what the service executes: every work that came
\* from the bus holds the command of its message, cut at MAX_ENTRIES, if the
\* codec knows its types (dispatch_cmd_from_message).
THEOREM CommandsArriveAsSent == Spec => []DecodedAsSent
<1>1. Init => QueueInv
  BY DEF Init, QueueInv
<1>2. QueueInv /\ [Next]_vars => QueueInv'
  BY QueueStep
<1>3. QueueInv => DecodedAsSent
  <2> SUFFICES ASSUME QueueInv, NEW i \in DOMAIN queue,
                      queue[i].from # None, Encodable(Cmd[queue[i].from])
               PROVE  queue[i].cmd = Fitting(Cmd[queue[i].from])
    BY DEF DecodedAsSent
  <2>1. queue[i] \in Works
    BY DEF QueueInv
  <2> QED
    BY <2>1, WorksAsSent
<1> QED
  BY <1>1, <1>2, <1>3, PTL DEF Spec

-----------------------------------------------------------------------------
(***************************************************************************)
(* The lifetime of messages.                                               *)
(***************************************************************************)

\* Between the pop and the unreference of a message.
Handling == lpc \in {"handle", "answer", "unref"}

\* Between the creation and the unreference of a message of the service.
Sending == {w \in Workers : pc[w] \in {"send", "flush"}}

\* A worker at "prepare" has a work that asks it to send.
WorkInv ==
  /\ pc \in [Workers -> {"idle", "prepare", "send", "flush"}]
  /\ work \in [Workers -> Works \cup {None}]
  /\ \A w \in Workers : pc[w] = "prepare" =>
       work[w] \in Works /\ work[w].cmd.opcode = SentCmd

LiveInv ==
  /\ unsent \in Nat
  /\ live = unsent + Cardinality(Sending)

\* The listener holds the message it handles and no other.
RefInv == refs = IF Handling THEN {cur} ELSE {}

StaleInv == \A m \in stale : Cmd[m].opcode = SentCmd

\* The codec leaves the opcode alone, whatever the entries are.
LEMMA WorksOpcode ==
  ASSUME NEW entry \in Works, entry.from # None
  PROVE  entry.cmd.opcode = Cmd[entry.from].opcode
<1>1. PICK m \in Ours : entry = [from |-> m, cmd |-> Decode(Encode(Cmd[m]))]
  BY DEF Works
<1>2. Decode(Encode(Cmd[m])).opcode = Cmd[m].opcode
  BY DEF Decode, Encode, Arg
<1> QED BY <1>1, <1>2

\* The steps that touch neither the workers nor their messages.
LEMMA WorkersRest ==
  ASSUME [Next]_vars, \A w \in Workers : ~Worker(w)
  PROVE  UNCHANGED sender
BY DEF Next, vars, sender, thread, Arrive, PushReport, ClearRun, SetEvent,
       CloseEvent,
       Listener, Setup, RuleAdded, RuleReplied, SaveConnection, TestRun,
       EpollWait, NextEvent, ReadWriteDispatch, Pop, Handle, Reply, Unref

LEMMA WorkInvStep ==
  ASSUME QueueInv, WorkInv, [Next]_vars
  PROVE  WorkInv'
<1> USE DEF sender
<1>1. ASSUME NEW w \in Workers, Take(w)
      PROVE  WorkInv'
  <2>1. Head(queue) \in Works
    BY <1>1 DEF QueueInv, Take
  <2> QED BY <1>1, <2>1 DEF WorkInv, Take, Step
<1>2. ASSUME NEW w \in Workers, Prepare(w)
      PROVE  WorkInv'
  BY <1>2 DEF WorkInv, Prepare, EncodeFrame, Done, Step
<1>3. ASSUME NEW w \in Workers, SendFrame(w)
      PROVE  WorkInv'
  BY <1>3 DEF WorkInv, SendFrame, Done, Step
<1>4. ASSUME NEW w \in Workers, FlushRound(w)
      PROVE  WorkInv'
  BY <1>4 DEF WorkInv, FlushRound
<1>5. ASSUME NEW w \in Workers, Flushed(w)
      PROVE  WorkInv'
  BY <1>5 DEF WorkInv, Flushed, Done, Step
<1>6. ASSUME \A w \in Workers : ~Worker(w)
      PROVE  WorkInv'
  BY <1>6, WorkersRest DEF WorkInv
<1> QED BY <1>1, <1>2, <1>3, <1>4, <1>5, <1>6 DEF Worker

\* A message of the service is created when its worker begins to send, and
\* unreferenced when it ends; without a connection it is created and lost.
LEMMA LiveInvStep ==
  ASSUME WorkInv, LiveInv, [Next]_vars
  PROVE  LiveInv'
<1> USE DEF sender
<1>0. IsFiniteSet(Sending) /\ Cardinality(Sending) \in Nat
  <2>1. IsFiniteSet(Workers) /\ Sending \subseteq Workers
    BY DBusAssumption DEF Sending
  <2> QED BY <2>1, FS_Subset, FS_CardinalityType
<1>1. ASSUME NEW w \in Workers, Sending' = Sending \cup {w}, w \notin Sending,
             live' = live + 1, unsent' = unsent
      PROVE  LiveInv'
  <2>1. Cardinality(Sending \cup {w}) = Cardinality(Sending) + 1
    BY <1>0, <1>1, FS_AddElement
  <2> QED BY <1>0, <1>1, <2>1 DEF LiveInv
<1>2. ASSUME NEW w \in Workers, Sending' = Sending \ {w}, w \in Sending,
             live' = live - 1, unsent' = unsent
      PROVE  LiveInv'
  <2>1. Cardinality(Sending \ {w}) = Cardinality(Sending) - 1
    BY <1>0, <1>2, FS_RemoveElement
  <2> QED BY <1>0, <1>2, <2>1 DEF LiveInv
<1>3. ASSUME Sending' = Sending,
             \/ live' = live /\ unsent' = unsent
             \/ live' = live + 1 /\ unsent' = unsent + 1
      PROVE  LiveInv'
  BY <1>0, <1>3 DEF LiveInv
<1>4. ASSUME NEW w \in Workers, Take(w)
      PROVE  LiveInv'
  <2>1. Sending' = Sending
    BY <1>4 DEF Take, Step, Sending, WorkInv
  <2> QED BY <1>3, <1>4, <2>1 DEF Take
<1>5. ASSUME NEW w \in Workers, Prepare(w)
      PROVE  LiveInv'
  <2>1. w \notin Sending /\ pc[w] = "prepare"
    BY <1>5 DEF Prepare, Sending
  <2>2. ASSUME Step(w, "idle") PROVE Sending' = Sending
    BY <2>1, <2>2 DEF Step, Sending, WorkInv
  <2>3. ASSUME Step(w, "send") PROVE Sending' = Sending \cup {w}
    BY <2>1, <2>3 DEF Step, Sending, WorkInv
  <2> QED BY <1>1, <1>3, <1>5, <2>1, <2>2, <2>3 DEF Prepare, EncodeFrame, Done
<1>6. ASSUME NEW w \in Workers, SendFrame(w) \/ Flushed(w)
      PROVE  LiveInv'
  <2>1. w \in Sending
    BY <1>6 DEF SendFrame, Flushed, Sending
  <2>2. ASSUME Step(w, "idle") PROVE Sending' = Sending \ {w}
    BY <2>1, <2>2 DEF Step, Sending, WorkInv
  <2>3. ASSUME Step(w, "flush") PROVE Sending' = Sending
    BY <2>1, <2>3 DEF Step, Sending, WorkInv
  <2> QED BY <1>2, <1>3, <1>6, <2>1, <2>2, <2>3 DEF SendFrame, Flushed, Done
<1>7. ASSUME UNCHANGED sender
      PROVE  LiveInv'
  BY <1>3, <1>7 DEF Sending
<1>8. ASSUME NEW w \in Workers, FlushRound(w)
      PROVE  LiveInv'
  BY <1>7, <1>8 DEF FlushRound
<1> QED BY <1>4, <1>5, <1>6, <1>7, <1>8, WorkersRest DEF Worker

LEMMA RefInvStep ==
  ASSUME RefInv, [Next]_vars
  PROVE  RefInv'
<1> USE DEF RefInv, Handling, thread, Goto
<1>1. CASE Listener
  BY <1>1 DEF Listener, Setup, RuleAdded, RuleReplied, SaveConnection, TestRun,
       EpollWait, NextEvent, ReadWriteDispatch, Pop, Handle, Reply, Unref
<1>2. CASE UNCHANGED thread
  BY <1>2
<1>3. ASSUME NEW w \in Workers, Worker(w)
      PROVE  UNCHANGED thread
  BY <1>3 DEF Worker, Take, Prepare, SendFrame, FlushRound, Flushed
<1>4. ASSUME ~Listener, \A w \in Workers : ~Worker(w)
      PROVE  UNCHANGED thread
  BY <1>4 DEF Next, vars, Arrive, PushReport, ClearRun, SetEvent,
       CloseEvent
<1> QED BY <1>1, <1>2, <1>3, <1>4

\* Only a worker reads strings that are gone: at "handle" the listener still
\* holds the message.
LEMMA StaleInvStep ==
  ASSUME StaleInv, RefInv, WorkInv, [Next]_vars
  PROVE  StaleInv'
<1> USE DEF StaleInv, danger
<1>1. CASE Handle
  BY <1>1 DEF Handle, RefInv, Handling
<1>2. ASSUME NEW w \in Workers, Prepare(w)
      PROVE  StaleInv'
  <2>1. ASSUME Dangling(w) PROVE Cmd[work[w].from].opcode = SentCmd
    BY <1>2, <2>1, WorksOpcode DEF Dangling, WorkInv, Prepare
  <2> QED BY <1>2, <2>1 DEF Prepare, EncodeFrame
<1>3. ASSUME NEW w \in Workers, Worker(w), ~Prepare(w)
      PROVE  StaleInv'
  BY <1>3 DEF Worker, Take, SendFrame, FlushRound, Flushed
<1>4. ASSUME ~Handle, \A w \in Workers : ~Worker(w)
      PROVE  StaleInv'
  BY <1>4 DEF Next, vars, Arrive, PushReport, ClearRun, SetEvent,
       CloseEvent, Listener,
       Setup, RuleAdded, RuleReplied, SaveConnection, TestRun, EpollWait,
       NextEvent, ReadWriteDispatch, Pop, Reply, Unref
<1> QED BY <1>1, <1>2, <1>3, <1>4

\* No message is leaked or unreferenced early (dbus_send_message_async,
\* handle_message, the listener's loop), but those created without a
\* connection and the commands that another program makes the service
\* forward.
THEOREM MessagesLiveAsLong == Spec => []MessageLifetime
<1> DEFINE Inv == QueueInv /\ WorkInv /\ LiveInv /\ RefInv /\ StaleInv
<1>1. Init => Inv
  <2> SUFFICES ASSUME Init PROVE Inv
    OBVIOUS
  <2>1. Sending = {}
    BY DEF Init, Sending
  <2> QED BY <2>1, FS_EmptySet DEF Init, QueueInv, WorkInv, LiveInv, RefInv,
             Handling, StaleInv
<1>2. Inv /\ [Next]_vars => Inv'
  BY QueueStep, WorkInvStep, LiveInvStep, RefInvStep, StaleInvStep
<1>3. Inv => MessageLifetime
  BY DEF LiveInv, RefInv, StaleInv, MessageLifetime, Sending
<1> QED BY <1>1, <1>2, <1>3, PTL DEF Spec

-----------------------------------------------------------------------------
(***************************************************************************)
(* The way of a message: sent, in the socket, in the incoming queue, and   *)
(* then dispatched by libdbus or handled by the listener.                  *)
(***************************************************************************)

\* What is on the way to the service, oldest first, and whether m is.
Wire == incoming \o socket
OnWire(m) == \E i \in DOMAIN Wire : Wire[i] = m

\* Nothing has been done about m.
Unseen(m) ==
  /\ m \notin swallowed \cup pushed
  /\ m \in Ours => answer[m] = None
  /\ ~(Handling /\ cur = m)

RouteType ==
  /\ socket \in Seq(Messages) /\ incoming \in Seq(Listened)
  /\ answer \in [Ours -> {None, "ok", "error", "unknown"}]
  /\ verdict \in {"ok", "error"}

\* Only a worker that has found the connection sends, and before there is
\* one nothing but the greetings of the bus is read.
SetupInv ==
  /\ \A w \in Workers : pc[w] \in {"send", "flush"} => conn
  /\ lpc = "setup" => ~conn /\ incoming = <<>> /\ swallowed = {}

\* Whenever the listener may dispatch, another call has read what is there.
StrayInv == Handling \/ lpc = "pop" \/ Range(incoming) \subseteq stray

\* A message is on its way once, after it was sent, and before anything is
\* done about it.
WireOnce ==
  \A i, j \in DOMAIN Wire : Wire[i] = Wire[j] /\ Wire[i] \in Messages => i = j

WireInv ==
  /\ WireOnce
  /\ \A m \in Messages : OnWire(m) => m \in sent
  /\ \A m \in Messages : m \notin sent \/ OnWire(m) => Unseen(m)

\* What is known of the message the listener handles.
HandleInv ==
  /\ Handling /\ cur \in Ours => cur \notin swallowed
  /\ lpc = "handle" /\ cur \in Ours => cur \notin pushed /\ answer[cur] = None
  /\ lpc = "answer" => /\ cur \in Ours /\ Kind[cur] = "call"
                       /\ verdict = "ok" <=> cur \in pushed

\* Without a failure the only pushed call not yet answered "ok" is the one the
\* listener is about to answer, and only a dangling string brings the process
\* down.
UntoldInv ==
  /\ faults \in Nat /\ pushed \subseteq Ours
  /\ \A m \in pushed :
       Kind[m] = "call" /\ answer[m] # "ok" /\ faults = 0 =>
         lpc = "answer" /\ cur = m
  /\ crashed => stale # {} \/ faults > 0

RouteInv ==
  /\ RouteType /\ SetupInv /\ StrayInv /\ WireInv /\ HandleInv
  /\ ToldOnlyTheTruth /\ UntoldInv

\* The steps that move or answer a message; the rest leaves all that the
\* invariant speaks of alone, but for the place of the listener.
Moves ==
  \/ \E m \in Messages : Arrive(m)
  \/ Setup \/ RuleReplied \/ ReadWriteDispatch \/ Pop \/ Handle \/ Reply \/ Unref
  \/ \E w \in Workers : FlushRound(w)

Elsewhere ==
  {"match", "matching", "save", "loop", "wait", "events", "dispatch", "gone"}

LEMMA Quiet ==
  ASSUME [Next]_vars, ~Moves
  PROVE  /\ UNCHANGED <<socket, incoming, sent, stray, swallowed, pushed, answer,
                        cur, verdict>>
         /\ lpc' = lpc \/ (lpc \in Elsewhere /\ lpc' \in Elsewhere)
<1> USE DEF bus, queues, output, thread, history
<1>1. CASE Listener
  BY <1>1 DEF Moves, Elsewhere, Goto, Listener, RuleAdded, SaveConnection,
       TestRun, EpollWait, NextEvent
<1>2. ASSUME NEW w \in Workers, Worker(w)
      PROVE  UNCHANGED <<socket, incoming, sent, stray, swallowed, pushed,
                         answer, cur, verdict, lpc>>
  BY <1>2 DEF Moves, Worker, Take, Prepare, SendFrame, Flushed
<1>3. CASE ~Listener /\ \A w \in Workers : ~Worker(w)
  BY <1>3 DEF Moves, Next, vars, PushReport, ClearRun, SetEvent,
       CloseEvent
<1> QED BY <1>1, <1>2, <1>3

\* What the three kinds of move do to the wire.
LEMMA WireRead ==
  ASSUME RouteType, ReadSocket
  PROVE  Wire' = Wire /\ socket' \in Seq(Messages) /\ incoming' \in Seq(Listened)
<1>1. socket \in Seq(Listened)
  BY DEF RouteType, Listened
<1> QED BY <1>1 DEF RouteType, ReadSocket, Wire

LEMMA WireSend ==
  ASSUME RouteType, NEW m \in Messages, socket' = Append(socket, m),
         incoming' = incoming
  PROVE  /\ socket' \in Seq(Messages) /\ Wire' \in Seq(Listened)
         /\ Wire' = Append(Wire, m)
<1>1. socket \in Seq(Listened) /\ m \in Listened
  BY DEF RouteType, Listened
<1> QED BY <1>1 DEF RouteType, Wire

LEMMA WireTake ==
  ASSUME RouteType, incoming # <<>>, incoming' = Tail(incoming), socket' = socket
  PROVE  /\ Wire \in Seq(Listened) /\ Wire # <<>>
         /\ Head(Wire) = Head(incoming) /\ Wire' = Tail(Wire)
         /\ incoming' \in Seq(Listened)
<1>1. socket \in Seq(Listened)
  BY DEF RouteType, Listened
<1> QED BY <1>1 DEF RouteType, Wire

LEMMA WireArrives ==
  ASSUME RouteType, WireInv, NEW m \in Messages, Arrive(m)
  PROVE  WireOnce' /\ \A x \in Messages : OnWire(x)' => OnWire(x) \/ x = m
<1>1. /\ Wire \in Seq(Listened) /\ Wire' \in Seq(Listened)
      /\ Wire' = Append(Wire, m) /\ m \notin sent
  <2>1. Wire \in Seq(Listened)
    <3>1. socket \in Seq(Listened)
      BY DEF RouteType, Listened
    <3> QED BY <3>1 DEF RouteType, Wire
  <2> QED BY <2>1, WireSend DEF Arrive
<1>2. \A i \in DOMAIN Wire : Wire[i] # m
  BY <1>1 DEF WireInv, OnWire
<1> DEFINE s == Wire
<1>3. WireOnce'
  <2>1. /\ s \in Seq(Listened) /\ s' = Append(s, m)
        /\ \A i \in DOMAIN s : s[i] # m
        /\ \A i, j \in DOMAIN s : s[i] = s[j] /\ s[i] \in Messages => i = j
    BY <1>1, <1>2 DEF WireInv, WireOnce
  <2> HIDE DEF s
  <2>2. \A i, j \in DOMAIN s' : s'[i] = s'[j] /\ s'[i] \in Messages => i = j
    BY <2>1
  <2> QED BY <2>2 DEF s, WireOnce
<1>4. ASSUME NEW x \in Messages, OnWire(x)'
      PROVE  OnWire(x) \/ x = m
  <2>1. s \in Seq(Listened) /\ s' = Append(s, m) /\ \E i \in DOMAIN s' : s'[i] = x
    BY <1>1, <1>4 DEF OnWire
  <2> HIDE DEF s
  <2>2. x = m \/ \E i \in DOMAIN s : s[i] = x
    BY <2>1
  <2> QED BY <2>2 DEF s, OnWire
<1> QED BY <1>3, <1>4

LEMMA WireLoses ==
  ASSUME RouteType, WireInv, incoming # <<>>, incoming' = Tail(incoming),
         socket' = socket
  PROVE  /\ Head(incoming) \in Listened /\ OnWire(Head(incoming))
         /\ WireOnce'
         /\ \A x \in Messages : OnWire(x)' => OnWire(x) /\ x # Head(incoming)
<1> DEFINE s == Wire
<1>1. /\ s \in Seq(Listened) /\ s # <<>>
      /\ Head(s) = Head(incoming) /\ s' = Tail(s)
      /\ \A i, j \in DOMAIN s : s[i] = s[j] /\ s[i] \in Messages => i = j
  BY WireTake DEF WireInv, WireOnce
<1> HIDE DEF s
<1>2. 1 \in DOMAIN s /\ s[1] = Head(incoming) /\ s[1] \in Listened
  BY <1>1
<1>3. \A i, j \in DOMAIN s' : s'[i] = s'[j] /\ s'[i] \in Messages => i = j
  BY <1>1
<1>4. ASSUME NEW x \in Messages, NEW i \in DOMAIN s', s'[i] = x
      PROVE  (\E j \in DOMAIN s : s[j] = x) /\ x # s[1]
  <2>1. i + 1 \in DOMAIN s /\ s[i + 1] = x /\ i + 1 # 1
    BY <1>1, <1>4
  <2> QED BY <1>1, <1>2, <2>1
<1> QED BY <1>2, <1>3, <1>4 DEF s, OnWire, WireOnce

-----------------------------------------------------------------------------
LEMMA RouteTypeStep ==
  ASSUME RouteType, [Next]_vars
  PROVE  RouteType'
<1> USE DEF queues
<1>1. ASSUME UNCHANGED <<socket, incoming, answer, verdict>>
      PROVE  RouteType'
  BY <1>1 DEF RouteType
<1>2. ASSUME ReadSocket, UNCHANGED <<answer, verdict>>
      PROVE  RouteType'
  BY <1>2, WireRead DEF RouteType
<1>3. CASE ~Moves
  BY <1>1, <1>3, Quiet
<1>4. ASSUME NEW m \in Messages, Arrive(m)
      PROVE  RouteType'
  BY <1>4, WireSend DEF RouteType, Arrive, output, thread
<1>5. CASE Setup
  <2>1. <<NameAcquired, NameAcquired>> \in Seq(Listened)
    BY DEF Listened
  <2> QED BY <1>5, <2>1 DEF RouteType, Setup, output
<1>6. CASE RuleReplied \/ \E w \in Workers : FlushRound(w)
  BY <1>2, <1>6 DEF RuleReplied, FlushRound, ReadStray, output, thread
<1>7. CASE ReadWriteDispatch
  <2>1. CASE incoming = <<>>
    BY <1>1, <1>2, <1>7, <2>1 DEF ReadWriteDispatch, output
  <2>2. CASE incoming # <<>>
    <3>1. incoming' \in Seq(Listened) /\ socket' = socket /\ verdict' = verdict
      BY <1>7, <2>2, WireTake DEF ReadWriteDispatch
    <3>2. answer' \in [Ours -> {None, "ok", "error", "unknown"}]
      BY <1>7, <2>2 DEF ReadWriteDispatch, Answer, RouteType, output
    <3> QED BY <3>1, <3>2 DEF RouteType
  <2> QED BY <2>1, <2>2
<1>8. CASE Pop
  <2>1. CASE incoming = <<>>
    BY <1>1, <1>8, <2>1 DEF Pop, output
  <2>2. CASE incoming # <<>>
    BY <1>8, <2>2, WireTake DEF Pop, output, RouteType
  <2> QED BY <2>1, <2>2
<1>9. CASE Handle
  BY <1>9 DEF Handle, RouteType, output
<1>10. CASE Reply
  BY <1>10 DEF Reply, Answer, RouteType, output
<1>11. CASE Unref
  BY <1>11 DEF Unref, RouteType, output
<1> QED BY <1>3, <1>4, <1>5, <1>6, <1>7, <1>8, <1>9, <1>10, <1>11 DEF Moves

LEMMA SetupInvStep ==
  ASSUME WorkInv, SetupInv, [Next]_vars
  PROVE  SetupInv'
<1>1. conn => conn'
  BY DEF Next, vars, context, Arrive, PushReport, ClearRun, SetEvent,
       CloseEvent, Listener,
       Setup, RuleAdded, RuleReplied, SaveConnection, TestRun, EpollWait,
       NextEvent, ReadWriteDispatch, Pop, Handle, Reply, Unref, Worker, Take,
       Prepare, SendFrame, FlushRound, Flushed
<1>2. ASSUME NEW w \in Workers, pc'[w] \in {"send", "flush"}
      PROVE  conn'
  <2>1. CASE pc[w] \in {"send", "flush"}
    BY <1>1, <2>1 DEF SetupInv
  <2>2. CASE pc[w] \notin {"send", "flush"}
    <3>1. PICK v \in Workers : Worker(v)
      BY <1>2, <2>2, WorkersRest DEF sender
    <3>2. v = w /\ Prepare(v)
      BY <1>2, <2>2, <3>1 DEF Worker, Take, Prepare, SendFrame, FlushRound,
         Flushed, EncodeFrame, Done, Step, WorkInv, sender
    <3> QED BY <1>1, <1>2, <2>2, <3>2 DEF Prepare, Done, Step, WorkInv
  <2> QED BY <2>1, <2>2
<1>3. ASSUME lpc' = "setup"
      PROVE  lpc = "setup" /\ UNCHANGED <<conn, incoming, swallowed>>
  <2>1. lpc = "setup" /\ ~Listener
    BY <1>3 DEF Next, vars, thread, Goto, Arrive, PushReport, ClearRun,
         SetEvent, CloseEvent, Listener, Setup, RuleAdded, RuleReplied, SaveConnection,
         TestRun, EpollWait, NextEvent, ReadWriteDispatch, Pop, Handle, Reply,
         Unref, Worker, Take, Prepare, SendFrame, FlushRound, Flushed
  <2>2. \A w \in Workers : ~FlushRound(w)
    BY <2>1 DEF SetupInv, FlushRound
  <2> QED BY <2>1, <2>2 DEF Next, vars, context, queues, history, Arrive,
       PushReport, ClearRun, SetEvent,
       CloseEvent, Worker, Take, Prepare, SendFrame, Flushed
<1> QED BY <1>2, <1>3 DEF SetupInv

LEMMA StrayInvStep ==
  ASSUME RouteType, SetupInv, StrayInv, OnlyStraysSwallowed, [Next]_vars
  PROVE  StrayInv' /\ OnlyStraysSwallowed'
<1> USE DEF StrayInv, OnlyStraysSwallowed, Handling, Goto, history, queues, thread
<1>1. CASE ~Moves
  BY <1>1, Quiet DEF Elsewhere
<1>2. ASSUME NEW m \in Messages, Arrive(m)
      PROVE  StrayInv' /\ OnlyStraysSwallowed'
  BY <1>2 DEF Arrive
<1>3. CASE Setup
  <2>1. Range(<<NameAcquired, NameAcquired>>) = {NameAcquired} /\ Range(<<>>) = {}
    BY DEF Range
  <2>2. swallowed = {} /\ incoming = <<>> /\ swallowed' = swallowed
    BY <1>3 DEF Setup, SetupInv
  <2>3. \/ incoming' = <<NameAcquired, NameAcquired>> /\ stray' = {NameAcquired}
        \/ incoming' = <<>>
    BY <1>3, <2>2 DEF Setup
  <2>4. Range(incoming') \subseteq stray'
    BY <2>1, <2>3
  <2> QED BY <2>2, <2>4
<1>4. ASSUME ReadStray, UNCHANGED swallowed,
             lpc' = lpc \/ (~Handling /\ lpc # "pop")
      PROVE  StrayInv' /\ OnlyStraysSwallowed'
  <2>1. Range(incoming') \subseteq Range(incoming) \cup Range(socket)
    BY <1>4 DEF RouteType, ReadStray, ReadSocket, Range
  <2> QED BY <1>4, <2>1 DEF ReadStray
<1>5. CASE RuleReplied \/ \E w \in Workers : FlushRound(w)
  BY <1>4, <1>5 DEF RuleReplied, FlushRound
<1>6. CASE ReadWriteDispatch
  <2>1. incoming # <<>> => Head(incoming) \in Range(incoming)
    BY DEF RouteType, Range
  <2> QED BY <1>6, <2>1 DEF ReadWriteDispatch
<1>7. CASE Pop
  BY <1>7 DEF Pop, Range
<1>8. CASE Handle \/ Reply \/ Unref
  BY <1>8 DEF Handle, Reply, Unref
<1> QED BY <1>1, <1>2, <1>3, <1>5, <1>6, <1>7, <1>8 DEF Moves

\* A message keeps its one place while nothing is done about it.
LEMMA WireInvStep ==
  ASSUME RouteType, SetupInv, WireInv, [Next]_vars
  PROVE  WireInv'
<1> USE DEF queues, history, thread, Goto
<1>1. ASSUME UNCHANGED <<Wire, sent, swallowed, pushed, answer>>,
             Handling' => Handling /\ cur' = cur
      PROVE  WireInv'
  BY <1>1 DEF WireInv, WireOnce, OnWire, Unseen
<1>2. CASE ~Moves
  <2>1. Handling' => Handling /\ cur' = cur
    BY <1>2, Quiet DEF Handling, Elsewhere
  <2> QED BY <1>1, <1>2, <2>1, Quiet DEF Wire
<1>3. ASSUME NEW m \in Messages, Arrive(m)
      PROVE  WireInv'
  <2>1. WireOnce' /\ \A x \in Messages : OnWire(x)' => OnWire(x) \/ x = m
    BY <1>3, WireArrives
  <2>2. /\ sent' = sent \cup {m} /\ m \notin sent
        /\ UNCHANGED <<swallowed, pushed, answer, cur, lpc>>
    BY <1>3 DEF Arrive, output
  <2>3. \A x \in Messages : Unseen(x)' <=> Unseen(x)
    BY <2>2 DEF Unseen, Handling
  <2> QED BY <2>1, <2>2, <2>3 DEF WireInv
<1>4. CASE Setup
  <2>1. /\ UNCHANGED <<sent, swallowed, pushed, answer, cur, socket>>
        /\ ~Handling' /\ incoming = <<>>
        /\ incoming' = <<NameAcquired, NameAcquired>> \/ incoming' = incoming
    BY <1>4 DEF Setup, output, SetupInv, Handling
  <2>2. CASE incoming' = incoming
    BY <1>1, <2>1, <2>2 DEF Wire
  <2>3. CASE incoming' = <<NameAcquired, NameAcquired>>
    <3>1. /\ Wire = socket
          /\ Wire' = <<NameAcquired, NameAcquired>> \o socket
          /\ socket \in Seq(Messages)
      BY <2>1, <2>3 DEF Wire, RouteType
    <3>2. ASSUME NEW i \in DOMAIN Wire', Wire'[i] \in Messages
          PROVE  i - 2 \in DOMAIN Wire /\ Wire'[i] = Wire[i - 2]
      BY <3>1, <3>2, DBusAssumption
    <3>3. \A i, j \in DOMAIN Wire' : Wire'[i] = Wire'[j] /\ Wire'[i] \in Messages => i = j
      <4> SUFFICES ASSUME NEW i \in DOMAIN Wire', NEW j \in DOMAIN Wire',
                          Wire'[i] = Wire'[j], Wire'[i] \in Messages
                   PROVE  i = j
        OBVIOUS
      <4>1. i - 2 = j - 2
        BY <3>2 DEF WireInv, WireOnce
      <4>2. i \in Int /\ j \in Int
        BY <3>1
      <4> QED BY <4>1, <4>2
    <3>4. \A x \in Messages : OnWire(x)' => OnWire(x)
      BY <3>2 DEF OnWire
    <3>5. \A x \in Messages : Unseen(x) => Unseen(x)'
      BY <2>1 DEF Unseen
    <3> QED BY <2>1, <3>3, <3>4, <3>5 DEF WireInv, WireOnce
  <2> QED BY <2>1, <2>2, <2>3
<1>5. CASE RuleReplied \/ \E w \in Workers : FlushRound(w)
  BY <1>1, <1>5, WireRead DEF RuleReplied, FlushRound, ReadStray, bus, output, Handling
<1>6. ASSUME incoming # <<>>, incoming' = Tail(incoming), UNCHANGED <<socket, sent>>,
             \A x \in Messages \ {Head(incoming)} : Unseen(x) => Unseen(x)'
      PROVE  WireInv'
  <2>1. /\ Head(incoming) \in Listened /\ OnWire(Head(incoming))
        /\ WireOnce'
        /\ \A x \in Messages : OnWire(x)' => OnWire(x) /\ x # Head(incoming)
    BY <1>6, WireLoses
  <2>2. \A x \in Messages : x \notin sent => x # Head(incoming)
    BY <2>1 DEF WireInv
  <2> QED BY <1>6, <2>1, <2>2 DEF WireInv
<1>7. CASE ReadWriteDispatch
  <2>1. lpc = "dispatch" /\ lpc' = "pop" /\ UNCHANGED <<pushed, sent>> /\ ~Handling /\ ~Handling'
    BY <1>7 DEF ReadWriteDispatch, Handling, bus
  <2>2. CASE incoming = <<>>
    <3>1. UNCHANGED <<swallowed, answer>>
      BY <1>7, <2>2 DEF ReadWriteDispatch, output
    <3>2. Wire' = Wire
      BY <1>7, <2>2, WireRead DEF ReadWriteDispatch, Wire
    <3> QED BY <1>1, <2>1, <3>1, <3>2
  <2>3. CASE incoming # <<>>
    <3>1. /\ incoming' = Tail(incoming) /\ socket' = socket
          /\ swallowed' = swallowed \cup {Head(incoming)}
          /\ \A x \in Ours \ {Head(incoming)} : answer'[x] = answer[x]
      BY <1>7, <2>3 DEF ReadWriteDispatch, Answer, RouteType, output
    <3> QED BY <1>6, <2>1, <2>3, <3>1 DEF Unseen
  <2> QED BY <2>2, <2>3
<1>8. CASE Pop
  <2>1. /\ lpc = "pop" /\ ~Handling
        /\ UNCHANGED <<sent, socket, answer, swallowed, pushed>>
    BY <1>8 DEF Pop, Handling, bus, output
  <2>2. CASE incoming = <<>>
    BY <1>1, <1>8, <2>1, <2>2 DEF Pop, Wire, Handling
  <2>3. CASE incoming # <<>>
    <3>1. incoming' = Tail(incoming) /\ cur' = Head(incoming)
      BY <1>8, <2>3 DEF Pop
    <3> QED BY <1>6, <2>1, <2>3, <3>1 DEF Unseen
  <2> QED BY <2>2, <2>3
<1>9. CASE Handle \/ Reply
  <2>1. Handling /\ cur' = cur /\ UNCHANGED <<socket, incoming, sent, swallowed>>
    BY <1>9 DEF Handle, Reply, Handling, bus
  <2>2. \A x \in Messages \ {cur} : /\ x \in pushed' => x \in pushed
                                    /\ x \in Ours => answer'[x] = answer[x]
    BY <1>9 DEF Handle, Reply, Answer, output, RouteType
  <2>3. \A x \in Messages : Unseen(x) => Unseen(x)'
    BY <2>1, <2>2 DEF Unseen
  <2>4. Wire' = Wire
    BY <2>1 DEF Wire
  <2> QED BY <2>1, <2>3, <2>4 DEF WireInv, WireOnce, OnWire
<1>10. CASE Unref
  <2>1. UNCHANGED <<Wire, sent, swallowed, pushed, answer>> /\ ~Handling'
    BY <1>10 DEF Unref, Wire, Handling, bus, output
  <2> QED BY <1>1, <2>1
<1> QED BY <1>2, <1>3, <1>4, <1>5, <1>7, <1>8, <1>9, <1>10 DEF Moves

LEMMA HandleInvStep ==
  ASSUME RouteType, WireInv, HandleInv, [Next]_vars
  PROVE  HandleInv'
<1> USE DEF queues, history, thread, output, Goto
<1>1. ASSUME ~Handling'
      PROVE  HandleInv'
  BY <1>1 DEF HandleInv, Handling
<1>2. ASSUME UNCHANGED <<lpc, cur, verdict, answer, pushed, swallowed>>
      PROVE  HandleInv'
  BY <1>2 DEF HandleInv, Handling
<1>3. CASE ~Moves
  BY <1>1, <1>2, <1>3, Quiet DEF Handling, Elsewhere
<1>4. CASE \/ Setup \/ RuleReplied \/ ReadWriteDispatch \/ Unref
           \/ Pop /\ incoming = <<>>
  BY <1>1, <1>4 DEF Setup, RuleReplied, ReadWriteDispatch, Unref, Pop, Handling
<1>5. CASE \/ \E m \in Messages : Arrive(m)
           \/ \E w \in Workers : FlushRound(w)
  BY <1>2, <1>5 DEF Arrive, FlushRound, ReadStray
<1>6. CASE Pop /\ incoming # <<>>
  <2>1. /\ incoming' = Tail(incoming) /\ socket' = socket
        /\ cur' = Head(incoming) /\ lpc' = "handle"
        /\ UNCHANGED <<answer, pushed, swallowed>>
    BY <1>6 DEF Pop
  <2>2. OnWire(cur')
    BY <1>6, <2>1, WireLoses
  <2>3. cur' \in Ours => /\ cur' \notin swallowed \cup pushed
                         /\ answer[cur'] = None
    BY <2>2 DEF WireInv, Unseen, Ours
  <2> QED BY <2>1, <2>3 DEF HandleInv
<1>7. CASE Handle
  BY <1>7 DEF Handle, HandleInv, Handling
<1>8. CASE Reply
  BY <1>8 DEF Reply, HandleInv, Handling
<1> QED BY <1>3, <1>4, <1>5, <1>6, <1>7, <1>8 DEF Moves

LEMMA AnswerStep ==
  ASSUME RouteType, WireInv, HandleInv, ToldOnlyTheTruth, [Next]_vars
  PROVE  ToldOnlyTheTruth'
<1> USE DEF queues, history, thread, output, Goto
<1>1. ASSUME UNCHANGED <<answer, pushed, swallowed>>
      PROVE  ToldOnlyTheTruth'
  BY <1>1 DEF ToldOnlyTheTruth
<1>2. CASE ~Moves
  BY <1>1, <1>2, Quiet
<1>3. CASE \/ \E m \in Messages : Arrive(m)
           \/ Setup \/ RuleReplied \/ Pop \/ Unref
           \/ ReadWriteDispatch /\ incoming = <<>>
           \/ \E w \in Workers : FlushRound(w)
  BY <1>1, <1>3 DEF Arrive, Setup, RuleReplied, Pop, Unref, ReadWriteDispatch,
       FlushRound, ReadStray
<1>4. CASE ReadWriteDispatch /\ incoming # <<>>
  <2>1. PICK m \in Listened : m = Head(incoming) /\ OnWire(m)
    BY <1>4, WireLoses DEF ReadWriteDispatch
  <2>2. /\ swallowed' = swallowed \cup {m} /\ pushed' = pushed
        /\ IF m \in Ours /\ Kind[m] = "call"
           THEN answer' = [answer EXCEPT ![m] = "unknown"] ELSE answer' = answer
    BY <1>4, <2>1 DEF ReadWriteDispatch, Answer
  <2>3. m \in Ours => m \notin pushed /\ answer[m] = None
    BY <2>1 DEF WireInv, Unseen, Ours
  <2> QED BY <2>2, <2>3 DEF ToldOnlyTheTruth, RouteType
<1>5. CASE Handle
  <2>1. answer' = answer /\ swallowed' = swallowed
    BY <1>5 DEF Handle
  <2>2. pushed' = pushed \/ (cur \in Ours /\ pushed' = pushed \cup {cur})
    BY <1>5 DEF Handle
  <2>3. cur \in Ours => answer[cur] = None
    BY <1>5 DEF Handle, HandleInv
  <2> QED BY <2>1, <2>2, <2>3 DEF ToldOnlyTheTruth
<1>6. CASE Reply
  <2>1. UNCHANGED <<pushed, swallowed>>
    BY <1>6 DEF Reply
  <2>2. answer' = answer \/ answer' = [answer EXCEPT ![cur] = verdict]
    BY <1>6 DEF Reply, Answer
  <2>3. /\ cur \in Ours /\ Kind[cur] = "call" /\ cur \notin swallowed
        /\ verdict = "ok" <=> cur \in pushed
        /\ verdict \in {"ok", "error"}
    BY <1>6 DEF Reply, HandleInv, Handling, RouteType
  <2> QED BY <2>1, <2>2, <2>3 DEF ToldOnlyTheTruth, RouteType
<1> QED BY <1>2, <1>3, <1>4, <1>5, <1>6 DEF Moves

\* Failures are counted and not forgotten, nor are strings read too late.
LEMMA FaultsStep ==
  ASSUME faults \in Nat, [Next]_vars
  PROVE  /\ faults' \in Nat
         /\ faults' = faults \/ faults' > 0
         /\ stale \subseteq stale'
<1> USE DEF danger
<1>1. faults' = faults \/ faults' = faults + 1
  <2>1. CASE Listener
    BY <2>1 DEF Fault, Listener, Setup, RuleAdded, RuleReplied, SaveConnection,
       TestRun, EpollWait, NextEvent, ReadWriteDispatch, Pop, Handle, Reply, Unref
  <2>2. ASSUME NEW w \in Workers, Worker(w)
        PROVE  faults' = faults \/ faults' = faults + 1
    BY <2>2 DEF Fault, Worker, Take, Prepare, SendFrame, FlushRound, Flushed
  <2>3. CASE ~Listener /\ \A w \in Workers : ~Worker(w)
    BY <2>3 DEF Next, vars, Arrive, PushReport, ClearRun, SetEvent, CloseEvent
  <2> QED BY <2>1, <2>2, <2>3
<1>2. stale \subseteq stale'
  <2>1. CASE Listener
    BY <2>1 DEF Listener, Setup, RuleAdded, RuleReplied, SaveConnection,
       TestRun, EpollWait, NextEvent, ReadWriteDispatch, Pop, Handle, Reply, Unref
  <2>2. ASSUME NEW w \in Workers, Worker(w)
        PROVE  stale \subseteq stale'
    BY <2>2 DEF Worker, Take, Prepare, EncodeFrame, SendFrame, FlushRound, Flushed
  <2>3. CASE ~Listener /\ \A w \in Workers : ~Worker(w)
    BY <2>3 DEF Next, vars, Arrive, PushReport, ClearRun, SetEvent, CloseEvent
  <2> QED BY <2>1, <2>2, <2>3
<1> QED BY <1>1, <1>2

LEMMA UntoldStep ==
  ASSUME RouteType, WireInv, HandleInv, UntoldInv, [Next]_vars
  PROVE  UntoldInv'
<1> USE DEF queues, history, thread, output, Goto
<1>1. faults \in Nat /\ faults' \in Nat /\ (faults' = faults \/ faults' > 0)
  BY FaultsStep DEF UntoldInv
<1>2. ASSUME UNCHANGED <<answer, pushed>>,
             lpc = "answer" => lpc' = "answer" /\ cur' = cur
      PROVE  \A m \in pushed' :
               Kind[m] = "call" /\ answer'[m] # "ok" /\ faults' = 0 =>
                 lpc' = "answer" /\ cur' = m
  BY <1>1, <1>2 DEF UntoldInv
<1>3. pushed' \subseteq Ours
  <2>1. CASE Handle
    BY <2>1 DEF Handle, UntoldInv
  <2>2. CASE ~Handle
    <3>1. pushed' = pushed
      BY <2>2, Quiet DEF Moves, Arrive, Setup, RuleReplied, Pop, Unref, Reply,
         ReadWriteDispatch, FlushRound
    <3> QED BY <3>1 DEF UntoldInv
  <2> QED BY <2>1, <2>2
<1>4. \A m \in pushed' :
        Kind[m] = "call" /\ answer'[m] # "ok" /\ faults' = 0 =>
          lpc' = "answer" /\ cur' = m
  <2>1. CASE ~Moves
    BY <1>2, <2>1, Quiet DEF Elsewhere
  <2>2. CASE \/ \E m \in Messages : Arrive(m)
             \/ Setup \/ RuleReplied \/ Pop \/ Unref
             \/ ReadWriteDispatch /\ incoming = <<>>
             \/ \E w \in Workers : FlushRound(w)
    BY <1>2, <2>2 DEF Arrive, Setup, RuleReplied, Pop, Unref, ReadWriteDispatch,
         FlushRound, ReadStray
  <2>3. CASE ReadWriteDispatch /\ incoming # <<>>
    <3>1. PICK m \in Listened : m = Head(incoming) /\ OnWire(m)
      BY <2>3, WireLoses DEF ReadWriteDispatch
    <3>2. /\ pushed' = pushed /\ lpc = "dispatch"
          /\ answer' = answer \/ answer' = [answer EXCEPT ![m] = "unknown"]
      BY <2>3, <3>1 DEF ReadWriteDispatch, Answer
    <3>3. m \in Messages => m \notin pushed
      BY <3>1 DEF WireInv, Unseen
    <3>4. \A x \in pushed : answer'[x] = answer[x]
      BY <3>2, <3>3 DEF UntoldInv, Ours, RouteType
    <3> QED BY <1>1, <3>2, <3>4 DEF UntoldInv
  <2>4. CASE Handle
    <3>1. /\ answer' = answer /\ lpc = "handle" /\ cur' = cur
          /\ \/ pushed' = pushed
             \/ /\ pushed' = pushed \cup {cur}
                /\ lpc' = IF Kind[cur] = "call" THEN "answer" ELSE "unref"
      BY <2>4 DEF Handle
    <3> QED BY <1>1, <3>1 DEF UntoldInv
  <2>5. CASE Reply
    <3>1. pushed' = pushed /\ lpc = "answer"
      BY <2>5 DEF Reply
    <3>2. faults' = faults + 1 \/ answer' = [answer EXCEPT ![cur] = verdict]
      BY <2>5 DEF Reply, Answer, Fault
    <3>3. faults' > 0 \/ answer' = [answer EXCEPT ![cur] = verdict]
      BY <3>2 DEF UntoldInv
    <3>4. cur \in Ours /\ (verdict = "ok" <=> cur \in pushed)
      BY <2>5 DEF Reply, HandleInv
    <3>5. ASSUME NEW x \in pushed, answer'[x] # "ok"
          PROVE  faults' > 0 \/ (x # cur /\ answer'[x] = answer[x])
      BY <3>4, <3>3, <3>5 DEF UntoldInv, RouteType
    <3> QED BY <1>1, <3>1, <3>5 DEF UntoldInv
  <2> QED BY <2>1, <2>2, <2>3, <2>4, <2>5 DEF Moves
<1>5. crashed' => stale' # {} \/ faults' > 0
  <2>1. CASE Reply
    <3>1. faults' = faults + 1 \/ (crashed' = crashed /\ faults' = faults)
      BY <2>1, Zenon DEF Reply, Fault
    <3>2. stale' = stale
      BY <2>1 DEF Reply
    <3>3. faults' > 0 \/ (crashed' = crashed /\ faults' = faults)
      BY <3>1 DEF UntoldInv
    <3> QED BY <3>2, <3>3, Zenon DEF UntoldInv
  <2>2. ASSUME NEW w \in Workers, Prepare(w)
        PROVE  crashed' => stale' # {} \/ faults' > 0
    <3>1. CASE EncodeFrame(w)
      BY <3>1, <2>2, <1>1 DEF Prepare, EncodeFrame, UntoldInv, danger
    <3>2. CASE UNCHANGED danger
      BY <3>2, <1>1 DEF UntoldInv, danger
    <3> QED BY <2>2, <3>1, <3>2 DEF Prepare
  <2>3. CASE ~Reply /\ \A w \in Workers : ~Prepare(w)
    <3>1. crashed' = crashed
      BY <2>3 DEF Next, vars, danger, Arrive, PushReport, ClearRun, SetEvent,
           CloseEvent, Listener, Setup, RuleAdded, RuleReplied, SaveConnection,
           TestRun, EpollWait, NextEvent, ReadWriteDispatch, Pop, Handle, Unref,
           Worker, Take, SendFrame, FlushRound, Flushed
    <3> QED BY <1>1, <3>1, FaultsStep DEF UntoldInv
  <2> QED BY <2>1, <2>2, <2>3
<1> QED BY <1>1, <1>4, <1>5, <1>3 DEF UntoldInv

\* Nothing is on its way before the listener has a connection.
LEMMA RouteInit == Init => RouteInv /\ OnlyStraysSwallowed
<1> SUFFICES ASSUME Init PROVE RouteInv /\ OnlyStraysSwallowed
  OBVIOUS
<1>1. Wire = <<>> /\ ~Handling
  BY DEF Init, Wire, Handling
<1>2. RouteType /\ SetupInv /\ StrayInv /\ HandleInv
  BY <1>1 DEF Init, RouteType, SetupInv, StrayInv, HandleInv, Range
<1>3. WireInv
  BY <1>1 DEF Init, WireInv, WireOnce, OnWire, Unseen
<1>4. ToldOnlyTheTruth /\ UntoldInv /\ OnlyStraysSwallowed
  BY DEF Init, ToldOnlyTheTruth, UntoldInv, OnlyStraysSwallowed
<1> QED BY <1>2, <1>3, <1>4 DEF RouteInv

LEMMA RouteInvariance ==
  Spec => [](RouteInv /\ OnlyStraysSwallowed)
<1> DEFINE Inv == QueueInv /\ WorkInv /\ RouteInv /\ OnlyStraysSwallowed
<1>1. Init => Inv
  BY RouteInit DEF Init, QueueInv, WorkInv
<1>2. Inv /\ [Next]_vars => Inv'
  BY QueueStep, WorkInvStep, RouteTypeStep, SetupInvStep, StrayInvStep,
     WireInvStep, HandleInvStep, AnswerStep, UntoldStep DEF RouteInv
<1> QED BY <1>1, <1>2, PTL DEF Spec

\* libdbus dispatches on its own only what another call than the listener's
\* has read from the socket: a flush of a worker, or the calls that set the
\* connection up.
THEOREM SwallowedWereStray == Spec => []OnlyStraysSwallowed
BY RouteInvariance, PTL

\* A caller is told "ok" exactly if its command was pushed, and UnknownMethod
\* exactly if libdbus has dispatched its call, however reads, dispatches and
\* handlers interleave; and a caller who is told nothing of a pushed command,
\* or a process that goes down (handle_method_call writes to a reply that was
\* not created), has met a failure, unless a worker forwarded the command of a
\* message that is gone.
THEOREM CallersAreToldTheTruth == Spec => []AnswerTellsTruth
<1>1. RouteInv => AnswerTellsTruth
  BY DEF RouteInv, UntoldInv, AnswerTellsTruth, ToldUnlessFailed
<1> QED BY <1>1, RouteInvariance, PTL
=============================================================================
