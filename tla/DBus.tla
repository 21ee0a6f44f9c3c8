--------------------------------- MODULE DBus ---------------------------------
(***************************************************************************)
(* The DBus side of the service, src/src/comm/dbus_comm.c: the listener    *)
(* thread, and the workers that send commands through the same libdbus     *)
(* connection.                                                             *)
(*                                                                         *)
(* libdbus and the bus are external.  What matters of them here: one       *)
(* incoming queue belongs to the connection, and every call that does I/O  *)
(* in any thread (AddMatch, a flush, read_write_dispatch) fills it from    *)
(* the socket; epoll sees the socket only, not that queue; and             *)
(* read_write_dispatch first looks into the queue: it reads the socket     *)
(* only when the queue is empty, and otherwise dispatches the head itself, *)
(* which answers a method call with UnknownMethod, as no handler is        *)
(* registered.  A connection that the bus closes ends the process inside   *)
(* libdbus and is left out.                                                *)
(***************************************************************************)
EXTENDS Frame, FiniteSets, SequencesExt

CONSTANTS
  Workers,      \* the worker threads of the queue
  Messages,     \* what the other programs may send, each once
  Kind,         \* [Messages -> Kinds]
  Cmd,          \* [Ours -> commands]: what the senders have encoded
  NameAcquired, \* the signal the bus greets a connection with
  SentCmd,      \* the opcode OP_DBUS_SENT_CMD
  Report,       \* the command the service sends
  MaxReports,   \* bound on the commands the service sends
  MaxFaults     \* bound on the calls and allocations that fail

\* A call of SER_METH, the signal LISTEN_SIG, a reply to a command of the
\* service, or a message the service does not care for.
Kinds == {"call", "signal", "reply", "foreign"}

Ours == {m \in Messages : Kind[m] \in {"call", "signal"}}

ASSUME DBusAssumption ==
  /\ IsFiniteSet(Workers) /\ IsFiniteSet(Messages)
  /\ Kind \in [Messages -> Kinds]
  /\ NameAcquired \notin Messages
  /\ DOMAIN Cmd = Ours /\ \A m \in Ours : IsCommand(Cmd[m])
  /\ IsCommand(Report) /\ Encodable(Report) /\ Report.opcode = SentCmd
  /\ MaxReports \in Nat /\ MaxFaults \in Nat

Listened == Messages \cup {NameAcquired}

VARIABLES
  run,       \* ctx->run
  event,     \* the event file: not written, "set", "read" again, or "closed"
  conn,      \* ctx->comm.dbus_conn is set
  named,     \* the bus routes calls to SER_NAME
  matched,   \* the bus routes the signal
  socket,    \* what the bus has sent and nobody has read
  incoming,  \* the incoming queue of the connection
  outgoing,  \* its outgoing queue: answers and commands
  lpc,       \* where the listener is
  ready,     \* the events of the last epoll_wait it has yet to look at
  cur,       \* the message it handles
  verdict,   \* what dispatch_cmd_from_message has returned
  queue,     \* the works pushed and not taken, in order
  pc,        \* where each worker is
  work,      \* the work it executes
  live,      \* own messages created and not unreferenced
  reports,   \* own commands created so far
  faults     \* failures so far

\* What the properties speak of; the code does not read these.
VARIABLES
  sent,      \* messages that have been sent
  refs,      \* messages popped and not unreferenced
  stray,     \* messages read by another call than the listener's
  swallowed, \* messages that libdbus has dispatched
  pushed,    \* messages whose command was pushed
  answer,    \* what the sender of each call is told
  delivered, \* commands the bus has got
  unsent,    \* own messages dropped because there was no connection
  stale,     \* strings of a command were read after its message was freed
  crashed    \* the process has gone down

context == <<run, event, conn>>
bus     == <<named, matched, sent>>
queues  == <<socket, incoming>>
output  == <<outgoing, answer, delivered>>
thread  == <<lpc, ready, cur, verdict, refs>>
sender  == <<pc, work, live, unsent>>
history == <<stray, swallowed, pushed>>
danger  == <<stale, crashed>>

vars == <<context, bus, queues, output, thread, sender, history, danger,
          queue, reports, faults>>

None == "none"

Goto(label) == lpc' = label
Step(w, label) == pc' = [pc EXCEPT ![w] = label]
Fault == faults < MaxFaults /\ faults' = faults + 1

Init ==
  /\ run = TRUE /\ event = None /\ conn = FALSE
  /\ named = FALSE /\ matched = FALSE /\ sent = {}
  /\ socket = <<>> /\ incoming = <<>>
  /\ outgoing = <<>> /\ answer = [m \in Ours |-> None] /\ delivered = 0
  /\ lpc = "setup" /\ ready = {} /\ cur = None /\ verdict = "ok" /\ refs = {}
  /\ pc = [w \in Workers |-> "idle"] /\ work = [w \in Workers |-> None]
  /\ live = 0 /\ unsent = 0
  /\ stray = {} /\ swallowed = {} /\ pushed = {}
  /\ stale = {} /\ crashed = FALSE
  /\ queue = <<>> /\ reports = 0 /\ faults = 0

-----------------------------------------------------------------------------
(***************************************************************************)
(* libdbus                                                                 *)
(***************************************************************************)

\* A call writes what the socket has room for: the first n of what is to go.
Write(out, n) ==
  /\ outgoing' = SubSeq(out, n + 1, Len(out))
  /\ delivered' = delivered
       + Cardinality({i \in 1 .. n : out[i] = "command"})

\* dbus_connection_send queues and writes what it can.
Send(item) ==
  LET out == Append(outgoing, item) IN \E n \in 0 .. Len(out) : Write(out, n)

\* An answer to the call m.
Answer(m, a) ==
  /\ Send("answer")
  /\ answer' = [answer EXCEPT ![m] = a]

\* All that is in the socket goes to the incoming queue.
ReadSocket ==
  /\ incoming' = incoming \o socket
  /\ socket' = <<>>

\* The same, in a call that is not the listener's read_write_dispatch.
ReadStray ==
  /\ ReadSocket
  /\ stray' = stray \cup Range(socket)

\* Another thread is inside of the connection's I/O.
IoBusy == \E w \in Workers : pc[w] = "flush"

-----------------------------------------------------------------------------
(***************************************************************************)
(* The other programs and the rest of the service                          *)
(***************************************************************************)

\* A message reaches the socket if the bus routes it to the service; there
\* is at most one reply to each command delivered.
Arrive(m) ==
  /\ m \notin sent
  /\ CASE Kind[m] = "call"    -> named
       [] Kind[m] = "signal"  -> matched
       [] Kind[m] = "foreign" -> named
       [] Kind[m] = "reply"   ->
            Cardinality({r \in sent : Kind[r] = "reply"}) < delivered
  /\ sent' = sent \cup {m}
  /\ socket' = Append(socket, m)
  /\ UNCHANGED <<context, named, matched, incoming, output, thread, sender,
                 history, danger, queue, reports, faults>>

\* create_remote_task: a thread of the service has something to report.
PushReport ==
  /\ reports < MaxReports
  /\ reports' = reports + 1
  /\ queue' = Append(queue, [from |-> None, cmd |-> Report])
  /\ UNCHANGED <<context, bus, queues, output, thread, sender, history,
                 danger, faults>>

\* service_shutdown_flow clears run ...
ClearRun ==
  /\ run
  /\ run' = FALSE
  /\ UNCHANGED <<event, conn, bus, queues, output, thread, sender, history,
                 danger, queue, reports, faults>>

\* ... then writes the event file ...
SetEvent ==
  /\ ~run /\ event = None
  /\ event' = "set"
  /\ UNCHANGED <<run, conn, bus, queues, output, thread, sender, history,
                 danger, queue, reports, faults>>

\* ... and closes it when it has joined the workers, read or not: a closed
\* descriptor leaves the epoll set (cleanup_event_file).
CloseEvent ==
  /\ event \in {"set", "read"}
  /\ \A w \in Workers : pc[w] = "idle"
  /\ event' = "closed"
  /\ UNCHANGED <<run, conn, bus, queues, output, thread, sender, history,
                 danger, queue, reports, faults>>

-----------------------------------------------------------------------------
(***************************************************************************)
(* The listener: dbus_fn_thread_handler                                    *)
(***************************************************************************)

\* setup_dbus_connection.  The two greetings of the bus, for the unique name
\* and for SER_NAME, are read while the calls wait for their replies.
Setup ==
  /\ lpc = "setup"
  /\ \/ /\ named' = TRUE
        /\ incoming' = <<NameAcquired, NameAcquired>>
        /\ stray' = {NameAcquired}
        /\ Goto("match") /\ UNCHANGED faults
     \/ Fault /\ Goto("gone") /\ UNCHANGED <<named, incoming, stray>>
  /\ UNCHANGED <<context, matched, sent, socket, output, ready, cur, verdict,
                 refs, sender, swallowed, pushed, danger, queue, reports>>

\* dbus_bus_add_match: the bus adds the rule and sends its reply.
RuleAdded ==
  /\ lpc = "match"
  /\ \/ matched' = TRUE /\ Goto("matching") /\ UNCHANGED faults
     \/ Fault /\ Goto("gone") /\ UNCHANGED matched
  /\ UNCHANGED <<context, named, sent, queues, output, ready, cur, verdict,
                 refs, sender, history, danger, queue, reports>>

\* The call returns; what came with the reply waits in the queue.  The flush
\* that follows finds nothing to write.
RuleReplied ==
  /\ lpc = "matching"
  /\ ReadStray
  /\ Goto("save")
  /\ UNCHANGED <<context, bus, output, ready, cur, verdict, refs, sender,
                 swallowed, pushed, danger, queue, reports, faults>>

\* set_dbus_connection, then the descriptors are added to epoll, which takes
\* no closed one.
SaveConnection ==
  /\ lpc = "save"
  /\ conn' = TRUE
  /\ \/ /\ Goto(IF event = "closed" THEN "gone" ELSE "loop")
        /\ UNCHANGED faults
     \/ Fault /\ Goto("gone")
  /\ UNCHANGED <<run, event, bus, queues, output, ready, cur, verdict, refs,
                 sender, history, danger, queue, reports>>

\* The test of run at the head of the loop.  The pointer in the context
\* outlives the listener, and the shared connection its reference.
TestRun ==
  /\ lpc = "loop"
  /\ Goto(IF run THEN "wait" ELSE "gone")
  /\ UNCHANGED <<context, bus, queues, output, ready, cur, verdict, refs,
                 sender, history, danger, queue, reports, faults>>

\* Mutant: the event file is not added to epoll.
BusOnly == IF socket # <<>> THEN {"bus"} ELSE {}

\* Mutant: the descriptor of the bus is not added to epoll.
EventOnly == IF event = "set" THEN {"event"} ELSE {}

\* What epoll reports, level-triggered.
ReadyFds ==
  (IF socket # <<>> THEN {"bus"} ELSE {}) \cup (IF event = "set" THEN {"event"} ELSE {})

\* epoll_wait returns what is ready; a signal interrupts it, or it fails.
EpollWait ==
  /\ lpc = "wait"
  /\ \/ /\ ReadyFds # {}
        /\ ready' = ReadyFds
        /\ Goto("events")
        /\ UNCHANGED faults
     \/ Fault /\ Goto("loop") /\ UNCHANGED ready
     \/ Fault /\ Goto("gone") /\ UNCHANGED ready
  /\ UNCHANGED <<context, bus, queues, output, cur, verdict, refs, sender,
                 history, danger, queue, reports>>

\* The next of the events, in any order; a closed event file is not read.
NextEvent ==
  /\ lpc = "events"
  /\ \/ ready = {} /\ Goto("loop") /\ UNCHANGED <<ready, event>>
     \/ /\ "bus" \in ready
        /\ ready' = ready \ {"bus"}
        /\ Goto("dispatch")
        /\ UNCHANGED event
     \/ /\ "event" \in ready
        /\ ready' = ready \ {"event"}
        /\ event' = IF event = "closed" THEN "closed" ELSE "read"
        /\ UNCHANGED lpc
  /\ UNCHANGED <<run, conn, bus, queues, output, cur, verdict, refs, sender,
                 history, danger, queue, reports, faults>>

\* dbus_connection_read_write_dispatch(conn, 0).
ReadWriteDispatch ==
  /\ lpc = "dispatch"
  /\ Goto("pop")
  /\ IF incoming # <<>>
     THEN LET m == Head(incoming) IN
          /\ incoming' = Tail(incoming)
          /\ swallowed' = swallowed \cup {m}
          /\ IF m \in Ours /\ Kind[m] = "call"
             THEN Answer(m, "unknown") ELSE UNCHANGED output
          /\ UNCHANGED socket
     ELSE /\ \/ /\ ReadSocket
                /\ \E n \in 0 .. Len(outgoing) : Write(outgoing, n)
                /\ UNCHANGED answer
             \/ IoBusy /\ UNCHANGED <<queues, output>>
          /\ UNCHANGED swallowed
  /\ UNCHANGED <<context, bus, ready, cur, verdict, refs, sender, stray,
                 pushed, danger, queue, reports, faults>>

\* Mutant: the message is unreferenced as soon as it is popped.
PopUnref ==
  /\ lpc = "pop"
  /\ IF incoming = <<>>
     THEN Goto("events") /\ UNCHANGED <<incoming, cur>>
     ELSE /\ cur' = Head(incoming)
          /\ incoming' = Tail(incoming)
          /\ Goto("handle")
  /\ UNCHANGED <<context, bus, socket, output, ready, verdict, refs, sender,
                 history, danger, queue, reports, faults>>

\* Mutant: the loop also ends when run is cleared.
PopWhileRunning ==
  /\ lpc = "pop"
  /\ IF incoming = <<>> \/ ~run
     THEN Goto("events") /\ UNCHANGED <<incoming, cur, refs>>
     ELSE /\ cur' = Head(incoming)
          /\ incoming' = Tail(incoming)
          /\ refs' = refs \cup {Head(incoming)}
          /\ Goto("handle")
  /\ UNCHANGED <<context, bus, socket, output, ready, verdict, sender,
                 history, danger, queue, reports, faults>>

\* dbus_connection_pop_message, until there is none.
Pop ==
  /\ lpc = "pop"
  /\ IF incoming = <<>>
     THEN Goto("events") /\ UNCHANGED <<incoming, cur, refs>>
     ELSE /\ cur' = Head(incoming)
          /\ incoming' = Tail(incoming)
          /\ refs' = refs \cup {Head(incoming)}
          /\ Goto("handle")
  /\ UNCHANGED <<context, bus, socket, output, ready, verdict, sender,
                 history, danger, queue, reports, faults>>

\* handle_message with dispatch_cmd_from_message: the command or its work
\* cannot be allocated, or it is decoded and pushed.
Handle ==
  /\ lpc = "handle"
  /\ \/ /\ cur \notin Ours
        /\ Goto("unref")
        /\ UNCHANGED <<verdict, queue, pushed, stale, faults>>
     \/ /\ cur \in Ours
        /\ stale' = IF cur \in refs THEN stale ELSE stale \cup {cur}
        /\ Goto(IF Kind[cur] = "call" THEN "answer" ELSE "unref")
        /\ \/ /\ Fault
              /\ verdict' = "error"
              /\ UNCHANGED <<queue, pushed>>
           \/ /\ verdict' = "ok"
              /\ queue' = Append(queue,
                   [from |-> cur, cmd |-> Decode(Encode(Cmd[cur]))])
              /\ pushed' = pushed \cup {cur}
              /\ UNCHANGED faults
  /\ UNCHANGED <<context, bus, queues, output, ready, cur, refs, sender, stray,
                 swallowed, crashed, reports>>

\* Mutant: the result of the dispatch is not looked at.
ReplyAlwaysOk ==
  /\ lpc = "answer"
  /\ Answer(cur, "ok")
  /\ Goto("unref")
  /\ UNCHANGED <<context, bus, queues, ready, cur, verdict, refs, sender,
                 history, danger, queue, reports, faults>>

\* The reply of handle_method_call.  An error that cannot be created is not
\* sent; a method return that cannot be created is written to all the same,
\* before the test of the pointer: libdbus aborts the process, and if it is
\* built or told not to, the write goes anywhere or nowhere.
Reply ==
  /\ lpc = "answer"
  /\ \/ Answer(cur, verdict) /\ UNCHANGED <<crashed, faults>>
     \/ /\ Fault
        /\ crashed' \in (IF verdict = "ok" THEN BOOLEAN ELSE {FALSE})
        /\ UNCHANGED output
  /\ Goto("unref")
  /\ UNCHANGED <<context, bus, queues, ready, cur, verdict, refs, sender,
                 history, stale, queue, reports>>

\* Mutant: one message is popped for each event.
UnrefNoLoop ==
  /\ lpc = "unref"
  /\ refs' = refs \ {cur}
  /\ cur' = None /\ verdict' = "ok"
  /\ Goto("events")
  /\ UNCHANGED <<context, bus, queues, output, ready, sender, history,
                 danger, queue, reports, faults>>

Unref ==
  /\ lpc = "unref"
  /\ refs' = refs \ {cur}
  /\ cur' = None /\ verdict' = "ok"
  /\ Goto("pop")
  /\ UNCHANGED <<context, bus, queues, output, ready, sender, history,
                 danger, queue, reports, faults>>

Listener ==
  \/ Setup \/ RuleAdded \/ RuleReplied \/ SaveConnection \/ TestRun
  \/ EpollWait \/ NextEvent \/ ReadWriteDispatch \/ Pop \/ Handle \/ Reply
  \/ Unref

-----------------------------------------------------------------------------
(***************************************************************************)
(* The workers                                                             *)
(***************************************************************************)

\* A worker that is not joined takes a work.  OP_DBUS_SENT_CMD makes it send the command; other
\* opcodes belong to the other modules and read integers only.
Take(w) ==
  /\ pc[w] = "idle" /\ queue # <<>> /\ event # "closed"
  /\ queue' = Tail(queue)
  /\ IF Head(queue).cmd.opcode = SentCmd
     THEN /\ work' = [work EXCEPT ![w] = Head(queue)]
          /\ Step(w, "prepare")
     ELSE UNCHANGED <<work, pc>>
  /\ UNCHANGED <<context, bus, queues, output, thread, live, unsent, history,
                 danger, reports, faults>>

Done(w) == Step(w, "idle") /\ work' = [work EXCEPT ![w] = None]

\* The strings of a command that came from the bus are those of its message.
Dangling(w) == work[w].from # None /\ work[w].from \notin refs

\* Mutant: the message is kept when its frame cannot be encoded.
EncodeFrameLeak(w) ==
  /\ IF Encodable(work[w].cmd) THEN Step(w, "send") /\ UNCHANGED work
     ELSE Done(w)
  /\ live' = live + 1
  /\ stale' = IF Dangling(w) THEN stale \cup {work[w].from} ELSE stale
  /\ crashed' \in (IF Dangling(w) THEN BOOLEAN ELSE {FALSE})

\* encode_data_frame; reading strings that are gone may end the process.
EncodeFrame(w) ==
  /\ IF Encodable(work[w].cmd)
     THEN Step(w, "send") /\ live' = live + 1 /\ UNCHANGED work
     ELSE Done(w) /\ UNCHANGED live
  /\ stale' = IF Dangling(w) THEN stale \cup {work[w].from} ELSE stale
  /\ crashed' \in (IF Dangling(w) THEN BOOLEAN ELSE {FALSE})

\* dbus_method_call creates the message, and dbus_send_message_async looks for
\* the connection and encodes the frame; without a connection the message is
\* never unreferenced.
Prepare(w) ==
  /\ pc[w] = "prepare"
  /\ \/ Fault /\ Done(w) /\ UNCHANGED <<live, unsent, danger>>
     \/ /\ ~conn
        /\ Done(w) /\ live' = live + 1 /\ unsent' = unsent + 1
        /\ UNCHANGED <<danger, faults>>
     \/ /\ conn
        /\ EncodeFrame(w)
        /\ UNCHANGED <<unsent, faults>>
  /\ UNCHANGED <<context, bus, queues, output, thread, history, queue, reports>>

\* dbus_connection_send.
SendFrame(w) ==
  /\ pc[w] = "send"
  /\ \/ /\ Send("command")
        /\ Step(w, "flush")
        /\ UNCHANGED <<answer, work, live, faults>>
     \/ Fault /\ Done(w) /\ live' = live - 1 /\ UNCHANGED output
  /\ UNCHANGED <<context, bus, queues, thread, unsent, history, danger, queue,
                 reports>>

\* One round of dbus_connection_flush, which reads as well as it writes.
FlushRound(w) ==
  /\ pc[w] = "flush" /\ outgoing # <<>>
  /\ \E n \in 0 .. Len(outgoing) : Write(outgoing, n)
  /\ ReadStray
  /\ UNCHANGED <<answer, context, bus, thread, sender, swallowed, pushed, danger,
                 queue, reports, faults>>

Flushed(w) ==
  /\ pc[w] = "flush" /\ outgoing = <<>>
  /\ Done(w)
  /\ live' = live - 1
  /\ UNCHANGED <<context, bus, queues, output, thread, unsent, history, danger,
                 queue, reports, faults>>

Worker(w) ==
  \/ Take(w) \/ Prepare(w) \/ SendFrame(w) \/ FlushRound(w) \/ Flushed(w)

-----------------------------------------------------------------------------

Next ==
  /\ ~crashed
  /\ \/ \E m \in Messages : Arrive(m)
     \/ PushReport \/ ClearRun \/ SetEvent \/ CloseEvent
     \/ Listener
     \/ \E w \in Workers : Worker(w)

Spec == Init /\ [][Next]_vars

\* What gets a worker through a send: a round of its flush that only reads is
\* none of it.
Progress(w) ==
  \/ Prepare(w) \/ SendFrame(w) \/ Flushed(w)
  \/ FlushRound(w) /\ outgoing' # outgoing

(***************************************************************************)
(* The threads run, the bus answers the listener and keeps reading what is *)
(* written, and the shutdown flow writes the event file once it has        *)
(* cleared run.  It joins the workers before it closes the file, which     *)
(* nothing bounds: CloseEvent comes at any time or never.                  *)
(***************************************************************************)
FairSpec ==
  /\ Spec
  /\ WF_vars(~crashed /\ Listener)
  /\ WF_vars(~crashed /\ SetEvent)
  /\ \A w \in Workers : WF_vars(~crashed /\ Progress(w))

-----------------------------------------------------------------------------

(* The types of the variables.                                             *)
TypeOK ==
  /\ run \in BOOLEAN /\ event \in {None, "set", "read", "closed"}
  /\ conn \in BOOLEAN
  /\ named \in BOOLEAN /\ matched \in BOOLEAN
  /\ socket \in Seq(Messages) /\ incoming \in Seq(Listened)
  /\ lpc \in {"setup", "match", "matching", "save", "loop", "wait", "events",
              "dispatch", "pop", "handle", "answer", "unref", "gone"}
  /\ ready \subseteq {"bus", "event"}
  /\ cur \in Listened \cup {None}
  /\ verdict \in {"ok", "error"}
  /\ answer \in [Ours -> {None, "ok", "error", "unknown"}]
  /\ outgoing \in Seq({"answer", "command"})
  /\ \A i \in DOMAIN queue : queue[i].from \in Ours \cup {None}
  /\ pc \in [Workers -> {"idle", "prepare", "send", "flush"}]
  /\ delivered \in Nat /\ live \in Nat /\ unsent \in Nat
  /\ reports \in 0 .. MaxReports /\ faults \in 0 .. MaxFaults

(***************************************************************************)
(* The listener pops all that it has read before it reads again: the only  *)
(* messages libdbus dispatches, and so answers or drops on its own, are    *)
(* those that another call has read from the socket.                       *)
(***************************************************************************)
OnlyStraysSwallowed == swallowed \subseteq stray

\* What a caller is told is what became of its command; nobody but a caller is
\* answered.
ToldOnlyTheTruth ==
  \A m \in Ours : answer[m] # None =>
    /\ Kind[m] = "call"
    /\ answer[m] = "ok" <=> m \in pushed
    /\ answer[m] = "unknown" <=> m \in swallowed

\* A caller whose command was pushed is told so, and the process goes down
\* neither under the reply nor later, unless something failed.
ToldUnlessFailed ==
  /\ \A m \in pushed \ {cur} :
       Kind[m] = "call" => answer[m] = "ok" \/ faults > 0
  /\ crashed => stale # {} \/ faults > 0

(***************************************************************************)
(* A caller is told "ok" of a command that was pushed, an error of one     *)
(* that was not, and UnknownMethod of one that libdbus has dispatched.     *)
(* Only a failure, of the dispatch or of the reply itself, leaves the      *)
(* caller of a pushed command without an answer.                           *)
(***************************************************************************)
AnswerTellsTruth == ToldOnlyTheTruth /\ ToldUnlessFailed

(***************************************************************************)
(* A work holds the command its sender has encoded, cut at MAX_ENTRIES, if *)
(* the codec knows its types: the bytes that are written beside prio and   *)
(* duration do no harm.                                                    *)
(***************************************************************************)
DecodedAsSent ==
  \A i \in DOMAIN queue :
    LET m == queue[i].from IN
    (m # None /\ Encodable(Cmd[m])) => queue[i].cmd = Fitting(Cmd[m])

(***************************************************************************)
(* A message is unreferenced when nobody needs it any more, not later and  *)
(* not earlier.  None is leaked, on the failure paths of a send or in the  *)
(* listener, but those that find no connection to be sent on.  The strings *)
(* of a decoded command, which point into its message, are read while the  *)
(* listener holds it, except when another program sends OP_DBUS_SENT_CMD   *)
(* itself and a worker forwards the command later.                         *)
(***************************************************************************)
MessageLifetime ==
  /\ live = unsent + Cardinality({w \in Workers : pc[w] \in {"send", "flush"}})
  /\ refs \subseteq {cur}
  /\ \A m \in stale : Cmd[m].opcode = SentCmd

(***************************************************************************)
(* Nothing stays in the socket while the listener is there, though a       *)
(* worker inside of the connection's I/O can keep it from reading; and     *)
(* what the listener has read it handles, without another message having   *)
(* to arrive, and also after run was cleared.                              *)
(***************************************************************************)
MessagesServed ==
  /\ (socket # <<>>) ~> (socket = <<>> \/ lpc = "gone" \/ crashed)
  /\ \A m \in Ours :
       (m \in Range(incoming) \ stray) ~> (cur = m \/ crashed)

(***************************************************************************)
(* Once run is cleared the listener ends, whether it waits in epoll, reads *)
(* or handles a message at that moment, unless the event file was closed   *)
(* before epoll had told the listener of it: then it sleeps until the bus  *)
(* sends something, and ends for that.                                     *)
(***************************************************************************)
Asleep == lpc = "wait" /\ event = "closed" /\ socket = <<>>

ListenerEnds == ~run ~> [](lpc = "gone" \/ crashed \/ Asleep)

(***************************************************************************)
(* Claim of src/src/comm/dbus_comm.c:509, "It keeps the listener running   *)
(* for the entire lifetime of this service to handle DBus communication,   *)
(* including method calls from other services and signal events": every    *)
(* call and signal is handled by the service, none by libdbus.             *)
(***************************************************************************)
NothingSwallowed == swallowed \cap Ours = {}
=============================================================================
