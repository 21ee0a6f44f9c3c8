------------------------------ MODULE Lifecycle ------------------------------
(***************************************************************************)
(* The life of the service: src/src/main.c with the threads it starts.     *)
(*                                                                         *)
(* The main thread creates the context, the event file, the work queue and *)
(* its workers, the DBus listener, the hardware monitor, the GLib loop and *)
(* the NetworkManager client; a failure jumps into a ladder of cleanups.   *)
(* It then runs the GLib loop until a SIGINT, whose handler runs the whole *)
(* service_shutdown_flow on top of the code it interrupted.  No thread     *)
(* blocks SIGINT: it may be handled by the listener, the monitor or a      *)
(* worker as well, and signal() masks it only in the thread that handles   *)
(* it, so that several threads may run the flow at once.  The listener     *)
(* waits in epoll on the bus and on the event file; the monitor polls the  *)
(* run flag.  Neither is ever joined.                                      *)
(*                                                                         *)
(* The work queue appears by what this flow needs of it: the mutex, the    *)
(* number of outstanding works and the sleep of its workers.  WorkQueue    *)
(* models it in full.                                                      *)
(***************************************************************************)
EXTENDS Naturals, FiniteSets

CONSTANTS
  Workers,      \* the worker threads the queue is to get
  MayFail,      \* the startup steps that may fail
  SigintAt,     \* the labels of main at which SIGINT may be delivered to it
  Interrupted,  \* the other threads that SIGINT may be delivered to
  MaxPushes,    \* bound on the works pushed by callbacks and threads
  MaxHandlers   \* bound on the threads that get a SIGINT

Threads == {"main", "listener", "monitor"} \cup Workers

ASSUME LifecycleAssumption ==
  /\ IsFiniteSet(Workers) /\ {"main", "listener", "monitor"} \cap Workers = {}
  /\ MaxPushes \in Nat /\ MaxHandlers \in Nat
  \* left out: a SIGINT between two pthread_create of the workers, and one
  \* that main gets in its ladder of cleanups
  /\ SigintAt \subseteq {"event", "wq", "dbus", "hw", "gloop", "nm", "audio",
                         "start", "loop", "callback", "spin"}
  /\ Interrupted \subseteq Threads \ {"main"}

VARIABLES
  proc,      \* the process: "up", "exited" or "crashed"
  pc,        \* where main is, or where its signal handler returns to
  flow,      \* where each thread is in service_shutdown_flow, or "none"; in
             \* the ladder of cleanups main too runs workqueue_deinit
  handlers,  \* the threads that have been in the signal handler
  failed,    \* service_startup_flow has failed
  ctx,       \* the runtime context: "none", "alive" or "freed"
  run,       \* ctx->run
  event,     \* ctx->comm.event: is the event file open?
  codes,     \* event codes written to the event file and not read
  wqs,       \* ctx->wqs: "null", "up" or "dangling"
  locked,    \* main holds the queue's mutex
  pending,   \* wq->active_cnt
  worker,    \* the worker threads
  woken,     \* a broadcast has reached the workers that sleep
  gloop,     \* ctx->g_main.loop exists
  listener,  \* the DBus listener thread
  got,       \* event codes the listener has read
  monitor,   \* the hardware monitor thread
  pushes     \* works pushed so far by the listener and the monitor

vars == <<proc, pc, flow, handlers, failed, ctx, run, event, codes, wqs, locked,
          pending, worker, woken, gloop, listener, got, monitor, pushes>>

sigVars     == <<flow, handlers>>
startupVars == <<failed, ctx, gloop>>
eventVars   == <<event, codes, got>>
queueVars   == <<wqs, locked, pending, worker, woken>>
threadVars  == <<listener, monitor, pushes>>

StartupLabels == {"event", "wq", "workers", "dbus", "hw", "gloop", "nm", "audio"}
CleanupLabels == {"rollback", "exit_g_main_loop", "exit_dbus", "exit_workqueue",
                  "exit_event", "exit_err"}
ShutdownLabels == {"push", "drain", "stop_loop", "stop_run", "notify", "cleanup"}
DeinitLabels == {"wakeup", "join", "destroy"}
FlowLabels == {"none"} \cup ShutdownLabels \cup DeinitLabels
MainLabels == {"create", "start", "loop", "callback", "spin", "leave", "exit"}
              \cup StartupLabels \cup CleanupLabels

Codes == {"INT", "ABRT", "USR1"}

Created == {w \in Workers : worker[w] # "none"}

Init ==
  /\ proc = "up" /\ pc = "create" /\ failed = FALSE
  /\ flow = [t \in Threads |-> "none"] /\ handlers = {}
  /\ ctx = "none" /\ run = FALSE
  /\ event = FALSE /\ codes = {} /\ got = {}
  /\ wqs = "null" /\ locked = FALSE /\ pending = 0 /\ woken = FALSE
  /\ worker = [w \in Workers |-> "none"]
  /\ gloop = FALSE
  /\ listener = "none" /\ monitor = "none" /\ pushes = 0

-----------------------------------------------------------------------------
(***************************************************************************)
(* main and service_startup_flow                                           *)
(***************************************************************************)

\* A thread takes its own steps when it is not in the signal handler.
Free(t) == proc = "up" /\ flow[t] = "none"

At(label) == Free("main") /\ pc = label

\* The step at this label fails and the flow continues at its cleanup label.
FailsTo(label) == pc \in MayFail /\ failed' = TRUE /\ pc' = label

\* create_ctx, then run = 1 and event = -1 of service_startup_flow.
CreateCtx ==
  /\ At("create")
  /\ ctx' = "alive" /\ run' = TRUE /\ pc' = "event"
  /\ UNCHANGED <<proc, sigVars, failed, gloop, eventVars, queueVars, threadVars>>

\* init_event_file
InitEvent ==
  /\ At("event")
  /\ \/ event' = TRUE /\ pc' = "wq" /\ UNCHANGED failed
     \/ FailsTo("exit_err") /\ UNCHANGED event
  /\ UNCHANGED <<proc, sigVars, ctx, run, gloop, codes, got, queueVars, threadVars>>

\* workqueue_init up to the creation of the queue.  rollback_workqueues(0)
\* frees the contexts and clears only its local pointer.
InitQueue ==
  /\ At("wq")
  /\ \/ wqs' = "up" /\ pc' = "workers" /\ UNCHANGED failed
     \/ FailsTo("exit_event") /\ wqs' \in {"null", "dangling"}
  /\ UNCHANGED <<proc, sigVars, ctx, run, gloop, locked, pending, worker, woken,
                 eventVars, threadVars>>

\* create_workers: one pthread_create at a time.
CreateWorker ==
  /\ At("workers")
  /\ \/ \E w \in Workers \ Created :
          /\ worker' = [worker EXCEPT ![w] = "idle"]
          /\ pc' = IF Created \cup {w} = Workers THEN "dbus" ELSE "workers"
          /\ UNCHANGED failed
     \/ FailsTo("rollback") /\ UNCHANGED worker
  /\ UNCHANGED <<proc, sigVars, ctx, run, gloop, wqs, locked, pending, woken,
                 eventVars, threadVars>>

\* rollback_workqueues(1): join the workers that were created, free the queue.
Rollback ==
  /\ At("rollback")
  /\ \A w \in Created : worker[w] = "exited"
  /\ wqs' = "dangling" /\ pc' = "exit_event"
  /\ UNCHANGED <<proc, sigVars, run, startupVars, locked, pending, worker, woken,
                 eventVars, threadVars>>

\* pthread_create of dbus_fn_thread_handler
CreateListener ==
  /\ At("dbus")
  /\ \/ listener' = "setup" /\ pc' = "hw" /\ UNCHANGED failed
     \/ FailsTo("exit_workqueue") /\ UNCHANGED listener
  /\ UNCHANGED <<proc, sigVars, ctx, run, gloop, eventVars, queueVars, monitor,
                 pushes>>

\* hw_monitor_init
CreateMonitor ==
  /\ At("hw")
  /\ \/ monitor' = "check" /\ pc' = "gloop" /\ UNCHANGED failed
     \/ FailsTo("exit_dbus") /\ UNCHANGED monitor
  /\ UNCHANGED <<proc, sigVars, ctx, run, gloop, eventVars, queueVars, listener,
                 pushes>>

\* create_g_main_loop_ctx; its failure label calls the empty
\* hw_monitor_deinit and falls into exit_dbus.
CreateLoop ==
  /\ At("gloop")
  /\ \/ gloop' = TRUE /\ pc' = "nm" /\ UNCHANGED failed
     \/ FailsTo("exit_dbus") /\ UNCHANGED gloop
  /\ UNCHANGED <<proc, sigVars, ctx, run, eventVars, queueVars, threadVars>>

\* init_network_manager_client
CreateClient ==
  /\ At("nm")
  /\ \/ pc' = "audio" /\ UNCHANGED failed
     \/ FailsTo("exit_g_main_loop")
  /\ UNCHANGED <<proc, sigVars, ctx, run, gloop, eventVars, queueVars, threadVars>>

\* push_work(get_wq(SYSTEM_WQ), ...) by main: get_wq reads through wqs.
MainPush(next) ==
  \/ /\ wqs = "up" /\ ~locked
     /\ pending' = pending + 1 /\ pc' = next
     /\ UNCHANGED proc
  \/ /\ wqs # "up"
     /\ proc' = "crashed"
     /\ UNCHANGED <<pending, pc>>

\* The OP_AUDIO_INIT work.
PushInit ==
  /\ At("audio")
  /\ MainPush("start")
  /\ UNCHANGED <<sigVars, run, startupVars, eventVars, wqs, locked, worker, woken,
                 threadVars>>

-----------------------------------------------------------------------------
(***************************************************************************)
(* The cleanup ladder of service_startup_flow                              *)
(***************************************************************************)

\* event_set: writing to a closed event file fails and is ignored.
EventSet(code) == codes' = IF event THEN codes \cup {code} ELSE codes

ExitLoop ==
  /\ At("exit_g_main_loop")
  /\ gloop' = FALSE /\ pc' = "exit_dbus"
  /\ UNCHANGED <<proc, sigVars, failed, ctx, run, eventVars, queueVars, threadVars>>

ExitDbus ==
  /\ At("exit_dbus")
  /\ EventSet("USR1") /\ pc' = "exit_workqueue"
  /\ UNCHANGED <<proc, sigVars, run, startupVars, event, got, queueVars, threadVars>>

\* workqueue_deinit is entered; run is still 1.
ExitQueue ==
  /\ At("exit_workqueue")
  /\ flow' = [flow EXCEPT !["main"] = "wakeup"] /\ pc' = "exit_event"
  /\ UNCHANGED <<proc, handlers, run, startupVars, eventVars, queueVars,
                 threadVars>>

\* Mutant: the event file is not closed.
ExitEventLeak ==
  /\ At("exit_event")
  /\ pc' = "exit_err"
  /\ UNCHANGED <<proc, sigVars, run, startupVars, event, codes, got, queueVars,
                 threadVars>>

\* cleanup_event_file
ExitEvent ==
  /\ At("exit_event")
  /\ event' = FALSE /\ codes' = {} /\ pc' = "exit_err"
  /\ UNCHANGED <<proc, sigVars, run, startupVars, got, queueVars, threadVars>>

\* destroy_ctx, at the end of the ladder or of main; then main returns.
DestroyCtx ==
  /\ At("exit_err") \/ At("leave")
  /\ ctx' = "freed" /\ pc' = "exit"
  /\ UNCHANGED <<proc, sigVars, failed, run, gloop, eventVars, queueVars, threadVars>>

Exit ==
  /\ At("exit")
  /\ proc' = "exited"
  /\ UNCHANGED <<pc, sigVars, run, startupVars, eventVars, queueVars, threadVars>>

-----------------------------------------------------------------------------
(***************************************************************************)
(* main_loop, its GLib callbacks, and the signals                          *)
(***************************************************************************)

\* start_g_main_loop returns at once when there is no loop any more.
StartLoop ==
  /\ At("start")
  /\ pc' = IF gloop THEN "loop" ELSE "spin"
  /\ UNCHANGED <<proc, sigVars, run, startupVars, eventVars, queueVars, threadVars>>

\* A NetworkManager callback enters push_work and takes the queue's mutex.
\* A loop that was told to quit may run one more.
CallbackLock ==
  /\ At("loop") /\ pushes < MaxPushes
  /\ pushes' = pushes + 1
  /\ \/ /\ wqs = "up" /\ ~locked
        /\ locked' = TRUE /\ pending' = pending + 1 /\ pc' = "callback"
        /\ UNCHANGED proc
     \/ /\ wqs # "up"
        /\ proc' = "crashed"
        /\ UNCHANGED <<locked, pending, pc>>
  /\ UNCHANGED <<sigVars, run, startupVars, eventVars, wqs, worker, woken,
                 listener, monitor>>

CallbackUnlock ==
  /\ At("callback")
  /\ locked' = FALSE /\ pc' = "loop"
  /\ UNCHANGED <<proc, sigVars, run, startupVars, eventVars, wqs, pending, worker,
                 woken, threadVars>>

\* g_main_loop_run returns when the loop was told to quit.
EndLoop ==
  /\ At("loop") /\ ~gloop
  /\ pc' = "spin"
  /\ UNCHANGED <<proc, sigVars, run, startupVars, eventVars, queueVars, threadVars>>

\* Mutant: main leaves when g_main_loop_run returns, whatever run is.
LeaveLoopAnyway ==
  /\ At("spin")
  /\ pc' = "leave"
  /\ UNCHANGED <<proc, sigVars, run, startupVars, eventVars, queueVars, threadVars>>

\* main polls run.
LeaveLoop ==
  /\ At("spin") /\ ~run
  /\ pc' = "leave"
  /\ UNCHANGED <<proc, sigVars, run, startupVars, eventVars, queueVars, threadVars>>

\* Where a SIGINT may reach a thread: main at SigintAt, any other thread that
\* exists, outside of the queue's mutex.
Interruptible(t) ==
  \/ t = "main" /\ pc \in SigintAt
  \/ /\ t \in Interrupted \ handlers /\ pc # "workers"
     /\ \/ t = "listener" /\ listener \in {"setup", "check", "epoll"}
        \/ t = "monitor" /\ monitor \in {"check", "body"}
        \/ t \in Workers /\ worker[t] \in {"idle", "busy"}

\* The handler runs on top of the thread, wherever it is.  SIGINT is blocked
\* in this thread until it returns, and in no other.
Sigint(t) ==
  /\ Free(t) /\ Interruptible(t)
  /\ Cardinality(handlers \cup {t}) <= MaxHandlers
  /\ flow' = [flow EXCEPT ![t] = "push"]
  /\ handlers' = handlers \cup {t}
  /\ UNCHANGED <<proc, pc, run, startupVars, eventVars, queueVars, threadVars>>

\* SIGABRT only writes the event file.
Sigabrt ==
  /\ At("loop") /\ event
  /\ EventSet("ABRT")
  /\ UNCHANGED <<proc, pc, sigVars, run, startupVars, event, got, queueVars,
                 threadVars>>

-----------------------------------------------------------------------------
(***************************************************************************)
(* service_shutdown_flow, in the signal handler of thread t, and           *)
(* workqueue_deinit, which the cleanup ladder of main runs too             *)
(***************************************************************************)

In(t, label) == proc = "up" /\ flow[t] = label

Goes(t, label) == flow' = [flow EXCEPT ![t] = label] /\ UNCHANGED handlers

\* The other threads that run the flow and are at this label.
Rivals(t, label) == {u \in Threads \ {t} : flow[u] = label}

\* The OP_AUDIO_RELEASE work; push_work waits for the mutex.
PushRelease(t) ==
  /\ In(t, "push") /\ ctx = "alive" /\ wqs = "up" /\ ~locked
  /\ pending' = pending + 1 /\ Goes(t, "drain")
  /\ UNCHANGED <<proc, pc, run, startupVars, eventVars, wqs, locked, worker,
                 woken, threadVars>>

\* workqueue_active_count is polled until it is 0.  The work on top of which
\* a worker handles the signal is counted, and does not end before the poll.
Drain(t) ==
  /\ In(t, "drain") /\ ctx = "alive" /\ wqs = "up" /\ pending = 0
  /\ Goes(t, "stop_loop")
  /\ UNCHANGED <<proc, pc, run, startupVars, eventVars, queueVars, threadVars>>

\* deinit_network_manager_client, stop and destroy the GLib loop.
StopLoop(t) ==
  /\ In(t, "stop_loop") /\ ctx = "alive"
  /\ gloop' = FALSE /\ Goes(t, "stop_run")
  /\ UNCHANGED <<proc, pc, failed, ctx, run, eventVars, queueVars, threadVars>>

\* Mutant: run is not cleared before the listener is notified.
StopRunLate(t) ==
  /\ In(t, "stop_run") /\ ctx = "alive"
  /\ EventSet("INT") /\ Goes(t, "notify")
  /\ UNCHANGED <<proc, pc, run, startupVars, event, got, queueVars, threadVars>>

StopRun(t) ==
  /\ In(t, "stop_run") /\ ctx = "alive"
  /\ run' = FALSE /\ Goes(t, "notify")
  /\ UNCHANGED <<proc, pc, startupVars, eventVars, queueVars, threadVars>>

Notify(t) ==
  /\ In(t, "notify") /\ ctx = "alive"
  /\ EventSet("INT") /\ Goes(t, "wakeup")
  /\ UNCHANGED <<proc, pc, run, startupVars, event, got, queueVars, threadVars>>

\* The broadcast needs the mutex; a worker that finds run = 1 sleeps again.
Wakeup(t) ==
  /\ In(t, "wakeup") /\ ctx = "alive" /\ wqs = "up" /\ ~locked
  /\ woken' = ~run /\ Goes(t, "join")
  /\ UNCHANGED <<proc, pc, run, startupVars, eventVars, wqs, locked, pending,
                 worker, threadVars>>

\* Mutant: the joins stop at the first worker.
JoinFirst(t) ==
  /\ In(t, "join") /\ wqs = "up"
  /\ \E w \in Created : worker[w] = "exited"
  /\ Goes(t, "destroy")
  /\ UNCHANGED <<proc, pc, run, startupVars, eventVars, queueVars, threadVars>>

\* pthread_join refuses at once to join the calling thread, and a thread that
\* another one is joining.
Join(t) ==
  /\ In(t, "join") /\ wqs = "up"
  /\ Cardinality({w \in Created \ {t} : worker[w] # "exited"})
       <= Cardinality(Rivals(t, "join"))
  /\ Goes(t, "destroy")
  /\ UNCHANGED <<proc, pc, run, startupVars, eventVars, queueVars, threadVars>>

\* workqueue_destroy, free(wq_ctxs), wqs = NULL.  pthread_cond_destroy waits
\* for the sleepers: for ever, when one handles the signal on top of its wait.
Destroy(t) ==
  /\ In(t, "destroy") /\ ctx = "alive" /\ wqs = "up" /\ ~locked
  /\ \A w \in Workers : worker[w] = "idle" => woken /\ flow[w] = "none"
  /\ wqs' = "null"
  /\ Goes(t, IF t = "main" /\ failed THEN "none" ELSE "cleanup")
  /\ UNCHANGED <<proc, pc, run, startupVars, eventVars, locked, pending, worker,
                 woken, threadVars>>

\* cleanup_event_file, then the handler returns; epoll_wait gives EINTR.
CleanupEvent(t) ==
  /\ In(t, "cleanup")
  /\ event' = FALSE /\ codes' = {} /\ Goes(t, "none")
  /\ listener' = IF t = "listener" /\ listener = "epoll" THEN "check" ELSE listener
  /\ UNCHANGED <<proc, pc, run, startupVars, got, queueVars, monitor, pushes>>

\* What a rival took away: the context or the queue is gone, the loop is
\* destroyed twice, a worker is joined again or the queue destroyed twice.
FlowCrash(t) ==
  /\ proc = "up"
  /\ \/ flow[t] # "none" /\ ctx # "alive"
     \/ flow[t] \in {"push", "drain"} \cup DeinitLabels /\ wqs # "up"
     \/ flow[t] = "stop_loop" /\ Rivals(t, "stop_loop") # {}
     \/ flow[t] \in {"join", "destroy"} /\ Rivals(t, "destroy") # {}
  /\ proc' = "crashed"
  /\ UNCHANGED <<pc, sigVars, run, startupVars, eventVars, queueVars, threadVars>>

Flow(t) ==
  \/ PushRelease(t) \/ Drain(t) \/ StopLoop(t) \/ StopRun(t) \/ Notify(t)
  \/ Wakeup(t) \/ Join(t) \/ Destroy(t) \/ CleanupEvent(t) \/ FlowCrash(t)

Main ==
  \/ CreateCtx \/ InitEvent \/ InitQueue \/ CreateWorker \/ Rollback
  \/ CreateListener \/ CreateMonitor \/ CreateLoop \/ CreateClient \/ PushInit
  \/ ExitLoop \/ ExitDbus \/ ExitQueue \/ ExitEvent \/ DestroyCtx \/ Exit
  \/ StartLoop \/ CallbackUnlock \/ EndLoop \/ LeaveLoop

-----------------------------------------------------------------------------
(***************************************************************************)
(* The workers                                                             *)
(***************************************************************************)

Busy == {w \in Workers : worker[w] = "busy"}

WorkerTake(w) ==
  /\ Free(w) /\ worker[w] = "idle" /\ wqs = "up" /\ ctx = "alive" /\ ~locked
  /\ Cardinality(Busy) < pending
  /\ worker' = [worker EXCEPT ![w] = "busy"]
  /\ UNCHANGED <<proc, pc, sigVars, run, startupVars, eventVars, wqs, locked,
                 pending, woken, threadVars>>

WorkerFinish(w) ==
  /\ Free(w) /\ worker[w] = "busy" /\ wqs = "up" /\ ctx = "alive"
  /\ pending' = pending - 1
  /\ worker' = [worker EXCEPT ![w] = IF run THEN "idle" ELSE "exited"]
  /\ UNCHANGED <<proc, pc, sigVars, run, startupVars, eventVars, wqs, locked,
                 woken, threadVars>>

\* A worker that sleeps leaves when it is woken and run is 0.
WorkerLeave(w) ==
  /\ Free(w) /\ worker[w] = "idle" /\ woken /\ ~run /\ wqs = "up"
  /\ ctx = "alive"
  /\ worker' = [worker EXCEPT ![w] = "exited"]
  /\ UNCHANGED <<proc, pc, sigVars, run, startupVars, eventVars, wqs, locked,
                 pending, woken, threadVars>>

\* A worker that outlives its queue goes on in freed memory; one that
\* outlives the context reads run through NULL.
WorkerLost(w) ==
  /\ Free(w)
  /\ \/ worker[w] = "busy"
     \/ worker[w] = "idle" /\ woken
  /\ \/ /\ wqs # "up" \/ ctx # "alive"
        /\ proc' = "crashed"
        /\ UNCHANGED worker
     \/ /\ wqs # "up" /\ ctx = "alive"
        /\ worker' = [worker EXCEPT ![w] = "exited"]
        /\ UNCHANGED proc
  /\ UNCHANGED <<pc, sigVars, run, startupVars, eventVars, wqs, locked, pending,
                 woken, threadVars>>

Worker(w) == WorkerTake(w) \/ WorkerFinish(w) \/ WorkerLeave(w) \/ WorkerLost(w)

-----------------------------------------------------------------------------
(***************************************************************************)
(* dbus_fn_thread_handler and hw_monitor_loop                              *)
(***************************************************************************)

\* A thread that is not joined reads get_ctx()->run: NULL after destroy_ctx.
Checks(thread, next, leave) ==
  \/ /\ ctx = "alive"
     /\ thread' = IF run THEN next ELSE leave
     /\ UNCHANGED proc
  \/ /\ ctx = "freed"
     /\ proc' = "crashed"
     /\ UNCHANGED thread

\* push_work(get_wq(SYSTEM_WQ), ...) by the listener or the monitor.
ThreadPush(thread, next) ==
  /\ pushes < MaxPushes
  /\ pushes' = pushes + 1
  /\ \/ /\ wqs = "up" /\ ~locked
        /\ pending' = pending + 1 /\ thread' = next
        /\ UNCHANGED proc
     \/ /\ wqs # "up"
        /\ proc' = "crashed"
        /\ UNCHANGED <<pending, thread>>

\* The connection is set up and both files are added to epoll; adding a
\* closed event file fails and ends the thread, as the other failures do.
ListenerSetup ==
  /\ Free("listener") /\ listener = "setup" /\ ctx = "alive"
  /\ \/ event /\ listener' = "check"
     \/ listener' = "exited"
  /\ UNCHANGED <<proc, pc, sigVars, run, startupVars, eventVars, queueVars,
                 monitor, pushes>>

ListenerCheck ==
  /\ Free("listener") /\ listener = "check"
  /\ Checks(listener, "epoll", "exited")
  /\ UNCHANGED <<pc, sigVars, run, startupVars, eventVars, queueVars, monitor,
                 pushes>>

\* The event file is readable: event_get drains it, and only a line is
\* logged.  A closed file has left the epoll set and wakes nobody.
ListenerEvent ==
  /\ Free("listener") /\ listener = "epoll" /\ event /\ codes # {}
  /\ got' = got \cup codes /\ codes' = {}
  /\ listener' = "check"
  /\ UNCHANGED <<proc, pc, sigVars, run, startupVars, event, queueVars, monitor,
                 pushes>>

\* A command arrives on the bus and is pushed.
ListenerMessage ==
  /\ Free("listener") /\ listener = "epoll"
  /\ ThreadPush(listener, "check")
  /\ UNCHANGED <<pc, sigVars, run, startupVars, eventVars, wqs, locked, worker,
                 woken, monitor>>

MonitorCheck ==
  /\ Free("monitor") /\ monitor = "check"
  /\ Checks(monitor, "body", "exited")
  /\ UNCHANGED <<pc, sigVars, run, startupVars, eventVars, queueVars, listener,
                 pushes>>

\* handle_auto_brightness or update_imu_state reports, or has nothing to say.
MonitorBody ==
  /\ Free("monitor") /\ monitor = "body"
  /\ \/ /\ monitor' = "check"
        /\ UNCHANGED <<proc, pending, pushes>>
     \/ ThreadPush(monitor, "check")
  /\ UNCHANGED <<pc, sigVars, run, startupVars, eventVars, wqs, locked, worker,
                 woken, listener>>

Listener == ListenerSetup \/ ListenerCheck \/ ListenerEvent
Monitor  == MonitorCheck \/ MonitorBody

Terminated == proc # "up" /\ UNCHANGED vars

Next ==
  \/ Main \/ Sigabrt \/ CallbackLock
  \/ \E t \in Threads : Sigint(t) \/ Flow(t)
  \/ \E w \in Workers : Worker(w)
  \/ Listener \/ ListenerMessage \/ Monitor
  \/ Terminated

(***************************************************************************)
(* Threads that can run do run, and works end.  Messages, callbacks and    *)
(* signals may never come.                                                 *)
(***************************************************************************)
Fairness ==
  /\ WF_vars(Main)
  /\ \A t \in Threads : WF_vars(Flow(t))
  /\ \A w \in Workers : WF_vars(Worker(w))
  /\ WF_vars(Listener)
  /\ WF_vars(Monitor)

Spec     == Init /\ [][Next]_vars
FairSpec == Spec /\ Fairness

-----------------------------------------------------------------------------

(* The types of the variables (ctx_t and the threads' positions).          *)
TypeOK ==
  /\ proc \in {"up", "exited", "crashed"}
  /\ pc \in MainLabels
  /\ flow \in [Threads -> FlowLabels]
  /\ handlers \subseteq Threads
  /\ failed \in BOOLEAN
  /\ ctx \in {"none", "alive", "freed"}
  /\ run \in BOOLEAN
  /\ event \in BOOLEAN
  /\ codes \subseteq Codes /\ got \subseteq Codes
  /\ wqs \in {"null", "up", "dangling"}
  /\ locked \in BOOLEAN
  /\ pending \in 0 .. MaxPushes + MaxHandlers + 1
  /\ worker \in [Workers -> {"none", "idle", "busy", "exited"}]
  /\ woken \in BOOLEAN
  /\ gloop \in BOOLEAN
  /\ listener \in {"none", "setup", "check", "epoll", "exited"}
  /\ monitor \in {"none", "check", "body", "exited"}
  /\ pushes \in 0 .. MaxPushes

(***************************************************************************)
(* The listener that has read the shutdown's event (main.c:335) finds run  *)
(* cleared (main.c:332) and does not wait again.                           *)
(***************************************************************************)
EventMeansStop == "INT" \in got => listener \in {"check", "exited"} /\ ~run

(***************************************************************************)
(* On each of the three ways to it (rollback, cleanup ladder, shutdown)    *)
(* the queue is freed only when every worker that was created has ended,   *)
(* as long as no other thread than main handles a SIGINT; and a startup    *)
(* that failed and left the process has given back all that it had         *)
(* acquired, whichever step failed and whoever handled a SIGINT meanwhile. *)
(***************************************************************************)
CleanupIsRight ==
  /\ wqs # "up" /\ handlers \subseteq {"main"} =>
       \A w \in Created : worker[w] = "exited"
  /\ proc = "exited" /\ failed => ~event /\ ~gloop /\ wqs # "up" /\ ctx = "freed"

(***************************************************************************)
(* The threads that nobody joins, and callbacks, use the context and the   *)
(* queue all the time: before a shutdown clears run neither is gone, and   *)
(* only a startup cut short by its own failure or a SIGINT may crash, or   *)
(* two handlers that destroy the GLib loop at once.                        *)
(***************************************************************************)
NoCrashInService ==
  proc = "crashed" =>
    \/ ~run \/ failed
    \/ flow["main"] # "none" /\ pc \in StartupLabels
    \/ \E t \in Threads : flow[t] = "stop_loop" /\ Rivals(t, "stop_loop") # {}

(***************************************************************************)
(* A SIGINT ends the process, one way or another: no poll and no join of   *)
(* service_shutdown_flow waits for ever, at whatever stage of the startup  *)
(* or of the loop main handles it, and whichever thread handles it once    *)
(* there is a loop to quit.  It need not when main is inside push_work,    *)
(* when a worker handles it on top of a work, or a worker and another      *)
(* thread both handle one.                                                 *)
(***************************************************************************)
HoldsItself ==
  \/ flow["main"] = "push" /\ pc = "callback"
  \/ \E w \in handlers \cap Workers : worker[w] = "busy" \/ handlers # {w}

SigintEnds ==
  (\E t \in Threads : flow[t] = "push" /\ (t = "main" \/ gloop))
    ~> proc # "up" \/ HoldsItself

(***************************************************************************)
(* Claim of src/src/main.c:279, "Cleanup sequence in case of failure": a   *)
(* failed startup cleans up and leaves.                                    *)
(***************************************************************************)
FailedStartEnds == failed ~> proc # "up"

(***************************************************************************)
(* Claim of src/src/main.c:302, "Gracefully shutdown the system services": *)
(* a SIGINT delivered while the GLib loop runs shuts the service down.     *)
(***************************************************************************)
SigintShutsDown == handlers # {} ~> proc = "exited"
=============================================================================
