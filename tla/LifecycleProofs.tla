--------------------------- MODULE LifecycleProofs ---------------------------
(***************************************************************************)
(* What holds of the service's life for every set of workers, every choice *)
(* of the startup steps that fail, of the places a SIGINT may come at and  *)
(* of the threads that may handle one: cleanups free what was acquired and *)
(* nothing that is in use, and only a startup cut short, or two handlers   *)
(* at once, may crash.                                                     *)
(***************************************************************************)
EXTENDS Lifecycle, FiniteSetTheorems, TLAPS

Fresh == {"create", "event", "wq"}

\* The places before the listener, and before the GLib loop, exist.
BeforeListener == Fresh \cup {"workers", "dbus"}
BeforeLoop     == BeforeListener \cup {"hw", "gloop"}

Type ==
  /\ proc \in {"up", "exited", "crashed"}
  /\ pc \in MainLabels
  /\ flow \in [Threads -> FlowLabels]
  /\ failed \in BOOLEAN /\ run \in BOOLEAN /\ event \in BOOLEAN
  /\ gloop \in BOOLEAN
  /\ ctx \in {"none", "alive", "freed"}
  /\ wqs \in {"null", "up", "dangling"}
  /\ worker \in [Workers -> {"none", "idle", "busy", "exited"}]
  /\ listener \in {"none", "setup", "check", "epoll", "exited"}

\* Handlers run the shutdown flow; main runs workqueue_deinit in its ladder
\* of cleanups too, which is for a failed startup and never gets back to it.
FlowInv ==
  /\ \A t \in Threads : flow[t] # "none"
                         => t \in handlers \/ (t = "main" /\ failed)
  /\ \A t \in Threads \ {"main"} : flow[t] # "none"
                                     => pc \notin Fresh \cup {"workers"}
  /\ pc \in {"create", "workers"} => flow["main"] = "none"
  /\ failed /\ flow["main"] # "none" => pc = "exit_event"
  /\ failed => flow["main"] \in DeinitLabels \cup {"none"}
  /\ pc \in CleanupLabels => failed
  /\ failed => pc \in CleanupLabels \cup {"exit"}
  /\ proc = "exited" => pc = "exit"

\* Once run is cleared it stays so; a handler past stop_run has cleared it.
RunInv ==
  /\ pc = "leave" => ~run
  /\ \A t \in Threads : flow[t] \in {"notify", "cleanup"} \cup DeinitLabels
                         => ~run \/ (t = "main" /\ failed)
  /\ pc = "create" => codes = {} /\ got = {}
  /\ "INT" \in codes \cup got => ~run

\* The context is there until the end of the ladder or of the loop.
ContextInv ==
  /\ ctx = "none" => pc = "create"
  /\ ctx = "freed" => ~run \/ failed
  /\ pc = "exit" => ctx = "freed"

\* The queue is there from its place in the startup to a cleanup or shutdown.
QueueInv ==
  /\ pc \in Fresh => wqs = "null" /\ Created = {}
  /\ pc = "workers" => wqs = "up"
  /\ wqs # "up" => pc \in Fresh \/ ~run \/ failed
  /\ handlers \subseteq {"main"} /\ (wqs # "up" \/ flow["main"] = "destroy") =>
       \A w \in Created : worker[w] = "exited"
  /\ failed /\ pc \in {"exit_event", "exit_err", "exit"} =>
       flow["main"] # "none" \/ wqs # "up"

\* What else a failed startup gives back.
GivenBackInv ==
  /\ gloop => pc \notin BeforeLoop
  /\ gloop /\ failed => pc = "exit_g_main_loop"
  /\ pc \in {"create", "event"} => ~event
  /\ failed /\ pc \in {"exit_err", "exit"} => ~event

\* The threads are created once; the listener has read nothing before it
\* waits.
ThreadsInv ==
  /\ pc \in BeforeListener => listener = "none"
  /\ pc \in BeforeListener \cup {"hw"} => monitor = "none"
  /\ listener \in {"none", "setup"} => got = {}

IInv ==
  /\ Type /\ FlowInv /\ RunInv /\ ContextInv /\ QueueInv /\ GivenBackInv
  /\ ThreadsInv
  /\ EventMeansStop /\ NoCrashInService
-----------------------------------------------------------------------------
(***************************************************************************)
(* The invariant is inductive.  The conjuncts lean on each other (a place  *)
(* says which resources are there), so every step below starts from the    *)
(* whole of it.                                                            *)
(***************************************************************************)

USE DEF Fresh, BeforeListener, BeforeLoop, FlowLabels, StartupLabels,
        CleanupLabels, ShutdownLabels, DeinitLabels, MainLabels, Free, At,
        Threads, Rivals, Created,
        sigVars, startupVars, eventVars, queueVars, threadVars,
        IInv, Type, FlowInv, RunInv, ContextInv, QueueInv, GivenBackInv,
        ThreadsInv, EventMeansStop, NoCrashInService

LEMMA InitInv == Init => IInv
  BY DEF Init

\* The steps of service_startup_flow that acquire something.
LEMMA StartupStep ==
  ASSUME IInv, CreateCtx \/ InitEvent \/ InitQueue \/ CreateWorker \/
         Rollback \/ CreateListener \/ CreateMonitor \/ CreateLoop \/
         CreateClient \/ PushInit
  PROVE  IInv'
<1>1. CASE CreateCtx
  BY <1>1 DEF CreateCtx
<1>2. CASE InitEvent
  <2>1. Type'
    BY <1>2 DEF InitEvent, FailsTo
  <2>2. FlowInv'
    BY <1>2 DEF InitEvent, FailsTo
  <2>3. RunInv' /\ ContextInv'
    BY <1>2 DEF InitEvent, FailsTo
  <2>4. QueueInv'
    BY <1>2 DEF InitEvent, FailsTo
  <2>5. GivenBackInv' /\ ThreadsInv'
    BY <1>2 DEF InitEvent, FailsTo
  <2>6. EventMeansStop' /\ NoCrashInService'
    BY <1>2 DEF InitEvent, FailsTo
  <2>. QED  BY <2>1, <2>2, <2>3, <2>4, <2>5, <2>6
<1>3. CASE InitQueue
  <2>1. Type'
    BY <1>3 DEF InitQueue, FailsTo
  <2>2. FlowInv'
    BY <1>3 DEF InitQueue, FailsTo
  <2>3. RunInv' /\ ContextInv'
    BY <1>3 DEF InitQueue, FailsTo
  <2>4. QueueInv'
    BY <1>3 DEF InitQueue, FailsTo
  <2>5. GivenBackInv' /\ ThreadsInv'
    BY <1>3 DEF InitQueue, FailsTo
  <2>6. EventMeansStop' /\ NoCrashInService'
    BY <1>3 DEF InitQueue, FailsTo
  <2>. QED  BY <2>1, <2>2, <2>3, <2>4, <2>5, <2>6
<1>4. CASE CreateWorker
  <2>1. Type'
    BY <1>4 DEF CreateWorker, FailsTo
  <2>2. FlowInv'
    BY <1>4 DEF CreateWorker, FailsTo
  <2>3. RunInv' /\ ContextInv'
    BY <1>4 DEF CreateWorker, FailsTo
  <2>4. QueueInv'
    BY <1>4 DEF CreateWorker, FailsTo
  <2>5. GivenBackInv' /\ ThreadsInv'
    BY <1>4 DEF CreateWorker, FailsTo
  <2>6. EventMeansStop' /\ NoCrashInService'
    BY <1>4 DEF CreateWorker, FailsTo
  <2>. QED  BY <2>1, <2>2, <2>3, <2>4, <2>5, <2>6
<1>5. CASE Rollback
  BY <1>5 DEF Rollback
<1>6. CASE CreateListener
  <2>1. Type'
    BY <1>6 DEF CreateListener, FailsTo
  <2>2. FlowInv'
    BY <1>6 DEF CreateListener, FailsTo
  <2>3. RunInv' /\ ContextInv'
    BY <1>6 DEF CreateListener, FailsTo
  <2>4. QueueInv'
    BY <1>6 DEF CreateListener, FailsTo
  <2>5. GivenBackInv' /\ ThreadsInv'
    BY <1>6 DEF CreateListener, FailsTo
  <2>6. EventMeansStop' /\ NoCrashInService'
    BY <1>6 DEF CreateListener, FailsTo
  <2>. QED  BY <2>1, <2>2, <2>3, <2>4, <2>5, <2>6
<1>7. CASE CreateMonitor
  <2>1. Type'
    BY <1>7 DEF CreateMonitor, FailsTo
  <2>2. FlowInv'
    BY <1>7 DEF CreateMonitor, FailsTo
  <2>3. RunInv' /\ ContextInv'
    BY <1>7 DEF CreateMonitor, FailsTo
  <2>4. QueueInv'
    BY <1>7 DEF CreateMonitor, FailsTo
  <2>5. GivenBackInv' /\ ThreadsInv'
    BY <1>7 DEF CreateMonitor, FailsTo
  <2>6. EventMeansStop' /\ NoCrashInService'
    BY <1>7 DEF CreateMonitor, FailsTo
  <2>. QED  BY <2>1, <2>2, <2>3, <2>4, <2>5, <2>6
<1>8. CASE CreateLoop
  <2>1. Type'
    BY <1>8 DEF CreateLoop, FailsTo
  <2>2. FlowInv'
    BY <1>8 DEF CreateLoop, FailsTo
  <2>3. RunInv' /\ ContextInv'
    BY <1>8 DEF CreateLoop, FailsTo
  <2>4. QueueInv'
    BY <1>8 DEF CreateLoop, FailsTo
  <2>5. GivenBackInv' /\ ThreadsInv'
    BY <1>8 DEF CreateLoop, FailsTo
  <2>6. EventMeansStop' /\ NoCrashInService'
    BY <1>8 DEF CreateLoop, FailsTo
  <2>. QED  BY <2>1, <2>2, <2>3, <2>4, <2>5, <2>6
<1>9. CASE CreateClient
  <2>1. Type'
    BY <1>9 DEF CreateClient, FailsTo
  <2>2. FlowInv'
    BY <1>9 DEF CreateClient, FailsTo
  <2>3. RunInv' /\ ContextInv'
    BY <1>9 DEF CreateClient, FailsTo
  <2>4. QueueInv'
    BY <1>9 DEF CreateClient, FailsTo
  <2>5. GivenBackInv' /\ ThreadsInv'
    BY <1>9 DEF CreateClient, FailsTo
  <2>6. EventMeansStop' /\ NoCrashInService'
    BY <1>9 DEF CreateClient, FailsTo
  <2>. QED  BY <2>1, <2>2, <2>3, <2>4, <2>5, <2>6
<1>10. CASE PushInit
  BY <1>10 DEF PushInit, MainPush
<1>. QED  BY <1>1, <1>2, <1>3, <1>4, <1>5, <1>6, <1>7, <1>8, <1>9, <1>10

\* The ladder of cleanups, and the end of main.
LEMMA CleanupStep ==
  ASSUME IInv, ExitLoop \/ ExitDbus \/ ExitQueue \/ ExitEvent \/
         DestroyCtx \/ Exit
  PROVE  IInv'
<1>1. CASE ExitLoop
  BY <1>1 DEF ExitLoop
<1>2. CASE ExitDbus
  BY <1>2 DEF ExitDbus, EventSet
<1>3. CASE ExitQueue
  BY <1>3 DEF ExitQueue
<1>4. CASE ExitEvent
  BY <1>4 DEF ExitEvent
<1>5. CASE DestroyCtx
  BY <1>5 DEF DestroyCtx
<1>6. CASE Exit
  BY <1>6 DEF Exit
<1>. QED  BY <1>1, <1>2, <1>3, <1>4, <1>5, <1>6

\* The GLib loop, its callbacks and SIGABRT.
LEMMA LoopStep ==
  ASSUME IInv, StartLoop \/ CallbackLock \/ CallbackUnlock \/ EndLoop \/
         LeaveLoop \/ Sigabrt
  PROVE  IInv'
<1>1. CASE StartLoop
  BY <1>1 DEF StartLoop
<1>2. CASE CallbackLock
  BY <1>2 DEF CallbackLock
<1>3. CASE CallbackUnlock
  BY <1>3 DEF CallbackUnlock
<1>4. CASE EndLoop
  BY <1>4 DEF EndLoop
<1>5. CASE LeaveLoop
  BY <1>5 DEF LeaveLoop
<1>6. CASE Sigabrt
  BY <1>6 DEF Sigabrt, EventSet
<1>. QED  BY <1>1, <1>2, <1>3, <1>4, <1>5, <1>6

\* A thread enters the signal handler.
LEMMA SigintStep ==
  ASSUME IInv, NEW t \in Threads, Sigint(t)
  PROVE  IInv'
<1>1. CASE Sigint(t)
  BY <1>1, LifecycleAssumption DEF Sigint, Interruptible
<1>. QED  BY <1>1

\* service_shutdown_flow, down to the queue.
LEMMA ShutdownStep ==
  ASSUME IInv, NEW t \in Threads,
         PushRelease(t) \/ Drain(t) \/ StopLoop(t) \/ StopRun(t) \/
         Notify(t) \/ CleanupEvent(t) \/ FlowCrash(t)
  PROVE  IInv'
<1>1. CASE PushRelease(t)
  BY <1>1 DEF PushRelease, In, Goes
<1>2. CASE Drain(t)
  BY <1>2 DEF Drain, In, Goes
<1>3. CASE StopLoop(t)
  <2>1. Type'
    BY <1>3 DEF StopLoop, In, Goes
  <2>2. FlowInv'
    BY <1>3 DEF StopLoop, In, Goes
  <2>3. RunInv' /\ ContextInv'
    BY <1>3 DEF StopLoop, In, Goes
  <2>4. QueueInv'
    BY <1>3 DEF StopLoop, In, Goes
  <2>5. GivenBackInv' /\ ThreadsInv'
    BY <1>3 DEF StopLoop, In, Goes
  <2>6. EventMeansStop' /\ NoCrashInService'
    BY <1>3 DEF StopLoop, In, Goes
  <2>. QED  BY <2>1, <2>2, <2>3, <2>4, <2>5, <2>6
<1>4. CASE StopRun(t)
  <2>1. Type'
    BY <1>4 DEF StopRun, In, Goes
  <2>2. FlowInv'
    BY <1>4 DEF StopRun, In, Goes
  <2>3. RunInv' /\ ContextInv'
    BY <1>4 DEF StopRun, In, Goes
  <2>4. QueueInv'
    BY <1>4 DEF StopRun, In, Goes
  <2>5. GivenBackInv' /\ ThreadsInv'
    BY <1>4 DEF StopRun, In, Goes
  <2>6. EventMeansStop' /\ NoCrashInService'
    BY <1>4 DEF StopRun, In, Goes
  <2>. QED  BY <2>1, <2>2, <2>3, <2>4, <2>5, <2>6
<1>5. CASE Notify(t)
  BY <1>5 DEF Notify, EventSet, In, Goes
<1>6. CASE CleanupEvent(t)
  <2>1. Type'
    BY <1>6 DEF CleanupEvent, In, Goes
  <2>2. FlowInv'
    BY <1>6 DEF CleanupEvent, In, Goes
  <2>3. RunInv' /\ ContextInv'
    BY <1>6 DEF CleanupEvent, In, Goes
  <2>4. QueueInv'
    BY <1>6 DEF CleanupEvent, In, Goes
  <2>5. GivenBackInv' /\ ThreadsInv'
    BY <1>6 DEF CleanupEvent, In, Goes
  <2>6. EventMeansStop' /\ NoCrashInService'
    BY <1>6 DEF CleanupEvent, In, Goes
  <2>. QED  BY <2>1, <2>2, <2>3, <2>4, <2>5, <2>6
<1>7. CASE FlowCrash(t)
  BY <1>7 DEF FlowCrash
<1>. QED  BY <1>1, <1>2, <1>3, <1>4, <1>5, <1>6, <1>7

\* When nobody but main handles a SIGINT its joins wait for every worker.
LEMMA JoinsAll ==
  ASSUME IInv, Join("main"), handlers \subseteq {"main"}
  PROVE  \A w \in Created : worker[w] = "exited"
<1>. DEFINE Alive == {w \in Created \ {"main"} : worker[w] # "exited"}
<1>1. Rivals("main", "join") = {}
  <2>1. \A u \in Threads \ {"main"} : flow[u] = "none"
    OBVIOUS
  <2>. QED  BY <2>1
<1>2. IsFiniteSet(Alive)
  <2>1. IsFiniteSet(Workers) /\ Alive \in SUBSET Workers
    BY LifecycleAssumption
  <2>. HIDE DEF Alive
  <2>. QED  BY <2>1, FS_Subset
<1>3. Cardinality(Alive) \in Nat /\ Cardinality(Alive) <= 0
  BY <1>1, <1>2, FS_EmptySet, FS_CardinalityType DEF Join
<1>4. Alive = {}
  BY <1>2, <1>3, FS_EmptySet
<1>. QED  BY <1>4, LifecycleAssumption

\* workqueue_deinit.
LEMMA DeinitStep ==
  ASSUME IInv, NEW t \in Threads, Wakeup(t) \/ Join(t) \/ Destroy(t)
  PROVE  IInv'
<1>1. CASE Wakeup(t)
  BY <1>1 DEF Wakeup, In, Goes
<1>2. CASE Join(t)
  <2>1. Type'
    BY <1>2, JoinsAll DEF Join, In, Goes
  <2>2. FlowInv'
    BY <1>2, JoinsAll DEF Join, In, Goes
  <2>3. RunInv' /\ ContextInv'
    BY <1>2, JoinsAll DEF Join, In, Goes
  <2>4. QueueInv'
    BY <1>2, JoinsAll DEF Join, In, Goes
  <2>5. GivenBackInv' /\ ThreadsInv'
    BY <1>2, JoinsAll DEF Join, In, Goes
  <2>6. EventMeansStop' /\ NoCrashInService'
    BY <1>2, JoinsAll DEF Join, In, Goes
  <2>. QED  BY <2>1, <2>2, <2>3, <2>4, <2>5, <2>6
<1>3. CASE Destroy(t)
  BY <1>3 DEF Destroy, In, Goes
<1>. QED  BY <1>1, <1>2, <1>3

\* The threads that are never joined.
LEMMA ThreadStep ==
  ASSUME IInv, ListenerSetup \/ ListenerCheck \/ ListenerEvent \/
         ListenerMessage \/ MonitorCheck \/ MonitorBody
  PROVE  IInv'
<1>1. CASE ListenerSetup
  BY <1>1 DEF ListenerSetup
<1>2. CASE ListenerCheck
  BY <1>2 DEF ListenerCheck, Checks
<1>3. CASE ListenerEvent
  BY <1>3 DEF ListenerEvent
<1>4. CASE ListenerMessage
  BY <1>4 DEF ListenerMessage, ThreadPush
<1>5. CASE MonitorCheck
  BY <1>5 DEF MonitorCheck, Checks
<1>6. CASE MonitorBody
  BY <1>6 DEF MonitorBody, ThreadPush
<1>. QED  BY <1>1, <1>2, <1>3, <1>4, <1>5, <1>6

\* A worker.
LEMMA WorkerStep ==
  ASSUME IInv, NEW w \in Workers,
         WorkerTake(w) \/ WorkerFinish(w) \/ WorkerLeave(w) \/
         WorkerLost(w)
  PROVE  IInv'
<1>1. CASE WorkerTake(w)
  BY <1>1 DEF WorkerTake
<1>2. CASE WorkerFinish(w)
  BY <1>2 DEF WorkerFinish
<1>3. CASE WorkerLeave(w)
  BY <1>3 DEF WorkerLeave
<1>4. CASE WorkerLost(w)
  BY <1>4 DEF WorkerLost
<1>. QED  BY <1>1, <1>2, <1>3, <1>4

LEMMA Stutter == IInv /\ UNCHANGED vars => IInv'
  BY DEF vars

HIDE DEF IInv

LEMMA StepInv == IInv /\ [Next]_vars => IInv'
<1>. SUFFICES ASSUME IInv, [Next]_vars PROVE IInv'
  OBVIOUS
<1>1. CASE Main
  BY <1>1, StartupStep, CleanupStep, LoopStep DEF Main
<1>2. CASE Sigabrt \/ CallbackLock
  BY <1>2, LoopStep
<1>3. CASE \E t \in Threads : Sigint(t) \/ Flow(t)
  BY <1>3, SigintStep, ShutdownStep, DeinitStep DEF Flow
<1>4. CASE \E w \in Workers : Worker(w)
  BY <1>4, WorkerStep DEF Worker
<1>5. CASE Listener \/ ListenerMessage \/ Monitor
  BY <1>5, ThreadStep DEF Listener, Monitor
<1>6. CASE Terminated \/ UNCHANGED vars
  BY <1>6, Stutter DEF Terminated
<1>. QED  BY <1>1, <1>2, <1>3, <1>4, <1>5, <1>6 DEF Next

LEMMA Inductive == Spec => []IInv
  BY InitInv, StepInv, PTL DEF Spec

-----------------------------------------------------------------------------

(***************************************************************************)
(* The listener that has read the shutdown's event finds run cleared       *)
(* (main.c:332, before the event of main.c:335) and never waits again.     *)
(***************************************************************************)
THEOREM EventStopsListener == Spec => []EventMeansStop
<1>1. IInv => EventMeansStop
  BY DEF IInv
<1>. QED  BY <1>1, Inductive, PTL

(***************************************************************************)
(* Whichever startup step failed and wherever a SIGINT came: no queue is   *)
(* freed under a worker while only main handles SIGINT, and a failed       *)
(* startup gave everything back, whoever handled one.                      *)
(***************************************************************************)
THEOREM CleanupsAreRight == Spec => []CleanupIsRight
<1>1. IInv => CleanupIsRight
  BY DEF IInv, CleanupIsRight
<1>. QED  BY <1>1, Inductive, PTL

(***************************************************************************)
(* Threads nobody joins find the context and the queue in place until a    *)
(* shutdown clears run: only a startup cut short, or two handlers that     *)
(* destroy the GLib loop at once, may crash.                               *)
(***************************************************************************)
THEOREM ServiceDoesNotCrash == Spec => []NoCrashInService
<1>1. IInv => NoCrashInService
  BY DEF IInv
<1>. QED  BY <1>1, Inductive, PTL
=============================================================================
