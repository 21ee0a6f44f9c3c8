------------------------------ MODULE WorkQueue ------------------------------
(***************************************************************************)
(* The system work queue of sys-mgr and the threads that share it.         *)
(*                                                                         *)
(* src/src/core/work/workqueue.c keeps a linked list, a mutex, a condition *)
(* variable and an atomic counter of outstanding works; workqueue_handler.c*)
(* is the loop of each worker thread.  The other actors are the threads    *)
(* that push works (DBus listener, hardware monitor), and the main thread, *)
(* which pushes works from its GLib callbacks and, on SIGINT, runs         *)
(* service_shutdown_flow of main.c: push a last work, poll the counter     *)
(* until it is 0, clear the run flag, wake and join the workers, free the  *)
(* queue.                                                                  *)
(*                                                                         *)
(* A step is the code between two accesses to shared state.  Only two      *)
(* groupings are made: code that runs wholly under the mutex and touches   *)
(* nothing that is read outside of it is one step with the lock it takes.  *)
(* The run flag and the counter are read without the mutex, so each of     *)
(* their accesses is a step of its own.                                    *)
(***************************************************************************)
EXTENDS Integers, Sequences, FiniteSets

CONSTANTS
  Workers,       \* the worker threads (WORKERS_PER_QUEUE of them)
  Producers,     \* threads that push and that nobody joins
  Main,          \* the main thread
  ClientWorks,   \* works pushed by the producers and by main's callbacks
  ReportWorks,   \* works pushed by a worker while it executes another one
  ReleaseWork,   \* the OP_AUDIO_RELEASE work of the shutdown flow
  Invalid,       \* the works whose opcode is out of range
  NoWork,        \* the NULL pointer
  NoThread,      \* owner of a free mutex
  MaxSpurious    \* bound on the spurious wakeups of pthread_cond_wait

Works   == ClientWorks \cup ReportWorks \cup {ReleaseWork}
Threads == Workers \cup Producers \cup {Main}

ASSUME WorkAssumption ==
  /\ IsFiniteSet(Workers)
  /\ IsFiniteSet(Works)
  /\ ClientWorks \cap ReportWorks = {}
  /\ ReleaseWork \notin ClientWorks \cup ReportWorks
  /\ Invalid \subseteq ClientWorks
  /\ NoWork \notin Works
  /\ MaxSpurious \in Nat

ASSUME ThreadAssumption ==
  /\ Workers # {}
  /\ Workers \cap Producers = {}
  /\ Main \notin Workers \cup Producers
  /\ NoThread \notin Threads

VARIABLES
  list,        \* wq->list
  owner,       \* the thread that holds wq->mutex
  waiters,     \* the threads blocked in pthread_cond_wait on wq->cond
  active_cnt,  \* wq->active_cnt
  run,         \* get_ctx()->run
  alive,       \* the queue and its context are allocated
  pc,          \* where each thread is
  item,        \* the work a worker has popped and not yet accounted for
  arg,         \* the work a thread is pushing
  fate,        \* what became of each work
  spurious     \* spurious wakeups so far

vars == <<list, owner, waiters, active_cnt, run, alive, pc, item, arg, fate,
          spurious>>

-----------------------------------------------------------------------------

PushLabels   == {"push", "count", "signal"}
WorkerLabels == {"loop", "lock", "test", "park", "exec", "complete", "dec",
                 "load", "notify", "exited", "crashed"} \cup PushLabels
MainLabels   == {"idle", "drain", "stop", "wakeup", "join", "destroy",
                 "release", "down", "crashed"} \cup PushLabels
ClientLabels == {"idle", "crashed"} \cup PushLabels

Fates == {"new", "created", "queued", "taken", "done", "rejected", "dropped"}

\* Labels at which a thread holds wq->mutex.
Critical == {"test", "park", "count", "signal"}

Busy == {t \in Workers : item[t] # NoWork}

\* Pushes that have linked their work and not yet counted it.
Uncounted == {t \in Threads : pc[t] = "count"}

Goto(t, label) == pc' = [pc EXCEPT ![t] = label]

Init ==
  /\ list = <<>>
  /\ owner = NoThread
  /\ waiters = {}
  /\ active_cnt = 0
  /\ run = TRUE
  /\ alive = TRUE
  /\ pc = [t \in Threads |-> IF t \in Workers THEN "loop" ELSE "idle"]
  /\ item = [t \in Workers |-> NoWork]
  /\ arg = [t \in Threads |-> NoWork]
  /\ fate = [x \in Works |-> "new"]
  /\ spurious = 0

-----------------------------------------------------------------------------
(***************************************************************************)
(* push_work, by any thread                                                *)
(***************************************************************************)

\* create_work and the evaluation of get_wq(SYSTEM_WQ): a NULL context
\* pointer is dereferenced once the queue is gone.
StartPush(t, x) ==
  /\ fate[x] = "new"
  /\ fate' = [fate EXCEPT ![x] = "created"]
  /\ arg' = [arg EXCEPT ![t] = x]
  /\ \/ alive /\ Goto(t, "push")
     \/ ~alive /\ Goto(t, "crashed")
  /\ UNCHANGED <<list, owner, waiters, active_cnt, run, alive, item, spurious>>

\* A client command, or a report made by a GLib callback of the main thread.
ClientPush(t) ==
  /\ t \in Producers \cup {Main}
  /\ pc[t] = "idle"
  /\ \E x \in ClientWorks : StartPush(t, x)

\* A command that answers with a report pushes it while it runs.
ReportPush(t) ==
  /\ pc[t] = "exec"
  /\ item[t] \in ClientWorks
  /\ \E x \in ReportWorks : StartPush(t, x)

\* pthread_mutex_lock and list_add_tail.
PushLink(t) ==
  /\ pc[t] = "push"
  /\ alive
  /\ owner = NoThread
  /\ owner' = t
  /\ list' = Append(list, arg[t])
  /\ fate' = [fate EXCEPT ![arg[t]] = "queued"]
  /\ Goto(t, "count")
  /\ UNCHANGED <<waiters, active_cnt, run, alive, item, arg, spurious>>

\* atomic_fetch_add, visible at once to readers that take no lock.
PushCount(t) ==
  /\ pc[t] = "count"
  /\ alive
  /\ active_cnt' = active_cnt + 1
  /\ Goto(t, "signal")
  /\ UNCHANGED <<list, owner, waiters, run, alive, item, arg, fate, spurious>>

\* Mutant: a report's push returns to a loop, not to the command.
ResumeIdle(t) == IF arg[t] = ReleaseWork THEN "drain" ELSE "idle"

\* Where push_work returns to: the report's command, the shutdown flow, or
\* the thread's own loop.
Resume(t) ==
  IF t \in Workers THEN "exec"
  ELSE IF arg[t] = ReleaseWork THEN "drain" ELSE "idle"

\* Mutant: the push does not signal.
PushNoSignal(t) ==
  /\ pc[t] = "signal"
  /\ alive
  /\ owner' = NoThread
  /\ arg' = [arg EXCEPT ![t] = NoWork]
  /\ Goto(t, Resume(t))
  /\ UNCHANGED <<list, waiters, active_cnt, run, alive, item, fate, spurious>>

\* pthread_cond_signal wakes one waiter if there is one; then the unlock.
PushSignal(t) ==
  /\ pc[t] = "signal"
  /\ alive
  /\ \/ /\ waiters = {}
        /\ UNCHANGED waiters
     \/ \E s \in waiters : waiters' = waiters \ {s}
  /\ owner' = NoThread
  /\ arg' = [arg EXCEPT ![t] = NoWork]
  /\ Goto(t, Resume(t))
  /\ UNCHANGED <<list, active_cnt, run, alive, item, fate, spurious>>

\* push_work on a queue that has been freed under it.
PushCrash(t) ==
  /\ pc[t] \in PushLabels
  /\ ~alive
  /\ Goto(t, "crashed")
  /\ UNCHANGED <<list, owner, waiters, active_cnt, run, alive, item, arg, fate,
                 spurious>>

Push(t) == PushLink(t) \/ PushCount(t) \/ PushSignal(t) \/ PushCrash(t)

-----------------------------------------------------------------------------
(***************************************************************************)
(* workqueue_handler, pop_work_wait_safe and workqueue_complete_work, by a *)
(* worker                                                                  *)
(***************************************************************************)

\* while (get_ctx()->run)
WorkerLoop(t) ==
  /\ pc[t] = "loop"
  /\ \/ run /\ Goto(t, "lock")
     \/ ~run /\ Goto(t, "exited")
  /\ UNCHANGED <<list, owner, waiters, active_cnt, run, alive, item, arg, fate,
                 spurious>>

\* pthread_mutex_lock, or the re-acquisition inside pthread_cond_wait.
WorkerLock(t) ==
  /\ pc[t] = "lock"
  /\ t \notin waiters
  /\ owner = NoThread
  /\ owner' = t
  /\ Goto(t, "test")
  /\ UNCHANGED <<list, waiters, active_cnt, run, alive, item, arg, fate,
                 spurious>>

\* list_empty && run: go to wait.  The flag is read here and the wait begins
\* in a later step, because main clears run without the mutex.
WorkerPark(t) ==
  /\ pc[t] = "test"
  /\ list = <<>>
  /\ run
  /\ Goto(t, "park")
  /\ UNCHANGED <<list, owner, waiters, active_cnt, run, alive, item, arg, fate,
                 spurious>>

\* pthread_cond_wait: join the waiters and release the mutex, atomically.
WorkerWait(t) ==
  /\ pc[t] = "park"
  /\ waiters' = waiters \cup {t}
  /\ owner' = NoThread
  /\ Goto(t, "lock")
  /\ UNCHANGED <<list, active_cnt, run, alive, item, arg, fate, spurious>>

\* POSIX lets a wait return without a signal.
SpuriousWakeup(t) ==
  /\ t \in waiters
  /\ spurious < MaxSpurious
  /\ spurious' = spurious + 1
  /\ waiters' = waiters \ {t}
  /\ UNCHANGED <<list, owner, active_cnt, run, alive, pc, item, arg, fate>>

\* Mutant: the wait is guarded by "if" instead of "while".
WorkerQuitOnAnyWakeup(t) ==
  /\ pc[t] = "test"
  /\ list = <<>>
  /\ owner' = NoThread
  /\ Goto(t, "exited")
  /\ UNCHANGED <<list, waiters, active_cnt, run, alive, item, arg, fate,
                 spurious>>

\* The list is empty and run is 0: return NULL, and the handler breaks.
WorkerQuit(t) ==
  /\ pc[t] = "test"
  /\ list = <<>>
  /\ ~run
  /\ owner' = NoThread
  /\ Goto(t, "exited")
  /\ UNCHANGED <<list, waiters, active_cnt, run, alive, item, arg, fate,
                 spurious>>

\* Mutant: list_del is forgotten.
WorkerPopNoDel(t) ==
  /\ pc[t] = "test"
  /\ list # <<>>
  /\ item' = [item EXCEPT ![t] = Head(list)]
  /\ fate' = [fate EXCEPT ![Head(list)] = "taken"]
  /\ owner' = NoThread
  /\ Goto(t, IF Head(list) \in Invalid THEN "complete" ELSE "exec")
  /\ UNCHANGED <<list, waiters, active_cnt, run, alive, arg, spurious>>

\* Mutant: the list is consumed from its tail.
WorkerPopLast(t) ==
  /\ pc[t] = "test"
  /\ list # <<>>
  /\ LET x == list[Len(list)] IN
     /\ list' = SubSeq(list, 1, Len(list) - 1)
     /\ item' = [item EXCEPT ![t] = x]
     /\ fate' = [fate EXCEPT ![x] = "taken"]
     /\ Goto(t, IF x \in Invalid THEN "complete" ELSE "exec")
  /\ owner' = NoThread
  /\ UNCHANGED <<waiters, active_cnt, run, alive, arg, spurious>>

\* Mutant: a work with an invalid opcode is not completed.
WorkerPopSkip(t) ==
  /\ pc[t] = "test"
  /\ list # <<>>
  /\ list' = Tail(list)
  /\ item' = [item EXCEPT ![t] = IF Head(list) \in Invalid THEN NoWork
                                 ELSE Head(list)]
  /\ fate' = [fate EXCEPT ![Head(list)] =
                IF Head(list) \in Invalid THEN "rejected" ELSE "taken"]
  /\ owner' = NoThread
  /\ Goto(t, IF Head(list) \in Invalid THEN "loop" ELSE "exec")
  /\ UNCHANGED <<waiters, active_cnt, run, alive, arg, spurious>>

\* Take the first work; one with an invalid opcode is completed unexecuted.
WorkerPop(t) ==
  /\ pc[t] = "test"
  /\ list # <<>>
  /\ list' = Tail(list)
  /\ item' = [item EXCEPT ![t] = Head(list)]
  /\ fate' = [fate EXCEPT ![Head(list)] = "taken"]
  /\ owner' = NoThread
  /\ Goto(t, IF Head(list) \in Invalid THEN "complete" ELSE "exec")
  /\ UNCHANGED <<waiters, active_cnt, run, alive, arg, spurious>>

\* process_opcode returns.
WorkerExec(t) ==
  /\ pc[t] = "exec"
  /\ Goto(t, "complete")
  /\ UNCHANGED <<list, owner, waiters, active_cnt, run, alive, item, arg, fate,
                 spurious>>

\* free(w->data), free(w)
WorkerComplete(t) ==
  /\ pc[t] = "complete"
  /\ fate' = [fate EXCEPT ![item[t]] =
                IF item[t] \in Invalid THEN "rejected" ELSE "done"]
  /\ Goto(t, "dec")
  /\ UNCHANGED <<list, owner, waiters, active_cnt, run, alive, item, arg,
                 spurious>>

\* atomic_fetch_sub
WorkerDec(t) ==
  /\ pc[t] = "dec"
  /\ active_cnt' = active_cnt - 1
  /\ item' = [item EXCEPT ![t] = NoWork]
  /\ Goto(t, "load")
  /\ UNCHANGED <<list, owner, waiters, run, alive, arg, fate, spurious>>

\* The counter is loaded again, after other threads may have changed it.
WorkerLoad(t) ==
  /\ pc[t] = "load"
  /\ Goto(t, IF active_cnt = 0 THEN "notify" ELSE "loop")
  /\ UNCHANGED <<list, owner, waiters, active_cnt, run, alive, item, arg, fate,
                 spurious>>

\* Lock, pthread_cond_broadcast, unlock.
WorkerNotify(t) ==
  /\ pc[t] = "notify"
  /\ owner = NoThread
  /\ waiters' = {}
  /\ Goto(t, "loop")
  /\ UNCHANGED <<list, owner, active_cnt, run, alive, item, arg, fate, spurious>>

PopWork(t) ==
  \/ WorkerLock(t) \/ WorkerPark(t) \/ WorkerWait(t) \/ WorkerQuit(t)
  \/ WorkerPop(t)

CompleteWork(t) ==
  WorkerComplete(t) \/ WorkerDec(t) \/ WorkerLoad(t) \/ WorkerNotify(t)

Worker(t) == WorkerLoop(t) \/ PopWork(t) \/ WorkerExec(t) \/ CompleteWork(t)

-----------------------------------------------------------------------------
(***************************************************************************)
(* service_shutdown_flow and workqueue_deinit, by main                     *)
(***************************************************************************)

\* SIGINT is delivered to the main thread outside of push_work.
Sigint ==
  /\ pc[Main] = "idle"
  /\ StartPush(Main, ReleaseWork)

\* Mutant: the shutdown waits for an empty list, not for a zero count.
DrainPollList ==
  /\ pc[Main] = "drain"
  /\ list = <<>>
  /\ Goto(Main, "stop")
  /\ UNCHANGED <<list, owner, waiters, active_cnt, run, alive, item, arg, fate,
                 spurious>>

\* One poll of workqueue_active_count; a non-zero count sleeps and polls again.
DrainPoll ==
  /\ pc[Main] = "drain"
  /\ active_cnt = 0
  /\ Goto(Main, "stop")
  /\ UNCHANGED <<list, owner, waiters, active_cnt, run, alive, item, arg, fate,
                 spurious>>

\* run = 0, without the queue's mutex.
StopRun ==
  /\ pc[Main] = "stop"
  /\ run' = FALSE
  /\ Goto(Main, "wakeup")
  /\ UNCHANGED <<list, owner, waiters, active_cnt, alive, item, arg, fate,
                 spurious>>

\* Mutant: the broadcast is made without the mutex.
WakeupAllUnlocked ==
  /\ pc[Main] = "wakeup"
  /\ waiters' = {}
  /\ Goto(Main, "join")
  /\ UNCHANGED <<list, owner, active_cnt, run, alive, item, arg, fate, spurious>>

\* workqueue_handler_wakeup: lock, broadcast, unlock.
WakeupAll ==
  /\ pc[Main] = "wakeup"
  /\ owner = NoThread
  /\ waiters' = {}
  /\ Goto(Main, "join")
  /\ UNCHANGED <<list, owner, active_cnt, run, alive, item, arg, fate, spurious>>

\* Mutant: only one worker is joined.
JoinOneWorker ==
  /\ pc[Main] = "join"
  /\ \E t \in Workers : pc[t] = "exited"
  /\ Goto(Main, "destroy")
  /\ UNCHANGED <<list, owner, waiters, active_cnt, run, alive, item, arg, fate,
                 spurious>>

\* pthread_join of every worker.
JoinWorkers ==
  /\ pc[Main] = "join"
  /\ \A t \in Workers : pc[t] = "exited"
  /\ Goto(Main, "destroy")
  /\ UNCHANGED <<list, owner, waiters, active_cnt, run, alive, item, arg, fate,
                 spurious>>

\* workqueue_destroy frees what is still linked, under the mutex.
DestroyList ==
  /\ pc[Main] = "destroy"
  /\ owner = NoThread
  /\ fate' = [x \in Works |-> IF fate[x] = "queued" THEN "dropped" ELSE fate[x]]
  /\ list' = <<>>
  /\ Goto(Main, "release")
  /\ UNCHANGED <<owner, waiters, active_cnt, run, alive, item, arg, spurious>>

\* free(wq), free(wq_ctxs), wqs = NULL.
ReleaseQueue ==
  /\ pc[Main] = "release"
  /\ alive' = FALSE
  /\ Goto(Main, "down")
  /\ UNCHANGED <<list, owner, waiters, active_cnt, run, item, arg, fate,
                 spurious>>

Shutdown ==
  DrainPoll \/ StopRun \/ WakeupAll \/ JoinWorkers \/ DestroyList \/ ReleaseQueue

\* The process is about to exit: nothing more needs to happen.
Terminated == pc[Main] = "down" /\ UNCHANGED vars

Next ==
  \/ \E t \in Threads : ClientPush(t) \/ Push(t)
  \/ \E t \in Workers : ReportPush(t) \/ Worker(t) \/ SpuriousWakeup(t)
  \/ Sigint
  \/ Shutdown
  \/ Terminated

(***************************************************************************)
(* The scheduler runs every thread that can take a step of the queue's     *)
(* code.  WorkerExec is included: a command's handler returns.  Nothing    *)
(* forces a push to start, a SIGINT to arrive or a wait to wake            *)
(* spuriously, and no strong fairness is asked of the mutex.               *)
(***************************************************************************)
Fairness ==
  /\ \A t \in Threads : WF_vars(Push(t))
  /\ \A t \in Workers : WF_vars(Worker(t))
  /\ WF_vars(Shutdown)

Spec     == Init /\ [][Next]_vars
FairSpec == Spec /\ Fairness

-----------------------------------------------------------------------------

(* The types of the variables (work_t, workqueue_t and ctx_t).             *)
TypeOK ==
  /\ list \in Seq(Works)
  /\ owner \in Threads \cup {NoThread}
  /\ waiters \subseteq Workers
  /\ active_cnt \in Int
  /\ run \in BOOLEAN
  /\ alive \in BOOLEAN
  /\ pc \in [Threads -> WorkerLabels \cup MainLabels \cup ClientLabels]
  /\ \A t \in Workers : pc[t] \in WorkerLabels
  /\ \A t \in Producers : pc[t] \in ClientLabels
  /\ pc[Main] \in MainLabels
  /\ item \in [Workers -> Works \cup {NoWork}]
  /\ arg \in [Threads -> Works \cup {NoWork}]
  /\ fate \in [Works -> Fates]
  /\ spurious \in 0 .. MaxSpurious

(***************************************************************************)
(* The counter that the shutdown flow polls is the number of works linked  *)
(* or in a worker's hands, short of those whose push is between            *)
(* list_add_tail and atomic_fetch_add (push_work, pop_work_wait_safe,      *)
(* workqueue_complete_work), until workqueue_destroy frees the list.       *)
(***************************************************************************)
CountExact ==
  pc[Main] \notin {"release", "down"} =>
    active_cnt = Len(list) + Cardinality(Busy) - Cardinality(Uncounted)

(***************************************************************************)
(* A work is linked once, or in the hands of one worker, or neither: no    *)
(* work is freed twice, used after its free, or forgotten by both.         *)
(***************************************************************************)
SingleOwner ==
  /\ \A i, j \in DOMAIN list : list[i] = list[j] => i = j
  /\ \A x \in Works : fate[x] = "queued" <=> \E i \in DOMAIN list : list[i] = x
  /\ \A s, t \in Workers : item[s] = item[t] /\ item[s] # NoWork => s = t
  /\ \A x \in Works : fate[x] = "taken" =>
        \E t \in Workers : item[t] = x /\ pc[t] \in {"exec", "complete"} \cup PushLabels
  /\ \A t \in Workers : item[t] # NoWork =>
        fate[item[t]] = IF pc[t] # "dec" THEN "taken"
                        ELSE IF item[t] \in Invalid THEN "rejected" ELSE "done"

(***************************************************************************)
(* When every worker sleeps on the condition variable, no work waits for   *)
(* one, except a work whose push still holds the mutex and has its signal  *)
(* to send.                                                                *)
(***************************************************************************)
NoLostSignal ==
  waiters = Workers =>
    list = <<>> \/ \E t \in Threads : pc[t] \in {"count", "signal"}

(***************************************************************************)
(* After the wakeup of workqueue_deinit no worker sleeps or is about to,   *)
(* although run is cleared without the mutex and a worker may have read it *)
(* just before: main's pthread_join can return.                            *)
(***************************************************************************)
NoSleeperAfterWakeup ==
  pc[Main] \in {"join", "destroy", "release", "down"} =>
    /\ waiters = {}
    /\ \A t \in Workers : pc[t] # "park"

(***************************************************************************)
(* While the service runs both workers stay: the broadcast of              *)
(* workqueue_complete_work and the spurious wakeups find an empty list and *)
(* do not end a handler.                                                   *)
(***************************************************************************)
WorkersStay == run => \A t \in Workers : pc[t] # "exited"

(***************************************************************************)
(* workqueue_destroy and the frees run when no worker and not the main     *)
(* thread can touch the queue any more.                                    *)
(***************************************************************************)
WorkersGoneBeforeFree ==
  /\ pc[Main] \in {"destroy", "release", "down"} =>
       \A t \in Workers : pc[t] = "exited" /\ item[t] = NoWork
  /\ \A t \in Workers \cup {Main} : pc[t] # "crashed"

(***************************************************************************)
(* The poll of the counter is a sound test although it takes no lock: when *)
(* it passes, every work accepted before has been completed, except works  *)
(* whose push has linked them but not counted them yet.                    *)
(***************************************************************************)
DrainSound ==
  [][pc[Main] = "drain" /\ pc'[Main] = "stop" =>
       \A x \in Works : fate[x] \in {"queued", "taken"} =>
         \E t \in Threads : pc[t] = "count" /\ arg[t] = x]_vars

(***************************************************************************)
(* A work is dropped only by a shutdown, and until the shutdown clears run *)
(* every queued work is eventually completed.                              *)
(***************************************************************************)
QueuedWorkSettles ==
  \A x \in Works :
    fate[x] = "queued" ~> fate[x] \in {"done", "rejected"} \/ ~run

(***************************************************************************)
(* A SIGINT delivered outside of push_work always shuts the queue down: no *)
(* worker misses the wakeup, no join waits for ever.                       *)
(***************************************************************************)
ShutdownCompletes == arg[Main] = ReleaseWork ~> pc[Main] = "down"
=============================================================================
