--------------------------- MODULE WorkQueueProofs ---------------------------
(***************************************************************************)
(* Proofs about WorkQueue, for every set of workers, producers and works.  *)
(***************************************************************************)
EXTENDS WorkQueueImpl, TLAPS, FiniteSetTheorems, SequenceTheorems

-----------------------------------------------------------------------------
(***************************************************************************)
(* The inductive invariant, by parts.                                      *)
(***************************************************************************)

\* The two halves of TypeOK: where the threads are, and what they hold.
PcType ==
  /\ pc \in [Threads -> WorkerLabels \cup MainLabels \cup ClientLabels]
  /\ \A t \in Workers : pc[t] \in WorkerLabels
  /\ \A t \in Producers : pc[t] \in ClientLabels
  /\ pc[Main] \in MainLabels

DataType ==
  /\ list \in Seq(Works)
  /\ owner \in Threads \cup {NoThread}
  /\ waiters \subseteq Workers
  /\ active_cnt \in Int
  /\ run \in BOOLEAN
  /\ alive \in BOOLEAN
  /\ item \in [Workers -> Works \cup {NoWork}]
  /\ arg \in [Threads -> Works \cup {NoWork}]
  /\ fate \in [Works -> Fates]
  /\ spurious \in 0 .. MaxSpurious

Stopped == {"wakeup", "join", "destroy", "release", "down"}

\* The run flag and the allocation follow the main thread's position.
LifeInv ==
  /\ run <=> pc[Main] \notin Stopped
  /\ alive <=> pc[Main] # "down"

\* Until the queue is freed, its mutex is held by the thread that is at a
\* critical label, and by no other.
MutexInv ==
  pc[Main] # "down" =>
    \A t \in Threads : owner = t <=> pc[t] \in Critical

\* A sleeping worker is inside pthread_cond_wait.
WaitInv == \A t \in waiters : pc[t] = "lock"

\* A worker about to sleep has seen an empty list, and still sees it.
ParkInv == \A t \in Workers : pc[t] = "park" => list = <<>>

\* A work in a push belongs to that push alone, and is the last of the list
\* between list_add_tail and atomic_fetch_add.
ArgInv ==
  /\ \A t \in Threads :
       /\ arg[t] # NoWork <=> pc[t] \in PushLabels \cup {"crashed"}
       /\ arg[t] # NoWork => fate[arg[t]] # "new"
       /\ arg[t] = ReleaseWork => t = Main
       /\ pc[t] = "push" => fate[arg[t]] = "created"
       /\ pc[t] = "count" => list # <<>> /\ list[Len(list)] = arg[t]
  /\ \A s, t \in Threads : arg[s] = arg[t] /\ arg[s] # NoWork => s = t

\* A worker holds a work from its pop to its decrement of the counter.
ItemInv ==
  \A t \in Workers :
    item[t] # NoWork <=> pc[t] \in {"exec", "complete", "dec"} \cup PushLabels

IInv ==
  /\ TypeOK
  /\ LifeInv /\ MutexInv /\ WaitInv /\ ParkInv /\ ArgInv /\ ItemInv
  /\ SingleOwner
  /\ NoLostSignal
  /\ NoSleeperAfterWakeup
  /\ WorkersStay
  /\ WorkersGoneBeforeFree
  /\ CountExact

\* The type invariant, split into the two halves the steps are proved for.
LEMMA TypeSplit == TypeOK <=> DataType /\ PcType
BY DEF TypeOK, DataType, PcType

-----------------------------------------------------------------------------
(***************************************************************************)
(* Every step preserves each part.  The hypotheses of a lemma are the      *)
(* parts it rests on.                                                      *)
(***************************************************************************)

\* Moving a thread to one of its own labels keeps the threads typed.
LEMMA GotoType ==
  ASSUME PcType, NEW t \in Threads, NEW l, Goto(t, l),
         t \in Workers => l \in WorkerLabels,
         t \in Producers => l \in ClientLabels,
         t = Main => l \in MainLabels
  PROVE  PcType'
BY ThreadAssumption DEF PcType, Goto, Threads

\* No thread is in a critical section while the queue's mutex is free.
LEMMA LockFree ==
  ASSUME MutexInv, LifeInv, alive, owner = NoThread, NEW t \in Threads
  PROVE  pc[t] \notin Critical
BY ThreadAssumption DEF MutexInv, LifeInv

\* Every step of the code keeps the list, the counter, the flags and what
\* the threads hold typed.
LEMMA DataTypeStep ==
  ASSUME DataType, PcType, ArgInv, ItemInv, [Next]_vars
  PROVE  DataType'
<1> USE WorkAssumption, ThreadAssumption DEF DataType, PcType, ArgInv,
        ItemInv, Goto, Fates, Works
<1>0. Workers \subseteq Threads /\ Main \in Threads
  BY DEF Threads
<1>1. ASSUME NEW t \in Threads, ClientPush(t)
      PROVE  DataType'
  BY <1>0, <1>1 DEF ClientPush, StartPush
<1>2. ASSUME NEW t \in Workers, ReportPush(t)
      PROVE  DataType'
  BY <1>0, <1>2 DEF ReportPush, StartPush
<1>3. ASSUME NEW t \in Threads, Push(t)
      PROVE  DataType'
  <2>1. CASE PushLink(t)
    <3>1. arg[t] \in Works
      BY <2>1 DEF PushLink, PushLabels
    <3>2. list' \in Seq(Works)
      BY <2>1, <3>1 DEF PushLink
    <3>3. fate' \in [Works -> Fates]
      BY <2>1, <3>1 DEF PushLink
    <3> QED BY <2>1, <3>2, <3>3 DEF PushLink
  <2>2. CASE PushCount(t)
    BY <1>0, <2>2 DEF PushCount
  <2>3. CASE PushSignal(t)
    BY <1>0, <2>3 DEF PushSignal, Resume
  <2>4. CASE PushCrash(t)
    BY <1>0, <2>4 DEF PushCrash
  <2> QED BY <1>3, <2>1, <2>2, <2>3, <2>4 DEF Push
<1>4. ASSUME NEW t \in Workers, WorkerLoop(t)
      PROVE  DataType'
  BY <1>0, <1>4 DEF WorkerLoop
<1>5. ASSUME NEW t \in Workers, PopWork(t)
      PROVE  DataType'
  <2>1. CASE WorkerLock(t)
    BY <1>0, <2>1 DEF WorkerLock
  <2>2. CASE WorkerPark(t)
    BY <1>0, <2>2 DEF WorkerPark
  <2>3. CASE WorkerWait(t)
    BY <1>0, <2>3 DEF WorkerWait
  <2>4. CASE WorkerQuit(t)
    BY <1>0, <2>4 DEF WorkerQuit
  <2>5. CASE WorkerPop(t)
    BY <1>0, <2>5 DEF WorkerPop
  <2> QED BY <1>5, <2>1, <2>2, <2>3, <2>4, <2>5 DEF PopWork
<1>6. ASSUME NEW t \in Workers, WorkerExec(t)
      PROVE  DataType'
  BY <1>0, <1>6 DEF WorkerExec
<1>7. ASSUME NEW t \in Workers, CompleteWork(t)
      PROVE  DataType'
  <2>1. CASE WorkerComplete(t)
    BY <1>0, <2>1 DEF WorkerComplete
  <2>2. CASE WorkerDec(t)
    BY <1>0, <2>2 DEF WorkerDec
  <2>3. CASE WorkerLoad(t)
    BY <1>0, <2>3 DEF WorkerLoad
  <2>4. CASE WorkerNotify(t)
    BY <1>0, <2>4 DEF WorkerNotify
  <2> QED BY <1>7, <2>1, <2>2, <2>3, <2>4 DEF CompleteWork
<1>8. ASSUME NEW t \in Workers, SpuriousWakeup(t)
      PROVE  DataType'
  BY <1>0, <1>8 DEF SpuriousWakeup
<1>9. ASSUME Sigint
      PROVE  DataType'
  BY <1>0, <1>9 DEF Sigint, StartPush
<1>10. ASSUME Shutdown
      PROVE  DataType'
  <2>1. CASE DrainPoll
    BY <1>0, <2>1 DEF DrainPoll
  <2>2. CASE StopRun
    BY <1>0, <2>2 DEF StopRun
  <2>3. CASE WakeupAll
    BY <1>0, <2>3 DEF WakeupAll
  <2>4. CASE JoinWorkers
    BY <1>0, <2>4 DEF JoinWorkers
  <2>5. CASE DestroyList
    BY <1>0, <2>5 DEF DestroyList
  <2>6. CASE ReleaseQueue
    BY <1>0, <2>6 DEF ReleaseQueue
  <2> QED BY <1>10, <2>1, <2>2, <2>3, <2>4, <2>5, <2>6 DEF Shutdown
<1>11. ASSUME UNCHANGED vars
      PROVE  DataType'
  BY <1>0, <1>11 DEF vars
<1> QED BY <1>1, <1>2, <1>3, <1>4, <1>5, <1>6, <1>7, <1>8, <1>9, <1>10, <1>11
        DEF Next, Worker, Terminated

\* Every thread stays at the labels of its own code.
LEMMA PcTypeStep ==
  ASSUME PcType, DataType, ArgInv, [Next]_vars
  PROVE  PcType'
<1> USE WorkAssumption, ThreadAssumption DEF PcType, DataType, ArgInv, Goto,
        WorkerLabels, MainLabels, ClientLabels, PushLabels, Works
<1>0. Workers \subseteq Threads /\ Main \in Threads
  BY DEF Threads
<1>1. ASSUME NEW t \in Threads, ClientPush(t)
      PROVE  PcType'
  <2>1. \E l \in {"push", "crashed"} : Goto(t, l)
    BY <1>1 DEF ClientPush, StartPush
  <2> QED BY <2>1, GotoType DEF WorkerLabels, MainLabels, ClientLabels, PushLabels
<1>2. ASSUME NEW t \in Workers, ReportPush(t)
      PROVE  PcType'
  <2>1. \E l \in {"push", "crashed"} : Goto(t, l)
    BY <1>2 DEF ReportPush, StartPush
  <2> QED BY <1>0, <2>1, GotoType DEF WorkerLabels, MainLabels, ClientLabels, PushLabels
<1>3. ASSUME NEW t \in Threads, Push(t)
      PROVE  PcType'
  <2>1. CASE PushLink(t)
    BY <1>0, <2>1 DEF PushLink
  <2>2. CASE PushCount(t)
    BY <1>0, <2>2 DEF PushCount
  <2>3. CASE PushSignal(t)
    BY <1>0, <2>3 DEF PushSignal, Resume
  <2>4. CASE PushCrash(t)
    BY <1>0, <2>4 DEF PushCrash
  <2> QED BY <1>3, <2>1, <2>2, <2>3, <2>4 DEF Push
<1>4. ASSUME NEW t \in Workers, WorkerLoop(t)
      PROVE  PcType'
  <2>1. \E l \in {"lock", "exited"} : Goto(t, l)
    BY <1>4 DEF WorkerLoop
  <2> QED BY <1>0, <2>1, GotoType, ThreadAssumption DEF WorkerLabels
<1>5. ASSUME NEW t \in Workers, PopWork(t)
      PROVE  PcType'
  <2>1. CASE WorkerLock(t)
    BY <1>0, <2>1 DEF WorkerLock
  <2>2. CASE WorkerPark(t)
    BY <1>0, <2>2 DEF WorkerPark
  <2>3. CASE WorkerWait(t)
    BY <1>0, <2>3 DEF WorkerWait
  <2>4. CASE WorkerQuit(t)
    BY <1>0, <2>4 DEF WorkerQuit
  <2>5. CASE WorkerPop(t)
    BY <1>0, <2>5 DEF WorkerPop
  <2> QED BY <1>5, <2>1, <2>2, <2>3, <2>4, <2>5 DEF PopWork
<1>6. ASSUME NEW t \in Workers, WorkerExec(t)
      PROVE  PcType'
  BY <1>0, <1>6 DEF WorkerExec
<1>7. ASSUME NEW t \in Workers, CompleteWork(t)
      PROVE  PcType'
  <2>1. \E l \in {"dec", "load", "notify", "loop"} : Goto(t, l)
    BY <1>7 DEF CompleteWork, WorkerComplete, WorkerDec, WorkerLoad, WorkerNotify
  <2> QED BY <1>0, <2>1, GotoType, ThreadAssumption DEF WorkerLabels
<1>8. ASSUME NEW t \in Workers, SpuriousWakeup(t)
      PROVE  PcType'
  BY <1>0, <1>8 DEF SpuriousWakeup
<1>9. ASSUME Sigint
      PROVE  PcType'
  <2>1. \E l \in {"push", "crashed"} : Goto(Main, l)
    BY <1>9 DEF Sigint, StartPush
  <2> QED BY <1>0, <2>1, GotoType DEF WorkerLabels, MainLabels, ClientLabels, PushLabels
<1>10. ASSUME Shutdown
      PROVE  PcType'
  <2>1. \E l \in {"stop", "wakeup", "join", "destroy", "release", "down"} :
           Goto(Main, l)
    BY <1>10 DEF Shutdown, DrainPoll, StopRun, WakeupAll, JoinWorkers,
                 DestroyList, ReleaseQueue
  <2> QED BY <1>0, <2>1, GotoType, ThreadAssumption DEF MainLabels
<1>11. ASSUME UNCHANGED vars
      PROVE  PcType'
  BY <1>0, <1>11 DEF vars
<1> QED BY <1>1, <1>2, <1>3, <1>4, <1>5, <1>6, <1>7, <1>8, <1>9, <1>10, <1>11
        DEF Next, Worker, Terminated

\* run and the allocation change only in service_shutdown_flow.
LEMMA LifeInvStep ==
  ASSUME LifeInv, PcType, WorkersGoneBeforeFree, [Next]_vars
  PROVE  LifeInv'
<1> USE WorkAssumption, ThreadAssumption DEF LifeInv, PcType,
        WorkersGoneBeforeFree, Goto, Stopped, PushLabels, MainLabels
<1>0. Workers \subseteq Threads /\ Main \in Threads
  BY DEF Threads
<1>1. ASSUME NEW t \in Threads, ClientPush(t)
      PROVE  LifeInv'
  BY <1>0, <1>1 DEF ClientPush, StartPush
<1>2. ASSUME NEW t \in Workers, ReportPush(t)
      PROVE  LifeInv'
  BY <1>0, <1>2 DEF ReportPush, StartPush
<1>3. ASSUME NEW t \in Threads, Push(t)
      PROVE  LifeInv'
  BY <1>0, <1>3 DEF Push, PushLink, PushCount, PushSignal, PushCrash, Resume
<1>4. ASSUME NEW t \in Workers, WorkerLoop(t)
      PROVE  LifeInv'
  BY <1>0, <1>4 DEF WorkerLoop
<1>5. ASSUME NEW t \in Workers, PopWork(t)
      PROVE  LifeInv'
  BY <1>0, <1>5 DEF PopWork, WorkerLock, WorkerPark, WorkerWait, WorkerQuit,
     WorkerPop
<1>6. ASSUME NEW t \in Workers, WorkerExec(t)
      PROVE  LifeInv'
  BY <1>0, <1>6 DEF WorkerExec
<1>7. ASSUME NEW t \in Workers, CompleteWork(t)
      PROVE  LifeInv'
  BY <1>0, <1>7 DEF CompleteWork, WorkerComplete, WorkerDec, WorkerLoad,
     WorkerNotify
<1>8. ASSUME NEW t \in Workers, SpuriousWakeup(t)
      PROVE  LifeInv'
  BY <1>0, <1>8 DEF SpuriousWakeup
<1>9. ASSUME Sigint
      PROVE  LifeInv'
  BY <1>0, <1>9 DEF Sigint, StartPush
<1>10. ASSUME Shutdown
      PROVE  LifeInv'
  BY <1>0, <1>10 DEF Shutdown, DrainPoll, StopRun, WakeupAll, JoinWorkers,
     DestroyList, ReleaseQueue
<1>11. ASSUME UNCHANGED vars
      PROVE  LifeInv'
  BY <1>0, <1>11 DEF vars
<1> QED BY <1>1, <1>2, <1>3, <1>4, <1>5, <1>6, <1>7, <1>8, <1>9, <1>10, <1>11
        DEF Next, Worker, Terminated

\* wq->mutex excludes: each critical section is entered with the mutex free
\* and left by giving it back.
LEMMA MutexInvStep ==
  ASSUME MutexInv, PcType, LifeInv, [Next]_vars
  PROVE  MutexInv'
<1> USE WorkAssumption, ThreadAssumption DEF MutexInv, PcType, LifeInv, Goto,
        Critical, PushLabels
<1>0. Workers \subseteq Threads /\ Main \in Threads
  BY DEF Threads
<1>1. ASSUME NEW t \in Threads, ClientPush(t)
      PROVE  MutexInv'
  BY <1>0, <1>1 DEF ClientPush, StartPush
<1>2. ASSUME NEW t \in Workers, ReportPush(t)
      PROVE  MutexInv'
  BY <1>0, <1>2 DEF ReportPush, StartPush
<1>3. ASSUME NEW t \in Threads, Push(t)
      PROVE  MutexInv'
  <2>1. CASE PushLink(t)
    BY <1>0, <2>1 DEF PushLink
  <2>2. CASE PushCount(t)
    BY <1>0, <2>2 DEF PushCount
  <2>3. CASE PushSignal(t)
    BY <1>0, <2>3 DEF PushSignal, Resume
  <2>4. CASE PushCrash(t)
    BY <1>0, <2>4 DEF PushCrash
  <2> QED BY <1>3, <2>1, <2>2, <2>3, <2>4 DEF Push
<1>4. ASSUME NEW t \in Workers, WorkerLoop(t)
      PROVE  MutexInv'
  BY <1>0, <1>4 DEF WorkerLoop
<1>5. ASSUME NEW t \in Workers, PopWork(t)
      PROVE  MutexInv'
  <2>1. CASE WorkerLock(t)
    BY <1>0, <2>1 DEF WorkerLock
  <2>2. CASE WorkerPark(t)
    BY <1>0, <2>2 DEF WorkerPark
  <2>3. CASE WorkerWait(t)
    BY <1>0, <2>3 DEF WorkerWait
  <2>4. CASE WorkerQuit(t)
    BY <1>0, <2>4 DEF WorkerQuit
  <2>5. CASE WorkerPop(t)
    BY <1>0, <2>5 DEF WorkerPop
  <2> QED BY <1>5, <2>1, <2>2, <2>3, <2>4, <2>5 DEF PopWork
<1>6. ASSUME NEW t \in Workers, WorkerExec(t)
      PROVE  MutexInv'
  BY <1>0, <1>6 DEF WorkerExec
<1>7. ASSUME NEW t \in Workers, CompleteWork(t)
      PROVE  MutexInv'
  BY <1>0, <1>7 DEF CompleteWork, WorkerComplete, WorkerDec, WorkerLoad,
     WorkerNotify
<1>8. ASSUME NEW t \in Workers, SpuriousWakeup(t)
      PROVE  MutexInv'
  BY <1>0, <1>8 DEF SpuriousWakeup
<1>9. ASSUME Sigint
      PROVE  MutexInv'
  BY <1>0, <1>9 DEF Sigint, StartPush
<1>10. ASSUME Shutdown
      PROVE  MutexInv'
  BY <1>0, <1>10 DEF Shutdown, DrainPoll, StopRun, WakeupAll, JoinWorkers,
     DestroyList, ReleaseQueue
<1>11. ASSUME UNCHANGED vars
      PROVE  MutexInv'
  BY <1>0, <1>11 DEF vars
<1> QED BY <1>1, <1>2, <1>3, <1>4, <1>5, <1>6, <1>7, <1>8, <1>9, <1>10, <1>11
        DEF Next, Worker, Terminated

\* A worker sleeps only inside the pthread_cond_wait of pop_work_wait_safe.
LEMMA WaitInvStep ==
  ASSUME WaitInv, DataType, PcType, [Next]_vars
  PROVE  WaitInv'
<1> USE WorkAssumption, ThreadAssumption DEF WaitInv, DataType, PcType, Goto,
        PushLabels
<1>0. Workers \subseteq Threads /\ Main \in Threads
  BY DEF Threads
<1>1. ASSUME NEW t \in Threads, ClientPush(t)
      PROVE  WaitInv'
  BY <1>0, <1>1 DEF ClientPush, StartPush
<1>2. ASSUME NEW t \in Workers, ReportPush(t)
      PROVE  WaitInv'
  BY <1>0, <1>2 DEF ReportPush, StartPush
<1>3. ASSUME NEW t \in Threads, Push(t)
      PROVE  WaitInv'
  BY <1>0, <1>3 DEF Push, PushLink, PushCount, PushSignal, PushCrash, Resume
<1>4. ASSUME NEW t \in Workers, WorkerLoop(t)
      PROVE  WaitInv'
  BY <1>0, <1>4 DEF WorkerLoop
<1>5. ASSUME NEW t \in Workers, PopWork(t)
      PROVE  WaitInv'
  BY <1>0, <1>5 DEF PopWork, WorkerLock, WorkerPark, WorkerWait, WorkerQuit,
     WorkerPop
<1>6. ASSUME NEW t \in Workers, WorkerExec(t)
      PROVE  WaitInv'
  BY <1>0, <1>6 DEF WorkerExec
<1>7. ASSUME NEW t \in Workers, CompleteWork(t)
      PROVE  WaitInv'
  BY <1>0, <1>7 DEF CompleteWork, WorkerComplete, WorkerDec, WorkerLoad,
     WorkerNotify
<1>8. ASSUME NEW t \in Workers, SpuriousWakeup(t)
      PROVE  WaitInv'
  BY <1>0, <1>8 DEF SpuriousWakeup
<1>9. ASSUME Sigint
      PROVE  WaitInv'
  BY <1>0, <1>9 DEF Sigint, StartPush
<1>10. ASSUME Shutdown
      PROVE  WaitInv'
  BY <1>0, <1>10 DEF Shutdown, DrainPoll, StopRun, WakeupAll, JoinWorkers,
     DestroyList, ReleaseQueue
<1>11. ASSUME UNCHANGED vars
      PROVE  WaitInv'
  BY <1>0, <1>11 DEF vars
<1> QED BY <1>1, <1>2, <1>3, <1>4, <1>5, <1>6, <1>7, <1>8, <1>9, <1>10, <1>11
        DEF Next, Worker, Terminated

\* Between its test of the list and its wait a worker holds the mutex, so no
\* push_work can link a work.
LEMMA ParkInvStep ==
  ASSUME ParkInv, DataType, PcType, MutexInv, LifeInv, WorkersGoneBeforeFree,
         [Next]_vars
  PROVE  ParkInv'
<1> USE WorkAssumption, ThreadAssumption DEF ParkInv, DataType, PcType,
        MutexInv, LifeInv, WorkersGoneBeforeFree, Goto, Critical
<1>0. Workers \subseteq Threads /\ Main \in Threads
  BY DEF Threads
<1>1. ASSUME NEW t \in Threads, ClientPush(t)
      PROVE  ParkInv'
  BY <1>0, <1>1 DEF ClientPush, StartPush
<1>2. ASSUME NEW t \in Workers, ReportPush(t)
      PROVE  ParkInv'
  BY <1>0, <1>2 DEF ReportPush, StartPush
<1>3. ASSUME NEW t \in Threads, Push(t)
      PROVE  ParkInv'
  BY <1>0, <1>3 DEF Push, PushLink, PushCount, PushSignal, PushCrash, Resume
<1>4. ASSUME NEW t \in Workers, WorkerLoop(t)
      PROVE  ParkInv'
  BY <1>0, <1>4 DEF WorkerLoop
<1>5. ASSUME NEW t \in Workers, PopWork(t)
      PROVE  ParkInv'
  BY <1>0, <1>5 DEF PopWork, WorkerLock, WorkerPark, WorkerWait, WorkerQuit,
     WorkerPop
<1>6. ASSUME NEW t \in Workers, WorkerExec(t)
      PROVE  ParkInv'
  BY <1>0, <1>6 DEF WorkerExec
<1>7. ASSUME NEW t \in Workers, CompleteWork(t)
      PROVE  ParkInv'
  BY <1>0, <1>7 DEF CompleteWork, WorkerComplete, WorkerDec, WorkerLoad,
     WorkerNotify
<1>8. ASSUME NEW t \in Workers, SpuriousWakeup(t)
      PROVE  ParkInv'
  BY <1>0, <1>8 DEF SpuriousWakeup
<1>9. ASSUME Sigint
      PROVE  ParkInv'
  BY <1>0, <1>9 DEF Sigint, StartPush
<1>10. ASSUME Shutdown
      PROVE  ParkInv'
  BY <1>0, <1>10 DEF Shutdown, DrainPoll, StopRun, WakeupAll, JoinWorkers,
     DestroyList, ReleaseQueue
<1>11. ASSUME UNCHANGED vars
      PROVE  ParkInv'
  BY <1>0, <1>11 DEF vars
<1> QED BY <1>1, <1>2, <1>3, <1>4, <1>5, <1>6, <1>7, <1>8, <1>9, <1>10, <1>11
        DEF Next, Worker, Terminated

\* A work belongs to one push_work at a time.
LEMMA ArgInvStep ==
  ASSUME ArgInv, DataType, PcType, MutexInv, LifeInv, WorkersGoneBeforeFree,
         SingleOwner, ItemInv, [Next]_vars
  PROVE  ArgInv'
<1> USE WorkAssumption, ThreadAssumption DEF ArgInv, DataType, PcType,
        MutexInv, LifeInv, WorkersGoneBeforeFree, SingleOwner, ItemInv, Goto,
        Critical, PushLabels, Works
<1>0. Workers \subseteq Threads /\ Main \in Threads
  BY DEF Threads
<1>1. ASSUME NEW t \in Threads, ClientPush(t)
      PROVE  ArgInv'
  BY <1>0, <1>1 DEF ClientPush, StartPush
<1>2. ASSUME NEW t \in Workers, ReportPush(t)
      PROVE  ArgInv'
  BY <1>0, <1>2 DEF ReportPush, StartPush
<1>3. ASSUME NEW t \in Threads, Push(t)
      PROVE  ArgInv'
  <2>1. CASE PushLink(t)
    <3>1. arg[t] \in Works
      BY <2>1 DEF PushLink
    <3>2. list' # <<>> /\ list'[Len(list')] = arg[t]
      <4> list \in Seq(Works) /\ list' = Append(list, arg[t])
        BY <2>1 DEF PushLink
      <4> HIDE DEF DataType, ArgInv
      <4> QED BY <3>1, AppendProperties
    <3>3. \A s \in Threads : s # t => pc'[s] = pc[s] /\ pc[s] # "count"
      BY <2>1, LockFree DEF PushLink
    <3>4. \A s \in Threads : s # t /\ arg[s] # NoWork => fate'[arg[s]] = fate[arg[s]]
      BY <2>1, <3>1 DEF PushLink
    <3> QED BY <2>1, <3>1, <3>2, <3>3, <3>4 DEF PushLink
  <2>2. CASE PushCount(t)
    BY <1>0, <2>2 DEF PushCount
  <2>3. CASE PushSignal(t)
    BY <1>0, <2>3 DEF PushSignal, Resume
  <2>4. CASE PushCrash(t)
    BY <1>0, <2>4 DEF PushCrash
  <2> QED BY <1>3, <2>1, <2>2, <2>3, <2>4 DEF Push
<1>4. ASSUME NEW t \in Workers, WorkerLoop(t)
      PROVE  ArgInv'
  BY <1>0, <1>4 DEF WorkerLoop
<1>5. ASSUME NEW t \in Workers, PopWork(t)
      PROVE  ArgInv'
  <2>1. CASE WorkerLock(t)
    BY <1>0, <2>1 DEF WorkerLock
  <2>2. CASE WorkerPark(t)
    BY <1>0, <2>2 DEF WorkerPark
  <2>3. CASE WorkerWait(t)
    BY <1>0, <2>3 DEF WorkerWait
  <2>4. CASE WorkerQuit(t)
    BY <1>0, <2>4 DEF WorkerQuit
  <2>5. CASE WorkerPop(t)
    BY <1>0, <2>5 DEF WorkerPop
  <2> QED BY <1>5, <2>1, <2>2, <2>3, <2>4, <2>5 DEF PopWork
<1>6. ASSUME NEW t \in Workers, WorkerExec(t)
      PROVE  ArgInv'
  BY <1>0, <1>6 DEF WorkerExec
<1>7. ASSUME NEW t \in Workers, CompleteWork(t)
      PROVE  ArgInv'
  <2>1. CASE WorkerComplete(t)
    BY <1>0, <2>1 DEF WorkerComplete
  <2>2. CASE WorkerDec(t)
    BY <1>0, <2>2 DEF WorkerDec
  <2>3. CASE WorkerLoad(t)
    BY <1>0, <2>3 DEF WorkerLoad
  <2>4. CASE WorkerNotify(t)
    BY <1>0, <2>4 DEF WorkerNotify
  <2> QED BY <1>7, <2>1, <2>2, <2>3, <2>4 DEF CompleteWork
<1>8. ASSUME NEW t \in Workers, SpuriousWakeup(t)
      PROVE  ArgInv'
  BY <1>0, <1>8 DEF SpuriousWakeup
<1>9. ASSUME Sigint
      PROVE  ArgInv'
  BY <1>0, <1>9 DEF Sigint, StartPush
<1>10. ASSUME Shutdown
      PROVE  ArgInv'
  BY <1>0, <1>10 DEF Shutdown, DrainPoll, StopRun, WakeupAll, JoinWorkers,
     DestroyList, ReleaseQueue
<1>11. ASSUME UNCHANGED vars
      PROVE  ArgInv'
  BY <1>0, <1>11 DEF vars
<1> QED BY <1>1, <1>2, <1>3, <1>4, <1>5, <1>6, <1>7, <1>8, <1>9, <1>10, <1>11
        DEF Next, Worker, Terminated

\* A worker has a work in hand from its pop to its atomic_fetch_sub.
LEMMA ItemInvStep ==
  ASSUME ItemInv, DataType, PcType, LifeInv, WorkersGoneBeforeFree,
         SingleOwner, [Next]_vars
  PROVE  ItemInv'
<1> USE WorkAssumption, ThreadAssumption DEF ItemInv, DataType, PcType,
        LifeInv, WorkersGoneBeforeFree, SingleOwner, Goto, PushLabels, Works
<1>0. Workers \subseteq Threads /\ Main \in Threads
  BY DEF Threads
<1>1. ASSUME NEW t \in Threads, ClientPush(t)
      PROVE  ItemInv'
  BY <1>0, <1>1 DEF ClientPush, StartPush
<1>2. ASSUME NEW t \in Workers, ReportPush(t)
      PROVE  ItemInv'
  BY <1>0, <1>2 DEF ReportPush, StartPush
<1>3. ASSUME NEW t \in Threads, Push(t)
      PROVE  ItemInv'
  BY <1>0, <1>3 DEF Push, PushLink, PushCount, PushSignal, PushCrash, Resume
<1>4. ASSUME NEW t \in Workers, WorkerLoop(t)
      PROVE  ItemInv'
  BY <1>0, <1>4 DEF WorkerLoop
<1>5. ASSUME NEW t \in Workers, PopWork(t)
      PROVE  ItemInv'
  BY <1>0, <1>5 DEF PopWork, WorkerLock, WorkerPark, WorkerWait, WorkerQuit,
     WorkerPop
<1>6. ASSUME NEW t \in Workers, WorkerExec(t)
      PROVE  ItemInv'
  BY <1>0, <1>6 DEF WorkerExec
<1>7. ASSUME NEW t \in Workers, CompleteWork(t)
      PROVE  ItemInv'
  BY <1>0, <1>7 DEF CompleteWork, WorkerComplete, WorkerDec, WorkerLoad,
     WorkerNotify
<1>8. ASSUME NEW t \in Workers, SpuriousWakeup(t)
      PROVE  ItemInv'
  BY <1>0, <1>8 DEF SpuriousWakeup
<1>9. ASSUME Sigint
      PROVE  ItemInv'
  BY <1>0, <1>9 DEF Sigint, StartPush
<1>10. ASSUME Shutdown
      PROVE  ItemInv'
  BY <1>0, <1>10 DEF Shutdown, DrainPoll, StopRun, WakeupAll, JoinWorkers,
     DestroyList, ReleaseQueue
<1>11. ASSUME UNCHANGED vars
      PROVE  ItemInv'
  BY <1>0, <1>11 DEF vars
<1> QED BY <1>1, <1>2, <1>3, <1>4, <1>5, <1>6, <1>7, <1>8, <1>9, <1>10, <1>11
        DEF Next, Worker, Terminated

\* push_work, pop_work_wait_safe and workqueue_complete_work hand a work over
\* without duplicating or losing it.
LEMMA SingleOwnerStep ==
  ASSUME SingleOwner, DataType, PcType, MutexInv, ArgInv, ItemInv, LifeInv,
         WorkersGoneBeforeFree, [Next]_vars
  PROVE  SingleOwner'
<1> USE WorkAssumption, ThreadAssumption DEF SingleOwner, DataType, PcType,
        MutexInv, ArgInv, ItemInv, LifeInv, WorkersGoneBeforeFree, Goto,
        PushLabels, Critical, Works
<1>0. Workers \subseteq Threads /\ Main \in Threads
  BY DEF Threads
<1>1. ASSUME NEW t \in Threads, ClientPush(t)
      PROVE  SingleOwner'
  BY <1>0, <1>1 DEF ClientPush, StartPush
<1>2. ASSUME NEW t \in Workers, ReportPush(t)
      PROVE  SingleOwner'
  BY <1>0, <1>2 DEF ReportPush, StartPush
<1>3. ASSUME NEW t \in Threads, Push(t)
      PROVE  SingleOwner'
  <2>1. CASE PushLink(t)
    <3> DEFINE x == arg[t]
    <3>1. x \in Works /\ fate[x] = "created"
      BY <2>1 DEF PushLink
    <3>2. \A i \in DOMAIN list : list[i] # x
      BY <3>1
    <3>3. /\ Len(list') = Len(list) + 1
          /\ DOMAIN list' = DOMAIN list \cup {Len(list')}
          /\ \A i \in DOMAIN list : list'[i] = list[i]
          /\ list'[Len(list')] = x
      BY <2>1, <3>1 DEF PushLink
    <3>4. \A i, j \in DOMAIN list' : list'[i] = list'[j] => i = j
      BY <3>2, <3>3
    <3>5. \A y \in Works : fate'[y] = IF y = x THEN "queued" ELSE fate[y]
      BY <2>1, <3>1 DEF PushLink
    <3>6. \A y \in Works :
             fate'[y] = "queued" <=> \E i \in DOMAIN list' : list'[i] = y
      <4> SUFFICES ASSUME NEW y \in Works
                   PROVE  fate'[y] = "queued" <=>
                            \E i \in DOMAIN list' : list'[i] = y
        OBVIOUS
      <4>1. CASE y = x
        BY <4>1, <3>3, <3>5
      <4>2. CASE y # x
        BY <4>2, <3>3, <3>5
      <4> QED BY <4>1, <4>2
    <3>7. item' = item /\ \A w \in Workers : pc'[w] = pc[w] \/ (w = t /\ pc'[t] = "count")
      BY <1>0, <2>1 DEF PushLink
    <3>8. \A w \in Workers : item[w] # NoWork =>
             item[w] \in Works /\ item[w] # x
      BY <3>1
    <3> QED
      BY <2>1, <3>1, <3>4, <3>5, <3>6, <3>7, <3>8, <1>0 DEF PushLink
  <2>2. CASE PushCount(t)
    BY <1>0, <2>2 DEF PushCount
  <2>3. CASE PushSignal(t)
    BY <1>0, <2>3 DEF PushSignal, Resume
  <2>4. CASE PushCrash(t)
    BY <1>0, <2>4 DEF PushCrash
  <2> QED BY <1>3, <2>1, <2>2, <2>3, <2>4 DEF Push
<1>4. ASSUME NEW t \in Workers, WorkerLoop(t)
      PROVE  SingleOwner'
  BY <1>0, <1>4 DEF WorkerLoop
<1>5. ASSUME NEW t \in Workers, PopWork(t)
      PROVE  SingleOwner'
  <2>1. CASE WorkerLock(t)
    BY <1>0, <2>1 DEF WorkerLock
  <2>2. CASE WorkerPark(t)
    BY <1>0, <2>2 DEF WorkerPark
  <2>3. CASE WorkerWait(t)
    BY <1>0, <2>3 DEF WorkerWait
  <2>4. CASE WorkerQuit(t)
    BY <1>0, <2>4 DEF WorkerQuit
  <2>5. CASE WorkerPop(t)
    <3> DEFINE x == Head(list)
    <3>1. x \in Works /\ fate[x] = "queued"
      BY <2>5 DEF WorkerPop
    <3>2. /\ Len(list') = Len(list) - 1
          /\ list' \in Seq(Works)
          /\ \A i \in DOMAIN list' : i + 1 \in DOMAIN list /\ list'[i] = list[i + 1]
          /\ \A i \in DOMAIN list : i # 1 => i - 1 \in DOMAIN list'
          /\ list[1] = x
      BY <2>5 DEF WorkerPop
    <3>3. \A i, j \in DOMAIN list' : list'[i] = list'[j] => i = j
      BY <3>2
    <3>4. \A i \in DOMAIN list' : list'[i] # x
      <4> SUFFICES ASSUME NEW i \in DOMAIN list'
                   PROVE  list'[i] # x
        OBVIOUS
      <4>1. i + 1 # 1 /\ 1 \in DOMAIN list
        BY <2>5, <3>2 DEF WorkerPop
      <4> QED BY <4>1, <3>2
    <3>5. \A y \in Works : fate'[y] = IF y = x THEN "taken" ELSE fate[y]
      BY <2>5, <3>1 DEF WorkerPop
    <3>6. \A y \in Works :
             fate'[y] = "queued" <=> \E i \in DOMAIN list' : list'[i] = y
      <4> SUFFICES ASSUME NEW y \in Works
                   PROVE  fate'[y] = "queued" <=> \E i \in DOMAIN list' : list'[i] = y
        OBVIOUS
      <4>1. CASE y = x
        BY <4>1, <3>4, <3>5
      <4>2. CASE y # x
        BY <4>2, <3>2, <3>5
      <4> QED BY <4>1, <4>2
    <3>7. \A w \in Workers : item[w] # x
      BY <3>1
    <3>8. /\ \A w \in Workers : item'[w] = IF w = t THEN x ELSE item[w]
          /\ \A w \in Workers : w # t => pc'[w] = pc[w]
          /\ pc'[t] \in {"exec", "complete"}
          /\ item[t] = NoWork
      BY <2>5, <1>0 DEF WorkerPop
    <3> QED
      BY <3>1, <3>3, <3>5, <3>6, <3>7, <3>8
  <2> QED BY <1>5, <2>1, <2>2, <2>3, <2>4, <2>5 DEF PopWork
<1>6. ASSUME NEW t \in Workers, WorkerExec(t)
      PROVE  SingleOwner'
  BY <1>0, <1>6 DEF WorkerExec
<1>7. ASSUME NEW t \in Workers, CompleteWork(t)
      PROVE  SingleOwner'
  <2>1. CASE WorkerComplete(t)
    BY <1>0, <2>1 DEF WorkerComplete
  <2>2. CASE WorkerDec(t)
    BY <1>0, <2>2 DEF WorkerDec
  <2>3. CASE WorkerLoad(t)
    BY <1>0, <2>3 DEF WorkerLoad
  <2>4. CASE WorkerNotify(t)
    BY <1>0, <2>4 DEF WorkerNotify
  <2> QED BY <1>7, <2>1, <2>2, <2>3, <2>4 DEF CompleteWork
<1>8. ASSUME NEW t \in Workers, SpuriousWakeup(t)
      PROVE  SingleOwner'
  BY <1>0, <1>8 DEF SpuriousWakeup
<1>9. ASSUME Sigint
      PROVE  SingleOwner'
  BY <1>0, <1>9 DEF Sigint, StartPush
<1>10. ASSUME Shutdown
      PROVE  SingleOwner'
  BY <1>0, <1>10 DEF Shutdown, DrainPoll, StopRun, WakeupAll, JoinWorkers,
     DestroyList, ReleaseQueue
<1>11. ASSUME UNCHANGED vars
      PROVE  SingleOwner'
  BY <1>0, <1>11 DEF vars
<1> QED BY <1>1, <1>2, <1>3, <1>4, <1>5, <1>6, <1>7, <1>8, <1>9, <1>10, <1>11
        DEF Next, Worker, Terminated

\* A worker that sleeps has seen an empty list, and every later push still
\* has its signal to send.
LEMMA NoLostSignalStep ==
  ASSUME NoLostSignal, PcType, DataType, LifeInv, ParkInv, MutexInv,
         NoSleeperAfterWakeup, [Next]_vars
  PROVE  NoLostSignal'
<1> USE WorkAssumption, ThreadAssumption DEF NoLostSignal, PcType, DataType,
        LifeInv, ParkInv, MutexInv, NoSleeperAfterWakeup, Goto, Critical,
        PushLabels
<1>0. Workers \subseteq Threads /\ Main \in Threads
  BY DEF Threads
<1>1. ASSUME NEW t \in Threads, ClientPush(t)
      PROVE  NoLostSignal'
  BY <1>0, <1>1 DEF ClientPush, StartPush
<1>2. ASSUME NEW t \in Workers, ReportPush(t)
      PROVE  NoLostSignal'
  BY <1>0, <1>2 DEF ReportPush, StartPush
<1>3. ASSUME NEW t \in Threads, Push(t)
      PROVE  NoLostSignal'
  BY <1>0, <1>3 DEF Push, PushLink, PushCount, PushSignal, PushCrash, Resume
<1>4. ASSUME NEW t \in Workers, WorkerLoop(t)
      PROVE  NoLostSignal'
  BY <1>0, <1>4 DEF WorkerLoop
<1>5. ASSUME NEW t \in Workers, PopWork(t)
      PROVE  NoLostSignal'
  BY <1>0, <1>5 DEF PopWork, WorkerLock, WorkerPark, WorkerWait, WorkerQuit,
     WorkerPop
<1>6. ASSUME NEW t \in Workers, WorkerExec(t)
      PROVE  NoLostSignal'
  BY <1>0, <1>6 DEF WorkerExec
<1>7. ASSUME NEW t \in Workers, CompleteWork(t)
      PROVE  NoLostSignal'
  BY <1>0, <1>7 DEF CompleteWork, WorkerComplete, WorkerDec, WorkerLoad,
     WorkerNotify
<1>8. ASSUME NEW t \in Workers, SpuriousWakeup(t)
      PROVE  NoLostSignal'
  BY <1>0, <1>8 DEF SpuriousWakeup
<1>9. ASSUME Sigint
      PROVE  NoLostSignal'
  BY <1>0, <1>9 DEF Sigint, StartPush
<1>10. ASSUME Shutdown
      PROVE  NoLostSignal'
  BY <1>0, <1>10 DEF Shutdown, DrainPoll, StopRun, WakeupAll, JoinWorkers,
     DestroyList, ReleaseQueue
<1>11. ASSUME UNCHANGED vars
      PROVE  NoLostSignal'
  BY <1>0, <1>11 DEF vars
<1> QED BY <1>1, <1>2, <1>3, <1>4, <1>5, <1>6, <1>7, <1>8, <1>9, <1>10, <1>11
        DEF Next, Worker, Terminated

\* The broadcast needs the mutex, which a worker about to sleep holds, and a
\* worker that tests run afterwards finds it cleared.
LEMMA NoSleeperAfterWakeupStep ==
  ASSUME NoSleeperAfterWakeup, PcType, DataType, LifeInv, MutexInv, WaitInv,
         [Next]_vars
  PROVE  NoSleeperAfterWakeup'
<1> USE WorkAssumption, ThreadAssumption DEF NoSleeperAfterWakeup, PcType,
        DataType, LifeInv, MutexInv, WaitInv, Goto, Critical, Stopped
<1>0. Workers \subseteq Threads /\ Main \in Threads
  BY DEF Threads
<1>1. ASSUME NEW t \in Threads, ClientPush(t)
      PROVE  NoSleeperAfterWakeup'
  BY <1>0, <1>1 DEF ClientPush, StartPush
<1>2. ASSUME NEW t \in Workers, ReportPush(t)
      PROVE  NoSleeperAfterWakeup'
  BY <1>0, <1>2 DEF ReportPush, StartPush
<1>3. ASSUME NEW t \in Threads, Push(t)
      PROVE  NoSleeperAfterWakeup'
  BY <1>0, <1>3 DEF Push, PushLink, PushCount, PushSignal, PushCrash, Resume
<1>4. ASSUME NEW t \in Workers, WorkerLoop(t)
      PROVE  NoSleeperAfterWakeup'
  BY <1>0, <1>4 DEF WorkerLoop
<1>5. ASSUME NEW t \in Workers, PopWork(t)
      PROVE  NoSleeperAfterWakeup'
  BY <1>0, <1>5 DEF PopWork, WorkerLock, WorkerPark, WorkerWait, WorkerQuit,
     WorkerPop
<1>6. ASSUME NEW t \in Workers, WorkerExec(t)
      PROVE  NoSleeperAfterWakeup'
  BY <1>0, <1>6 DEF WorkerExec
<1>7. ASSUME NEW t \in Workers, CompleteWork(t)
      PROVE  NoSleeperAfterWakeup'
  BY <1>0, <1>7 DEF CompleteWork, WorkerComplete, WorkerDec, WorkerLoad,
     WorkerNotify
<1>8. ASSUME NEW t \in Workers, SpuriousWakeup(t)
      PROVE  NoSleeperAfterWakeup'
  BY <1>0, <1>8 DEF SpuriousWakeup
<1>9. ASSUME Sigint
      PROVE  NoSleeperAfterWakeup'
  BY <1>0, <1>9 DEF Sigint, StartPush
<1>10. ASSUME Shutdown
      PROVE  NoSleeperAfterWakeup'
  BY <1>0, <1>10 DEF Shutdown, DrainPoll, StopRun, WakeupAll, JoinWorkers,
     DestroyList, ReleaseQueue
<1>11. ASSUME UNCHANGED vars
      PROVE  NoSleeperAfterWakeup'
  BY <1>0, <1>11 DEF vars
<1> QED BY <1>1, <1>2, <1>3, <1>4, <1>5, <1>6, <1>7, <1>8, <1>9, <1>10, <1>11
        DEF Next, Worker, Terminated

\* A worker leaves its loop only when it finds run cleared.
LEMMA WorkersStayStep ==
  ASSUME WorkersStay, PcType, LifeInv, [Next]_vars
  PROVE  WorkersStay'
<1> USE WorkAssumption, ThreadAssumption DEF WorkersStay, PcType, LifeInv,
        Goto, Stopped, PushLabels
<1>0. Workers \subseteq Threads /\ Main \in Threads
  BY DEF Threads
<1>1. ASSUME NEW t \in Threads, ClientPush(t)
      PROVE  WorkersStay'
  BY <1>0, <1>1 DEF ClientPush, StartPush
<1>2. ASSUME NEW t \in Workers, ReportPush(t)
      PROVE  WorkersStay'
  BY <1>0, <1>2 DEF ReportPush, StartPush
<1>3. ASSUME NEW t \in Threads, Push(t)
      PROVE  WorkersStay'
  BY <1>0, <1>3 DEF Push, PushLink, PushCount, PushSignal, PushCrash, Resume
<1>4. ASSUME NEW t \in Workers, WorkerLoop(t)
      PROVE  WorkersStay'
  BY <1>0, <1>4 DEF WorkerLoop
<1>5. ASSUME NEW t \in Workers, PopWork(t)
      PROVE  WorkersStay'
  BY <1>0, <1>5 DEF PopWork, WorkerLock, WorkerPark, WorkerWait, WorkerQuit,
     WorkerPop
<1>6. ASSUME NEW t \in Workers, WorkerExec(t)
      PROVE  WorkersStay'
  BY <1>0, <1>6 DEF WorkerExec
<1>7. ASSUME NEW t \in Workers, CompleteWork(t)
      PROVE  WorkersStay'
  BY <1>0, <1>7 DEF CompleteWork, WorkerComplete, WorkerDec, WorkerLoad,
     WorkerNotify
<1>8. ASSUME NEW t \in Workers, SpuriousWakeup(t)
      PROVE  WorkersStay'
  BY <1>0, <1>8 DEF SpuriousWakeup
<1>9. ASSUME Sigint
      PROVE  WorkersStay'
  BY <1>0, <1>9 DEF Sigint, StartPush
<1>10. ASSUME Shutdown
      PROVE  WorkersStay'
  BY <1>0, <1>10 DEF Shutdown, DrainPoll, StopRun, WakeupAll, JoinWorkers,
     DestroyList, ReleaseQueue
<1>11. ASSUME UNCHANGED vars
      PROVE  WorkersStay'
  BY <1>0, <1>11 DEF vars
<1> QED BY <1>1, <1>2, <1>3, <1>4, <1>5, <1>6, <1>7, <1>8, <1>9, <1>10, <1>11
        DEF Next, Worker, Terminated

\* The joins precede the frees, and a thread that has exited takes no step.
LEMMA WorkersGoneBeforeFreeStep ==
  ASSUME WorkersGoneBeforeFree, PcType, LifeInv, ItemInv, [Next]_vars
  PROVE  WorkersGoneBeforeFree'
<1> USE WorkAssumption, ThreadAssumption DEF WorkersGoneBeforeFree, PcType,
        LifeInv, ItemInv, Goto, Stopped, PushLabels
<1>0. Workers \subseteq Threads /\ Main \in Threads
  BY DEF Threads
<1>1. ASSUME NEW t \in Threads, ClientPush(t)
      PROVE  WorkersGoneBeforeFree'
  BY <1>0, <1>1 DEF ClientPush, StartPush
<1>2. ASSUME NEW t \in Workers, ReportPush(t)
      PROVE  WorkersGoneBeforeFree'
  BY <1>0, <1>2 DEF ReportPush, StartPush
<1>3. ASSUME NEW t \in Threads, Push(t)
      PROVE  WorkersGoneBeforeFree'
  BY <1>0, <1>3 DEF Push, PushLink, PushCount, PushSignal, PushCrash, Resume
<1>4. ASSUME NEW t \in Workers, WorkerLoop(t)
      PROVE  WorkersGoneBeforeFree'
  BY <1>0, <1>4 DEF WorkerLoop
<1>5. ASSUME NEW t \in Workers, PopWork(t)
      PROVE  WorkersGoneBeforeFree'
  BY <1>0, <1>5 DEF PopWork, WorkerLock, WorkerPark, WorkerWait, WorkerQuit,
     WorkerPop
<1>6. ASSUME NEW t \in Workers, WorkerExec(t)
      PROVE  WorkersGoneBeforeFree'
  BY <1>0, <1>6 DEF WorkerExec
<1>7. ASSUME NEW t \in Workers, CompleteWork(t)
      PROVE  WorkersGoneBeforeFree'
  BY <1>0, <1>7 DEF CompleteWork, WorkerComplete, WorkerDec, WorkerLoad,
     WorkerNotify
<1>8. ASSUME NEW t \in Workers, SpuriousWakeup(t)
      PROVE  WorkersGoneBeforeFree'
  BY <1>0, <1>8 DEF SpuriousWakeup
<1>9. ASSUME Sigint
      PROVE  WorkersGoneBeforeFree'
  BY <1>0, <1>9 DEF Sigint, StartPush
<1>10. ASSUME Shutdown
      PROVE  WorkersGoneBeforeFree'
  BY <1>0, <1>10 DEF Shutdown, DrainPoll, StopRun, WakeupAll, JoinWorkers,
     DestroyList, ReleaseQueue
<1>11. ASSUME UNCHANGED vars
      PROVE  WorkersGoneBeforeFree'
  BY <1>0, <1>11 DEF vars
<1> QED BY <1>1, <1>2, <1>3, <1>4, <1>5, <1>6, <1>7, <1>8, <1>9, <1>10, <1>11
        DEF Next, Worker, Terminated

-----------------------------------------------------------------------------
(***************************************************************************)
(* The counter.                                                            *)
(***************************************************************************)

\* The set of the workers with a work in hand is finite.
LEMMA BusyFinite ==
  ASSUME DataType
  PROVE  IsFiniteSet(Busy) /\ Cardinality(Busy) \in Nat
BY WorkAssumption, FS_Subset, FS_CardinalityType DEF Busy

\* At most one push is between its link and its count: it holds the mutex.
LEMMA UncountedHolder ==
  ASSUME MutexInv, pc[Main] # "down", NEW t \in Threads, owner = t
  PROVE  Uncounted = IF pc[t] = "count" THEN {t} ELSE {}
BY DEF MutexInv, Uncounted, Critical

\* No push is between its link and its count while the mutex is free.
LEMMA UncountedNone ==
  ASSUME MutexInv, pc[Main] # "down", owner = NoThread
  PROVE  Uncounted = {}
BY ThreadAssumption DEF MutexInv, Uncounted, Critical

\* The number of pushes between link and count is 0 or 1.
LEMMA UncountedNat ==
  ASSUME DataType, MutexInv, pc[Main] # "down"
  PROVE  Cardinality(Uncounted) \in Nat
<1>1. CASE owner = NoThread
  BY <1>1, UncountedNone, FS_EmptySet
<1>2. CASE owner \in Threads
  <2>1. Uncounted = {owner} \/ Uncounted = {}
    BY <1>2, UncountedHolder
  <2> QED BY <2>1, FS_EmptySet, FS_Singleton
<1> QED BY <1>1, <1>2 DEF DataType

\* A step that changes neither the counter, the list, Busy nor Uncounted
\* keeps the counter exact.
LEMMA CountFrame ==
  ASSUME CountExact, Busy' = Busy, Uncounted' = Uncounted,
         UNCHANGED <<list, active_cnt>>,
         pc'[Main] \notin {"release", "down"} => pc[Main] \notin {"release", "down"}
  PROVE  CountExact'
BY DEF CountExact

\* Every link is matched by one increment and every pop by one decrement.
LEMMA CountExactStep ==
  ASSUME CountExact, DataType, PcType, MutexInv, LifeInv, ItemInv, ArgInv,
         WorkersGoneBeforeFree, [Next]_vars
  PROVE  CountExact'
<1> USE WorkAssumption, ThreadAssumption DEF PcType, Goto
<1>0. Workers \subseteq Threads /\ Main \in Threads
  BY DEF Threads
<1>1. ASSUME NEW t \in Threads, ClientPush(t)
      PROVE  CountExact'
  <2>1. Uncounted' = Uncounted /\ Busy' = Busy
    BY <1>1 DEF ClientPush, StartPush, Uncounted, Busy
  <2> QED BY <1>0, <1>1, <2>1, CountFrame DEF ClientPush, StartPush
<1>2. ASSUME NEW t \in Workers, ReportPush(t)
      PROVE  CountExact'
  <2>1. Uncounted' = Uncounted /\ Busy' = Busy
    BY <1>0, <1>2 DEF ReportPush, StartPush, Uncounted, Busy
  <2> QED BY <1>0, <1>2, <2>1, CountFrame DEF ReportPush, StartPush
<1>3. ASSUME NEW t \in Threads, Push(t)
      PROVE  CountExact'
  <2>0. pc[Main] # "down" \/ PushCrash(t)
    BY <1>3 DEF Push, PushLink, PushCount, PushSignal, LifeInv
  <2>1. CASE PushLink(t)
    <3>1. Uncounted = {} /\ Uncounted' = {t}
      BY <2>1, UncountedNone, LifeInv DEF PushLink, LifeInv, Uncounted
    <3>2. Len(list') = Len(list) + 1 /\ Busy' = Busy
      BY <2>1 DEF PushLink, Busy, DataType, ArgInv, PushLabels
    <3>3. Cardinality(Uncounted) = 0 /\ Cardinality(Uncounted') = 1
      BY <3>1, FS_EmptySet, FS_Singleton
    <3>4. pc'[Main] \notin {"release", "down"} => pc[Main] \notin {"release", "down"}
      BY <1>0, <2>1 DEF PushLink
    <3> QED
      BY <2>1, <3>2, <3>3, <3>4, BusyFinite DEF PushLink, CountExact, DataType
  <2>2. CASE PushCount(t)
    <3>1. Uncounted = {t} /\ Uncounted' = {}
      BY <2>0, <2>2, UncountedHolder DEF PushCount, PushCrash, Uncounted, LifeInv, MutexInv, Critical
    <3>2. Cardinality(Uncounted) = 1 /\ Cardinality(Uncounted') = 0
      BY <3>1, FS_EmptySet, FS_Singleton
    <3>3. pc'[Main] \notin {"release", "down"} => pc[Main] \notin {"release", "down"}
      BY <1>0, <2>2 DEF PushCount
    <3> QED
      BY <2>2, <3>2, <3>3, BusyFinite DEF PushCount, CountExact, DataType, Busy
  <2>3. CASE PushSignal(t)
    <3>1. Uncounted' = Uncounted /\ Busy' = Busy
      BY <2>3 DEF PushSignal, Resume, Uncounted, Busy
    <3> QED BY <1>0, <2>3, <3>1, CountFrame DEF PushSignal
  <2>4. CASE PushCrash(t)
    BY <1>0, <2>4 DEF PushCrash, CountExact, LifeInv, PushLabels
  <2> QED BY <1>3, <2>1, <2>2, <2>3, <2>4 DEF Push
<1>4. ASSUME NEW t \in Workers, WorkerLoop(t) \/ WorkerExec(t)
      PROVE  CountExact'
  <2>1. Uncounted' = Uncounted /\ Busy' = Busy
    BY <1>0, <1>4 DEF WorkerLoop, WorkerExec, Uncounted, Busy
  <2> QED BY <1>0, <1>4, <2>1, CountFrame DEF WorkerLoop, WorkerExec
<1>5. ASSUME NEW t \in Workers, PopWork(t)
      PROVE  CountExact'
  <2>1. Uncounted' = Uncounted /\ t # Main
    BY <1>0, <1>5 DEF PopWork, WorkerLock, WorkerPark, WorkerWait, WorkerQuit,
                      WorkerPop, Uncounted
  <2>2. CASE WorkerPop(t)
    <3>1. Len(list') = Len(list) - 1
      BY <2>2 DEF WorkerPop, DataType
    <3>2. item[t] = NoWork /\ Head(list) # NoWork
      <4>1. item[t] = NoWork
        BY <2>2 DEF WorkerPop, ItemInv, PushLabels
      <4>2. list \in Seq(Works) /\ list # <<>>
        BY <2>2 DEF WorkerPop, DataType
      <4>3. Head(list) \in Works
        BY <4>2
      <4>4. NoWork \notin Works
        BY DEF WorkAssumption
      <4> QED BY <4>1, <4>3, <4>4
    <3>3. Busy' = Busy \cup {t} /\ t \notin Busy
      BY <2>2, <3>2 DEF WorkerPop, Busy, DataType
    <3>4. Cardinality(Busy') = Cardinality(Busy) + 1
      BY <3>3, BusyFinite, FS_AddElement
    <3>5. pc'[Main] = pc[Main] /\ active_cnt' = active_cnt
      BY <1>0, <2>1, <2>2 DEF WorkerPop
    <3> QED
      BY <2>1, <3>1, <3>4, <3>5, BusyFinite, UncountedNat DEF CountExact, DataType
  <2>3. CASE WorkerLock(t) \/ WorkerPark(t) \/ WorkerWait(t) \/ WorkerQuit(t)
    BY <1>0, <2>1, <2>3, CountFrame
       DEF WorkerLock, WorkerPark, WorkerWait, WorkerQuit, Busy
  <2> QED BY <1>5, <2>2, <2>3 DEF PopWork
<1>6. ASSUME NEW t \in Workers, CompleteWork(t)
      PROVE  CountExact'
  <2>1. Uncounted' = Uncounted /\ t # Main
    BY <1>0, <1>6 DEF CompleteWork, WorkerComplete, WorkerDec, WorkerLoad,
                      WorkerNotify, Uncounted
  <2>2. CASE WorkerDec(t)
    <3>1. item[t] # NoWork
      BY <2>2 DEF WorkerDec, ItemInv
    <3>2. Busy' = Busy \ {t} /\ t \in Busy
      BY <2>2, <3>1 DEF WorkerDec, Busy, DataType
    <3>3. Cardinality(Busy') = Cardinality(Busy) - 1
      BY <3>2, BusyFinite, FS_RemoveElement
    <3>4. /\ pc'[Main] = pc[Main] /\ active_cnt' = active_cnt - 1
          /\ list' = list
      BY <1>0, <2>1, <2>2 DEF WorkerDec
    <3> QED
      BY <2>1, <3>3, <3>4, BusyFinite, UncountedNat DEF CountExact, DataType
  <2>3. CASE WorkerComplete(t) \/ WorkerLoad(t) \/ WorkerNotify(t)
    BY <1>0, <2>1, <2>3, CountFrame
       DEF WorkerComplete, WorkerLoad, WorkerNotify, Busy
  <2> QED BY <1>6, <2>2, <2>3 DEF CompleteWork
<1>7. ASSUME NEW t \in Workers, SpuriousWakeup(t)
      PROVE  CountExact'
  BY <1>7, CountFrame DEF SpuriousWakeup, Uncounted, Busy
<1>8. ASSUME Sigint
      PROVE  CountExact'
  <2>1. Uncounted' = Uncounted /\ Busy' = Busy
    BY <1>0, <1>8 DEF Sigint, StartPush, Uncounted, Busy
  <2> QED BY <1>0, <1>8, <2>1, CountFrame DEF Sigint, StartPush
<1>9. ASSUME Shutdown
      PROVE  CountExact'
  <2>1. Uncounted' = Uncounted /\ Busy' = Busy
    BY <1>0, <1>9 DEF Shutdown, DrainPoll, StopRun, WakeupAll, JoinWorkers,
                      DestroyList, ReleaseQueue, Uncounted, Busy
  <2>2. CASE DestroyList \/ ReleaseQueue
    BY <1>0, <2>2 DEF DestroyList, ReleaseQueue, CountExact
  <2>3. CASE DrainPoll \/ StopRun \/ WakeupAll \/ JoinWorkers
    BY <1>0, <2>1, <2>3, CountFrame
       DEF DrainPoll, StopRun, WakeupAll, JoinWorkers
  <2> QED BY <1>9, <2>2, <2>3 DEF Shutdown
<1>10. ASSUME UNCHANGED vars
       PROVE  CountExact'
  BY <1>10, CountFrame DEF vars, Uncounted, Busy
<1> QED BY <1>1, <1>2, <1>3, <1>4, <1>5, <1>6, <1>7, <1>8, <1>9, <1>10
        DEF Next, Worker, Terminated

-----------------------------------------------------------------------------
(***************************************************************************)
(* The theorems.                                                           *)
(***************************************************************************)

\* The state that workqueue_init leaves satisfies the inductive invariant.
LEMMA InitIInv == Init => IInv
<1> SUFFICES ASSUME Init PROVE IInv
  OBVIOUS
<1> USE WorkAssumption, ThreadAssumption DEF Init
<1>0. Workers \subseteq Threads /\ Main \in Threads
  BY DEF Threads
<1>1. DataType
  BY DEF DataType, Fates
<1>2. PcType
  BY DEF PcType, Threads, WorkerLabels, MainLabels, ClientLabels
<1>3. LifeInv
  BY <1>0 DEF LifeInv, Stopped
<1>4. MutexInv /\ WaitInv /\ ParkInv
  BY <1>0 DEF MutexInv, WaitInv, ParkInv, Critical
<1>5. ArgInv
  BY DEF ArgInv, PushLabels, Works
<1>6. ItemInv
  BY <1>0 DEF ItemInv, PushLabels
<1>7. SingleOwner
  BY DEF SingleOwner
<1>8. NoLostSignal /\ NoSleeperAfterWakeup
  BY <1>0 DEF NoLostSignal, NoSleeperAfterWakeup
<1>9. WorkersStay /\ WorkersGoneBeforeFree
  BY <1>0 DEF WorkersStay, WorkersGoneBeforeFree
<1>10. CountExact
  <2>1. Busy = {} /\ Uncounted = {}
    BY <1>0 DEF Busy, Uncounted
  <2> QED BY <2>1, FS_EmptySet DEF CountExact
<1> QED
  BY <1>1, <1>2, <1>3, <1>4, <1>5, <1>6, <1>7, <1>8, <1>9, <1>10, TypeSplit
     DEF IInv

\* The inductive invariant is preserved by every step of every thread.
LEMMA IInvStep == IInv /\ [Next]_vars => IInv'
<1> SUFFICES ASSUME IInv, [Next]_vars PROVE IInv'
  OBVIOUS
<1>1. DataType /\ PcType
  BY TypeSplit DEF IInv
<1>2. DataType' /\ PcType'
  BY <1>1, DataTypeStep, PcTypeStep DEF IInv
<1>3. TypeOK'
  BY <1>2, TypeSplit DEF TypeOK, DataType, PcType
<1>4. LifeInv' /\ MutexInv' /\ WaitInv' /\ ParkInv'
  BY <1>1, LifeInvStep, MutexInvStep, WaitInvStep, ParkInvStep DEF IInv
<1>5. ArgInv' /\ ItemInv' /\ SingleOwner'
  BY <1>1, ArgInvStep, ItemInvStep, SingleOwnerStep DEF IInv
<1>6. NoLostSignal' /\ NoSleeperAfterWakeup' /\ WorkersStay'
  BY <1>1, NoLostSignalStep, NoSleeperAfterWakeupStep, WorkersStayStep DEF IInv
<1>7. WorkersGoneBeforeFree' /\ CountExact'
  BY <1>1, WorkersGoneBeforeFreeStep, CountExactStep DEF IInv
<1> QED BY <1>3, <1>4, <1>5, <1>6, <1>7 DEF IInv

\* The inductive invariant holds in every reachable state.
LEMMA Invariance == Spec => []IInv
BY InitIInv, IInvStep, PTL DEF Spec

(* The variables keep their types. *)
THEOREM TypeCorrect == Spec => []TypeOK
<1>1. IInv => TypeOK
  BY DEF IInv
<1> QED BY <1>1, Invariance, PTL

(* active_cnt is exact up to a push in progress (push_work,                *)
(* pop_work_wait_safe, workqueue_complete_work).                           *)
THEOREM CounterIsExact == Spec => []CountExact
<1>1. IInv => CountExact
  BY DEF IInv
<1> QED BY <1>1, Invariance, PTL

(* Every work has one owner: the list, or the worker that popped it.       *)
THEOREM WorksHaveOneOwner == Spec => []SingleOwner
<1>1. IInv => SingleOwner
  BY DEF IInv
<1> QED BY <1>1, Invariance, PTL

(* push_work's signal is never lost: workers do not all sleep over a work. *)
THEOREM SignalsAreNotLost == Spec => []NoLostSignal
<1>1. IInv => NoLostSignal
  BY DEF IInv
<1> QED BY <1>1, Invariance, PTL

(* No worker misses the wakeup of workqueue_deinit.                        *)
THEOREM WakeupIsNotMissed == Spec => []NoSleeperAfterWakeup
<1>1. IInv => NoSleeperAfterWakeup
  BY DEF IInv
<1> QED BY <1>1, Invariance, PTL

(* The workers outlive every wakeup that comes before the shutdown.        *)
THEOREM WorkersDoNotLeave == Spec => []WorkersStay
<1>1. IInv => WorkersStay
  BY DEF IInv
<1> QED BY <1>1, Invariance, PTL

(* workqueue_destroy frees a queue that no worker uses.                    *)
THEOREM FreeIsSafeForWorkers == Spec => []WorkersGoneBeforeFree
<1>1. IInv => WorkersGoneBeforeFree
  BY DEF IInv
<1> QED BY <1>1, Invariance, PTL


-----------------------------------------------------------------------------
(***************************************************************************)
(* The poll of the counter.                                                *)
(***************************************************************************)

\* A zero count leaves at most one accepted work, and its push not counted.
LEMMA ZeroCount ==
  ASSUME IInv, pc[Main] = "drain", active_cnt = 0, NEW x \in Works,
         fate[x] \in {"queued", "taken"}
  PROVE  \E t \in Threads : pc[t] = "count" /\ arg[t] = x
<1>0. DataType /\ PcType /\ MutexInv /\ CountExact /\ SingleOwner /\ ArgInv
  BY TypeSplit DEF IInv
<1>1. /\ Len(list) + Cardinality(Busy) = Cardinality(Uncounted)
      /\ Len(list) \in Nat /\ Cardinality(Busy) \in Nat
  BY <1>0, BusyFinite, UncountedNat DEF CountExact, DataType
<1>2. Uncounted = {} \/ \E t \in Threads : Uncounted = {t}
  BY <1>0, UncountedHolder, UncountedNone DEF DataType
<1>3. CASE Uncounted = {}
  <2>1. Len(list) = 0 /\ Cardinality(Busy) = 0
    BY <1>1, <1>3, FS_EmptySet
  <2>2. list = <<>> /\ Busy = {}
    BY <1>0, <2>1, BusyFinite, FS_EmptySet DEF DataType
  <2> QED BY <1>0, <2>2, WorkAssumption DEF SingleOwner, Busy
<1>4. ASSUME NEW t \in Threads, Uncounted = {t}
      PROVE  pc[t] = "count" /\ arg[t] = x
  <2>1. pc[t] = "count" /\ list # <<>> /\ list[Len(list)] = arg[t]
    BY <1>0, <1>4 DEF Uncounted, ArgInv
  <2>2. Len(list) = 1 /\ Cardinality(Busy) = 0
    <3>1. Cardinality(Uncounted) = 1
      BY <1>4, FS_Singleton
    <3>2. Len(list) # 0
      BY <1>0, <2>1 DEF DataType
    <3>3. Len(list) + Cardinality(Busy) = 1
      BY <1>1, <3>1
    <3>4. ASSUME NEW l \in Nat, NEW b \in Nat, l # 0, l + b = 1
          PROVE  l = 1 /\ b = 0
      BY <3>4
    <3> QED BY <1>1, <3>2, <3>3, <3>4
  <2>3. Busy = {}
    BY <1>0, <2>2, BusyFinite, FS_EmptySet
  <2>4. fate[x] = "queued"
    BY <1>0, <2>3, WorkAssumption DEF SingleOwner, Busy
  <2> QED BY <1>0, <2>1, <2>2, <2>4 DEF SingleOwner, DataType
<1> QED BY <1>2, <1>3, <1>4

(* When the shutdown flow's poll passes, every work accepted before it has *)
(* been completed, but for one whose push is still uncounted.              *)
THEOREM DrainIsSound == Spec => DrainSound
<1>1. IInv /\ [Next]_vars =>
        (pc[Main] = "drain" /\ pc'[Main] = "stop" =>
           \A x \in Works : fate[x] \in {"queued", "taken"} =>
             \E t \in Threads : pc[t] = "count" /\ arg[t] = x)
  <2> SUFFICES ASSUME IInv, [Next]_vars, pc[Main] = "drain", pc'[Main] = "stop",
                      NEW x \in Works, fate[x] \in {"queued", "taken"}
               PROVE  \E t \in Threads : pc[t] = "count" /\ arg[t] = x
    OBVIOUS
  <2>1. active_cnt = 0
    <3> USE ThreadAssumption DEF Goto, Threads
    <3>0. PcType
      BY TypeSplit DEF IInv
    <3>1. \A t \in Threads : t = Main => ~(ClientPush(t) \/ Push(t))
      BY DEF ClientPush, Push, PushLink, PushCount, PushSignal, PushCrash,
             PushLabels
    <3>2. ASSUME NEW t \in Threads, t # Main
          PROVE  ~(ClientPush(t) \/ Push(t))
      BY <3>0, <3>2 DEF PcType, ClientPush, StartPush, Push, PushLink, PushCount,
             PushSignal, PushCrash
    <3>3. ASSUME NEW t \in Workers
          PROVE  ~(ReportPush(t) \/ Worker(t) \/ SpuriousWakeup(t))
      BY <3>0 DEF PcType, ReportPush, StartPush, SpuriousWakeup, Worker, WorkerLoop,
             PopWork, WorkerLock, WorkerPark, WorkerWait, WorkerQuit, WorkerPop,
             WorkerExec, CompleteWork, WorkerComplete, WorkerDec, WorkerLoad,
             WorkerNotify
    <3>4. ~Sigint /\ ~UNCHANGED vars
      BY DEF Sigint, vars
    <3>5. Shutdown => active_cnt = 0
      BY DEF Shutdown, DrainPoll, StopRun, WakeupAll, JoinWorkers, DestroyList,
             ReleaseQueue
    <3> QED BY <3>1, <3>2, <3>3, <3>4, <3>5 DEF Next, Terminated
  <2> QED BY <2>1, ZeroCount
<1> QED BY <1>1, Invariance, PTL DEF Spec, DrainSound

-----------------------------------------------------------------------------
(***************************************************************************)
(* The refinement: every step of the queue is a step of the pool, or none. *)
(***************************************************************************)

\* The works the pool calls running are those in the hands of a worker.
Held == {x \in Works : HeldBy(x) # {}}

\* The list ends with the work a push has linked and not counted; that push
\* is the only one of its kind.
Tailed(t) ==
  /\ Uncounted = {t} /\ arg[t] \in Works
  /\ list # <<>> /\ list[Len(list)] = arg[t]

\* What the refinement rests on, of the invariant above.
LEMMA Parts ==
  ASSUME IInv
  PROVE  /\ DataType /\ PcType /\ MutexInv /\ LifeInv /\ ArgInv /\ ItemInv
         /\ SingleOwner /\ WorkersGoneBeforeFree
BY TypeSplit DEF IInv

\* There is at most one such push, also when the queue is gone.
LEMMA OneUncounted ==
  ASSUME IInv
  PROVE  Uncounted = {} \/ \E t \in Threads : Tailed(t)
<1>0. DataType /\ ArgInv
  BY Parts
<1>1. ASSUME NEW s \in Uncounted, NEW t \in Uncounted
      PROVE  s = t
  <2>1. /\ arg[s] = arg[t] /\ arg[s] # NoWork
        /\ s \in Threads /\ t \in Threads
    BY <1>0 DEF ArgInv, Uncounted, PushLabels
  <2> QED BY <1>0, <2>1 DEF ArgInv
<1>2. ASSUME NEW t \in Uncounted
      PROVE  t \in Threads /\ Tailed(t)
  <2>1. Uncounted = {t}
    BY <1>1
  <2> QED BY <1>0, <2>1 DEF Tailed, Uncounted, ArgInv, DataType, PushLabels
<1> QED BY <1>2

\* What the pool sees when no push is uncounted, and when one is.
LEMMA OrderAll ==
  ASSUME DataType, Uncounted = {}
  PROVE  poolOrder = list /\ \A x : ~Counting(x)
BY FS_EmptySet DEF poolOrder, Counting, DataType

LEMMA OrderButLast ==
  ASSUME DataType, NEW t \in Threads, Tailed(t)
  PROVE  /\ poolOrder = SubSeq(list, 1, Len(list) - 1)
         /\ list = Append(poolOrder, arg[t])
         /\ \A x : Counting(x) <=> x = arg[t]
<1>1. Cardinality(Uncounted) = 1
  BY FS_Singleton DEF Tailed
<1>2. poolOrder = SubSeq(list, 1, Len(list) - 1)
  BY <1>1 DEF poolOrder
<1>3. \A x : Counting(x) <=> x = arg[t]
  BY DEF Counting, Tailed
<1>4. list = Append(SubSeq(list, 1, Len(list) - 1), list[Len(list)])
  BY DEF DataType, Tailed
<1> QED BY <1>2, <1>3, <1>4 DEF Tailed

\* A held work is neither new nor linked, and no work is held twice.
LEMMA HeldFate ==
  ASSUME IInv, NEW t \in Workers, item[t] # NoWork
  PROVE  /\ item[t] \in Works /\ HeldBy(item[t]) = {t}
         /\ fate[item[t]] \in {"taken", "done", "rejected"}
         /\ ~Counting(item[t])
         /\ poolStatus[item[t]] = "running"
<1>0. DataType /\ SingleOwner /\ ArgInv
  BY Parts
<1>1. item[t] \in Works /\ HeldBy(item[t]) = {t}
  BY <1>0 DEF HeldBy, DataType, SingleOwner
<1>2. fate[item[t]] \in {"taken", "done", "rejected"}
  BY <1>0 DEF SingleOwner
<1>3. ~Counting(item[t])
  <2> SUFFICES ASSUME Counting(item[t]) PROVE FALSE
    OBVIOUS
  <2>1. PICK s \in Threads : Tailed(s)
    BY OneUncounted DEF Counting
  <2>2. arg[s] = item[t]
    BY <2>1, <1>0, OrderButLast
  <2>3. Len(list) \in DOMAIN list
    BY <1>0, <2>1 DEF DataType, Tailed
  <2>4. fate[item[t]] = "queued"
    BY <1>0, <1>1, <2>1, <2>2, <2>3 DEF SingleOwner, Tailed
  <2> QED BY <1>2, <2>4
<1> QED BY <1>1, <1>2, <1>3 DEF poolStatus

\* A linked work is queued for the pool unless its push has yet to count it.
LEMMA LinkedStatus ==
  ASSUME IInv, NEW x \in Works, fate[x] = "queued"
  PROVE  HeldBy(x) = {} /\ poolStatus[x] = IF Counting(x) THEN "new" ELSE "queued"
<1>1. HeldBy(x) = {}
  BY HeldFate, WorkAssumption DEF HeldBy
<1> QED BY <1>1 DEF poolStatus

\* The pool's running works are those held.
LEMMA RunningHeld ==
  ASSUME IInv
  PROVE  /\ Pool!With("running") = Held
         /\ IsFiniteSet(Held) /\ Cardinality(Held) <= Cardinality(Busy)
         /\ IsFiniteSet(Busy) /\ Cardinality(Busy) \in Nat /\ Cardinality(Held) \in Nat
<1>0. DataType
  BY Parts
<1>1. Pool!With("running") = Held
  <2>1. ASSUME NEW x \in Works, HeldBy(x) # {} PROVE poolStatus[x] = "running"
    BY <2>1, HeldFate, WorkAssumption DEF HeldBy
  <2>2. ASSUME NEW x \in Works, HeldBy(x) = {} PROVE poolStatus[x] # "running"
    BY <2>2 DEF poolStatus
  <2> QED BY <2>1, <2>2 DEF Pool!With, Held
<1>2. IsFiniteSet(Busy) /\ Cardinality(Busy) \in Nat
  BY <1>0, BusyFinite
<1>3. IsFiniteSet(Held) /\ Cardinality(Held) <= Cardinality(Busy)
  <2> DEFINE f == [x \in Held |-> CHOOSE t \in Workers : item[t] = x]
  <2>1. \A x \in Held : f[x] \in Workers /\ item[f[x]] = x
    BY DEF Held, HeldBy
  <2>2. f \in Injection(Held, Busy)
    <3>1. f = [x \in Held |-> f[x]]
      OBVIOUS
    <3> HIDE DEF f
    <3>2. \A x \in Held : f[x] \in Busy
      BY <2>1, WorkAssumption DEF Busy, Held
    <3>3. \A x, y \in Held : f[x] = f[y] => x = y
      BY <2>1
    <3>4. f \in [Held -> Busy]
      BY <3>1, <3>2
    <3> QED BY <3>3, <3>4 DEF Injection, IsInjective
  <2> QED BY <1>2, <2>2, FS_Injection
<1> QED BY <1>1, <1>2, <1>3, FS_CardinalityType

-----------------------------------------------------------------------------
\* A step that moves no work the pool can see: a fate may change before the
\* work is accepted, or while a worker holds it.
LEMMA SameWorks ==
  ASSUME IInv, UNCHANGED <<list, item>>, Uncounted' = Uncounted,
         \A t \in Uncounted : arg'[t] = arg[t],
         \A x \in Works : \/ fate'[x] = fate[x]
                          \/ fate[x] = "new" /\ fate'[x] = "created"
                          \/ HeldBy(x) # {} /\ fate'[x] \in {"done", "rejected"}
  PROVE  UNCHANGED <<poolOrder, poolStatus>>
<1>1. poolOrder' = poolOrder
  BY DEF poolOrder
<1>2. \A x : HeldBy(x)' = HeldBy(x) /\ (Counting(x)' <=> Counting(x))
  BY DEF HeldBy, Counting
<1>3. ASSUME NEW x \in Works, HeldBy(x) # {}
      PROVE  fate[x] \in {"taken", "done", "rejected"} /\ ~Counting(x)
  BY <1>3, HeldFate, WorkAssumption DEF HeldBy
<1>4. ASSUME NEW x \in Works
      PROVE  poolStatus'[x] = poolStatus[x]
  BY <1>2, <1>3 DEF poolStatus
<1>5. poolStatus' = poolStatus
  BY <1>4 DEF poolStatus
<1> QED BY <1>1, <1>5

\* The pool's phase moves only with the main thread.
Open == {"idle", "drain", "crashed"} \cup PushLabels

LEMMA SamePhase ==
  ASSUME IInv, NEW t \in Threads, NEW l, Goto(t, l),
         t = Main => pc[Main] \in Open /\ l \in Open
  PROVE  poolPhase' = poolPhase
<1>1. pc'[Main] = pc[Main] \/ (pc[Main] \in Open /\ pc'[Main] \in Open)
  BY Parts DEF PcType, Goto
<1> QED BY <1>1 DEF poolPhase, Open, PushLabels

\* A move of one thread that neither comes from nor goes to "count".
LEMMA SameUncounted ==
  ASSUME IInv, NEW t \in Threads, NEW l, Goto(t, l),
         pc[t] # "count", l # "count"
  PROVE  Uncounted' = Uncounted
BY Parts DEF PcType, Goto, Uncounted

-----------------------------------------------------------------------------
\* A push: begun and linked unseen, accepted when it is counted.
LEMMA StartPushMaps ==
  ASSUME IInv, NEW t \in Threads, NEW x \in Works, StartPush(t, x),
         pc[t] \in {"idle", "exec"}
  PROVE  UNCHANGED Pool!poolVars
<1>1. PICK l \in {"push", "crashed"} : Goto(t, l)
  BY DEF StartPush
<1>2. Uncounted' = Uncounted
  BY <1>1, SameUncounted
<1>3. \A s \in Uncounted : s # t /\ arg'[s] = arg[s]
  BY Parts DEF Uncounted, StartPush, DataType
<1>4. \A y \in Works : \/ fate'[y] = fate[y]
                       \/ fate[y] = "new" /\ fate'[y] = "created"
  BY Parts DEF StartPush, DataType
<1>5. UNCHANGED <<list, item>>
  BY DEF StartPush
<1>6. UNCHANGED <<poolOrder, poolStatus>>
  BY <1>2, <1>3, <1>4, <1>5, SameWorks
<1>7. poolPhase' = poolPhase
  <2>1. t = Main => pc[Main] \in Open /\ l \in Open
    BY Parts DEF PcType, MainLabels, Open, PushLabels
  <2> QED BY <1>1, <2>1, SamePhase
<1> QED BY <1>6, <1>7 DEF Pool!poolVars

LEMMA PushLinkMaps ==
  ASSUME IInv, NEW t \in Threads, PushLink(t)
  PROVE  UNCHANGED Pool!poolVars
<1>0. DataType /\ PcType /\ ArgInv /\ SingleOwner
  BY Parts
<1>1. /\ list' = Append(list, arg[t]) /\ pc' = [pc EXCEPT ![t] = "count"]
      /\ fate' = [fate EXCEPT ![arg[t]] = "queued"]
      /\ UNCHANGED <<item, arg>> /\ pc[t] = "push"
  BY DEF PushLink, Goto
<1>2. arg[t] \in Works /\ fate[arg[t]] = "created"
  BY <1>0, <1>1 DEF ArgInv, DataType, PushLabels
<1>3. Uncounted = {}
  BY Parts, UncountedNone DEF PushLink, LifeInv
<1>4. Uncounted' = {t}
  BY <1>0, <1>1, <1>3 DEF Uncounted, PcType
<1>5. poolOrder' = poolOrder
  <2>1. Cardinality(Uncounted') = 1 /\ Cardinality(Uncounted) = 0
    BY <1>3, <1>4, FS_Singleton, FS_EmptySet
  <2>2. poolOrder = list
    BY <1>0, <1>3, OrderAll
  <2>3. SubSeq(list', 1, Len(list') - 1) = list
    BY <1>0, <1>1, <1>2 DEF DataType
  <2> QED BY <2>1, <2>2, <2>3 DEF poolOrder
<1>6. poolStatus' = poolStatus
  <2>1. \A y : HeldBy(y)' = HeldBy(y)
    BY <1>1 DEF HeldBy
  <2>2. \A y : ~Counting(y) /\ (Counting(y)' <=> y = arg[t])
    BY <1>1, <1>3, <1>4 DEF Counting
  <2>3. ASSUME NEW y \in Works PROVE poolStatus'[y] = poolStatus[y]
    <3>1. y # arg[t] => fate'[y] = fate[y]
      BY <1>0, <1>1 DEF DataType
    <3> QED BY <1>2, <2>1, <2>2, <3>1 DEF poolStatus
  <2> QED BY <2>3 DEF poolStatus
<1>7. poolPhase' = poolPhase
  BY <1>1, SamePhase DEF PushLink, Open, PushLabels
<1> QED BY <1>5, <1>6, <1>7 DEF Pool!poolVars

\* A change of one work's status, given work by work.
LEMMA StatusMap ==
  ASSUME NEW x \in Works, NEW v, poolStatus'[x] = v,
         \A y \in Works : y # x => poolStatus'[y] = poolStatus[y]
  PROVE  poolStatus' = [poolStatus EXCEPT ![x] = v]
<1> DEFINE s == poolStatus
<1>1. s = [y \in Works |-> s[y]] /\ s' = [y \in Works |-> s'[y]]
  BY DEF poolStatus
<1> HIDE DEF s
<1>2. \A y \in Works : s'[y] = [s EXCEPT ![x] = v][y]
  <2>1. s'[x] = v /\ \A y \in Works : y # x => s'[y] = s[y]
    BY DEF s
  <2> QED BY <1>1, <2>1
<1>3. s' = [s EXCEPT ![x] = v]
  BY <1>1, <1>2
<1> QED BY <1>3 DEF s

\* The push that is uncounted is counted, or dies after the free: either way
\* the pool has one more work, the last.
LEMMA CountedMaps ==
  ASSUME IInv, NEW t \in Threads, NEW l, pc[t] = "count", Goto(t, l),
         l \in {"signal", "crashed"}, UNCHANGED <<list, item, arg, fate>>
  PROVE  Pool!Submit(arg[t]) /\ arg[t] \in Works
<1>0. DataType /\ PcType /\ SingleOwner
  BY Parts
<1>1. Tailed(t)
  BY OneUncounted DEF Uncounted, Tailed
<1>2. Uncounted' = {}
  BY <1>0, <1>1 DEF Tailed, Uncounted, Goto, PcType
<1>3. arg[t] \in Works /\ fate[arg[t]] = "queued"
  <2>1. Len(list) \in DOMAIN list
    BY <1>0, <1>1 DEF Tailed, DataType
  <2> QED BY <1>0, <1>1, <2>1 DEF Tailed, SingleOwner
<1>4. poolOrder' = Append(poolOrder, arg[t])
  <2>1. poolOrder' = SubSeq(list, 1, Len(list))
    BY <1>0, <1>2, FS_EmptySet DEF poolOrder, DataType
  <2>2. SubSeq(list, 1, Len(list)) = list
    BY <1>0 DEF DataType
  <2> QED BY <1>0, <1>1, <2>1, <2>2, OrderButLast
<1>5. \A x : /\ HeldBy(x)' = HeldBy(x) /\ ~Counting(x)'
             /\ Counting(x) <=> x = arg[t]
  <2>1. \A x : HeldBy(x)' = HeldBy(x)
    BY DEF HeldBy
  <2>2. \A x : ~Counting(x)'
    BY <1>2 DEF Counting
  <2>3. \A x : Counting(x) <=> x = arg[t]
    BY <1>0, <1>1, OrderButLast
  <2> QED BY <2>1, <2>2, <2>3
<1>6. poolStatus[arg[t]] = "new"
  BY <1>3, <1>5 DEF poolStatus
<1>7. poolStatus' = [poolStatus EXCEPT ![arg[t]] = "queued"]
  <2>1. HeldBy(arg[t]) = {}
    BY <1>3, LinkedStatus
  <2>2. poolStatus'[arg[t]] = "queued"
    BY <1>3, <1>5, <2>1 DEF poolStatus
  <2>3. ASSUME NEW y \in Works, y # arg[t]
        PROVE  poolStatus'[y] = poolStatus[y]
    BY <1>5, <2>3 DEF poolStatus
  <2> QED BY <1>3, <2>2, <2>3, StatusMap
<1>8. poolPhase' = poolPhase
  BY SamePhase DEF Open, PushLabels
<1> QED BY <1>3, <1>4, <1>6, <1>7, <1>8 DEF Pool!Submit

LEMMA PushMaps ==
  ASSUME IInv, NEW t \in Threads, Push(t)
  PROVE  [Pool!Next]_(Pool!poolVars)
<1>1. CASE PushLink(t)
  BY <1>1, PushLinkMaps
<1>2. CASE PushCount(t)
  BY <1>2, CountedMaps DEF PushCount, Pool!Next
<1>3. CASE PushSignal(t)
  <2>1. /\ UNCHANGED <<list, item, fate>> /\ pc[t] = "signal"
        /\ \A s \in Threads \ {t} : arg'[s] = arg[s]
    BY <1>3, Parts DEF PushSignal, DataType
  <2>2. PICK l \in {"exec", "drain", "idle"} :
          Goto(t, l) /\ (t = Main => l \in Open)
    BY <1>3, ThreadAssumption DEF PushSignal, Resume, Open
  <2>3. Uncounted' = Uncounted /\ t \notin Uncounted
    BY <2>1, <2>2, SameUncounted DEF Uncounted
  <2>4. UNCHANGED <<poolOrder, poolStatus>>
    BY <2>1, <2>3, SameWorks DEF Uncounted
  <2>5. poolPhase' = poolPhase
    BY <2>1, <2>2, SamePhase DEF Open, PushLabels
  <2> QED BY <2>4, <2>5 DEF Pool!poolVars
<1>4. CASE PushCrash(t)
  <2>1. /\ UNCHANGED <<list, item, fate, arg>> /\ pc[t] \in PushLabels
        /\ Goto(t, "crashed")
    BY <1>4 DEF PushCrash
  <2>2. CASE pc[t] = "count"
    BY <2>1, <2>2, CountedMaps DEF Pool!Next
  <2>3. CASE pc[t] # "count"
    <3>1. UNCHANGED <<poolOrder, poolStatus>>
      BY <2>1, <2>3, SameUncounted, SameWorks
    <3>2. poolPhase' = poolPhase
      BY <2>1, SamePhase DEF Open
    <3> QED BY <3>1, <3>2 DEF Pool!poolVars
  <2> QED BY <2>2, <2>3
<1> QED BY <1>1, <1>2, <1>3, <1>4 DEF Push

-----------------------------------------------------------------------------
\* A pop starts the oldest work of the pool.  Its worker held none, so fewer
\* than all workers are busy; and no push is uncounted, as the worker has the
\* mutex.
LEMMA PopMaps ==
  ASSUME IInv, NEW t \in Workers, WorkerPop(t)
  PROVE  Pool!Start
<1>0. /\ DataType /\ PcType /\ MutexInv /\ ItemInv /\ SingleOwner
      /\ WorkersGoneBeforeFree
  BY Parts
<1>1. /\ list # <<>> /\ list' = Tail(list) /\ pc[t] = "test"
      /\ item' = [item EXCEPT ![t] = Head(list)]
      /\ fate' = [fate EXCEPT ![Head(list)] = "taken"]
      /\ t \in Threads
  BY DEF WorkerPop, Threads
<1>2. PICK l \in {"exec", "complete"} : Goto(t, l)
  BY DEF WorkerPop
<1>3. pc[Main] \notin {"destroy", "release", "down"} /\ t # Main
  BY <1>0, <1>1, ThreadAssumption DEF WorkersGoneBeforeFree
<1>4. Uncounted = {} /\ Uncounted' = {}
  <2>1. owner = t
    BY <1>0, <1>1, <1>3 DEF MutexInv, Critical
  <2>2. Uncounted = {}
    BY <1>0, <1>1, <1>3, <2>1, UncountedHolder
  <2> QED BY <1>1, <1>2, <2>2, SameUncounted
<1>5. /\ Head(list) \in Works /\ fate[Head(list)] = "queued"
      /\ Tail(list) \in Seq(Works)
  <2>1. 1 \in DOMAIN list /\ Head(list) = list[1] /\ Head(list) \in Works
    BY <1>0, <1>1 DEF DataType
  <2> QED BY <1>0, <1>1, <2>1 DEF DataType, SingleOwner
<1>6. /\ poolOrder = list /\ poolOrder' = Tail(poolOrder)
      /\ \A y : ~Counting(y) /\ ~Counting(y)'
  <2>1. poolOrder = list
    BY <1>0, <1>4, OrderAll
  <2>2. poolOrder' = SubSeq(list', 1, Len(list'))
    BY <1>1, <1>4, <1>5, FS_EmptySet DEF poolOrder
  <2>3. \A y : ~Counting(y) /\ ~Counting(y)'
    BY <1>4 DEF Counting
  <2> QED BY <1>1, <1>5, <2>1, <2>2, <2>3
<1>7. poolStatus' = [poolStatus EXCEPT ![Head(list)] = "running"]
  <2>1. item[t] = NoWork
    BY <1>0, <1>1 DEF ItemInv, PushLabels
  <2>2. PICK x \in Works : x = Head(list)
    BY <1>5
  <2>3. item' = [item EXCEPT ![t] = x] /\ item \in [Workers -> Works \cup {NoWork}]
    BY <1>0, <1>1, <2>2 DEF DataType
  <2>4. t \in HeldBy(x)'
    BY <2>3 DEF HeldBy
  <2>5. ASSUME NEW y \in Works, y # x
        PROVE  HeldBy(y)' = HeldBy(y)
    BY <2>1, <2>3, <2>5, WorkAssumption DEF HeldBy
  <2>6. fate'[x] = "taken" /\ \A y \in Works : y # x => fate'[y] = fate[y]
    BY <1>0, <1>1, <2>2 DEF DataType
  <2>7. poolStatus'[x] = "running"
    BY <1>6, <2>4, <2>6 DEF poolStatus
  <2>8. ASSUME NEW y \in Works, y # x
        PROVE  poolStatus'[y] = poolStatus[y]
    BY <1>6, <2>5, <2>6, <2>8 DEF poolStatus
  <2> QED BY <2>2, <2>7, <2>8, StatusMap
<1>8. Cardinality(Pool!With("running")) < Cardinality(Workers)
  <2>1. Busy \subseteq Workers \ {t}
    BY <1>0, <1>1 DEF Busy, ItemInv, PushLabels
  <2>2. /\ IsFiniteSet(Workers) /\ IsFiniteSet(Workers \ {t})
        /\ Cardinality(Workers \ {t}) = Cardinality(Workers) - 1
        /\ Cardinality(Workers) \in Nat
    BY WorkAssumption, FS_RemoveElement, FS_CardinalityType
  <2>3. /\ Cardinality(Busy) <= Cardinality(Workers \ {t})
        /\ Cardinality(Workers \ {t}) \in Nat
    BY <2>1, <2>2, FS_Subset, FS_CardinalityType
  <2> DEFINE b == Cardinality(Busy)
             h == Cardinality(Held)
             r == Cardinality(Workers \ {t})
             w == Cardinality(Workers)
  <2>4. b <= r /\ r = w - 1 /\ h <= b /\ b \in Nat /\ h \in Nat /\ w \in Nat
    BY <2>2, <2>3, RunningHeld
  <2> HIDE DEF b, h, r, w
  <2>5. h < w
    BY <2>4
  <2> QED BY <2>5, RunningHeld DEF h, w
<1>9. poolPhase' = poolPhase /\ poolPhase # "gone"
  BY <1>1, <1>2, <1>3, SamePhase DEF poolPhase
<1>10. Pool!Cardinality(Pool!With("running")) = Cardinality(Pool!With("running"))
  BY DEF Pool!Cardinality, Cardinality, Pool!IsFiniteSet, IsFiniteSet
<1> QED BY <1>1, <1>6, <1>7, <1>8, <1>9, <1>10 DEF Pool!Start

\* The decrement of the counter finishes the work that the worker held.
LEMMA DecMaps ==
  ASSUME IInv, NEW t \in Workers, WorkerDec(t)
  PROVE  item[t] \in Works /\ Pool!Finish(item[t])
<1>0. DataType /\ ItemInv /\ SingleOwner
  BY Parts
<1>1. /\ pc[t] = "dec" /\ item' = [item EXCEPT ![t] = NoWork]
      /\ UNCHANGED <<list, arg, fate>> /\ Goto(t, "load") /\ t \in Threads
      /\ t # Main
  BY ThreadAssumption DEF WorkerDec, Threads
<1>2. item[t] # NoWork /\ fate[item[t]] \in {"done", "rejected"}
  BY <1>0, <1>1 DEF ItemInv, SingleOwner
<1>3. /\ item[t] \in Works /\ HeldBy(item[t]) = {t} /\ ~Counting(item[t])
      /\ poolStatus[item[t]] = "running"
  BY <1>2, HeldFate
<1>4. Uncounted' = Uncounted
  BY <1>1, SameUncounted
<1>5. poolOrder' = poolOrder /\ \A y : Counting(y)' <=> Counting(y)
  BY <1>1, <1>4 DEF poolOrder, Counting
<1>6. PICK x \in Works : x = item[t]
  BY <1>3
<1>7. poolStatus' = [poolStatus EXCEPT ![x] = "finished"]
  <2>1. item' = [item EXCEPT ![t] = NoWork] /\ item \in [Workers -> Works \cup {NoWork}]
    BY <1>0, <1>1 DEF DataType
  <2>2. HeldBy(x)' = {}
    BY <1>3, <1>6, <2>1, WorkAssumption DEF HeldBy
  <2>3. ASSUME NEW y \in Works, y # x
        PROVE  HeldBy(y)' = HeldBy(y)
    BY <1>6, <2>1, <2>3, WorkAssumption DEF HeldBy
  <2>4. poolStatus'[x] = "finished"
    BY <1>1, <1>2, <1>3, <1>5, <1>6, <2>2 DEF poolStatus
  <2>5. ASSUME NEW y \in Works, y # x
        PROVE  poolStatus'[y] = poolStatus[y]
    BY <1>1, <1>5, <2>3, <2>5 DEF poolStatus
  <2> QED BY <2>4, <2>5, StatusMap
<1>8. poolPhase' = poolPhase
  BY <1>1, SamePhase
<1> QED BY <1>3, <1>5, <1>6, <1>7, <1>8 DEF Pool!Finish

\* Every other step of a worker is the pool's business no more than a lock.
LEMMA WorkerMaps ==
  ASSUME IInv, NEW t \in Workers, Worker(t) \/ SpuriousWakeup(t)
  PROVE  [Pool!Next]_(Pool!poolVars)
<1>0. DataType /\ ItemInv /\ SingleOwner /\ t \in Threads /\ t # Main
  BY Parts, ThreadAssumption DEF Threads
<1>1. CASE WorkerPop(t)
  BY <1>1, PopMaps DEF Pool!Next
<1>2. CASE WorkerDec(t)
  BY <1>2, DecMaps DEF Pool!Next
<1>3. CASE SpuriousWakeup(t)
  <2>1. UNCHANGED <<list, item, arg, fate, pc>> /\ Uncounted' = Uncounted
    BY <1>3 DEF SpuriousWakeup, Uncounted
  <2>2. UNCHANGED <<poolOrder, poolStatus>> /\ poolPhase' = poolPhase
    BY <2>1, SameWorks DEF poolPhase
  <2> QED BY <2>2 DEF Pool!poolVars
<1>4. CASE Worker(t) /\ ~WorkerPop(t) /\ ~WorkerDec(t)
  <2>1. PICK l \in WorkerLabels \ {"count"} : Goto(t, l) /\ pc[t] # "count"
    BY <1>4 DEF Worker, WorkerLoop, PopWork, WorkerLock, WorkerPark, WorkerWait,
       WorkerQuit, WorkerExec, CompleteWork, WorkerComplete, WorkerLoad,
       WorkerNotify, WorkerLabels
  <2>2. Uncounted' = Uncounted
    BY <1>0, <2>1, SameUncounted
  <2>3. UNCHANGED <<list, item, arg>>
    BY <1>4 DEF Worker, WorkerLoop, PopWork, WorkerLock, WorkerPark, WorkerWait,
       WorkerQuit, WorkerExec, CompleteWork, WorkerComplete, WorkerLoad,
       WorkerNotify
  <2>4. \A x \in Works : \/ fate'[x] = fate[x]
                         \/ HeldBy(x) # {} /\ fate'[x] \in {"done", "rejected"}
    <3>1. CASE WorkerComplete(t)
      <4>1. t \in HeldBy(item[t])
        BY DEF HeldBy
      <4> QED BY <1>0, <3>1, <4>1 DEF WorkerComplete, DataType
    <3>2. CASE ~WorkerComplete(t)
      <4>1. fate' = fate
        BY <1>4, <3>2 DEF Worker, WorkerLoop, PopWork, WorkerLock, WorkerPark,
           WorkerWait, WorkerQuit, WorkerExec, CompleteWork, WorkerLoad,
           WorkerNotify
      <4> QED BY <4>1
    <3> QED BY <3>1, <3>2
  <2>5. UNCHANGED <<poolOrder, poolStatus>>
    BY <2>2, <2>3, <2>4, SameWorks
  <2>6. poolPhase' = poolPhase
    BY <1>0, <2>1, SamePhase
  <2> QED BY <2>5, <2>6 DEF Pool!poolVars
<1> QED BY <1>1, <1>2, <1>3, <1>4

-----------------------------------------------------------------------------
\* The poll that passes finds the pool idle: only a work that no push has
\* counted may still be linked.
LEMMA DrainMaps ==
  ASSUME IInv, DrainPoll
  PROVE  Pool!FindIdle
<1>0. DataType /\ PcType /\ Main \in Threads
  BY Parts DEF Threads
<1>1. /\ pc[Main] = "drain" /\ active_cnt = 0 /\ Goto(Main, "stop")
      /\ UNCHANGED <<list, item, arg, fate>>
  BY DEF DrainPoll
<1>2. Uncounted' = Uncounted
  BY <1>0, <1>1, SameUncounted
<1>3. UNCHANGED <<poolOrder, poolStatus>>
  BY <1>1, <1>2, SameWorks
<1>4. poolPhase = "open" /\ poolPhase' = "idle"
  BY <1>0, <1>1 DEF poolPhase, Goto, PcType
<1>5. ASSUME NEW x \in Works, fate[x] \in {"queued", "taken"}
      PROVE  poolStatus[x] = "new"
  <2>1. Counting(x)
    BY <1>1, <1>5, ZeroCount DEF Counting, Uncounted
  <2> QED BY <2>1 DEF poolStatus
<1>6. ASSUME NEW x \in Works, HeldBy(x) # {}
      PROVE  FALSE
  <2>1. /\ Cardinality(Busy) = 0 /\ IsFiniteSet(Busy)
    <3>1. /\ active_cnt = Len(list) + Cardinality(Busy) - Cardinality(Uncounted)
      BY <1>1 DEF IInv, CountExact
    <3>2. Uncounted = {} \/ \E t \in Threads : Tailed(t)
      BY OneUncounted
    <3>3. Len(list) \in Nat /\ (list # <<>> => Len(list) >= 1)
      BY <1>0 DEF DataType
    <3>4. \/ Cardinality(Uncounted) = 0
          \/ Cardinality(Uncounted) = 1 /\ list # <<>>
      BY <3>2, FS_EmptySet, FS_Singleton DEF Tailed
    <3>5. Cardinality(Busy) \in Nat /\ IsFiniteSet(Busy)
      BY <1>0, BusyFinite
    <3> DEFINE b == Cardinality(Busy)
               u == Cardinality(Uncounted)
               n == Len(list)
    <3>6. /\ n \in Nat /\ b \in Nat /\ 0 = n + b - u
          /\ u = 0 \/ (u = 1 /\ n >= 1)
      BY <1>1, <3>1, <3>3, <3>4, <3>5
    <3> HIDE DEF b, u, n
    <3>7. b = 0
      BY <3>6
    <3> QED BY <3>5, <3>7 DEF b
  <2> QED BY <1>6, <2>1, WorkAssumption, FS_EmptySet DEF Busy, HeldBy
<1>7. Pool!With("queued") \cup Pool!With("running") = {}
  BY <1>5, <1>6 DEF Pool!With, poolStatus
<1> QED BY <1>3, <1>4, <1>7 DEF Pool!FindIdle

\* workqueue_destroy discards what is linked: no push is uncounted and no
\* worker is left.
LEMMA DestroyMaps ==
  ASSUME IInv, DestroyList
  PROVE  Pool!Discard
<1>0. /\ DataType /\ PcType /\ MutexInv /\ WorkersGoneBeforeFree
      /\ Main \in Threads
  BY Parts DEF Threads
<1>1. /\ pc[Main] = "destroy" /\ owner = NoThread /\ Goto(Main, "release")
      /\ fate' = [x \in Works |-> IF fate[x] = "queued" THEN "dropped" ELSE fate[x]]
      /\ list' = <<>> /\ UNCHANGED <<item, arg>>
  BY DEF DestroyList
<1>2. Uncounted = {} /\ Uncounted' = {}
  BY <1>0, <1>1, UncountedNone, SameUncounted
<1>3. \A x : ~Counting(x) /\ ~Counting(x)'
  BY <1>2 DEF Counting
<1>4. \A x \in Works : HeldBy(x) = {} /\ HeldBy(x)' = {}
  BY <1>0, <1>1, WorkAssumption DEF WorkersGoneBeforeFree, HeldBy
<1>5. poolOrder' = <<>>
  BY <1>1, <1>2, FS_EmptySet DEF poolOrder
<1>6. Pool!With("running") = {}
  BY <1>4 DEF Pool!With, poolStatus
<1>7. poolStatus' = [x \in Works |-> IF poolStatus[x] = "queued" THEN "dropped"
                                     ELSE poolStatus[x]]
  <2>1. ASSUME NEW x \in Works
        PROVE  poolStatus'[x] = IF poolStatus[x] = "queued" THEN "dropped"
                                ELSE poolStatus[x]
    BY <1>0, <1>1, <1>3, <1>4 DEF poolStatus, DataType, Fates
  <2> QED BY <2>1 DEF poolStatus
<1>8. poolPhase = "idle" /\ poolPhase' = "gone"
  BY <1>0, <1>1 DEF poolPhase, Goto, PcType
<1> QED BY <1>5, <1>6, <1>7, <1>8 DEF Pool!Discard

\* The rest of the shutdown flow moves within one phase of the pool.
LEMMA ShutdownMaps ==
  ASSUME IInv, Shutdown
  PROVE  [Pool!Next]_(Pool!poolVars)
<1>1. CASE DrainPoll
  BY <1>1, DrainMaps DEF Pool!Next
<1>2. CASE DestroyList
  BY <1>2, DestroyMaps DEF Pool!Next
<1>3. CASE StopRun \/ WakeupAll \/ JoinWorkers \/ ReleaseQueue
  <2>0. PcType /\ Main \in Threads
    BY Parts DEF Threads
  <2>1. UNCHANGED <<list, item, arg, fate>>
    BY <1>3 DEF StopRun, WakeupAll, JoinWorkers, ReleaseQueue
  <2>2. PICK l \in {"wakeup", "join", "destroy", "down"} :
          /\ Goto(Main, l)
          /\ IF l = "down" THEN pc[Main] = "release"
             ELSE pc[Main] \in {"stop", "wakeup", "join"}
    BY <1>3 DEF StopRun, WakeupAll, JoinWorkers, ReleaseQueue
  <2>3. Uncounted' = Uncounted
    BY <2>0, <2>2, SameUncounted
  <2>4. UNCHANGED <<poolOrder, poolStatus>>
    BY <2>1, <2>3, SameWorks
  <2>5. poolPhase' = poolPhase
    BY <2>0, <2>2 DEF poolPhase, Goto, PcType
  <2> QED BY <2>4, <2>5 DEF Pool!poolVars
<1> QED BY <1>1, <1>2, <1>3 DEF Shutdown

\* Every step of the queue is a step of the pool, or none.
LEMMA StepMaps == IInv /\ [Next]_vars => [Pool!Next]_(Pool!poolVars)
<1> SUFFICES ASSUME IInv, [Next]_vars
             PROVE  [Pool!Next]_(Pool!poolVars)
  OBVIOUS
<1>0. DataType /\ Workers \subseteq Threads /\ Main \in Threads
  BY Parts DEF Threads
<1>1. ASSUME NEW t \in Threads, ClientPush(t)
      PROVE  [Pool!Next]_(Pool!poolVars)
  BY <1>1, StartPushMaps DEF ClientPush, Works
<1>2. ASSUME NEW t \in Workers, ReportPush(t)
      PROVE  [Pool!Next]_(Pool!poolVars)
  BY <1>0, <1>2, StartPushMaps DEF ReportPush, Works
<1>3. ASSUME Sigint
      PROVE  [Pool!Next]_(Pool!poolVars)
  BY <1>0, <1>3, StartPushMaps DEF Sigint, Works
<1>4. ASSUME UNCHANGED vars
      PROVE  [Pool!Next]_(Pool!poolVars)
  <2>1. UNCHANGED <<list, item, arg, fate, pc>> /\ Uncounted' = Uncounted
    BY <1>4 DEF vars, Uncounted
  <2>2. UNCHANGED <<poolOrder, poolStatus>> /\ poolPhase' = poolPhase
    BY <2>1, SameWorks DEF poolPhase
  <2> QED BY <2>2 DEF Pool!poolVars
<1> QED BY <1>1, <1>2, <1>3, <1>4, PushMaps, WorkerMaps, ShutdownMaps
        DEF Next, Terminated

LEMMA InitMaps == Init => Pool!Init
<1> SUFFICES ASSUME Init PROVE Pool!Init
  OBVIOUS
<1>1. Uncounted = {}
  BY DEF Init, Uncounted
<1>2. poolOrder = <<>>
  BY <1>1, FS_EmptySet DEF Init, poolOrder
<1>3. poolStatus = [x \in Works |-> "new"]
  BY DEF Init, poolStatus
<1>4. poolPhase = "open"
  BY DEF Init, poolPhase, Threads
<1> QED BY <1>2, <1>3, <1>4 DEF Pool!Init

(***************************************************************************)
(* The queue implements the pool: with every number of workers, producers  *)
(* and works, push_work, workqueue_handler and the shutdown flow start     *)
(* works in the order in which they were counted, never more than there    *)
(* are workers, finish each once, and drop none before the counter was 0.  *)
(***************************************************************************)
THEOREM QueueImplementsPool == Spec => ImplementsPool
BY InitMaps, StepMaps, Invariance, PTL DEF Spec, ImplementsPool, Pool!Spec
=============================================================================
