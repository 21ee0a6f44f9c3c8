------------------------------ MODULE ImuProofs ------------------------------
(***************************************************************************)
(* What holds of the IMU for every set of workers and samplers: an enabled *)
(* IMU has a sampler, and a report is one consistent sample.               *)
(***************************************************************************)
EXTENDS Imu, TLAPS

Labels == {"none", "init", "calibrate", "sample", "set", "create", "clear",
           "loop", "save", "scale", "restore"} \cup StoreLabels \cup GetLabels

Critical == {"get_tilt", "get_yaw", "store_tilt", "store_yaw"}

\* The two halves of TypeOK: where the threads are, and the data.
PcType ==
  /\ pc \in [Threads -> Labels]
  /\ \A w \in Workers :
       pc[w] \in {"init", "calibrate", "sample", "set", "create", "clear"}
                 \cup StoreLabels \cup GetLabels
  /\ \A s \in Samplers :
       pc[s] \in {"none", "loop", "save", "scale", "restore"} \cup StoreLabels
  /\ pc[Monitor] \in GetLabels

DataType ==
  /\ imu_en \in BOOLEAN /\ run \in BOOLEAN
  /\ r_measure \in {"base", "scaled"}
  /\ angles \in Angles
  /\ lock \in Threads \cup {NoThread}
  /\ orig \in [Samplers -> {"base", "scaled"}]
  /\ copy \in [Threads \ Samplers -> Angles]
  /\ commands \in 0 .. MaxCommands

\* The thread in a critical section of imu.c is the holder of angles_lock.
MutexInv == \A t \in Threads : lock = t <=> pc[t] \in Critical

\* The angles are those of one store, except between its two halves, and a
\* copy begun under the lock is not overtaken.
AnglesInv ==
  /\ (\A t \in Threads : pc[t] # "store_yaw") => angles.tilt = angles.yaw
  /\ \A t \in Threads : pc[t] = "store_yaw" => angles.tilt = t
  /\ \A t \in Threads \ Samplers : pc[t] = "get_yaw" => copy[t].tilt = angles.tilt

IInv ==
  /\ DataType /\ PcType
  /\ MutexInv /\ AnglesInv
  /\ EnabledHasSampler /\ NoTornReport

-----------------------------------------------------------------------------
\* The workers, the samplers and the monitor are threads of three kinds.
LEMMA ThreadKinds ==
  /\ Workers \subseteq Threads /\ Samplers \subseteq Threads /\ Monitor \in Threads
  /\ \A w \in Workers : w \notin Samplers /\ w # Monitor
  /\ Monitor \notin Samplers
  /\ NoThread \notin Threads
  /\ Threads \ Samplers = Workers \cup {Monitor}
BY ThreadAssumption DEF Threads

\* The two halves are the type invariant.
LEMMA Types == DataType /\ PcType => TypeOK
BY DEF TypeOK, DataType, PcType

\* The start of the service satisfies the invariant.
LEMMA InitIInv == Init => IInv
<1> SUFFICES ASSUME Init PROVE IInv
  OBVIOUS
<1>0. angles \in Angles
  <2>1. angles = [tilt |-> NoThread, yaw |-> NoThread]
    BY DEF Init
  <2> QED
    BY <2>1, Zenon DEF Angles
<1>1. DataType
  <2>1. copy = [t \in Threads \ Samplers |-> angles]
    BY DEF Init
  <2>2. copy \in [Threads \ Samplers -> Angles]
    BY <1>0, <2>1, Zenon
  <2>3. orig \in [Samplers -> {"base", "scaled"}] /\ commands \in 0 .. MaxCommands
    BY ThreadAssumption DEF Init
  <2>4. /\ imu_en \in BOOLEAN /\ run \in BOOLEAN
        /\ r_measure \in {"base", "scaled"} /\ lock \in Threads \cup {NoThread}
    BY DEF Init
  <2> QED
    BY <1>0, <2>2, <2>3, <2>4 DEF DataType
<1> USE ThreadKinds DEF Init
<1>2. PcType
  BY DEF PcType, Labels, StoreLabels, GetLabels
<1>3. MutexInv /\ AnglesInv
  BY DEF MutexInv, AnglesInv, Critical
<1>4. EnabledHasSampler /\ NoTornReport
  BY DEF EnabledHasSampler, NoTornReport
<1> QED
  BY <1>1, <1>2, <1>3, <1>4 DEF IInv

-----------------------------------------------------------------------------
(***************************************************************************)
(* Types                                                                   *)
(***************************************************************************)

\* A thread that goes to one of its own labels keeps the threads typed.
LEMMA GotoType ==
  ASSUME PcType, NEW t \in Threads, NEW l \in Labels, Goto(t, l),
         t \in Workers => l \notin {"none", "loop", "save", "scale", "restore"},
         t \in Samplers => l \in {"none", "loop", "save", "scale", "restore"}
                                \cup StoreLabels,
         t = Monitor => l \in GetLabels
  PROVE  PcType'
BY ThreadKinds DEF PcType, Goto, Labels, StoreLabels, GetLabels

\* Every step keeps the threads typed.
LEMMA PcTypeStep ==
  ASSUME PcType, [Next]_vars
  PROVE  PcType'
<1> USE ThreadKinds DEF Labels, StoreLabels, GetLabels
<1>0. CASE UNCHANGED pc
  BY <1>0 DEF PcType
<1>1. ASSUME NEW w \in Workers,
             EnableCheck(w) \/ DisableCheck(w) \/ ReportCommand(w)
      PROVE  PcType'
  BY <1>0, <1>1, GotoType DEF EnableCheck, DisableCheck, ReportCommand
<1>2. ASSUME NEW w \in Workers, Enable(w) \/ DisableClear(w)
      PROVE  PcType'
  <2>1. CASE CreateSampler(w)
    <3>1. CASE Goto(w, "idle")
      BY <3>1, GotoType
    <3>2. ASSUME NEW s \in Samplers,
                 pc' = [pc EXCEPT ![w] = "idle", ![s] = "loop"]
          PROVE  PcType'
      BY <3>2 DEF PcType
    <3> QED
      BY <2>1, <3>1, <3>2 DEF CreateSampler
  <2> QED
    BY <1>2, <2>1, GotoType DEF Enable, KalmanInit, CalibrateCheck,
       CalibrateStore, SetEnabled, DisableClear
<1>3. ASSUME NEW t \in Threads \ Samplers, GetAngles(t)
      PROVE  PcType'
  BY <1>3, GotoType DEF GetAngles, GetLock, GetTilt, GetYaw, Report
<1>4. ASSUME NEW t \in Threads \ {Monitor}, StoreAngles(t)
      PROVE  PcType'
  BY <1>4, GotoType DEF StoreAngles, StoreLock, StoreTilt, StoreYaw
<1>5. ASSUME NEW s \in Samplers, Sample(s)
      PROVE  PcType'
  BY <1>5, GotoType DEF Sample, SampleLoop, SaveMeasure, ScaleMeasure,
     RestoreMeasure
<1>6. CASE ReportCycle \/ Stop
  BY <1>0, <1>6, GotoType DEF ReportCycle, Stop
<1>7. CASE UNCHANGED vars
  BY <1>0, <1>7 DEF vars
<1> QED
  BY <1>1, <1>2, <1>3, <1>4, <1>5, <1>6, <1>7
     DEF Next, WorkerStep, SamplerStep, Terminated

\* Every step keeps the data typed.
LEMMA DataTypeStep ==
  ASSUME DataType, [Next]_vars
  PROVE  DataType'
<1> USE ThreadKinds, ThreadAssumption DEF DataType
<1>1. ASSUME NEW w \in Workers,
             EnableCheck(w) \/ DisableCheck(w) \/ ReportCommand(w)
      PROVE  DataType'
  BY <1>1 DEF EnableCheck, DisableCheck, ReportCommand, Command
<1>2. ASSUME NEW w \in Workers, Enable(w) \/ DisableClear(w)
      PROVE  DataType'
  BY <1>2 DEF Enable, KalmanInit, CalibrateCheck, CalibrateStore, SetEnabled,
              CreateSampler, DisableClear
<1>3. ASSUME NEW t \in Threads \ Samplers, GetAngles(t)
      PROVE  DataType'
  BY <1>3 DEF GetAngles, GetLock, GetTilt, GetYaw, Report, Angles
<1>4. ASSUME NEW t \in Threads \ {Monitor}, StoreAngles(t)
      PROVE  DataType'
  BY <1>4 DEF StoreAngles, StoreLock, StoreTilt, StoreYaw, Angles
<1>5. ASSUME NEW s \in Samplers, Sample(s)
      PROVE  DataType'
  BY <1>5 DEF Sample, SampleLoop, SaveMeasure, ScaleMeasure, RestoreMeasure
<1>6. CASE ReportCycle \/ Stop \/ UNCHANGED vars
  BY <1>6 DEF ReportCycle, Stop, vars
<1> QED
  BY <1>1, <1>2, <1>3, <1>4, <1>5, <1>6
     DEF Next, WorkerStep, SamplerStep, Terminated
-----------------------------------------------------------------------------
(***************************************************************************)
(* The angles                                                              *)
(***************************************************************************)

\* angles_lock is taken on entry to a critical section and given back at its
\* end, by the same thread.
LEMMA MutexStep ==
  ASSUME DataType, PcType, MutexInv, [Next]_vars
  PROVE  MutexInv'
<1> USE ThreadKinds DEF MutexInv, PcType, Goto, Critical
<1>1. ASSUME NEW w \in Workers,
             EnableCheck(w) \/ DisableCheck(w) \/ ReportCommand(w)
      PROVE  MutexInv'
  BY <1>1 DEF EnableCheck, DisableCheck, ReportCommand, Command
<1>2. ASSUME NEW w \in Workers, Enable(w) \/ DisableClear(w)
      PROVE  MutexInv'
  BY <1>2 DEF Enable, KalmanInit, CalibrateCheck, CalibrateStore, SetEnabled,
              CreateSampler, DisableClear, Live
<1>3. ASSUME NEW t \in Threads \ Samplers, GetAngles(t)
      PROVE  MutexInv'
  BY <1>3 DEF GetAngles, GetLock, GetTilt, GetYaw, Report
<1>4. ASSUME NEW t \in Threads \ {Monitor}, StoreAngles(t)
      PROVE  MutexInv'
  BY <1>4 DEF StoreAngles, StoreLock, StoreTilt, StoreYaw
<1>5. ASSUME NEW s \in Samplers, Sample(s)
      PROVE  MutexInv'
  BY <1>5 DEF Sample, SampleLoop, SaveMeasure, ScaleMeasure, RestoreMeasure
<1>6. CASE ReportCycle \/ Stop \/ UNCHANGED vars
  BY <1>6 DEF ReportCycle, Stop, vars
<1> QED
  BY <1>1, <1>2, <1>3, <1>4, <1>5, <1>6
     DEF Next, WorkerStep, SamplerStep, Terminated

\* The lock keeps a store and a copy apart.
LEMMA AnglesStep ==
  ASSUME DataType, PcType, MutexInv, AnglesInv, NoTornReport, [Next]_vars
  PROVE  AnglesInv' /\ NoTornReport'
<1> USE ThreadKinds DEF AnglesInv, NoTornReport, PcType, Goto, Critical
<1>1. ASSUME NEW w \in Workers,
             EnableCheck(w) \/ DisableCheck(w) \/ ReportCommand(w)
      PROVE  AnglesInv' /\ NoTornReport'
  BY <1>1 DEF EnableCheck, DisableCheck, ReportCommand, Command
<1>2. ASSUME NEW w \in Workers, Enable(w) \/ DisableClear(w)
      PROVE  AnglesInv' /\ NoTornReport'
  BY <1>2 DEF Enable, KalmanInit, CalibrateCheck, CalibrateStore, SetEnabled,
              CreateSampler, DisableClear, Live
<1>3. ASSUME NEW t \in Threads \ Samplers, GetAngles(t)
      PROVE  AnglesInv' /\ NoTornReport'
  <2>1. CASE GetLock(t) \/ Report(t)
    BY <2>1 DEF GetLock, Report
  <2>2. CASE GetTilt(t)
    BY <2>2 DEF GetTilt, DataType, Angles
  <2>3. CASE GetYaw(t)
    <3>1. \A u \in Threads : pc[u] # "store_yaw"
      BY <2>3 DEF GetYaw, MutexInv
    <3> QED
      BY <2>3, <3>1 DEF GetYaw, DataType, Angles
  <2> QED
    BY <1>3, <2>1, <2>2, <2>3 DEF GetAngles
<1>4. ASSUME NEW t \in Threads \ {Monitor}, StoreAngles(t)
      PROVE  AnglesInv' /\ NoTornReport'
  <2>1. CASE StoreLock(t)
    BY <2>1 DEF StoreLock
  <2>2. CASE StoreTilt(t)
    <3>1. \A u \in Threads : u # t => pc[u] \notin Critical
      BY <2>2 DEF StoreTilt, MutexInv
    <3> QED
      BY <2>2, <3>1 DEF StoreTilt, DataType, Angles
  <2>3. CASE StoreYaw(t)
    <3>1. \A u \in Threads : u # t => pc[u] \notin Critical
      BY <2>3 DEF StoreYaw, MutexInv
    <3> QED
      BY <2>3, <3>1 DEF StoreYaw, DataType, Angles
  <2> QED
    BY <1>4, <2>1, <2>2, <2>3 DEF StoreAngles
<1>5. ASSUME NEW s \in Samplers, Sample(s)
      PROVE  AnglesInv' /\ NoTornReport'
  BY <1>5 DEF Sample, SampleLoop, SaveMeasure, ScaleMeasure, RestoreMeasure
<1>6. CASE ReportCycle \/ Stop \/ UNCHANGED vars
  BY <1>6 DEF ReportCycle, Stop, vars
<1> QED
  BY <1>1, <1>2, <1>3, <1>4, <1>5, <1>6
     DEF Next, WorkerStep, SamplerStep, Terminated

-----------------------------------------------------------------------------
(***************************************************************************)
(* The samplers                                                            *)
(***************************************************************************)

\* Whoever sets imu_en is about to create a sampler or to clear it again; a
\* sampler ends only when the flag or run is cleared.
LEMMA SamplerKept ==
  ASSUME PcType, EnabledHasSampler, [Next]_vars
  PROVE  EnabledHasSampler'
<1> USE ThreadKinds DEF EnabledHasSampler, PcType, Goto, Live
<1>1. ASSUME NEW w \in Workers,
             EnableCheck(w) \/ DisableCheck(w) \/ ReportCommand(w)
      PROVE  EnabledHasSampler'
  BY <1>1 DEF EnableCheck, DisableCheck, ReportCommand, Command
<1>2. ASSUME NEW w \in Workers, Enable(w) \/ DisableClear(w)
      PROVE  EnabledHasSampler'
  BY <1>2 DEF Enable, KalmanInit, CalibrateCheck, CalibrateStore, SetEnabled,
              CreateSampler, DisableClear
<1>3. ASSUME NEW t \in Threads \ Samplers, GetAngles(t)
      PROVE  EnabledHasSampler'
  BY <1>3 DEF GetAngles, GetLock, GetTilt, GetYaw, Report
<1>4. ASSUME NEW t \in Threads \ {Monitor}, StoreAngles(t)
      PROVE  EnabledHasSampler'
  BY <1>4 DEF StoreAngles, StoreLock, StoreTilt, StoreYaw
<1>5. ASSUME NEW s \in Samplers, Sample(s)
      PROVE  EnabledHasSampler'
  BY <1>5 DEF Sample, SampleLoop, SaveMeasure, ScaleMeasure, RestoreMeasure
<1>6. CASE ReportCycle \/ Stop \/ UNCHANGED vars
  BY <1>6 DEF ReportCycle, Stop, vars
<1> QED
  BY <1>1, <1>2, <1>3, <1>4, <1>5, <1>6
     DEF Next, WorkerStep, SamplerStep, Terminated

-----------------------------------------------------------------------------
\* Every step preserves the invariant.
LEMMA StepIInv == IInv /\ [Next]_vars => IInv'
<1> SUFFICES ASSUME IInv, [Next]_vars PROVE IInv'
  OBVIOUS
<1>1. DataType' /\ PcType'
  BY PcTypeStep, DataTypeStep DEF IInv
<1> QED
  BY <1>1, MutexStep, AnglesStep, SamplerKept DEF IInv

\* The invariant holds in every reachable state.
LEMMA Invariance == Spec => []IInv
BY InitIInv, StepIInv, PTL DEF Spec

(* The globals of imu.c and the threads' positions keep their types.       *)
THEOREM TypeCorrect == Spec => []TypeOK
<1>1. IInv => TypeOK
  BY Types DEF IInv
<1> QED
  BY <1>1, Invariance, PTL

(* While the service runs, an IMU marked enabled has a sampler or a worker *)
(* about to create one, whatever the workers of the queue interleave       *)
(* (enable_imu_fn, disable_imu_fn, imu_fn_handler).                        *)
THEOREM EnabledIsSampled == Spec => []EnabledHasSampler
<1>1. IInv => EnabledHasSampler
  BY DEF IInv
<1> QED
  BY <1>1, Invariance, PTL

(* angles_lock makes a report one consistent sample (imu_get_angles,       *)
(* imu_fn_handler, imu_kalman_calibrate).                                  *)
THEOREM ReportsAreWhole == Spec => []NoTornReport
<1>1. IInv => NoTornReport
  BY DEF IInv
<1> QED
  BY <1>1, Invariance, PTL
=============================================================================
