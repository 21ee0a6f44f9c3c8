--------------------------------- MODULE Imu ---------------------------------
(***************************************************************************)
(* The IMU: src/src/hw/imu/imu.c, run by the workers of the queue (the     *)
(* enable, disable and state commands), by the hardware monitor (a report  *)
(* per cycle) and by the sampler threads that enable_imu_fn creates and    *)
(* that nobody joins.                                                      *)
(*                                                                         *)
(* The flag imu_en, the filters and the offsets are plain globals; only    *)
(* shared_angles has a lock.  A step is the code between two accesses to a *)
(* global.  The numbers are abstracted: r_measure is the configured value  *)
(* or a scaled one, and an angle is named by the thread that stored it.    *)
(***************************************************************************)
EXTENDS Naturals

CONSTANTS
  Workers,     \* the worker threads of the queue
  Samplers,    \* the sampler threads that can exist at a time
  Monitor,     \* the hardware monitor thread
  NoThread,    \* owner of a free lock, and of angles nobody stored
  MaxCommands  \* bound on the commands executed

Threads == Workers \cup Samplers \cup {Monitor}

ASSUME ThreadAssumption ==
  /\ Workers \cap Samplers = {}
  /\ Monitor \notin Workers \cup Samplers
  /\ NoThread \notin Threads
  /\ MaxCommands \in Nat

VARIABLES
  imu_en,    \* get_ctx()->cfg.imu_en
  run,       \* get_ctx()->run
  r_measure, \* k_roll.r_measure and k_pitch.r_measure
  angles,    \* shared_angles: roll and pitch, and yaw
  lock,      \* the holder of angles_lock
  pc,        \* where each thread is
  orig,      \* orig_r_roll and orig_r_pitch of each sampler
  copy,      \* the angles a reporting thread has read
  commands   \* commands begun so far

vars == <<imu_en, run, r_measure, angles, lock, pc, orig, copy, commands>>

Live == {s \in Samplers : pc[s] # "none"}

Goto(t, label) == pc' = [pc EXCEPT ![t] = label]

Angles == [tilt : Threads \cup {NoThread}, yaw : Threads \cup {NoThread}]

Init ==
  /\ imu_en = FALSE /\ run = TRUE
  /\ r_measure = "base"
  /\ angles = [tilt |-> NoThread, yaw |-> NoThread]
  /\ lock = NoThread
  /\ pc = [t \in Threads |-> IF t \in Samplers THEN "none" ELSE "idle"]
  /\ orig = [s \in Samplers |-> "base"]
  /\ copy = [t \in Threads \ Samplers |-> angles]
  /\ commands = 0

-----------------------------------------------------------------------------
(***************************************************************************)
(* enable_imu_fn, by a worker                                              *)
(***************************************************************************)

Command(w) ==
  /\ pc[w] = "idle"
  /\ commands < MaxCommands
  /\ commands' = commands + 1

\* Already running, or the device is not found: nothing is done.
EnableCheck(w) ==
  /\ Command(w)
  /\ \/ UNCHANGED pc
     \/ ~imu_en /\ Goto(w, "init")
  /\ UNCHANGED <<imu_en, run, r_measure, angles, lock, orig, copy>>

\* imu_kalman_init sets the filters up; a path that is not accessible skips
\* the calibration, and the failure is logged and ignored.
KalmanInit(w) ==
  /\ pc[w] = "init"
  /\ r_measure' = "base"
  /\ \/ Goto(w, "calibrate")
     \/ Goto(w, "set")
  /\ UNCHANGED <<imu_en, run, angles, lock, orig, copy, commands>>

\* imu_kalman_calibrate refuses when the flag is set, and is then ignored.
CalibrateCheck(w) ==
  /\ pc[w] = "calibrate"
  /\ Goto(w, IF imu_en THEN "set" ELSE "sample")
  /\ UNCHANGED <<imu_en, run, r_measure, angles, lock, orig, copy, commands>>

\* 300 samples later the offsets and the filters are stored; a sample that
\* cannot be read ends the calibration, which is then ignored.
CalibrateStore(w) ==
  /\ pc[w] = "sample"
  /\ Goto(w, "lock") \/ Goto(w, "set")
  /\ UNCHANGED <<imu_en, run, r_measure, angles, lock, orig, copy, commands>>

SetEnabled(w) ==
  /\ pc[w] = "set"
  /\ imu_en' = TRUE
  /\ Goto(w, "create")
  /\ UNCHANGED <<run, r_measure, angles, lock, orig, copy, commands>>

\* Mutant: a failed pthread_create leaves the flag set.
CreateSamplerKeepFlag(w) ==
  /\ pc[w] = "create"
  /\ \/ \E s \in Samplers \ Live :
          pc' = [pc EXCEPT ![w] = "idle", ![s] = "loop"]
     \/ Goto(w, "idle")
  /\ UNCHANGED <<imu_en, run, r_measure, angles, lock, orig, copy, commands>>

\* pthread_create of imu_fn_handler
CreateSampler(w) ==
  /\ pc[w] = "create"
  /\ \/ \E s \in Samplers \ Live :
          /\ pc' = [pc EXCEPT ![w] = "idle", ![s] = "loop"]
          /\ UNCHANGED imu_en
     \/ imu_en' = FALSE /\ Goto(w, "idle")
  /\ UNCHANGED <<run, r_measure, angles, lock, orig, copy, commands>>

Enable(w) ==
  \/ KalmanInit(w) \/ CalibrateCheck(w) \/ CalibrateStore(w)
  \/ SetEnabled(w) \/ CreateSampler(w)

-----------------------------------------------------------------------------
(***************************************************************************)
(* disable_imu_fn, by a worker; shutdown by main                           *)
(***************************************************************************)

DisableCheck(w) ==
  /\ Command(w)
  /\ imu_en
  /\ Goto(w, "clear")
  /\ UNCHANGED <<imu_en, run, r_measure, angles, lock, orig, copy>>

DisableClear(w) ==
  /\ pc[w] = "clear"
  /\ imu_en' = FALSE
  /\ Goto(w, "idle")
  /\ UNCHANGED <<run, r_measure, angles, lock, orig, copy, commands>>

Stop ==
  /\ run
  /\ run' = FALSE
  /\ UNCHANGED <<imu_en, r_measure, angles, lock, pc, orig, copy, commands>>

-----------------------------------------------------------------------------
(***************************************************************************)
(* update_imu_state and imu_get_angles, by a worker or the monitor         *)
(***************************************************************************)

ReportCommand(w) ==
  /\ Command(w)
  /\ Goto(w, "get")
  /\ UNCHANGED <<imu_en, run, r_measure, angles, lock, orig, copy>>

ReportCycle ==
  /\ pc[Monitor] = "idle"
  /\ run /\ imu_en
  /\ Goto(Monitor, "get")
  /\ UNCHANGED <<imu_en, run, r_measure, angles, lock, orig, copy, commands>>

\* Mutant: the angles are copied without the lock.
GetLockFree(t) ==
  /\ pc[t] = "get"
  /\ Goto(t, "get_tilt")
  /\ UNCHANGED <<imu_en, run, r_measure, angles, lock, orig, copy, commands>>

GetLock(t) ==
  /\ pc[t] = "get"
  /\ lock = NoThread
  /\ lock' = t
  /\ Goto(t, "get_tilt")
  /\ UNCHANGED <<imu_en, run, r_measure, angles, orig, copy, commands>>

GetTilt(t) ==
  /\ pc[t] = "get_tilt"
  /\ copy' = [copy EXCEPT ![t].tilt = angles.tilt]
  /\ Goto(t, "get_yaw")
  /\ UNCHANGED <<imu_en, run, r_measure, angles, lock, orig, commands>>

GetYaw(t) ==
  /\ pc[t] = "get_yaw"
  /\ copy' = [copy EXCEPT ![t].yaw = angles.yaw]
  /\ lock' = NoThread
  /\ Goto(t, "report")
  /\ UNCHANGED <<imu_en, run, r_measure, angles, orig, commands>>

\* The report is built from the copy and pushed.
Report(t) ==
  /\ pc[t] = "report"
  /\ Goto(t, "idle")
  /\ UNCHANGED <<imu_en, run, r_measure, angles, lock, orig, copy, commands>>

GetAngles(t) == GetLock(t) \/ GetTilt(t) \/ GetYaw(t) \/ Report(t)

-----------------------------------------------------------------------------
(***************************************************************************)
(* imu_fn_handler, by a sampler                                            *)
(***************************************************************************)

\* Mutant: the loop looks at the run flag only.
SampleLoopForever(s) ==
  /\ pc[s] = "loop"
  /\ Goto(s, IF run THEN "save" ELSE "none")
  /\ UNCHANGED <<imu_en, run, r_measure, angles, lock, orig, copy, commands>>

\* while (imu_en && run); a sample that cannot be read comes back here.
SampleLoop(s) ==
  /\ pc[s] = "loop"
  /\ Goto(s, IF imu_en /\ run THEN "save" ELSE "none")
  /\ UNCHANGED <<imu_en, run, r_measure, angles, lock, orig, copy, commands>>

\* orig_r = k.r_measure
SaveMeasure(s) ==
  /\ pc[s] = "save"
  /\ orig' = [orig EXCEPT ![s] = r_measure]
  /\ Goto(s, "scale")
  /\ UNCHANGED <<imu_en, run, r_measure, angles, lock, copy, commands>>

\* k.r_measure = orig_r * rfac, where the factor may be 1
ScaleMeasure(s) ==
  /\ pc[s] = "scale"
  /\ r_measure' \in {orig[s], "scaled"}
  /\ Goto(s, "restore")
  /\ UNCHANGED <<imu_en, run, angles, lock, orig, copy, commands>>

\* kalman_update, then k.r_measure = orig_r
RestoreMeasure(s) ==
  /\ pc[s] = "restore"
  /\ r_measure' = orig[s]
  /\ Goto(s, "lock")
  /\ UNCHANGED <<imu_en, run, angles, lock, orig, copy, commands>>

Sample(s) ==
  SampleLoop(s) \/ SaveMeasure(s) \/ ScaleMeasure(s) \/ RestoreMeasure(s)

-----------------------------------------------------------------------------
(***************************************************************************)
(* The store into shared_angles, by a calibration or a sampler             *)
(***************************************************************************)

StoreLock(t) ==
  /\ pc[t] = "lock"
  /\ lock = NoThread
  /\ lock' = t
  /\ Goto(t, "store_tilt")
  /\ UNCHANGED <<imu_en, run, r_measure, angles, orig, copy, commands>>

StoreTilt(t) ==
  /\ pc[t] = "store_tilt"
  /\ angles' = [angles EXCEPT !.tilt = t]
  /\ Goto(t, "store_yaw")
  /\ UNCHANGED <<imu_en, run, r_measure, lock, orig, copy, commands>>

StoreYaw(t) ==
  /\ pc[t] = "store_yaw"
  /\ angles' = [angles EXCEPT !.yaw = t]
  /\ lock' = NoThread
  /\ Goto(t, IF t \in Samplers THEN "loop" ELSE "set")
  /\ UNCHANGED <<imu_en, run, r_measure, orig, copy, commands>>

StoreAngles(t) == StoreLock(t) \/ StoreTilt(t) \/ StoreYaw(t)

-----------------------------------------------------------------------------

WorkerStep(w) == Enable(w) \/ DisableClear(w) \/ GetAngles(w) \/ StoreAngles(w)

SamplerStep(s) == Sample(s) \/ StoreAngles(s)

\* The commands are used up and nobody has anything left to do.
Terminated ==
  /\ commands = MaxCommands
  /\ \A t \in Threads : pc[t] \in {"idle", "none"}
  /\ UNCHANGED vars

Next ==
  \/ \E w \in Workers :
       EnableCheck(w) \/ DisableCheck(w) \/ ReportCommand(w) \/ WorkerStep(w)
  \/ \E s \in Samplers : SamplerStep(s)
  \/ ReportCycle \/ GetAngles(Monitor)
  \/ Stop
  \/ Terminated

(***************************************************************************)
(* A thread inside a function runs on, and the monitor's cycle comes       *)
(* round.  Commands and the shutdown may never come.                       *)
(***************************************************************************)
Fairness ==
  /\ \A w \in Workers : WF_vars(WorkerStep(w))
  /\ \A s \in Samplers : WF_vars(SamplerStep(s))
  /\ WF_vars(ReportCycle \/ GetAngles(Monitor))

Spec     == Init /\ [][Next]_vars
FairSpec == Spec /\ Fairness

-----------------------------------------------------------------------------

StoreLabels == {"lock", "store_tilt", "store_yaw"}
GetLabels   == {"idle", "get", "get_tilt", "get_yaw", "report"}

(* The types of the variables (imu.c's globals and cfg.imu_en).            *)
TypeOK ==
  /\ imu_en \in BOOLEAN /\ run \in BOOLEAN
  /\ r_measure \in {"base", "scaled"}
  /\ angles \in Angles
  /\ lock \in Threads \cup {NoThread}
  /\ \A w \in Workers :
       pc[w] \in {"init", "calibrate", "sample", "set", "create", "clear"}
                 \cup StoreLabels \cup GetLabels
  /\ \A s \in Samplers :
       pc[s] \in {"none", "loop", "save", "scale", "restore"} \cup StoreLabels
  /\ pc[Monitor] \in GetLabels
  /\ DOMAIN pc = Threads
  /\ orig \in [Samplers -> {"base", "scaled"}]
  /\ copy \in [Threads \ Samplers -> Angles]
  /\ commands \in 0 .. MaxCommands

(***************************************************************************)
(* While the service runs the IMU is never marked enabled with nobody to   *)
(* sample it, whatever enables, disables and failed thread creations the   *)
(* two workers interleave: a sampler lives or is about to be created.      *)
(***************************************************************************)
EnabledHasSampler ==
  imu_en /\ run => Live # {} \/ \E w \in Workers : pc[w] = "create"

(***************************************************************************)
(* A report never mixes the tilt of one store with the yaw of another      *)
(* (imu_get_angles against imu_fn_handler and imu_kalman_calibrate).       *)
(***************************************************************************)
NoTornReport ==
  \A t \in Threads \ Samplers : pc[t] = "report" => copy[t].tilt = copy[t].yaw

(***************************************************************************)
(* After a disable every sampler ends unless an enable comes meanwhile,    *)
(* although no one waits for it.                                           *)
(***************************************************************************)
DisableStops == ~imu_en ~> imu_en \/ Live = {}

(***************************************************************************)
(* Claim of src/src/hw/imu/imu.c:498, "restore r_measure": outside of an   *)
(* update the filters have the measurement noise they were set up with.    *)
(***************************************************************************)
MeasureRestored ==
  (\A s \in Samplers : pc[s] \notin {"scale", "restore"}) => r_measure = "base"
=============================================================================
