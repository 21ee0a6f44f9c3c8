------------------------------ MODULE Backlight ------------------------------
(***************************************************************************)
(* The backlight: src/src/hw/backlight.c and src/src/hw/als.c, run by the  *)
(* workers of the queue (the backlight commands) and, when the ambient     *)
(* light sensor is enabled, by every cycle of the hardware monitor.  No    *)
(* lock protects the brightness file or the reports: a step is the code    *)
(* between two accesses to a file, to als_en or to the queue.              *)
(*                                                                         *)
(* A level is a brightness in percent.  Targets never exceed PctMax, so    *)
(* the uint8_t counter of brightness_ramp does not wrap.                   *)
(***************************************************************************)
EXTENDS Integers

CONSTANTS
  Workers,      \* the worker threads of the queue
  Monitor,      \* the hardware monitor thread
  Luxes,        \* readings of the light sensor; times PctMax they fit an int
  LuxMax,       \* lux_max
  PctMax,       \* pct_max
  StepThresh,   \* step_thresh
  MaxCommands,  \* bound on the commands executed
  MaxChanges,   \* bound on the changes of the ambient light
  MaxFaults     \* bound on the file operations that fail

Threads == Workers \cup {Monitor}
Levels  == 0 .. PctMax

ASSUME BacklightAssumption ==
  /\ Monitor \notin Workers
  /\ Luxes \subseteq Int
  /\ LuxMax \in Nat \ {0}
  /\ PctMax \in 1 .. 254
  /\ StepThresh \in Nat
  /\ MaxCommands \in Nat /\ MaxChanges \in Nat /\ MaxFaults \in Nat

VARIABLES
  lux,        \* what the sensor would read
  als_en,     \* get_ctx()->cfg.als_en
  brightness, \* the brightness file
  reported,   \* the brightness of the last report pushed
  pc,         \* where each thread is
  from,       \* the brightness a thread has read
  to,         \* the level its ramp goes to
  level,      \* the level its ramp writes next
  commands,   \* commands begun so far
  changes,    \* changes of the ambient light so far
  faults      \* failed file operations so far

vars == <<lux, als_en, brightness, reported, pc, from, to, level, commands,
          changes, faults>>

ramp   == <<from, to, level>>
bounds == <<commands, changes, faults>>

Goto(t, label) == pc' = [pc EXCEPT ![t] = label]

Fault == faults < MaxFaults /\ faults' = faults + 1

Distance(a, b) == IF a < b THEN b - a ELSE a - b

Init ==
  /\ lux \in Luxes
  /\ als_en = FALSE
  /\ brightness \in Levels
  /\ reported = 0
  /\ pc = [t \in Threads |-> "idle"]
  /\ from = [t \in Threads |-> 0]
  /\ to = [t \in Threads |-> 0]
  /\ level = [t \in Threads |-> 0]
  /\ commands = 0 /\ changes = 0 /\ faults = 0

-----------------------------------------------------------------------------
(***************************************************************************)
(* set_brightness and brightness_ramp                                      *)
(***************************************************************************)

\* The kernel cannot set the backlight to zero.
Written(l) == IF l = 0 THEN 1 ELSE l

\* Mutant: the ramp is left after its first write.
RampStepOnce(t) ==
  /\ pc[t] \in {"ramp_auto", "ramp_off"}
  /\ brightness' = Written(level[t])
  /\ Goto(t, IF pc[t] = "ramp_auto" THEN "report" ELSE "idle")
  /\ UNCHANGED <<lux, als_en, reported, ramp, bounds>>

\* One iteration of the ramp; a failed write ends it and the caller.
RampStep(t) ==
  /\ pc[t] \in {"ramp_auto", "ramp_off"}
  /\ \/ /\ Fault
        /\ Goto(t, "idle")
        /\ UNCHANGED <<brightness, level>>
     \/ /\ brightness' = Written(level[t])
        /\ IF level[t] = to[t]
           THEN /\ Goto(t, IF pc[t] = "ramp_auto" THEN "report" ELSE "idle")
                /\ UNCHANGED level
           ELSE /\ level' = [level EXCEPT ![t] =
                               IF @ < to[t] THEN @ + 1 ELSE @ - 1]
                /\ UNCHANGED pc
        /\ UNCHANGED faults
  /\ UNCHANGED <<lux, als_en, reported, from, to, commands, changes>>

-----------------------------------------------------------------------------
(***************************************************************************)
(* report_backlight_state                                                  *)
(***************************************************************************)

\* get_brightness; when it fails the report says 0.
ReportRead(t) ==
  /\ pc[t] = "report"
  /\ \/ from' = [from EXCEPT ![t] = brightness] /\ UNCHANGED faults
     \/ Fault /\ from' = [from EXCEPT ![t] = 0]
  /\ Goto(t, "push")
  /\ UNCHANGED <<lux, als_en, brightness, reported, to, level, commands, changes>>

\* create_remote_task
ReportPush(t) ==
  /\ pc[t] = "push"
  /\ reported' = from[t]
  /\ Goto(t, "idle")
  /\ UNCHANGED <<lux, als_en, brightness, ramp, bounds>>

-----------------------------------------------------------------------------
(***************************************************************************)
(* handle_auto_brightness                                                  *)
(***************************************************************************)

Clamp(v) == IF v < 0 THEN 0 ELSE IF v > PctMax THEN PctMax ELSE v

\* A negative quotient is rounded down here and towards zero in C: the clamp
\* makes both 0.
Target(l) == Clamp((l * PctMax) \div LuxMax)

\* Mutant: every variation is followed.
IsSmallNever(a, b) == a = b

\* Small variations are skipped, to avoid flicker.
IsSmall(a, b) == Distance(a, b) < StepThresh

\* als_read_illuminance: a missing file is an error; a read that fails is
\* not, and leaves lux uninitialised.
ReadLux(t) ==
  /\ pc[t] = "lux"
  /\ \/ /\ to' = [to EXCEPT ![t] = Target(lux)]
        /\ Goto(t, "get")
        /\ UNCHANGED faults
     \/ /\ Fault
        /\ UNCHANGED to
        /\ Goto(t, "idle")
     \/ /\ Fault
        /\ \E l \in Levels : to' = [to EXCEPT ![t] = l]
        /\ Goto(t, "get")
  /\ UNCHANGED <<lux, als_en, brightness, reported, from, level, commands,
                 changes>>

GetBrightness(t) ==
  /\ pc[t] = "get"
  /\ \/ /\ from' = [from EXCEPT ![t] = brightness]
        /\ Goto(t, IF IsSmall(to[t], brightness) THEN "idle" ELSE "announce")
        /\ UNCHANGED faults
     \/ /\ Fault
        /\ Goto(t, "idle")
        /\ UNCHANGED from
  /\ UNCHANGED <<lux, als_en, brightness, reported, to, level, commands, changes>>

\* Mutant: the ramp starts in the dark, not at the present brightness.
AnnounceFromZero(t) ==
  /\ pc[t] = "announce"
  /\ reported' = to[t]
  /\ level' = [level EXCEPT ![t] = 0]
  /\ Goto(t, "ramp_auto")
  /\ UNCHANGED <<lux, als_en, brightness, from, to, bounds>>

\* The target is reported before the ramp to it starts.
Announce(t) ==
  /\ pc[t] = "announce"
  /\ reported' = to[t]
  /\ level' = [level EXCEPT ![t] = from[t]]
  /\ Goto(t, "ramp_auto")
  /\ UNCHANGED <<lux, als_en, brightness, from, to, bounds>>

\* Mutant: the monitor's cycle does not look at als_en.
MonitorCycleAlways ==
  /\ pc[Monitor] = "idle"
  /\ Goto(Monitor, "lux")
  /\ UNCHANGED <<lux, als_en, brightness, reported, ramp, bounds>>

\* A cycle of hw_monitor_loop.
MonitorCycle ==
  /\ pc[Monitor] = "idle"
  /\ als_en
  /\ Goto(Monitor, "lux")
  /\ UNCHANGED <<lux, als_en, brightness, reported, ramp, bounds>>

-----------------------------------------------------------------------------
(***************************************************************************)
(* The commands, by a worker                                               *)
(***************************************************************************)

Command(w) ==
  /\ pc[w] = "idle"
  /\ commands < MaxCommands
  /\ commands' = commands + 1

\* enable_backlight: without the sensor it does nothing.
EnableBacklight(w) ==
  /\ Command(w)
  /\ \/ Goto(w, "lux") /\ UNCHANGED faults
     \/ Fault /\ UNCHANGED pc
  /\ UNCHANGED <<lux, als_en, brightness, reported, ramp, changes>>

\* disable_backlight: a brightness that cannot be read is set to 0 at once.
DisableBacklight(w) ==
  /\ Command(w)
  /\ \/ /\ brightness # 0
        /\ from' = [from EXCEPT ![w] = brightness]
        /\ level' = [level EXCEPT ![w] = brightness]
        /\ to' = [to EXCEPT ![w] = 0]
        /\ Goto(w, "ramp_off")
        /\ UNCHANGED faults
     \/ /\ brightness = 0
        /\ UNCHANGED <<ramp, pc, faults>>
     \/ /\ Fault
        /\ from' = [from EXCEPT ![w] = 0]
        /\ level' = [level EXCEPT ![w] = 0]
        /\ to' = [to EXCEPT ![w] = 0]
        /\ Goto(w, "ramp_off")
  /\ UNCHANGED <<lux, als_en, brightness, reported, changes>>

\* OP_ADJUST_BRIGHTNESS: set_brightness of the given value, no report.
AdjustBrightness(w) ==
  /\ Command(w)
  /\ \/ \E l \in Levels : brightness' = Written(l) /\ UNCHANGED faults
     \/ Fault /\ UNCHANGED brightness
  /\ UNCHANGED <<lux, als_en, reported, pc, ramp, changes>>

\* OP_BACKLIGHT_STATE
StateCommand(w) ==
  /\ Command(w)
  /\ Goto(w, "report")
  /\ UNCHANGED <<lux, als_en, brightness, reported, ramp, changes, faults>>

\* OP_ENA_ALS and OP_DIS_ALS
SwitchAls(w) ==
  /\ Command(w)
  /\ als_en' \in BOOLEAN
  /\ UNCHANGED <<lux, brightness, reported, pc, ramp, changes, faults>>

AmbientChange ==
  /\ changes < MaxChanges
  /\ changes' = changes + 1
  /\ lux' \in Luxes
  /\ UNCHANGED <<als_en, brightness, reported, pc, ramp, commands, faults>>

-----------------------------------------------------------------------------

Step(t) ==
  \/ RampStep(t) \/ ReportRead(t) \/ ReportPush(t)
  \/ ReadLux(t) \/ GetBrightness(t) \/ Announce(t)

StartCommand(w) ==
  \/ EnableBacklight(w) \/ DisableBacklight(w) \/ AdjustBrightness(w)
  \/ StateCommand(w) \/ SwitchAls(w)

\* The commands are used up and the monitor has nothing to do.
Terminated ==
  /\ commands = MaxCommands /\ ~als_en
  /\ \A t \in Threads : pc[t] = "idle"
  /\ UNCHANGED vars

Next ==
  \/ \E t \in Threads : Step(t)
  \/ \E w \in Workers : StartCommand(w)
  \/ MonitorCycle
  \/ AmbientChange
  \/ Terminated

\* Threads run; nobody has to send a command or change the light.
Fairness ==
  /\ \A w \in Workers : WF_vars(Step(w))
  /\ WF_vars(Step(Monitor) \/ MonitorCycle)

Spec     == Init /\ [][Next]_vars
FairSpec == Spec /\ Fairness

-----------------------------------------------------------------------------

(* The types of the variables (the files, cfg.als_en and the locals).      *)
TypeOK ==
  /\ lux \in Luxes
  /\ als_en \in BOOLEAN
  /\ brightness \in Levels
  /\ reported \in Levels
  /\ pc \in [Threads -> {"idle", "lux", "get", "announce", "ramp_auto",
                         "ramp_off", "report", "push"}]
  /\ from \in [Threads -> Levels]
  /\ to \in [Threads -> Levels]
  /\ level \in [Threads -> Levels]
  /\ commands \in 0 .. MaxCommands
  /\ changes \in 0 .. MaxChanges
  /\ faults \in 0 .. MaxFaults

(***************************************************************************)
(* A ramp only moves towards its end, and ends there: its next level lies  *)
(* between where it began and where it goes, also when other threads write *)
(* the file meanwhile.                                                     *)
(***************************************************************************)
RampInside ==
  \A t \in Threads : pc[t] \in {"ramp_auto", "ramp_off"} =>
    Distance(from[t], level[t]) + Distance(level[t], to[t])
      = Distance(from[t], to[t])

(***************************************************************************)
(* With the sensor enabled, and once light, commands and faults are over,  *)
(* the brightness comes to and stays near the target, whatever ramps of    *)
(* the two workers and of the monitor overlapped before.                   *)
(***************************************************************************)
Converges == <>[](als_en => IsSmall(Target(lux), brightness))

(***************************************************************************)
(* In steady light the service stops writing and reporting: the floor of   *)
(* set_brightness is within the threshold of a target of 0, so the monitor *)
(* does not ramp for ever between the two.                                 *)
(***************************************************************************)
NoFlicker ==
  <>[](\A t \in Threads : pc[t] \notin {"announce", "ramp_auto", "ramp_off"})

(***************************************************************************)
(* After the last OP_DIS_ALS the monitor finishes the cycle it is in and   *)
(* leaves the backlight alone.                                             *)
(***************************************************************************)
MonitorLetsGo == <>[](~als_en => pc[Monitor] = "idle")
=============================================================================
