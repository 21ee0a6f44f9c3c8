--------------------------- MODULE BacklightProofs ---------------------------
(***************************************************************************)
(* What holds of the backlight for every set of workers, every scale and   *)
(* threshold: levels stay on the scale, and a ramp stays between where it  *)
(* began and where it goes.                                                *)
(***************************************************************************)
EXTENDS Backlight, TLAPS

IInv == TypeOK /\ RampInside

-----------------------------------------------------------------------------
\* The workers and the monitor are threads.
LEMMA ThreadKinds == Workers \subseteq Threads /\ Monitor \in Threads
BY DEF Threads

\* The target of automatic brightness is on the scale, whatever the light.
LEMMA TargetIsLevel ==
  ASSUME NEW l \in Luxes
  PROVE  Target(l) \in Levels
<1>1. l \in Int /\ PctMax \in Nat /\ LuxMax \in Nat /\ LuxMax > 0
  BY BacklightAssumption
<1>2. l * PctMax \in Int
  BY <1>1
<1>3. ASSUME NEW a \in Int
      PROVE  a \div LuxMax \in Int
  BY <1>1
<1>4. (l * PctMax) \div LuxMax \in Int
  BY <1>2, <1>3
<1>5. ASSUME NEW q \in Int
      PROVE  Clamp(q) \in Levels
  BY <1>1 DEF Clamp, Levels
<1> QED
  BY <1>4, <1>5 DEF Target

\* set_brightness keeps a level on the scale, also when it does not write 0.
LEMMA WrittenIsLevel ==
  ASSUME NEW l \in Levels
  PROVE  Written(l) \in Levels
BY BacklightAssumption DEF Written, Levels

\* One step of a ramp towards its end.
LEMMA StepTowards ==
  ASSUME NEW a \in Levels, NEW b \in Levels, NEW l \in Levels, l # b,
         Distance(a, l) + Distance(l, b) = Distance(a, b)
  PROVE  LET m == IF l < b THEN l + 1 ELSE l - 1 IN
         /\ m \in Levels
         /\ Distance(a, m) + Distance(m, b) = Distance(a, b)
BY BacklightAssumption DEF Distance, Levels

\* A ramp that has not begun is at its start.
LEMMA StartOfRamp ==
  ASSUME NEW a \in Levels, NEW b \in Levels
  PROVE  Distance(a, a) + Distance(a, b) = Distance(a, b)
BY BacklightAssumption DEF Distance, Levels

\* The start of the service satisfies the invariant.
LEMMA InitIInv == Init => IInv
<1> SUFFICES ASSUME Init PROVE IInv
  OBVIOUS
<1>1. 0 \in Levels
  BY BacklightAssumption DEF Levels
<1>2. \A t \in Threads : pc[t] = "idle"
  BY DEF Init
<1>3. from \in [Threads -> Levels] /\ to \in [Threads -> Levels]
      /\ level \in [Threads -> Levels]
  BY <1>1 DEF Init
<1>4. /\ commands \in 0 .. MaxCommands /\ changes \in 0 .. MaxChanges
      /\ faults \in 0 .. MaxFaults
  BY BacklightAssumption DEF Init
<1> QED
  BY <1>1, <1>2, <1>3, <1>4 DEF Init, IInv, TypeOK, RampInside

-----------------------------------------------------------------------------
\* The steps of the functions that the commands and the monitor run.
LEMMA StepKeeps ==
  ASSUME IInv, NEW t \in Threads, Step(t)
  PROVE  IInv'
<1> USE BacklightAssumption DEF IInv, TypeOK, RampInside, Goto, Fault
<1>0. 0 \in Levels
  BY DEF Levels
<1>1. CASE RampStep(t)
  <2>1. Written(level[t]) \in Levels
    BY WrittenIsLevel
  <2>2. CASE level[t] = to[t] \/ level' = level
    BY <1>1, <2>1, <2>2 DEF RampStep
  <2>3. CASE level[t] # to[t] /\ level' # level
    <3>1. LET m == IF level[t] < to[t] THEN level[t] + 1 ELSE level[t] - 1 IN
          /\ level' = [level EXCEPT ![t] = m]
          /\ m \in Levels
          /\ Distance(from[t], m) + Distance(m, to[t]) = Distance(from[t], to[t])
      BY <1>1, <2>3, StepTowards DEF RampStep
    <3> QED
      BY <1>1, <2>1, <2>3, <3>1 DEF RampStep
  <2> QED
    BY <2>2, <2>3
<1>2. CASE ReportRead(t) \/ ReportPush(t)
  BY <1>0, <1>2 DEF ReportRead, ReportPush, ramp, bounds
<1>3. CASE ReadLux(t)
  BY <1>3, TargetIsLevel DEF ReadLux
<1>4. CASE GetBrightness(t)
  BY <1>4 DEF GetBrightness
<1>5. CASE Announce(t)
  BY <1>5, StartOfRamp DEF Announce, bounds
<1> QED
  BY <1>1, <1>2, <1>3, <1>4, <1>5 DEF Step

\* The commands; a disable begins a ramp to 0 where the brightness is.
LEMMA CommandKeeps ==
  ASSUME IInv, NEW w \in Workers, StartCommand(w)
  PROVE  IInv'
<1> USE BacklightAssumption, ThreadKinds
    DEF IInv, TypeOK, RampInside, Goto, Fault, Command
<1>0. 0 \in Levels
  BY DEF Levels
<1>1. CASE EnableBacklight(w) \/ StateCommand(w) \/ SwitchAls(w)
  BY <1>1 DEF EnableBacklight, StateCommand, SwitchAls, ramp
<1>2. CASE DisableBacklight(w)
  BY <1>0, <1>2, StartOfRamp DEF DisableBacklight, ramp
<1>3. CASE AdjustBrightness(w)
  BY <1>3, WrittenIsLevel DEF AdjustBrightness, ramp
<1> QED
  BY <1>1, <1>2, <1>3 DEF StartCommand

\* The monitor's cycle begins, or the light changes.
LEMMA OtherKeeps ==
  ASSUME IInv, MonitorCycle \/ AmbientChange \/ UNCHANGED vars
  PROVE  IInv'
BY BacklightAssumption, ThreadKinds
   DEF IInv, TypeOK, RampInside, Goto, MonitorCycle, AmbientChange, ramp,
       bounds, vars

\* The invariant holds in every reachable state.
LEMMA Invariance == Spec => []IInv
<1>1. IInv /\ [Next]_vars => IInv'
  BY StepKeeps, CommandKeeps, OtherKeeps DEF Next, Terminated
<1> QED
  BY <1>1, InitIInv, PTL DEF Spec

(* Every brightness that is read, written, reported or aimed at is on the  *)
(* scale 0 .. pct_max (set_brightness, handle_auto_brightness).            *)
THEOREM TypeCorrect == Spec => []TypeOK
<1>1. IInv => TypeOK
  BY DEF IInv
<1> QED
  BY <1>1, Invariance, PTL

(* The next level of a ramp lies between its start and its end, also when  *)
(* other threads write the file meanwhile (brightness_ramp).               *)
THEOREM RampsStayInside == Spec => []RampInside
<1>1. IInv => RampInside
  BY DEF IInv
<1> QED
  BY <1>1, Invariance, PTL
=============================================================================
