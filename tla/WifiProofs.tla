----------------------------- MODULE WifiProofs -----------------------------
(***************************************************************************)
(* What holds of the signal connections of Wifi for every set of workers   *)
(* and all bounds: how often the switch's callback can be connected, that  *)
(* a scan is reported once, and that the scan signal follows the switch.   *)
(* Then, of the reports: that lists are complete and commands accounted.   *)
(***************************************************************************)
EXTENDS Wifi, FiniteSetTheorems, TLAPS

\* The part of TypeOK the connections rest on.
ConnType ==
  /\ radio \in Switch /\ enabled \in Switch
  /\ device \in BOOLEAN
  /\ clientHandlers \in Nat /\ scanHandlers \in {0, 1} /\ emits \in Nat
  /\ pc \in [Threads -> Labels]
  /\ wish \in [Workers -> Switch]

Connecting == {w \in Workers : pc[w] = "connect"}

\* A worker that has found no handler is counted as if it had connected its
\* own: nobody else starts once one of them has.
ConnectInv == clientHandlers + Cardinality(Connecting) <= Cardinality(Workers)

Matches == scanHandlers = (IF enabled = "on" THEN 1 ELSE 0)

\* Where main is during an emission, and what an emission leaves behind.
FollowInv ==
  /\ pc[Main] \in {"idle", "list", "collect", "delete"} => emits = 0
  /\ pc[Main] = "scan_signal" => emits > 0
  /\ (emits > 0 \/ told # "none") => clientHandlers > 0
  /\ (device /\ told # "none" /\ emits = 0) => Matches

IInv == ConnType /\ ConnectInv /\ FollowInv

-----------------------------------------------------------------------------
\* The set of connecting workers is finite and no larger than Workers.
LEMMA ConnectingFinite ==
  /\ IsFiniteSet(Connecting)
  /\ Cardinality(Connecting) \in Nat
  /\ Cardinality(Workers) \in Nat
  /\ Cardinality(Connecting) <= Cardinality(Workers)
<1>1. IsFiniteSet(Workers)
  BY WifiAssumption
<1>2. Connecting \in SUBSET Workers
  BY DEF Connecting
<1> QED
  BY <1>1, <1>2, FS_Subset, FS_CardinalityType

\* A thread that neither comes from nor goes to "connect" disturbs nothing
\* of what ConnectInv counts.
LEMMA QuietStep ==
  ASSUME ConnType, ConnectInv, NEW t \in Threads, NEW label \in Labels,
         pc[t] # "connect", label # "connect", Goto(t, label),
         clientHandlers' = clientHandlers
  PROVE  /\ pc' = [pc EXCEPT ![t] = label]
         /\ pc' \in [Threads -> Labels]
         /\ ConnectInv'
<1>1. pc' = [pc EXCEPT ![t] = label] /\ pc' \in [Threads -> Labels]
  BY DEF Goto, ConnType
<1>2. Connecting' = Connecting
  BY <1>1 DEF Connecting, ConnType, Threads
<1> QED
  BY <1>1, <1>2 DEF ConnectInv

\* The same of a step that moves no thread.
LEMMA StillStep ==
  ASSUME ConnType, ConnectInv, UNCHANGED <<pc, clientHandlers>>
  PROVE  pc' \in [Threads -> Labels] /\ ConnectInv'
<1>1. Connecting' = Connecting
  BY DEF Connecting
<1> QED
  BY <1>1 DEF ConnectInv, ConnType

LEMMA MainIsNoWorker == Main \in Threads /\ Workers \subseteq Threads /\ Main \notin Workers
  BY WifiAssumption DEF Threads

LEMMA InitIInv == Init => IInv
<1> SUFFICES ASSUME Init PROVE IInv
  OBVIOUS
<1>1. ConnType
  BY MainIsNoWorker DEF Init, ConnType, Switch, Labels
<1>2. ConnectInv
  BY ConnectingFinite DEF Init, ConnectInv
<1>3. FollowInv
  BY MainIsNoWorker DEF Init, FollowInv
<1> QED
  BY <1>1, <1>2, <1>3 DEF IInv

-----------------------------------------------------------------------------
(***************************************************************************)
(* Reports and lists: they connect nothing, but a callback's report ends   *)
(* where the scan signal comes next.                                       *)
(***************************************************************************)
LEMMA ReportKeeps ==
  ASSUME IInv, NEW t \in Threads, Report(t)
  PROVE  IInv'
<1> USE DEF IInv
<1>a. /\ UNCHANGED <<network, handlers, wish, emits>>
      /\ \/ told' = told
         \/ t = Main /\ emits > 0
  BY DEF Report, ReportCreate, ReportActive, ReportPush, Tells, network, handlers
<1>b. PICK label \in {"active", "push", "scan_signal", "idle"} :
        /\ Goto(t, label)
        /\ label = "scan_signal" => t = Main /\ emits > 0
        /\ label = "idle" /\ t = Main => emits = 0
        /\ pc[t] \in {"report", "active", "push"}
  <2>1. CASE ReportCreate(t)
    BY <2>1 DEF ReportCreate, AfterReport, ConnType
  <2>2. CASE ReportActive(t)
    BY <2>2 DEF ReportActive
  <2>3. CASE ReportPush(t)
    BY <2>3 DEF ReportPush, AfterReport, ConnType
  <2> QED
    BY <2>1, <2>2, <2>3 DEF Report
<1>1. /\ pc' = [pc EXCEPT ![t] = label]
      /\ pc' \in [Threads -> Labels]
      /\ ConnectInv'
  BY <1>a, <1>b, QuietStep DEF Labels, handlers
<1>2. ConnType'
  BY <1>a, <1>1 DEF ConnType, network, handlers
<1>3. FollowInv'
  BY <1>a, <1>b, <1>1, MainIsNoWorker
  DEF FollowInv, Matches, ConnType, network, handlers
<1> QED
  BY <1>1, <1>2, <1>3

LEMMA ListKeeps ==
  ASSUME IInv, NEW t \in Threads, List(t)
  PROVE  IInv'
<1> USE DEF IInv
<1>a. UNCHANGED <<network, handlers, wish, emits, told>>
  BY DEF List, ListCreate, ListCollect, ListPush, ListDelete, network, handlers
<1>b. pc[t] \in {"list", "collect", "delete"}
  BY DEF List, ListCreate, ListCollect, ListPush, ListDelete
<1>c. PICK label \in {"collect", "delete", "idle"} : Goto(t, label)
  <2>1. CASE ListCreate(t)
    BY <2>1 DEF ListCreate
  <2>2. CASE ListCollect(t)
    BY <1>b, <2>2 DEF ListCollect, Goto, ConnType
  <2>3. CASE ListPush(t)
    BY <2>3 DEF ListPush
  <2>4. CASE ListDelete(t)
    BY <2>4 DEF ListDelete
  <2> QED
    BY <2>1, <2>2, <2>3, <2>4 DEF List
<1>1. /\ pc' = [pc EXCEPT ![t] = label]
      /\ pc' \in [Threads -> Labels]
      /\ ConnectInv'
  BY <1>a, <1>b, <1>c, QuietStep DEF Labels, handlers
<1>2. ConnType'
  BY <1>a, <1>1 DEF ConnType, network, handlers
<1>3. FollowInv'
  BY <1>a, <1>b, <1>1, MainIsNoWorker
  DEF FollowInv, Matches, ConnType, network, handlers
<1> QED
  BY <1>1, <1>2, <1>3

-----------------------------------------------------------------------------
(***************************************************************************)
(* The commands of the workers                                             *)
(***************************************************************************)
LEMMA StartKeeps ==
  ASSUME IInv, NEW w \in Workers, Start(w)
  PROVE  IInv'
<1> USE DEF IInv
<1>a. UNCHANGED <<network, handlers, emits, told>> /\ pc[w] = "idle"
  BY DEF Start, StartSwitch, StartReport, StartList, network, handlers
<1>b. PICK label \in {"find", "report", "list", "idle"} : Goto(w, label)
  <2>1. CASE StartSwitch(w)
    BY <2>1, MainIsNoWorker DEF StartSwitch, HandleDeviceState, Goto, ConnType
  <2>2. CASE StartReport(w)
    BY <2>2 DEF StartReport
  <2>3. CASE StartList(w)
    BY <2>3 DEF StartList
  <2> QED
    BY <2>1, <2>2, <2>3 DEF Start
<1>c. wish' \in [Workers -> Switch]
  BY DEF Start, StartSwitch, StartReport, StartList, ConnType
<1>1. /\ pc' = [pc EXCEPT ![w] = label]
      /\ pc' \in [Threads -> Labels]
      /\ ConnectInv'
  BY <1>a, <1>b, QuietStep, MainIsNoWorker DEF Labels, handlers
<1>2. ConnType'
  BY <1>a, <1>c, <1>1 DEF ConnType, network, handlers
<1>3. FollowInv'
  BY <1>a, <1>1, MainIsNoWorker
  DEF FollowInv, Matches, ConnType, network, handlers
<1> QED
  BY <1>1, <1>2, <1>3

\* A worker goes on to connect only if no handler is connected: then those
\* that connect are all there can be.
LEMMA FindKeeps ==
  ASSUME IInv, NEW w \in Workers, FindHandler(w)
  PROVE  IInv'
<1> USE DEF IInv
<1>a. UNCHANGED <<network, handlers, wish, emits, told>> /\ pc[w] = "find"
  BY DEF FindHandler, network, handlers
<1>1. CASE clientHandlers = 0
  <2>1. pc' = [pc EXCEPT ![w] = "connect"]
    BY <1>1 DEF FindHandler, Goto
  <2>2. Connecting' \in SUBSET Workers
    BY DEF Connecting
  <2>3. Cardinality(Connecting') <= Cardinality(Workers)
    BY <2>2, FS_Subset, WifiAssumption
  <2>4. ConnectInv'
    <3>1. IsFiniteSet(Connecting') /\ Cardinality(Connecting') \in Nat
      BY <2>2, FS_Subset, FS_CardinalityType, WifiAssumption
    <3> QED
      BY <1>1, <1>a, <2>3, <3>1, ConnectingFinite DEF ConnectInv, handlers
  <2>5. ConnType'
    BY <1>a, <2>1, MainIsNoWorker DEF ConnType, Labels, network, handlers
  <2>6. FollowInv'
    BY <1>a, <2>1, MainIsNoWorker
    DEF FollowInv, Matches, ConnType, network, handlers
  <2> QED
    BY <2>4, <2>5, <2>6
<1>2. CASE clientHandlers # 0
  <2>1. /\ pc' = [pc EXCEPT ![w] = "set"]
        /\ pc' \in [Threads -> Labels]
        /\ ConnectInv'
    BY <1>2, <1>a, QuietStep, MainIsNoWorker DEF FindHandler, Labels, handlers
  <2>2. ConnType'
    BY <1>a, <2>1 DEF ConnType, network, handlers
  <2>3. FollowInv'
    BY <1>a, <2>1, MainIsNoWorker
    DEF FollowInv, Matches, ConnType, network, handlers
  <2> QED
    BY <2>1, <2>2, <2>3
<1> QED
  BY <1>1, <1>2

\* One handler more, one connecting worker less.
LEMMA ConnectKeeps ==
  ASSUME IInv, NEW w \in Workers, ConnectHandler(w)
  PROVE  IInv'
<1> USE DEF IInv
<1>a. /\ UNCHANGED <<network, scanHandlers, wish, emits, told>>
      /\ clientHandlers' = clientHandlers + 1
      /\ pc[w] = "connect"
      /\ pc' = [pc EXCEPT ![w] = "set"]
  BY DEF ConnectHandler, Goto, network
<1>1. ConnectInv'
  <2>1. Connecting' = Connecting \ {w} /\ w \in Connecting
    BY <1>a, MainIsNoWorker DEF Connecting, ConnType
  <2>2. Cardinality(Connecting') = Cardinality(Connecting) - 1
    BY <2>1, ConnectingFinite, FS_RemoveElement
  <2> QED
    BY <1>a, <2>2, ConnectingFinite DEF ConnectInv, ConnType
<1>2. ConnType'
  BY <1>a, MainIsNoWorker DEF ConnType, Labels, network
<1>3. FollowInv'
  BY <1>a, MainIsNoWorker DEF FollowInv, Matches, ConnType, network
<1> QED
  BY <1>1, <1>2, <1>3

LEMMA SetKeeps ==
  ASSUME IInv, NEW w \in Workers, SetEnabled(w)
  PROVE  IInv'
<1> USE DEF IInv
<1>a. /\ UNCHANGED <<enabled, device, handlers, emits, told>>
      /\ pc[w] = "set" /\ Goto(w, "idle")
      /\ radio' \in Switch /\ wish' \in [Workers -> Switch]
  BY DEF SetEnabled, ConnType, handlers, Switch
<1>1. /\ pc' = [pc EXCEPT ![w] = "idle"]
      /\ pc' \in [Threads -> Labels]
      /\ ConnectInv'
  BY <1>a, QuietStep, MainIsNoWorker DEF Labels, handlers
<1>2. ConnType'
  BY <1>a, <1>1 DEF ConnType, handlers
<1>3. FollowInv'
  BY <1>a, <1>1, MainIsNoWorker DEF FollowInv, Matches, ConnType, handlers
<1> QED
  BY <1>1, <1>2, <1>3

LEMMA SendKeeps ==
  ASSUME IInv, NEW w \in Workers, SendReport(w)
  PROVE  IInv'
<1> USE DEF IInv
<1>a. UNCHANGED <<network, handlers, pc, wish, emits, told>>
  BY DEF SendReport, network, handlers
<1>1. pc' \in [Threads -> Labels] /\ ConnectInv'
  BY <1>a, StillStep DEF handlers
<1>2. ConnType' /\ FollowInv'
  BY <1>a, <1>1 DEF ConnType, FollowInv, Matches, network, handlers
<1> QED
  BY <1>1, <1>2

-----------------------------------------------------------------------------
(***************************************************************************)
(* The main loop and NetworkManager                                        *)
(***************************************************************************)

\* A change of the switch is an emission if a handler is there, and has not
\* been told of if there is none.
LEMMA NotifySwitchKeeps ==
  ASSUME IInv, NotifySwitch
  PROVE  IInv'
<1> USE DEF IInv
<1>a. /\ UNCHANGED <<radio, device, handlers, wish, told>>
      /\ pc[Main] = "idle" /\ enabled' = radio /\ emits' = clientHandlers
  BY DEF NotifySwitch, handlers
<1>b. PICK label \in {"report", "idle"} :
        /\ Goto(Main, label)
        /\ label = "idle" => clientHandlers = 0
  BY DEF NotifySwitch, ConnType
<1>1. /\ pc' = [pc EXCEPT ![Main] = label]
      /\ pc' \in [Threads -> Labels]
      /\ ConnectInv'
  BY <1>a, <1>b, QuietStep, MainIsNoWorker DEF Labels, handlers
<1>2. ConnType'
  BY <1>a, <1>1 DEF ConnType, handlers
<1>3. FollowInv'
  BY <1>a, <1>b, <1>1, MainIsNoWorker DEF FollowInv, Matches, ConnType, handlers
<1> QED
  BY <1>1, <1>2, <1>3

\* Whichever handler of an emission this is, it leaves the scan signal as
\* the switch wants it.
LEMMA ScanSignalKeeps ==
  ASSUME IInv, ScanSignal
  PROVE  IInv'
<1> USE DEF IInv
<1>a. /\ UNCHANGED <<network, clientHandlers, wish, told>>
      /\ pc[Main] = "scan_signal" /\ emits' = emits - 1
      /\ emits > 0
  BY MainIsNoWorker DEF ScanSignal, FollowInv, network
<1>b. scanHandlers' \in {0, 1} /\ (device => Matches')
  BY DEF ScanSignal, Matches, ConnType, Switch, network
<1>c. PICK label \in {"report", "idle"} :
        /\ Goto(Main, label)
        /\ label = "idle" => emits' = 0
  BY <1>a DEF ScanSignal, ConnType
<1>1. /\ pc' = [pc EXCEPT ![Main] = label]
      /\ pc' \in [Threads -> Labels]
      /\ ConnectInv'
  BY <1>a, <1>c, QuietStep, MainIsNoWorker DEF Labels
<1>2. ConnType'
  BY <1>a, <1>b, <1>1 DEF ConnType, network
<1>3. FollowInv'
  BY <1>a, <1>b, <1>c, <1>1, MainIsNoWorker DEF FollowInv, ConnType, network
<1> QED
  BY <1>1, <1>2, <1>3

LEMMA NotifyOtherKeeps ==
  ASSUME IInv, NotifyDevice \/ NotifyScan
  PROVE  IInv'
<1> USE DEF IInv
<1>a. /\ UNCHANGED <<radio, enabled, device, handlers, wish, emits, told>>
      /\ pc[Main] = "idle"
  BY DEF NotifyDevice, NotifyScan, handlers
<1>b. PICK label \in {"report", "list", "idle"} : Goto(Main, label)
  BY DEF NotifyDevice, NotifyScan, HandleDeviceState
<1>1. /\ pc' = [pc EXCEPT ![Main] = label]
      /\ pc' \in [Threads -> Labels]
      /\ ConnectInv'
  BY <1>a, <1>b, QuietStep, MainIsNoWorker DEF Labels, handlers
<1>2. ConnType'
  BY <1>a, <1>1 DEF ConnType, handlers
<1>3. FollowInv'
  BY <1>a, <1>1, MainIsNoWorker DEF FollowInv, Matches, ConnType, handlers
<1> QED
  BY <1>1, <1>2, <1>3

LEMMA RadioKeeps ==
  ASSUME IInv, RadioChanges
  PROVE  IInv'
<1> USE DEF IInv
<1>a. /\ UNCHANGED <<enabled, device, handlers, pc, wish, emits, told>>
      /\ radio' \in Switch
  BY DEF RadioChanges, handlers
<1>1. pc' \in [Threads -> Labels] /\ ConnectInv'
  BY <1>a, StillStep DEF handlers
<1>2. ConnType' /\ FollowInv'
  BY <1>a, <1>1 DEF ConnType, FollowInv, Matches, handlers
<1> QED
  BY <1>1, <1>2

LEMMA StutterKeeps ==
  ASSUME IInv, UNCHANGED vars
  PROVE  IInv'
<1>1. Connecting' = Connecting
  BY DEF vars, Connecting
<1> QED
  BY <1>1 DEF vars, IInv, ConnType, ConnectInv, FollowInv, Matches

\* The invariant is inductive.
LEMMA StepIInv == IInv /\ [Next]_vars => IInv'
<1> SUFFICES ASSUME IInv, [Next]_vars PROVE IInv'
  OBVIOUS
<1>1. CASE \E w \in Workers : Start(w)
  BY <1>1, StartKeeps
<1>2. CASE \E w \in Workers : Proceed(w)
  BY <1>2, FindKeeps, ConnectKeeps, SetKeeps, SendKeeps DEF Proceed
<1>3. CASE \E t \in Threads : Report(t) \/ List(t)
  BY <1>3, ReportKeeps, ListKeeps
<1>4. CASE Callbacks
  BY <1>4, NotifySwitchKeeps, ScanSignalKeeps DEF Callbacks
<1>5. CASE NotifyDevice \/ NotifyScan
  BY <1>5, NotifyOtherKeeps
<1>6. CASE RadioChanges
  BY <1>6, RadioKeeps
<1>7. CASE UNCHANGED vars
  BY <1>7, StutterKeeps
<1> QED
  BY <1>1, <1>2, <1>3, <1>4, <1>5, <1>6, <1>7 DEF Next

\* The invariant holds in every state the service reaches.
THEOREM Invariance == Spec => []IInv
BY InitIInv, StepIInv, PTL DEF Spec

\* The switch's callback is connected at most once by each worker, for any
\* number of workers and commands (soft_control_wifi).
THEOREM ConnectionsAreBounded == Spec => []HandlersBounded
<1>1. IInv => HandlersBounded
  BY ConnectingFinite DEF IInv, ConnType, ConnectInv, HandlersBounded
<1> QED
  BY <1>1, Invariance, PTL

\* A scan is reported by one handler at most (connect_ap_scan_signal).
THEOREM ScansAreReportedOnce == Spec => []ScanReportedOnce
<1>1. IInv => ScanReportedOnce
  BY DEF IInv, ConnType, ScanReportedOnce
<1> QED
  BY <1>1, Invariance, PTL

\* The scan signal follows the switch once a change has been told
\* (wireless_enable_state_changed_cb).
THEOREM ScanSignalFollows == Spec => []ScanFollowsSwitch
<1>1. IInv => ScanFollowsSwitch
  BY DEF IInv, FollowInv, Matches, ScanFollowsSwitch
<1> QED
  BY <1>1, Invariance, PTL

-----------------------------------------------------------------------------
(***************************************************************************)
(* The reports: what the threads build and the queue holds.  None of it    *)
(* needs the connections above.                                            *)
(***************************************************************************)

\* The part of TypeOK the reports rest on.
DataType ==
  /\ pc \in [Threads -> Labels]
  /\ air \in Nat /\ changes \in Nat /\ live \in Int /\ lost \in Nat
  /\ cmd \in [Threads -> Cmds]
  /\ index \in [Threads -> Nat]
  /\ queue \in Seq(Cmds)

\* Where a thread has a command in its hands.
Holding == {"active", "push", "collect", "delete"}

HoldInv == \A t \in Threads : cmd[t] # NoCmd <=> pc[t] \in Holding

\* Lists that are being collected, at index i: what the loop has seen is all
\* there, and unless the networks have changed it has not run past them.
CollectInv ==
  \A t \in Threads : pc[t] = "collect" =>
    /\ cmd[t].kind = "list"
    /\ cmd[t].count + cmd[t].skipped = index[t]
    /\ cmd[t].at = changes => index[t] <= Lesser(air, CacheSize)

\* A report of the state is no list, and nothing is begun after the present.
StampInv ==
  /\ \A t \in Threads : cmd[t].at <= changes
  /\ \A t \in Threads : pc[t] \in {"active", "push"} => cmd[t].kind = "state"
  /\ \A k \in 1 .. Len(queue) : queue[k].at <= changes

ReportInv ==
  /\ DataType /\ HoldInv /\ CollectInv /\ StampInv
  /\ ListComplete /\ CommandsAccounted

-----------------------------------------------------------------------------
\* The threads that build are finitely many, one more when a thread takes up
\* a command and one less when it gives it away.
LEMMA BuildingCounts ==
  ASSUME DataType, NEW t \in Threads, NEW c \in Cmds,
         cmd' = [cmd EXCEPT ![t] = c]
  PROVE  /\ Cardinality(Building) \in Nat
         /\ cmd[t] = NoCmd /\ c # NoCmd =>
              Cardinality(Building') = Cardinality(Building) + 1
         /\ cmd[t] # NoCmd /\ c = NoCmd =>
              Cardinality(Building') = Cardinality(Building) - 1
         /\ (cmd[t] = NoCmd <=> c = NoCmd) =>
              Cardinality(Building') = Cardinality(Building)
<1>1. IsFiniteSet(Building)
  <2>1. IsFiniteSet(Threads)
    BY WifiAssumption, FS_AddElement DEF Threads
  <2> QED
    BY <2>1, FS_Subset DEF Building
<1>2. ASSUME cmd[t] = NoCmd, c # NoCmd
      PROVE  Building' = Building \cup {t} /\ t \notin Building
  BY <1>2 DEF Building, DataType
<1>3. ASSUME cmd[t] # NoCmd, c = NoCmd
      PROVE  Building' = Building \ {t} /\ t \in Building
  BY <1>3 DEF Building, DataType
<1>4. ASSUME cmd[t] = NoCmd <=> c = NoCmd
      PROVE  Building' = Building
  BY <1>4 DEF Building, DataType
<1> QED
  BY <1>1, <1>2, <1>3, <1>4, FS_CardinalityType, FS_AddElement, FS_RemoveElement

\* NoCmd and the commands the threads begin are commands.
LEMMA CmdsAreCmds ==
  /\ NoCmd \in Cmds /\ NoCmd.at = 0
  /\ \A c \in Cmds : c.kind # "none" => c # NoCmd
  /\ \A c \in Cmds : c.count \in Nat /\ c.skipped \in Nat /\ c.at \in Nat
  BY DEF NoCmd, Cmds, Switch

StateCmd(f) == [NoCmd EXCEPT !.kind = "state", !.flag = f, !.count = 1]
ListCmd(n)  == [NoCmd EXCEPT !.kind = "list", !.at = n]

LEMMA StateCmdIsCmd ==
  ASSUME NEW f \in Switch
  PROVE  /\ StateCmd(f) \in Cmds /\ StateCmd(f) # NoCmd
         /\ StateCmd(f).kind = "state" /\ StateCmd(f).at = 0
  BY DEF StateCmd, NoCmd, Cmds, Switch

LEMMA ListCmdIsCmd ==
  ASSUME NEW n \in Nat
  PROVE  /\ ListCmd(n) \in Cmds /\ ListCmd(n) # NoCmd
         /\ ListCmd(n).kind = "list" /\ ListCmd(n).at = n
         /\ ListCmd(n).count = 0 /\ ListCmd(n).skipped = 0
  BY DEF ListCmd, NoCmd, Cmds, Switch

LEMMA InitReportInv == Init => ReportInv
<1> SUFFICES ASSUME Init PROVE ReportInv
  OBVIOUS
<1>1. DataType
  BY CmdsAreCmds DEF Init, DataType, Labels
<1>2. Building = {}
  BY DEF Init, Building
<1>3. HoldInv /\ CollectInv /\ StampInv /\ ListComplete
  BY CmdsAreCmds DEF Init, HoldInv, Holding, CollectInv, StampInv, ListComplete
<1>4. CommandsAccounted
  BY <1>2, FS_EmptySet DEF Init, CommandsAccounted
<1> QED
  BY <1>1, <1>3, <1>4 DEF ReportInv

\* A step that touches no report: the present may move on, and then every
\* list is one of the past.
LEMMA EmptyHandedStep ==
  ASSUME ReportInv, pc' \in [Threads -> Labels],
         \A t \in Threads : /\ pc[t] \in Holding => pc'[t] = pc[t]
                            /\ pc'[t] \in Holding => pc[t] \in Holding,
         UNCHANGED <<cmd, index, queue, live, lost>>,
         \/ UNCHANGED <<air, changes>>
         \/ changes' = changes + 1 /\ air' \in Nat
  PROVE  ReportInv'
<1>1. DataType'
  BY DEF ReportInv, DataType
<1>2. HoldInv'
  BY DEF ReportInv, HoldInv
<1>3. CollectInv'
  BY DEF ReportInv, DataType, CollectInv, StampInv, Holding, Cmds
<1>4. StampInv'
  <2>0. \A k \in 1 .. Len(queue) : queue[k] \in Cmds
    BY DEF ReportInv, DataType
  <2>1. \A t \in Threads : cmd[t].at \in Nat
    BY CmdsAreCmds DEF ReportInv, DataType
  <2>2. \A k \in 1 .. Len(queue) : queue[k].at \in Nat
    BY <2>0, CmdsAreCmds
  <2>3. changes \in Nat /\ changes' \in Nat /\ changes <= changes'
    BY DEF ReportInv, DataType
  <2>4. \A t \in Threads : cmd'[t].at <= changes'
    BY <2>1, <2>3 DEF ReportInv, StampInv
  <2>5. ASSUME NEW t \in Threads, pc'[t] \in {"active", "push"}
        PROVE  cmd'[t].kind = "state"
    BY <2>5 DEF ReportInv, StampInv, Holding
  <2>6. \A k \in 1 .. Len(queue') : queue'[k].at <= changes'
    BY <2>2, <2>3 DEF ReportInv, StampInv
  <2> QED
    BY <2>4, <2>5, <2>6 DEF StampInv
<1>5. ListComplete'
  <2>1. changes \in Nat /\ \A k \in 1 .. Len(queue) : queue[k] \in Cmds
    BY DEF ReportInv, DataType
  <2>2. CASE UNCHANGED <<air, changes>>
    BY <2>2 DEF ReportInv, ListComplete
  <2>3. CASE changes' = changes + 1
    <3>1. \A k \in 1 .. Len(queue) : queue[k].at \in Nat
      BY <2>1, CmdsAreCmds
    <3>2. \A k \in 1 .. Len(queue) : queue[k].at <= changes
      BY DEF ReportInv, StampInv
    <3>3. \A k \in 1 .. Len(queue) : queue[k].at # changes'
      BY <2>1, <2>3, <3>1, <3>2
    <3> QED
      BY <3>3 DEF ListComplete
  <2> QED
    BY <2>2, <2>3
<1>6. CommandsAccounted'
  BY DEF ReportInv, CommandsAccounted, Building
<1> QED
  BY <1>1, <1>2, <1>3, <1>4, <1>5, <1>6 DEF ReportInv

\* A thread that takes up nothing goes from one place to another.
LEMMA QuietReports ==
  ASSUME ReportInv, NEW t \in Threads, NEW label \in Labels \ Holding,
         pc[t] \notin Holding, Goto(t, label),
         UNCHANGED <<cmd, index, queue, live, lost>>,
         \/ UNCHANGED <<air, changes>>
         \/ changes' = changes + 1 /\ air' \in Nat
  PROVE  ReportInv'
<1>1. pc' = [pc EXCEPT ![t] = label] /\ pc \in [Threads -> Labels]
  BY DEF Goto, ReportInv, DataType
<1> QED
  BY <1>1, EmptyHandedStep

\* What thread t does with its command: it takes one up, goes on with it, or
\* gives it to the queue, to nobody, or back.
Takes(t, c) ==
  /\ cmd[t] = NoCmd /\ c # NoCmd
  /\ live' = live + 1 /\ UNCHANGED <<queue, lost>>

Keeps(t, c) ==
  /\ cmd[t] # NoCmd /\ c # NoCmd
  /\ UNCHANGED <<live, queue, lost>>

Gives(t, c) ==
  /\ cmd[t] # NoCmd /\ c = NoCmd
  /\ \/ queue' = Append(queue, cmd[t]) /\ UNCHANGED <<live, lost>>
     \/ lost' = lost + 1 /\ UNCHANGED <<live, queue>>
     \/ live' = live - 1 /\ UNCHANGED <<queue, lost>>

LEMMA AccountStep ==
  ASSUME DataType, CommandsAccounted, NEW t \in Threads, NEW c \in Cmds,
         cmd' = [cmd EXCEPT ![t] = c],
         Takes(t, c) \/ Keeps(t, c) \/ Gives(t, c)
  PROVE  CommandsAccounted'
<1> DEFINE n == Cardinality(Building)  q == Len(queue)
<1>1. live \in Int /\ lost \in Nat /\ q \in Nat /\ live = n + q + lost
  BY DEF DataType, CommandsAccounted
<1>2. n \in Nat
  BY BuildingCounts
<1>3. \/ n' = n + 1 /\ live' = live + 1 /\ q' = q /\ lost' = lost
      \/ n' = n /\ live' = live /\ q' = q /\ lost' = lost
      \/ n' = n - 1 /\ live' = live /\ q' = q + 1 /\ lost' = lost
      \/ n' = n - 1 /\ live' = live /\ q' = q /\ lost' = lost + 1
      \/ n' = n - 1 /\ live' = live - 1 /\ q' = q /\ lost' = lost
  <2>1. CASE Takes(t, c)
    BY <2>1, BuildingCounts DEF Takes
  <2>2. CASE Keeps(t, c)
    BY <2>2, BuildingCounts DEF Keeps
  <2>3. CASE Gives(t, c)
    <3>1. n' = n - 1
      BY <2>3, BuildingCounts DEF Gives
    <3>2. queue' = Append(queue, cmd[t]) => q' = q + 1
      BY DEF DataType
    <3> QED
      BY <2>3, <3>1, <3>2 DEF Gives
  <2> QED
    BY <2>1, <2>2, <2>3
<1> HIDE DEF n, q
<1>4. live' = n' + q' + lost'
  BY <1>1, <1>2, <1>3
<1> QED
  BY <1>4 DEF n, q, CommandsAccounted

\* Such a step, which leaves the present alone, keeps the invariant.
LEMMA HandStep ==
  ASSUME ReportInv, NEW t \in Threads, NEW c \in Cmds, NEW label \in Labels,
         cmd' = [cmd EXCEPT ![t] = c], pc' = [pc EXCEPT ![t] = label],
         Takes(t, c) \/ Keeps(t, c) \/ Gives(t, c),
         c # NoCmd <=> label \in Holding, c.at <= changes,
         label \in {"active", "push"} => c.kind = "state",
         label = "collect" =>
           /\ c.kind = "list" /\ c.count + c.skipped = index'[t]
           /\ c.at = changes => index'[t] <= Lesser(air, CacheSize),
         index' \in [Threads -> Nat],
         \A u \in Threads \ {t} : index'[u] = index[u],
         queue' # queue /\ cmd[t].kind = "list" /\ cmd[t].at = changes =>
           cmd[t].count + cmd[t].skipped = Lesser(air, CacheSize),
         UNCHANGED <<air, changes>>
  PROVE  ReportInv'
<1> USE DEF ReportInv
<1>1. \A u \in Threads :
        /\ cmd'[u] = (IF u = t THEN c ELSE cmd[u])
        /\ pc'[u] = (IF u = t THEN label ELSE pc[u])
  BY DEF DataType
<1>2. queue' = queue \/ queue' = Append(queue, cmd[t])
  BY DEF Takes, Keeps, Gives
<1>3. /\ queue' \in Seq(Cmds)
      /\ \A k \in 1 .. Len(queue') :
           \/ k \in 1 .. Len(queue) /\ queue'[k] = queue[k]
           \/ queue' # queue /\ queue'[k] = cmd[t]
  <2>1. cmd[t] \in Cmds /\ queue \in Seq(Cmds)
    BY DEF DataType
  <2>2. CASE queue' = queue
    BY <2>1, <2>2
  <2>3. CASE queue' = Append(queue, cmd[t])
    BY <2>1, <2>3
  <2> QED
    BY <1>2, <2>2, <2>3
<1>4. DataType'
  <2>1. live' \in Int /\ lost' \in Nat
    BY DEF DataType, Takes, Keeps, Gives
  <2> QED
    BY <1>3, <2>1 DEF DataType
<1>5. HoldInv'
  BY <1>1 DEF HoldInv
<1>6. CollectInv'
  BY <1>1 DEF CollectInv
<1>7. StampInv'
  <2>1. \A u \in Threads :
          /\ cmd'[u].at <= changes
          /\ pc'[u] \in {"active", "push"} => cmd'[u].kind = "state"
    BY <1>1 DEF StampInv
  <2>2. \A k \in 1 .. Len(queue') : queue'[k].at <= changes
    BY <1>3 DEF StampInv
  <2> QED
    BY <2>1, <2>2 DEF StampInv
<1>8. ListComplete'
  <2> SUFFICES ASSUME NEW k \in 1 .. Len(queue'),
                      queue'[k].kind = "list", queue'[k].at = changes
               PROVE  queue'[k].count + queue'[k].skipped
                        = Lesser(air, CacheSize)
    BY DEF ListComplete, Lesser
  <2> QED
    BY <1>3 DEF ListComplete
<1>9. CommandsAccounted'
  BY AccountStep
<1> QED
  BY <1>4, <1>5, <1>6, <1>7, <1>8, <1>9

-----------------------------------------------------------------------------
\* report_wifi_state: it frees nothing, so a failed push loses the command.
LEMMA ReportReports ==
  ASSUME ConnType, ReportInv, NEW t \in Threads, Report(t)
  PROVE  ReportInv'
<1>0. UNCHANGED <<air, changes, index>>
  BY DEF Report, ReportCreate, ReportActive, ReportPush, network, bounds
<1>t. DataType
  BY DEF ReportInv
<1>i. index' \in [Threads -> Nat] /\ changes \in Nat
  BY <1>0, <1>t DEF DataType
<1>h. cmd[t] # NoCmd <=> pc[t] \in Holding
  BY DEF ReportInv, HoldInv
<1>1. CASE ReportCreate(t)
  <2>1. pc[t] = "report" /\ cmd[t] = NoCmd /\ UNCHANGED <<queue, lost>>
    BY <1>1, <1>h DEF ReportCreate, Holding
  <2>2. CASE live' = live + 1
    <3>1. cmd' = [cmd EXCEPT ![t] = StateCmd(enabled)]
      BY <1>1, <1>t, <2>2 DEF ReportCreate, DataType, StateCmd
    <3>2. PICK label \in {"active", "push"} : pc' = [pc EXCEPT ![t] = label]
      BY <1>1, <1>t, <2>2 DEF ReportCreate, DataType, Goto
    <3>3. /\ StateCmd(enabled) \in Cmds /\ StateCmd(enabled) # NoCmd
          /\ StateCmd(enabled).kind = "state" /\ StateCmd(enabled).at <= changes
      BY <1>i, StateCmdIsCmd DEF ConnType
    <3>4. Takes(t, StateCmd(enabled))
      BY <2>1, <2>2, <3>3 DEF Takes
    <3>5. label \in Labels /\ label \in Holding /\ label # "collect"
      BY DEF Labels, Holding
    <3> QED
      BY <1>0, <1>i, <2>1, <3>1, <3>2, <3>3, <3>4, <3>5, HandStep
  <2>3. CASE live' # live + 1
    <3>1. UNCHANGED <<live, cmd>>
      BY <1>1, <2>3 DEF ReportCreate
    <3>2. PICK label \in {"scan_signal", "idle"} : Goto(t, label)
      BY <1>1, <2>3 DEF ReportCreate, AfterReport
    <3>3. label \in Labels \ Holding
      BY DEF Labels, Holding
    <3> QED
      BY <1>0, <1>h, <2>1, <3>1, <3>2, <3>3, QuietReports
  <2> QED
    BY <2>2, <2>3
<1>2. CASE ReportActive(t)
  <2>1. /\ pc[t] = "active" /\ pc' = [pc EXCEPT ![t] = "push"]
        /\ UNCHANGED <<queue, live, lost>>
    BY <1>2 DEF ReportActive, Goto
  <2>2. cmd[t] \in Cmds /\ cmd[t].kind = "state" /\ cmd[t].at <= changes
    BY <1>t, <2>1 DEF DataType, ReportInv, StampInv
  <2>3. PICK c \in Cmds : /\ cmd' = [cmd EXCEPT ![t] = c]
                          /\ c.kind = "state" /\ c.at = cmd[t].at
    <3>1. CASE cmd' = cmd
      BY <1>t, <2>2, <3>1 DEF DataType
    <3>2. CASE cmd' = [cmd EXCEPT ![t].count = 2]
      <4> DEFINE c == [cmd[t] EXCEPT !.count = 2]
      <4>1. c \in Cmds /\ c.kind = "state" /\ c.at = cmd[t].at
        BY <2>2 DEF Cmds
      <4>2. cmd' = [cmd EXCEPT ![t] = c]
        BY <3>2
      <4> QED
        BY <4>1, <4>2
    <3> QED
      BY <1>2, <3>1, <3>2 DEF ReportActive
  <2>4. Keeps(t, c)
    BY <1>h, <2>1, <2>3, CmdsAreCmds DEF Keeps, Holding
  <2>5. "push" \in Labels /\ "push" \in Holding
    BY DEF Labels, Holding
  <2> QED
    BY <1>0, <1>i, <2>1, <2>2, <2>3, <2>4, <2>5, HandStep DEF Keeps
<1>3. CASE ReportPush(t)
  <2>1. /\ pc[t] = "push" /\ cmd' = [cmd EXCEPT ![t] = NoCmd] /\ live' = live
        /\ cmd[t] # NoCmd /\ cmd[t].kind = "state"
    BY <1>3, <1>h DEF ReportPush, Holding, ReportInv, StampInv
  <2>2. PICK label \in {"scan_signal", "idle"} : pc' = [pc EXCEPT ![t] = label]
    BY <1>3 DEF ReportPush, Goto, AfterReport
  <2>3. Gives(t, NoCmd)
    BY <1>3, <2>1 DEF ReportPush, Gives
  <2>4. label \in Labels \ Holding
    BY DEF Labels, Holding
  <2>5. NoCmd \in Cmds /\ NoCmd.at <= changes
    BY <1>i, CmdsAreCmds
  <2>6. label \notin {"active", "push", "collect"}
    OBVIOUS
  <2> QED
    BY <1>0, <1>i, <2>1, <2>2, <2>3, <2>4, <2>5, <2>6, HandStep
<1> QED
  BY <1>1, <1>2, <1>3 DEF Report

\* report_cached_ap_list: a list is pushed when its loop has ended, and one
\* that cannot be pushed is deleted.
LEMMA ListReports ==
  ASSUME ReportInv, NEW t \in Threads, List(t)
  PROVE  ReportInv'
<1>0. UNCHANGED <<air, changes, lost>>
  BY DEF List, ListCreate, ListCollect, ListPush, ListDelete, network, bounds
<1>t. DataType
  BY DEF ReportInv
<1>i. index[t] \in Nat /\ changes \in Nat /\ Lesser(air, CacheSize) \in Nat
  BY <1>t, WifiAssumption DEF DataType, Lesser
<1>h. cmd[t] # NoCmd <=> pc[t] \in Holding
  BY DEF ReportInv, HoldInv
<1>1. CASE ListCreate(t)
  <2> DEFINE c == ListCmd(changes)
  <2>1. pc[t] = "list" /\ cmd[t] = NoCmd /\ UNCHANGED <<queue, lost>>
    BY <1>0, <1>1, <1>h DEF ListCreate, Holding
  <2>2. CASE live' = live + 1
    <3>1. cmd' = [cmd EXCEPT ![t] = c] /\ index' = [index EXCEPT ![t] = 0]
      BY <1>1, <1>t, <2>2 DEF ListCreate, DataType, build, ListCmd
    <3>2. PICK label \in {"collect", "delete"} : pc' = [pc EXCEPT ![t] = label]
      BY <1>1, <1>t, <2>2 DEF ListCreate, DataType, Goto, build
    <3>3. /\ c \in Cmds /\ c # NoCmd /\ c.kind = "list" /\ c.at <= changes
          /\ c.count + c.skipped = 0
      BY <1>i, ListCmdIsCmd
    <3>4. Takes(t, c)
      BY <2>1, <2>2, <3>3 DEF Takes
    <3>5. label \in Labels /\ label \in Holding /\ label \notin {"active", "push"}
      BY DEF Labels, Holding
    <3>6. /\ index' \in [Threads -> Nat] /\ index'[t] = 0
          /\ \A u \in Threads \ {t} : index'[u] = index[u]
          /\ 0 <= Lesser(air, CacheSize)
      BY <1>i, <1>t, <3>1 DEF DataType
    <3> HIDE DEF c
    <3> QED
      BY <1>0, <2>1, <3>1, <3>2, <3>3, <3>4, <3>5, <3>6, HandStep
  <2>3. CASE live' # live + 1
    <3>1. UNCHANGED <<live, cmd, index>> /\ Goto(t, "idle")
      BY <1>1, <2>3 DEF ListCreate, build
    <3>2. "idle" \in Labels \ Holding
      BY DEF Labels, Holding
    <3> QED
      BY <1>0, <1>h, <2>1, <3>1, <3>2, QuietReports
  <2> QED
    BY <2>2, <2>3
<1>2. CASE ListCollect(t)
  <2>1. /\ pc[t] = "collect" /\ pc' = [pc EXCEPT ![t] = "collect"]
        /\ index' = [index EXCEPT ![t] = @ + 1]
        /\ index[t] < Lesser(air, CacheSize)
        /\ UNCHANGED <<queue, live>>
    BY <1>2, <1>t DEF ListCollect, DataType
  <2>2. /\ cmd[t] \in Cmds /\ cmd[t].kind = "list" /\ cmd[t].at <= changes
        /\ cmd[t].count + cmd[t].skipped = index[t]
    BY <1>t, <2>1 DEF DataType, ReportInv, StampInv, CollectInv
  <2>3. PICK c \in Cmds : /\ cmd' = [cmd EXCEPT ![t] = c]
                          /\ c.kind = "list" /\ c.at = cmd[t].at
                          /\ c.count + c.skipped = index[t] + 1
    <3> DEFINE more == [cmd[t] EXCEPT !.count = @ + 1]
               less == [cmd[t] EXCEPT !.skipped = @ + 1]
    <3>1. /\ more \in Cmds /\ more.kind = "list" /\ more.at = cmd[t].at
          /\ more.count + more.skipped = index[t] + 1
      BY <2>2 DEF Cmds
    <3>2. /\ less \in Cmds /\ less.kind = "list" /\ less.at = cmd[t].at
          /\ less.count + less.skipped = index[t] + 1
      BY <2>2 DEF Cmds
    <3>3. cmd' = [cmd EXCEPT ![t] = more] \/ cmd' = [cmd EXCEPT ![t] = less]
      BY <1>2 DEF ListCollect
    <3> QED
      BY <3>1, <3>2, <3>3
  <2>4. Keeps(t, c)
    BY <1>0, <1>h, <2>1, <2>3, CmdsAreCmds DEF Keeps, Holding
  <2>5. "collect" \in Labels /\ "collect" \in Holding
    BY DEF Labels, Holding
  <2>6. /\ index' \in [Threads -> Nat] /\ index'[t] = index[t] + 1
        /\ \A u \in Threads \ {t} : index'[u] = index[u]
        /\ index[t] + 1 <= Lesser(air, CacheSize)
    BY <1>i, <1>t, <2>1 DEF DataType
  <2> QED
    BY <1>0, <2>1, <2>2, <2>3, <2>4, <2>5, <2>6, HandStep DEF Keeps
<1>3. CASE ListPush(t)
  <2>1. pc[t] = "collect" /\ index[t] >= Lesser(air, CacheSize) /\ UNCHANGED live
    BY <1>3 DEF ListPush
  <2>2. /\ cmd[t] \in Cmds /\ cmd[t] # NoCmd /\ cmd[t].at <= changes
        /\ cmd[t].at = changes =>
             cmd[t].count + cmd[t].skipped = Lesser(air, CacheSize)
    <3>1. cmd[t] \in Cmds /\ cmd[t] # NoCmd /\ cmd[t].at <= changes
      BY <1>t, <1>h, <2>1 DEF DataType, Holding, ReportInv, StampInv
    <3>2. /\ cmd[t].count + cmd[t].skipped = index[t]
          /\ cmd[t].at = changes => index[t] <= Lesser(air, CacheSize)
      BY <2>1 DEF ReportInv, CollectInv
    <3> QED
      BY <1>i, <2>1, <3>1, <3>2
  <2>3. /\ index' \in [Threads -> Nat]
        /\ \A u \in Threads \ {t} : index'[u] = index[u]
    BY <1>3, <1>t DEF ListPush, DataType
  <2>4. CASE queue' # queue
    <3>1. /\ cmd' = [cmd EXCEPT ![t] = NoCmd] /\ pc' = [pc EXCEPT ![t] = "idle"]
          /\ Gives(t, NoCmd)
      BY <1>0, <1>3, <2>1, <2>2, <2>4 DEF ListPush, Goto, Gives
    <3>2. /\ NoCmd \in Cmds /\ NoCmd.at <= changes
          /\ "idle" \in Labels /\ "idle" \notin Holding
      BY <1>i, CmdsAreCmds DEF Labels, Holding
    <3> QED
      BY <1>0, <2>2, <2>3, <3>1, <3>2, HandStep
  <2>5. CASE queue' = queue
    <3>1. queue # Append(queue, cmd[t])
      BY <1>t, <2>2 DEF DataType
    <3>2. UNCHANGED cmd /\ pc' = [pc EXCEPT ![t] = "delete"]
      BY <1>3, <2>5, <3>1 DEF ListPush, Goto
    <3>3. cmd' = [cmd EXCEPT ![t] = cmd[t]]
      BY <1>t, <3>2 DEF DataType
    <3>4. Keeps(t, cmd[t]) /\ "delete" \in Labels /\ "delete" \in Holding
      BY <1>0, <2>1, <2>2, <2>5 DEF Keeps, Labels, Holding
    <3> QED
      BY <1>0, <2>2, <2>3, <3>2, <3>3, <3>4, HandStep DEF Keeps
  <2> QED
    BY <2>4, <2>5
<1>4. CASE ListDelete(t)
  <2>1. /\ pc[t] = "delete" /\ pc' = [pc EXCEPT ![t] = "idle"]
        /\ cmd' = [cmd EXCEPT ![t] = NoCmd]
        /\ live' = live - 1 /\ UNCHANGED <<queue, index>>
    BY <1>4 DEF ListDelete, Goto
  <2>2. Gives(t, NoCmd) /\ index' \in [Threads -> Nat]
    BY <1>0, <1>t, <1>h, <2>1 DEF Gives, Holding, DataType
  <2>3. /\ NoCmd \in Cmds /\ NoCmd.at <= changes
        /\ "idle" \in Labels /\ "idle" \notin Holding
    BY <1>i, CmdsAreCmds DEF Labels, Holding
  <2> QED
    BY <1>0, <2>1, <2>2, <2>3, HandStep
<1> QED
  BY <1>1, <1>2, <1>3, <1>4 DEF List

\* dbus_method_call_with_data: the oldest report is sent and freed.
LEMMA SendReports ==
  ASSUME ReportInv, NEW w \in Workers, SendReport(w)
  PROVE  ReportInv'
<1> USE DEF ReportInv
<1> DEFINE n == Cardinality(Building)
<1>1. /\ queue # <<>> /\ queue' = Tail(queue) /\ live' = live - 1
      /\ UNCHANGED <<pc, cmd, index, air, changes, lost>>
  BY DEF SendReport, network, build, bounds
<1>2. /\ queue' \in Seq(Cmds) /\ Len(queue') = Len(queue) - 1
      /\ \A k \in 1 .. Len(queue') : k + 1 \in 1 .. Len(queue)
                                     /\ queue'[k] = queue[k + 1]
  BY <1>1 DEF DataType
<1>3. DataType' /\ HoldInv' /\ CollectInv'
  BY <1>1, <1>2 DEF DataType, HoldInv, CollectInv
<1>4. StampInv'
  BY <1>1, <1>2 DEF StampInv
<1>5. ListComplete'
  BY <1>1, <1>2 DEF ListComplete
<1>6. CommandsAccounted'
  <2>1. live = n + Len(queue) + lost /\ n' = n
    BY <1>1 DEF CommandsAccounted, Building
  <2>2. live \in Int /\ lost \in Nat /\ Len(queue) \in Nat /\ n \in Nat
    <3>1. cmd' = [cmd EXCEPT ![w] = cmd[w]] /\ cmd[w] \in Cmds /\ w \in Threads
      BY <1>1, MainIsNoWorker DEF DataType
    <3>2. n \in Nat
      BY <3>1, BuildingCounts
    <3> QED
      BY <3>2 DEF DataType
  <2> HIDE DEF n
  <2>3. live' = n' + Len(queue') + lost'
    BY <1>1, <1>2, <2>1, <2>2
  <2> QED
    BY <2>3 DEF n, CommandsAccounted
<1> QED
  BY <1>3, <1>4, <1>5, <1>6

\* What the workers and the main loop do besides builds nothing.
LEMMA CommandReports ==
  ASSUME ReportInv, NEW w \in Workers,
         Start(w) \/ FindHandler(w) \/ ConnectHandler(w) \/ SetEnabled(w)
  PROVE  ReportInv'
<1>1. UNCHANGED <<air, changes, cmd, index, queue, live, lost>>
  BY DEF Start, StartSwitch, StartReport, StartList, FindHandler,
         ConnectHandler, SetEnabled, network, build, bounds
<1>2. CASE pc' = pc
  BY <1>1, <1>2, EmptyHandedStep DEF ReportInv, DataType
<1>3. CASE pc' # pc
  <2>1. PICK label \in {"find", "report", "list", "idle", "connect", "set"} :
          Goto(w, label)
    <3>1. CASE Start(w)
      BY <1>3, <3>1 DEF Start, StartSwitch, StartReport, StartList,
                        HandleDeviceState
    <3>2. CASE FindHandler(w) \/ ConnectHandler(w) \/ SetEnabled(w)
      BY <3>2 DEF FindHandler, ConnectHandler, SetEnabled
    <3> QED
      BY <3>1, <3>2
  <2>2. pc[w] \in {"idle", "find", "connect", "set"}
    BY DEF Start, StartSwitch, StartReport, StartList, FindHandler,
           ConnectHandler, SetEnabled
  <2> QED
    BY <1>1, <2>1, <2>2, QuietReports, MainIsNoWorker DEF Labels, Holding
<1> QED
  BY <1>2, <1>3

LEMMA MainReports ==
  ASSUME ReportInv, Callbacks \/ NotifyDevice \/ NotifyScan
  PROVE  ReportInv'
<1>1. /\ UNCHANGED <<cmd, index, queue, live, lost>>
      /\ \/ UNCHANGED <<air, changes>>
         \/ changes' = changes + 1 /\ air' \in Nat
  BY WifiAssumption DEF Callbacks, NotifySwitch, ScanSignal, NotifyDevice, NotifyScan, network,
         build, bounds, ReportInv, DataType
<1>2. pc[Main] \in {"idle", "scan_signal"}
  BY DEF Callbacks, NotifySwitch, ScanSignal, NotifyDevice, NotifyScan
<1>3. PICK label \in {"report", "list", "idle"} : Goto(Main, label)
  BY DEF Callbacks, NotifySwitch, ScanSignal, NotifyDevice, NotifyScan,
         HandleDeviceState
<1> QED
  BY <1>1, <1>2, <1>3, QuietReports, MainIsNoWorker DEF Labels, Holding

LEMMA RadioReports ==
  ASSUME ReportInv, RadioChanges
  PROVE  ReportInv'
<1>1. /\ UNCHANGED <<pc, cmd, index, queue, live, lost, air>>
      /\ changes' = changes + 1
  BY DEF RadioChanges, build
<1> QED
  BY <1>1, EmptyHandedStep DEF ReportInv, DataType

LEMMA StepReportInv == ConnType /\ ReportInv /\ [Next]_vars => ReportInv'
<1> SUFFICES ASSUME ConnType, ReportInv, [Next]_vars PROVE ReportInv'
  OBVIOUS
<1>1. CASE \E w \in Workers : Start(w) \/ Proceed(w)
  BY <1>1, CommandReports, SendReports DEF Proceed
<1>2. CASE \E t \in Threads : Report(t) \/ List(t)
  BY <1>2, ReportReports, ListReports
<1>3. CASE Callbacks \/ NotifyDevice \/ NotifyScan
  BY <1>3, MainReports
<1>4. CASE RadioChanges
  BY <1>4, RadioReports
<1>5. CASE UNCHANGED vars
  BY <1>5, EmptyHandedStep DEF vars, ReportInv, DataType
<1> QED
  BY <1>1, <1>2, <1>3, <1>4, <1>5 DEF Next

\* The reports' invariant holds too: only ConnType of the other is needed,
\* for the switch a report tells.
THEOREM ReportInvariance == Spec => []ReportInv
<1>1. IInv => ConnType
  BY DEF IInv
<1> QED
  BY <1>1, InitReportInv, StepReportInv, Invariance, PTL DEF Spec

\* A list that nothing has overtaken has all that was in reach, however the
\* threads, the failures and the changes of the networks interleave
\* (get_available_wifi_access_points).
THEOREM ListsAreComplete == Spec => []ListComplete
<1>1. ReportInv => ListComplete
  BY DEF ReportInv
<1> QED
  BY <1>1, ReportInvariance, PTL

\* Every command is freed once or counted as lost by report_wifi_state, for
\* any number of threads (report_wifi_state, report_cached_ap_list).
THEOREM CommandsAreAccounted == Spec => []CommandsAccounted
<1>1. ReportInv => CommandsAccounted
  BY DEF ReportInv
<1> QED
  BY <1>1, ReportInvariance, PTL
=============================================================================
