-------------------------------- MODULE Wifi --------------------------------
(***************************************************************************)
(* Wi-Fi: src/src/comm/net/wifi.c and the Wi-Fi part of network.c.  The    *)
(* workers of the queue execute the Wi-Fi commands while the main thread   *)
(* runs the callbacks of libnm; no lock protects the signal connections    *)
(* or the reports.  NetworkManager and libnm are outside of the service.   *)
(*                                                                         *)
(* A step is the code between two accesses to what the threads share: the  *)
(* properties libnm caches, the signal connections, the queue.  The client *)
(* is the one init_network_manager_client made: the window in which the    *)
(* shutdown flow releases it belongs to Lifecycle.  An access point is     *)
(* its index: the names that reports borrow from the static cache are not  *)
(* modelled.                                                               *)
(***************************************************************************)
EXTENDS Integers, Sequences, FiniteSets

CONSTANTS
  Workers,      \* the worker threads of the queue
  Main,         \* the main thread, which runs the callbacks of libnm
  CacheSize,    \* WIFI_MAX_AP_CACHE, which is MAX_ENTRIES
  MaxAir,       \* bound on the access points in reach
  MaxCommands,  \* bound on the commands executed
  MaxChanges,   \* bound on the changes NetworkManager makes by itself
  MaxFaults     \* bound on the allocations and extractions that fail

Threads == Workers \cup {Main}

ASSUME WifiAssumption ==
  /\ Main \notin Workers
  /\ IsFiniteSet(Workers)
  /\ CacheSize \in Nat \ {0}
  /\ MaxAir \in Nat /\ MaxCommands \in Nat
  /\ MaxChanges \in Nat /\ MaxFaults \in Nat

Switch == {"on", "off"}

\* Device states: only two of them are reported, the others are one.
DeviceStates == {"activated", "disconnected", "other"}

VARIABLES
  radio,          \* the switch as NetworkManager has it
  enabled,        \* "wireless-enabled" as libnm caches it
  device,         \* is there a Wi-Fi device
  devstate,       \* its state
  air,            \* access points libnm knows of
  clientHandlers, \* connections of wireless_enable_state_changed_cb
  scanHandlers,   \* connections of report_cached_ap_list
  queue,          \* the reports pushed and not sent yet
  live,           \* commands allocated and not freed
  pc,             \* where each thread is
  wish,           \* what a worker's command asks for
  cmd,            \* the command a thread is building
  index,          \* the next access point it looks at
  emits,          \* handlers the current emission has yet to call
  told,           \* what the last callback has reported
  lost,           \* commands no work could be created for
  commands,       \* commands begun so far
  changes,        \* changes by NetworkManager so far
  faults          \* failures so far

vars == <<radio, enabled, device, devstate, air, clientHandlers, scanHandlers,
          queue, live, pc, wish, cmd, index, emits, told, lost, commands,
          changes, faults>>

network  == <<radio, enabled, device, devstate, air>>
handlers == <<clientHandlers, scanHandlers>>
build    == <<cmd, index>>
bounds   == <<commands, changes, faults>>

\* "at" is the change after which a list was begun, "skipped" the access
\* points whose data could not be extracted.
NoCmd == [kind |-> "none", flag |-> "off", count |-> 0, skipped |-> 0, at |-> 0]

Goto(t, label) == pc' = [pc EXCEPT ![t] = label]
Fault == faults < MaxFaults /\ faults' = faults + 1
Lesser(a, b) == IF a < b THEN a ELSE b

Init ==
  /\ radio \in Switch /\ enabled = radio
  /\ device \in BOOLEAN
  /\ devstate \in (IF device THEN DeviceStates ELSE {"other"})
  /\ air = 0
  /\ clientHandlers = 0 /\ scanHandlers = 0
  /\ queue = <<>> /\ live = 0
  /\ pc = [t \in Threads |-> "idle"]
  /\ wish = [w \in Workers |-> "off"]
  /\ cmd = [t \in Threads |-> NoCmd]
  /\ index = [t \in Threads |-> 0]
  /\ emits = 0 /\ told = "none" /\ lost = 0
  /\ commands = 0 /\ changes = 0 /\ faults = 0

-----------------------------------------------------------------------------
(***************************************************************************)
(* report_wifi_state: run by workers and by callbacks                      *)
(***************************************************************************)

\* Where a thread goes when its report is made: a callback of the switch
\* has the scan signal left to do.
AfterReport(t) == IF t = Main /\ emits > 0 THEN "scan_signal" ELSE "idle"

\* Only a callback of the switch tells.
Tells(t, flag) == told' = IF t = Main /\ emits > 0 THEN flag ELSE told

\* Mutant: the report tells the opposite of the switch.
ReportCreateInverted(t) ==
  /\ pc[t] = "report"
  /\ live' = live + 1
  /\ cmd' = [cmd EXCEPT ![t] = [NoCmd EXCEPT
                 !.kind = "state", !.count = 1,
                 !.flag = IF enabled = "on" THEN "off" ELSE "on"]]
  /\ Goto(t, IF enabled = "on" THEN "active" ELSE "push")
  /\ UNCHANGED <<network, handlers, queue, wish, index, emits, told, lost,
                 bounds>>

ReportCreate(t) ==
  /\ pc[t] = "report"
  /\ \/ /\ Fault
        /\ Goto(t, AfterReport(t))
        /\ Tells(t, "lost")
        /\ UNCHANGED <<live, cmd>>
     \/ /\ live' = live + 1
        /\ cmd' = [cmd EXCEPT ![t] = [NoCmd EXCEPT !.kind = "state",
                                                   !.flag = enabled,
                                                   !.count = 1]]
        /\ Goto(t, IF enabled = "on" THEN "active" ELSE "push")
        /\ UNCHANGED <<told, faults>>
  /\ UNCHANGED <<network, handlers, queue, wish, index, emits, lost, commands,
                 changes>>

\* get_wifi_connected_ap_info: without an active access point, or when its
\* data cannot be extracted, the report has no second entry.
ReportActive(t) ==
  /\ pc[t] = "active"
  /\ \/ /\ device /\ devstate = "activated"
        /\ cmd' = [cmd EXCEPT ![t].count = 2]
        /\ UNCHANGED faults
     \/ /\ ~ (device /\ devstate = "activated")
        /\ UNCHANGED <<cmd, faults>>
     \/ /\ device /\ devstate = "activated"
        /\ Fault
        /\ UNCHANGED cmd
  /\ Goto(t, "push")
  /\ UNCHANGED <<network, handlers, queue, live, wish, index, emits, told,
                 lost, commands, changes>>

\* A work that cannot be created leaves the command to nobody.
ReportPush(t) ==
  /\ pc[t] = "push"
  /\ \/ /\ queue' = Append(queue, cmd[t])
        /\ Tells(t, cmd[t].flag)
        /\ UNCHANGED <<lost, faults>>
     \/ /\ Fault
        /\ lost' = lost + 1
        /\ Tells(t, "lost")
        /\ UNCHANGED queue
  /\ cmd' = [cmd EXCEPT ![t] = NoCmd]
  /\ Goto(t, AfterReport(t))
  /\ UNCHANGED <<network, handlers, live, wish, index, emits, commands,
                 changes>>

Report(t) == ReportCreate(t) \/ ReportActive(t) \/ ReportPush(t)

-----------------------------------------------------------------------------
(***************************************************************************)
(* report_cached_ap_list and get_available_wifi_access_points              *)
(***************************************************************************)

ListCreate(t) ==
  /\ pc[t] = "list"
  /\ \/ /\ Fault
        /\ Goto(t, "idle")
        /\ UNCHANGED <<live, build>>
     \/ /\ live' = live + 1
        /\ cmd' = [cmd EXCEPT ![t] = [NoCmd EXCEPT !.kind = "list",
                                                   !.at = changes]]
        /\ index' = [index EXCEPT ![t] = 0]
        /\ Goto(t, IF device THEN "collect" ELSE "delete")
        /\ UNCHANGED faults
  /\ UNCHANGED <<network, handlers, queue, wish, emits, told, lost, commands,
                 changes>>

\* Mutant: an access point that cannot be extracted ends the loop.
ListCollectAborts(t) ==
  /\ pc[t] = "collect"
  /\ index[t] < Lesser(air, CacheSize)
  /\ \/ /\ cmd' = [cmd EXCEPT ![t].count = @ + 1]
        /\ index' = [index EXCEPT ![t] = @ + 1]
        /\ UNCHANGED faults
     \/ /\ Fault
        /\ cmd' = [cmd EXCEPT ![t].skipped = @ + 1]
        /\ index' = [index EXCEPT ![t] = CacheSize]
  /\ UNCHANGED <<network, handlers, queue, live, pc, wish, emits, told, lost,
                 commands, changes>>

\* One turn of the loop: an access point whose data cannot be extracted is
\* left out, the loop goes on.
ListCollect(t) ==
  /\ pc[t] = "collect"
  /\ index[t] < Lesser(air, CacheSize)
  /\ \/ /\ cmd' = [cmd EXCEPT ![t].count = @ + 1]
        /\ UNCHANGED faults
     \/ /\ Fault
        /\ cmd' = [cmd EXCEPT ![t].skipped = @ + 1]
  /\ index' = [index EXCEPT ![t] = @ + 1]
  /\ UNCHANGED <<network, handlers, queue, live, pc, wish, emits, told, lost,
                 commands, changes>>

\* Mutant: a list no work could be created for is forgotten, not deleted.
ListPushForgets(t) ==
  /\ pc[t] = "collect"
  /\ index[t] >= Lesser(air, CacheSize)
  /\ \/ /\ queue' = Append(queue, cmd[t])
        /\ UNCHANGED faults
     \/ /\ Fault
        /\ UNCHANGED queue
  /\ cmd' = [cmd EXCEPT ![t] = NoCmd]
  /\ index' = [index EXCEPT ![t] = 0]
  /\ Goto(t, "idle")
  /\ UNCHANGED <<network, handlers, live, wish, emits, told, lost, commands,
                 changes>>

\* The loop has ended and the command is given to a work.
ListPush(t) ==
  /\ pc[t] = "collect"
  /\ index[t] >= Lesser(air, CacheSize)
  /\ \/ /\ queue' = Append(queue, cmd[t])
        /\ cmd' = [cmd EXCEPT ![t] = NoCmd]
        /\ Goto(t, "idle")
        /\ UNCHANGED faults
     \/ /\ Fault
        /\ Goto(t, "delete")
        /\ UNCHANGED <<queue, cmd>>
  /\ index' = [index EXCEPT ![t] = 0]
  /\ UNCHANGED <<network, handlers, live, wish, emits, told, lost,
                 commands, changes>>

ListDelete(t) ==
  /\ pc[t] = "delete"
  /\ live' = live - 1
  /\ cmd' = [cmd EXCEPT ![t] = NoCmd]
  /\ Goto(t, "idle")
  /\ UNCHANGED <<network, handlers, queue, wish, index, emits, told, lost,
                 bounds>>

List(t) == ListCreate(t) \/ ListCollect(t) \/ ListPush(t) \/ ListDelete(t)

-----------------------------------------------------------------------------
(***************************************************************************)
(* The commands                                                            *)
(***************************************************************************)

\* handle_nm_device_state: two states of a Wi-Fi device are reported.
HandleDeviceState(t, state) ==
  Goto(t, IF state \in {"activated", "disconnected"} THEN "report" ELSE "idle")

\* enable_wifi_device and disable_wifi_device: a switch that is already
\* where the command wants it only has the device's state handled.
StartSwitch(w) ==
  /\ pc[w] = "idle" /\ commands < MaxCommands
  /\ commands' = commands + 1
  /\ \E s \in Switch :
       \/ /\ enabled # s
          /\ wish' = [wish EXCEPT ![w] = s]
          /\ Goto(w, "find")
       \/ /\ enabled = s /\ device
          /\ HandleDeviceState(w, devstate)
          /\ UNCHANGED wish
       \/ /\ enabled = s /\ ~ device
          /\ UNCHANGED <<pc, wish>>
  /\ UNCHANGED <<network, handlers, queue, live, build, emits, told, lost,
                 changes, faults>>

\* Mutant: the handler is connected without being looked for.
FindHandlerNever(w) ==
  /\ pc[w] = "find"
  /\ Goto(w, "connect")
  /\ UNCHANGED <<network, handlers, queue, live, wish, build, emits, told,
                 lost, bounds>>

\* soft_control_wifi looks for the connection and makes it in two calls.
FindHandler(w) ==
  /\ pc[w] = "find"
  /\ Goto(w, IF clientHandlers = 0 THEN "connect" ELSE "set")
  /\ UNCHANGED <<network, handlers, queue, live, wish, build, emits, told,
                 lost, bounds>>

ConnectHandler(w) ==
  /\ pc[w] = "connect"
  /\ clientHandlers' = clientHandlers + 1
  /\ Goto(w, "set")
  /\ UNCHANGED <<network, scanHandlers, queue, live, wish, build, emits, told,
                 lost, bounds>>

SetEnabled(w) ==
  /\ pc[w] = "set"
  /\ radio' = IF device THEN wish[w] ELSE radio
  /\ wish' = [wish EXCEPT ![w] = "off"]
  /\ Goto(w, "idle")
  /\ UNCHANGED <<enabled, device, devstate, air, handlers, queue, live, build,
                 emits, told, lost, bounds>>

StartReport(w) ==
  /\ pc[w] = "idle" /\ commands < MaxCommands
  /\ commands' = commands + 1
  /\ Goto(w, "report")
  /\ UNCHANGED <<network, handlers, queue, live, wish, build, emits, told,
                 lost, changes, faults>>

StartList(w) ==
  /\ pc[w] = "idle" /\ commands < MaxCommands
  /\ commands' = commands + 1
  /\ enabled = "on"
  /\ Goto(w, "list")
  /\ UNCHANGED <<network, handlers, queue, live, wish, build, emits, told,
                 lost, changes, faults>>

\* dbus_method_call_with_data; the command is freed with its work.
SendReport(w) ==
  /\ pc[w] = "idle" /\ queue # <<>>
  /\ queue' = Tail(queue)
  /\ live' = live - 1
  /\ UNCHANGED <<network, handlers, pc, wish, build, emits, told, lost, bounds>>

Start(w) == StartSwitch(w) \/ StartReport(w) \/ StartList(w)

Proceed(w) ==
  FindHandler(w) \/ ConnectHandler(w) \/ SetEnabled(w) \/ SendReport(w)

-----------------------------------------------------------------------------
(***************************************************************************)
(* The callbacks, and NetworkManager                                       *)
(***************************************************************************)

\* libnm learns of the switch and calls the handlers connected by then.
NotifySwitch ==
  /\ pc[Main] = "idle" /\ enabled # radio
  /\ enabled' = radio
  /\ emits' = clientHandlers
  /\ Goto(Main, IF clientHandlers > 0 THEN "report" ELSE "idle")
  /\ UNCHANGED <<radio, device, devstate, air, handlers, queue, live, wish,
                 build, told, lost, bounds>>

\* Mutant: the scan signal is connected without being looked for.
ScanSignalAgain ==
  /\ pc[Main] = "scan_signal"
  /\ scanHandlers' = CASE ~ device -> scanHandlers
                       [] device /\ enabled = "on" -> scanHandlers + 1
                       [] device /\ enabled = "off" -> 0
  /\ emits' = emits - 1
  /\ Goto(Main, IF emits > 1 THEN "report" ELSE "idle")
  /\ UNCHANGED <<network, clientHandlers, queue, live, wish, build, told, lost,
                 bounds>>

\* Mutant: the scan signal stays connected when Wi-Fi is turned off.
ScanSignalStays ==
  /\ pc[Main] = "scan_signal"
  /\ scanHandlers' = IF device /\ enabled = "on" THEN 1 ELSE scanHandlers
  /\ emits' = emits - 1
  /\ Goto(Main, IF emits > 1 THEN "report" ELSE "idle")
  /\ UNCHANGED <<network, clientHandlers, queue, live, wish, build, told, lost,
                 bounds>>

\* The last part of wireless_enable_state_changed_cb; the next handler of
\* the emission follows.
ScanSignal ==
  /\ pc[Main] = "scan_signal"
  /\ \/ /\ device /\ enabled = "on" /\ scanHandlers = 0
        /\ scanHandlers' = 1
     \/ /\ device /\ enabled = "on" /\ scanHandlers > 0
        /\ UNCHANGED scanHandlers
     \/ /\ device /\ enabled = "off"
        /\ scanHandlers' = 0
     \/ /\ ~ device
        /\ UNCHANGED scanHandlers
  /\ emits' = emits - 1
  /\ Goto(Main, IF emits > 1 THEN "report" ELSE "idle")
  /\ UNCHANGED <<network, clientHandlers, queue, live, wish, build, told, lost,
                 bounds>>

\* device_state_changed_cb
NotifyDevice ==
  /\ pc[Main] = "idle" /\ device /\ changes < MaxChanges
  /\ changes' = changes + 1
  /\ \E s \in DeviceStates \ {devstate} :
       /\ devstate' = s
       /\ HandleDeviceState(Main, s)
  /\ UNCHANGED <<radio, enabled, device, air, handlers, queue, live, wish,
                 build, emits, told, lost, commands, faults>>

\* A scan has ended: libnm has another list, and its handlers report it if
\* the switch is on.
NotifyScan ==
  /\ pc[Main] = "idle" /\ device /\ changes < MaxChanges
  /\ changes' = changes + 1
  /\ air' \in 0 .. MaxAir
  /\ Goto(Main, IF scanHandlers > 0 /\ enabled = "on" THEN "list" ELSE "idle")
  /\ UNCHANGED <<radio, enabled, device, devstate, handlers, queue, live, wish,
                 build, emits, told, lost, commands, faults>>

Callbacks == NotifySwitch \/ ScanSignal

\* Somebody else turns the switch.
RadioChanges ==
  /\ changes < MaxChanges
  /\ changes' = changes + 1
  /\ radio' \in Switch \ {radio}
  /\ UNCHANGED <<enabled, device, devstate, air, handlers, queue, live, pc,
                 wish, build, emits, told, lost, commands, faults>>

Next ==
  \/ \E w \in Workers : Start(w) \/ Proceed(w)
  \/ \E t \in Threads : Report(t) \/ List(t)
  \/ Callbacks \/ NotifyDevice \/ NotifyScan \/ RadioChanges

\* Threads that are in the middle of something go on, the main loop
\* dispatches what libnm has received; nobody has to send a command.
Fairness ==
  /\ \A w \in Workers : WF_vars(Proceed(w))
  /\ \A t \in Threads : WF_vars(Report(t) \/ List(t))
  /\ WF_vars(Callbacks)

Spec == Init /\ [][Next]_vars /\ Fairness

-----------------------------------------------------------------------------
Labels == {"idle", "report", "active", "push", "list", "collect",
           "delete", "find", "connect", "set", "scan_signal"}

Cmds == [kind : {"none", "state", "list"}, flag : Switch, count : Nat,
         skipped : Nat, at : Nat]

\* Type invariant.
TypeOK ==
  /\ radio \in Switch /\ enabled \in Switch
  /\ device \in BOOLEAN /\ devstate \in DeviceStates
  /\ air \in 0 .. MaxAir
  /\ clientHandlers \in Nat /\ scanHandlers \in Nat /\ emits \in Nat
  /\ queue \in Seq(Cmds)
  /\ live \in Nat /\ lost \in Nat
  /\ pc \in [Threads -> Labels]
  /\ wish \in [Workers -> Switch]
  /\ cmd \in [Threads -> Cmds]
  /\ index \in [Threads -> 0 .. CacheSize]
  /\ told \in Switch \cup {"none", "lost"}
  /\ commands \in 0 .. MaxCommands
  /\ changes \in 0 .. MaxChanges
  /\ faults \in 0 .. MaxFaults

\* The search for the handler and its connection are two calls, so workers
\* that race connect it more than once, and every change of the switch is
\* then reported as often; each worker can do so once at most, whatever the
\* commands (soft_control_wifi).
HandlersBounded == clientHandlers <= Cardinality(Workers)

\* However often the callback of the switch is connected, and whatever the
\* order of changes, a scan is reported by one handler at most
\* (connect_ap_scan_signal).
ScanReportedOnce == scanHandlers <= 1

\* Once a change of the switch has reached the callback, the scan signal is
\* connected whenever the main loop rests with Wi-Fi on, and not connected
\* when it rests with Wi-Fi off, across changes made by workers, by others
\* and by several handlers (wireless_enable_state_changed_cb).
ScanFollowsSwitch ==
  (device /\ pc[Main] = "idle" /\ told # "none") =>
    scanHandlers = (IF enabled = "on" THEN 1 ELSE 0)

\* A list that waits to be sent, and that no change of the networks has
\* overtaken, has every access point in reach up to the size of the cache,
\* those that could not be extracted apart: a failure in the middle does not
\* end the list (get_available_wifi_access_points).
ListComplete ==
  \A k \in 1 .. Len(queue) :
    (queue[k].kind = "list" /\ queue[k].at = changes) =>
      queue[k].count + queue[k].skipped = Lesser(air, CacheSize)

Building == {t \in Threads : cmd[t] # NoCmd}

\* Every command that was allocated is being built, waits in the queue or
\* has been freed, once; the only ones nobody frees are those whose work
\* could not be created in report_wifi_state.
CommandsAccounted == live = Cardinality(Building) + Len(queue) + lost

\* A change of the switch that has handlers is reported: the main loop
\* rests again and again with the last report of its callbacks telling the
\* switch as it is, unless an allocation of that report failed
\* (wireless_enable_state_changed_cb, report_wifi_state).
ChangeIsReported ==
  []<>(pc[Main] = "idle" /\ told \in {"none", "lost", enabled})
=============================================================================
