# Formal model of sys-mgr

TLA+ modules, TLC configurations and TLAPS proofs about the system manager in
`src/`: a C service that takes commands from DBus, executes them in a pool of
worker threads, watches an IMU and an ambient light sensor, follows
NetworkManager and plays sounds.  Paths below are relative to the directory
that holds `src/` and `tla/`.

## 1. The system

### Components, their state and their operations

| Component | Source | State | Operations |
|---|---|---|---|
| Work queue and workers | `src/src/core/work/*.c`, `include/sched/workqueue.h` | list of works, mutex, condition variable, atomic `active_cnt` | `push_work`, `pop_work_wait_safe`, `workqueue_complete_work`, `workqueue_handler`, wakeup, init, deinit |
| Service lifecycle | `src/src/main.c`, `comm/internal_comm.c` | `ctx_t`: `run`, `comm.event`, `wqs`, `g_main`, `cfg` | startup with a ladder of cleanups, `main_loop`, `sig_handler`, `service_shutdown_flow` |
| Hardware monitor | `src/src/hw/common.c` | none of its own; reads `run`, `als_en`, `imu_en` | one cycle: automatic brightness, IMU report |
| DBus listener and senders | `src/src/comm/dbus_comm.c` | connection with its two queues, epoll set | wait for bus or event file, decode a command, push it, answer; workers send reports |
| DBus codec, payload | `comm/dbus_comm.c`, `comm/cmd_payload.c`, encoder of `src/utils/sys_utils.c` | `remote_cmd_t` | encode, decode, fill a command |
| Dispatcher | `src/src/task/task_exec.c` | none | opcode to handler |
| IMU | `src/src/hw/imu/imu.c` | `imu_en`, filters, offsets, `shared_angles` with its lock | enable (with a calibration), disable, sampler threads, reports |
| Kalman filter | `src/src/hw/imu/kalman.c` | filter state | arithmetic |
| Backlight, ALS | `src/src/hw/backlight.c`, `als.c` | brightness file, `als_en` | set, ramp, read, report, enable, disable, automatic brightness |
| Audio | `src/src/audio/**` | `struct audio_mgr`, mapped WAV file, the ALSA stream | init, reinit, release, WAV parser, playback |
| Sysfs and IIO lookup | `src/src/comm/fs_comm.c` | none | read, write, search of a device by name |
| Network manager client, Wi-Fi | `src/src/comm/net/*.c` | `NMClient`, signal handler ids, cached access points | device callbacks, enable, disable, reports, connect flow |
| Vibrator, process helper, rest of the client program, lists, log | `hw/vibrator.c`, `comm/proc_comm.c`, `src/utils/sys_utils.c`, `list.h`, `log.h` | none shared | see section 8 |

### How they interact

The **main thread** starts everything, then runs the GLib loop.  Callbacks of
NetworkManager run in it and push reports.  SIGINT is handled in it too, or in
any other thread, since none blocks it: the handler runs the whole shutdown on top
of whatever it interrupted, and while one thread runs it another may be given the
next SIGINT.  The **listener** decodes commands of the bus and pushes them.  The **monitor** runs
a cycle as long as `run` is set and pushes reports.  Two **workers** take works
and execute their opcodes; a command that answers pushes its report as another
work, which sends it on the bus.  An enable of the IMU creates a **sampler**
thread that is detached by never being joined.  Listener and workers share one
libdbus connection: a worker that flushes its report reads the socket as well,
into the queue the listener takes its messages from.

Everything but the queue's list and the IMU's angles is shared without a lock:
`run`, `imu_en`, `als_en`, the brightness file, the filters, `struct audio_mgr`,
the cache of access points.  The hard behaviours follow from that: a counter
that is polled outside of the mutex, a flag that is cleared outside of it,
threads that nobody joins, a handler that runs inside a signal, samplers and
ramps that overlap, ALSA handles that are closed on several failure paths.

### What makes each component correct

* Queue: the counter the shutdown polls is right; a work has one owner; no
  signal is lost; no worker sleeps through the shutdown; nothing of it is used
  after it is freed; works start in order, each is finished once.
* Lifecycle: every failure gives back what was acquired; a SIGINT ends the
  process, unless its handler waits for the thread it runs in; threads end before
  what they use is freed.
* IMU: an enabled IMU has a sampler, a disabled one soon has none; a report is
  one consistent sample; the filters keep their parameters.
* Backlight: ramps end and stay in their interval; with steady light the
  brightness settles near the target and nothing flickers.
* Audio: ALSA is called on a good handle only, no handle or mapping leaks, no
  read passes the end of the file; which needs works that do not overlap, and sizes
  that do not wrap around the address space.
* Wi-Fi: the connections of signals stay bounded and follow the switch; every
  change is reported; a list is complete; a command is freed once.
* DBus: what the listener reads it handles; a caller is told what became of its
  command; a command arrives as it was sent; messages live as long as they are
  used and no longer; the listener ends when it is told to.
* IIO lookup: the path found is right, a device present is found, and a search
  that has read nothing reports that.

`PROJECT.json` lists the hazards at their lines, each with the properties that
would catch it, or the reason why none does yet.

## 2. Plan

Modules, in the order of their importance:

1. `WorkQueue` with `WorkPool` (abstract), `WorkQueueImpl` (refinement) and
   `WorkQueueProofs`: done.
2. `Lifecycle`, which uses the queue in an abstracted form, with
   `LifecycleProofs`: done.
3. `Imu`, `Backlight`, `Audio`, `IioLookup`: the commands the workers execute,
   with `ImuProofs`, `BacklightProofs`, `AudioProofs`, `IioLookupProofs`: done.
4. `Wifi` and `WifiProofs`: the signal connections made by workers and
   callbacks, the reports: done.  Left for later: the names that reports borrow
   from the static cache, and the release of the client by the shutdown flow.
5. `Frame` and `DBus`, with `DBusProofs` about both: the codec, the
   listener, and the incoming queue of libdbus, which a worker's flush shares with
   it: done.
6. `WavFile`: the parser of WAV files, which `Audio` runs, with its proof in
   `AudioProofs`: done.

Theorems, in the order planned: the queue's safety, the signal connections
of Wi-Fi, the codec and the commands that arrive through it; the refinement
of `WorkPool`; the invariants of `Imu`, `Lifecycle`, `IioLookup`, `DBus`,
`Audio` and `Backlight`, and the lists and commands of `Wifi`.  All are done: each
invariant that a run checks is also a theorem.  Left for later: what the liveness
properties say about single steps (that a brightness which has settled is not
written again, that the last report of a change is not overtaken by an older one).

## 3. The modules

In each module a step is the code between two accesses to state that another
thread can touch.  `map` in `PROJECT.json` names the lines of every definition.
Operators introduced by a comment "Mutant:" are plausible bugs; no action uses
them, and the properties are shown to fail when one replaces the definition it
is a mutant of.

### WorkQueue

Threads are the workers, the producers (listener, monitor) and main.  `list`,
`owner` (holder of the mutex), `waiters` (the condition variable), `active_cnt`,
`run` are the code's; `pc`, `item` and `arg` are the threads' positions and
locals; `fate` is a history of each work; `alive` tells whether the queue is
allocated.

`push_work` is `PushLink`, `PushCount`, `PushSignal`.  The three run under the
mutex but the counter is read without it, so they are separate steps.
`pop_work_wait_safe` is `WorkerLock`, `WorkerPark`, `WorkerWait`, `WorkerQuit`,
`WorkerPop`: the test of `run` and the wait are two steps, because main clears
`run` without the mutex.  `pthread_cond_wait` may return without a signal
(`SpuriousWakeup`).  `workqueue_complete_work` is `WorkerComplete`, `WorkerDec`,
`WorkerLoad`, `WorkerNotify`.  The shutdown is `Sigint`, `DrainPoll`, `StopRun`,
`WakeupAll`, `JoinWorkers`, `DestroyList`, `ReleaseQueue`.  A push that finds
the queue freed goes to `crashed`: that is the use of freed memory.  One SIGINT
comes, to main; what two of them do to each other is in `Lifecycle`.

`MaxSpurious` bounds the spurious wakeups; works are pushed once each, so the
sets of works bound a behaviour.  The type, priority and duration of a work are
never read by the code and are left out.

### WorkPool and WorkQueueImpl

`WorkPool` is what a client may rely on, without list, lock, condition or
counter: works start in the order of their acceptance, at most `Capacity` run,
each finishes once, and none is dropped before the pool has been found idle and
what runs has finished.  `WorkQueueImpl` gives the refinement mapping: a work is
accepted when it is *counted* (not when it is linked) and finished when it is
*discounted* (not when its handler returns), since those are the moments that
the shutdown's poll can see.

### Lifecycle

Main's steps are the labels of `service_startup_flow` and of its ladder of
cleanups, and those of `main_loop`; `pc` is where main is.  `flow` says for each
thread where it is in `service_shutdown_flow`, which the handler of a SIGINT runs on
top of it, or, for main in its ladder, in `workqueue_deinit`; a thread takes its own
steps only when its `flow` is "none".  `signal()` masks SIGINT in the thread that
handles it and no other, so that several threads may run the flow at once: then a
worker may be joined by two (`Join`: `pthread_join` refuses at once, and the second
frees the queue under the worker), the GLib loop or the queue destroyed twice
(`FlowCrash`), a worker may wait for itself.  `handlers` is history: who has been in
the handler.  A worker whose queue was freed under it goes on in freed memory or
crashes (`WorkerLost`).  `MayFail` says which startup steps may fail, `SigintAt` where
main may get a SIGINT and `Interrupted` which other threads may, so a configuration
can look at one cause at a time.  The queue appears by its mutex (`locked`, held by a
callback), its counter (`pending`) and its sleeping workers (`worker`, `woken`).  The
listener waits on the bus and the event file, whose codes are a set: the file is an
eventfd that adds what is written.  A thread that reads a context or a queue that is
gone takes the process to `crashed`.

Left out: SIGTERM, which calls `exit(0)`; a SIGINT between two `pthread_create`
of the workers, one that main gets in its ladder of cleanups, and one that finds
another thread than main inside the queue's mutex (which hangs as it does in main);
failures of `malloc` other than those of a startup step.

### Imu

Workers run `enable_imu_fn` (test, filter setup, calibration, flag,
`pthread_create`), `disable_imu_fn` and reports; the monitor reports; samplers
run `imu_fn_handler`.  `r_measure` is the configured noise or a scaled one; an
angle is named by the thread that stored it, which is enough to see a torn
report.  A new sampler needs a free name in `Samplers`; without one the
creation fails, which `pthread_create` may do as well.

### Backlight

Workers and monitor run the same code on one file, step by step:
`als_read_illuminance` (`ReadLux`, whose failed read leaves `lux` uninitialised:
any level), `get_brightness`, the report of the target, one `RampStep` per write,
the report of the state.  The brightness file written (`FS_BRIGHTNESS`) and the
one read (`FS_ACTUAL_BRIGHTNESS`) are one file in the model: the driver is taken
to show what was written.  Commands give a brightness in `0 .. PctMax`.  The light is
what `atoi` makes of a file, so it may be negative; `Clamp` cuts it at both ends.

### WavFile

A file is its size and the chunks that the parser of `audio_effect.c` meets when it
follows the sizes they claim, of which the last may pass the end of the file.
`Visit` is one turn of the loop of `wav_parse_mmap`, `Take` what it does with a
chunk that fits, and `Scan` the recursive function that runs it over the
chunks; `reach` records how far the file was read (`Read`).  `GoodFmt` holds the
checks of `parse_fmt_chunk`.  The parser adds a 32-bit size to a pointer and compares
the sum with the end of the mapping (`src/src/audio/audio_effect.c:133`).  On the
target, an STM32MP157D (`src/README.md:13`), pointers are as short as sizes and the
sum may wrap around: `Base` is where the file is mapped, `Space` the number of
addresses, `Word` that of sizes, and `Sum` their sum modulo `Space`.  A chunk whose
end wraps passes the test; the parser may then read outside of the file (`outside`)
or come back to a chunk it has seen and never end (`Loops`).

### Audio

One `struct audio_mgr` (`mgr`), the life of each PCM handle (`handle`), and for
each worker its file, whether it is mapped, and its playback's counters.  ALSA is
external: open and configuration may fail, a write takes between one frame and
what is left, and a call on NULL or a closed handle is a crash.  Nothing locks `mgr`:
two workers may execute works on it at once, and `overlaps` counts the works begun
since that first happened.  `ring` is the
stream of the handle: its state and the frames to be played.  A stream that was
started takes frames out of it (`Consume`) and stops in an xrun when there are none;
`Recover` prepares it again.  `Start` is the one `snd_pcm_start` of a playback: a
stream written through mmap starts by that call only.  The format passed
to `audio_mgr_reinit` has its fields in the order the code passes them
(`ReinitFormat`).  `overread` and `upset` are history: which reads were outside of
the file or of its PCM data, and that the stream was not started or that an xrun has
stopped it.  Gains and samples are left out.  A failed `audio_mgr_prepare`, which
the code ignores, is the same as a worker that tries again.

### IioLookup

`find_device_path_by_name` over a directory whose entries come in any order, are
or are not IIO devices, and have a name file that can be read or fails with an
error; `ret` is carried from entry to entry as in the code.

### Wifi

`radio` is the switch in NetworkManager, `enabled` what libnm has cached of it:
only the main loop changes that (`NotifySwitch`), and then calls the handlers
connected by then (`emits` of them, one after the other).  Both are external, as
are the scan signal and whoever else turns the switch.  Workers run
`enable_wifi_device` and `disable_wifi_device` (`StartSwitch`), whose
`soft_control_wifi` looks for the handler (`FindHandler`), connects it
(`ConnectHandler`) and asks for the switch (`SetEnabled`).  `report_wifi_state`
and `report_cached_ap_list` are run by workers and by callbacks.  The callback of
the switch is `Report` by the main thread followed by `ScanSignal`.  A command is
its kind, its flag and its number of entries; `live` counts those allocated.
`told`, `lost` and the fields `at` and `skipped` are history.  The client is there
from start to end, a Wi-Fi device is there for the whole time or not at all, and
the full 32 entries of a command are never reached by a state report, so the
failure of its `remote_cmd_add_int` does not appear.

### Frame

`remote_cmd_t` is a record whose `entry_count` is the length of its entries.  A frame
is the sequence of the arguments of its message with their D-Bus types.  Names and
values are abstract, but `prio` and `duration` keep their width: they are bytes that
the codec writes and reads through pointers to 32-bit integers, so that the word
written at `prio` holds `duration` too, and the one at `duration` ends in the low
byte of `entry_count` (`PrioWord`, `DurationWord`; little endian).  `Decode` is
written out for the frames that have the arguments it asks for (`Readable`).  A
value of a type the codec does not know stays as `calloc` left it.

### DBus

The listener's steps are the calls of `dbus_fn_thread_handler` from
`setup_dbus_connection` on: `EpollWait`, `NextEvent`, `ReadWriteDispatch`, `Pop`,
`Handle`, `Reply`, `Unref`.  A worker takes a work, and for `OP_DBUS_SENT_CMD`
prepares, sends and flushes its message (`Prepare`, `SendFrame`, `FlushRound`,
`Flushed`).  libdbus is external, modelled by what the code meets of it: a connection
has one `incoming` queue, which every call that does I/O in any thread fills from the
`socket`; epoll sees the socket and not that queue; `read_write_dispatch` reads only
when the queue is empty, and otherwise dispatches the head itself, which answers a
call with UnknownMethod as no handler is registered; a thread inside of the
connection's I/O keeps others from reading (`IoBusy`).  A decoded command points into
its message: `refs` are the messages still referenced, `stale` those whose strings
were read after that, which may crash.  The shutdown clears `run`, writes the event
file (`SetEvent`) and soon closes it (`CloseEvent`): a closed file leaves the epoll set
with the event that was in it.  A `Reply` whose message could not be created hands
NULL to libdbus (`src/src/comm/dbus_comm.c:264`, before the test at line 269), which
aborts the process or, built or told otherwise, leaves the caller without an answer.  `stray`, `swallowed`, `pushed`, `answer`,
`delivered` and `unsent` are history.  `Fault` stands for any call or allocation that
fails.

Left out: a connection that the bus closes, which ends the process inside libdbus,
and `dbus_emit_signal`, which has no caller.

## 4. Runs

| Run | Module | Shows |
|---|---|---|
| `WorkQueue_queue` | `WorkQueueImpl` | all safety properties of the queue, the refinement of `WorkPool`, that queued works settle and that a shutdown ends |
| `Lifecycle_service` | `Lifecycle` | every step failing or not, SIGINT at every stage and in two threads at once: clean failures, joins before frees, stop before event, no crash while the service runs, a SIGINT ends the process unless its handler waits for its own thread |
| `Lifecycle_startfail` | `Lifecycle` | counterexample: the cleanup of a failed startup hangs |
| `Lifecycle_sigint` | `Lifecycle` | counterexample: a SIGINT inside `push_work` deadlocks |
| `Imu_threads` | `Imu` | enabled means sampled, reports are not torn, disabled samplers end |
| `Imu_measure` | `Imu` | counterexample: overlapping samplers change the noise for good |
| `Backlight_ramps` | `MCBacklight` | ramps stay inside their interval; brightness converges; no flicker; a disabled sensor lets go |
| `Audio_handle` | `MCAudio` | while no works overlap: valid handles, nothing leaks on any failure path, no read past a file by parser or playback unless a size wraps, playbacks end unless an xrun stops them |
| `Wifi_signals` | `Wifi` | handlers stay bounded and follow the switch, lists are complete, commands are freed once, changes are reported |
| `IioLookup_search` | `MCIioLookup` | a path is found, and is right, if there is one; a search that has read nothing reports it |
| `DBus_listen` | `MCDBus` | only strays are swallowed, answers are true, commands arrive as sent, messages live as long as they are used, all that is read is handled, the listener ends |
| `DBus_swallow` | `MCDBus` | counterexample: a call read by a worker's flush is answered by libdbus, not by the service |

### Bounds, and why they are enough

* Two workers, as `WORKERS_PER_QUEUE`.  One producer stands for listener and
  monitor, which do the same to the queue; main's callbacks are a second one.
  Two commands (one with an invalid opcode), one report and the release work
  make four works: enough for both workers to hold one while one is linked and
  one is being pushed.  One spurious wakeup is enough to separate a wakeup from
  its signal.  About 42,000 states.
* Lifecycle: two workers, one push by a background thread or a callback beside the
  works of startup and shutdown, every step able to fail; SIGINT comes to main, to the
  listener and to one of the workers (the other is like it, and the monitor like the
  listener), to two threads in all, and again to main when it has returned.  About
  490,000 states.
* Imu: two workers, two samplers (the least that overlap), three commands: an
  enable, a disable and another enable.  About 1.2 million states.
* Backlight: levels 0 to 4 with a threshold of 2, three light readings, one
  below zero, one in the middle of the scale and one at its end, two commands, one change of light and
  one fault; a ramp is long enough for the others to write in its middle.  About
  640,000 states.
* Audio: two workers; seven files: two good ones (16-bit stereo with an odd chunk and
  a frame and a half of data, 8-bit mono without its last pad byte), three that the
  parser must refuse for a size or a format, and two whose data chunk wraps around 122
  addresses, to one below the file and to itself.  Two inits, one play and one release;
  once two works have overlapped no further one begins.  A ring of two frames and
  chunks of two, so that a file is written in several copies, fills the ring, and can
  run it empty.  About 700,000 states.
* DBus: one worker, so that its flush and the listener share the connection; a call
  with one entry too many, a signal whose command is to be forwarded, and a reply;
  one report of the service, one fault, two entries in a command.  About 243,000
  states.  The counterexample needs two workers and no fault.
* Wifi: two workers and the main loop, three commands (the least that connect
  three handlers if nobody looked for one), one change by NetworkManager, one
  fault; a cache of two entries with up to three access points in reach, so that
  a list is cut and one of its access points can fail.  About 1.1 million states.
* IioLookup: three entries, so that one can come before and one after a match;
  two names, and all errors that are told apart.

`CHECK_DEADLOCK FALSE` appears where the program really stops: `Lifecycle`
counterexamples are about hangs and its process ends, the audio commands are used
up, a lookup is over, the DBus listener has ended, and Wi-Fi rests when the
commands are used up.  In `WorkQueue`, `Imu` and `Backlight` deadlock is
checked; their `Terminated` step allows only the intended end.

### Fairness, and why

The specification of each liveness run (`FairSpec`, in `Wifi` `Spec` itself) asks weak fairness of each
thread's steps *inside* the code: a thread that can run is run by the scheduler.
In `Lifecycle` a handler is as fair as the thread it interrupts.  No strong fairness is
asked of the mutex: the queue's properties hold although a
worker may lose the race for it any finite number of times.  `WorkerExec` is
included, that is, a handler returns; the handlers are loops over files and ALSA
calls with timeouts (the Wi-Fi connect flow, which may not return, has no
caller).  Nothing forces a command, a message, a signal, a spurious wakeup or a
change of light.  In `DBus` the listener and the shutdown's
write of the event file are fair (its close need not come before the listener has read,
and may), and a worker is fair to what gets it through a
send: the bus reads what is written, but rounds of a flush that only read are not
progress.  In `Audio` a worker is fair, except that a wait need not fail or time out,
and a started stream plays.  A monitor's cycle comes round because it sleeps a fixed time.
Works and commands of an instance are finite, so nothing is said of a shutdown
that competes with a stream of pushes without end.

## 5. Where code and comments differ

With a run that shows it (`findings` in `PROJECT.json`):

* A startup that fails after the workers exist never ends: the cleanup joins
  workers while `run` is still 1 (`FailedStartEnds`).
* A SIGINT that interrupts `push_work` in the main thread deadlocks
  (`SigintShutsDown`).  It is one of three ways in which a handler waits for its own
  thread; `SigintEnds` excuses them by name (`HoldsItself`), and fails without any of
  the excuses.  The others: a worker handles the SIGINT on top of a work, which the
  counter it polls (`src/src/main.c:318`) includes; and a worker and another thread both
  handle one, so that the worker joined by the other does not leave, or waits for the
  sleepers of the condition variable it destroys, itself among them.
* Two samplers can overlap and change the measurement noise for good
  (`MeasureRestored`).
* The listener does not handle every call: one that a worker's flush has read is
  dispatched by `dbus_connection_read_write_dispatch` when the socket becomes
  readable again, and its caller is told UnknownMethod (`NothingSwallowed`).

Seen while modelling, in the models' behaviours but without a run of their own:

* Life of the service.  A listener or monitor that is about to push when the queue is
  freed uses it (`crashed` in `WorkQueue`), while the last log line,
  `src/src/main.c:396`, says "Safe exit"; the flow does not wait for either of them, and
  works pushed after the last poll of the counter are freed unexecuted.  When two threads
  handle a SIGINT at once, the second is refused the joins of the first and frees the
  queue under the workers, and both may destroy the GLib loop; a second SIGINT after the
  first has returned uses a queue that is gone; one that another thread than main handles
  before there is a GLib loop leaves main in a loop nobody quits.  The event file is
  closed soon after it was written (`src/src/main.c:339`) and leaves the epoll set with
  its event: a listener that has not come back from `epoll_wait` by then sleeps until the
  bus sends something (`Asleep` in `ListenerEnds`).
* Wi-Fi.  Two workers that race connect the callback of the switch twice
  (`src/src/comm/net/wifi.c:225` says "Connect signal if not already connected"), and
  every change is then reported twice; the callback is connected by a command only, so
  changes before the first one are not reported; a state report no work could be created
  for leaks its command.
* IMU and backlight.  A calibration can overlap a sampler of an earlier enable; a ramp
  does not notice that another thread has set the brightness; a report may tell a
  brightness that has changed since it was read; a ramp to zero ends at 1.
* Audio.  A second `OP_AUDIO_INIT` forgets the handle of the first; a reinit for a file
  of another format passes channels, rate and format (`src/src/audio/audio_effect.c:252`)
  where `src/include/audio/audio.h:113` takes format, channels and rate; the stream of a
  playback is started once, `src/src/audio/audio_effect.c:307`, so that a playback that an
  xrun stops with more to come than the ring takes waits for ever.  Two works that overlap
  share `struct audio_mgr` without a lock, so that a release or a reinit in one worker
  closes the handle that the other plays on (`HandleValid` and, for the copies,
  `ReadsInside` hold up to the first overlap).  A chunk size near 2^32 wraps around 32-bit
  addresses, passes the test of `src/src/audio/audio_effect.c:133`, and sends the parser
  or the playback outside of the file, or the parser round for ever (`ReadsInside` and
  `PlaybackEnds` say what holds otherwise).
* IIO lookup.  It can report success without a path, when the last name it read was
  another device's (`src/src/comm/fs_comm.c:178`).
* DBus.  A message that arrives during a worker's flush or during AddMatch waits in the
  queue, which epoll does not see, until the next one comes; a command that asks the
  service to forward it (`OP_DBUS_SENT_CMD` from another program) has its strings read
  after its message was unreferenced; a report sent before there is a connection leaks
  its message (`src/src/comm/dbus_comm.c:566`); a method return that could not be created
  is written to before it is tested (`src/src/comm/dbus_comm.c:264`).  The frame that the
  client program encodes (`src/utils/sys_utils.c:24`), like the one drawn at
  `src/include/comm/cmd_payload.h:23`, has neither prio nor duration, which the decoder of
  the service asks for (`ClientFrameIsShort`).

## 6. What is proved

Every invariant that a passing run checks, the action property `DrainSound` and the
refinement `ImplementsPool` are theorems, for every value of the constants that the
modules' assumptions allow.  The assumptions are named in the modules that declare
the constants, and TLC evaluates them in the runs: the sets of workers, works and
messages are finite where they are counted, the kinds of threads and works are
distinct, bounds are natural numbers, scales are not empty.  Two go further than
types.  `FrameAssumption` has `MAX_ENTRIES` fit into a signed byte, as it must for
the byte written beside it to do no harm (the code has 32); `DBusAssumption` says
that what other programs send are commands.

A property is seldom inductive as it stands.  In each module the invariant is
split into named parts that are shown preserved one by one, with a step for each
action that can disturb them.

### The queue (`WorkQueueProofs`)

`TypeOK`, `CountExact`, `SingleOwner`, `NoLostSignal`, `NoSleeperAfterWakeup`,
`WorkersStay`, `WorkersGoneBeforeFree`, `DrainSound` and the refinement.  `IInv` is
the conjunction of the invariants with

* `LifeInv`: where main is determines `run`, `alive` and what the workers can
  still do; without it the frees could not be ordered after the joins;
* `MutexInv`: the mutex has a holder exactly when some thread is at a label of
  the critical section, and then only that one; `CountExact` needs it, because at
  most one push can be between its link and its count;
* `WaitInv` and `ParkInv`: who waits is at the label where it re-acquires the
  mutex, and who is about to wait has seen an empty list under a mutex it still
  holds; `NoLostSignal` and `NoSleeperAfterWakeup` rest on them;
* `ArgInv` and `ItemInv`: what a thread pushes or holds is in the state that its
  label says; `SingleOwner` is preserved only with them.

Lemmas on sequences (append, tail) and on cardinalities (a set with one element
more or less) are stated once.  `DrainSound` follows because a step from `drain`
to `stop` finds `active_cnt = 0`: with `CountExact` the linked and held works are
then no more than the uncounted pushes, and by `MutexInv` there is at most one of
those, which has linked the last work.

`QueueImplementsPool` is proved step by step with the mapping of `WorkQueueImpl`.
What makes it work is that at most one push is linked and not counted, and that its
work is the last of the list (`OneUncounted`): the pool's order is the list without
that last work, so a link is a stutter and a count is the pool's acceptance.  A pop
holds the mutex, so no push is between the two then, and it takes the pool's head;
that fewer than `Capacity` works run is a count of the workers with empty hands.  The
poll that reads 0 is the moment at which the pool is found idle, and
`workqueue_deinit` discards what came later, by `WorkersGoneBeforeFree` with nothing
running.

### Service lifecycle (`LifecycleProofs`)

`EventMeansStop`, `CleanupIsRight` and `NoCrashInService`, with any of the threads in
the signal handler at any time.  The invariant says which resources are there at each
label: `FlowInv` says who may be in the handler at which stage of main, and ties the
failure flag to the part of the program that main is in; `RunInv` orders the clearing
of `run` before the event and the joins in each thread's flow; `ContextInv`,
`QueueInv`, `GivenBackInv` and `ThreadsInv` say for context, queue, event file, GLib
loop and threads from where to where they exist, on the way up and on the ladder down.
`JoinsAll` is where it counts that main alone handles a SIGINT: with nobody else at a
join no `pthread_join` is refused, so that all workers have ended when main goes on.

### IMU (`ImuProofs`)

`TypeOK`, `EnabledHasSampler` and `NoTornReport`.  `MutexInv` is mutual exclusion of
the critical sections of `angles_lock`; `AnglesInv` says that outside of them tilt
and yaw are of one store, and that a copy begun under the lock is not overtaken.

### Backlight (`BacklightProofs`)

`TypeOK` and `RampInside`, which are inductive together, since no part of a ramp
depends on what another thread does to the file.  `TargetIsLevel` and
`WrittenIsLevel` are about the arithmetic: the target of any light is on the scale.

### IIO lookup (`IioLookupProofs`)

`PathIffPresent` and `EmptyIsReported`.  `LoopInv` says what the loop knows after
the entries it has visited, `RetInv` where a `ret` of 0 has come from.

### Wi-Fi (`WifiProofs`)

`HandlersBounded`, `ScanReportedOnce` and `ScanFollowsSwitch`: the invariant counts
the workers between `g_signal_handler_find` and `g_signal_connect` as if they had
connected already (`ConnectInv`): with no handler connected they are at most all
workers, and once there is one nobody joins them.  `FollowInv` says where main is
while an emission lasts, that a change can only have been told by a connected
handler, and that outside of an emission the scan signal matches the switch.

`ListComplete` and `CommandsAccounted` rest on a second invariant, `ReportInv`:
a thread has a command exactly at four labels (`HoldInv`), a list being collected
has one entry for each access point seen or has skipped it, and has not run past the
present ones unless they have changed (`CollectInv`), and no command is of a later
time than the present (`StampInv`).  Every step is then one of four: a thread takes a
command up, goes on with it, gives it to the queue or to nobody, or a worker frees
one; the cardinality of `Building` is counted for these four and not for each action.

### DBus (`DBusProofs`)

`RoundTrip`, that what `encode_data_frame` writes is decoded as it was, cut at
`MAX_ENTRIES`, for every command whose types the codec knows: the two words are
taken apart by their low bytes, and the entries are compared one by one.
`ClientFrameIsShort` says that no frame of the client has the arguments the decoder
asks for.

`DecodedAsSent` follows from `RoundTrip` and `QueueInv`, that the queue is a sequence
of reports and of decoded commands of messages.  `MessageLifetime` follows from
`WorkInv` (a worker that prepares has a work that asks it to send), `LiveInv` (a count
of the workers that are sending), `RefInv` (the listener references the message it
handles and nothing else) and `StaleInv`.

`OnlyStraysSwallowed` and `AnswerTellsTruth` rest on the way of a message.
`SetupInv`: before there is a connection nothing but the greetings of the bus is
read.  `StrayInv`: where the listener may dispatch, all that is in the incoming queue
was read by another call; the listener that has read something pops until the queue
is empty before it dispatches again.  `WireInv`: a message is in the incoming queue
or in the socket once, it was sent, and nothing was done about it yet, so that a
message that is dispatched was not pushed before and one that is handled was not
swallowed.  `HandleInv`: what is known of the message at hand.

### Audio and WAV files (`AudioProofs`)

`ParserStaysInside`, for every file: unless a size wraps, the parser ends, reads nothing
outside of the file, and the PCM data of a file that it accepts lies inside of it.  It is proved by induction
over the chunks.  The induction theorems of the library take an operator as a
parameter, which the installed provers cannot instantiate; `SetInduction` is
induction for a *set* of natural numbers, from the library's `WFMin` (a set that is
not empty has a least element) and `NatLessThanWellFounded`.  `ScanDefined` builds
the recursive function of `Scan` the same way, since a function that is defined by a
`CHOOSE` has its equation only if there is one.

The theorem also says that no size wraps where as many addresses follow the file as a
size has values, which is so on a 64-bit machine.

`HandleValid`, `NothingLeaks` and `ReadsInside`, for any files, formats, bounds and
any number of workers.  Two workers share `struct audio_mgr` without a lock, and one
may close the handle that the other plays on (section 5): what the three say of the
handle and of the copies ends with the first overlap, while mappings and the parser
are safe beyond it, being each worker's own.  Hence the shape of the invariant,
`AudioInv`: `MapInv` and `ParserInv` always, and `Sequential` until works have
overlapped, which says that one worker at most is busy (`Only`) and what then holds of
it.  A step of the busy worker keeps its part, and a step of another is the beginning
of a work, which either finds nobody busy or is an overlap.  `AudioAssumption` says
that the files are described by chunks that reach to their end.  The parts about a
busy worker: `HandleInv` says at which labels `mgr->pcm` is NULL, open, or closed but
not yet removed; the labels of `Dead` are those between a close and the assignment, and
the proof shows that ALSA is not called there.  `LeakInv` bounds the handles that
nothing points to, with a bound of its own for the place before the memset that forgets
one.
`MapInv` is the half of `NothingLeaks` about mappings.  `AlignInv` says that the
frame size the manager keeps is that of the format of its handle, except while it
is configured; `CopiesInside` that what was counted and what is being copied lies in the
PCM data, which needs that alignment, and the parser's theorem for where the data is.

## 7. What is only model-checked

The liveness properties: `QueuedWorkSettles`, `ShutdownCompletes`, `SigintEnds`,
`DisableStops`, `Converges`, `NoFlicker`, `MonitorLetsGo`, `ChangeIsReported`,
`PlaybackEnds`, `MessagesServed` and `ListenerEnds`.  They are out of the prover's
reach: it has no support for `ENABLED` and fairness.  And the counterexamples of
section 5, which are behaviours of an instance.

`TypeOK` of `Lifecycle`, `Audio`, `Wifi` and `DBus` documents the variables; the
proofs use the parts of it that they need (`Type`, `MgrType` and `CopyType`,
`ConnType` and `DataType`, `RouteType`), which leave out the bounds of an instance.
The lists of INVARIANTS of the runs are kept to what could go wrong.

No module with a theorem uses a recursive operator: recursion is by recursive
functions and the folds of the community modules.

## 8. What is not modelled

* A DBus connection closed by the bus: libdbus then ends the process.
* The names that Wi-Fi reports borrow from the static cache, and the release of the
  NetworkManager client by the shutdown flow: the client is there throughout.
* The connect flow, the disconnection and the rescan of Wi-Fi: nothing in the
  service calls them.  The handlers of Ethernet and modem devices: they log.
* The vibrator: one blocking sequence of ioctls without shared state.
* `cmd_executor` of `proc_comm.c`: it has no caller.
* The arithmetic of the Kalman filter and of audio gains: floating point.
* The client program in `src/utils` but for its encoder: it sends one message and
  exits.
* Logging and the list macros: the list is a sequence.
* Failures of memory allocation, except in Wi-Fi reports, in what DBus decodes,
  answers and sends, and where a startup step may fail.
