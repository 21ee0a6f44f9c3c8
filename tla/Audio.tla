-------------------------------- MODULE Audio --------------------------------
(***************************************************************************)
(* The sound service: src/src/audio/sounds/system_sounds.c on top of       *)
(* audio_effect.c (WAV files and playback) and audio_mgr.c (the ALSA       *)
(* handle).  One audio_mgr is shared, without a lock, by the workers that  *)
(* execute OP_AUDIO_INIT, OP_SOUND_PLAY and OP_AUDIO_RELEASE.              *)
(*                                                                         *)
(* ALSA is external: a call may fail, and on NULL or on a closed handle it *)
(* takes the process down.  Its ring takes the frames there is room for; a *)
(* stream that was started plays them, and stops in an xrun when there is  *)
(* none left.  A ring accessed by mmap starts by snd_pcm_start only.       *)
(* Gains and samples are left out; sizes are in bytes, since the bounds of *)
(* the mapping depend on them.  Reading past a mapping may end the process *)
(* as well, which is left out: nothing would follow.                       *)
(***************************************************************************)
EXTENDS WavFile, FiniteSets

CONSTANTS
  Workers,    \* the worker threads of the queue
  Files,      \* the WAV files
  Accepted,   \* the formats the device can be configured to
  MaxHandles, \* bound on the handles opened
  MaxInits,   \* bound on the OP_AUDIO_INIT works
  MaxPlays,   \* bound on the OP_SOUND_PLAY works
  MaxOverlaps, \* bound on the works begun since two first overlapped
  Ring,       \* frames the ring of the device has room for
  Chunk       \* chunk_frames of the playback

ASSUME AudioAssumption ==
  /\ Workers # {} /\ IsFiniteSet(Files)
  /\ \A f \in Files : IsWav(f)
  /\ Accepted \subseteq Formats
  /\ \A a \in Accepted : a.channels > 0
  /\ MaxHandles \in Nat /\ MaxOverlaps \in Nat
  /\ MaxInits \in Nat /\ MaxPlays \in Nat
  /\ Ring \in Nat \ {0} /\ Chunk \in Nat \ {0}

NULL == 0
NoFormat == [pcm_format |-> 0, channels |-> 0, sample_rate |-> 0]

VARIABLES
  mgr,      \* the shared struct audio_mgr
  handle,   \* what became of each PCM handle
  pc,       \* where each worker is
  task,     \* the work it executes
  file,     \* its struct wav_map
  mapped,   \* is it mapped?
  local,    \* the locals of its playback
  ring,     \* the stream of mgr->pcm: its state, and the frames to be played
  crashed,  \* ALSA was called on NULL or on a closed handle
  calls     \* works begun so far, of each kind

\* What the properties speak of; the code does not read these.
VARIABLES
  overread,  \* who has read past a file or its PCM data, and did its sizes wrap
  overlaps   \* works begun since one has begun while another was executed

vars == <<mgr, handle, pc, task, file, mapped, local, ring, crashed, calls,
          overread, overlaps>>

Handles == 1 .. MaxHandles
Open == {h \in Handles : handle[h] = "open"}

NoMgr == [pcm |-> NULL, device_name |-> FALSE, fmt |-> NoFormat,
          frame_size |-> 0]
NoWav == [fmt |-> NoFormat, data |-> 0, data_size |-> 0, end |-> 0,
          wraps |-> FALSE]

\* upset is history: the stream was not started, or an xrun has stopped it.
NoLocal == [frame_size |-> 0, total |-> 0, done |-> 0, to_do |-> 0, left |-> 0,
            sret |-> 0, started |-> FALSE, upset |-> FALSE]

\* A stream without frames, in one of the states of ALSA.
Stream(state) == [state |-> state, fill |-> 0]

\* snd_pcm_format_physical_width: 8 bits, 16 bits, or more.
Width(pcm_format) ==
  IF pcm_format < 2 THEN 8 ELSE IF pcm_format < 6 THEN 16 ELSE 32

\* fmt.block_align
BlockAlign(fmt) == (fmt.channels * Width(fmt.pcm_format)) \div 8

Overlapped == overlaps > 0

Goto(t, label) == pc' = [pc EXCEPT ![t] = label]

work == <<task, file, calls, overlaps>>

Init ==
  /\ mgr = NoMgr
  /\ handle = [h \in Handles |-> "unused"]
  /\ pc = [t \in Workers |-> "idle"]
  /\ task = [t \in Workers |-> "none"]
  /\ file = [t \in Workers |-> NoWav]
  /\ mapped = [t \in Workers |-> FALSE]
  /\ local = [t \in Workers |-> NoLocal]
  /\ ring = Stream("setup")
  /\ crashed = FALSE /\ overread = {} /\ overlaps = 0
  /\ calls = [init |-> 0, play |-> 0, release |-> 0]

-----------------------------------------------------------------------------
(***************************************************************************)
(* The works                                                               *)
(***************************************************************************)

\* process_opcode calls snd_sys_init, audio_play_sound or snd_sys_release.
Begin(t, kind, bound) ==
  /\ pc[t] = "idle" /\ ~crashed
  /\ calls[kind] < bound /\ overlaps < MaxOverlaps
  /\ calls' = [calls EXCEPT ![kind] = @ + 1]
  /\ task' = [task EXCEPT ![t] = kind]
  /\ overlaps' = IF overlaps > 0 \/ \E s \in Workers \ {t} : pc[s] # "idle"
                 THEN overlaps + 1 ELSE 0

\* Bytes are read that are not the file's.
Overread(reader, wraps, is) ==
  overread' = IF is THEN overread \cup {[by |-> reader, wraps |-> wraps]}
              ELSE overread

\* wav_map_open, for an init and for a play: a file that cannot be opened,
\* mapped or parsed leaves nothing mapped, and one on which the parser loops
\* keeps the worker for ever.
MapFile(t) ==
  /\ Begin(t, "init", MaxInits) \/ Begin(t, "play", MaxPlays)
  /\ \/ UNCHANGED <<file, mapped, pc, overread>>
     \/ \E f \in Files :
          /\ Overread("parser", Scan(f).wraps, Scan(f).outside)
          /\ \/ /\ Parses(f)
                /\ file' = [file EXCEPT ![t] = WavMap(f)]
                /\ mapped' = [mapped EXCEPT ![t] = TRUE]
                /\ Goto(t, IF task'[t] = "init" THEN "init" ELSE "validate")
             \/ /\ ~Parses(f) /\ Ended(f, Scan(f))
                /\ UNCHANGED <<file, mapped, pc>>
             \/ /\ Loops(f)
                /\ mapped' = [mapped EXCEPT ![t] = TRUE]
                /\ Goto(t, "parse")
                /\ UNCHANGED file
  /\ UNCHANGED <<mgr, handle, local, ring, crashed>>

BeginRelease(t) ==
  /\ Begin(t, "release", 1)
  /\ Goto(t, "release")
  /\ UNCHANGED <<mgr, handle, file, mapped, local, ring, overread, crashed>>

\* What a playback leaves of its locals.
Forget(t) == local' = [local EXCEPT ![t] = NoLocal]

\* Mutant: a playback that fails leaves its file mapped.
LeaveMapped(t, ok) ==
  /\ mapped' = [mapped EXCEPT ![t] = ~ok]
  /\ Forget(t)
  /\ Goto(t, IF task[t] = "init" /\ ~ok THEN "release" ELSE "idle")

\* wav_map_close after a playback; a failed init then releases the manager.
Leave(t, ok) ==
  /\ mapped' = [mapped EXCEPT ![t] = FALSE]
  /\ Forget(t)
  /\ Goto(t, IF task[t] = "init" /\ ~ok THEN "release" ELSE "idle")

\* To go on after a step that leaves the locals alone.
Proceed(t, label) == Goto(t, label) /\ UNCHANGED <<mapped, local>>

\* An ALSA call on mgr->pcm, with what happens when the handle is good.
Call(good) ==
  IF mgr.pcm \in Open THEN good /\ UNCHANGED crashed
  ELSE /\ crashed' = TRUE
       /\ UNCHANGED <<mgr, handle, pc, mapped, local, ring, overread>>

-----------------------------------------------------------------------------
(***************************************************************************)
(* audio_mgr_init, audio_mgr_reinit and audio_mgr_release                  *)
(***************************************************************************)

\* memset forgets the handle that an earlier init has opened.
MgrInit(t) ==
  /\ pc[t] = "init"
  /\ mgr' = [pcm |-> NULL, device_name |-> TRUE, fmt |-> file[t].fmt,
             frame_size |-> 0]
  /\ ring' = Stream("setup")
  /\ Proceed(t, "open")
  /\ UNCHANGED <<work, handle, overread, crashed>>

\* internal_open_and_config has failed: an init forgets the device name and
\* returns, a playback returns the error of its reinit.
OpenFailed(t, m) ==
  IF pc[t] \in {"open", "opening", "close"}
  THEN /\ mgr' = [m EXCEPT !.device_name = FALSE]
       /\ mapped' = [mapped EXCEPT ![t] = FALSE]
       /\ Forget(t) /\ Goto(t, "idle")
  ELSE mgr' = m /\ Leave(t, FALSE)

\* The test of the device name.
PcmCheck(t) ==
  /\ pc[t] \in {"open", "reopen"}
  /\ IF mgr.device_name
     THEN /\ Proceed(t, IF pc[t] = "open" THEN "opening" ELSE "reopening")
          /\ UNCHANGED mgr
     ELSE OpenFailed(t, mgr)
  /\ UNCHANGED <<work, handle, ring, overread, crashed>>

\* snd_pcm_open stores the new handle in mgr->pcm.
PcmOpen(t) ==
  /\ pc[t] \in {"opening", "reopening"}
  /\ \/ \E h \in Handles :
          /\ handle[h] = "unused"
          /\ \A g \in 1 .. h - 1 : handle[g] # "unused"
          /\ handle' = [handle EXCEPT ![h] = "open"]
          /\ mgr' = [mgr EXCEPT !.pcm = h]
          /\ Proceed(t, IF pc[t] = "opening" THEN "config" ELSE "reconfig")
     \/ OpenFailed(t, mgr) /\ UNCHANGED handle
  /\ UNCHANGED <<work, ring, overread, crashed>>

\* Configured: set_hw_params and snd_pcm_prepare have succeeded.
Configured(t) ==
  /\ mgr.fmt \in Accepted
  /\ mgr' = [mgr EXCEPT !.frame_size = BlockAlign(mgr.fmt)]
  /\ ring' = Stream("prepared")
  /\ Proceed(t, IF pc[t] = "config" THEN "validate" ELSE "size")
  /\ UNCHANGED <<handle, overread>>

\* Mutant: a handle that cannot be configured is not closed.
PcmConfigNoClose(t) ==
  /\ pc[t] \in {"config", "reconfig"}
  /\ Call(\/ Configured(t)
          \/ /\ Proceed(t, IF pc[t] = "config" THEN "close" ELSE "reclose")
             /\ UNCHANGED <<handle, mgr, ring, overread>>)
  /\ UNCHANGED work

\* set_hw_params and snd_pcm_prepare; a handle that cannot be configured is
\* closed.
PcmConfig(t) ==
  /\ pc[t] \in {"config", "reconfig"}
  /\ Call(\/ Configured(t)
          \/ /\ handle' = [handle EXCEPT ![mgr.pcm] = "closed"]
             /\ Proceed(t, IF pc[t] = "config" THEN "close" ELSE "reclose")
             /\ UNCHANGED <<mgr, ring, overread>>)
  /\ UNCHANGED work

\* Mutant: the handle that was closed is kept.
PcmForgetNot(t) ==
  /\ pc[t] \in {"close", "reclose"}
  /\ OpenFailed(t, mgr)
  /\ UNCHANGED <<work, handle, ring, overread, crashed>>

\* mgr->pcm = NULL after the close, and the error is returned.
PcmForget(t) ==
  /\ pc[t] \in {"close", "reclose"}
  /\ OpenFailed(t, [mgr EXCEPT !.pcm = NULL])
  /\ UNCHANGED <<work, handle, ring, overread, crashed>>

\* snd_pcm_drain of the old handle, before a reinit or a release.
PcmDrain(t) ==
  /\ pc[t] \in {"reinit", "release"}
  /\ LET next == IF pc[t] = "reinit" THEN "reinit_close" ELSE "release_close" IN
     IF mgr.pcm = NULL
     THEN Proceed(t, next) /\ UNCHANGED <<mgr, handle, ring, overread, crashed>>
     ELSE Call(/\ ring' = Stream("setup")
               /\ Proceed(t, next) /\ UNCHANGED <<mgr, handle, overread>>)
  /\ UNCHANGED work

\* validate_and_reinit passes (channels, sample_rate, pcm_format) for the
\* parameters (pcm_format, channels, sample_rate).
ReinitFormat(fmt) ==
  [pcm_format |-> fmt.channels, channels |-> fmt.sample_rate,
   sample_rate |-> fmt.pcm_format]

\* snd_pcm_close; another worker may have closed the handle since the drain.
PcmClose(t) ==
  /\ pc[t] \in {"reinit_close", "release_close"}
  /\ LET next == IF pc[t] = "reinit_close" THEN "reinit_set" ELSE "release_set" IN
     IF mgr.pcm = NULL
     THEN Proceed(t, next) /\ UNCHANGED <<mgr, handle, ring, overread, crashed>>
     ELSE Call(/\ handle' = [handle EXCEPT ![mgr.pcm] = "closed"]
               /\ ring' = Stream("setup")
               /\ Proceed(t, next) /\ UNCHANGED <<mgr, overread>>)
  /\ UNCHANGED work

\* pcm = NULL and the new format.
ReinitSet(t) ==
  /\ pc[t] = "reinit_set"
  /\ mgr' = [mgr EXCEPT !.pcm = NULL, !.fmt = ReinitFormat(file[t].fmt)]
  /\ Proceed(t, "reopen")
  /\ UNCHANGED <<work, handle, ring, overread, crashed>>

\* pcm = NULL, free of the device name, memset.
ReleaseSet(t) ==
  /\ pc[t] = "release_set"
  /\ mgr' = NoMgr
  /\ Proceed(t, "idle")
  /\ UNCHANGED <<work, handle, ring, overread, crashed>>

-----------------------------------------------------------------------------
(***************************************************************************)
(* The stream                                                              *)
(***************************************************************************)

\* The device plays a frame; after the last one the stream stops.
Consume ==
  /\ ring.state = "running"
  /\ ring' = IF ring.fill > 1 THEN [ring EXCEPT !.fill = @ - 1]
             ELSE Stream("xrun")
  /\ UNCHANGED <<work, mgr, handle, pc, mapped, local, overread, crashed>>

\* snd_pcm_prepare after an xrun: the frames are gone and the stream waits to
\* be started.  A playback that cannot recover in playback_loop tries again.
Recover(t) ==
  /\ ring.state = "xrun"
  /\ ring' = Stream("prepared")
  /\ local' = [local EXCEPT ![t].upset = TRUE]
  /\ UNCHANGED <<mgr, handle, pc, mapped, overread>>

\* snd_pcm_avail_update
Avail == IF ring.state \in {"prepared", "running"} THEN Ring - ring.fill ELSE 0

-----------------------------------------------------------------------------
(***************************************************************************)
(* audio_play_wav_map                                                      *)
(***************************************************************************)

\* The formats differ, and both options of the manager are ignored; without
\* a device name the reinit is refused.
Validate(t) ==
  /\ pc[t] = "validate"
  /\ \/ mgr.fmt = file[t].fmt /\ Proceed(t, "size")
     \/ mgr.fmt # file[t].fmt /\ mgr.device_name /\ Proceed(t, "reinit")
     \/ mgr.fmt # file[t].fmt /\ ~mgr.device_name /\ Leave(t, FALSE)
  /\ UNCHANGED <<work, mgr, handle, ring, overread, crashed>>

\* Mutant: the number of frames is rounded up.
SizeRoundedUp(t) ==
  /\ pc[t] = "size"
  /\ mgr.frame_size > 0
  /\ local' = [local EXCEPT
       ![t].frame_size = mgr.frame_size,
       ![t].total = (file[t].data_size + mgr.frame_size - 1) \div mgr.frame_size]
  /\ Goto(t, "prepare") /\ UNCHANGED mapped
  /\ UNCHANGED <<work, mgr, handle, ring, overread, crashed>>

\* The number of frames, and audio_mgr_prepare's test of the handle.
Size(t) ==
  /\ pc[t] = "size"
  /\ IF mgr.frame_size = 0
     THEN Leave(t, FALSE)
     ELSE /\ local' = [local EXCEPT
                 ![t].frame_size = mgr.frame_size,
                 ![t].total = file[t].data_size \div mgr.frame_size]
          /\ Goto(t, "prepare") /\ UNCHANGED mapped
  /\ UNCHANGED <<work, mgr, handle, ring, overread, crashed>>

\* audio_mgr_prepare, snd_pcm_get_params and audio_mgr_apply_sw_params.
Prepare(t) ==
  /\ pc[t] = "prepare"
  /\ IF mgr.pcm = NULL
     THEN Leave(t, FALSE) /\ UNCHANGED <<mgr, handle, ring, overread, crashed>>
     ELSE Call(/\ \/ ring' = Stream("prepared") /\ Proceed(t, "wait")
                  \/ ring' = Stream("prepared") /\ Leave(t, FALSE)
                  \/ UNCHANGED ring /\ Leave(t, FALSE)
               /\ UNCHANGED <<mgr, handle, overread>>)
  /\ UNCHANGED work

\* The next frames are taken: n of them.
TakeFrames(t, n) ==
  /\ local' = [local EXCEPT
       ![t].to_do = n, ![t].left = n,
       ![t].sret = file[t].data + local[t].done * local[t].frame_size]
  /\ Goto(t, "write")
  /\ UNCHANGED <<mgr, handle, mapped, ring, overread>>

\* A step of the playback fails.
PlayFails(t) == Leave(t, FALSE) /\ UNCHANGED <<mgr, handle, ring, overread>>

\* playback_loop: recover from an xrun, or wait for room in the ring and take
\* the next frames.
Wait(t) ==
  /\ pc[t] = "wait"
  /\ local[t].done < local[t].total
  /\ Call(\/ Recover(t)
          \/ /\ Avail > 0
             /\ TakeFrames(t, Min({local[t].total - local[t].done, Avail, Chunk}))
          \/ PlayFails(t))
  /\ UNCHANGED work

\* The end of the PCM data, or of the file if that comes first.
PcmEnd(wav) == Min({wav.data + wav.data_size, wav.end})

\* n frames are copied into the mapped part of the ring.
CopyFrames(t, n) ==
  LET end == local[t].sret + n * BlockAlign(mgr.fmt) IN
  /\ Overread("copy", file[t].wraps, end > PcmEnd(file[t]))
  /\ local' = [local EXCEPT
       ![t].sret = @ + n * mgr.frame_size, ![t].left = @ - n]
  /\ ring' = [ring EXCEPT !.fill = @ + n]
  /\ Goto(t, IF n = local[t].left THEN "start" ELSE "write")
  /\ UNCHANGED <<mgr, handle, mapped>>

\* audio_mgr_write_mmap: recover from an xrun, or copy the frames the mapped
\* part of the ring has room for.
Write(t) ==
  /\ pc[t] = "write"
  /\ IF mgr.pcm = NULL
     THEN PlayFails(t) /\ UNCHANGED crashed
     ELSE Call(\/ Recover(t)
               \/ \E n \in 1 .. Min({local[t].left, Avail}) : CopyFrames(t, n)
               \/ PlayFails(t))
  /\ UNCHANGED work

\* The frames are written.
Written(t, upset) ==
  /\ local' = [local EXCEPT ![t].done = @ + local[t].to_do, ![t].to_do = 0,
                            ![t].started = TRUE, ![t].upset = @ \/ upset]
  /\ Goto(t, "wait")
  /\ UNCHANGED <<mgr, handle, mapped, overread>>

\* Mutant: playback is not started.
StartNever(t) ==
  /\ pc[t] = "start"
  /\ Written(t, FALSE) /\ UNCHANGED <<ring, crashed>>
  /\ UNCHANGED work

\* Playback is started after the first frames, once; a failure is logged.
Start(t) ==
  /\ pc[t] = "start"
  /\ IF local[t].started
     THEN Written(t, FALSE) /\ UNCHANGED <<ring, crashed>>
     ELSE Call(\/ /\ ring.state = "prepared"
                  /\ ring' = [ring EXCEPT !.state = "running"]
                  /\ Written(t, FALSE)
               \/ Written(t, TRUE) /\ UNCHANGED ring)
  /\ UNCHANGED work

\* snd_pcm_drain plays what is left, and the file is closed.
PlayEnd(t) ==
  /\ pc[t] = "wait"
  /\ local[t].done = local[t].total
  /\ Call(/\ ring' = Stream("setup")
          /\ Leave(t, TRUE) /\ UNCHANGED <<mgr, handle, overread>>)
  /\ UNCHANGED work

-----------------------------------------------------------------------------

Manager(t) ==
  \/ MgrInit(t) \/ PcmCheck(t) \/ PcmOpen(t) \/ PcmConfig(t) \/ PcmForget(t)
  \/ PcmDrain(t) \/ PcmClose(t) \/ ReinitSet(t) \/ ReleaseSet(t)

Playback(t) ==
  \/ Validate(t) \/ Size(t) \/ Prepare(t) \/ Wait(t) \/ Write(t) \/ Start(t)
  \/ PlayEnd(t)

Next ==
  /\ ~crashed
  /\ \/ \E t \in Workers :
          MapFile(t) \/ BeginRelease(t) \/ Manager(t) \/ Playback(t)
     \/ Consume

Spec == Init /\ [][Next]_vars

\* What a worker does of its own: a wait for room in the ring need not fail.
Progress(t) ==
  \/ Manager(t) \/ Validate(t) \/ Size(t) \/ Prepare(t) \/ Write(t) \/ Start(t)
  \/ PlayEnd(t)
  \/ Wait(t) /\ mapped'[t]

\* Workers run and a started stream plays; nothing forces a work to come.
FairSpec ==
  /\ Spec
  /\ \A t \in Workers : WF_vars(~crashed /\ Progress(t))
  /\ WF_vars(~crashed /\ Consume)

-----------------------------------------------------------------------------

(* The types of the variables (struct audio_mgr and the locals).           *)
TypeOK ==
  /\ mgr.pcm \in Handles \cup {NULL}
  /\ mgr.device_name \in BOOLEAN
  /\ mgr.fmt \in Formats
  /\ mgr.frame_size \in Nat
  /\ handle \in [Handles -> {"unused", "open", "closed"}]
  /\ pc \in [Workers ->
       {"idle", "parse", "init", "open", "opening", "config", "close", "validate",
        "reinit", "reinit_close", "reinit_set", "reopen", "reopening",
        "reconfig", "reclose", "size", "prepare", "wait", "write", "start",
        "release", "release_close", "release_set"}]
  /\ task \in [Workers -> {"none", "init", "play", "release"}]
  /\ \A t \in Workers : file[t].fmt \in Formats
  /\ mapped \in [Workers -> BOOLEAN]
  /\ \A t \in Workers : local[t].done + local[t].to_do <= local[t].total
  /\ ring.state \in {"setup", "prepared", "running", "xrun"}
  /\ ring.fill \in 0 .. Ring
  /\ overread \subseteq [by : {"parser", "copy"}, wraps : BOOLEAN]
  /\ crashed \in BOOLEAN /\ overlaps \in Nat

(***************************************************************************)
(* As long as no two works overlap, ALSA is never called on NULL or on a   *)
(* closed handle, whatever inits, mismatching files, failures and releases *)
(* came before, in one worker or another.                                  *)
(***************************************************************************)
HandleValid == crashed => Overlapped

Unmapped == {"idle", "release", "release_close", "release_set"}

(***************************************************************************)
(* Every failure path gives back what it has acquired.  A work that has    *)
(* ended, well or not, leaves no file mapped and no descriptor open, and a *)
(* playback has its file mapped throughout, also when works overlap; and   *)
(* while none do, there is beside the handle of mgr->pcm at most one open  *)
(* handle for each further init, which the memset of audio_mgr_init        *)
(* forgets.                                                                *)
(***************************************************************************)
NothingLeaks ==
  /\ \A t \in Workers :
       (pc[t] \in Unmapped) <=> ~mapped[t]
  /\ Overlapped \/ Cardinality(Open \ {mgr.pcm}) <= Max({calls.init, 1}) - 1

(***************************************************************************)
(* Unless the sizes of its chunks wrap around the address space, the       *)
(* parser reads nothing outside of a file, and the copies into the ring    *)
(* nothing past its PCM data while no works overlap, whatever sizes the    *)
(* chunks claim.                                                           *)
(***************************************************************************)
ReadsInside ==
  \A o \in overread : o.wraps \/ (o.by = "copy" /\ Overlapped)

(***************************************************************************)
(* A work ends, however it fails, unless its stream was not started or an  *)
(* xrun has stopped it: the stream is started once, so that a playback     *)
(* with more frames to come than the ring takes then waits for ever.  The  *)
(* parser loops on a file whose sizes wrap, and works that overlap take    *)
(* the stream from each other.                                             *)
(***************************************************************************)
PlaybackEnds ==
  \A t \in Workers :
    (pc[t] # "idle") ~>
      (pc[t] \in {"idle", "parse"} \/ local[t].upset \/ crashed \/ Overlapped)
=============================================================================
