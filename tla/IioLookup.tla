------------------------------ MODULE IioLookup ------------------------------
(***************************************************************************)
(* The search of src/src/comm/fs_comm.c for the sysfs directory of an IIO  *)
(* device, which the IMU and the ambient light sensor do once each.  The   *)
(* directory is external: readdir gives its entries in any order, and the  *)
(* name file of an entry may be unreadable.  Path building is left out: a  *)
(* path is the entry it names.                                             *)
(***************************************************************************)
EXTENDS FiniteSets

CONSTANTS
  Entries,    \* the entries of the directory
  Names,      \* the device names that name files hold
  Target,     \* the name searched for
  NoPath      \* the caller's buffer, not written

ASSUME LookupAssumption ==
  /\ IsFiniteSet(Entries)
  /\ Target \in Names
  /\ NoPath \notin Entries

VARIABLES
  dir,     \* each entry: is it called iio:device*, and its name file
  todo,    \* the entries readdir has not returned
  ret,     \* the variable ret of find_device_path_by_name
  path,    \* result_path
  verdict  \* what iio_dev_get_path_by_name has told its caller

vars == <<dir, todo, ret, path, verdict>>

Rets == {"ok", "ENOENT", "EACCES", "EIO"}

\* What fs_read_file can return of a name file: its text, or an errno.
NameFiles == [ret : {"ok"}, name : Names] \cup [ret : Rets \ {"ok"}]

\* Mutant: ret is not initialised to an error.
InitRetZero ==
  /\ dir \in [Entries -> [iio : BOOLEAN, file : NameFiles]]
  /\ todo = Entries
  /\ ret = "ok"
  /\ path = NoPath
  /\ verdict = "none"

Init ==
  /\ dir \in [Entries -> [iio : BOOLEAN, file : NameFiles]]
  /\ todo = Entries
  /\ ret = "ENOENT"
  /\ path = NoPath
  /\ verdict = "none"

\* iio_dev_get_path_by_name turns the return value into its own.
Verdict(r) ==
  IF r = "ok" THEN "found" ELSE IF r = "ENOENT" THEN "not found" ELSE "error"

Finish(r) == ret' = r /\ verdict' = Verdict(r)

\* opendir fails.
OpendirFails ==
  /\ verdict = "none" /\ todo = Entries
  /\ \E r \in Rets \ {"ok"} : Finish(r)
  /\ UNCHANGED <<dir, todo, path>>

\* The entry is no IIO device: continue.
Skip(e) ==
  /\ ~dir[e].iio
  /\ UNCHANGED <<ret, path, verdict>>

\* Mutant: an unreadable name file ends the search.
UnreadableEnds(e) ==
  /\ dir[e].iio /\ dir[e].file.ret # "ok"
  /\ Finish(dir[e].file.ret)
  /\ UNCHANGED path

\* fs_read_file fails: continue, with its error in ret.
Unreadable(e) ==
  /\ dir[e].iio /\ dir[e].file.ret # "ok"
  /\ ret' = dir[e].file.ret
  /\ UNCHANGED <<path, verdict>>

\* fs_read_file succeeds and the name differs: continue, with 0 in ret.
OtherDevice(e) ==
  /\ dir[e].iio /\ dir[e].file.ret = "ok" /\ dir[e].file.name # Target
  /\ ret' = "ok"
  /\ UNCHANGED <<path, verdict>>

\* Mutant: the loop goes on after a match.
MatchNoBreak(e) ==
  /\ dir[e].iio /\ dir[e].file.ret = "ok" /\ dir[e].file.name = Target
  /\ path' = e
  /\ ret' = "ok"
  /\ UNCHANGED verdict

\* The name is the one searched for: write the path and leave the loop.
Match(e) ==
  /\ dir[e].iio /\ dir[e].file.ret = "ok" /\ dir[e].file.name = Target
  /\ path' = e
  /\ Finish("ok")

\* One iteration of the loop.
ReadEntry ==
  /\ verdict = "none"
  /\ \E e \in todo :
       /\ todo' = todo \ {e}
       /\ Skip(e) \/ Unreadable(e) \/ OtherDevice(e) \/ Match(e)
  /\ UNCHANGED dir

\* readdir has no more entries.
EndOfDirectory ==
  /\ verdict = "none" /\ todo = {}
  /\ Finish(ret)
  /\ UNCHANGED <<dir, todo, path>>

Next == OpendirFails \/ ReadEntry \/ EndOfDirectory

Spec == Init /\ [][Next]_vars

-----------------------------------------------------------------------------

Matches(e) == dir[e].iio /\ dir[e].file = [ret |-> "ok", name |-> Target]

(***************************************************************************)
(* find_device_path_by_name writes the directory of an IIO device of the   *)
(* name asked for, and reports it as found, if there is one: unreadable    *)
(* and foreign entries, before or after it in the directory, do not end    *)
(* the search, only a failed opendir does.                                 *)
(***************************************************************************)
PathIffPresent ==
  /\ path # NoPath => Matches(path) /\ verdict = "found"
  /\ verdict # "none" /\ todo # Entries /\ path = NoPath =>
       \A e \in Entries : ~Matches(e)

(***************************************************************************)
(* The variable ret is reused for every entry and returned at the end.  A  *)
(* search that finds nothing can so return 0, but only when it could read  *)
(* the name of some other device; of a directory without one it reports an *)
(* error, as the ret it was initialised with or an unreadable file leaves. *)
(***************************************************************************)
EmptyIsReported ==
  verdict = "found" /\ path = NoPath =>
    \E e \in Entries \ todo : dir[e].iio /\ dir[e].file.ret = "ok"
=============================================================================
