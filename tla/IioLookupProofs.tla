--------------------------- MODULE IioLookupProofs ---------------------------
(***************************************************************************)
(* What the search for an IIO device gives its callers, for every finite   *)
(* directory and every order readdir returns it in.                        *)
(***************************************************************************)
EXTENDS IioLookup, TLAPS

Type ==
  /\ dir \in [Entries -> [iio : BOOLEAN, file : NameFiles]]
  /\ todo \subseteq Entries
  /\ ret \in Rets
  /\ path \in Entries \cup {NoPath}
  /\ verdict \in {"none", "found", "not found", "error"}

Visited == Entries \ todo

\* What the loop knows after the entries it has visited.
LoopInv ==
  /\ verdict = "none" => path = NoPath
  /\ path # NoPath => Matches(path) /\ verdict = "found"
  /\ path = NoPath => \A e \in Visited : ~Matches(e)
  /\ verdict # "none" /\ path = NoPath => todo = Entries \/ todo = {}

\* ret is 0 after a match, or after the name of another device was read.
RetInv ==
  /\ verdict = "found" => ret = "ok"
  /\ ret = "ok" /\ path = NoPath =>
       \E e \in Visited : dir[e].iio /\ dir[e].file.ret = "ok"

IInv == Type /\ LoopInv /\ RetInv

-----------------------------------------------------------------------------
\* The search starts with nothing visited.
LEMMA InitIInv == Init => IInv
BY DEF Init, IInv, Type, LoopInv, RetInv, Visited, Rets

\* A failed opendir is told with the error it has returned.
LEMMA OpendirKeeps ==
  ASSUME IInv, OpendirFails
  PROVE  IInv'
BY DEF IInv, Type, LoopInv, RetInv, Visited, Matches, OpendirFails, Finish,
       Verdict, Rets

\* One turn of the loop.
LEMMA ReadKeeps ==
  ASSUME IInv, ReadEntry
  PROVE  IInv'
<1> USE DEF IInv
<1>1. PICK e \in todo :
        /\ todo' = todo \ {e}
        /\ Skip(e) \/ Unreadable(e) \/ OtherDevice(e) \/ Match(e)
  BY DEF ReadEntry
<1>2. /\ verdict = "none" /\ dir' = dir /\ path = NoPath
      /\ e \in Entries /\ Visited' = Visited \cup {e}
  BY <1>1 DEF ReadEntry, Type, LoopInv, Visited
<1>3. CASE Skip(e)
  BY <1>1, <1>2, <1>3 DEF Skip, Type, LoopInv, RetInv, Matches
<1>4. CASE Unreadable(e)
  <2>1. dir[e].file \in NameFiles /\ ~Matches(e)
    BY <1>2, <1>4 DEF Unreadable, Type, Matches
  <2>2. ret' \in Rets \ {"ok"}
    BY <1>4, <2>1 DEF Unreadable, NameFiles
  <2> QED
    BY <1>1, <1>2, <1>4, <2>1, <2>2 DEF Unreadable, Type, LoopInv, RetInv, Matches
<1>5. CASE OtherDevice(e)
  BY <1>1, <1>2, <1>5 DEF OtherDevice, Type, LoopInv, RetInv, Matches, Rets
<1>6. CASE Match(e)
  <2>1. dir[e].file = [ret |-> "ok", name |-> Target]
    <3>1. dir[e].file \in NameFiles /\ dir[e].file.ret = "ok"
      BY <1>2, <1>6 DEF Match, Type
    <3>2. dir[e].file \in [ret : {"ok"}, name : Names]
      BY <3>1 DEF NameFiles
    <3> QED
      BY <1>6, <3>2 DEF Match
  <2>2. Matches(e)' /\ path' = e /\ e # NoPath
    BY <1>2, <1>6, <2>1, LookupAssumption DEF Match, Matches
  <2>3. verdict' = "found" /\ ret' = "ok"
    BY <1>6 DEF Match, Finish, Verdict
  <2> QED
    BY <1>1, <1>2, <2>2, <2>3 DEF Type, LoopInv, RetInv, Rets, Matches
<1> QED
  BY <1>1, <1>3, <1>4, <1>5, <1>6

\* The end of the directory: ret is told as it was left.
LEMMA EndKeeps ==
  ASSUME IInv, EndOfDirectory
  PROVE  IInv'
BY DEF IInv, Type, LoopInv, RetInv, Visited, Matches, EndOfDirectory, Finish,
       Verdict, Rets

\* The invariant holds in every reachable state.
LEMMA Invariance == Spec => []IInv
<1>1. IInv /\ UNCHANGED vars => IInv'
  BY DEF IInv, Type, LoopInv, RetInv, Visited, Matches, vars
<1>2. IInv /\ [Next]_vars => IInv'
  BY <1>1, OpendirKeeps, ReadKeeps, EndKeeps DEF Next
<1> QED
  BY <1>2, InitIInv, PTL DEF Spec

(* A device that is in the directory is found, and what is found is that   *)
(* device, whatever unreadable or foreign entries come before or after it  *)
(* (find_device_path_by_name).                                             *)
THEOREM PathIsRight == Spec => []PathIffPresent
<1>1. IInv => PathIffPresent
  BY DEF IInv, LoopInv, PathIffPresent, Visited
<1> QED
  BY <1>1, Invariance, PTL

(* A search is only reported as successful without a path when it has read *)
(* the name of another device (find_device_path_by_name, its variable ret, *)
(* and iio_dev_get_path_by_name).                                          *)
THEOREM SuccessWasRead == Spec => []EmptyIsReported
<1>1. IInv => EmptyIsReported
  BY DEF IInv, RetInv, EmptyIsReported, Visited
<1> QED
  BY <1>1, Invariance, PTL
=============================================================================
