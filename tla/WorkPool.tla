------------------------------ MODULE WorkPool -------------------------------
(***************************************************************************)
(* What the work queue promises to the threads that use it, without its    *)
(* list, lock, condition variable or counter: works start in the order in  *)
(* which they were accepted, at most Capacity of them run at a time, each  *)
(* is finished once, and none is dropped before the pool has been found    *)
(* idle and everything that ran has finished.                              *)
(***************************************************************************)
EXTENDS Naturals, Sequences, FiniteSets

CONSTANTS
  Works,     \* the works that may be submitted
  Capacity   \* how many works run at a time

VARIABLES
  order,     \* the accepted works that have not started, oldest first
  status,    \* what became of each work
  phase      \* "open", "idle" (found idle once), or "gone"

poolVars == <<order, status, phase>>

Status == {"new", "queued", "running", "finished", "dropped"}
With(s) == {x \in Works : status[x] = s}

Init ==
  /\ order = <<>>
  /\ status = [x \in Works |-> "new"]
  /\ phase = "open"

\* A work is accepted in every phase: the clients do not know of a shutdown.
Submit(x) ==
  /\ status[x] = "new"
  /\ status' = [status EXCEPT ![x] = "queued"]
  /\ order' = Append(order, x)
  /\ UNCHANGED phase

Start ==
  /\ phase # "gone"
  /\ order # <<>>
  /\ Cardinality(With("running")) < Capacity
  /\ status' = [status EXCEPT ![Head(order)] = "running"]
  /\ order' = Tail(order)
  /\ UNCHANGED phase

Finish(x) ==
  /\ status[x] = "running"
  /\ status' = [status EXCEPT ![x] = "finished"]
  /\ UNCHANGED <<order, phase>>

\* The pool is seen idle: whatever was accepted before has finished.
FindIdle ==
  /\ phase = "open"
  /\ With("queued") \cup With("running") = {}
  /\ phase' = "idle"
  /\ UNCHANGED <<order, status>>

\* The pool goes away with what was accepted after it was seen idle.
Discard ==
  /\ phase = "idle"
  /\ With("running") = {}
  /\ phase' = "gone"
  /\ status' = [x \in Works |-> IF status[x] = "queued" THEN "dropped"
                                ELSE status[x]]
  /\ order' = <<>>

Next ==
  \/ \E x \in Works : Submit(x) \/ Finish(x)
  \/ Start
  \/ FindIdle
  \/ Discard

Spec == Init /\ [][Next]_poolVars
=============================================================================
