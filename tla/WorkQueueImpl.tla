--------------------------- MODULE WorkQueueImpl -----------------------------
(***************************************************************************)
(* The work queue implements the work pool.  A work is accepted when its   *)
(* push counts it, not when it is linked, and finished when the counter is *)
(* decremented, not when its handler returns or it is freed: these are the *)
(* moments the shutdown flow's poll can see.                               *)
(***************************************************************************)
EXTENDS WorkQueue

\* The work linked by a push that has not counted it yet, always the last.
Counting(x) == \E t \in Uncounted : arg[t] = x

HeldBy(x) == {t \in Workers : item[t] = x}

poolOrder == SubSeq(list, 1, Len(list) - Cardinality(Uncounted))

poolStatus ==
  [x \in Works |->
     IF fate[x] \in {"new", "created"} \/ Counting(x) THEN "new"
     ELSE IF HeldBy(x) # {} THEN "running"
     ELSE IF fate[x] \in {"queued", "dropped"} THEN fate[x]
     ELSE "finished"]

poolPhase ==
  CASE pc[Main] \in {"stop", "wakeup", "join", "destroy"} -> "idle"
    [] pc[Main] \in {"release", "down"}                   -> "gone"
    [] OTHER                                              -> "open"

Pool == INSTANCE WorkPool
  WITH Capacity <- Cardinality(Workers),
       order    <- poolOrder,
       status   <- poolStatus,
       phase    <- poolPhase

(***************************************************************************)
(* Every behaviour of push_work, workqueue_handler and the shutdown flow   *)
(* is a behaviour of the pool: FIFO start, bounded parallelism, one finish *)
(* for each work, nothing dropped before the counter was seen 0.           *)
(***************************************************************************)
ImplementsPool == Pool!Spec
=============================================================================
