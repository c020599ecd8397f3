---------------------------- MODULE MCWorkQueue ----------------------------
(***************************************************************************)
(* WorkQueue for TLC.  The module adds one history variable, due: how many *)
(* entries the queue had accepted when the stop now in force was called    *)
(* (by stop, or by deinit).  It follows the steps of WorkQueue and never   *)
(* restricts them.                                                         *)
(***************************************************************************)
EXTENDS WorkQueue

VARIABLE due

Called(c, names) == op[c] = "none" /\ op'[c] \in names

MCInit == Init /\ due = 0

MCNext == /\ Next
          /\ due' = IF state = "RUNNING" /\ \E c \in Callers : Called(c, {"stop", "deinit"})
                      THEN Len(accepted)
                    ELSE IF ~live' \/ \E c \in Callers : Called(c, {"start"})
                      THEN 0
                    ELSE due

MCSpec == MCInit /\ [][MCNext]_<<vars, due>> /\ Fairness

(***************************************************************************)
(* README.md:91, "the worker parks after it runs all entries that are in   *)
(* the queue": when the worker gives up the queue, it has run every entry  *)
(* that add_task accepted before stop was called.                          *)
(***************************************************************************)
StopDrains == [][WorkerExit => Len(ran) >= due]_<<vars, due>>
=============================================================================
