--------------------------- MODULE WorkQueueFifo ---------------------------
(***************************************************************************)
(* What a work queue promises its users, without the worker task, the      *)
(* FreeRTOS queue or the states the implementation keeps: while it lives,  *)
(* every entry it accepted is run at most once, in the order of            *)
(* acceptance, only while the queue is serving; it never holds more than   *)
(* Capacity entries that have not begun; and it is torn down only when it  *)
(* is not serving, which drops the entries that have not begun.            *)
(***************************************************************************)
EXTENDS Naturals, Sequences

CONSTANTS Entries,    \* the work entries (a work_fn with its priv_data)
          Capacity    \* how many accepted entries may wait

VARIABLES live,       \* the queue exists
          serving,    \* its worker may run entries
          accepted,   \* the entries accepted by this queue, oldest first
          ran         \* the entries whose work function was called, in order

vars == <<live, serving, accepted, ran>>

Init == /\ live = FALSE
        /\ serving = FALSE
        /\ accepted = <<>>
        /\ ran = <<>>

Open == /\ ~live
        /\ live' = TRUE
        /\ UNCHANGED <<serving, accepted, ran>>

Accept(e) == /\ live
             /\ Len(accepted) < Len(ran) + Capacity
             /\ accepted' = Append(accepted, e)
             /\ UNCHANGED <<live, serving, ran>>

Serve == /\ live
         /\ ~serving
         /\ serving' = TRUE
         /\ UNCHANGED <<live, accepted, ran>>

RunNext == /\ serving
           /\ Len(ran) < Len(accepted)
           /\ ran' = Append(ran, accepted[Len(ran) + 1])
           /\ UNCHANGED <<live, serving, accepted>>

Park == /\ serving
        /\ serving' = FALSE
        /\ UNCHANGED <<live, accepted, ran>>

Close == /\ live
         /\ ~serving
         /\ live' = FALSE
         /\ accepted' = <<>>
         /\ ran' = <<>>
         /\ UNCHANGED serving

Next == \/ Open
        \/ \E e \in Entries : Accept(e)
        \/ Serve
        \/ RunNext
        \/ Park
        \/ Close

Spec == Init /\ [][Next]_vars
=============================================================================
