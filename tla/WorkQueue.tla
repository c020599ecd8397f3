----------------------------- MODULE WorkQueue -----------------------------
(***************************************************************************)
(* components/rmaker_work_queue/src/work_queue.c: one work queue instance, *)
(* its worker task and the tasks that call its API.                        *)
(*                                                                         *)
(* The code takes no lock.  The worker, the callers of start, stop and     *)
(* deinit, and the producers that call add_task interleave between any two *)
(* accesses of the state field, of the FreeRTOS queue and of the task.     *)
(* Every action below is one such access.  A work function may itself call *)
(* the API (WorkCalls), as the caller Worker.                              *)
(*                                                                         *)
(* A call that returns without changing anything (add to a full queue,     *)
(* start of a running queue, init of an initialised one, deinit of NULL,   *)
(* the refusals of is_own_worker, a failed allocation or task creation)    *)
(* is a stuttering step: the guards below are what is left.                *)
(***************************************************************************)
EXTENDS Naturals, Sequences, SequencesExt

CONSTANTS Entries,      \* work entries; each is accepted at most once per instance
          Controllers,  \* the tasks that call init, start, stop and deinit
          Worker,       \* the worker task, as a caller of the API
          WorkCalls,    \* the control calls work functions make
          Wake,         \* the entry with a NULL work_fn
          Size          \* config.size

ASSUME WorkQueueAssumption ==
    /\ Size \in Nat \ {0}
    /\ Wake \notin Entries
    /\ Worker \notin Controllers
    /\ WorkCalls \subseteq {"start", "stop", "deinit"}

VARIABLES live,      \* the handle (g_work_queue, *p_handle) is not NULL
          state,     \* p_work_queue->state
          queue,     \* handles.queue, oldest entry first
          wpc,       \* the worker task: where it is, "none" when handles.task is NULL
          op,        \* op[c]: the control call caller c is in
          cpc,       \* cpc[c]: where in that call it is
          accepted,  \* history: entries add_task returned ESP_OK for, in order
          ran        \* history: entries whose work_fn was called, in order

vars == <<live, state, queue, wpc, op, cpc, accepted, ran>>

Callers == Controllers \cup {Worker}

States == {"DEINIT", "INIT_DONE", "RUNNING", "STOP_REQUESTED"}

WorkerPCs == {"none", "check", "receive", "run", "exit", "parking", "suspended"}

CallPCs == {"idle", "stop_set", "stop_send", "wait_state", "wait_suspended",
            "start_set", "start_run", "resume", "delete"}

HasTask == wpc # "none"

IsOwnWorker(c) == c = Worker

(***************************************************************************)
(* A work function calls while the worker runs it and makes one call at a  *)
(* time; any other task calls when it likes.                               *)
(***************************************************************************)
MayCall(c, name) ==
    /\ live
    /\ op[c] = "none"
    /\ IsOwnWorker(c) => wpc = "run" /\ name \in WorkCalls

Goto(c, name, pc) == /\ op' = [op EXCEPT ![c] = name]
                     /\ cpc' = [cpc EXCEPT ![c] = pc]

Return(c) == Goto(c, "none", "idle")

\* Mutant: the send does not look at the room left.
SendUnchecked(e) == queue' = Append(queue, e)

\* A non-blocking send: nothing happens when the queue is full.
Send(e) == queue' = IF Len(queue) < Size THEN Append(queue, e) ELSE queue

-----------------------------------------------------------------------------
Init == /\ live = FALSE
        /\ state = "DEINIT"
        /\ queue = <<>>
        /\ wpc = "none"
        /\ op = [c \in Callers |-> "none"]
        /\ cpc = [c \in Callers |-> "idle"]
        /\ accepted = <<>>
        /\ ran = <<>>

InitQueue(c) == /\ c \in Controllers
                /\ op[c] = "none"
                /\ ~live
                /\ live' = TRUE
                /\ state' = "INIT_DONE"
                /\ queue' = <<>>
                /\ UNCHANGED <<wpc, op, cpc, accepted, ran>>

AddTask(e) == /\ live
              /\ ~Contains(accepted, e)
              /\ Len(queue) < Size
              /\ queue' = Append(queue, e)
              /\ accepted' = Append(accepted, e)
              /\ UNCHANGED <<live, state, wpc, op, cpc, ran>>

-----------------------------------------------------------------------------
(* start: a parked (or parking) worker is resumed, else a task is created  *)

StartExisting(c) == /\ MayCall(c, "start")
                    /\ state # "RUNNING"
                    /\ HasTask
                    /\ ~IsOwnWorker(c)
                    /\ Goto(c, "start", "wait_state")
                    /\ UNCHANGED <<live, state, queue, wpc, accepted, ran>>

\* The new task is ready, and may run, before start writes the state.
StartCreate(c) == /\ MayCall(c, "start")
                  /\ state = "INIT_DONE"
                  /\ ~HasTask
                  /\ wpc' = "check"
                  /\ Goto(c, "start", "start_set")
                  /\ UNCHANGED <<live, state, queue, accepted, ran>>

StartSet(c) == /\ cpc[c] = "start_set"
               /\ state' = "RUNNING"
               /\ Return(c)
               /\ UNCHANGED <<live, queue, wpc, accepted, ran>>

StartRun(c) == /\ cpc[c] = "start_run"
               /\ state' = "RUNNING"
               /\ Goto(c, op[c], "resume")
               /\ UNCHANGED <<live, queue, wpc, accepted, ran>>

\* Mutant: start forgets vTaskResume.
ResumeForgotten(c) == /\ cpc[c] = "resume"
                      /\ Return(c)
                      /\ UNCHANGED <<live, state, queue, wpc, accepted, ran>>

\* vTaskResume does nothing to a task that is not suspended.
Resume(c) == /\ cpc[c] = "resume"
             /\ wpc' = IF wpc = "suspended" THEN "check" ELSE wpc
             /\ Return(c)
             /\ UNCHANGED <<live, state, queue, accepted, ran>>

-----------------------------------------------------------------------------
(* stop: reads the state, writes it, then wakes the worker                 *)

StopCall(c) == /\ MayCall(c, "stop")
               /\ state = "RUNNING"
               /\ Goto(c, "stop", "stop_set")
               /\ UNCHANGED <<live, state, queue, wpc, accepted, ran>>

StopSet(c) == /\ cpc[c] = "stop_set"
              /\ state' = "STOP_REQUESTED"
              /\ Goto(c, op[c], "stop_send")
              /\ UNCHANGED <<live, queue, wpc, accepted, ran>>

\* stop returns here; deinit, which called it, goes on to wait.
StopSend(c) == /\ cpc[c] = "stop_send"
               /\ Send(Wake)
               /\ IF op[c] = "deinit" THEN Goto(c, "deinit", "wait_state") ELSE Return(c)
               /\ UNCHANGED <<live, state, wpc, accepted, ran>>

-----------------------------------------------------------------------------
(* wait_stopped, shared by start and deinit, and the rest of deinit        *)

AfterWait(c) == IF op[c] = "start" THEN "start_run" ELSE "delete"

WaitState(c) == /\ cpc[c] = "wait_state"
                /\ state # "STOP_REQUESTED"
                /\ Goto(c, op[c], IF HasTask THEN "wait_suspended" ELSE AfterWait(c))
                /\ UNCHANGED <<live, state, queue, wpc, accepted, ran>>

\* Mutant: wait_stopped trusts the state and does not poll for eSuspended.
WaitSuspendedTrusting(c) == /\ cpc[c] = "wait_suspended"
                            /\ Goto(c, op[c], AfterWait(c))
                            /\ UNCHANGED <<live, state, queue, wpc, accepted, ran>>

WaitSuspended(c) == /\ cpc[c] = "wait_suspended"
                    /\ wpc = "suspended"
                    /\ Goto(c, op[c], AfterWait(c))
                    /\ UNCHANGED <<live, state, queue, wpc, accepted, ran>>

DeinitCall(c) == /\ MayCall(c, "deinit")
                 /\ ~IsOwnWorker(c)
                 /\ Goto(c, "deinit", IF state = "RUNNING" THEN "stop_set" ELSE "wait_state")
                 /\ UNCHANGED <<live, state, queue, wpc, accepted, ran>>

\* The task and the queue are deleted, with the entries still in it.
Delete(c) == /\ cpc[c] = "delete"
             /\ live' = FALSE
             /\ state' = "DEINIT"
             /\ queue' = <<>>
             /\ wpc' = "none"
             /\ accepted' = <<>>
             /\ ran' = <<>>
             /\ Return(c)

-----------------------------------------------------------------------------
(* The worker task                                                         *)

\* Mutant: the loop condition looks for the wrong state.
WorkerCheckWrongState == /\ wpc = "check"
                         /\ wpc' = IF state = "DEINIT" THEN "exit" ELSE "receive"
                         /\ UNCHANGED <<live, state, queue, op, cpc, accepted, ran>>

WorkerCheck == /\ wpc = "check"
               /\ wpc' = IF state = "STOP_REQUESTED" THEN "exit" ELSE "receive"
               /\ UNCHANGED <<live, state, queue, op, cpc, accepted, ran>>

\* Mutant: the loop peeks at the next entry instead of receiving it.
WorkerReceivePeek == /\ wpc = "receive"
                     /\ queue # <<>>
                     /\ IF Head(queue) = Wake
                          THEN /\ queue' = Tail(queue)
                               /\ UNCHANGED <<wpc, ran>>
                          ELSE /\ wpc' = "run"
                               /\ ran' = Append(ran, Head(queue))
                               /\ UNCHANGED queue
                     /\ Len(ran) < Len(accepted) + Size
                     /\ UNCHANGED <<live, state, op, cpc, accepted>>

\* Either receive of handle_work_queue finds an entry; a wake entry is skipped.
WorkerReceive == /\ wpc = "receive"
                 /\ queue # <<>>
                 /\ queue' = Tail(queue)
                 /\ IF Head(queue) = Wake
                      THEN UNCHANGED <<wpc, ran>>
                      ELSE /\ wpc' = "run"
                           /\ ran' = Append(ran, Head(queue))
                 /\ UNCHANGED <<live, state, op, cpc, accepted>>

\* The first receive times out, or the next one finds the queue empty.
WorkerEmpty == /\ wpc = "receive"
               /\ queue = <<>>
               /\ wpc' = "check"
               /\ UNCHANGED <<live, state, queue, op, cpc, accepted, ran>>

WorkerReturn == /\ wpc = "run"
                /\ op[Worker] = "none"
                /\ wpc' = "receive"
                /\ UNCHANGED <<live, state, queue, op, cpc, accepted, ran>>

\* Mutant: the parking worker leaves the state as it found it.
WorkerExitNoReset == /\ wpc = "exit"
                     /\ wpc' = "parking"
                     /\ UNCHANGED <<live, state, queue, op, cpc, accepted, ran>>

WorkerExit == /\ wpc = "exit"
              /\ state' = "INIT_DONE"
              /\ wpc' = "parking"
              /\ UNCHANGED <<live, queue, op, cpc, accepted, ran>>

WorkerSuspend == /\ wpc = "parking"
                 /\ wpc' = "suspended"
                 /\ UNCHANGED <<live, state, queue, op, cpc, accepted, ran>>

-----------------------------------------------------------------------------
WorkerStep == \/ WorkerCheck
              \/ WorkerReceive
              \/ WorkerEmpty
              \/ WorkerReturn
              \/ WorkerExit
              \/ WorkerSuspend

\* What a caller goes on to do once it is inside a call.
CallStep(c) == \/ StartSet(c)
               \/ StartRun(c)
               \/ Resume(c)
               \/ StopSet(c)
               \/ StopSend(c)
               \/ WaitState(c)
               \/ WaitSuspended(c)
               \/ Delete(c)

Call(c) == \/ InitQueue(c)
           \/ StartExisting(c)
           \/ StartCreate(c)
           \/ StopCall(c)
           \/ DeinitCall(c)

Next == \/ WorkerStep
        \/ \E c \in Callers : CallStep(c) \/ Call(c)
        \/ \E e \in Entries : AddTask(e)

(***************************************************************************)
(* FreeRTOS runs every ready task again and work functions return, so the  *)
(* worker and a caller inside a call keep going.  Nobody has to call.      *)
(***************************************************************************)
Fairness == /\ WF_vars(WorkerStep)
            /\ \A c \in Callers : WF_vars(CallStep(c))

Spec == Init /\ [][Next]_vars

FairSpec == Spec /\ Fairness

-----------------------------------------------------------------------------
(* Properties                                                              *)

\* Every variable stays in its type: the fields of the queue object, the
\* FreeRTOS queue within config.size, and the places a task can be in.
TypeOK == /\ live \in BOOLEAN
          /\ state \in States
          /\ queue \in Seq(Entries \cup {Wake})
          /\ Len(queue) <= Size
          /\ wpc \in WorkerPCs
          /\ op \in [Callers -> {"none", "start", "stop", "deinit"}]
          /\ cpc \in [Callers -> CallPCs]
          /\ accepted \in Seq(Entries)
          /\ ran \in Seq(Entries)

\* The worker lets entries run from its creation or resumption until it has
\* parked: between the check of the state and vTaskSuspend it is still busy.
Serving == wpc \notin {"none", "suspended"}

(***************************************************************************)
(* The implementation keeps the FIFO promise: what add_task accepts is run *)
(* at most once, in order, by a worker that is not parked; wake entries    *)
(* are invisible; deinit drops entries only after the worker has parked.   *)
(***************************************************************************)
Fifo == INSTANCE WorkQueueFifo WITH serving <- Serving, Capacity <- Size

FifoSpec == Fifo!Spec

(***************************************************************************)
(* The worker is resumed or deleted only once it is really suspended, not  *)
(* merely on its way there: a resume of a task still parking is lost, and  *)
(* a delete would take it away in the middle of a call (line 121).         *)
(***************************************************************************)
TouchesOnlyParked ==
    \A c \in Callers : /\ cpc[c] = "resume" => wpc = "suspended"
                      /\ cpc[c] = "delete" => wpc \in {"none", "suspended"}

(***************************************************************************)
(* A stop request always has a worker that will see it: were the state     *)
(* STOP_REQUESTED with the worker parked or absent, nothing would ever     *)
(* take it back and the next start or deinit would wait for good.          *)
(***************************************************************************)
StopHasWorker ==
    state = "STOP_REQUESTED" => wpc \in {"check", "receive", "run", "exit"}

(***************************************************************************)
(* A queue that says RUNNING has a worker that serves it, but for the      *)
(* instant between the write of the state and vTaskResume.                 *)
(***************************************************************************)
RunningHasWorker ==
    state = "RUNNING" =>
        \/ wpc \in {"check", "receive", "run"}
        \/ \E c \in Callers : cpc[c] = "resume"

(***************************************************************************)
(* README.md:94-95: a start that waits for the worker, and a deinit,       *)
(* return, provided work functions do.                                     *)
(***************************************************************************)
CallsReturn == \A c \in Controllers : op[c] # "none" ~> op[c] = "none"

\* A stop takes effect: the worker parks, whatever is still queued or added.
StopParks == state = "STOP_REQUESTED" ~> wpc = "suspended"

(***************************************************************************)
(* An entry that is queued gets its turn as long as the queue runs, those  *)
(* buffered before start included (README.md:90), and wake entries left    *)
(* over from an earlier stop do not end the worker.                        *)
(***************************************************************************)
DrainsWhileRunning ==
    \A e \in Entries : Contains(queue, e) ~> Contains(ran, e) \/ state # "RUNNING"
=============================================================================
