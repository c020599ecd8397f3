-------------------------- MODULE WorkQueueProofs --------------------------
(***************************************************************************)
(* Theorems of WorkQueue for every set of entries and every size.          *)
(***************************************************************************)
EXTENDS WorkQueue, SequenceTheorems, TLAPS

\* One task controls the queue, as in the flows of the README.
OneController == \A c, d \in Controllers : c = d

\* Work functions leave stop to the controlling task.
NoWorkStop == "stop" \notin WorkCalls

-----------------------------------------------------------------------------
LEMMA CallersFacts == /\ Worker \in Callers
                      /\ Controllers \subseteq Callers
                      /\ \A c \in Callers : c = Worker \/ c \in Controllers
  BY DEF Callers

LEMMA GotoType ==
  ASSUME TypeOK, NEW c \in Callers, NEW n \in {"none", "start", "stop", "deinit"},
         NEW p \in CallPCs, Goto(c, n, p)
  PROVE  /\ op' \in [Callers -> {"none", "start", "stop", "deinit"}]
         /\ cpc' \in [Callers -> CallPCs]
  BY DEF Goto, TypeOK

LEMMA EmptyQueue == /\ <<>> \in Seq(Entries \cup {Wake})
                    /\ <<>> \in Seq(Entries)
                    /\ Len(<<>>) = 0
                    /\ Len(<<>>) <= Size
<1>1. Len(<<>>) = 0
  BY EmptySeq
<1> QED BY <1>1, EmptySeq, WorkQueueAssumption

\* Every reachable state is of the types the code declares, and the FreeRTOS
\* queue never holds more than config.size entries.
THEOREM Typing == Spec => []TypeOK
<1>1. Init => TypeOK
  BY EmptyQueue DEF Init, TypeOK, States, WorkerPCs, CallPCs
<1>2. TypeOK /\ [Next]_vars => TypeOK'
  <2> SUFFICES ASSUME TypeOK, [Next]_vars PROVE TypeOK'
    OBVIOUS
  <2>1. CASE WorkerStep
    <3>1. CASE WorkerReceive
      <4>1. queue' \in Seq(Entries \cup {Wake}) /\ Len(queue') <= Size
        BY <3>1, WorkQueueAssumption DEF WorkerReceive, TypeOK
      <4>2. Head(queue) \in Entries \cup {Wake}
        BY <3>1 DEF WorkerReceive, TypeOK
      <4>3. wpc' \in WorkerPCs /\ ran' \in Seq(Entries)
        <5>1. CASE Head(queue) = Wake
          BY <3>1, <5>1 DEF WorkerReceive, TypeOK
        <5>2. CASE Head(queue) # Wake
          <6>1. Head(queue) \in Entries /\ ran' = Append(ran, Head(queue)) /\ wpc' = "run"
            BY <3>1, <4>2, <5>2 DEF WorkerReceive
          <6> QED BY <6>1, AppendProperties DEF TypeOK, WorkerPCs
        <5> QED BY <5>1, <5>2
      <4> QED BY <3>1, <4>1, <4>3 DEF WorkerReceive, TypeOK
    <3>2. CASE WorkerCheck \/ WorkerEmpty \/ WorkerReturn \/ WorkerExit \/ WorkerSuspend
      BY <3>2 DEF WorkerCheck, WorkerEmpty, WorkerReturn, WorkerExit, WorkerSuspend,
         TypeOK, WorkerPCs, States
    <3> QED BY <2>1, <3>1, <3>2 DEF WorkerStep
  <2>2. ASSUME NEW c \in Callers, CallStep(c) PROVE TypeOK'
    <3>1. op[c] \in {"none", "start", "stop", "deinit"} /\ AfterWait(c) \in CallPCs
      BY DEF TypeOK, AfterWait, CallPCs
    <3>2. CASE StartSet(c)
      BY <3>2, GotoType DEF StartSet, Return, TypeOK, States, CallPCs
    <3>3. CASE StartRun(c)
      BY <3>1, <3>3, GotoType DEF StartRun, TypeOK, States, CallPCs
    <3>4. CASE Resume(c)
      BY <3>4, GotoType DEF Resume, Return, TypeOK, WorkerPCs, CallPCs
    <3>5. CASE StopSet(c)
      BY <3>1, <3>5, GotoType DEF StopSet, TypeOK, States, CallPCs
    <3>6. CASE StopSend(c)
      <4>1. queue' \in Seq(Entries \cup {Wake}) /\ Len(queue') <= Size
        BY <3>6, WorkQueueAssumption DEF StopSend, Send, TypeOK
      <4>2. /\ op' \in [Callers -> {"none", "start", "stop", "deinit"}]
            /\ cpc' \in [Callers -> CallPCs]
        BY <3>6, GotoType DEF StopSend, Return, CallPCs
      <4> QED BY <4>1, <4>2, <3>6 DEF StopSend, TypeOK
    <3>7. CASE WaitState(c)
      <4>1. (IF HasTask THEN "wait_suspended" ELSE AfterWait(c)) \in CallPCs
        BY <3>1 DEF CallPCs
      <4> QED BY <3>1, <4>1, <3>7, GotoType DEF WaitState, TypeOK
    <3>8. CASE WaitSuspended(c)
      BY <3>1, <3>8, GotoType DEF WaitSuspended, TypeOK
    <3>9. CASE Delete(c)
      BY <3>9, GotoType, EmptyQueue DEF Delete, Return, TypeOK, States, WorkerPCs, CallPCs
    <3> QED BY <2>2, <3>2, <3>3, <3>4, <3>5, <3>6, <3>7, <3>8, <3>9 DEF CallStep
  <2>3. ASSUME NEW c \in Callers, Call(c) PROVE TypeOK'
    <3>1. CASE InitQueue(c)
      BY <3>1, EmptyQueue DEF InitQueue, TypeOK, States
    <3>2. CASE StartExisting(c)
      BY <3>2, GotoType DEF StartExisting, TypeOK, CallPCs
    <3>3. CASE StartCreate(c)
      BY <3>3, GotoType DEF StartCreate, TypeOK, CallPCs, WorkerPCs
    <3>4. CASE StopCall(c)
      BY <3>4, GotoType DEF StopCall, TypeOK, CallPCs
    <3>5. CASE DeinitCall(c)
      BY <3>5, GotoType DEF DeinitCall, TypeOK, CallPCs
    <3> QED BY <2>3, <3>1, <3>2, <3>3, <3>4, <3>5 DEF Call
  <2>4. ASSUME NEW e \in Entries, AddTask(e) PROVE TypeOK'
    BY <2>4, WorkQueueAssumption DEF AddTask, TypeOK
  <2>5. CASE UNCHANGED vars
    BY <2>5 DEF vars, TypeOK
  <2> QED BY <2>1, <2>2, <2>3, <2>4, <2>5 DEF Next
<1> QED BY <1>1, <1>2, PTL DEF Spec

-----------------------------------------------------------------------------
(***************************************************************************)
(* The inductive invariant of the life of the worker.  A controller in     *)
(* start or deinit owns the worker from the moment it sees it suspended:   *)
(* the only other caller is a work function, and none runs any more.       *)
(***************************************************************************)
CallsConsistent ==
    \A c \in Callers :
        /\ op[c] = "none" <=> cpc[c] = "idle"
        /\ op[c] = "stop" => cpc[c] \in {"stop_set", "stop_send"}
        /\ op[c] = "start" => cpc[c] \in {"start_set", "wait_state", "wait_suspended",
                                          "start_run", "resume"}
        /\ op[c] = "deinit" => cpc[c] \in {"stop_set", "stop_send", "wait_state",
                                           "wait_suspended", "delete"}
        /\ op[c] # "none" => live

WorkerCallsStop == /\ op[Worker] \in {"none", "stop"}
                   /\ op[Worker] = "stop" => wpc = "run"

WorkerOwned ==
    \A c \in Controllers :
        /\ op[c] = "start" => wpc # "none"
        /\ cpc[c] \in {"start_run", "resume"} => wpc = "suspended"
        /\ cpc[c] = "delete" => wpc \in {"none", "suspended"}

LifeInv == /\ TypeOK
           /\ CallsConsistent
           /\ WorkerCallsStop
           /\ WorkerOwned
           /\ wpc # "none" => live

LEMMA InitLife == Init => LifeInv
<1> SUFFICES ASSUME Init PROVE LifeInv
  OBVIOUS
<1>1. TypeOK
  BY EmptyQueue DEF Init, TypeOK, States, WorkerPCs, CallPCs
<1>2. CallsConsistent /\ WorkerCallsStop /\ WorkerOwned /\ (wpc # "none" => live)
  BY CallersFacts DEF Init, CallsConsistent, WorkerCallsStop, WorkerOwned
<1> QED BY <1>1, <1>2 DEF LifeInv

LEMMA NextLife ==
  ASSUME OneController, LifeInv, TypeOK', [Next]_vars
  PROVE  LifeInv'
<1> USE DEF LifeInv
<1>0. Worker \notin Controllers
  BY WorkQueueAssumption
<1>1. CASE WorkerStep
  <2>1. CallsConsistent'
    BY <1>1 DEF CallsConsistent, WorkerStep, WorkerCheck, WorkerReceive, WorkerEmpty,
       WorkerReturn, WorkerExit, WorkerSuspend
  <2>2. WorkerCallsStop' /\ WorkerOwned' /\ (wpc # "none" => live)'
    BY <1>1 DEF WorkerCallsStop, WorkerOwned, WorkerStep, WorkerCheck, WorkerReceive,
       WorkerEmpty, WorkerReturn, WorkerExit, WorkerSuspend
  <2> QED BY <2>1, <2>2
<1>2. ASSUME NEW c \in Callers, CallStep(c) PROVE LifeInv'
  <2>1. op \in [Callers -> {"none", "start", "stop", "deinit"}] /\ cpc \in [Callers -> CallPCs]
    BY DEF TypeOK
  <2> USE DEF Goto, Return, AfterWait, HasTask
  <2>2. CallsConsistent'
    <3>1. CASE Delete(c)
      <4>1. c \in Controllers /\ wpc # "run"
        BY <3>1, CallersFacts DEF Delete, CallsConsistent, WorkerCallsStop, WorkerOwned
      <4>2. \A d \in Callers : d # c => op[d] = "none"
        BY <4>1, CallersFacts DEF OneController, WorkerCallsStop
      <4> QED BY <2>1, <3>1, <4>2 DEF Delete, CallsConsistent
    <3>2. CASE ~Delete(c)
      BY <1>2, <2>1, <3>2 DEF CallsConsistent, CallStep, StartSet, StartRun, Resume,
         StopSet, StopSend, WaitState, WaitSuspended
    <3> QED BY <3>1, <3>2
  <2>3. WorkerCallsStop'
    BY <1>2, <2>1, <1>0, CallersFacts DEF CallsConsistent, WorkerCallsStop, WorkerOwned, CallStep,
       StartSet, StartRun, Resume, StopSet, StopSend, WaitState, WaitSuspended, Delete
  <2>4. WorkerOwned'
    BY <1>2, <2>1, <1>0, CallersFacts DEF CallsConsistent, WorkerCallsStop, WorkerOwned,
       OneController, CallStep, StartSet, StartRun, Resume, StopSet, StopSend, WaitState,
       WaitSuspended, Delete
  <2>5. (wpc # "none" => live)'
    BY <1>2 DEF CallStep, StartSet, StartRun, Resume, StopSet, StopSend, WaitState,
       WaitSuspended, Delete
  <2> QED BY <2>2, <2>3, <2>4, <2>5
<1>3. ASSUME NEW c \in Callers, Call(c) PROVE LifeInv'
  <2>1. op \in [Callers -> {"none", "start", "stop", "deinit"}] /\ cpc \in [Callers -> CallPCs]
    BY DEF TypeOK
  <2> USE DEF Goto, IsOwnWorker, MayCall, HasTask
  <2>2. CallsConsistent'
    BY <1>3, <2>1 DEF CallsConsistent, Call, InitQueue, StartExisting, StartCreate,
       StopCall, DeinitCall
  <2>3. WorkerCallsStop'
    BY <1>3, <2>1, <1>0, CallersFacts DEF CallsConsistent, WorkerCallsStop, Call, InitQueue,
       StartExisting, StartCreate, StopCall, DeinitCall
  <2>4. WorkerOwned'
    BY <1>3, <2>1, <1>0, CallersFacts DEF CallsConsistent, WorkerOwned, WorkerCallsStop,
       OneController, Call, InitQueue, StartExisting, StartCreate, StopCall, DeinitCall
  <2>5. (wpc # "none" => live)'
    BY <1>3 DEF Call, InitQueue, StartExisting, StartCreate, StopCall, DeinitCall
  <2> QED BY <2>2, <2>3, <2>4, <2>5
<1>4. ASSUME NEW e \in Entries, AddTask(e) PROVE LifeInv'
  BY <1>4 DEF AddTask, CallsConsistent, WorkerCallsStop, WorkerOwned
<1>5. CASE UNCHANGED vars
  BY <1>5 DEF vars, CallsConsistent, WorkerCallsStop, WorkerOwned
<1> QED BY <1>1, <1>2, <1>3, <1>4, <1>5 DEF Next

LEMMA LifeInvariant == ASSUME OneController PROVE Spec => []LifeInv
<1>1. LifeInv /\ TypeOK' /\ [Next]_vars => LifeInv'
  BY NextLife
<1> QED BY <1>1, InitLife, Typing, PTL DEF Spec

\* With one controlling task, and whatever work functions call, the worker is
\* resumed or deleted only once it is suspended.
THEOREM TouchesOnlyParkedHolds ==
  ASSUME OneController PROVE Spec => []TouchesOnlyParked
<1>1. LifeInv => TouchesOnlyParked
  BY CallersFacts DEF LifeInv, TouchesOnlyParked, WorkerOwned, WorkerCallsStop, CallsConsistent
<1> QED BY <1>1, LifeInvariant, PTL

-----------------------------------------------------------------------------
(***************************************************************************)
(* The states the code's own writes lead to when only the controller stops *)
(* the queue: then a write of the state never surprises the worker.        *)
(***************************************************************************)
Active == {"check", "receive", "run"}

StateMatchesWorker ==
    /\ state = "RUNNING" => wpc \in Active \/ \E c \in Callers : cpc[c] = "resume"
    /\ state = "STOP_REQUESTED" => wpc \in Active \cup {"exit"}
    /\ wpc = "exit" => state = "STOP_REQUESTED"
    /\ wpc = "parking" => state = "INIT_DONE"
    /\ \A c \in Controllers :
         /\ cpc[c] = "start_set" => wpc \in Active /\ state = "INIT_DONE"
         /\ cpc[c] = "start_run" => state # "STOP_REQUESTED"
         /\ cpc[c] = "stop_set" => state = "RUNNING"

StopInv == LifeInv /\ op[Worker] = "none" /\ StateMatchesWorker

LEMMA InitStop == Init => StopInv
<1>1. ASSUME Init PROVE op[Worker] = "none" /\ StateMatchesWorker
  BY <1>1, CallersFacts DEF Init, StateMatchesWorker
<1> QED BY <1>1, InitLife DEF StopInv

LEMMA NextStop ==
  ASSUME OneController, NoWorkStop, StopInv, LifeInv', [Next]_vars
  PROVE  StopInv'
<1> USE DEF StopInv, LifeInv
<1>0. Worker \notin Controllers
  BY WorkQueueAssumption
<1>1. CASE WorkerStep
  <2>1. (op[Worker] = "none")' /\ UNCHANGED cpc
    BY <1>1 DEF WorkerStep, WorkerCheck, WorkerReceive, WorkerEmpty, WorkerReturn,
       WorkerExit, WorkerSuspend
  <2>2. \A c \in Callers : cpc[c] = "resume" => wpc = "suspended"
    BY CallersFacts DEF WorkerOwned, CallsConsistent
  <2>3. StateMatchesWorker'
    BY <1>1, <2>1, <2>2 DEF StateMatchesWorker, WorkerStep, WorkerCheck,
       WorkerReceive, WorkerEmpty, WorkerReturn, WorkerExit, WorkerSuspend, Active
  <2> QED BY <2>1, <2>3
<1>2. ASSUME NEW c \in Callers, CallStep(c) PROVE StopInv'
  <2>0. c \in Controllers /\ c # Worker
    BY <1>0, <1>2, CallersFacts DEF CallsConsistent, CallStep, StartSet, StartRun, Resume,
       StopSet, StopSend, WaitState, WaitSuspended, Delete
  <2>1. op \in [Callers -> {"none", "start", "stop", "deinit"}] /\ cpc \in [Callers -> CallPCs]
    BY DEF TypeOK
  <2> USE DEF Goto, Return, AfterWait, HasTask
  <2>2. (op[Worker] = "none")'
    BY <1>2, <2>0, <2>1, CallersFacts DEF CallStep, StartSet, StartRun, Resume, StopSet,
       StopSend, WaitState, WaitSuspended, Delete
  <2>3. \A d \in Callers : d # c => cpc[d] = "idle" /\ cpc'[d] = "idle"
    BY <1>2, <2>0, <2>1, CallersFacts DEF OneController, CallsConsistent, CallStep, StartSet,
       StartRun, Resume, StopSet, StopSend, WaitState, WaitSuspended, Delete
  <2>4. \A d \in Callers : cpc'[d] \in {"start_set", "start_run", "stop_set", "resume"} => d = c
    BY <2>3
  <2>5. StateMatchesWorker'
    <3>1. CASE StartSet(c)
      BY <2>0, <2>1, <2>4, <3>1, CallersFacts DEF StateMatchesWorker, StartSet, Active
    <3>2. CASE StartRun(c)
      BY <2>0, <2>1, <2>4, <3>2, CallersFacts DEF StateMatchesWorker, WorkerOwned, StartRun, Active
    <3>3. CASE Resume(c)
      BY <2>0, <2>1, <2>4, <3>3, CallersFacts DEF StateMatchesWorker, WorkerOwned, Resume, Active
    <3>4. CASE StopSet(c)
      BY <2>0, <2>1, <2>3, <2>4, <3>4, CallersFacts DEF StateMatchesWorker, StopSet, Active
    <3>5. CASE StopSend(c) \/ WaitState(c) \/ WaitSuspended(c)
      <4>1. state = "RUNNING" => wpc \in Active
        BY <2>3, <3>5 DEF StateMatchesWorker, StopSend, WaitState, WaitSuspended
      <4>2. cpc'[c] = "start_run" => state # "STOP_REQUESTED"
        BY <2>0, <2>1, <3>5 DEF StateMatchesWorker, StopSend, WaitState, WaitSuspended, Active
      <4>3. UNCHANGED <<state, wpc>> /\ cpc'[c] \notin {"start_set", "stop_set", "resume"}
        BY <2>1, <3>5 DEF StopSend, WaitState, WaitSuspended
      <4>4. \A d \in Controllers : d # c => cpc'[d] = "idle"
        BY <2>3, CallersFacts
      <4> HIDE DEF Goto, Return, AfterWait, HasTask
      <4> QED BY <4>1, <4>2, <4>3, <4>4 DEF StateMatchesWorker
    <3>6. CASE Delete(c)
      BY <2>0, <2>1, <2>4, <3>6, CallersFacts DEF StateMatchesWorker, Delete
    <3> QED BY <1>2, <3>1, <3>2, <3>3, <3>4, <3>5, <3>6 DEF CallStep
  <2> QED BY <2>2, <2>5
<1>3. ASSUME NEW c \in Callers, Call(c) PROVE StopInv'
  <2>1. op \in [Callers -> {"none", "start", "stop", "deinit"}] /\ cpc \in [Callers -> CallPCs]
    BY DEF TypeOK
  <2> USE DEF Goto, IsOwnWorker, MayCall, HasTask
  <2>0. c \in Controllers /\ c # Worker
    BY <1>0, <1>3, CallersFacts DEF NoWorkStop, Call, InitQueue, StartExisting, StartCreate,
       StopCall, DeinitCall
  <2>2. (op[Worker] = "none")'
    BY <1>3, <2>0, <2>1, CallersFacts DEF Call, InitQueue, StartExisting, StartCreate,
       StopCall, DeinitCall
  <2>3. \A d \in Callers : cpc[d] = "idle"
    BY <1>3, <2>0, CallersFacts DEF OneController, CallsConsistent, Call, InitQueue,
       StartExisting, StartCreate, StopCall, DeinitCall
  <2>4. \A d \in Callers : d # c => cpc'[d] = "idle"
    BY <1>3, <2>1, <2>3 DEF Call, InitQueue, StartExisting, StartCreate, StopCall, DeinitCall
  <2>5. StateMatchesWorker'
    BY <1>3, <2>0, <2>1, <2>3, <2>4, CallersFacts DEF StateMatchesWorker, Call, InitQueue,
       StartExisting, StartCreate, StopCall, DeinitCall, Active
  <2> QED BY <2>2, <2>5
<1>4. ASSUME NEW e \in Entries, AddTask(e) PROVE StopInv'
  BY <1>4 DEF AddTask, StateMatchesWorker
<1>5. CASE UNCHANGED vars
  BY <1>5 DEF vars, StateMatchesWorker
<1> QED BY <1>1, <1>2, <1>3, <1>4, <1>5 DEF Next

LEMMA StopInvariant == ASSUME OneController, NoWorkStop PROVE Spec => []StopInv
<1>1. StopInv /\ LifeInv' /\ [Next]_vars => StopInv'
  BY NextStop
<1> QED BY <1>1, InitStop, LifeInvariant, PTL DEF Spec

\* With one controlling task and no stop from work functions, a stop request
\* never outlives the worker that has to see it.
THEOREM StopHasWorkerHolds ==
  ASSUME OneController, NoWorkStop PROVE Spec => []StopHasWorker
<1>1. StopInv => StopHasWorker
  BY DEF StopInv, StateMatchesWorker, StopHasWorker, Active
<1> QED BY <1>1, StopInvariant, PTL

\* Under the same assumptions a queue that says RUNNING has a worker serving it.
THEOREM RunningHasWorkerHolds ==
  ASSUME OneController, NoWorkStop PROVE Spec => []RunningHasWorker
<1>1. StopInv => RunningHasWorker
  BY DEF StopInv, StateMatchesWorker, RunningHasWorker, Active
<1> QED BY <1>1, StopInvariant, PTL

-----------------------------------------------------------------------------
(***************************************************************************)
(* What ties the FreeRTOS queue to the history: leaving the wake entries   *)
(* out, it holds exactly the accepted entries that have not run, in order. *)
(* The last conjunct bounds their number by the length of the queue.       *)
(***************************************************************************)
Waiting == Len(ran) + 1 .. Len(accepted)

QueueInv ==
    /\ ~live => queue = <<>> /\ accepted = <<>> /\ ran = <<>>
    /\ Len(ran) <= Len(accepted)
    /\ \A k, l \in DOMAIN accepted : accepted[k] = accepted[l] => k = l
    /\ \A i \in DOMAIN queue :
         queue[i] # Wake => \E k \in Waiting : accepted[k] = queue[i]
    /\ \A k \in Waiting : \E i \in DOMAIN queue : queue[i] = accepted[k]
    /\ \A i, j \in DOMAIN queue : \A k, l \in DOMAIN accepted :
         accepted[k] = queue[i] /\ accepted[l] = queue[j] /\ i < j => k < l
    /\ \A i \in DOMAIN queue : \A k \in DOMAIN accepted :
         accepted[k] = queue[i] => Len(accepted) - k <= Len(queue) - i

LEMMA EmptyQueueInv ==
  ASSUME queue = <<>>, accepted = <<>>, ran = <<>>
  PROVE  QueueInv
  BY EmptySeq DEF QueueInv, Waiting

LEMMA SeqFacts == TypeOK => /\ queue \in Seq(Entries \cup {Wake})
                            /\ accepted \in Seq(Entries)
                            /\ ran \in Seq(Entries)
                            /\ Len(queue) \in Nat /\ DOMAIN queue = 1 .. Len(queue)
                            /\ Len(accepted) \in Nat /\ DOMAIN accepted = 1 .. Len(accepted)
                            /\ Len(ran) \in Nat
                            /\ \A k \in DOMAIN accepted : accepted[k] \in Entries
  BY ElementOfSeq, LenProperties DEF TypeOK

LEMMA AppendFacts ==
  ASSUME NEW S, NEW s \in Seq(S), NEW x \in S
  PROVE  /\ Len(Append(s, x)) = Len(s) + 1
         /\ DOMAIN Append(s, x) = 1 .. Len(s) + 1
         /\ \A i \in 1 .. Len(s) : Append(s, x)[i] = s[i]
         /\ Append(s, x)[Len(s) + 1] = x
  BY AppendProperties, LenProperties

LEMMA TailFacts ==
  ASSUME NEW S, NEW s \in Seq(S), s # <<>>
  PROVE  /\ Len(s) \in Nat /\ Len(s) >= 1
         /\ Len(Tail(s)) = Len(s) - 1
         /\ DOMAIN Tail(s) = 1 .. Len(s) - 1
         /\ \A i \in 1 .. Len(s) - 1 : Tail(s)[i] = s[i + 1]
         /\ Head(s) = s[1]
  BY HeadTailProperties, LenProperties, EmptySeq

LEMMA AddKeepsQueueInv ==
  ASSUME TypeOK, QueueInv, NEW e \in Entries, AddTask(e)
  PROVE  QueueInv'
<1> DEFINE n == Len(queue)
           m == Len(accepted)
<1>1. /\ Len(queue') = n + 1 /\ DOMAIN queue' = 1 .. n + 1
      /\ \A i \in 1 .. n : queue'[i] = queue[i]
      /\ queue'[n + 1] = e
  BY SeqFacts, AppendFacts DEF AddTask
<1>2. /\ Len(accepted') = m + 1 /\ DOMAIN accepted' = 1 .. m + 1
      /\ \A k \in 1 .. m : accepted'[k] = accepted[k]
      /\ accepted'[m + 1] = e
  BY SeqFacts, AppendFacts DEF AddTask
<1>3. UNCHANGED ran /\ live /\ live'
  BY DEF AddTask
<1>4. \A k \in 1 .. m : accepted[k] # e
  BY SeqFacts DEF AddTask, Contains
<1>5. \A i \in 1 .. n : queue[i] # e
  BY <1>4, SeqFacts, WorkQueueAssumption DEF QueueInv, Waiting
<1>6. (\A i \in DOMAIN queue : queue[i] # Wake => \E k \in Waiting : accepted[k] = queue[i])'
  <2> SUFFICES ASSUME NEW i \in 1 .. n + 1, queue'[i] # Wake
               PROVE  \E k \in Waiting' : accepted'[k] = queue'[i]
    BY <1>1
  <2>1. CASE i = n + 1
    <3>1. m + 1 \in Waiting'
      BY <1>2, <1>3, SeqFacts DEF QueueInv, Waiting
    <3> QED BY <1>1, <1>2, <2>1, <3>1
  <2>2. CASE i # n + 1
    <3>1. i \in 1 .. n
      BY <2>2, SeqFacts
    <3>2. i \in DOMAIN queue /\ queue[i] = queue'[i]
      BY <1>1, <3>1, SeqFacts
    <3>3. PICK k \in Waiting : accepted[k] = queue[i]
      BY <3>2 DEF QueueInv
    <3>4. k \in Waiting' /\ k \in 1 .. m
      BY <1>2, <1>3, SeqFacts DEF Waiting
    <3> QED BY <1>2, <3>2, <3>3, <3>4
  <2> QED BY <2>1, <2>2
<1>7. (\A k \in Waiting : \E i \in DOMAIN queue : queue[i] = accepted[k])'
  <2> SUFFICES ASSUME NEW k \in Waiting'
               PROVE  \E i \in 1 .. n + 1 : queue'[i] = accepted'[k]
    BY <1>1
  <2>1. CASE k = m + 1
    BY <1>1, <1>2, <2>1, SeqFacts
  <2>2. CASE k # m + 1
    <3>1. k \in Waiting /\ k \in 1 .. m
      BY <1>2, <1>3, <2>2, SeqFacts DEF Waiting
    <3>2. PICK i \in DOMAIN queue : queue[i] = accepted[k]
      BY <3>1 DEF QueueInv
    <3> QED BY <1>1, <1>2, <3>1, <3>2, SeqFacts
  <2> QED BY <2>1, <2>2
<1>8. (\A i, j \in DOMAIN queue : \A k, l \in DOMAIN accepted :
         accepted[k] = queue[i] /\ accepted[l] = queue[j] /\ i < j => k < l)'
  <2> SUFFICES ASSUME NEW i \in 1 .. n + 1, NEW j \in 1 .. n + 1,
                      NEW k \in 1 .. m + 1, NEW l \in 1 .. m + 1,
                      accepted'[k] = queue'[i], accepted'[l] = queue'[j], i < j
               PROVE  k < l
    BY <1>1, <1>2
  <2>1. i \in 1 .. n /\ k \in 1 .. m
    <3>1. i # n + 1
      BY SeqFacts
    <3>2. i \in 1 .. n
      BY <3>1, SeqFacts
    <3>3. k # m + 1
      BY <1>1, <1>2, <1>5, <3>2
    <3> QED BY <3>2, <3>3, SeqFacts
  <2>2. CASE j = n + 1
    BY <1>1, <1>2, <1>4, <2>1, <2>2, SeqFacts
  <2>3. CASE j # n + 1
    <3>0. j \in 1 .. n
      BY <2>3, SeqFacts
    <3>1. j \in 1 .. n /\ l \in 1 .. m
      <4>1. l # m + 1
        BY <1>1, <1>2, <1>5, <3>0
      <4> QED BY <3>0, <4>1, SeqFacts
    <3>2. /\ i \in DOMAIN queue /\ j \in DOMAIN queue
          /\ k \in DOMAIN accepted /\ l \in DOMAIN accepted
      BY <2>1, <3>1, SeqFacts
    <3>3. accepted[k] = queue[i] /\ accepted[l] = queue[j]
      BY <1>1, <1>2, <2>1, <3>1
    <3> QED BY <3>2, <3>3 DEF QueueInv
  <2> QED BY <2>2, <2>3
<1>9. (\A i \in DOMAIN queue : \A k \in DOMAIN accepted :
         accepted[k] = queue[i] => Len(accepted) - k <= Len(queue) - i)'
  <2> SUFFICES ASSUME NEW i \in 1 .. n + 1, NEW k \in 1 .. m + 1, accepted'[k] = queue'[i]
               PROVE  m + 1 - k <= n + 1 - i
    BY <1>1, <1>2
  <2>1. CASE i = n + 1
    BY <1>1, <1>2, <1>4, <2>1, SeqFacts
  <2>2. CASE i # n + 1
    <3>0. i \in 1 .. n
      BY <2>2, SeqFacts
    <3>1. i \in 1 .. n /\ k \in 1 .. m
      <4>1. k # m + 1
        BY <1>1, <1>2, <1>5, <3>0
      <4> QED BY <3>0, <4>1, SeqFacts
    <3>2. i \in DOMAIN queue /\ k \in DOMAIN accepted
      BY <3>1, SeqFacts
    <3>3. accepted[k] = queue[i]
      BY <1>1, <1>2, <3>1
    <3>4. m - k <= n - i
      BY <3>2, <3>3 DEF QueueInv
    <3> QED BY <3>1, <3>4, SeqFacts
  <2> QED BY <2>1, <2>2
<1>10. (\A k, l \in DOMAIN accepted : accepted[k] = accepted[l] => k = l)'
  BY <1>2, <1>4, SeqFacts DEF QueueInv
<1>11. (Len(ran) <= Len(accepted))'
  BY <1>2, <1>3, SeqFacts DEF QueueInv
<1> QED BY <1>3, <1>6, <1>7, <1>8, <1>9, <1>10, <1>11 DEF QueueInv

LEMMA WakeKeepsQueueInv ==
  ASSUME TypeOK, QueueInv, live, Send(Wake), UNCHANGED <<live, accepted, ran>>
  PROVE  QueueInv'
<1>1. CASE UNCHANGED queue
  BY <1>1 DEF QueueInv, Waiting
<1>2. CASE queue' = Append(queue, Wake)
  <2> DEFINE n == Len(queue)
  <2>0. n = Len(queue) /\ n \in Nat /\ DOMAIN queue = 1 .. n
    BY SeqFacts
  <2>1. /\ Len(queue') = n + 1 /\ DOMAIN queue' = 1 .. n + 1
        /\ \A i \in 1 .. n : queue'[i] = queue[i]
        /\ queue'[n + 1] = Wake
    BY <1>2, SeqFacts, AppendFacts
  <2>2. \A k \in DOMAIN accepted : accepted[k] # Wake
    BY SeqFacts, WorkQueueAssumption
  <2> HIDE DEF n
  <2>3. (\A i \in DOMAIN queue : queue[i] # Wake => \E k \in Waiting : accepted[k] = queue[i])'
    <3> SUFFICES ASSUME NEW i \in 1 .. n + 1, queue'[i] # Wake
                 PROVE  \E k \in Waiting : accepted[k] = queue'[i]
      BY <2>1 DEF Waiting
    <3>1. i \in DOMAIN queue /\ queue[i] = queue'[i]
      BY <2>0, <2>1
    <3> QED BY <3>1 DEF QueueInv
  <2>4. (\A k \in Waiting : \E i \in DOMAIN queue : queue[i] = accepted[k])'
    <3> SUFFICES ASSUME NEW k \in Waiting
                 PROVE  \E i \in 1 .. n + 1 : queue'[i] = accepted[k]
      BY <2>0, <2>1 DEF Waiting
    <3>1. PICK i \in DOMAIN queue : queue[i] = accepted[k]
      BY DEF QueueInv
    <3> QED BY <2>0, <2>1, <3>1
  <2>5. (\A i, j \in DOMAIN queue : \A k, l \in DOMAIN accepted :
           accepted[k] = queue[i] /\ accepted[l] = queue[j] /\ i < j => k < l)'
    <3> SUFFICES ASSUME NEW i \in 1 .. n + 1, NEW j \in 1 .. n + 1,
                        NEW k \in DOMAIN accepted, NEW l \in DOMAIN accepted,
                        accepted[k] = queue'[i], accepted[l] = queue'[j], i < j
                 PROVE  k < l
      BY <2>0, <2>1
    <3>1. i # n + 1 /\ j # n + 1
      BY <2>1, <2>2
    <3>2. i \in 1 .. n /\ j \in 1 .. n
      BY <2>0, <3>1
    <3>3. i \in DOMAIN queue /\ j \in DOMAIN queue
      BY <2>0, <3>2
    <3>4. accepted[k] = queue[i] /\ accepted[l] = queue[j]
      BY <2>1, <3>2
    <3> QED BY <3>3, <3>4 DEF QueueInv
  <2>6. (\A i \in DOMAIN queue : \A k \in DOMAIN accepted :
           accepted[k] = queue[i] => Len(accepted) - k <= Len(queue) - i)'
    <3> SUFFICES ASSUME NEW i \in 1 .. n + 1, NEW k \in DOMAIN accepted,
                        accepted[k] = queue'[i]
                 PROVE  Len(accepted) - k <= n + 1 - i
      BY <2>0, <2>1, SeqFacts
    <3>1. i # n + 1
      BY <2>1, <2>2
    <3>2. i \in 1 .. n
      BY <2>0, <3>1
    <3>3. i \in DOMAIN queue /\ accepted[k] = queue[i]
      BY <2>0, <2>1, <3>2
    <3>4. Len(accepted) - k <= n - i
      BY <2>0, <3>3 DEF QueueInv
    <3> QED BY <2>0, <3>2, <3>4, SeqFacts
  <2> QED BY <2>3, <2>4, <2>5, <2>6 DEF QueueInv
<1> QED BY <1>1, <1>2 DEF Send

\* The head of the queue, if it is an entry, is the oldest one waiting.
LEMMA HeadIsOldest ==
  ASSUME TypeOK, QueueInv, queue # <<>>, Head(queue) # Wake
  PROVE  /\ Len(ran) < Len(accepted)
         /\ Head(queue) = accepted[Len(ran) + 1]
<1>1. 1 \in DOMAIN queue /\ Head(queue) = queue[1]
  BY SeqFacts, TailFacts
<1>2. PICK k \in Waiting : accepted[k] = queue[1]
  BY <1>1 DEF QueueInv
<1>3. Len(ran) + 1 \in Waiting /\ Waiting \subseteq DOMAIN accepted
  BY <1>2, SeqFacts DEF Waiting
<1>4. PICK i \in DOMAIN queue : queue[i] = accepted[Len(ran) + 1]
  BY <1>3 DEF QueueInv
<1>5. ~(1 < i)
  <2>1. k \in DOMAIN accepted /\ Len(ran) + 1 \in DOMAIN accepted
    BY <1>3
  <2>2. 1 < i => k < Len(ran) + 1
    BY <1>1, <1>2, <1>4, <2>1 DEF QueueInv
  <2> QED BY <1>2, <2>2, SeqFacts DEF Waiting
<1>6. i = 1
  BY <1>5, SeqFacts
<1> QED BY <1>1, <1>3, <1>4, <1>6, SeqFacts DEF Waiting

LEMMA ReceiveKeepsQueueInv ==
  ASSUME TypeOK, QueueInv, live, WorkerReceive
  PROVE  QueueInv'
<1> DEFINE n == Len(queue)
<1>1. /\ n \in Nat /\ n >= 1 /\ DOMAIN queue = 1 .. n
      /\ Len(queue') = n - 1 /\ DOMAIN queue' = 1 .. n - 1
      /\ \A i \in 1 .. n - 1 : queue'[i] = queue[i + 1]
      /\ Head(queue) = queue[1]
  BY SeqFacts, TailFacts DEF WorkerReceive
<1>2. UNCHANGED <<live, accepted>>
  BY DEF WorkerReceive
<1>5. (\A i, j \in DOMAIN queue : \A k, l \in DOMAIN accepted :
         accepted[k] = queue[i] /\ accepted[l] = queue[j] /\ i < j => k < l)'
  <2> SUFFICES ASSUME NEW i \in 1 .. n - 1, NEW j \in 1 .. n - 1,
                      NEW k \in DOMAIN accepted, NEW l \in DOMAIN accepted,
                      accepted[k] = queue[i + 1], accepted[l] = queue[j + 1], i < j
               PROVE  k < l
    BY <1>1, <1>2
  <2>1. i + 1 \in DOMAIN queue /\ j + 1 \in DOMAIN queue /\ i + 1 < j + 1
    BY <1>1
  <2> QED BY <2>1 DEF QueueInv
<1>6. (\A i \in DOMAIN queue : \A k \in DOMAIN accepted :
         accepted[k] = queue[i] => Len(accepted) - k <= Len(queue) - i)'
  <2> SUFFICES ASSUME NEW i \in 1 .. n - 1, NEW k \in DOMAIN accepted,
                      accepted[k] = queue[i + 1]
               PROVE  Len(accepted) - k <= (n - 1) - i
    BY <1>1, <1>2
  <2>1. i + 1 \in DOMAIN queue
    BY <1>1
  <2>2. Len(accepted) - k <= n - (i + 1)
    BY <2>1 DEF QueueInv
  <2> QED BY <1>1, <2>2, SeqFacts
<1>3. CASE Head(queue) = Wake
  <2>1. UNCHANGED ran
    BY <1>3 DEF WorkerReceive
  <2>2. \A k \in Waiting : \E i \in 1 .. n - 1 : queue[i + 1] = accepted[k]
    <3> SUFFICES ASSUME NEW k \in Waiting
                 PROVE  \E i \in 1 .. n - 1 : queue[i + 1] = accepted[k]
      OBVIOUS
    <3>1. PICK i \in DOMAIN queue : queue[i] = accepted[k]
      BY DEF QueueInv
    <3>2. i # 1
      BY <1>1, <1>3, <3>1, SeqFacts, WorkQueueAssumption DEF Waiting
    <3>3. i - 1 \in 1 .. n - 1 /\ queue[(i - 1) + 1] = accepted[k]
      BY <1>1, <3>1, <3>2
    <3> QED BY <3>3
  <2>3. (\A i \in DOMAIN queue : queue[i] # Wake => \E k \in Waiting : accepted[k] = queue[i])'
    <3> SUFFICES ASSUME NEW i \in 1 .. n - 1, queue[i + 1] # Wake
                 PROVE  \E k \in Waiting : accepted[k] = queue[i + 1]
      BY <1>1, <1>2, <2>1 DEF Waiting
    <3>1. i + 1 \in DOMAIN queue
      BY <1>1
    <3> QED BY <3>1 DEF QueueInv
  <2>4. (\A k \in Waiting : \E i \in DOMAIN queue : queue[i] = accepted[k])'
    <3>1. Waiting' = Waiting
      BY <1>2, <2>1 DEF Waiting
    <3>2. \A k \in Waiting : \E i \in DOMAIN queue' : queue'[i] = accepted'[k]
      <4> SUFFICES ASSUME NEW k \in Waiting
                   PROVE  \E i \in 1 .. n - 1 : queue'[i] = accepted[k]
        BY <1>1, <1>2
      <4>1. PICK i \in 1 .. n - 1 : queue[i + 1] = accepted[k]
        BY <2>2
      <4> QED BY <1>1, <4>1
    <3> QED BY <3>1, <3>2
  <2> QED BY <1>2, <1>5, <1>6, <2>1, <2>3, <2>4 DEF QueueInv
<1>4. CASE Head(queue) # Wake
  <2>1. Len(ran) < Len(accepted) /\ queue[1] = accepted[Len(ran) + 1]
    BY <1>1, <1>4, HeadIsOldest DEF WorkerReceive
  <2>2. Len(ran') = Len(ran) + 1
    <3>1. Head(queue) \in Entries /\ ran' = Append(ran, Head(queue))
      BY <1>1, <1>4, <2>1, SeqFacts DEF WorkerReceive
    <3> QED BY <3>1, SeqFacts, AppendFacts
  <2>3. \A k \in Waiting' : \E i \in 1 .. n - 1 : queue[i + 1] = accepted[k]
    <3> SUFFICES ASSUME NEW k \in Waiting'
                 PROVE  \E i \in 1 .. n - 1 : queue[i + 1] = accepted[k]
      OBVIOUS
    <3>1. k \in Waiting /\ k # Len(ran) + 1 /\ k \in DOMAIN accepted
          /\ Len(ran) + 1 \in DOMAIN accepted
      BY <1>2, <2>1, <2>2, SeqFacts DEF Waiting
    <3>2. PICK i \in DOMAIN queue : queue[i] = accepted[k]
      BY <3>1 DEF QueueInv
    <3>3. i # 1
      BY <2>1, <3>1, <3>2 DEF QueueInv
    <3>4. i - 1 \in 1 .. n - 1 /\ queue[(i - 1) + 1] = accepted[k]
      BY <1>1, <3>2, <3>3
    <3> QED BY <3>4
  <2>4. \A i \in 1 .. n - 1 :
          queue[i + 1] # Wake => \E k \in Waiting' : accepted[k] = queue[i + 1]
    <3> SUFFICES ASSUME NEW i \in 1 .. n - 1, queue[i + 1] # Wake
                 PROVE  \E k \in Waiting' : accepted[k] = queue[i + 1]
      OBVIOUS
    <3>1. i + 1 \in DOMAIN queue /\ 1 \in DOMAIN queue /\ 1 < i + 1
      BY <1>1
    <3>2. PICK k \in Waiting : accepted[k] = queue[i + 1]
      BY <3>1 DEF QueueInv
    <3>3. Len(ran) + 1 \in DOMAIN accepted /\ k \in DOMAIN accepted
      BY <2>1, SeqFacts DEF Waiting
    <3>4. Len(ran) + 1 < k
      BY <2>1, <3>1, <3>2, <3>3 DEF QueueInv
    <3> QED BY <1>2, <2>2, <3>2, <3>4, SeqFacts DEF Waiting
  <2>5. (\A i \in DOMAIN queue : queue[i] # Wake => \E k \in Waiting : accepted[k] = queue[i])'
    <3> SUFFICES ASSUME NEW i \in 1 .. n - 1, queue'[i] # Wake
                 PROVE  \E k \in Waiting' : accepted[k] = queue'[i]
      BY <1>1, <1>2
    <3>1. queue'[i] = queue[i + 1]
      BY <1>1
    <3> QED BY <2>4, <3>1
  <2>6. (\A k \in Waiting : \E i \in DOMAIN queue : queue[i] = accepted[k])'
    <3> SUFFICES ASSUME NEW k \in Waiting'
                 PROVE  \E i \in 1 .. n - 1 : queue'[i] = accepted[k]
      BY <1>1, <1>2
    <3>1. PICK i \in 1 .. n - 1 : queue[i + 1] = accepted[k]
      BY <2>3
    <3> QED BY <1>1, <3>1
  <2>7. (Len(ran) <= Len(accepted))'
    BY <1>2, <2>1, <2>2, SeqFacts
  <2> QED BY <1>2, <1>5, <1>6, <2>5, <2>6, <2>7 DEF QueueInv
<1> QED BY <1>3, <1>4

LEMMA NextQueueInv ==
  ASSUME TypeOK, LifeInv, QueueInv, [Next]_vars
  PROVE  QueueInv'
<1>1. CASE \E e \in Entries : AddTask(e)
  BY <1>1, AddKeepsQueueInv
<1>2. CASE WorkerReceive
  BY <1>2, ReceiveKeepsQueueInv DEF WorkerReceive, LifeInv
<1>3. CASE \E c \in Callers : StopSend(c)
  BY <1>3, WakeKeepsQueueInv DEF StopSend, LifeInv, CallsConsistent
<1>4. CASE \E c \in Callers : Delete(c)
  <2>1. (queue = <<>> /\ accepted = <<>> /\ ran = <<>>)'
    BY <1>4 DEF Delete
  <2> QED BY <2>1, EmptySeq DEF QueueInv, Waiting
<1>5. CASE \E c \in Callers : InitQueue(c)
  <2>1. (queue = <<>> /\ accepted = <<>> /\ ran = <<>>)'
    BY <1>5 DEF InitQueue, QueueInv
  <2> QED BY <2>1, EmptySeq DEF QueueInv, Waiting
<1>6. CASE UNCHANGED <<live, queue, accepted, ran>>
  BY <1>6 DEF QueueInv, Waiting
<1> QED BY <1>1, <1>2, <1>3, <1>4, <1>5, <1>6 DEF Next, vars, WorkerStep, CallStep, Call,
       WorkerCheck, WorkerEmpty, WorkerReturn, WorkerExit, WorkerSuspend, StartSet, StartRun,
       Resume, StopSet, WaitState, WaitSuspended, StartExisting, StartCreate, StopCall,
       DeinitCall

LEMMA QueueInvariant == ASSUME OneController PROVE Spec => []QueueInv
<1>1. Init => QueueInv
  BY EmptyQueueInv DEF Init
<1>2. TypeOK /\ LifeInv /\ QueueInv /\ [Next]_vars => QueueInv'
  BY NextQueueInv
<1> QED BY <1>1, <1>2, Typing, LifeInvariant, PTL DEF Spec

-----------------------------------------------------------------------------
(* The implementation of the FIFO promise                                  *)

LEMMA ServingSteps ==
  ASSUME TypeOK, LifeInv, [Next]_vars, Serving # Serving'
  PROVE  \/ /\ ~Serving /\ Serving'
            /\ \E c \in Callers : StartCreate(c) \/ Resume(c)
         \/ /\ Serving /\ ~Serving'
            /\ WorkerSuspend
<1>1. wpc # wpc'
  BY DEF Serving
<1>2. CASE WorkerStep
  BY <1>1, <1>2 DEF WorkerStep, WorkerCheck, WorkerReceive, WorkerEmpty, WorkerReturn,
     WorkerExit, WorkerSuspend, Serving
<1>3. CASE \E c \in Callers : Delete(c)
  BY <1>3, CallersFacts DEF Delete, Serving, LifeInv, WorkerOwned, WorkerCallsStop, CallsConsistent
<1>4. CASE \E c \in Callers : StartCreate(c) \/ Resume(c)
  BY <1>4 DEF StartCreate, Resume, Serving, HasTask
<1> QED BY <1>1, <1>2, <1>3, <1>4 DEF Next, vars, CallStep, Call, StartSet, StartRun,
       StopSet, StopSend, WaitState, WaitSuspended, InitQueue, StartExisting, StopCall,
       DeinitCall, AddTask

\* While there is no more than Size in the FreeRTOS queue, no more than Size
\* entries wait: wake entries only take room away.
LEMMA WaitingBound ==
  ASSUME TypeOK, QueueInv
  PROVE  Len(accepted) - Len(ran) <= Len(queue)
<1>1. CASE Len(ran) < Len(accepted)
  <2>1. Len(ran) + 1 \in Waiting /\ Len(ran) + 1 \in DOMAIN accepted
    BY <1>1, SeqFacts DEF Waiting
  <2>2. PICK i \in DOMAIN queue : queue[i] = accepted[Len(ran) + 1]
    BY <2>1 DEF QueueInv
  <2>3. Len(accepted) - (Len(ran) + 1) <= Len(queue) - i
    BY <2>1, <2>2 DEF QueueInv
  <2> QED BY <2>2, <2>3, SeqFacts
<1>2. CASE ~(Len(ran) < Len(accepted))
  BY <1>2, SeqFacts
<1> QED BY <1>1, <1>2

LEMMA StepRefines ==
  ASSUME TypeOK, LifeInv, QueueInv, [Next]_vars
  PROVE  [Fifo!Next]_(Fifo!vars)
<1>1. CASE \E e \in Entries : AddTask(e)
  <2>1. PICK e \in Entries : AddTask(e)
    BY <1>1
  <2>2. Len(accepted) < Len(ran) + Size
    BY <2>1, WaitingBound, SeqFacts, WorkQueueAssumption DEF AddTask
  <2>3. Fifo!Accept(e)
    BY <2>1, <2>2 DEF AddTask, Fifo!Accept, Serving
  <2> QED BY <2>3 DEF Fifo!Next
<1>2. CASE WorkerReceive
  <2>1. CASE Head(queue) = Wake
    BY <1>2, <2>1 DEF WorkerReceive, Fifo!vars, Serving
  <2>2. CASE Head(queue) # Wake
    <3>1. Len(ran) < Len(accepted) /\ Head(queue) = accepted[Len(ran) + 1]
      BY <1>2, <2>2, HeadIsOldest DEF WorkerReceive
    <3>2. Fifo!RunNext
      BY <1>2, <2>2, <3>1 DEF WorkerReceive, Fifo!RunNext, Serving
    <3> QED BY <3>2 DEF Fifo!Next
  <2> QED BY <2>1, <2>2
<1>3. CASE \E c \in Callers : InitQueue(c)
  <2>1. Fifo!Open
    BY <1>3 DEF InitQueue, Fifo!Open, Serving
  <2> QED BY <2>1 DEF Fifo!Next
<1>4. CASE \E c \in Callers : Delete(c)
  <2>1. Fifo!Close
    BY <1>4, CallersFacts
       DEF Delete, Fifo!Close, Serving, LifeInv, WorkerOwned, WorkerCallsStop, CallsConsistent
  <2> QED BY <2>1 DEF Fifo!Next
<1>5. CASE UNCHANGED <<live, accepted, ran>>
  <2>1. CASE Serving = Serving'
    BY <1>5, <2>1 DEF Fifo!vars
  <2>2. CASE Serving # Serving'
    <3>1. CASE WorkerSuspend
      BY <1>5, <3>1 DEF WorkerSuspend, Fifo!Park, Fifo!Next, Serving
    <3>2. CASE ~Serving /\ Serving' /\ \E c \in Callers : StartCreate(c) \/ Resume(c)
      <4>1. live
        BY <3>2 DEF StartCreate, MayCall, Resume, LifeInv, CallsConsistent
      <4>2. Fifo!Serve
        BY <1>5, <3>2, <4>1 DEF Fifo!Serve, Serving
      <4> QED BY <4>2 DEF Fifo!Next
    <3> QED BY <2>2, <3>1, <3>2, ServingSteps
  <2> QED BY <2>1, <2>2
<1> QED BY <1>1, <1>2, <1>3, <1>4, <1>5 DEF Next, vars, WorkerStep, CallStep, Call,
       WorkerCheck, WorkerEmpty, WorkerReturn, WorkerExit, WorkerSuspend, StartSet, StartRun,
       Resume, StopSet, StopSend, WaitState, WaitSuspended, StartExisting, StartCreate,
       StopCall, DeinitCall

\* With one controlling task the work queue implements the FIFO queue: every
\* step is a step of WorkQueueFifo or changes nothing a user can see.
THEOREM ImplementsFifo == ASSUME OneController PROVE Spec => FifoSpec
<1>1. Init => Fifo!Init
  BY DEF Init, Fifo!Init, Serving
<1>2. TypeOK /\ LifeInv /\ QueueInv /\ [Next]_vars => [Fifo!Next]_(Fifo!vars)
  BY StepRefines
<1> QED BY <1>1, <1>2, Typing, LifeInvariant, QueueInvariant, PTL DEF Spec, FifoSpec, Fifo!Spec
=============================================================================
