------------------------ MODULE MqttGlueLifeProofs -------------------------
(***************************************************************************)
(* Theorems of MqttGlueLife for every number of operations, of controlling *)
(* tasks and of instances.                                                 *)
(***************************************************************************)
EXTENDS MqttGlueLife, FiniteSetTheorems, TLAPS

ClientPlace == {"create", "register"}

\* What holds while a call of init is under way.
InitPart ==
    /\ \A c \in Controllers : cpc[c] \in ClientPlace => c = Initer
    /\ \A c \in Controllers : At(c, "create") => inst = 0
    /\ \A c \in Controllers : At(c, "register") => inst # 0 /\ ~deleting

\* What holds while a call of deinit is under way.
TeardownPart ==
    /\ deleting => inst # 0
    /\ \A c \in TearingDown : deleting
    /\ \A c \in TearingDown : cpc[c] \in {"destroy", "free"} => Inside = {}
    /\ \A c \in TearingDown : At(c, "free") => handler = 0 /\ ~registered /\ clients = {}

\* The client of the instance exists until a deinit has destroyed it.
ClientPart ==
    /\ inst <= made
    /\ clients \subseteq {inst}
    /\ inst # 0 => inst \in clients \/ \E c \in TearingDown : At(c, "free")

IInv == /\ TypeOK
        /\ BusyCounts
        /\ OpsFindItValid
        /\ HandlerFindsItValid
        /\ OneTeardown
        /\ InitPart
        /\ TeardownPart
        /\ ClientPart

LEMMA InsideFinite == IsFiniteSet(Inside)
<1>1. Inside \subseteq Ops
  BY DEF Inside
<1> QED BY <1>1, MqttGlueLifeAssumption, FS_Subset

-----------------------------------------------------------------------------
(* One lemma per action, or per group of actions that touch the same part. *)

\* An operation that is let in is counted, and what it enters is valid.
LEMMA BeginOpStep ==
  ASSUME IInv, NEW o \in Ops, BeginOp(o)
  PROVE  IInv'
<1> USE DEF IInv, BeginOp, MayBegin
<1>1. Inside' = Inside \cup {o} /\ o \notin Inside
  BY DEF Inside, TypeOK
<1>2. busy' = busy + 1 /\ busy \in Nat
  BY DEF TypeOK
<1>3. BusyCounts'
  BY <1>1, <1>2, InsideFinite, FS_AddElement DEF BusyCounts
<1>4. TypeOK'
  BY <1>2 DEF TypeOK
<1>5. TearingDown' = TearingDown /\ TearingDown = {}
  BY DEF TearingDown, TeardownPart
<1>6. inst \in clients
  BY <1>5 DEF ClientPart
<1>7. OpsFindItValid'
  BY <1>1, <1>6 DEF OpsFindItValid, Valid, Inside, TypeOK
<1>8. HandlerFindsItValid' /\ OneTeardown'
  BY <1>5 DEF HandlerFindsItValid, Valid, OneTeardown
<1>9. InitPart' /\ TeardownPart' /\ ClientPart'
  BY <1>5 DEF InitPart, TeardownPart, ClientPart, At
<1> QED BY <1>3, <1>4, <1>7, <1>8, <1>9

\* An operation that leaves is counted once, so that busy stays a number.
LEMMA EndOpStep ==
  ASSUME IInv, NEW o \in Ops, EndOp(o)
  PROVE  IInv'
<1> USE DEF IInv, EndOp
<1>1. Inside' = Inside \ {o} /\ o \in Inside
  BY DEF Inside, TypeOK
<1>2. Cardinality(Inside') = Cardinality(Inside) - 1 /\ Cardinality(Inside') \in Nat
  <2>1. IsFiniteSet(Inside')
    BY <1>1, InsideFinite, FS_RemoveElement
  <2> QED BY <1>1, <2>1, InsideFinite, FS_RemoveElement, FS_CardinalityType
<1>3. BusyCounts' /\ busy' \in Nat
  BY <1>2 DEF BusyCounts
<1>4. TypeOK'
  BY <1>3 DEF TypeOK
<1>5. TearingDown' = TearingDown
  BY DEF TearingDown
<1>6. OpsFindItValid' /\ HandlerFindsItValid' /\ OneTeardown'
  BY <1>1, <1>5 DEF OpsFindItValid, HandlerFindsItValid, Valid, OneTeardown, Inside, TypeOK
<1>7. InitPart' /\ TeardownPart' /\ ClientPart'
  BY <1>1, <1>5 DEF InitPart, TeardownPart, ClientPart, At
<1> QED BY <1>3, <1>4, <1>6, <1>7

\* The counter at zero means that no operation is inside.
LEMMA ZeroMeansNobody ==
  ASSUME BusyCounts, busy = 0
  PROVE  Inside = {}
  BY InsideFinite, FS_EmptySet DEF BusyCounts

\* No instance, no operation inside and no event being handled.
LEMMA NoInstanceNobody ==
  ASSUME IInv, inst = 0
  PROVE  Inside = {} /\ handler = 0 /\ busy = 0 /\ clients = {}
<1>1. 0 \notin clients
  BY DEF IInv, TypeOK
<1>2. Inside = {}
  BY <1>1 DEF IInv, OpsFindItValid, Valid, Inside
<1>3. handler = 0
  BY <1>1 DEF IInv, HandlerFindsItValid, Valid
<1>4. busy = 0
  BY <1>2, FS_EmptySet DEF IInv, BusyCounts
<1>5. clients = {}
  BY <1>1 DEF IInv, ClientPart
<1> QED BY <1>2, <1>3, <1>4, <1>5

LEMMA EventStep ==
  ASSUME IInv, Deliver \/ Delivered
  PROVE  IInv'
<1>1. Inside' = Inside /\ TearingDown' = TearingDown /\ UNCHANGED <<inst, made, deleting, busy, registered, clients, op, cpc>>
  BY DEF Deliver, Delivered, Inside, TearingDown
<1>2. CASE Deliver
  <2>1. handler' \in clients /\ registered
    BY <1>2 DEF Deliver
  <2>2. handler' = inst /\ handler' \in Nat
    BY <2>1 DEF IInv, ClientPart, TypeOK
  <2>3. \A c \in TearingDown : ~At(c, "free")
    BY <2>1 DEF IInv, TeardownPart
  <2>4. TypeOK' /\ BusyCounts' /\ OpsFindItValid' /\ HandlerFindsItValid' /\ OneTeardown'
    BY <1>1, <2>1, <2>2 DEF IInv, TypeOK, BusyCounts, OpsFindItValid, HandlerFindsItValid,
       Valid, OneTeardown
  <2>5. InitPart' /\ TeardownPart' /\ ClientPart'
    BY <1>1, <2>3 DEF IInv, InitPart, TeardownPart, ClientPart, At
  <2> QED BY <2>4, <2>5 DEF IInv
<1>3. CASE Delivered
  <2>1. handler' = 0
    BY <1>3 DEF Delivered
  <2>2. TypeOK' /\ BusyCounts' /\ OpsFindItValid' /\ HandlerFindsItValid' /\ OneTeardown'
    BY <1>1, <2>1 DEF IInv, TypeOK, BusyCounts, OpsFindItValid, HandlerFindsItValid,
       Valid, OneTeardown
  <2>3. InitPart' /\ TeardownPart' /\ ClientPart'
    BY <1>1, <2>1 DEF IInv, InitPart, TeardownPart, ClientPart, At
  <2> QED BY <2>2, <2>3 DEF IInv
<1> QED BY <1>2, <1>3

-----------------------------------------------------------------------------
LEMMA InitCallStep ==
  ASSUME IInv, NEW c \in Controllers, InitCall(c)
  PROVE  IInv'
<1>1. /\ Inside' = Inside /\ TearingDown' = TearingDown /\ TearingDown = {}
      /\ UNCHANGED <<inst, made, deleting, busy, registered, clients, op, handler>>
  BY DEF InitCall, At, To, Inside, TearingDown, IInv, TypeOK, TeardownPart
<1>2. TypeOK'
  BY DEF InitCall, To, IInv, TypeOK
<1>3. BusyCounts' /\ OpsFindItValid' /\ HandlerFindsItValid' /\ OneTeardown'
  BY <1>1 DEF IInv, BusyCounts, OpsFindItValid, HandlerFindsItValid, Valid, OneTeardown
<1>4. InitPart'
  BY DEF InitCall, To, At, IInv, TypeOK, InitPart, ClientPlace
<1>5. TeardownPart' /\ ClientPart'
  BY <1>1 DEF IInv, TeardownPart, ClientPart, At
<1> QED BY <1>2, <1>3, <1>4, <1>5 DEF IInv

LEMMA InitFailsStep ==
  ASSUME IInv, NEW c \in Controllers, InitFails(c)
  PROVE  IInv'
<1>1. /\ Inside' = Inside /\ TearingDown' = TearingDown
      /\ UNCHANGED <<inst, made, deleting, busy, registered, clients, op, handler>>
  BY DEF InitFails, At, To, Inside, TearingDown, IInv, TypeOK
<1>2. TypeOK'
  BY DEF InitFails, To, IInv, TypeOK
<1>3. BusyCounts' /\ OpsFindItValid' /\ HandlerFindsItValid' /\ OneTeardown'
  BY <1>1 DEF IInv, BusyCounts, OpsFindItValid, HandlerFindsItValid, Valid, OneTeardown
<1>4. InitPart'
  BY DEF InitFails, To, At, IInv, TypeOK, InitPart, ClientPlace
<1>5. TeardownPart' /\ ClientPart'
  BY <1>1 DEF InitFails, To, At, IInv, TypeOK, TeardownPart, ClientPart, TearingDown
<1> QED BY <1>2, <1>3, <1>4, <1>5 DEF IInv

\* A new instance starts with nobody inside: there was none before it.
LEMMA PublishStep ==
  ASSUME IInv, NEW c \in Controllers, Publish(c)
  PROVE  IInv'
<1>1. inst = 0 /\ Inside = {} /\ handler = 0 /\ busy = 0 /\ clients = {}
  BY NoInstanceNobody DEF Publish, IInv, InitPart
<1>2. TearingDown = {} /\ TearingDown' = {} /\ Inside' = {}
  BY <1>1 DEF Publish, At, To, Inside, TearingDown, IInv, TypeOK, TeardownPart
<1>3. inst' = made + 1 /\ made' = made + 1 /\ clients' = {made + 1} /\ made \in Nat
  BY <1>1 DEF Publish, IInv, TypeOK
<1>4. TypeOK'
  <2>1. made + 1 \in Nat /\ made + 1 # 0
    BY <1>3
  <2>2. clients' \subseteq Nat \ {0}
    BY <1>3, <2>1
  <2> QED BY <1>3, <2>1, <2>2 DEF Publish, To, IInv, TypeOK
<1>5. BusyCounts'
  BY <1>2, FS_EmptySet DEF Publish, BusyCounts
<1>6. OpsFindItValid' /\ HandlerFindsItValid' /\ OneTeardown'
  BY <1>1, <1>2 DEF Publish, OpsFindItValid, HandlerFindsItValid, OneTeardown
<1>7. InitPart'
  BY <1>3 DEF Publish, To, At, IInv, TypeOK, InitPart, ClientPlace
<1>8. TeardownPart' /\ ClientPart'
  BY <1>2, <1>3 DEF Publish, TeardownPart, ClientPart
<1> QED BY <1>4, <1>5, <1>6, <1>7, <1>8 DEF IInv

LEMMA RegisterStep ==
  ASSUME IInv, NEW c \in Controllers, Register(c)
  PROVE  IInv'
<1>1. /\ Inside' = Inside /\ TearingDown' = TearingDown /\ TearingDown = {}
      /\ UNCHANGED <<inst, made, deleting, busy, clients, op, handler>>
  BY DEF Register, At, To, Inside, TearingDown, IInv, TypeOK, TeardownPart, InitPart
<1>2. TypeOK'
  BY DEF Register, To, IInv, TypeOK
<1>3. BusyCounts' /\ OpsFindItValid' /\ HandlerFindsItValid' /\ OneTeardown'
  BY <1>1 DEF IInv, BusyCounts, OpsFindItValid, HandlerFindsItValid, Valid, OneTeardown
<1>4. InitPart'
  BY <1>1 DEF Register, To, At, IInv, TypeOK, InitPart, ClientPlace
<1>5. TeardownPart' /\ ClientPart'
  BY <1>1 DEF IInv, TeardownPart, ClientPart, At
<1> QED BY <1>2, <1>3, <1>4, <1>5 DEF IInv

-----------------------------------------------------------------------------
\* A teardown starts only when none is under way.
LEMMA DeinitCallStep ==
  ASSUME IInv, NEW c \in Controllers, DeinitCall(c)
  PROVE  IInv'
<1>1. TearingDown = {} /\ TearingDown' = {c} /\ cpc'[c] = "wait"
  BY DEF DeinitCall, MayDelete, To, At, TearingDown, IInv, TypeOK, TeardownPart
<1>2. inst # 0 /\ Inside' = Inside /\ deleting' = TRUE
      /\ UNCHANGED <<inst, made, busy, registered, clients, op, handler>>
  BY DEF DeinitCall, MayDelete, Inside
<1>3. TypeOK'
  BY DEF DeinitCall, To, IInv, TypeOK
<1>4. BusyCounts' /\ OpsFindItValid' /\ HandlerFindsItValid' /\ OneTeardown'
  BY <1>1, <1>2 DEF IInv, BusyCounts, OpsFindItValid, HandlerFindsItValid, Valid, OneTeardown
<1>5. InitPart'
  BY <1>2 DEF DeinitCall, InitReturned, To, At, IInv, TypeOK, InitPart, ClientPlace
<1>6. TeardownPart' /\ ClientPart'
  BY <1>1, <1>2 DEF IInv, TeardownPart, ClientPart, At
<1> QED BY <1>3, <1>4, <1>5, <1>6 DEF IInv

\* The wait ends with nobody inside, and the flag keeps everybody out.
LEMMA WaitBusyStep ==
  ASSUME IInv, NEW c \in Controllers, WaitBusy(c)
  PROVE  IInv'
<1>1. Inside = {}
  BY ZeroMeansNobody DEF WaitBusy, IInv
<1>2. c \in TearingDown /\ TearingDown' = TearingDown /\ Inside' = Inside
      /\ cpc'[c] = "destroy"
      /\ UNCHANGED <<inst, made, deleting, busy, registered, clients, op, handler>>
  BY DEF WaitBusy, To, At, TearingDown, Inside, IInv, TypeOK
<1>3. TearingDown = {c}
  BY <1>2 DEF IInv, OneTeardown, TearingDown
<1>4. TypeOK'
  BY DEF WaitBusy, To, IInv, TypeOK
<1>5. BusyCounts' /\ OpsFindItValid' /\ HandlerFindsItValid' /\ OneTeardown'
  BY <1>2 DEF IInv, BusyCounts, OpsFindItValid, HandlerFindsItValid, Valid, OneTeardown
<1>6. InitPart'
  BY <1>2 DEF WaitBusy, To, At, IInv, TypeOK, InitPart, ClientPlace
<1>7. TeardownPart'
  BY <1>1, <1>2, <1>3 DEF IInv, TeardownPart, At
<1>8. ClientPart'
  BY <1>2, <1>3 DEF WaitBusy, At, IInv, ClientPart
<1> QED BY <1>4, <1>5, <1>6, <1>7, <1>8 DEF IInv

\* The client goes between two events and with no operation inside.
LEMMA DestroyStep ==
  ASSUME IInv, NEW c \in Controllers, Destroy(c)
  PROVE  IInv'
<1>1. c \in TearingDown /\ TearingDown' = TearingDown /\ Inside' = Inside
      /\ cpc'[c] = "free" /\ handler = 0 /\ ~registered'
      /\ clients' = clients \ {inst}
      /\ UNCHANGED <<inst, made, deleting, busy, op, handler>>
  BY DEF Destroy, To, At, TearingDown, Inside, IInv, TypeOK
<1>2. TearingDown = {c} /\ Inside = {}
  BY <1>1 DEF IInv, OneTeardown, TearingDown, TeardownPart, Destroy, At
<1>3. TypeOK'
  BY <1>1 DEF Destroy, To, IInv, TypeOK
<1>4. BusyCounts' /\ OpsFindItValid' /\ HandlerFindsItValid' /\ OneTeardown'
  BY <1>1, <1>2 DEF IInv, BusyCounts, OpsFindItValid, HandlerFindsItValid, OneTeardown
<1>5. InitPart'
  BY <1>1 DEF Destroy, To, At, IInv, TypeOK, InitPart, ClientPlace
<1>6. clients' = {}
  BY <1>1 DEF IInv, ClientPart
<1>7. TeardownPart' /\ ClientPart'
  BY <1>1, <1>2, <1>6 DEF IInv, TeardownPart, ClientPart, At
<1> QED BY <1>3, <1>4, <1>5, <1>6, <1>7 DEF IInv

LEMMA FreeStep ==
  ASSUME IInv, NEW c \in Controllers, Free(c)
  PROVE  IInv'
<1>1. c \in TearingDown /\ Inside' = Inside /\ handler = 0 /\ ~registered /\ Inside = {}
      /\ inst' = 0 /\ deleting' = FALSE /\ busy' = 0
      /\ UNCHANGED <<made, registered, clients, op, handler>>
  BY DEF Free, To, At, TearingDown, Inside, IInv, TypeOK, TeardownPart
<1>2. TearingDown' = {}
  BY <1>1 DEF IInv, OneTeardown, TearingDown, Free, To, At, TypeOK
<1>3. clients = {}
  BY <1>1 DEF IInv, TeardownPart, Free
<1>4. TypeOK'
  BY <1>1 DEF Free, To, IInv, TypeOK
<1>5. BusyCounts'
  BY <1>1, FS_EmptySet DEF BusyCounts
<1>6. OpsFindItValid' /\ HandlerFindsItValid' /\ OneTeardown'
  BY <1>1, <1>2 DEF OpsFindItValid, HandlerFindsItValid, OneTeardown
<1>7. InitPart'
  <2>1. deleting
    BY <1>1 DEF IInv, TeardownPart
  <2> QED BY <1>1, <2>1 DEF Free, To, At, IInv, TypeOK, InitPart, ClientPlace
<1>8. TeardownPart'
  BY <1>1, <1>2 DEF TeardownPart
<1>9. ClientPart'
  <2>1. made' \in Nat /\ clients' = {} /\ inst' = 0
    BY <1>1, <1>3 DEF IInv, TypeOK
  <2> QED BY <2>1 DEF ClientPart
<1> QED BY <1>4, <1>5, <1>6, <1>7, <1>8, <1>9 DEF IInv

-----------------------------------------------------------------------------
LEMMA InitHolds == Init => IInv
<1> SUFFICES ASSUME Init PROVE IInv
  OBVIOUS
<1>1. Inside = {} /\ TearingDown = {}
  BY DEF Init, Inside, TearingDown
<1>2. TypeOK
  BY DEF Init, TypeOK
<1>3. BusyCounts
  BY <1>1, FS_EmptySet DEF Init, BusyCounts
<1>4. OpsFindItValid /\ HandlerFindsItValid /\ OneTeardown
  BY <1>1 DEF Init, OpsFindItValid, HandlerFindsItValid, OneTeardown
<1>5. InitPart /\ TeardownPart /\ ClientPart
  BY <1>1 DEF Init, InitPart, TeardownPart, ClientPart, ClientPlace, At
<1> QED BY <1>2, <1>3, <1>4, <1>5 DEF IInv

LEMMA Stutter ==
  ASSUME IInv, UNCHANGED vars
  PROVE  IInv'
<1>1. Inside' = Inside /\ TearingDown' = TearingDown
  BY DEF vars, Inside, TearingDown
<1>2. TypeOK' /\ BusyCounts' /\ OpsFindItValid' /\ HandlerFindsItValid' /\ OneTeardown'
  BY <1>1 DEF vars, IInv, TypeOK, BusyCounts, OpsFindItValid, HandlerFindsItValid, Valid,
     OneTeardown
<1>3. InitPart' /\ TeardownPart' /\ ClientPart'
  BY <1>1 DEF vars, IInv, InitPart, TeardownPart, ClientPart, At
<1> QED BY <1>2, <1>3 DEF IInv

\* The inductive invariant: what an operation relies on, and why.
LEMMA Inductive == Spec => []IInv
<1>1. Init => IInv
  BY InitHolds
<1>2. IInv /\ [Next]_vars => IInv'
  <2> SUFFICES ASSUME IInv, [Next]_vars PROVE IInv'
    OBVIOUS
  <2>1. CASE \E o \in Ops : BeginOp(o) \/ EndOp(o)
    BY <2>1, BeginOpStep, EndOpStep
  <2>2. CASE \E c \in Controllers : InitCall(c) \/ DeinitCall(c) \/ Call(c)
    <3> SUFFICES ASSUME NEW c \in Controllers, InitCall(c) \/ DeinitCall(c) \/ Call(c)
                 PROVE  IInv'
      BY <2>2
    <3>1. CASE InitCall(c) \/ InitFails(c) \/ Publish(c) \/ Register(c)
      BY <3>1, InitCallStep, InitFailsStep, PublishStep, RegisterStep
    <3>2. CASE DeinitCall(c) \/ WaitBusy(c) \/ Destroy(c) \/ Free(c)
      BY <3>2, DeinitCallStep, WaitBusyStep, DestroyStep, FreeStep
    <3> QED BY <3>1, <3>2 DEF Call
  <2>3. CASE Deliver \/ Delivered
    BY <2>3, EventStep
  <2>4. CASE UNCHANGED vars
    BY <2>4, Stutter
  <2> QED BY <2>1, <2>2, <2>3, <2>4 DEF Next
<1> QED BY <1>1, <1>2, PTL DEF Spec

-----------------------------------------------------------------------------
\* The variables stay in their types: the counter deinit polls never wraps
\* below 0, whatever operations and teardowns interleave.
THEOREM Typing == Spec => []TypeOK
<1>1. IInv => TypeOK
  BY DEF IInv
<1> QED BY <1>1, Inductive, PTL

\* The counter deinit polls is the number of operations inside.
THEOREM Counting == Spec => []BusyCounts
<1>1. IInv => BusyCounts
  BY DEF IInv
<1> QED BY <1>1, Inductive, PTL

\* No operation ever uses a freed mqtt_data or a destroyed client.
THEOREM OpsAlwaysValid == Spec => []OpsFindItValid
<1>1. IInv => OpsFindItValid
  BY DEF IInv
<1> QED BY <1>1, Inductive, PTL

\* The event handler never runs for an instance that is gone.
THEOREM HandlerAlwaysValid == Spec => []HandlerFindsItValid
<1>1. IInv => HandlerFindsItValid
  BY DEF IInv
<1> QED BY <1>1, Inductive, PTL

\* However many tasks call deinit, one of them tears down.
THEOREM TeardownIsAlone == Spec => []OneTeardown
<1>1. IInv => OneTeardown
  BY DEF IInv
<1> QED BY <1>1, Inductive, PTL
=============================================================================
