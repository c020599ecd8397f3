--------------------------- MODULE MqttGlueLife ----------------------------
(***************************************************************************)
(* src/esp-mqtt/esp-mqtt-glue.c: the life of mqtt_data and of the client   *)
(* it owns.  Operations (subscribe, unsubscribe, publish, a retry round)   *)
(* use both outside s_glue_lock, between glue_begin_op and glue_end_op;    *)
(* deinit turns new ones away and waits for those inside before it frees.  *)
(*                                                                         *)
(* Each action is one critical section of s_glue_lock or one call into     *)
(* esp-mqtt.  Instances are numbered, so that one which was freed can be   *)
(* told from the one a later init made.                                    *)
(***************************************************************************)
EXTENDS Naturals, FiniteSets

CONSTANTS Ops,          \* threads that begin and end operations
          Mqtt,         \* the mqtt task: operations its callbacks make
          Initer,       \* the task that calls init
          Controllers,  \* the tasks that call deinit
          MaxInits      \* bound: instances made

ASSUME MqttGlueLifeAssumption == /\ IsFiniteSet(Ops)
                                 /\ Initer \in Controllers
                                 /\ MaxInits \in Nat

VARIABLES inst,        \* the instance mqtt_data points to, 0 for NULL
          made,        \* how many instances were made
          deleting,    \* mqtt_data->deleting
          busy,        \* mqtt_data->busy
          registered,  \* mqtt_event_handler is registered with the client
          clients,     \* the instances whose mqtt_client exists
          op,          \* op[o]: the instance o's operation entered, 0 outside
          handler,     \* the instance mqtt_event_handler is running for, or 0
          cpc          \* cpc[c]: where the call of controller c is

vars == <<inst, made, deleting, busy, registered, clients, op, handler, cpc>>

Inside == {o \in Ops : op[o] # 0}

Init == /\ inst = 0 /\ made = 0 /\ deleting = FALSE /\ busy = 0
        /\ registered = FALSE /\ clients = {}
        /\ op = [o \in Ops |-> 0]
        /\ handler = 0
        /\ cpc = [c \in Controllers |-> "idle"]

At(c, place) == cpc[c] = place
To(c, place) == cpc' = [cpc EXCEPT ![c] = place]

-----------------------------------------------------------------------------
(* Operations                                                              *)

\* Mutant of MayBegin: a teardown under way is not looked at.
MayBeginLate == inst # 0

MayBegin == inst # 0 /\ ~deleting

\* Mutant of BeginOp: the operation is not counted.
BeginOpUncounted(o) ==
    /\ op[o] = 0
    /\ o = Mqtt => handler # 0
    /\ MayBegin
    /\ op' = [op EXCEPT ![o] = inst]
    /\ UNCHANGED <<inst, made, deleting, busy, registered, clients, handler, cpc>>

\* Operations of the mqtt task are made by the callbacks of an event.
BeginOp(o) ==
    /\ op[o] = 0
    /\ o = Mqtt => handler # 0
    /\ MayBegin
    /\ busy' = busy + 1
    /\ op' = [op EXCEPT ![o] = inst]
    /\ UNCHANGED <<inst, made, deleting, registered, clients, handler, cpc>>

EndOp(o) ==
    /\ op[o] # 0
    /\ busy' = busy - 1
    /\ op' = [op EXCEPT ![o] = 0]
    /\ UNCHANGED <<inst, made, deleting, registered, clients, handler, cpc>>

-----------------------------------------------------------------------------
(* init and deinit                                                         *)

InitCall(c) ==
    /\ c = Initer
    /\ At(c, "idle")
    /\ inst = 0
    /\ made < MaxInits
    /\ To(c, "create")
    /\ UNCHANGED <<inst, made, deleting, busy, registered, clients, op, handler>>

\* The instance is published only once it has its client.
Publish(c) ==
    /\ At(c, "create")
    /\ made' = made + 1
    /\ inst' = made + 1
    /\ clients' = clients \cup {made + 1}
    /\ deleting' = FALSE
    /\ busy' = 0
    /\ To(c, "register")
    /\ UNCHANGED <<registered, op, handler>>

InitFails(c) ==
    /\ At(c, "create")
    /\ To(c, "idle")
    /\ UNCHANGED <<inst, made, deleting, busy, registered, clients, op, handler>>

Register(c) ==
    /\ At(c, "register")
    /\ registered' = TRUE
    /\ To(c, "idle")
    /\ UNCHANGED <<inst, made, deleting, busy, clients, op, handler>>

\* Mutant of MayDelete: a second teardown starts.
MayDeleteTwice == inst # 0

MayDelete == inst # 0 /\ ~deleting

\* Asked of the callers: deinit is not called before init has returned.
InitReturned == \A c \in Controllers : ~At(c, "register")

DeinitCall(c) ==
    /\ At(c, "idle")
    /\ InitReturned
    /\ MayDelete
    /\ deleting' = TRUE
    /\ To(c, "wait")
    /\ UNCHANGED <<inst, made, busy, registered, clients, op, handler>>

\* Mutant of WaitBusy: the client is left behind.
WaitBusyNoDestroy(c) ==
    /\ At(c, "wait")
    /\ busy = 0
    /\ To(c, "free")
    /\ UNCHANGED <<inst, made, deleting, busy, registered, clients, op, handler>>

WaitBusy(c) ==
    /\ At(c, "wait")
    /\ busy = 0
    /\ To(c, "destroy")
    /\ UNCHANGED <<inst, made, deleting, busy, registered, clients, op, handler>>

\* esp_mqtt_client_destroy ends the mqtt task between two events.
Destroy(c) ==
    /\ At(c, "destroy")
    /\ handler = 0
    /\ clients' = clients \ {inst}
    /\ registered' = FALSE
    /\ To(c, "free")
    /\ UNCHANGED <<inst, made, deleting, busy, op, handler>>

Free(c) ==
    /\ At(c, "free")
    /\ inst' = 0
    /\ deleting' = FALSE
    /\ busy' = 0
    /\ To(c, "idle")
    /\ UNCHANGED <<made, registered, clients, op, handler>>

-----------------------------------------------------------------------------
(* mqtt_event_handler, called by the mqtt task                             *)

Deliver ==
    /\ handler = 0
    /\ registered
    /\ \E g \in clients : handler' = g
    /\ UNCHANGED <<inst, made, deleting, busy, registered, clients, op, cpc>>

Delivered ==
    /\ handler # 0
    /\ Mqtt \notin Inside
    /\ handler' = 0
    /\ UNCHANGED <<inst, made, deleting, busy, registered, clients, op, cpc>>

-----------------------------------------------------------------------------
Call(c) == Publish(c) \/ InitFails(c) \/ Register(c) \/ WaitBusy(c) \/ Destroy(c) \/ Free(c)

Next == \/ \E o \in Ops : BeginOp(o) \/ EndOp(o)
        \/ \E c \in Controllers : InitCall(c) \/ DeinitCall(c) \/ Call(c)
        \/ Deliver
        \/ Delivered

(***************************************************************************)
(* Operations end, event handling ends, and a call that can go on does.    *)
(* Events may come without end, so a teardown waits for a gap between two  *)
(* (strong fairness of Destroy), which esp-mqtt makes when it is stopped.  *)
(***************************************************************************)
Fairness == /\ \A o \in Ops : WF_vars(EndOp(o))
            /\ WF_vars(Delivered)
            /\ \A c \in Controllers : SF_vars(Call(c))

Spec == Init /\ [][Next]_vars

FairSpec == Spec /\ Fairness

-----------------------------------------------------------------------------
(* Properties                                                              *)

\* The variables stay in their types; in particular busy never falls below 0.
TypeOK ==
    /\ inst \in Nat /\ made \in Nat
    /\ deleting \in BOOLEAN /\ registered \in BOOLEAN
    /\ busy \in Nat
    /\ clients \subseteq Nat \ {0}
    /\ op \in [Ops -> Nat]
    /\ handler \in Nat
    /\ cpc \in [Controllers -> {"idle", "create", "register", "wait", "destroy", "free"}]

\* Instance g is what mqtt_data points to, and its client exists.
Valid(g) == g = inst /\ g \in clients

(***************************************************************************)
(* "an operation that was let in always finds it valid": mqtt_data and the *)
(* client are those it entered with until it calls glue_end_op, whoever    *)
(* tears the glue down meanwhile.                                          *)
(***************************************************************************)
OpsFindItValid == \A o \in Inside : Valid(op[o])

(***************************************************************************)
(* The counter deinit waits for is the number of operations inside, across *)
(* teardowns and new instances: none leaves twice, or is counted for an    *)
(* instance it did not enter.                                              *)
(***************************************************************************)
BusyCounts == busy = Cardinality(Inside)

(***************************************************************************)
(* mqtt_event_handler, which enters no operation, never sees an instance   *)
(* that is being freed: destroying the client comes before the free.       *)
(***************************************************************************)
HandlerFindsItValid == handler # 0 => Valid(handler)

(***************************************************************************)
(* One teardown at a time: of several deinit calls one goes through, and   *)
(* it is the only call that destroys and frees.                            *)
(***************************************************************************)
TearingDown == {c \in Controllers : cpc[c] \in {"wait", "destroy", "free"}}

OneTeardown == \A c, d \in TearingDown : c = d

\* deinit returns: those that are inside leave, and nobody follows them.
DeinitReturns == \A c \in Controllers : At(c, "wait") ~> At(c, "idle")
=============================================================================
