-------------------------- MODULE MqttSessionProofs --------------------------
(***************************************************************************)
(* What MqttSession promises, for any messages in any numbers of parts.    *)
(***************************************************************************)
EXTENDS MqttSession, TLAPS

\* A message has parts, and NoMessage is none.
SomeParts == NoMessage \notin Messages /\ Parts \in [Messages -> Nat \ {0}]

-----------------------------------------------------------------------------
(* The flags                                                               *)

Clients == {"none", "stopped", "waiting", "connecting", "up"}
Events == {"before_connect", "connected", "disconnected", "other"}
Marks == {"disconnect_mark", "update_mark"}

\* An event goes with the state the client was put in, a call that is to mark
\* the connection as gone with a client that is stopped.
FlagsInv ==
    /\ client \in Clients
    /\ event = NoEvent \/ event \in Events \X {"enter", "act"}
    /\ connected \in BOOLEAN /\ connecting \in BOOLEAN
    /\ event[1] = "before_connect" => client = "connecting" /\ ~connected
    /\ event[1] = "connected" => client = "up"
    /\ event[1] = "disconnected" => client = "waiting"
    /\ event[1] = "other" => client = "up" /\ connected
    /\ event[2] = "act" /\ event[1] # "before_connect" => ~connecting
    /\ call \in Marks => client = "stopped" /\ event = NoEvent
    /\ FlagsFollowClient

\* The calls of the controlling task: only a client that esp-mqtt could stop
\* has its flags cleared.
LEMMA ControlFlags ==
  ASSUME FlagsInv,
         \/ InitGlue \/ Deinit \/ Connect \/ UpdateStart
         \/ \E name \in {"disconnect", "update"} : Call(name) \/ Stop(name) \/ Mark(name)
  PROVE  FlagsInv'
  <1> USE DEF FlagsInv, FlagsFollowClient, PublishDropped, NoEvent, Clients, Marks, flags
  <1>1. CASE InitGlue
    BY <1>1 DEF InitGlue
  <1>2. CASE Deinit
    BY <1>2 DEF Deinit, CanStop
  <1>3. CASE Connect
    BY <1>3 DEF Connect, Start
  <1>4. CASE UpdateStart
    BY <1>4 DEF UpdateStart, Start
  <1>5. ASSUME NEW name \in {"disconnect", "update"}, Call(name) \/ Stop(name) \/ Mark(name)
        PROVE  FlagsInv'
    <2>1. CASE Call(name)
      BY <1>5, <2>1 DEF Call
    <2>2. CASE Stop(name)
      BY <1>5, <2>2 DEF Stop, CanStop, AfterStop
    <2>3. CASE Mark(name)
      BY <1>5, <2>3 DEF Mark, MarkDisconnected
    <2> QED
      BY <1>5, <2>1, <2>2, <2>3
  <1> QED
    BY <1>1, <1>2, <1>3, <1>4, <1>5

\* The mqtt task: an event begins with its client's new state and ends with the
\* flags that belong to it.
LEMMA EventFlags ==
  ASSUME FlagsInv,
         BeforeConnect \/ Connected \/ Disconnected \/ OtherEvent \/ Enter \/ Act
  PROVE  FlagsInv'
  <1> USE DEF FlagsInv, FlagsFollowClient, PublishDropped, NoEvent, Clients, Marks, Events, flags
  <1>1. CASE BeforeConnect
    BY <1>1 DEF BeforeConnect, Dispatch
  <1>2. CASE Connected
    BY <1>2 DEF Connected, Dispatch
  <1>3. CASE Disconnected
    BY <1>3 DEF Disconnected, Dispatch
  <1>4. CASE OtherEvent
    BY <1>4 DEF OtherEvent, Dispatch
  <1>5. CASE Enter
    <2>1. event' = <<event[1], "act">> /\ event[1] \in {"before_connect", "connected", "disconnected", "other"}
      BY <1>5 DEF Enter
    <2>2. connecting' = (connecting /\ event[1] = "before_connect") /\ connecting' \in BOOLEAN
      BY <1>5 DEF Enter
    <2>3. event[1] # "before_connect" => ~connecting'
      BY <2>2
    <2> QED
      BY <1>5, <2>1, <2>2, <2>3 DEF Enter
  <1>6. CASE Act
    BY <1>6 DEF Act, MarkDisconnected
  <1> QED
    BY <1>1, <1>2, <1>3, <1>4, <1>5, <1>6

\* Between events and calls, the flag of the connection says that it is up, and
\* publishes are dropped only during a connect, through any calls and reconnects.
THEOREM FlagsAlwaysFollow == Spec => []FlagsFollowClient
<1>1. Init => FlagsInv
  <2> SUFFICES ASSUME Init PROVE FlagsInv
    OBVIOUS
  <2>1. client = "none" /\ event = <<"none", "none">> /\ call = "none" /\ ~connected /\ ~connecting
    BY DEF Init, NoEvent
  <2>2. connected \in BOOLEAN /\ connecting \in BOOLEAN
    BY DEF Init
  <2> QED
    BY <2>1, <2>2 DEF FlagsInv, FlagsFollowClient, PublishDropped, NoEvent, Clients, Marks
<1>2. FlagsInv /\ [Next]_vars => FlagsInv'
  <2> SUFFICES ASSUME FlagsInv, [Next]_vars PROVE FlagsInv'
    OBVIOUS
  <2>1. ASSUME NEW m \in Messages, Data(m) PROVE FlagsInv'
    BY <2>1 DEF Data, FlagsInv, FlagsFollowClient, PublishDropped, flags
  <2>2. CASE UNCHANGED vars
    BY <2>2 DEF vars, flags, FlagsInv, FlagsFollowClient, PublishDropped
  <2> QED
    BY <2>1, <2>2, ControlFlags, EventFlags DEF Next
<1>3. FlagsInv => FlagsFollowClient
  BY DEF FlagsInv
<1> QED
  BY <1>1, <1>2, <1>3, PTL DEF Spec

-----------------------------------------------------------------------------
(* The messages                                                            *)

\* What stands in the memory of a message: parts, or zeros.
Pieces == {Part(m, i) : m \in Messages \cup {NoMessage}, i \in Nat}

\* The first k parts of m are in their places.
Filled(m, k) == /\ long \in [topic : {m}, data : [1..Parts[m] -> Pieces]]
                /\ \A i \in 1..k : long.data[i] = Part(m, i)

\* What is kept of a message that has come in part is its beginning, or nothing.
\* What is kept between messages may be anything.
MessageInv ==
    /\ arriving # NoArrival =>
          \E m \in Messages : \E k \in 1..(Parts[m] - 1) :
              /\ arriving = [message |-> m, parts |-> k]
              /\ long = NoLong \/ Filled(m, k)
    /\ DeliveredWhole

\* A first part is kept in memory of its own, whatever was left before.
LEMMA FirstPart ==
  ASSUME SomeParts, MessageInv, NEW m \in Messages, Data(m), arriving = NoArrival
  PROVE  MessageInv'
  <1>1. Parts[m] \in Nat /\ Parts[m] > 0
    BY DEF SomeParts
  <1>2. CASE Parts[m] = 1
    <2>1. arriving' = NoArrival /\ delivered' = [topic |-> m, data |-> <<Part(m, 1)>>]
      BY <1>2 DEF Data
    <2>2. <<Part(m, 1)>> = [i \in 1..Parts[m] |-> Part(m, i)]
      BY <1>2
    <2> QED
      BY <2>1, <2>2 DEF MessageInv, DeliveredWhole
  <1>3. CASE Parts[m] # 1
    <2>1. /\ arriving' = [message |-> m, parts |-> 1] /\ 1 \in 1..(Parts[m] - 1)
          /\ LongData(m, 1)
      BY <1>1, <1>3 DEF Data
    <2>2. Kept(m, 1) = [topic |-> m, data |-> Zeroed(m)] /\ Kept(m, 1) # NoLong
      BY DEF Kept, NoLong, SomeParts
    <2>3. delivered' = delivered /\ (long' = NoLong \/ long' = [Kept(m, 1) EXCEPT !.data[1] = Part(m, 1)])
      BY <2>1, <2>2, <1>3 DEF LongData
    <2>4. ASSUME long' = [Kept(m, 1) EXCEPT !.data[1] = Part(m, 1)]
          PROVE  Filled(m, 1)'
      <3>1. long' = [topic |-> m, data |-> [Zeroed(m) EXCEPT ![1] = Part(m, 1)]]
        BY <2>2, <2>4
      <3>2. Zeroed(m) \in [1..Parts[m] -> Pieces]
        BY DEF Zeroed, Pieces, Part
      <3>3. Part(m, 1) \in Pieces /\ 1 \in 1..Parts[m]
        BY <1>1 DEF Pieces
      <3>4. /\ [Zeroed(m) EXCEPT ![1] = Part(m, 1)] \in [1..Parts[m] -> Pieces]
            /\ [Zeroed(m) EXCEPT ![1] = Part(m, 1)][1] = Part(m, 1)
        BY <3>2, <3>3
      <3>5. long' \in [topic : {m}, data : [1..Parts[m] -> Pieces]] /\ long'.data[1] = Part(m, 1)
        BY <3>1, <3>4
      <3> QED
        BY <3>5 DEF Filled
    <2> QED
      BY <2>1, <2>3, <2>4 DEF MessageInv, DeliveredWhole
  <1> QED
    BY <1>2, <1>3

\* A later part goes to its place, and the last has the whole delivered.
LEMMA LaterPart ==
  ASSUME SomeParts, MessageInv, NEW m \in Messages, Data(m), arriving # NoArrival
  PROVE  MessageInv'
  <1>1. PICK k \in 1..(Parts[m] - 1) : /\ arriving = [message |-> m, parts |-> k]
                                       /\ long = NoLong \/ Filled(m, k)
    BY DEF MessageInv, Data
  <1>2. Parts[m] \in Nat /\ Parts[m] > 1 /\ k + 1 \in 2..Parts[m]
    BY <1>1 DEF SomeParts
  <1>3. /\ arriving' = IF k + 1 = Parts[m] THEN NoArrival ELSE [message |-> m, parts |-> k + 1]
        /\ LongData(m, k + 1) /\ Kept(m, k + 1) = long
    BY <1>1, <1>2 DEF Data, Kept
  <1>4. CASE long = NoLong
    <2>1. long' = NoLong /\ delivered' = delivered
      BY <1>2, <1>3, <1>4 DEF LongData
    <2>2. k + 1 # Parts[m] => k + 1 \in 1..(Parts[m] - 1)
      BY <1>2
    <2>3. DeliveredWhole'
      BY <2>1 DEF MessageInv, DeliveredWhole
    <2>4. \/ arriving' = NoArrival
          \/ arriving' = [message |-> m, parts |-> k + 1] /\ k + 1 \in 1..(Parts[m] - 1)
      BY <2>2, <1>3
    <2> QED
      BY <2>1, <2>3, <2>4 DEF MessageInv
  <1>5. CASE long # NoLong
    <2> DEFINE filled == [topic |-> m, data |-> [long.data EXCEPT ![k + 1] = Part(m, k + 1)]]
    <2>1. Filled(m, k)
      BY <1>1, <1>5
    <2>2. [long EXCEPT !.data[k + 1] = Part(m, k + 1)] = filled
      <3>1. long = [topic |-> m, data |-> long.data]
        BY <2>1 DEF Filled
      <3> QED
        BY <3>1
    <2>3. IF k + 1 = Parts[m] THEN long' = NoLong /\ delivered' = filled
          ELSE long' = filled /\ delivered' = delivered
      BY <1>2, <1>3, <1>5, <2>2 DEF LongData
    <2>4. /\ filled.data \in [1..Parts[m] -> Pieces]
          /\ \A i \in 1..(k + 1) : filled.data[i] = Part(m, i)
      <3>1. Part(m, k + 1) \in Pieces /\ k + 1 \in 1..Parts[m]
        BY <1>2 DEF Pieces
      <3>2. long.data \in [1..Parts[m] -> Pieces] /\ \A i \in 1..k : long.data[i] = Part(m, i)
        BY <2>1 DEF Filled
      <3> QED
        BY <1>2, <3>1, <3>2
    <2>5. CASE k + 1 = Parts[m]
      <3>1. filled.data = [i \in 1..Parts[m] |-> Part(m, i)]
        BY <2>4, <2>5
      <3> QED
        BY <3>1, <1>3, <2>3, <2>5 DEF MessageInv, DeliveredWhole
    <2>6. CASE k + 1 # Parts[m]
      <3>1. Filled(m, k + 1)'
        <4>1. long' = filled /\ filled \in [topic : {m}, data : [1..Parts[m] -> Pieces]]
          BY <2>3, <2>4, <2>6
        <4> QED
          BY <4>1, <2>4 DEF Filled
      <3>2. k + 1 \in 1..(Parts[m] - 1)
        BY <1>2, <2>6
      <3> QED
        BY <3>1, <3>2, <1>3, <2>3, <2>6 DEF MessageInv, DeliveredWhole
    <2> QED
      BY <2>5, <2>6
  <1> QED
    BY <1>4, <1>5

\* What the callbacks are given is one message from beginning to end, however
\* often the connection is lost, the memory refused or the instance replaced.
THEOREM AlwaysDeliveredWhole == ASSUME SomeParts PROVE Spec => []DeliveredWhole
<1>1. Init => MessageInv
  BY DEF Init, MessageInv, DeliveredWhole
<1>2. MessageInv /\ [Next]_vars => MessageInv'
  <2> SUFFICES ASSUME MessageInv, [Next]_vars PROVE MessageInv'
    OBVIOUS
  <2>1. CASE UNCHANGED <<arriving, long, delivered>>
    BY <2>1 DEF MessageInv, DeliveredWhole, Filled
  <2>2. CASE arriving' = NoArrival /\ UNCHANGED <<long, delivered>>
    BY <2>2 DEF MessageInv, DeliveredWhole
  <2>3. ASSUME NEW m \in Messages, Data(m) PROVE MessageInv'
    BY <2>3, FirstPart, LaterPart
  <2>4. ASSUME NEW name \in {"disconnect", "update"}, Call(name) \/ Stop(name) \/ Mark(name)
        PROVE  MessageInv'
    BY <2>1, <2>2, <2>4 DEF Call, Stop, Mark
  <2>5. CASE InitGlue \/ Deinit \/ Connect \/ UpdateStart
    BY <2>1, <2>2, <2>5 DEF InitGlue, Deinit, Connect, UpdateStart
  <2>6. CASE BeforeConnect \/ Connected \/ Disconnected \/ OtherEvent \/ Enter \/ Act
    BY <2>1, <2>2, <2>6 DEF BeforeConnect, Connected, Disconnected, OtherEvent, Dispatch, Enter, Act
  <2>7. CASE UNCHANGED vars
    BY <2>1, <2>7 DEF vars
  <2> QED
    BY <2>3, <2>4, <2>5, <2>6, <2>7 DEF Next
<1>3. MessageInv => DeliveredWhole
  BY DEF MessageInv
<1> QED
  BY <1>1, <1>2, <1>3, PTL DEF Spec
=============================================================================
