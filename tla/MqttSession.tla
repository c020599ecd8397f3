----------------------------- MODULE MqttSession -----------------------------
(***************************************************************************)
(* src/esp-mqtt/esp-mqtt-glue.c: the connection as the glue sees it, and   *)
(* the messages it receives.  One task calls connect, disconnect,          *)
(* update_config, init and deinit, none of them beside another; the mqtt   *)
(* task connects, loses the connection, connects again and hands over      *)
(* messages in parts.  It holds esp-mqtt's lock while it connects and      *)
(* while it handles an event, so a stop waits for both.                    *)
(*                                                                         *)
(* Subscriptions are in MqttGlue, operations beside a deinit in            *)
(* MqttGlueLife; the parameters of a connection are left out.              *)
(***************************************************************************)
EXTENDS Naturals, Sequences

CONSTANTS Messages,   \* what a broker sends
          Parts,      \* Parts[m]: the parts message m comes in
          NoMessage

VARIABLES
    client,      \* esp-mqtt: none, stopped, waiting (to connect), connecting or up
    event,       \* the event mqtt_event_handler handles, and its place there
    call,        \* where a call of the controlling task is
    connected, connecting,  \* the flags of mqtt_data
    arriving,    \* the message of which parts have come, and how many
    long,        \* long_data: what has been put together, NoLong when NULL
    delivered    \* history: what the callbacks were last given

flags == <<connected, connecting>>
vars == <<client, event, call, flags, arriving, long, delivered>>

NoEvent == <<"none", "none">>
NoArrival == [message |-> NoMessage, parts |-> 0]
NoLong == [topic |-> NoMessage, data |-> <<>>]

Init == /\ client = "none" /\ event = NoEvent /\ call = "none"
        /\ connected = FALSE /\ connecting = FALSE
        /\ arriving = NoArrival /\ long = NoLong /\ delivered = NoLong

-----------------------------------------------------------------------------
(* The controlling task                                                    *)

\* esp_mqtt_glue_init: a new instance, all zero.
InitGlue == /\ client = "none"
            /\ client' = "stopped"
            /\ connected' = FALSE /\ connecting' = FALSE
            /\ UNCHANGED <<event, call, arriving, long, delivered>>

\* esp-mqtt can stop, its task being between two events and not in a connect.
CanStop == event = NoEvent /\ client # "connecting"

\* deinit destroys the client and frees the instance; long_data is static.
Deinit == /\ client # "none" /\ call = "none" /\ CanStop
          /\ client' = "none" /\ connected' = FALSE /\ connecting' = FALSE
          /\ arriving' = NoArrival
          /\ UNCHANGED <<event, call, long, delivered>>

Start == IF client = "stopped" THEN client' = "waiting" ELSE UNCHANGED client

\* esp_mqtt_glue_connect; a client that runs is not started again.
Connect == /\ client # "none" /\ call = "none"
           /\ Start
           /\ UNCHANGED <<event, call, flags, arriving, long, delivered>>

Call(name) == /\ client # "none" /\ call = "none"
              /\ call' = name
              /\ UNCHANGED <<client, event, flags, arriving, long, delivered>>

\* Mutant of AfterStop: update_config does not mark the connection as gone.
AfterStopUpdate(name) == IF name = "update" THEN "update_start" ELSE "disconnect_mark"

AfterStop(name) == IF name = "update" THEN "update_mark" ELSE "disconnect_mark"

\* A client that is stopped already stays so: the error is passed over.
Stop(name) == /\ call = name
              /\ CanStop
              /\ client' = "stopped"
              /\ arriving' = NoArrival
              /\ call' = AfterStop(name)
              /\ UNCHANGED <<event, flags, long, delivered>>

MarkDisconnected == connected' = FALSE /\ connecting' = FALSE

\* disconnect ends here; update_config goes on.
Mark(name) == /\ call = IF name = "update" THEN "update_mark" ELSE "disconnect_mark"
              /\ MarkDisconnected
              /\ call' = IF name = "update" THEN "update_start" ELSE "none"
              /\ UNCHANGED <<client, event, arriving, long, delivered>>

\* esp_mqtt_set_config may fail, and then the client is left stopped.
UpdateStart == /\ call = "update_start"
               /\ Start \/ UNCHANGED client
               /\ call' = "none"
               /\ UNCHANGED <<event, flags, arriving, long, delivered>>

-----------------------------------------------------------------------------
(* The mqtt task, and the flags                                            *)

\* The client goes on to a state and has an event handled.
Dispatch(name, state) == /\ event' = <<name, "enter">>
                         /\ client' = state
                         /\ UNCHANGED <<call, flags, long, delivered>>

BeforeConnect == /\ client = "waiting" /\ event = NoEvent
                 /\ Dispatch("before_connect", "connecting")
                 /\ UNCHANGED arriving

Connected == /\ client = "connecting" /\ event = NoEvent
             /\ Dispatch("connected", "up")
             /\ UNCHANGED arriving

\* The connect fails or the connection is lost, a message perhaps in parts.
Disconnected == /\ client \in {"connecting", "up"} /\ event = NoEvent
                /\ Dispatch("disconnected", "waiting")
                /\ arriving' = NoArrival

\* SUBSCRIBED, PUBLISHED, ERROR and the like.
OtherEvent == /\ client = "up" /\ event = NoEvent
              /\ Dispatch("other", client)
              /\ UNCHANGED arriving

\* "Any other event means that connect attempt is over."
Enter == /\ event[2] = "enter"
         /\ event' = <<event[1], "act">>
         /\ connecting' = (connecting /\ event[1] = "before_connect")
         /\ UNCHANGED <<client, call, connected, arriving, long, delivered>>

Act == /\ event[2] = "act"
       /\ event' = NoEvent
       /\ CASE event[1] = "connected" -> connected' = TRUE /\ UNCHANGED connecting
            [] event[1] = "before_connect" -> connecting' = TRUE /\ UNCHANGED connected
            [] event[1] = "disconnected" -> MarkDisconnected
            [] OTHER -> UNCHANGED flags
       /\ UNCHANGED <<client, call, arriving, long, delivered>>

\* What esp_mqtt_glue_publish tells its caller at this moment.
PublishDropped == connecting

-----------------------------------------------------------------------------
(* MQTT_EVENT_DATA                                                         *)

\* A part of a message: its index says where it belongs, the first has a topic.
Part(m, i) == <<m, i>>

\* The memory of calloc, before anything is copied into it.
Zeroed(m) == [i \in 1..Parts[m] |-> <<NoMessage, 0>>]

\* Mutant of Kept: a first part goes on with the long_data there is.
KeptEarlier(m, i) == IF i = 1 /\ long = NoLong THEN [topic |-> m, data |-> Zeroed(m)] ELSE long

\* long_data for a part: anew for a first one.
Kept(m, i) == IF i = 1 THEN [topic |-> m, data |-> Zeroed(m)] ELSE long

\* manage_long_data; without memory nothing is kept, and later parts are ignored.
LongData(m, i) ==
    \/ /\ i = 1
       /\ long' = NoLong
       /\ UNCHANGED delivered
    \/ /\ Kept(m, i) = NoLong
       /\ UNCHANGED <<long, delivered>>
    \/ /\ Kept(m, i) # NoLong
       /\ LET filled == [Kept(m, i) EXCEPT !.data[i] = Part(m, i)]
          IN  IF i = Parts[m] THEN long' = NoLong /\ delivered' = filled
              ELSE long' = filled /\ UNCHANGED delivered

Data(m) ==
    LET i == IF arriving = NoArrival THEN 1 ELSE arriving.parts + 1
    IN  /\ client = "up" /\ event = NoEvent
        /\ arriving = NoArrival \/ arriving.message = m
        /\ arriving' = IF i = Parts[m] THEN NoArrival ELSE [message |-> m, parts |-> i]
        /\ IF Parts[m] = 1
             THEN long' = NoLong /\ delivered' = [topic |-> m, data |-> <<Part(m, 1)>>]
             ELSE LongData(m, i)
        /\ UNCHANGED <<client, event, call, flags>>

Next == \/ InitGlue \/ Deinit \/ Connect \/ UpdateStart
        \/ \E name \in {"disconnect", "update"} : Call(name) \/ Stop(name) \/ Mark(name)
        \/ BeforeConnect \/ Connected \/ Disconnected \/ OtherEvent \/ Enter \/ Act
        \/ \E m \in Messages : Data(m)

Spec == Init /\ [][Next]_vars

-----------------------------------------------------------------------------
\* Between events and calls the flags say what esp-mqtt does: connected when the
\* connection is up, and a publish dropped only during a connect.
FlagsFollowClient ==
    event = NoEvent /\ call \notin {"disconnect_mark", "update_mark"} =>
        /\ connected = (client = "up")
        /\ PublishDropped = (client = "connecting")

\* What the callbacks are given is one message, from beginning to end.
DeliveredWhole ==
    delivered # NoLong =>
        \E m \in Messages : /\ delivered.topic = m
                            /\ delivered.data = [i \in 1..Parts[m] |-> Part(m, i)]
=============================================================================
