----------------------------- MODULE MqttGlue ------------------------------
(***************************************************************************)
(* src/esp-mqtt/esp-mqtt-glue.c: the subscription table, the SUBSCRIBE     *)
(* that is sent for a topic, the SUBACK that comes back, and the timer     *)
(* that has unacknowledged subscriptions sent again.                       *)
(*                                                                         *)
(* Three kinds of threads share the table: application tasks that          *)
(* subscribe and unsubscribe, the mqtt task of esp-mqtt, which delivers    *)
(* events into mqtt_event_handler, and the work queue, which runs retry    *)
(* rounds.  Each action is one critical section of s_glue_lock, one call   *)
(* into esp-mqtt, or one timer command; the threads interleave between     *)
(* them.  esp-mqtt has an API lock of its own, which the mqtt task holds   *)
(* while it delivers an event: the calls of other threads wait meanwhile.  *)
(*                                                                         *)
(* Time is abstracted: an armed timer fires at some moment, and whether a   *)
(* request is older than the outbox expiry by then is any choice that      *)
(* TimerFires makes.  The QoS is kept only as far as it decides            *)
(* what is sent: a subscribe call is an upgrade or not.                    *)
(***************************************************************************)
EXTENDS Naturals, Sequences, FiniteSets, SequencesExt

CONSTANTS Topics, Callbacks,
          Apps,         \* application tasks
          Mqtt,         \* the mqtt task
          Work,         \* the work queue's worker, running a retry round
          NoTopic,      \* no topic
          StartsWith,   \* pairs <<t, u>> of topics: u is a prefix of t
          MaxSubs,      \* MAX_MQTT_SUBSCRIPTIONS
          AckSlots,     \* MQTT_SUB_EARLY_ACK_SLOTS
          MaxConnects,  \* bound: how often the link comes up
          MaxTrouble,   \* bound: requests refused, lost or not sent, commands dropped
          MaxCalls      \* bound: calls of the application tasks

Subs == Topics \X Callbacks
Threads == Apps \cup {Mqtt, Work}

\* Bound: message ids.  A request waits when there is no free one.
Ids == 1 .. Cardinality(Subs) + Cardinality(Threads) + AckSlots + MaxTrouble + 1

ASSUME MqttGlueAssumption ==
    /\ IsFiniteSet(Topics) /\ IsFiniteSet(Callbacks) /\ IsFiniteSet(Apps)
    /\ Mqtt \notin Apps /\ Work \notin Apps /\ Mqtt # Work
    /\ NoTopic \notin Topics
    /\ StartsWith \subseteq Topics \X Topics
    /\ \A t \in Topics : <<t, t>> \in StartsWith
    /\ MaxSubs \in Nat \ {0} /\ AckSlots \in Nat \ {0}
    /\ MaxConnects \in Nat /\ MaxTrouble \in Nat /\ MaxCalls \in Nat

VARIABLES
    sub,         \* the state of each entry, "free" when the table has none
    msgId,       \* its msg_id while REQUESTED; 0 is the reservation (-1 in the code)
    expired,     \* the REQUESTED entries whose request_tick is past the expiry
    connected,   \* mqtt_data->connected
    early,       \* early_acks, oldest first
    armPending,  \* timer_arm_pending
    timer,       \* s_sub_retry_timer is running
    queued,      \* a retry round is in the work queue
    pc, todo, topic, ret, plan, last,  \* of each thread, see Threads' steps
    link,        \* esp-mqtt: the connection is up
    replies,     \* what esp-mqtt has still to report about requests
    broker,      \* the topics the broker delivers on this connection
    connects, trouble, calls           \* what the bounds count

table == <<sub, msgId, expired>>
thread == <<pc, todo, topic, ret, plan, last>>
timing == <<timer, armPending, queued>>
env == <<link, replies, broker>>
bounds == <<connects, trouble, calls>>
vars == <<table, connected, early, timing, thread, env, bounds>>

States == {"free", "none", "requested", "acked", "failed"}

Entries(t) == {s \in Subs : s[1] = t /\ sub[s] # "free"}
InUse == {s \in Subs : sub[s] # "free"}
Requested == {s \in Subs : sub[s] = "requested"}

\* esp-mqtt's API lock: the mqtt task holds it while it handles an event.
ApiFree(th) == th = Mqtt \/ pc[Mqtt] = "idle"

Trouble == trouble < MaxTrouble /\ trouble' = trouble + 1

FreeIds == Ids \ ({msgId[s] : s \in Subs} \cup {ret[th] : th \in Threads}
                   \cup {r.id : r \in replies} \cup {early[i].id : i \in DOMAIN early})

Least(S) == {i \in S : \A j \in S : i <= j}

\* Entries S go to state st and are no longer waiting for a SUBACK.
Settle(S, st) == /\ sub' = [s \in Subs |-> IF s \in S THEN st ELSE sub[s]]
                 /\ msgId' = [s \in Subs |-> IF s \in S THEN 0 ELSE msgId[s]]
                 /\ expired' = expired \ S

ResetAll == Settle(InUse, "none")

Init == /\ sub = [s \in Subs |-> "free"]
        /\ msgId = [s \in Subs |-> 0]
        /\ expired = {}
        /\ connected = FALSE
        /\ early = <<>>
        /\ armPending = FALSE /\ timer = FALSE /\ queued = FALSE
        /\ pc = [th \in Threads |-> "idle"]
        /\ todo = [th \in Threads |-> {}]
        /\ topic = [th \in Threads |-> NoTopic]
        /\ ret = [th \in Threads |-> 0]
        /\ plan = [th \in Threads |-> "stop"]
        /\ last = [th \in Threads |-> TRUE]
        /\ link = FALSE /\ replies = {} /\ broker = {}
        /\ connects = 0 /\ trouble = 0 /\ calls = 0

-----------------------------------------------------------------------------
(* Steps any thread takes: send the topics of todo one after the other,    *)
(* each by reserve, send and record, then set the timer (plan, then the    *)
(* command).  An early SUBACK sets the timer in between as well.           *)

At(th, place) == pc[th] = place
To(th, place) == pc' = [pc EXCEPT ![th] = place]

\* The thread starts on the topics S.
Begin(th, S) == /\ todo' = [todo EXCEPT ![th] = S]
                /\ To(th, IF S = {} THEN "plan" ELSE "reserve")
                /\ last' = [last EXCEPT ![th] = TRUE]

Reserve(th) ==
    /\ At(th, "reserve")
    /\ \E t \in todo[th] :
         LET S == Entries(t)
         IN /\ sub' = [s \in Subs |-> IF s \in S THEN "requested" ELSE sub[s]]
            /\ msgId' = [s \in Subs |-> IF s \in S THEN 0 ELSE msgId[s]]
            /\ expired' = expired \ S
            /\ topic' = [topic EXCEPT ![th] = t]
            /\ todo' = [todo EXCEPT ![th] = @ \ {t}]
    /\ ret' = [ret EXCEPT ![th] = 0]
    /\ To(th, IF connected THEN "send" ELSE "record")
    /\ UNCHANGED <<connected, early, timing, plan, last, env, bounds>>

\* esp_mqtt_client_subscribe, with what the broker will make of the request.
Send(th) ==
    /\ At(th, "send")
    /\ ApiFree(th)
    /\ To(th, "record")
    /\ \/ /\ link
          /\ \E id \in Least(FreeIds) :
               /\ ret' = [ret EXCEPT ![th] = id]
               /\ \/ /\ broker' = broker \cup {topic[th]}
                     /\ replies' = replies \cup {[id |-> id, kind |-> "accepted"]}
                     /\ UNCHANGED trouble
                  \/ /\ Trouble
                     /\ \/ replies' = replies \cup {[id |-> id, kind |-> "rejected"]}
                        \/ replies' = replies \cup {[id |-> id, kind |-> "deleted"]}
                        \/ UNCHANGED replies
                     /\ UNCHANGED broker
       \/ /\ link => Trouble
          /\ ~link => UNCHANGED trouble
          /\ ret' = [ret EXCEPT ![th] = 0]
          /\ UNCHANGED <<replies, broker>>
    /\ UNCHANGED <<table, connected, early, timing, todo, topic, plan, last, link, connects, calls>>

\* Mutant of Reserved: whatever happened to the entries meanwhile.
ReservedOnce(t) == Entries(t)

\* The reservation is still ours to resolve: a disconnect would have reset it.
Reserved(t) == {s \in Entries(t) : sub[s] = "requested" /\ msgId[s] = 0}

Parked(id) == {i \in DOMAIN early : early[i].id = id}

\* Mutant of Overtaken: the parked SUBACKs are not looked at.
OvertakenIgnored(th) == {}

\* The SUBACK was here before the msg_id could be recorded.
Overtaken(th) == Parked(ret[th])

AfterTopic(th) == IF todo[th] # {} THEN "reserve" ELSE "plan"

Record(th) ==
    /\ At(th, "record")
    /\ LET S == Reserved(topic[th])
       IN IF ret[th] = 0
            THEN /\ Settle(S, "failed")
                 /\ To(th, AfterTopic(th))
                 /\ UNCHANGED <<early, last>>
          ELSE IF Overtaken(th) = {}
            THEN /\ msgId' = [s \in Subs |-> IF s \in S THEN ret[th] ELSE msgId[s]]
                 /\ To(th, AfterTopic(th))
                 /\ UNCHANGED <<sub, expired, early, last>>
          ELSE \E i \in Least(Overtaken(th)) :
                 /\ Settle(S, IF early[i].rejected THEN "failed" ELSE "acked")
                 /\ early' = RemoveAt(early, i)
                 /\ To(th, "plan")
                 /\ last' = [last EXCEPT ![th] = FALSE]
    /\ topic' = [topic EXCEPT ![th] = NoTopic]
    /\ ret' = [ret EXCEPT ![th] = 0]
    /\ UNCHANGED <<connected, timing, todo, plan, env, bounds>>

\* schedule_sub_retry, under the lock: what the timer has to do.
Plan(th) ==
    /\ At(th, "plan")
    /\ plan' = [plan EXCEPT ![th] =
                  IF ~connected \/ \A s \in InUse : sub[s] = "acked" THEN "stop"
                  ELSE "arm"]
    /\ To(th, "command")
    /\ UNCHANGED <<table, connected, early, timing, todo, topic, ret, last, env, bounds>>

\* Its timer command, issued without the lock.
AfterCommand(th) == IF ~last[th] THEN AfterTopic(th) ELSE "idle"

Command(th) ==
    /\ At(th, "command")
    /\ \/ /\ timer' = (plan[th] = "arm")
          /\ UNCHANGED <<armPending, trouble>>
       \/ /\ Trouble
          /\ armPending' = TRUE
          /\ UNCHANGED timer
    /\ To(th, AfterCommand(th))
    /\ last' = [last EXCEPT ![th] = TRUE]
    /\ plan' = [plan EXCEPT ![th] = "stop"]
    /\ UNCHANGED <<table, connected, early, queued, todo, topic, ret, env,
                   connects, calls>>

\* Mutants of NeedsSend: entries never sent are not, expired requests are not.
NeedsSendAgain(s) == sub[s] = "failed" \/ s \in expired
NeedsSendUnexpired(s) == sub[s] \in {"none", "failed"}

\* resubscribe_pending: the topics of the entries that need a SUBSCRIBE.
NeedsSend(s) == sub[s] \in {"none", "failed"} \/ s \in expired

Collect(th) ==
    /\ At(th, "collect")
    /\ Begin(th, {s[1] : s \in {s \in Subs : NeedsSend(s)}})
    /\ UNCHANGED <<table, connected, early, timing, topic, ret, plan, env, bounds>>

-----------------------------------------------------------------------------
(* Application tasks                                                       *)

MayCall(a) == At(a, "idle") /\ calls < MaxCalls /\ calls' = calls + 1

SubscribeAgain(a, s, upgrade) ==
    /\ MayCall(a)
    /\ sub[s] # "free"
    /\ upgrade \/ sub[s] \in {"none", "failed"}
    /\ Begin(a, {s[1]})
    /\ UNCHANGED <<table, connected, early, timing, topic, ret, plan, env, connects, trouble>>

\* Mutant of Active: a SUBSCRIBE that is under way counts.
ActiveOrSent(t) == \E r \in Entries(t) : sub[r] \in {"requested", "acked"}

\* A further callback of an acknowledged topic needs no SUBSCRIBE.
Active(t) == \E r \in Entries(t) : sub[r] = "acked"

SubscribeNew(a, s) ==
    /\ MayCall(a)
    /\ sub[s] = "free"
    /\ Cardinality(InUse) < MaxSubs
    /\ IF Active(s[1])
         THEN /\ sub' = [sub EXCEPT ![s] = "acked"]
              /\ UNCHANGED <<pc, todo, last>>
         ELSE /\ sub' = [sub EXCEPT ![s] = "none"]
              /\ Begin(a, {s[1]})
    /\ UNCHANGED <<msgId, expired, connected, early, timing, topic, ret, plan, env,
                   connects, trouble>>

\* Mutant of LastOfTopic: other callbacks of the topic are forgotten.
AnyOfTopic(s) == sub[s] # "free"

LastOfTopic(s) == Entries(s[1]) = {s}

\* The first entry whose topic starts with t goes; any may be the first.
Unsubscribe(a, t) ==
    /\ MayCall(a)
    /\ \E s \in InUse :
         /\ <<s[1], t>> \in StartsWith
         /\ Settle({s}, "free")
         /\ IF connected /\ LastOfTopic(s)
              THEN /\ To(a, "unsubscribe")
                   /\ topic' = [topic EXCEPT ![a] = s[1]]
              ELSE UNCHANGED <<pc, topic>>
    /\ UNCHANGED <<connected, early, timing, todo, ret, plan, last, env, connects, trouble>>

ClientUnsubscribe(a) ==
    /\ At(a, "unsubscribe")
    /\ ApiFree(a)
    /\ broker' = broker \ {topic[a]}
    /\ topic' = [topic EXCEPT ![a] = NoTopic]
    /\ To(a, "idle")
    /\ UNCHANGED <<table, connected, early, timing, todo, ret, plan, last, link, replies, bounds>>

-----------------------------------------------------------------------------
(* The mqtt task: every event first re-issues a dropped timer command      *)

Event == At(Mqtt, "idle") /\ ~armPending

Rearm ==
    /\ At(Mqtt, "idle")
    /\ armPending
    /\ armPending' = FALSE
    /\ To(Mqtt, "plan")
    /\ UNCHANGED <<table, connected, early, timer, queued, todo, topic, ret, plan, last, env,
                   bounds>>

\* Broker-side subscriptions do not survive: everything is sent again.
Connected ==
    /\ Event
    /\ ~link
    /\ connects < MaxConnects
    /\ connects' = connects + 1
    /\ link' = TRUE
    /\ connected' = TRUE
    /\ ResetAll
    /\ To(Mqtt, "collect")
    /\ UNCHANGED <<early, timing, todo, topic, ret, plan, last, replies, broker, trouble, calls>>

\* The requests and replies of the connection are gone with it.
Disconnected ==
    /\ Event
    /\ link
    /\ link' = FALSE
    /\ replies' = {}
    /\ broker' = {}
    /\ connected' = FALSE
    /\ ResetAll
    /\ To(Mqtt, "halt")
    /\ UNCHANGED <<early, timing, todo, topic, ret, plan, last, bounds>>

\* mark_disconnected's timer command; nothing is lost when it is dropped.
Halt ==
    /\ At(Mqtt, "halt")
    /\ \/ timer' = FALSE /\ UNCHANGED trouble
       \/ Trouble /\ UNCHANGED timer
    /\ To(Mqtt, "idle")
    /\ UNCHANGED <<table, connected, early, armPending, queued, todo, topic, ret, plan,
                   last, env, connects, calls>>

Waiting(id) == {s \in Subs : sub[s] = "requested" /\ msgId[s] = id}

\* A full early_acks gives up the oldest SUBACK in it.
Park(r) ==
    early' = Append(IF Len(early) = AckSlots THEN Tail(early) ELSE early,
                    [id |-> r.id, rejected |-> r.kind = "rejected"])

Subscribed(r) ==
    /\ Event
    /\ r.kind \in {"accepted", "rejected"}
    /\ replies' = replies \ {r}
    /\ IF Waiting(r.id) # {}
         THEN /\ Settle(Waiting(r.id), IF r.kind = "rejected" THEN "failed" ELSE "acked")
              /\ To(Mqtt, "plan")
              /\ UNCHANGED early
         ELSE /\ Park(r)
              /\ UNCHANGED <<table, pc>>
    /\ UNCHANGED <<connected, timing, todo, topic, ret, plan, last, link, broker, bounds>>

\* The oldest parked SUBACK outlives MQTT_SUB_EARLY_ACK_TTL_MS: nobody takes it.
AckTooOld ==
    /\ early # <<>>
    /\ Trouble
    /\ early' = Tail(early)
    /\ UNCHANGED <<table, connected, timing, thread, env, connects, calls>>

\* MQTT_EVENT_DELETED: esp-mqtt dropped the request from its outbox.
Deleted(r) ==
    /\ Event
    /\ r.kind = "deleted"
    /\ replies' = replies \ {r}
    /\ IF Waiting(r.id) # {}
         THEN Settle(Waiting(r.id), "failed") /\ To(Mqtt, "plan")
         ELSE UNCHANGED <<table, pc>>
    /\ UNCHANGED <<connected, early, timing, todo, topic, ret, plan, last, link, broker, bounds>>

-----------------------------------------------------------------------------
(* The timer and the work queue                                            *)

\* SUBACKs that take longer than the expiry: esp-mqtt has dropped their requests
\* and ignores them, unless they arrive at the last moment.  A request that is
\* that slow, or still being sent, is trouble; a lost one was before.
LateReplies(S) == {r \in replies : r.kind # "deleted" /\ \E s \in S : msgId[s] = r.id}

TimerFires(S) ==
    /\ timer
    /\ ~queued
    /\ timer' = FALSE
    /\ queued' = TRUE
    /\ expired' = expired \cup S
    /\ replies' \in {replies, replies \ LateReplies(S)}
    /\ IF LateReplies(S) = {} /\ \A s \in S : msgId[s] # 0 THEN UNCHANGED trouble ELSE Trouble
    /\ UNCHANGED <<sub, msgId, connected, early, armPending, thread, link, broker, connects, calls>>

RetryRound ==
    /\ At(Work, "idle")
    /\ queued
    /\ queued' = FALSE
    /\ To(Work, "collect")
    /\ UNCHANGED <<table, connected, early, timer, armPending, todo, topic, ret, plan, last, env,
                   bounds>>

-----------------------------------------------------------------------------
Step(th) == Reserve(th) \/ Send(th) \/ Record(th) \/ Plan(th) \/ Command(th)

AppStep(a) == Step(a) \/ ClientUnsubscribe(a)

MqttStep == Step(Mqtt) \/ Collect(Mqtt) \/ Halt

WorkStep == Step(Work) \/ Collect(Work) \/ RetryRound

Report == \E r \in replies : Subscribed(r) \/ Deleted(r)

Api(a) == \/ \E s \in Subs : SubscribeNew(a, s)
          \/ \E s \in Subs, upgrade \in BOOLEAN : SubscribeAgain(a, s, upgrade)
          \/ \E t \in Topics : Unsubscribe(a, t)

Next == \/ \E a \in Apps : Api(a) \/ AppStep(a)
        \/ MqttStep
        \/ WorkStep
        \/ Report
        \/ AckTooOld
        \/ Rearm
        \/ Connected
        \/ Disconnected
        \/ \E S \in SUBSET Requested : TimerFires(S)

(***************************************************************************)
(* Every thread inside a call or a round goes on, esp-mqtt reports what it *)
(* knows and an armed timer fires.  Nobody has to call, and no event has   *)
(* to come: neither a new connection nor the event Rearm waits for.        *)
(***************************************************************************)
Fairness == /\ \A a \in Apps : SF_vars(AppStep(a))
            /\ WF_vars(MqttStep)
            /\ SF_vars(WorkStep)
            /\ WF_vars(Report)
            /\ WF_vars(TimerFires({}))
            /\ \A s \in Subs : SF_vars(\E S \in SUBSET Requested : s \in S /\ TimerFires(S))

Spec == Init /\ [][Next]_vars

FairSpec == Spec /\ Fairness

-----------------------------------------------------------------------------
(* Properties                                                              *)

Quiet == \A th \in Threads : pc[th] = "idle"

\* Every variable stays in its type, and what is bounded within its bound.
TypeOK ==
    /\ sub \in [Subs -> States]
    /\ msgId \in [Subs -> Ids \cup {0}]
    /\ expired \subseteq Requested
    /\ Cardinality(InUse) <= MaxSubs
    /\ \A s \in Subs : sub[s] # "requested" => msgId[s] = 0
    /\ Len(early) <= AckSlots
    /\ {connected, armPending, timer, queued, link} \subseteq BOOLEAN
    /\ pc \in [Threads -> {"idle", "reserve", "send", "record", "plan", "command", "collect",
                           "halt", "unsubscribe"}]
    /\ todo \in [Threads -> SUBSET Topics]
    /\ topic \in [Threads -> Topics \cup {NoTopic}]
    /\ ret \in [Threads -> Ids \cup {0}]
    /\ plan \in [Threads -> {"stop", "arm"}]
    /\ broker \subseteq Topics

(***************************************************************************)
(* A SUBACK is never left parked once its request is recorded: the sending *)
(* thread looks for it before it stores the msg_id, in the same critical   *)
(* section, so that an acknowledgement that overtook the bookkeeping is    *)
(* still applied (esp_mqtt_glue_send_subscribe and the SUBSCRIBED event).  *)
(***************************************************************************)
EarlyAckTaken == \A s \in Requested : msgId[s] # 0 => Parked(msgId[s]) = {}

(***************************************************************************)
(* The callbacks registered for one topic share one broker subscription:   *)
(* when no call or round is under way their entries say the same of it,    *)
(* whatever interleaved with the sends that brought them there.            *)
(***************************************************************************)
SameTopicAgrees ==
    Quiet => \A s, r \in InUse : s[1] = r[1] => sub[s] = sub[r] /\ msgId[s] = msgId[r]

(***************************************************************************)
(* "Broker-side subscriptions did not survive the reconnect; re-send all   *)
(* of them": once the mqtt task is done with the CONNECTED event, no entry *)
(* is left for which nothing was sent, but those an application task is    *)
(* just now subscribing.                                                   *)
(***************************************************************************)
ResentOnConnect ==
    connected /\ At(Mqtt, "idle") =>
      \A s \in Subs : sub[s] = "none" => \E th \in Threads : s[1] \in todo[th]

(***************************************************************************)
(* "SUBACK received, subscription active": with no call under way and no   *)
(* reply outstanding, the broker of a live connection does deliver the     *)
(* topic of every entry that is acknowledged.                              *)
(***************************************************************************)
AckedIsActive ==
    connected /\ Quiet /\ replies = {} =>
      \A s \in Subs : sub[s] = "acked" => s[1] \in broker

(***************************************************************************)
(* An entry that is not acknowledged is attended to as long as the         *)
(* connection is up: a round is due or running, or the dropped timer       *)
(* command that would bring one is remembered.                             *)
(***************************************************************************)
Attended == timer \/ queued \/ armPending \/ ~Quiet \/ replies # {}

NeverStranded == connected /\ (\E s \in InUse : sub[s] # "acked") => Attended

(***************************************************************************)
(* "... is re-sent until it is acknowledged": an entry waiting for an      *)
(* answer gets one, or is unsubscribed, or the connection is lost, unless  *)
(* a timer command of another thread has switched its retries off.         *)
(***************************************************************************)
RetriedUntilAcked ==
    \A s \in Subs : sub[s] \in {"requested", "failed"} /\ connected
                      ~> sub[s] \in {"free", "acked"} \/ ~connected \/ armPending \/ ~Attended

(***************************************************************************)
(* "Topic from which to unsubscribe": an unsubscribe call takes an entry   *)
(* of its own topic out of the table, and of no other.                     *)
(***************************************************************************)
UnsubscribesItsTopic ==
    [][\A a \in Apps, t \in Topics :
         Unsubscribe(a, t) => \A s \in Subs : s[1] # t => sub'[s] = sub[s]]_vars
=============================================================================
