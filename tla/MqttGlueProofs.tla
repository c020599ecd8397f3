--------------------------- MODULE MqttGlueProofs ---------------------------
(***************************************************************************)
(* Theorems of MqttGlue for every set of topics, callbacks and             *)
(* application tasks, and for every bound.                                 *)
(***************************************************************************)
EXTENDS MqttGlue, FiniteSetTheorems, SequenceTheorems, TLAPS

Acks == [id : Ids, rejected : BOOLEAN]
Reports == [id : Ids, kind : {"accepted", "rejected", "deleted"}]
Places == {"idle", "reserve", "send", "record", "plan", "command", "collect", "halt", "unsubscribe"}

Types ==
    /\ sub \in [Subs -> States] /\ msgId \in [Subs -> Ids \cup {0}]
    /\ expired \subseteq Requested
    /\ \A s \in Subs : sub[s] # "requested" => msgId[s] = 0
    /\ early \in Seq(Acks) /\ Len(early) <= AckSlots
    /\ connected \in BOOLEAN /\ armPending \in BOOLEAN /\ timer \in BOOLEAN
    /\ queued \in BOOLEAN /\ link \in BOOLEAN
    /\ pc \in [Threads -> Places]
    /\ todo \in [Threads -> SUBSET Topics] /\ topic \in [Threads -> Topics \cup {NoTopic}]
    /\ ret \in [Threads -> Ids \cup {0}] /\ plan \in [Threads -> {"stop", "arm"}]
    /\ last \in [Threads -> BOOLEAN]
    /\ replies \subseteq Reports /\ broker \subseteq Topics
    /\ \A th \in Threads : pc[th] \in {"send", "record", "unsubscribe"} => topic[th] \in Topics

\* A thread has topics left to send only on its way to them.
Pending ==
    \A th \in Threads :
        /\ pc[th] \in {"idle", "collect", "halt", "unsubscribe"} => todo[th] = {} /\ last[th]
        /\ pc[th] \in {"plan", "command"} /\ last[th] => todo[th] = {}

ToSend(t) == \E th \in Threads : t \in todo[th]

\* Entries of one topic differ only while a thread is about to send for all of them.
Agree ==
    \A s, r \in Subs : sub[s] # "free" /\ sub[r] # "free" /\ s[1] = r[1] =>
        ToSend(s[1]) \/ (sub[s] = sub[r] /\ msgId[s] = msgId[r])

Resent == connected /\ pc[Mqtt] # "collect" => \A s \in Subs : sub[s] = "none" => ToSend(s[1])

IInv == Types /\ Cardinality(InUse) <= MaxSubs /\ Pending /\ Agree /\ Resent /\ EarlyAckTaken

-----------------------------------------------------------------------------
\* Threads and subscriptions.
LEMMA Constants ==
  /\ Mqtt \in Threads /\ Work \in Threads /\ Mqtt # Work /\ Apps \subseteq Threads
  /\ Mqtt \notin Apps /\ Work \notin Apps
  /\ \A s \in Subs : s[1] \in Topics
  /\ IsFiniteSet(Subs) /\ Ids \subseteq Nat /\ 0 \notin Ids
<1>1. IsFiniteSet(Subs) /\ Cardinality(Subs) = Cardinality(Topics) * Cardinality(Callbacks)
  BY MqttGlueAssumption, FS_Product DEF Subs
<1>2. Ids \subseteq Nat /\ 0 \notin Ids
  BY DEF Ids
<1> QED BY <1>1, <1>2, MqttGlueAssumption DEF Threads, Subs

\* What RemoveAt leaves of a sequence.
LEMMA Removed ==
  ASSUME NEW R, NEW s \in Seq(R), NEW i \in 1 .. Len(s)
  PROVE  /\ RemoveAt(s, i) \in Seq(R) /\ Len(RemoveAt(s, i)) = Len(s) - 1
         /\ \A j \in DOMAIN RemoveAt(s, i) : \E k \in DOMAIN s : RemoveAt(s, i)[j] = s[k]
<1> DEFINE a == SubSeq(s, 1, i - 1)
           b == SubSeq(s, i + 1, Len(s))
<1>1. /\ a \in Seq(R) /\ Len(a) = i - 1
      /\ \A j \in 1 .. i - 1 : a[j] = s[j]
  BY SubSeqProperties
<1>2. /\ b \in Seq(R) /\ Len(b) = Len(s) - i
      /\ \A j \in 1 .. Len(s) - i : b[j] = s[i + j]
  BY SubSeqProperties
<1>3. RemoveAt(s, i) = a \o b
  BY DEF RemoveAt
<1> HIDE DEF a, b
<1>4. /\ a \o b \in Seq(R) /\ Len(a \o b) = Len(a) + Len(b)
      /\ \A j \in 1 .. Len(a) + Len(b) :
           (a \o b)[j] = IF j <= Len(a) THEN a[j] ELSE b[j - Len(a)]
  BY <1>1, <1>2, ConcatProperties
<1> DEFINE c == a \o b
<1>5. \A j \in 1 .. Len(s) - 1 : \E k \in 1 .. Len(s) : c[j] = s[k]
  <2> SUFFICES ASSUME NEW j \in 1 .. Len(s) - 1 PROVE \E k \in 1 .. Len(s) : c[j] = s[k]
    OBVIOUS
  <2>1. CASE j <= i - 1
    BY <1>1, <1>2, <1>4, <2>1
  <2>2. CASE ~(j <= i - 1)
    <3>1. c[j] = b[j - (i - 1)] /\ j - (i - 1) \in 1 .. Len(s) - i
      BY <1>1, <1>2, <1>4, <2>2
    <3>2. b[j - (i - 1)] = s[i + (j - (i - 1))]
      BY <3>1, <1>2
    <3>3. i + (j - (i - 1)) = j + 1 /\ j + 1 \in 1 .. Len(s)
      BY <2>2
    <3>4. c[j] = s[j + 1]
      BY <3>1, <3>2, <3>3, Zenon
    <3> QED BY <3>3, <3>4, Zenon
  <2> QED BY <2>1, <2>2
<1>6. c \in Seq(R) /\ Len(c) = Len(s) - 1
  BY <1>1, <1>2, <1>4
<1> HIDE DEF c
<1>7. RemoveAt(s, i) = c
  BY <1>3 DEF c
<1>8. DOMAIN c = 1 .. Len(s) - 1 /\ DOMAIN s = 1 .. Len(s)
  BY <1>6, LenProperties
<1>9. \A j \in DOMAIN c : \E k \in DOMAIN s : c[j] = s[k]
  BY <1>5, <1>8, Zenon
<1> QED BY <1>6, <1>7, <1>9, Zenon

-----------------------------------------------------------------------------
\* The three ways a request is recorded.
RecordFailed(th) ==
    /\ Settle(Reserved(topic[th]), "failed")
    /\ To(th, AfterTopic(th))
    /\ UNCHANGED <<early, last>>
RecordSent(th) ==
    /\ ret[th] # 0 /\ Overtaken(th) = {}
    /\ msgId' = [s \in Subs |-> IF s \in Reserved(topic[th]) THEN ret[th] ELSE msgId[s]]
    /\ To(th, AfterTopic(th))
    /\ UNCHANGED <<sub, expired, early, last>>
RecordOvertaken(th) ==
    /\ \E i \in Overtaken(th) : /\ \/ Settle(Reserved(topic[th]), "failed")
                                   \/ Settle(Reserved(topic[th]), "acked")
                                /\ early' = RemoveAt(early, i)
    /\ To(th, "plan")
    /\ last' = [last EXCEPT ![th] = FALSE]
RecordRest(th) ==
    /\ At(th, "record")
    /\ topic' = [topic EXCEPT ![th] = NoTopic]
    /\ ret' = [ret EXCEPT ![th] = 0]
    /\ UNCHANGED <<connected, timing, todo, plan, env, bounds>>

\* A request that was recorded failed, was sent, or was overtaken by its SUBACK.
LEMMA RecordCases ==
  ASSUME NEW th \in Threads, Record(th)
  PROVE  RecordRest(th) /\ (RecordFailed(th) \/ RecordSent(th) \/ RecordOvertaken(th))
<1>1. RecordRest(th)
  BY DEF Record, RecordRest
<1>2. CASE ret[th] = 0
  <2>1. Settle(Reserved(topic[th]), "failed")
    BY <1>2 DEF Record
  <2>2. To(th, AfterTopic(th))
    BY <1>2 DEF Record
  <2>3. UNCHANGED <<early, last>>
    BY <1>2 DEF Record
  <2> QED BY <1>1, <2>1, <2>2, <2>3 DEF RecordFailed
<1>3. CASE ret[th] # 0 /\ Overtaken(th) = {}
  <2>1. msgId' = [s \in Subs |-> IF s \in Reserved(topic[th]) THEN ret[th] ELSE msgId[s]]
    BY <1>3 DEF Record
  <2>2. To(th, AfterTopic(th))
    BY <1>3 DEF Record
  <2>3. UNCHANGED <<sub, expired, early, last>>
    BY <1>3 DEF Record
  <2> QED BY <1>1, <1>3, <2>1, <2>2, <2>3 DEF RecordSent
<1>4. CASE ret[th] # 0 /\ Overtaken(th) # {}
  <2>1. PICK i \in Least(Overtaken(th)) :
          /\ Settle(Reserved(topic[th]), IF early[i].rejected THEN "failed" ELSE "acked")
          /\ early' = RemoveAt(early, i)
          /\ To(th, "plan")
          /\ last' = [last EXCEPT ![th] = FALSE]
    BY <1>4 DEF Record
  <2>2. i \in Overtaken(th)
    BY DEF Least
  <2>3. \/ Settle(Reserved(topic[th]), "failed")
        \/ Settle(Reserved(topic[th]), "acked")
    BY <2>1
  <2> QED BY <1>1, <2>1, <2>2, <2>3 DEF RecordOvertaken
<1> QED BY <1>1, <1>2, <1>3, <1>4

\* The table never grows but by a new subscription.
LEMMA RoomKept ==
  ASSUME IInv, InUse' \subseteq InUse
  PROVE  (Cardinality(InUse) <= MaxSubs)'
<1> DEFINE P == InUse
           Q == InUse'
<1>1. IsFiniteSet(P) /\ Cardinality(P) <= MaxSubs
  BY Constants, FS_Subset DEF IInv, InUse
<1>2. Cardinality(Q) <= Cardinality(P) /\ Cardinality(Q) \in Nat /\ Cardinality(P) \in Nat
  BY <1>1, FS_Subset, FS_CardinalityType
<1> HIDE DEF P, Q
<1>3. Cardinality(Q) <= MaxSubs
  BY <1>1, <1>2, MqttGlueAssumption
<1> QED BY <1>3 DEF Q

\* A step that changes neither the entries nor what is left to send.
LEMMA TableUntouched ==
  ASSUME IInv, UNCHANGED <<sub, msgId, todo, connected>>,
         pc'[Mqtt] = "collect" \/ pc[Mqtt] # "collect"
  PROVE  (Cardinality(InUse) <= MaxSubs)' /\ Agree' /\ Resent'
<1>1. (Cardinality(InUse) <= MaxSubs)'
  BY DEF IInv, InUse
<1>2. Agree'
  BY DEF IInv, Agree, ToSend
<1>3. Resent'
  BY DEF IInv, Resent, ToSend
<1> QED BY <1>1, <1>2, <1>3

\* A thread that had nothing left to send begins on the topics S: what others
\* were to send is still to be sent.
LEMMA Begun ==
  ASSUME IInv, NEW th \in Threads, pc[th] \in {"idle", "collect"}, NEW S \in SUBSET Topics,
         Begin(th, S)
  PROVE  /\ Pending'
         /\ \A t : ToSend(t) => ToSend(t)'
         /\ \A t \in S : ToSend(t)'
<1>1. todo[th] = {} /\ last[th]
  BY DEF IInv, Pending
<1>2. /\ pc' = [pc EXCEPT ![th] = IF S = {} THEN "plan" ELSE "reserve"]
      /\ todo' = [todo EXCEPT ![th] = S] /\ last' = [last EXCEPT ![th] = TRUE]
  BY DEF Begin, To
<1>3. pc \in [Threads -> Places] /\ todo \in [Threads -> SUBSET Topics]
      /\ last \in [Threads -> BOOLEAN]
  BY DEF IInv, Types
<1>4. Pending'
  <2> SUFFICES ASSUME NEW h \in Threads
               PROVE  /\ pc'[h] \in {"idle", "collect", "halt", "unsubscribe"} =>
                           todo'[h] = {} /\ last'[h]
                      /\ pc'[h] \in {"plan", "command"} /\ last'[h] => todo'[h] = {}
    BY DEF Pending
  <2>1. CASE h = th
    BY <1>2, <1>3, <2>1
  <2>2. CASE h # th
    <3>1. pc'[h] = pc[h] /\ todo'[h] = todo[h] /\ last'[h] = last[h]
      BY <1>2, <1>3, <2>2
    <3> QED BY <3>1 DEF IInv, Pending
  <2> QED BY <2>1, <2>2
<1>5. ASSUME NEW t, NEW h \in Threads, t \in todo[h] PROVE ToSend(t)'
  <2>1. h # th
    BY <1>1, <1>5
  <2>2. t \in todo'[h]
    BY <1>2, <1>3, <1>5, <2>1
  <2> QED BY <2>2 DEF ToSend
<1>6. \A t \in S : t \in todo'[th]
  BY <1>2, <1>3
<1> QED BY <1>4, <1>5, <1>6 DEF ToSend

\* A step of that kind that leaves the entries alone.
LEMMA BegunAgree ==
  ASSUME IInv, UNCHANGED <<sub, msgId>>, \A t : ToSend(t) => ToSend(t)'
  PROVE  Agree'
<1> SUFFICES ASSUME NEW s \in Subs, NEW r \in Subs, sub[s] # "free", sub[r] # "free",
                    s[1] = r[1], ~ToSend(s[1])'
             PROVE  sub[s] = sub[r] /\ msgId[s] = msgId[r]
  BY DEF Agree
<1>1. ~ToSend(s[1])
  OBVIOUS
<1> QED BY <1>1 DEF IInv, Agree

\* Settling the entries of a topic that agree, or all that await one answer.
LEMMA Settled ==
  ASSUME IInv, NEW S \in SUBSET Subs, NEW st \in {"failed", "acked"}, Settle(S, st),
         S \subseteq Requested, UNCHANGED <<todo, connected>>,
         \A s, r \in Subs : s \in S /\ sub[r] # "free" /\ s[1] = r[1]
                            /\ sub[r] = sub[s] /\ msgId[r] = msgId[s] => r \in S
  PROVE  /\ (Cardinality(InUse) <= MaxSubs)' /\ Agree'
         /\ pc'[Mqtt] = "collect" \/ pc[Mqtt] # "collect" => Resent'
         /\ Requested' \subseteq Requested
         /\ \A s \in Requested' : msgId'[s] = msgId[s]
         /\ sub' \in [Subs -> States] /\ msgId' \in [Subs -> Ids \cup {0}]
         /\ expired' \subseteq Requested'
         /\ \A s \in Subs : sub'[s] # "requested" => msgId'[s] = 0
<1> USE DEF Settle, Requested
<1>1. \A s \in S : sub[s] = "requested"
  OBVIOUS
<1>2. InUse' \subseteq InUse
  BY <1>1 DEF InUse, IInv, Types
<1>3. Agree'
  BY DEF IInv, Agree, ToSend, Types
<1>4. pc'[Mqtt] = "collect" \/ pc[Mqtt] # "collect" => Resent'
  BY DEF IInv, Resent, ToSend, Types
<1>5. /\ Requested' \subseteq Requested
      /\ \A s \in Requested' : msgId'[s] = msgId[s]
  BY DEF IInv, Types
<1>6. sub' \in [Subs -> States] /\ msgId' \in [Subs -> Ids \cup {0}]
  BY DEF IInv, Types, States
<1>7. expired' \subseteq Requested' /\ \A s \in Subs : sub'[s] # "requested" => msgId'[s] = 0
  BY DEF IInv, Types
<1> QED BY <1>2, <1>3, <1>4, <1>5, <1>6, <1>7, RoomKept

\* A request is sent.
LEMMA SendInv ==
  ASSUME IInv, NEW th \in Threads, Send(th)
  PROVE  IInv'
<1> USE DEF IInv, Types, Places, At, To, table, thread, timing, env, bounds
<1>1. UNCHANGED <<sub, msgId, todo, connected>>
      /\ (pc'[Mqtt] = "collect" \/ pc[Mqtt] # "collect")
  BY Constants DEF Send
<1>2. Types'
  BY Constants DEF Send, Requested, Least, FreeIds, Reports, Trouble
<1>3. Pending'
  BY DEF Send, Pending
<1>4. (Cardinality(InUse) <= MaxSubs)' /\ Agree' /\ Resent'
  BY <1>1, TableUntouched
<1>5. EarlyAckTaken'
  BY DEF Send, EarlyAckTaken, Requested, Parked
<1> QED BY <1>2, <1>3, <1>4, <1>5 DEF IInv

\* The timer's command is decided.
LEMMA PlanInv ==
  ASSUME IInv, NEW th \in Threads, Plan(th)
  PROVE  IInv'
<1> USE DEF IInv, Types, Places, At, To, table, thread, timing, env, bounds
<1>1. UNCHANGED <<sub, msgId, todo, connected>>
      /\ (pc'[Mqtt] = "collect" \/ pc[Mqtt] # "collect")
  BY Constants DEF Plan
<1>2. Types'
  BY DEF Plan, Requested
<1>3. Pending'
  BY DEF Plan, Pending
<1>4. (Cardinality(InUse) <= MaxSubs)' /\ Agree' /\ Resent'
  BY <1>1, TableUntouched
<1>5. EarlyAckTaken'
  BY DEF Plan, EarlyAckTaken, Requested, Parked
<1> QED BY <1>2, <1>3, <1>4, <1>5 DEF IInv

\* The timer's command is issued.
LEMMA CommandInv ==
  ASSUME IInv, NEW th \in Threads, Command(th)
  PROVE  IInv'
<1> USE DEF IInv, Types, Places, At, To, table, thread, timing, env, bounds
<1>1. UNCHANGED <<sub, msgId, todo, connected>>
      /\ (pc'[Mqtt] = "collect" \/ pc[Mqtt] # "collect")
  BY Constants DEF Command, AfterCommand, AfterTopic
<1>2. Types'
  BY DEF Command, AfterCommand, AfterTopic, Requested
<1>3. Pending'
  BY DEF Command, AfterCommand, AfterTopic, Pending
<1>4. (Cardinality(InUse) <= MaxSubs)' /\ Agree' /\ Resent'
  BY <1>1, TableUntouched
<1>5. EarlyAckTaken'
  BY DEF Command, AfterCommand, AfterTopic, EarlyAckTaken, Requested, Parked
<1> QED BY <1>2, <1>3, <1>4, <1>5 DEF IInv

\* The timer is stopped after a disconnect.
LEMMA HaltInv ==
  ASSUME IInv, Halt
  PROVE  IInv'
<1> USE DEF IInv, Types, Places, At, To, table, thread, timing, env, bounds
<1>1. UNCHANGED <<sub, msgId, todo, connected>>
      /\ (pc'[Mqtt] = "collect" \/ pc[Mqtt] # "collect")
  BY Constants DEF Halt
<1>2. Types'
  BY Constants DEF Halt, Requested
<1>3. Pending'
  BY Constants DEF Halt, Pending
<1>4. (Cardinality(InUse) <= MaxSubs)' /\ Agree' /\ Resent'
  BY <1>1, TableUntouched
<1>5. EarlyAckTaken'
  BY DEF Halt, EarlyAckTaken, Requested, Parked
<1> QED BY <1>2, <1>3, <1>4, <1>5 DEF IInv

\* A dropped command is issued again.
LEMMA RearmInv ==
  ASSUME IInv, Rearm
  PROVE  IInv'
<1> USE DEF IInv, Types, Places, At, To, table, thread, timing, env, bounds
<1>1. UNCHANGED <<sub, msgId, todo, connected>>
      /\ (pc'[Mqtt] = "collect" \/ pc[Mqtt] # "collect")
  BY Constants DEF Rearm
<1>2. Types'
  BY Constants DEF Rearm, Requested
<1>3. Pending'
  BY Constants DEF Rearm, Pending
<1>4. (Cardinality(InUse) <= MaxSubs)' /\ Agree' /\ Resent'
  BY <1>1, TableUntouched
<1>5. EarlyAckTaken'
  BY DEF Rearm, EarlyAckTaken, Requested, Parked
<1> QED BY <1>2, <1>3, <1>4, <1>5 DEF IInv

\* The UNSUBSCRIBE is sent.
LEMMA ClientUnsubscribeInv ==
  ASSUME IInv, NEW a \in Apps, ClientUnsubscribe(a)
  PROVE  IInv'
<1> USE DEF IInv, Types, Places, At, To, table, thread, timing, env, bounds
<1>1. UNCHANGED <<sub, msgId, todo, connected>>
      /\ (pc'[Mqtt] = "collect" \/ pc[Mqtt] # "collect")
  BY Constants DEF ClientUnsubscribe
<1>2. Types'
  BY Constants DEF ClientUnsubscribe, Requested
<1>3. Pending'
  BY Constants DEF ClientUnsubscribe, Pending
<1>4. (Cardinality(InUse) <= MaxSubs)' /\ Agree' /\ Resent'
  BY <1>1, TableUntouched
<1>5. EarlyAckTaken'
  BY DEF ClientUnsubscribe, EarlyAckTaken, Requested, Parked
<1> QED BY <1>2, <1>3, <1>4, <1>5 DEF IInv

\* A retry round begins.
LEMMA RetryRoundInv ==
  ASSUME IInv, RetryRound
  PROVE  IInv'
<1> USE DEF IInv, Types, Places, At, To, table, thread, timing, env, bounds
<1>1. UNCHANGED <<sub, msgId, todo, connected>>
      /\ (pc'[Mqtt] = "collect" \/ pc[Mqtt] # "collect")
  BY Constants DEF RetryRound
<1>2. Types'
  BY Constants DEF RetryRound, Requested
<1>3. Pending'
  BY Constants DEF RetryRound, Pending
<1>4. (Cardinality(InUse) <= MaxSubs)' /\ Agree' /\ Resent'
  BY <1>1, TableUntouched
<1>5. EarlyAckTaken'
  BY DEF RetryRound, EarlyAckTaken, Requested, Parked
<1> QED BY <1>2, <1>3, <1>4, <1>5 DEF IInv

\* The timer fires.
LEMMA TimerFiresInv ==
  ASSUME IInv, NEW S \in SUBSET Requested, TimerFires(S)
  PROVE  IInv'
<1> USE DEF IInv, Types, Places, At, To, table, thread, timing, env, bounds
<1>1. UNCHANGED <<sub, msgId, todo, connected>>
      /\ (pc'[Mqtt] = "collect" \/ pc[Mqtt] # "collect")
  BY Constants DEF TimerFires
<1>2. Types'
  BY DEF TimerFires, Requested, LateReplies
<1>3. Pending'
  BY DEF TimerFires, Pending
<1>4. (Cardinality(InUse) <= MaxSubs)' /\ Agree' /\ Resent'
  BY <1>1, TableUntouched
<1>5. EarlyAckTaken'
  BY DEF TimerFires, EarlyAckTaken, Requested, Parked
<1> QED BY <1>2, <1>3, <1>4, <1>5 DEF IInv

\* A parked SUBACK is given up.
LEMMA AckTooOldInv ==
  ASSUME IInv, AckTooOld
  PROVE  IInv'
<1> USE DEF IInv, Types, Places, At, To, table, thread, timing, env, bounds
<1>1. /\ early' \in Seq(Acks) /\ Len(early') = Len(early) - 1 /\ Len(early) \in Nat
      /\ \A j \in DOMAIN early' : \E k \in DOMAIN early : early'[j] = early[k]
  BY HeadTailProperties DEF AckTooOld
<1>2. UNCHANGED <<sub, msgId, todo, connected>>
      /\ (pc'[Mqtt] = "collect" \/ pc[Mqtt] # "collect")
  BY Constants DEF AckTooOld
<1>3. Types'
  BY <1>1, MqttGlueAssumption DEF AckTooOld, Requested
<1>4. Pending'
  BY DEF AckTooOld, Pending
<1>5. (Cardinality(InUse) <= MaxSubs)' /\ Agree' /\ Resent'
  BY <1>2, TableUntouched
<1>6. EarlyAckTaken'
  BY <1>1 DEF AckTooOld, EarlyAckTaken, Requested, Parked
<1> QED BY <1>3, <1>4, <1>5, <1>6 DEF IInv

\* The entries of a topic are reserved.
LEMMA ReserveInv ==
  ASSUME IInv, NEW th \in Threads, Reserve(th)
  PROVE  IInv'
<1> USE DEF IInv, Types, Places, At, To, table, thread, timing, env, bounds
<1>1. Types'
  BY DEF Reserve, Requested, States, Entries
<1>2. (Cardinality(InUse) <= MaxSubs)'
  <2>1. InUse' \subseteq InUse
    BY DEF Reserve, InUse, Entries
  <2> QED BY <2>1, RoomKept
<1>3. Pending'
  BY DEF Reserve, Pending
<1>4. Agree'
  BY DEF Reserve, Agree, ToSend, Entries
<1>5. Resent'
  BY DEF Reserve, Resent, ToSend, Entries
<1>6. EarlyAckTaken'
  BY DEF Reserve, EarlyAckTaken, Requested, Parked, Entries
<1> QED BY <1>1, <1>2, <1>3, <1>4, <1>5, <1>6 DEF IInv

\* What the topic of the thread's request leads to.
LEMMA ReservedTopic ==
  ASSUME NEW t
  PROVE  /\ Reserved(t) \in SUBSET Subs /\ Reserved(t) \subseteq Requested
         /\ \A s, r \in Subs : s \in Reserved(t) /\ sub[r] # "free" /\ s[1] = r[1]
                            /\ sub[r] = sub[s] /\ msgId[r] = msgId[s] => r \in Reserved(t)
BY DEF Reserved, Entries, Requested

\* The entries of a request are settled, by its failure or by a SUBACK that was parked.
LEMMA RecordSettledInv ==
  ASSUME IInv, NEW th \in Threads, RecordRest(th),
         NEW st \in {"failed", "acked"}, Settle(Reserved(topic[th]), st),
         \/ To(th, AfterTopic(th)) /\ UNCHANGED <<early, last>>
         \/ /\ \E i \in Overtaken(th) : early' = RemoveAt(early, i)
            /\ To(th, "plan")
            /\ last' = [last EXCEPT ![th] = FALSE]
  PROVE  IInv'
<1> USE DEF IInv, Types, Places, At, To, table, thread, timing, env, bounds, RecordRest
<1>1. UNCHANGED <<todo, connected>> /\ (pc'[Mqtt] = "collect" \/ pc[Mqtt] # "collect")
  BY Constants DEF AfterTopic
<1>2. /\ (Cardinality(InUse) <= MaxSubs)' /\ Agree' /\ Resent'
      /\ Requested' \subseteq Requested
      /\ \A s \in Requested' : msgId'[s] = msgId[s]
      /\ sub' \in [Subs -> States] /\ msgId' \in [Subs -> Ids \cup {0}]
      /\ expired' \subseteq Requested'
      /\ \A s \in Subs : sub'[s] # "requested" => msgId'[s] = 0
  BY <1>1, ReservedTopic, Settled
<1>3. /\ early' \in Seq(Acks) /\ Len(early') <= AckSlots
      /\ \A j \in DOMAIN early' : \E k \in DOMAIN early : early'[j] = early[k]
  <2>1. CASE early' = early
    BY <2>1
  <2>2. ASSUME NEW i \in Overtaken(th), early' = RemoveAt(early, i)
        PROVE  /\ early' \in Seq(Acks) /\ Len(early') <= AckSlots
               /\ \A j \in DOMAIN early' : \E k \in DOMAIN early : early'[j] = early[k]
    <3>1. i \in 1 .. Len(early)
      BY DEF Overtaken, Parked
    <3> QED BY <2>2, <3>1, Removed, MqttGlueAssumption
  <2> QED BY <2>1, <2>2
<1>4. Types'
  BY <1>2, <1>3 DEF AfterTopic
<1>5. Pending'
  BY DEF Pending, AfterTopic
<1>6. EarlyAckTaken'
  BY <1>2, <1>3 DEF EarlyAckTaken, Parked
<1> QED BY <1>2, <1>4, <1>5, <1>6

\* The identifier of a request is recorded.
LEMMA RecordSentInv ==
  ASSUME IInv, NEW th \in Threads, RecordRest(th), RecordSent(th)
  PROVE  IInv'
<1> USE DEF IInv, Types, Places, At, To, table, thread, timing, env, bounds, RecordRest, RecordSent
<1>1. Types'
  BY DEF Reserved, Requested, AfterTopic
<1>2. (Cardinality(InUse) <= MaxSubs)'
  BY DEF InUse
<1>3. Pending'
  BY DEF Pending, AfterTopic
<1>4. Agree'
  BY DEF Agree, ToSend, Reserved, Entries
<1>5. Resent'
  BY Constants DEF Resent, ToSend, AfterTopic
<1>6. EarlyAckTaken'
  BY DEF EarlyAckTaken, Requested, Parked, Overtaken
<1> QED BY <1>1, <1>2, <1>3, <1>4, <1>5, <1>6

\* The outcome of a request is recorded.
LEMMA RecordInv ==
  ASSUME IInv, NEW th \in Threads, Record(th)
  PROVE  IInv'
<1>1. RecordRest(th) /\ (RecordFailed(th) \/ RecordSent(th) \/ RecordOvertaken(th))
  BY RecordCases
<1>2. CASE RecordFailed(th)
  BY <1>1, <1>2, RecordSettledInv DEF RecordFailed
<1>3. CASE RecordSent(th)
  BY <1>1, <1>3, RecordSentInv
<1>4. CASE RecordOvertaken(th)
  BY <1>1, <1>4, RecordSettledInv DEF RecordOvertaken
<1> QED BY <1>1, <1>2, <1>3, <1>4

\* A round collects the topics to send again.
LEMMA CollectInv ==
  ASSUME IInv, NEW th \in Threads, Collect(th)
  PROVE  IInv'
<1> USE DEF IInv, Types, Places, At, To, table, thread, timing, env, bounds
<1>1. Types'
  BY Constants DEF Collect, Begin, Requested, NeedsSend
<1>2. (Cardinality(InUse) <= MaxSubs)'
  BY DEF Collect, Begin, InUse
<1> DEFINE S == {s[1] : s \in {s \in Subs : NeedsSend(s)}}
<1>3. /\ Begin(th, S) /\ S \in SUBSET Topics /\ pc[th] = "collect"
      /\ UNCHANGED <<sub, msgId, connected>>
  BY Constants DEF Collect
<1>4. \A s \in Subs : sub[s] = "none" => s[1] \in S
  BY DEF NeedsSend
<1> HIDE DEF S
<1>5. Pending' /\ (\A t : ToSend(t) => ToSend(t)') /\ \A t \in S : ToSend(t)'
  BY <1>3, Begun
<1>6. Agree'
  BY <1>3, <1>5, BegunAgree
<1>7. Resent'
  BY <1>3, <1>4, <1>5 DEF Resent
<1>8. EarlyAckTaken'
  BY DEF Collect, Begin, EarlyAckTaken, Requested, Parked
<1> QED BY <1>1, <1>2, <1>5, <1>6, <1>7, <1>8 DEF IInv

\* A subscribe call for an entry in the table.
Again(a, s) == /\ At(a, "idle") /\ sub[s] # "free"
               /\ Begin(a, {s[1]})
               /\ UNCHANGED <<table, connected, early, timing, topic, ret, plan, env>>

\* A topic in the table is subscribed again.
LEMMA SubscribeAgainInv ==
  ASSUME IInv, NEW a \in Apps, NEW s \in Subs, Again(a, s)
  PROVE  IInv'
<1> USE DEF IInv, Types, Places, At, To, table, thread, timing, env, bounds
<1>1. Types'
  BY Constants DEF Again, Begin, Requested
<1>2. (Cardinality(InUse) <= MaxSubs)'
  BY DEF Again, Begin, InUse
<1>3. Pending' /\ \A t : ToSend(t) => ToSend(t)'
  BY Begun, Constants DEF Again
<1>4. Agree'
  BY <1>3, BegunAgree DEF Again
<1>5. Resent'
  <2>1. /\ connected' = connected /\ sub' = sub
        /\ pc'[Mqtt] = "collect" <=> pc[Mqtt] = "collect"
    BY Constants DEF Again, Begin
  <2> QED BY <1>3, <2>1 DEF Resent
<1>6. EarlyAckTaken'
  BY DEF Again, Begin, EarlyAckTaken, Requested, Parked
<1> QED BY <1>1, <1>2, <1>3, <1>4, <1>5, <1>6 DEF IInv

\* A new entry.
LEMMA SubscribeNewInv ==
  ASSUME IInv, NEW a \in Apps, NEW s \in Subs, SubscribeNew(a, s)
  PROVE  IInv'
<1> USE DEF IInv, Types, Places, At, To, table, thread, timing, env, bounds
<1>1. Types'
  <2>1. sub' \in [Subs -> States] /\ msgId' = msgId /\ expired' = expired
        /\ Requested' = Requested
        /\ \A x \in Subs : sub'[x] # "requested" => msgId'[x] = 0
    BY DEF SubscribeNew, Begin, MayCall, States, Requested
  <2>2. /\ pc' \in [Threads -> Places] /\ todo' \in [Threads -> SUBSET Topics]
        /\ last' \in [Threads -> BOOLEAN]
        /\ \A th \in Threads : pc'[th] \in {"send", "record", "unsubscribe"} => topic[th] \in Topics
    <3>1. CASE Active(s[1])
      BY <3>1 DEF SubscribeNew
    <3>2. CASE ~Active(s[1])
      <4>1. pc' = [pc EXCEPT ![a] = "reserve"] /\ todo' = [todo EXCEPT ![a] = {s[1]}]
            /\ last' = [last EXCEPT ![a] = TRUE] /\ topic' = topic
        BY <3>2 DEF SubscribeNew, Begin
      <4> QED BY <4>1, Constants
    <3> QED BY <3>1, <3>2
  <2> QED BY <2>1, <2>2 DEF SubscribeNew
<1>2. (Cardinality(InUse) <= MaxSubs)'
  <2>1. s \notin InUse /\ InUse' = InUse \cup {s} /\ Cardinality(InUse) < MaxSubs
    BY DEF SubscribeNew, Begin, InUse
  <2>2. IsFiniteSet(InUse)
    BY Constants, FS_Subset DEF InUse
  <2>3. Cardinality(InUse') = Cardinality(InUse) + 1 /\ Cardinality(InUse) \in Nat
    BY <2>1, <2>2, FS_AddElement, FS_CardinalityType
  <2> QED BY <2>1, <2>3, MqttGlueAssumption
<1>3. Pending'
  <2>1. CASE Active(s[1])
    BY <2>1 DEF SubscribeNew, Pending
  <2>2. CASE ~Active(s[1])
    <3>1. /\ pc[a] = "idle" /\ Begin(a, {s[1]}) /\ a \in Threads
          /\ {s[1]} \in SUBSET Topics
      BY <2>2, Constants DEF SubscribeNew, MayCall
    <3> QED BY <3>1, Begun
  <2> QED BY <2>1, <2>2
<1>4. /\ a \in Threads /\ Mqtt # a /\ todo[a] = {} /\ s[1] \in Topics
      /\ connected' = connected /\ msgId' = msgId /\ msgId[s] = 0
      /\ pc'[Mqtt] = pc[Mqtt] /\ sub[s] = "free"
      /\ \A x \in Subs : x # s => sub'[x] = sub[x]
  BY Constants DEF SubscribeNew, Begin, MayCall, Pending
<1>5. ASSUME Active(s[1]) PROVE Agree' /\ Resent'
  <2>1. todo' = todo /\ sub'[s] = "acked"
    BY <1>5 DEF SubscribeNew
  <2>2. PICK x \in Subs : x[1] = s[1] /\ sub[x] = "acked"
    BY <1>5 DEF Active, Entries
  <2>3. \A y \in Subs : sub[y] # "free" /\ y[1] = s[1] =>
           ToSend(s[1]) \/ (sub[y] = "acked" /\ msgId[y] = msgId[s])
    <3>1. msgId[x] = 0
      BY <2>2
    <3> QED BY <1>4, <2>2, <3>1 DEF Agree
  <2>4. \A t : ToSend(t)' <=> ToSend(t)
    BY <2>1 DEF ToSend
  <2>5. Agree'
    <3> SUFFICES ASSUME NEW y \in Subs, NEW z \in Subs, sub'[y] # "free", sub'[z] # "free",
                        y[1] = z[1], ~ToSend(y[1])
                 PROVE  sub'[y] = sub'[z] /\ msgId[y] = msgId[z]
      BY <1>4, <2>4 DEF Agree
    <3>1. CASE y = s /\ z = s
      BY <3>1
    <3>2. CASE y = s /\ z # s
      BY <1>4, <2>1, <2>3, <3>2
    <3>3. CASE y # s /\ z = s
      BY <1>4, <2>1, <2>3, <3>3
    <3>4. CASE y # s /\ z # s
      BY <1>4, <3>4 DEF Agree
    <3> QED BY <3>1, <3>2, <3>3, <3>4
  <2>6. Resent'
    <3> SUFFICES ASSUME connected, pc[Mqtt] # "collect", NEW y \in Subs, sub'[y] = "none"
                 PROVE  ToSend(y[1])
      BY <1>4, <2>4 DEF Resent
    <3>1. y # s
      BY <2>1
    <3> QED BY <1>4, <3>1 DEF Resent
  <2> QED BY <2>5, <2>6
<1>6. ASSUME ~Active(s[1]) PROVE Agree' /\ Resent'
  <2>1. /\ pc[a] = "idle" /\ Begin(a, {s[1]}) /\ {s[1]} \in SUBSET Topics
    BY <1>4, <1>6 DEF SubscribeNew, MayCall
  <2>2. ToSend(s[1])'
    BY <1>4, <2>1, Begun
  <2>3. \A t : ToSend(t) => ToSend(t)'
    BY <1>4, <2>1, Begun
  <2>4. Agree'
    <3> SUFFICES ASSUME NEW y \in Subs, NEW z \in Subs, sub'[y] # "free", sub'[z] # "free",
                        y[1] = z[1], ~ToSend(y[1])'
                 PROVE  sub'[y] = sub'[z] /\ msgId[y] = msgId[z]
      BY <1>4 DEF Agree
    <3>1. y # s /\ z # s /\ ~ToSend(y[1])
      BY <2>2, <2>3
    <3> QED BY <1>4, <3>1 DEF Agree
  <2>5. Resent'
    <3> SUFFICES ASSUME connected, pc[Mqtt] # "collect", NEW y \in Subs, sub'[y] = "none"
                 PROVE  ToSend(y[1])'
      BY <1>4 DEF Resent
    <3>1. CASE y = s
      BY <2>2, <3>1
    <3>2. CASE y # s
      <4>1. ToSend(y[1])
        BY <1>4, <3>2 DEF Resent
      <4> QED BY <2>3, <4>1
    <3> QED BY <3>1, <3>2
  <2> QED BY <2>4, <2>5
<1>7. Agree' /\ Resent'
  BY <1>5, <1>6, Zenon
<1>8. EarlyAckTaken'
  BY DEF SubscribeNew, Begin, MayCall, EarlyAckTaken, Requested, Parked
<1> QED BY <1>1, <1>2, <1>3, <1>7, <1>8 DEF IInv

\* An entry goes.
LEMMA UnsubscribeInv ==
  ASSUME IInv, NEW a \in Apps, NEW t \in Topics, Unsubscribe(a, t)
  PROVE  IInv'
<1> USE DEF IInv, Types, Places, At, To, table, thread, timing, env, bounds
<1>1. Types'
  BY Constants DEF Unsubscribe, MayCall, Settle, Requested, States, InUse
<1>2. (Cardinality(InUse) <= MaxSubs)'
  <2>1. InUse' \subseteq InUse
    BY DEF Unsubscribe, Settle, InUse
  <2> QED BY <2>1, RoomKept
<1>3. Pending'
  BY Constants DEF Unsubscribe, MayCall, Settle, Pending
<1>4. Agree'
  BY DEF Unsubscribe, MayCall, Settle, Agree, ToSend
<1>5. Resent'
  BY Constants DEF Unsubscribe, MayCall, Settle, Resent, ToSend
<1>6. EarlyAckTaken'
  BY DEF Unsubscribe, MayCall, Settle, EarlyAckTaken, Requested, Parked
<1> QED BY <1>1, <1>2, <1>3, <1>4, <1>5, <1>6 DEF IInv

\* The connection comes up.
LEMMA ConnectedInv ==
  ASSUME IInv, Connected
  PROVE  IInv'
<1> USE DEF IInv, Types, Places, At, To, table, thread, timing, env, bounds
<1>1. Types'
  BY Constants DEF Connected, Event, ResetAll, Settle, Requested, States, InUse
<1>2. (Cardinality(InUse) <= MaxSubs)'
  <2>1. InUse' \subseteq InUse
    BY DEF Connected, ResetAll, Settle, InUse
  <2> QED BY <2>1, RoomKept
<1>3. Pending'
  BY Constants DEF Connected, Event, ResetAll, Settle, Pending
<1>4. Agree'
  BY DEF Connected, Event, ResetAll, Settle, Agree, ToSend, InUse
<1>5. Resent'
  BY Constants DEF Connected, Event, ResetAll, Settle, Resent, ToSend
<1>6. EarlyAckTaken'
  BY DEF Connected, Event, ResetAll, Settle, EarlyAckTaken, Requested, Parked, InUse
<1> QED BY <1>1, <1>2, <1>3, <1>4, <1>5, <1>6 DEF IInv

\* The connection is lost.
LEMMA DisconnectedInv ==
  ASSUME IInv, Disconnected
  PROVE  IInv'
<1> USE DEF IInv, Types, Places, At, To, table, thread, timing, env, bounds
<1>1. Types'
  BY Constants DEF Disconnected, Event, ResetAll, Settle, Requested, States, InUse
<1>2. (Cardinality(InUse) <= MaxSubs)'
  <2>1. InUse' \subseteq InUse
    BY DEF Disconnected, ResetAll, Settle, InUse
  <2> QED BY <2>1, RoomKept
<1>3. Pending'
  BY Constants DEF Disconnected, Event, ResetAll, Settle, Pending
<1>4. Agree'
  BY DEF Disconnected, Event, ResetAll, Settle, Agree, ToSend, InUse
<1>5. Resent'
  BY Constants DEF Disconnected, Event, ResetAll, Settle, Resent, ToSend
<1>6. EarlyAckTaken'
  BY DEF Disconnected, Event, ResetAll, Settle, EarlyAckTaken, Requested, Parked, InUse
<1> QED BY <1>1, <1>2, <1>3, <1>4, <1>5, <1>6 DEF IInv

\* The entries that await one answer.
LEMMA WaitingFor ==
  ASSUME NEW id
  PROVE  /\ Waiting(id) \in SUBSET Subs /\ Waiting(id) \subseteq Requested
         /\ \A s, r \in Subs : s \in Waiting(id) /\ sub[r] # "free" /\ s[1] = r[1]
                            /\ sub[r] = sub[s] /\ msgId[r] = msgId[s] => r \in Waiting(id)
BY DEF Waiting, Requested

\* An answer settles the entries that await it.
LEMMA AnswerInv ==
  ASSUME IInv, NEW id, NEW st \in {"failed", "acked"}, Settle(Waiting(id), st),
         At(Mqtt, "idle"), To(Mqtt, "plan"), replies' \subseteq replies,
         UNCHANGED <<connected, early, timing, todo, topic, ret, plan, last, link, broker,
                     bounds>>
  PROVE  IInv'
<1> USE DEF IInv, Types, Places, At, To, table, thread, timing, env, bounds
<1>1. /\ (Cardinality(InUse) <= MaxSubs)' /\ Agree' /\ Resent'
      /\ Requested' \subseteq Requested
      /\ \A s \in Requested' : msgId'[s] = msgId[s]
      /\ sub' \in [Subs -> States] /\ msgId' \in [Subs -> Ids \cup {0}]
      /\ expired' \subseteq Requested'
      /\ \A s \in Subs : sub'[s] # "requested" => msgId'[s] = 0
  BY WaitingFor, Settled
<1>2. Types'
  BY <1>1, Constants
<1>3. Pending'
  BY Constants DEF Pending
<1>4. EarlyAckTaken'
  BY <1>1 DEF EarlyAckTaken, Parked
<1> QED BY <1>1, <1>2, <1>3, <1>4

\* An answer nobody awaits is parked.
LEMMA ParkInv ==
  ASSUME IInv, NEW r \in replies, Park(r), Waiting(r.id) = {}, replies' \subseteq replies,
         UNCHANGED <<table, pc, connected, timing, todo, topic, ret, plan, last, link, broker,
                     bounds>>
  PROVE  IInv'
<1> USE DEF IInv, Types, Places, At, To, table, thread, timing, env, bounds
<1> DEFINE kept == IF Len(early) = AckSlots THEN Tail(early) ELSE early
           new == [id |-> r.id, rejected |-> r.kind = "rejected"]
<1>1. /\ kept \in Seq(Acks) /\ Len(kept) + 1 <= AckSlots
      /\ \A j \in DOMAIN kept : \E k \in DOMAIN early : kept[j] = early[k]
  <2>1. CASE Len(early) = AckSlots
    <3>1. early # <<>>
      BY <2>1, MqttGlueAssumption
    <3>2. /\ Tail(early) \in Seq(Acks) /\ Len(Tail(early)) = Len(early) - 1
          /\ \A j \in 1 .. Len(Tail(early)) : Tail(early)[j] = early[j + 1]
      BY <3>1, HeadTailProperties
    <3> DEFINE rest == Tail(early)
    <3>3. rest \in Seq(Acks) /\ Len(rest) + 1 <= AckSlots /\ DOMAIN rest = 1 .. Len(rest)
      BY <2>1, <3>2, MqttGlueAssumption
    <3>4. \A j \in DOMAIN rest : \E k \in DOMAIN early : rest[j] = early[k]
      <4> SUFFICES ASSUME NEW j \in DOMAIN rest
                   PROVE  rest[j] = early[j + 1] /\ j + 1 \in DOMAIN early
        OBVIOUS
      <4> QED BY <3>2, <3>3
    <3> QED BY <2>1, <3>3, <3>4
  <2>2. CASE Len(early) # AckSlots
    BY <2>2, MqttGlueAssumption
  <2> QED BY <2>1, <2>2
<1>2. new \in Acks
  BY DEF Acks, Reports
<1>3. early' = Append(kept, new)
  BY DEF Park
<1> HIDE DEF kept
<1>4. /\ early' \in Seq(Acks) /\ Len(early') <= AckSlots
      /\ \A j \in DOMAIN early' : early'[j] = new \/ \E k \in DOMAIN early : early'[j] = early[k]
  BY <1>1, <1>2, <1>3, MqttGlueAssumption
<1>5. Types'
  BY <1>4 DEF Requested
<1>6. (Cardinality(InUse) <= MaxSubs)' /\ Agree' /\ Resent'
  BY TableUntouched DEF Resent, ToSend
<1>7. Pending'
  BY DEF Pending
<1>8. EarlyAckTaken'
  BY <1>4 DEF EarlyAckTaken, Parked, Requested, Waiting
<1> QED BY <1>5, <1>6, <1>7, <1>8

\* A SUBACK comes.
LEMMA SubscribedInv ==
  ASSUME IInv, NEW r \in replies, Subscribed(r)
  PROVE  IInv'
<1>1. /\ At(Mqtt, "idle") /\ replies' \subseteq replies
      /\ UNCHANGED <<connected, timing, todo, topic, ret, plan, last, link, broker, bounds>>
  BY DEF Subscribed, Event
<1>2. CASE Waiting(r.id) # {}
  <2>1. /\ Settle(Waiting(r.id), "failed") \/ Settle(Waiting(r.id), "acked")
        /\ To(Mqtt, "plan") /\ UNCHANGED early
    BY <1>2 DEF Subscribed
  <2> QED BY <1>1, <2>1, AnswerInv
<1>3. CASE Waiting(r.id) = {}
  <2>1. Park(r) /\ UNCHANGED <<table, pc>>
    BY <1>3 DEF Subscribed
  <2> QED BY <1>1, <1>3, <2>1, ParkInv
<1> QED BY <1>2, <1>3

\* esp-mqtt drops a request.
LEMMA DeletedInv ==
  ASSUME IInv, NEW r \in replies, Deleted(r)
  PROVE  IInv'
<1>1. /\ At(Mqtt, "idle") /\ replies' \subseteq replies
      /\ UNCHANGED <<connected, early, timing, todo, topic, ret, plan, last, link, broker, bounds>>
  BY DEF Deleted, Event
<1>2. CASE Waiting(r.id) # {}
  <2>1. Settle(Waiting(r.id), "failed") /\ To(Mqtt, "plan")
    BY <1>2 DEF Deleted
  <2> QED BY <1>1, <2>1, AnswerInv
<1>3. CASE Waiting(r.id) = {}
  <2>1. UNCHANGED <<table, pc>>
    BY <1>3 DEF Deleted
  <2> USE <1>1, <2>1 DEF IInv, Types, table, thread, timing, env, bounds
  <2>2. Types'
    BY DEF Requested
  <2>3. (Cardinality(InUse) <= MaxSubs)' /\ Agree' /\ Resent'
    BY TableUntouched DEF Resent, ToSend
  <2>4. Pending' /\ EarlyAckTaken'
    BY DEF Pending, EarlyAckTaken, Parked, Requested
  <2> QED BY <2>2, <2>3, <2>4
<1> QED BY <1>2, <1>3

-----------------------------------------------------------------------------
\* The inductive invariant: at first, and then with every step.
LEMMA InitInv == Init => IInv
<1> SUFFICES ASSUME Init PROVE IInv
  OBVIOUS
<1> USE DEF Init
<1>1. Types
  <2>1. last \in [Threads -> BOOLEAN] /\ connected \in BOOLEAN /\ armPending \in BOOLEAN
        /\ timer \in BOOLEAN /\ queued \in BOOLEAN /\ link \in BOOLEAN
    OBVIOUS
  <2>2. early \in Seq(Acks) /\ Len(early) <= AckSlots
    BY MqttGlueAssumption
  <2> QED BY <2>1, <2>2 DEF Types, States, Places
<1>2. Cardinality(InUse) <= MaxSubs
  <2>1. InUse = {}
    BY DEF InUse
  <2> QED BY <2>1, FS_EmptySet, MqttGlueAssumption
<1>3. Pending /\ Agree /\ Resent /\ EarlyAckTaken
  BY DEF Pending, Agree, Resent, EarlyAckTaken, Requested
<1> QED BY <1>1, <1>2, <1>3 DEF IInv

\* Every step.
LEMMA NextInv == IInv /\ [Next]_vars => IInv'
<1> SUFFICES ASSUME IInv, [Next]_vars PROVE IInv'
  OBVIOUS
<1>1. ASSUME NEW th \in Threads, Step(th)
      PROVE  IInv'
  BY <1>1, ReserveInv, SendInv, RecordInv, PlanInv, CommandInv DEF Step
<1>2. ASSUME NEW a \in Apps, Api(a) \/ AppStep(a)
      PROVE  IInv'
  <2>1. CASE \E s \in Subs : SubscribeNew(a, s)
    BY <2>1, SubscribeNewInv
  <2>2. CASE \E s \in Subs, upgrade \in BOOLEAN : SubscribeAgain(a, s, upgrade)
    <3>1. \E s \in Subs : Again(a, s)
      BY <2>2 DEF SubscribeAgain, Again, MayCall
    <3> QED BY <3>1, SubscribeAgainInv
  <2>3. CASE \E t \in Topics : Unsubscribe(a, t)
    BY <2>3, UnsubscribeInv
  <2>4. CASE AppStep(a)
    BY <1>1, <2>4, ClientUnsubscribeInv, Constants DEF AppStep
  <2> QED BY <1>2, <2>1, <2>2, <2>3, <2>4 DEF Api
<1>3. CASE MqttStep
  BY <1>1, <1>3, CollectInv, HaltInv, Constants DEF MqttStep
<1>4. CASE WorkStep
  BY <1>1, <1>4, CollectInv, RetryRoundInv, Constants DEF WorkStep
<1>5. CASE Report
  BY <1>5, SubscribedInv, DeletedInv DEF Report
<1>6. CASE AckTooOld \/ Rearm \/ Connected \/ Disconnected
  BY <1>6, AckTooOldInv, RearmInv, ConnectedInv, DisconnectedInv
<1>7. CASE \E S \in SUBSET Requested : TimerFires(S)
  BY <1>7, TimerFiresInv
<1>8. CASE UNCHANGED vars
  <2> USE <1>8 DEF vars, IInv, Types, table, thread, timing, env, bounds
  <2>1. Types'
    BY DEF Requested
  <2>2. (Cardinality(InUse) <= MaxSubs)' /\ Agree' /\ Resent'
    BY TableUntouched DEF Resent, ToSend
  <2>3. Pending' /\ EarlyAckTaken'
    BY DEF Pending, EarlyAckTaken, Parked, Requested
  <2> QED BY <2>1, <2>2, <2>3
<1> QED BY <1>2, <1>3, <1>4, <1>5, <1>6, <1>7, <1>8 DEF Next

\* It holds throughout.
LEMMA Invariant == Spec => []IInv
BY InitInv, NextInv, PTL DEF Spec

-----------------------------------------------------------------------------
(***************************************************************************)
(* Every variable keeps its type; the table never holds more entries than  *)
(* MAX_MQTT_SUBSCRIPTIONS and no more SUBACKs are parked than there are    *)
(* slots for.                                                              *)
(***************************************************************************)
THEOREM Typing == Spec => []TypeOK
<1>1. IInv => TypeOK
  BY DEF IInv, Types, TypeOK, Places
<1> QED BY <1>1, Invariant, PTL

(***************************************************************************)
(* Whatever the application tasks, the mqtt task and the retry rounds      *)
(* interleave, reconnects and lost requests included, the callbacks of one *)
(* topic agree on its subscription once no call or round is under way      *)
(* (esp_mqtt_glue_send_subscribe).                                         *)
(***************************************************************************)
THEOREM TopicsAgree == Spec => []SameTopicAgrees
<1>1. IInv => SameTopicAgrees
  BY DEF IInv, Types, Pending, Agree, ToSend, SameTopicAgrees, Quiet, At, InUse
<1> QED BY <1>1, Invariant, PTL

(***************************************************************************)
(* A SUBACK that overtook the recording of its request is never left       *)
(* parked (take_early_ack).                                                *)
(***************************************************************************)
THEOREM EarlyAcksTaken == Spec => []EarlyAckTaken
<1>1. IInv => EarlyAckTaken
  BY DEF IInv
<1> QED BY <1>1, Invariant, PTL

(***************************************************************************)
(* After a CONNECTED event every subscription is sent again, or somebody   *)
(* is about to (resubscribe_pending), over any number of connections.      *)
(***************************************************************************)
THEOREM AllResent == Spec => []ResentOnConnect
<1>1. IInv => ResentOnConnect
  BY DEF IInv, Resent, ResentOnConnect, ToSend, At
<1> QED BY <1>1, Invariant, PTL

-----------------------------------------------------------------------------
(* What is acknowledged is active                                          *)

\* A thread is about to send for the topic, or is sending.
SendDue(t) == \E th \in Threads : t \in todo[th] \/ (pc[th] = "send" /\ topic[th] = t)

\* The broker delivers the entry's topic or is about to be asked, by a thread
\* on its way or by the collection after a CONNECTED event.
Covered(s) == \/ s[1] \in broker \/ SendDue(s[1])
              \/ pc[Mqtt] = "collect" /\ sub[s] = "none"

CoverInv == /\ connected = link /\ trouble \in Nat
            /\ connected /\ trouble = 0 => \A s \in InUse : Covered(s)

\* Nobody subscribes to a topic between the removal of its last entry and the
\* UNSUBSCRIBE.
ClearToUnsubscribe == \A a \in Apps : At(a, "unsubscribe") => Entries(topic[a]) = {}

\* A step that takes nothing away that is not made up for.
LEMMA CoverKept ==
  ASSUME IInv, CoverInv, UNCHANGED <<connected, link>>, trouble' \in Nat,
         trouble' = 0 => trouble = 0,
         \A t \in broker : t \in broker' \/ \A s \in InUse' : s[1] # t,
         connected /\ trouble' = 0 => \A t : SendDue(t) => SendDue(t)' \/ t \in broker',
         connected => \A s \in InUse' :
            \/ SendDue(s[1])'
            \/ \E r \in InUse : r[1] = s[1] /\ sub[r] # "none"
            \/ s \in InUse /\ sub'[s] = sub[s] /\ pc'[Mqtt] = pc[Mqtt]
  PROVE  CoverInv'
<1> SUFFICES ASSUME connected, trouble' = 0, NEW s \in InUse', ~SendDue(s[1])'
             PROVE  Covered(s)'
  BY DEF CoverInv, Covered
<1>1. \A r \in InUse : Covered(r)
  BY DEF CoverInv
<1>2. ASSUME SendDue(s[1]) \/ s[1] \in broker
      PROVE  s[1] \in broker'
  BY <1>2
<1>3. ASSUME NEW r \in InUse, r[1] = s[1], sub[r] # "none" PROVE s[1] \in broker'
  <2>1. Covered(r)
    BY <1>1
  <2> QED BY <1>2, <1>3, <2>1 DEF Covered
<1>4. ASSUME s \in InUse, sub'[s] = sub[s], pc'[Mqtt] = pc[Mqtt] PROVE Covered(s)'
  <2>1. Covered(s)
    BY <1>1, <1>4
  <2> QED BY <1>2, <1>4, <2>1 DEF Covered
<1>5. s[1] \in broker' \/ Covered(s)'
  BY <1>3, <1>4
<1> QED BY <1>5 DEF Covered

\* A step that concerns neither the table nor the topics to send.
LEMMA CoverUntouched ==
  ASSUME IInv, CoverInv, UNCHANGED <<sub, todo, connected, link, broker>>,
         trouble' \in {trouble, trouble + 1},
         \A th \in Threads : pc[th] = "send" => pc'[th] = "send" /\ topic'[th] = topic[th],
         pc[Mqtt] = "collect" => pc'[Mqtt] = "collect"
  PROVE  CoverInv'
<1>1. \A t : SendDue(t) => SendDue(t)'
  BY DEF SendDue
<1>2. trouble' \in Nat /\ (trouble' = 0 => trouble = 0)
  BY DEF CoverInv
<1>3. InUse' = InUse
  BY DEF InUse
<1> QED BY <1>1, <1>2, <1>3 DEF CoverInv, Covered

\* The steps of a thread that leave the table as it is, but for a send.
LEMMA IdleSteps ==
  ASSUME IInv, CoverInv,
         \/ \E th \in Threads : Plan(th) \/ Command(th)
         \/ Halt \/ Rearm \/ RetryRound \/ AckTooOld
         \/ \E S \in SUBSET Requested : TimerFires(S)
  PROVE  CoverInv'
<1> USE DEF IInv, Types, At, To, table, thread, timing, env, bounds, Trouble
<1>1. ASSUME NEW th \in Threads, Plan(th) PROVE CoverInv'
  BY <1>1, CoverUntouched DEF Plan
<1>2. ASSUME NEW th \in Threads, Command(th) PROVE CoverInv'
  BY <1>2, CoverUntouched DEF Command
<1>3. CASE Halt
  BY <1>3, CoverUntouched, Constants DEF Halt
<1>4. CASE Rearm
  BY <1>4, CoverUntouched, Constants DEF Rearm
<1>5. CASE RetryRound
  BY <1>5, CoverUntouched, Constants DEF RetryRound
<1>6. CASE AckTooOld
  BY <1>6, CoverUntouched DEF AckTooOld
<1>7. ASSUME NEW S \in SUBSET Requested, TimerFires(S) PROVE CoverInv'
  BY <1>7, CoverUntouched DEF TimerFires
<1> QED BY <1>1, <1>2, <1>3, <1>4, <1>5, <1>6, <1>7

\* A topic is reserved.
LEMMA ReserveCover ==
  ASSUME IInv, CoverInv, NEW th \in Threads, Reserve(th)
  PROVE  CoverInv'
<1> USE DEF IInv, Types, At, To, timing, env, bounds
<1>1. PICK t \in todo[th] :
         /\ sub' = [s \in Subs |-> IF s \in Entries(t) THEN "requested" ELSE sub[s]]
         /\ topic' = [topic EXCEPT ![th] = t]
         /\ todo' = [todo EXCEPT ![th] = @ \ {t}]
  BY DEF Reserve
<1>2. /\ pc[th] = "reserve" /\ pc' = [pc EXCEPT ![th] = IF connected THEN "send" ELSE "record"]
      /\ UNCHANGED <<connected, link, broker, trouble>>
  BY DEF Reserve
<1>3. ASSUME connected, NEW u, SendDue(u) PROVE SendDue(u)'
  <2>1. PICK h \in Threads : u \in todo[h] \/ (pc[h] = "send" /\ topic[h] = u)
    BY <1>3 DEF SendDue
  <2>2. CASE u = t
    <3>1. pc'[th] = "send" /\ topic'[th] = u
      BY <1>1, <1>2, <1>3, <2>2
    <3> QED BY <3>1 DEF SendDue
  <2>3. CASE u # t
    <3>1. u \in todo'[h] \/ (pc'[h] = "send" /\ topic'[h] = u)
      BY <1>1, <1>2, <2>1, <2>3
    <3> QED BY <3>1 DEF SendDue
  <2> QED BY <2>2, <2>3
<1>4. CASE ~connected
  BY <1>2, <1>4 DEF CoverInv
<1>5. CASE connected
  <2>1. SendDue(t)'
    BY <1>3, <1>5 DEF SendDue
  <2>2. \A s \in InUse' : s \in InUse
    BY <1>1 DEF InUse, Entries
  <2>3. ASSUME NEW s \in InUse'
        PROVE  SendDue(s[1])' \/ (s \in InUse /\ sub'[s] = sub[s] /\ pc'[Mqtt] = pc[Mqtt])
               \/ \E r \in InUse : r[1] = s[1] /\ sub[r] # "none"
    <3>1. CASE s \in Entries(t)
      BY <2>1, <3>1 DEF Entries
    <3>2. CASE s \notin Entries(t) /\ sub[s] # "none"
      BY <2>2, <3>2
    <3>3. CASE s \notin Entries(t) /\ sub[s] = "none"
      <4>1. sub'[s] = sub[s] /\ s \in InUse
        BY <1>1, <2>2, <3>3 DEF InUse
      <4>2. CASE th = Mqtt
        <5>1. ToSend(s[1])
          BY <1>2, <1>5, <3>3, <4>1, <4>2 DEF Resent, InUse
        <5>2. SendDue(s[1])'
          BY <1>3, <1>5, <5>1 DEF ToSend, SendDue
        <5> QED BY <5>2
      <4>3. CASE th # Mqtt
        BY <1>2, <4>1, <4>3, Constants
      <4> QED BY <4>2, <4>3
    <3> QED BY <3>1, <3>2, <3>3
  <2>4. trouble' \in Nat /\ (trouble' = 0 => trouble = 0) /\ UNCHANGED <<connected, link, broker>>
    BY <1>2 DEF CoverInv
  <2> QED BY <1>3, <1>5, <2>3, <2>4, CoverKept
<1> QED BY <1>4, <1>5

\* A request is sent: it reaches the broker, or there is trouble.
LEMMA SendCover ==
  ASSUME IInv, CoverInv, NEW th \in Threads, Send(th)
  PROVE  CoverInv'
<1> USE DEF IInv, Types, At, To, table, timing, bounds
<1>1. /\ pc[th] = "send" /\ pc' = [pc EXCEPT ![th] = "record"]
      /\ UNCHANGED <<sub, todo, topic, connected, link>>
  BY DEF Send
<1>2. /\ broker \subseteq broker' /\ trouble' \in {trouble, trouble + 1}
      /\ link /\ trouble' = trouble => topic[th] \in broker'
  BY DEF Send, Trouble, CoverInv
<1>3. trouble' \in Nat /\ (trouble' = 0 => trouble = 0 /\ trouble' = trouble)
  BY <1>2 DEF CoverInv
<1>4. ASSUME connected, trouble' = 0, NEW t, SendDue(t) PROVE SendDue(t)' \/ t \in broker'
  <2>1. PICK h \in Threads : t \in todo[h] \/ (pc[h] = "send" /\ topic[h] = t)
    BY <1>4 DEF SendDue
  <2>2. CASE h = th /\ t \notin todo[h]
    BY <1>2, <1>3, <1>4, <2>1, <2>2 DEF CoverInv
  <2>3. CASE h # th \/ t \in todo[h]
    <3>1. t \in todo'[h] \/ (pc'[h] = "send" /\ topic'[h] = t)
      BY <1>1, <2>1, <2>3
    <3> QED BY <3>1 DEF SendDue
  <2> QED BY <2>2, <2>3
<1>5. ASSUME connected, NEW s \in InUse'
      PROVE  s \in InUse /\ (sub[s] # "none" \/ pc'[Mqtt] = pc[Mqtt] \/ SendDue(s[1])')
  <2>1. s \in InUse
    BY <1>1 DEF InUse
  <2>2. ASSUME th = Mqtt, sub[s] = "none" PROVE SendDue(s[1])'
    <3>1. ToSend(s[1])
      BY <1>1, <1>5, <2>1, <2>2 DEF Resent, InUse
    <3> QED BY <1>1, <3>1 DEF ToSend, SendDue
  <2>3. th # Mqtt => pc'[Mqtt] = pc[Mqtt]
    BY <1>1, Constants
  <2> QED BY <2>1, <2>2, <2>3
<1> QED BY <1>1, <1>2, <1>3, <1>4, <1>5, CoverKept

\* The entries that awaited the outcome of a request are settled.
LEMMA SettledCover ==
  ASSUME IInv, CoverInv, NEW S \in SUBSET Requested, NEW st \in {"failed", "acked"},
         Settle(S, st), UNCHANGED <<todo, connected, link, broker, trouble>>,
         \A th \in Threads : pc[th] = "send" => pc'[th] = "send" /\ topic'[th] = topic[th],
         pc[Mqtt] = "collect" => pc'[Mqtt] = "collect"
  PROVE  CoverInv'
<1>1. \A t : SendDue(t) => SendDue(t)'
  BY DEF SendDue
<1>2. \A s \in InUse' : s \in InUse /\ (s \in S => sub[s] # "none") /\ (s \notin S => sub'[s] = sub[s])
  BY DEF Settle, InUse, Requested, IInv, Types
<1>3. ASSUME connected, trouble = 0, NEW s \in InUse' PROVE Covered(s)'
  <2>1. Covered(s)
    BY <1>2, <1>3 DEF CoverInv
  <2> QED BY <1>1, <1>2, <2>1 DEF Covered
<1> QED BY <1>3 DEF CoverInv

\* The outcome of a request is recorded.
LEMMA RecordCover ==
  ASSUME IInv, CoverInv, NEW th \in Threads, Record(th)
  PROVE  CoverInv'
<1> USE DEF IInv, Types, At, To, timing, env, bounds
<1>1. RecordRest(th) /\ (RecordFailed(th) \/ RecordSent(th) \/ RecordOvertaken(th))
  BY RecordCases
<1>2. /\ pc[th] = "record" /\ UNCHANGED <<todo, connected, link, broker, trouble>>
      /\ pc' = [pc EXCEPT ![th] = AfterTopic(th)] \/ pc' = [pc EXCEPT ![th] = "plan"]
      /\ topic' = [topic EXCEPT ![th] = NoTopic]
  BY <1>1 DEF RecordRest, RecordFailed, RecordSent, RecordOvertaken
<1>3. /\ \A h \in Threads : pc[h] = "send" => pc'[h] = "send" /\ topic'[h] = topic[h]
      /\ pc[Mqtt] = "collect" => pc'[Mqtt] = "collect"
  BY <1>2, Constants
<1>4. CASE RecordSent(th)
  BY <1>2, <1>3, <1>4, CoverUntouched DEF RecordSent
<1>5. CASE RecordFailed(th) \/ RecordOvertaken(th)
  <2>1. PICK st \in {"failed", "acked"} : Settle(Reserved(topic[th]), st)
    BY <1>5 DEF RecordFailed, RecordOvertaken
  <2>2. Reserved(topic[th]) \in SUBSET Requested
    BY ReservedTopic
  <2> QED BY <1>2, <1>3, <2>1, <2>2, SettledCover
<1> QED BY <1>1, <1>4, <1>5

\* esp-mqtt reports the outcome of a request.
LEMMA ReportCover ==
  ASSUME IInv, CoverInv, NEW r \in replies, Subscribed(r) \/ Deleted(r)
  PROVE  CoverInv'
<1> USE DEF At, To, table, timing, bounds
<1>1. pc[Mqtt] = "idle" /\ UNCHANGED <<todo, topic, connected, link, broker, trouble>>
  BY DEF Subscribed, Deleted, Event
<1>2. CASE UNCHANGED <<sub, pc>>
  BY <1>1, <1>2, CoverUntouched
<1>3. ASSUME NEW st \in {"failed", "acked"}, Settle(Waiting(r.id), st), To(Mqtt, "plan")
      PROVE  CoverInv'
  <2>1. Waiting(r.id) \in SUBSET Requested
    BY WaitingFor
  <2>2. /\ \A h \in Threads : pc[h] = "send" => pc'[h] = "send"
        /\ pc[Mqtt] = "collect" => pc'[Mqtt] = "collect"
    BY <1>1, <1>3, Constants DEF IInv, Types
  <2> QED BY <1>1, <1>3, <2>1, <2>2, SettledCover
<1>4. CASE Subscribed(r)
  <2>1. CASE Waiting(r.id) = {}
    BY <1>2, <1>4, <2>1 DEF Subscribed
  <2>2. CASE Waiting(r.id) # {}
    BY <1>3, <1>4, <2>2 DEF Subscribed
  <2> QED BY <2>1, <2>2
<1>5. CASE Deleted(r)
  <2>1. CASE Waiting(r.id) = {}
    BY <1>2, <1>5, <2>1 DEF Deleted
  <2>2. CASE Waiting(r.id) # {}
    BY <1>3, <1>5, <2>2 DEF Deleted
  <2> QED BY <2>1, <2>2
<1> QED BY <1>4, <1>5

\* A thread begins on topics, beside those that others were to send.
LEMMA BegunDue ==
  ASSUME IInv, NEW th \in Threads, pc[th] \in {"idle", "collect"}, NEW S \in SUBSET Topics,
         Begin(th, S), UNCHANGED topic
  PROVE  (\A t : SendDue(t) => SendDue(t)') /\ \A t \in S : SendDue(t)'
<1>1. (\A t : ToSend(t) => ToSend(t)') /\ \A t \in S : ToSend(t)'
  BY Begun
<1>2. \A t : ToSend(t)' => SendDue(t)'
  BY DEF ToSend, SendDue
<1>3. \A h \in Threads : pc[h] = "send" => pc'[h] = "send"
  BY DEF Begin, To, IInv, Types
<1>4. \A t : SendDue(t) => SendDue(t)'
  BY <1>1, <1>2, <1>3 DEF SendDue, ToSend
<1> QED BY <1>1, <1>2, <1>4

\* A round collects the topics to send, those of all entries not sent yet.
LEMMA CollectCover ==
  ASSUME IInv, CoverInv, NEW th \in Threads, Collect(th)
  PROVE  CoverInv'
<1> DEFINE S == {s[1] : s \in {s \in Subs : NeedsSend(s)}}
<1>1. /\ Begin(th, S) /\ S \in SUBSET Topics /\ pc[th] = "collect"
      /\ UNCHANGED <<sub, topic, connected, link, broker, trouble>>
  BY Constants DEF Collect, At, table, timing, env, bounds
<1>2. \A s \in Subs : sub[s] = "none" => s[1] \in S
  BY DEF NeedsSend
<1> HIDE DEF S
<1>3. (\A t : SendDue(t) => SendDue(t)') /\ \A t \in S : SendDue(t)'
  BY <1>1, BegunDue
<1>4. ASSUME connected, trouble = 0, NEW s \in InUse' PROVE Covered(s)'
  <2>1. s \in InUse /\ Covered(s)
    BY <1>1, <1>4 DEF InUse, CoverInv
  <2>2. s \in Subs
    BY <2>1 DEF InUse
  <2> QED BY <1>1, <1>2, <1>3, <2>1, <2>2 DEF Covered
<1> QED BY <1>1, <1>4 DEF CoverInv

\* An application task subscribes.
LEMMA SubscribeCover ==
  ASSUME IInv, CoverInv, NEW a \in Apps, NEW s \in Subs,
         SubscribeNew(a, s) \/ (Again(a, s) /\ UNCHANGED trouble)
  PROVE  CoverInv'
<1>1. /\ a \in Threads /\ a # Mqtt /\ pc[a] = "idle" /\ {s[1]} \in SUBSET Topics
      /\ UNCHANGED <<topic, connected, link, broker, trouble>>
      /\ \A x \in Subs : x # s => sub'[x] = sub[x]
  BY Constants DEF SubscribeNew, Again, MayCall, At, table, timing, env, bounds, IInv, Types
<1>2. CASE SubscribeNew(a, s) /\ Active(s[1])
  <2>1. UNCHANGED <<pc, todo>> /\ sub'[s] = "acked"
    BY <1>2 DEF SubscribeNew, IInv, Types
  <2>2. PICK r \in InUse : r[1] = s[1] /\ sub[r] = "acked"
    BY <1>2 DEF Active, Entries, InUse
  <2>3. \A t : SendDue(t)' <=> SendDue(t)
    BY <1>1, <2>1 DEF SendDue
  <2>4. ASSUME connected, trouble = 0, NEW x \in InUse' PROVE Covered(x)'
    <3>1. CASE x = s
      <4>1. Covered(r)
        BY <2>4 DEF CoverInv
      <4> QED BY <1>1, <2>2, <2>3, <3>1, <4>1 DEF Covered
    <3>2. CASE x # s
      <4>1. x \in InUse /\ sub'[x] = sub[x]
        BY <1>1, <3>2 DEF InUse
      <4>2. Covered(x)
        BY <2>4, <4>1 DEF CoverInv
      <4> QED BY <1>1, <2>1, <2>3, <4>1, <4>2 DEF Covered
    <3> QED BY <3>1, <3>2
  <2> QED BY <1>1, <2>4 DEF CoverInv
<1>3. CASE Begin(a, {s[1]})
  <2>1. (\A t : SendDue(t) => SendDue(t)') /\ SendDue(s[1])'
    BY <1>1, <1>3, BegunDue
  <2>2. pc'[Mqtt] = pc[Mqtt]
    BY <1>1, <1>3, Constants DEF Begin, To, IInv, Types
  <2>3. ASSUME connected, trouble = 0, NEW x \in InUse' PROVE Covered(x)'
    <3>1. CASE x = s
      BY <2>1, <3>1 DEF Covered
    <3>2. CASE x # s
      <4>1. x \in InUse /\ sub'[x] = sub[x]
        BY <1>1, <3>2 DEF InUse
      <4>2. Covered(x)
        BY <2>3, <4>1 DEF CoverInv
      <4> QED BY <1>1, <2>1, <2>2, <4>1, <4>2 DEF Covered
    <3> QED BY <3>1, <3>2
  <2> QED BY <1>1, <2>3 DEF CoverInv
<1>4. (SubscribeNew(a, s) /\ Active(s[1])) \/ Begin(a, {s[1]})
  BY DEF SubscribeNew, Again
<1> QED BY <1>2, <1>3, <1>4

\* An application task unsubscribes: first from the table.
LEMMA UnsubscribeCover ==
  ASSUME IInv, CoverInv, NEW a \in Apps, NEW t \in Topics, Unsubscribe(a, t)
  PROVE  CoverInv'
<1>1. PICK s \in InUse :
         /\ Settle({s}, "free")
         /\ \/ To(a, "unsubscribe") /\ topic' = [topic EXCEPT ![a] = s[1]]
            \/ UNCHANGED <<pc, topic>>
  BY DEF Unsubscribe
<1>2. /\ a \in Threads /\ a # Mqtt /\ pc[a] = "idle"
      /\ UNCHANGED <<todo, connected, link, broker, trouble>>
  BY Constants DEF Unsubscribe, MayCall, At, timing, env
<1>3. /\ \A h \in Threads : pc[h] = "send" => pc'[h] = "send" /\ topic'[h] = topic[h]
      /\ pc'[Mqtt] = pc[Mqtt]
  BY <1>1, <1>2, Constants DEF To, IInv, Types
<1>4. \A x : SendDue(x) => SendDue(x)'
  BY <1>2, <1>3 DEF SendDue
<1>5. \A x \in InUse' : x \in InUse /\ sub'[x] = sub[x]
  BY <1>1 DEF Settle, InUse
<1>6. ASSUME connected, trouble = 0, NEW x \in InUse' PROVE Covered(x)'
  <2>1. Covered(x)
    BY <1>5, <1>6 DEF CoverInv
  <2> QED BY <1>2, <1>3, <1>4, <1>5, <2>1 DEF Covered
<1> QED BY <1>2, <1>6 DEF CoverInv

\* Then, with nobody subscribed to it again, at the broker.
LEMMA ClientUnsubscribeCover ==
  ASSUME IInv, CoverInv, ClearToUnsubscribe, NEW a \in Apps, ClientUnsubscribe(a)
  PROVE  CoverInv'
<1>1. /\ a \in Threads /\ a # Mqtt /\ pc[a] = "unsubscribe" /\ broker' = broker \ {topic[a]}
      /\ UNCHANGED <<sub, todo, connected, link, trouble>>
      /\ topic' = [topic EXCEPT ![a] = NoTopic] /\ pc' = [pc EXCEPT ![a] = "idle"]
  BY Constants DEF ClientUnsubscribe, At, To, table, bounds
<1>2. Entries(topic[a]) = {}
  BY <1>1 DEF ClearToUnsubscribe, At
<1>3. /\ \A h \in Threads : pc[h] = "send" => pc'[h] = "send" /\ topic'[h] = topic[h]
      /\ pc'[Mqtt] = pc[Mqtt]
  BY <1>1, Constants DEF IInv, Types
<1>4. \A x : SendDue(x) => SendDue(x)'
  BY <1>1, <1>3 DEF SendDue
<1>5. ASSUME connected, trouble = 0, NEW x \in InUse' PROVE Covered(x)'
  <2>1. x \in InUse /\ x[1] # topic[a]
    BY <1>1, <1>2 DEF InUse, Entries
  <2>2. Covered(x)
    BY <1>5, <2>1 DEF CoverInv
  <2> QED BY <1>1, <1>3, <1>4, <2>1, <2>2 DEF Covered
<1> QED BY <1>1, <1>5 DEF CoverInv

\* The connection comes up, or is lost.
LEMMA LinkCover ==
  ASSUME IInv, CoverInv, Connected \/ Disconnected
  PROVE  CoverInv'
<1>1. CASE Connected
  <2>1. connected' = TRUE /\ link' = TRUE /\ trouble' = trouble /\ pc'[Mqtt] = "collect"
    BY <1>1, Constants DEF Connected, To, IInv, Types
  <2>2. \A s \in InUse' : sub'[s] = "none"
    BY <1>1 DEF Connected, ResetAll, Settle, InUse
  <2> QED BY <2>1, <2>2 DEF CoverInv, Covered
<1>2. CASE Disconnected
  BY <1>2 DEF Disconnected, CoverInv, bounds
<1> QED BY <1>1, <1>2

\* Every step.
LEMMA CoverNext == IInv /\ CoverInv /\ ClearToUnsubscribe /\ [Next]_vars => CoverInv'
<1> SUFFICES ASSUME IInv, CoverInv, ClearToUnsubscribe, [Next]_vars PROVE CoverInv'
  OBVIOUS
<1>1. ASSUME NEW th \in Threads, Step(th) PROVE CoverInv'
  <2>1. CASE Plan(th) \/ Command(th)
    BY <2>1, IdleSteps
  <2> QED BY <1>1, <2>1, ReserveCover, SendCover, RecordCover DEF Step
<1>2. ASSUME NEW a \in Apps, Api(a) \/ AppStep(a) PROVE CoverInv'
  <2>1. CASE \E s \in Subs : SubscribeNew(a, s)
    <3>1. PICK s \in Subs : SubscribeNew(a, s)
      BY <2>1
    <3> QED BY <3>1, SubscribeCover, Zenon
  <2>2. CASE \E s \in Subs, upgrade \in BOOLEAN : SubscribeAgain(a, s, upgrade)
    <3>1. \E s \in Subs : Again(a, s) /\ UNCHANGED trouble
      BY <2>2 DEF SubscribeAgain, Again, MayCall
    <3> QED BY <3>1, SubscribeCover
  <2>3. CASE \E t \in Topics : Unsubscribe(a, t)
    BY <2>3, UnsubscribeCover
  <2>4. CASE AppStep(a)
    BY <1>1, <2>4, ClientUnsubscribeCover, Constants DEF AppStep
  <2> QED BY <1>2, <2>1, <2>2, <2>3, <2>4 DEF Api
<1>3. CASE MqttStep
  BY <1>1, <1>3, CollectCover, IdleSteps, Constants DEF MqttStep
<1>4. CASE WorkStep
  BY <1>1, <1>4, CollectCover, IdleSteps, Constants DEF WorkStep
<1>5. CASE Report
  BY <1>5, ReportCover DEF Report
<1>6. CASE AckTooOld \/ Rearm \/ Connected \/ Disconnected
  BY <1>6, IdleSteps, LinkCover
<1>7. CASE \E S \in SUBSET Requested : TimerFires(S)
  BY <1>7, IdleSteps
<1>8. CASE UNCHANGED vars
  BY <1>8 DEF vars, table, thread, env, bounds, CoverInv, Covered, SendDue, InUse
<1> QED BY <1>2, <1>3, <1>4, <1>5, <1>6, <1>7, <1>8 DEF Next

\* Nothing is acknowledged at first.
LEMMA CoverInit == Init => CoverInv
<1> SUFFICES ASSUME Init PROVE CoverInv
  OBVIOUS
<1>1. ~connected /\ ~link /\ trouble = 0
  BY DEF Init
<1>2. connected = link
  BY <1>1, Zenon DEF Init
<1> QED BY <1>1, <1>2 DEF CoverInv

\* An entry that is covered is delivered once nothing is under way.
LEMMA CoverDelivers == IInv /\ CoverInv => (trouble = 0 => AckedIsActive)
<1> SUFFICES ASSUME IInv, CoverInv, trouble = 0, connected, Quiet,
                    NEW s \in Subs, sub[s] = "acked"
             PROVE  s[1] \in broker
  BY DEF AckedIsActive
<1>1. \A th \in Threads : pc[th] = "idle" /\ todo[th] = {}
  BY DEF Quiet, IInv, Pending
<1>2. s \in InUse
  BY DEF InUse
<1>3. Covered(s)
  BY <1>2 DEF CoverInv
<1> QED BY <1>1, <1>3, Constants DEF Covered, SendDue

(***************************************************************************)
(* "SUBACK received, subscription active": as long as no request was       *)
(* refused or lost, the broker delivers the topic of every acknowledged    *)
(* entry, across any number of reconnects and whatever they interleave     *)
(* with, provided nobody subscribes to a topic again between the removal   *)
(* of its last entry and its UNSUBSCRIBE (esp_mqtt_glue_unsubscribe gives  *)
(* up the lock in between).                                                *)
(***************************************************************************)
THEOREM ActiveIfClear == Spec /\ []ClearToUnsubscribe => [](trouble = 0 => AckedIsActive)
<1>1. Spec => []IInv
  BY Invariant
<1> QED BY <1>1, CoverInit, CoverNext, CoverDelivers, PTL DEF Spec

\* A step that adds no entry, and after which no task is about to unsubscribe
\* that was not.
LEMMA ClearKept ==
  ASSUME ClearToUnsubscribe, InUse' \subseteq InUse,
         \A h \in Apps : pc'[h] = "unsubscribe" => pc[h] = "unsubscribe" /\ topic'[h] = topic[h]
  PROVE  ClearToUnsubscribe'
<1> SUFFICES ASSUME NEW h \in Apps, pc'[h] = "unsubscribe" PROVE Entries(topic[h])' = {}
  BY DEF ClearToUnsubscribe, At
<1>1. Entries(topic[h]) = {} /\ topic'[h] = topic[h]
  BY DEF ClearToUnsubscribe, At
<1> QED BY <1>1 DEF Entries, InUse

\* A thread's step towards a request and after it is such a step.
LEMMA StepClear ==
  ASSUME IInv, ClearToUnsubscribe, NEW th \in Threads, Step(th) \/ Collect(th)
  PROVE  ClearToUnsubscribe'
<1> USE DEF IInv, Types, At, To, table
<1>1. ASSUME NEW place, place # "unsubscribe", pc' = [pc EXCEPT ![th] = place],
             InUse' \subseteq InUse, \A h \in Threads : h # th => topic'[h] = topic[h]
      PROVE  ClearToUnsubscribe'
  BY <1>1, ClearKept, Constants
<1>2. CASE Reserve(th)
  <2>1. InUse' \subseteq InUse
    BY <1>2 DEF Reserve, InUse, Entries
  <2>2. pc' = [pc EXCEPT ![th] = IF connected THEN "send" ELSE "record"]
        /\ \A h \in Threads : h # th => topic'[h] = topic[h]
    BY <1>2 DEF Reserve
  <2> QED BY <1>1, <2>1, <2>2
<1>3. CASE Send(th)
  BY <1>1, <1>3 DEF Send, InUse
<1>4. CASE Record(th)
  <2>1. RecordRest(th) /\ (RecordFailed(th) \/ RecordSent(th) \/ RecordOvertaken(th))
    BY <1>4, RecordCases
  <2>2. pc' = [pc EXCEPT ![th] = AfterTopic(th)] \/ pc' = [pc EXCEPT ![th] = "plan"]
    BY <2>1 DEF RecordFailed, RecordSent, RecordOvertaken
  <2>3. \A h \in Threads : h # th => topic'[h] = topic[h]
    BY <2>1 DEF RecordRest
  <2>4. InUse' \subseteq InUse
    <3>1. CASE RecordSent(th)
      BY <3>1 DEF RecordSent, InUse
    <3>2. CASE RecordFailed(th) \/ RecordOvertaken(th)
      <4>1. PICK st \in {"failed", "acked"} : Settle(Reserved(topic[th]), st)
        BY <3>2 DEF RecordFailed, RecordOvertaken
      <4> QED BY <4>1, ReservedTopic DEF Settle, InUse, Requested
    <3> QED BY <2>1, <3>1, <3>2
  <2> QED BY <1>1, <2>2, <2>3, <2>4 DEF AfterTopic
<1>5. CASE Plan(th)
  BY <1>1, <1>5 DEF Plan, InUse
<1>6. CASE Command(th)
  BY <1>1, <1>6 DEF Command, InUse, AfterCommand, AfterTopic
<1>7. CASE Collect(th)
  BY <1>1, <1>7 DEF Collect, Begin, InUse
<1> QED BY <1>2, <1>3, <1>4, <1>5, <1>6, <1>7 DEF Step

\* A single application task subscribes to nothing while it unsubscribes.
LEMMA AloneIsClear ==
  ASSUME \A a, b \in Apps : a = b
  PROVE  Spec => []ClearToUnsubscribe
<1>1. Init => ClearToUnsubscribe
  BY Constants DEF Init, ClearToUnsubscribe, At
<1>2. IInv /\ ClearToUnsubscribe /\ [Next]_vars => ClearToUnsubscribe'
  <2> SUFFICES ASSUME IInv, ClearToUnsubscribe, [Next]_vars PROVE ClearToUnsubscribe'
    OBVIOUS
  <2> USE DEF IInv, Types, At, To, table
  <2>1. ASSUME NEW a \in Apps, Api(a) PROVE ClearToUnsubscribe'
    <3>1. pc[a] = "idle" /\ \A h \in Apps : h = a
      BY <2>1 DEF Api, SubscribeNew, SubscribeAgain, Unsubscribe, MayCall
    <3>2. CASE pc'[a] # "unsubscribe"
      BY <3>1, <3>2 DEF ClearToUnsubscribe
    <3>3. CASE pc'[a] = "unsubscribe"
      <4>1. PICK t \in Topics : Unsubscribe(a, t)
        <5>1. ASSUME NEW s \in Subs, SubscribeNew(a, s) PROVE FALSE
          BY <3>1, <3>3, <5>1, Constants DEF SubscribeNew, Begin
        <5>2. ASSUME NEW s \in Subs, NEW upgrade \in BOOLEAN, SubscribeAgain(a, s, upgrade)
              PROVE  FALSE
          BY <3>1, <3>3, <5>2, Constants DEF SubscribeAgain, Begin
        <5> QED BY <2>1, <5>1, <5>2 DEF Api
      <4>2. PICK s \in InUse : /\ Settle({s}, "free")
                               /\ IF connected /\ LastOfTopic(s)
                                    THEN topic' = [topic EXCEPT ![a] = s[1]]
                                    ELSE UNCHANGED pc
        BY <4>1 DEF Unsubscribe
      <4>3. LastOfTopic(s) /\ topic'[a] = s[1]
        BY <3>1, <3>3, <4>2, Constants
      <4>4. Entries(s[1]) = {s} /\ sub'[s] = "free" /\ \A x \in Subs : x # s => sub'[x] = sub[x]
        BY <4>2, <4>3 DEF LastOfTopic, Settle, InUse
      <4>5. Entries(topic[a])' = {}
        BY <4>3, <4>4 DEF Entries
      <4> QED BY <3>1, <4>5 DEF ClearToUnsubscribe
    <3> QED BY <3>2, <3>3
  <2>2. ASSUME NEW a \in Apps, AppStep(a) PROVE ClearToUnsubscribe'
    <3>1. CASE Step(a)
      BY <3>1, StepClear, Constants
    <3>2. CASE ClientUnsubscribe(a)
      BY <3>2, ClearKept, Constants DEF ClientUnsubscribe, InUse
    <3> QED BY <2>2, <3>1, <3>2 DEF AppStep
  <2>3. CASE MqttStep \/ WorkStep
    <3>1. CASE Halt
      BY <3>1, ClearKept, Constants DEF Halt, InUse
    <3>2. CASE RetryRound
      BY <3>2, ClearKept, Constants DEF RetryRound, InUse
    <3> QED BY <2>3, <3>1, <3>2, StepClear, Constants DEF MqttStep, WorkStep
  <2>4. ASSUME NEW r \in replies, Subscribed(r) \/ Deleted(r) PROVE ClearToUnsubscribe'
    <3>1. /\ UNCHANGED pc \/ pc' = [pc EXCEPT ![Mqtt] = "plan"]
          /\ UNCHANGED topic
      BY <2>4 DEF Subscribed, Deleted
    <3>2. UNCHANGED sub \/ Settle(Waiting(r.id), "failed") \/ Settle(Waiting(r.id), "acked")
      BY <2>4 DEF Subscribed, Deleted
    <3>3. InUse' \subseteq InUse
      BY <3>2, WaitingFor DEF Settle, InUse, Requested
    <3> QED BY <3>1, <3>3, ClearKept, Constants
  <2>5. CASE AckTooOld \/ Rearm
    BY <2>5, ClearKept, Constants DEF AckTooOld, Rearm, thread, InUse
  <2>6. CASE Connected \/ Disconnected
    <3>1. InUse' \subseteq InUse /\ UNCHANGED topic
          /\ \E place \in {"collect", "halt"} : pc' = [pc EXCEPT ![Mqtt] = place]
      BY <2>6 DEF Connected, Disconnected, ResetAll, Settle, InUse
    <3> QED BY <3>1, ClearKept, Constants
  <2>7. ASSUME NEW S \in SUBSET Requested, TimerFires(S) PROVE ClearToUnsubscribe'
    BY <2>7, ClearKept DEF TimerFires, thread, InUse
  <2>8. CASE UNCHANGED vars
    BY <2>8, ClearKept DEF vars, thread, InUse
  <2> QED BY <2>1, <2>2, <2>3, <2>4, <2>5, <2>6, <2>7, <2>8 DEF Next, Report
<1> QED BY <1>1, <1>2, Invariant, PTL DEF Spec

(***************************************************************************)
(* With one application task and no trouble, what is acknowledged is       *)
(* active (esp_mqtt_glue_subscribe, esp_mqtt_glue_unsubscribe, the         *)
(* CONNECTED and SUBSCRIBED events), for any number of topics, callbacks,  *)
(* calls and connections.                                                  *)
(***************************************************************************)
THEOREM ActiveWhenAlone ==
  ASSUME \A a, b \in Apps : a = b
  PROVE  Spec => [](trouble = 0 => AckedIsActive)
BY AloneIsClear, ActiveIfClear, PTL
=============================================================================
