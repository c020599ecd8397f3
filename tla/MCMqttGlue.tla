---------------------------- MODULE MCMqttGlue -----------------------------
(***************************************************************************)
(* Instances of MqttGlue for TLC.                                          *)
(***************************************************************************)
EXTENDS MqttGlue, TLC

CONSTANTS t1, t2

\* No topic is a prefix of another.
SameTopic == {<<t, t>> : t \in Topics}

\* "dev/t1" is a prefix of "dev/t12".
PrefixTopic == SameTopic \cup {<<t2, t1>>}

\* Bound: a third call only while the entries in the table are of one topic.
OneTopicLast == calls <= 2 \/ \A s, r \in InUse : s[1] = r[1]

Symmetric == Permutations(Topics) \cup Permutations(Callbacks)
=============================================================================
