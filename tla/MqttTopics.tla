----------------------------- MODULE MqttTopics ------------------------------
(***************************************************************************)
(* src/esp-mqtt/esp-mqtt-glue.c: which subscriptions a received topic      *)
(* concerns.  Topics and filters are sequences of characters; a + of a     *)
(* filter is a whole level, and there is no #, as the glue says.           *)
(***************************************************************************)
EXTENDS Naturals, Sequences

Slash == "/"
Plus == "+"

MaxText == 5    \* bound: characters of a topic or a filter here

\* Mutant of LevelEnd: + takes the rest of the topic, the levels below too.
LevelEndLast(topic, t) == Len(topic) + 1

\* The place of the next "/" from t on, or past the end.
LevelEnd(topic, t) ==
    CHOOSE e \in t..(Len(topic) + 1) : /\ e > Len(topic) \/ topic[e] = Slash
                                       /\ \A i \in t..(e - 1) : topic[i] # Slash

\* mqtt_topic_matches from places f and t of the two.
TopicMatches(filter, topic) ==
    LET match[p \in (1..(Len(filter) + 1)) \X (1..(Len(topic) + 1))] ==
            LET f == p[1]  t == p[2]
            IN  CASE f > Len(filter) \/ t > Len(topic) -> f > Len(filter) /\ t > Len(topic)
                  [] f <= Len(filter) /\ t <= Len(topic) /\ filter[f] = Plus ->
                       match[<<f + 1, LevelEnd(topic, t)>>]
                  [] OTHER -> filter[f] = topic[t] /\ match[<<f + 1, t + 1>>]
    IN  match[<<1, 1>>]

\* The callbacks of esp_mqtt_glue_subscribe_callback: records with topic and cb.
Matches(subs, topic) == {sub.cb : sub \in {s \in subs : TopicMatches(s.topic, topic)}}

-----------------------------------------------------------------------------
(* Levels, by which MQTT defines a match                                   *)

Levels(text) ==
    LET from[i \in 1..(Len(text) + 1)] ==
            CASE i > Len(text) -> << <<>> >>
              [] i <= Len(text) /\ text[i] = Slash -> << <<>> >> \o from[i + 1]
              [] OTHER -> [from[i + 1] EXCEPT ![1] = <<text[i]>> \o @]
    IN  from[1]

\* As MQTT and the comment of mqtt_topic_matches have it: "'+' matches a single
\* level", whichever level it is and an empty one too.
LevelsMatch(filter, topic) ==
    LET f == Levels(filter)  t == Levels(topic)
    IN  Len(f) = Len(t) /\ \A i \in DOMAIN f : f[i] = t[i] \/ f[i] = <<Plus>>

\* What the code does not do of it: at an empty last level the topic is used up
\* and the loop (207) ends before it sees the + of the filter, as of a/+ at a/.
EmptyEnd(filter, topic) ==
    LET f == Levels(filter)  t == Levels(topic)
    IN  f[Len(f)] = <<Plus>> /\ t[Len(t)] = <<>>

Texts(characters) == UNION {[1..n -> characters] : n \in 1..MaxText}

\* A + has a / or an end of the filter on either side of it.
WholeLevels(filter) ==
    \A i \in 1..Len(filter) : filter[i] = Plus =>
        (i > 1 => filter[i - 1] = Slash) /\ (i < Len(filter) => filter[i + 1] = Slash)

Topics == Texts({"a", "b", Slash})
Filters == {filter \in Texts({"a", "b", Slash, Plus}) : WholeLevels(filter)}

\* Among these subscriptions a topic reaches those whose filter its levels match,
\* save, against the rule, those that end in a + where it ends in an empty level.
ReachesMatchingSaveEmptyEnd(topic) ==
    LET subs == {[topic |-> filter, cb |-> filter] : filter \in Filters}
    IN  Matches(subs, topic) = {filter \in Filters : LevelsMatch(filter, topic)}
                                 \ {filter \in Filters : EmptyEnd(filter, topic)}
=============================================================================
