------------------------------ MODULE Components ------------------------------
(***************************************************************************)
(* The parts that neither call nor share state with one another, side by   *)
(* side: a behaviour exercises the one part chosen in its initial state,   *)
(* so that it loses nothing that concerns a part, and never multiplies the *)
(* states of two.  The device (system control and time) is one part; the   *)
(* pure algorithms are called on one input after another.  SigV4Server is  *)
(* extended, not instantiated, so that the theorems of SigV4Proofs are     *)
(* about these definitions.                                                *)
(***************************************************************************)
EXTENDS Device, SigV4Server

CONSTANTS MaxCmd, Chunk, ReqIdLen, Cmds, Accesses, Requests, MaxDeferred,   \* of CmdResp
          Limit, MinCap, Pieces, MaxSent,                                   \* of Accum
          Installers, Ports,                                                \* of PortInstall
          Messages, Parts, NoMessage,                                       \* of MqttSession
          DefaultTtl, Margin                                                \* of the credentials

ASSUME ComponentsAssumption ==
    /\ Limit \in Nat /\ MinCap \in Nat \ {0} /\ Pieces \subseteq Nat
    /\ NoMessage \notin Messages /\ Parts \in [Messages -> Nat \ {0}]
    /\ DefaultTtl \in Nat \ {0, 1} /\ Margin \in Nat \ {0}

VARIABLES part,                     \* the part at work
          list, deferred, last,     \* of CmdResp
          phase, text, cap, status, gotResponse, retried, sent, result,    \* of Accum
          state, table, pc, port, told,                                    \* of PortInstall
          client, event, call, connected, connecting, arriving, long, delivered,  \* of MqttSession
          input                     \* of an algorithm, with its name

Commands == INSTANCE CmdResp
Response == INSTANCE Accum
Installs == INSTANCE PortInstall WITH Tasks <- Installers, NoPort <- Nothing
Session == INSTANCE MqttSession
Clocks == INSTANCE Clock
Filters == INSTANCE MqttTopics

\* Requests come in messages that fit the buffer of test_send, and their results
\* are those a handler has.
ASSUME RequestsAssumption ==
    /\ MaxCmd \in Nat /\ Chunk \in Nat \ {0} /\ ReqIdLen \in Nat /\ 0 \notin Cmds
    /\ \A r \in Requests :
          /\ r.id \in Seq(Nat) /\ r.data \in Seq(Nat) /\ r.response \in Seq(Nat)
          /\ r.result \in {"ok", "failed", "deferred"}
          /\ Commands!EncodedSize(Len(r.id)) + Commands!EncodedSize(1) + Commands!EncodedSize(2)
             + Commands!EncodedSize(Len(r.data)) <= Commands!TestBuffer

-----------------------------------------------------------------------------
(* One part at a time                                                      *)

commands == <<list, deferred, last>>
response == <<phase, text, cap, status, gotResponse, retried, sent, result>>
installs == <<state, table, pc, port, told>>
session == <<client, event, call, connected, connecting, arriving, long, delivered>>
allVars == <<part, vars, commands, response, installs, session, input>>

NoInput == [of |-> "none"]

InitAll == /\ Init /\ Commands!Init /\ Response!Init /\ Installs!Init /\ Session!Init
           /\ input = NoInput
           /\ part \in {"device", "commands", "response", "installs", "session", "algorithm"}

\* An algorithm is given an input, and has returned.
Compute ==
    IF input # NoInput THEN input' = NoInput
    ELSE \/ \E in \in Inputs : input' = [of |-> "signer", in |-> in]
         \/ \E in \in Clocks!Times : input' = [of |-> "times", in |-> in]
         \/ \E in \in Clocks!Nows : input' = [of |-> "nows", in |-> in]
         \/ \E in \in Clocks!Lookups : input' = [of |-> "zones", in |-> in]
         \/ \E in \in Filters!Topics : input' = [of |-> "topics", in |-> in]

NextAll ==
    \/ /\ part = "device" /\ Next
       /\ UNCHANGED <<part, commands, response, installs, session, input>>
    \/ /\ part = "commands" /\ Commands!Next
       /\ UNCHANGED <<part, vars, response, installs, session, input>>
    \/ /\ part = "response" /\ Response!Next
       /\ UNCHANGED <<part, vars, commands, installs, session, input>>
    \/ /\ part = "installs" /\ Installs!Next
       /\ UNCHANGED <<part, vars, commands, response, session, input>>
    \/ /\ part = "session" /\ Session!Next
       /\ UNCHANGED <<part, vars, commands, response, installs, input>>
    \/ /\ part = "algorithm" /\ Compute
       /\ UNCHANGED <<part, vars, commands, response, installs, session>>

\* The fairness is that of the device.
SpecAll == InitAll /\ [][NextAll]_allVars /\ Fairness

-----------------------------------------------------------------------------
(* Properties, beside those of Device                                      *)

\* cmd_resp.c: a request has its handler run when it may, on the whole of its
\* data, and its answer is complete and carries its own id.
RequestAnswered == Commands!Answered /\ Commands!OneSlotEach /\ Commands!CarriesOwnId

\* "Request Id : Variable length string, max 32 characters" (cmd_resp.h): an
\* answer says the id of its request, of the full length too.
OwnReqId == Commands!CarriesOwnId

\* accum.c: a response is whole, or an error.
BodyHeld == Response!BodyHeld

\* port.c: what is installed is one whole port, that of those told so.
PortInstalledOnce == Installs!PortInstalledOnce

\* esp-mqtt-glue.c: the flags of the connection follow the client.
FlagsFollowClient == Session!FlagsFollowClient

\* esp-mqtt-glue.c: messages that come in parts are delivered whole.
DeliveredWhole == Session!DeliveredWhole

\* esp-mqtt-glue.c: a message reaches the callbacks whose filters match its levels,
\* with one exception that MQTT and the code's comment do not make: a filter that
\* ends in + misses a topic whose last level is empty.
ReachesMatchingSaveEmptyEnd ==
    input.of = "topics" => Filters!ReachesMatchingSaveEmptyEnd(input.in)

\* sigv4.c: a service computes the signer's signature from the request or the
\* URL it receives.
SignatureVerified == input.of = "signer" => Verified(input.in) /\ Agrees(input.in)

\* creds.c and time_sync.c agree with the calendar, and so with each other.
ClocksAgree == input.of = "times" => Clocks!ConversionsAgree(input.in)

\* creds.c: credentials are renewed before they expire, and not at once.
RenewedInTime == input.of = "nows" => Clocks!RenewedBetween(input.in.now, input.in.expiration)

\* timezone.c: the search finds what is in the table.
ZoneFound == input.of = "zones" => Clocks!SearchFinds(input.in.tzs, input.in.name)
=============================================================================
