------------------------------- MODULE CmdResp -------------------------------
(***************************************************************************)
(* components/rmaker_cmd_resp: the table of commands, and the handling of  *)
(* one message at a time.  A message is a sequence of TLVs, each with at   *)
(* most Chunk bytes, as add_tlv writes them: what the framework makes of   *)
(* bytes that are no such sequence is left out.  A role is the set of its  *)
(* bits.  Handlers do not change the table, and calls do not overlap: the  *)
(* table has no lock.  Allocations succeed.                                *)
(***************************************************************************)
EXTENDS Naturals, Sequences, FiniteSets, SequencesExt

CONSTANTS MaxCmd,      \* RMAKER_MAX_CMD
          Chunk,       \* 255, the most bytes of one TLV
          ReqIdLen,    \* REQ_ID_LEN
          Cmds,        \* command ids other than 0
          Accesses,    \* access masks commands are registered with
          Requests,    \* records with id, role, cmd and data, and the handler's
                       \* result and response
          MaxDeferred  \* bound: answers put off at a time

VARIABLES list,      \* esp_rmaker_cmd_list, slots in order
          deferred,  \* requests whose handler returned ESP_ERR_NOT_FINISHED
          last       \* history: the last message handled, and what came of it

vars == <<list, deferred, last>>

BaseRoles == {"admin", "primary", "secondary", "node"}    \* USER_ROLE_MASK
Slots == 1..MaxCmd
NoInfo == [cmd |-> 0, access |-> {}]
NoneYet == [out |-> "nothing"]

Init == list = [i \in Slots |-> NoInfo] /\ deferred = {} /\ last = NoneYet

-----------------------------------------------------------------------------
(* TLVs                                                                    *)

\* The TLVs add_tlv writes for a value; an empty value has one.
Tlvs(type, value) ==
    LET n == IF value = <<>> THEN 1 ELSE (Len(value) + Chunk - 1) \div Chunk
    IN  [k \in 1..n |->
            [type |-> type,
             value |-> SubSeq(value, (k - 1) * Chunk + 1,
                              IF k = n THEN Len(value) ELSE k * Chunk)]]

\* curlen: the bytes of TLVs with their headers.
Size(tlvs) ==
    LET size[n \in 0..Len(tlvs)] == IF n = 0 THEN 0 ELSE size[n - 1] + 2 + Len(tlvs[n].value)
    IN  size[Len(tlvs)]

\* Values copied one behind the other.
Joined(values) ==
    LET joined[n \in 0..Len(values)] == IF n = 0 THEN <<>> ELSE joined[n - 1] \o values[n]
    IN  joined[Len(values)]

\* get_tlv_encoded_size, which counts an empty TLV after full ones.
EncodedSize(len) == 2 * (len \div Chunk + 1) + len

\* add_tlv to a buffer of size bytes: unchanged when there is no room for the
\* value and one header.
AddTlv(size, tlvs, type, value) ==
    IF Len(value) + 2 > size - Size(tlvs) THEN tlvs ELSE tlvs \o Tlvs(type, value)

\* get_value_from_tlv: the first value of the type, which goes on while its
\* TLVs are full.  Absent, or too long for size, it leaves the empty value.
Value(tlvs, type, size) ==
    LET first == SelectInSeq(tlvs, LAMBDA tlv : tlv.type = type)
        InRun(k) == \A j \in first..k : /\ tlvs[j].type = type
                                        /\ j < k => Len(tlvs[j].value) = Chunk
        value == Joined([k \in DOMAIN tlvs |->
                    IF k >= first /\ InRun(k) THEN tlvs[k].value ELSE <<>>])
    IN  IF first = 0 \/ Len(value) > size THEN <<>> ELSE value

-----------------------------------------------------------------------------
(* Payloads                                                                *)

\* prepare_payload.  The values, without the role when it is 0 and the data
\* when there is none, go to a buffer sized for them.  One without room would be
\* missing, where the code gives up.
Payload(id, role, status, cmd, data) ==
    LET size == EncodedSize(Len(id)) + (IF role # {} THEN EncodedSize(1) ELSE 0)
                + EncodedSize(1) + EncodedSize(2)
                + (IF data # <<>> THEN EncodedSize(Len(data)) ELSE 0)
        Add(tlvs, type, value) == AddTlv(size, tlvs, type, value)
        from == Add(<<>>, "req_id", id)
        as == IF role # {} THEN Add(from, "role", <<role>>) ELSE from
        head == Add(Add(as, "status", <<status>>), "cmd", <<cmd, 0>>)
    IN  [size |-> size, tlvs |-> IF data # <<>> THEN Add(head, "data", data) ELSE head]

\* test_send, whose buffer is one of TestBuffer bytes.
TestBuffer == 200
Message(r) ==
    LET head == AddTlv(TestBuffer, AddTlv(TestBuffer, AddTlv(TestBuffer, <<>>, "req_id", r.id),
                                          "role", <<r.role>>), "cmd", <<r.cmd, 0>>)
    IN  IF r.data # <<>> THEN AddTlv(TestBuffer, head, "data", r.data) ELSE head

\* cmd_ctx: the string that begins at req_id, which runs on into user_role when
\* the id fills its array.
Context(tlvs) ==
    LET id == Value(tlvs, "req_id", ReqIdLen)
        role == Value(tlvs, "role", 1)
        cmd == Value(tlvs, "cmd", 2)
        bits == IF role = <<>> THEN {} ELSE role[1]
    IN  [id |-> IF Len(id) = ReqIdLen /\ bits # {} THEN Append(id, bits) ELSE id,
         role |-> bits,
         cmd |-> IF cmd = <<>> THEN 0 ELSE cmd[1]]

Answer(ctx, status, data) == Payload(ctx.id, {}, status, ctx.cmd, data)

-----------------------------------------------------------------------------
(* The table                                                               *)

HoldsBeforeHole(i, cmd) == list[i].cmd = cmd /\ \A j \in 1..i : list[j] # NoInfo
Holds(i, cmd) == list[i] # NoInfo /\ list[i].cmd = cmd

\* get_cmd_info: the slot, or 0.
Find(cmd) == SelectInSeq([i \in Slots |-> i], LAMBDA i : Holds(i, cmd))

Register(cmd, access) ==
    LET free == SelectInSeq(list, LAMBDA info : info = NoInfo)
    IN  /\ Find(cmd) = 0 /\ free # 0
        /\ list' = [list EXCEPT ![free] = [cmd |-> cmd, access |-> access]]
        /\ last' = NoneYet
        /\ UNCHANGED deferred

Deregister(cmd) == /\ Find(cmd) # 0
                   /\ list' = [list EXCEPT ![Find(cmd)] = NoInfo]
                   /\ last' = NoneYet
                   /\ UNCHANGED deferred

-----------------------------------------------------------------------------
(* response_handler.  The result of a handler is ok with its response,     *)
(* failed, or deferred.                                                    *)

Allowed(info, role) == info.access \cap (role \cap BaseRoles) # {}

Valid(ctx) == ctx.id # <<>> /\ ctx.role # {} /\ ctx.cmd # 0

MayRun(ctx) == Valid(ctx) /\ Find(ctx.cmd) # 0 /\ Allowed(list[Find(ctx.cmd)], ctx.role)

Refusal(ctx) == CASE ~Valid(ctx) -> "cmd_invalid"
                  [] Valid(ctx) /\ Find(ctx.cmd) = 0 -> "not_found"
                  [] OTHER -> "auth_fail"

\* The data the handler is given: none when the message has none.
Data(tlvs) == Value(tlvs, "data", TestBuffer)

Refuse(r) ==
    LET ctx == Context(Message(r))
    IN  /\ ~MayRun(ctx)
        /\ last' = [out |-> "payload", request |-> r, ran |-> FALSE, late |-> FALSE,
                    payload |-> Answer(ctx, Refusal(ctx), <<>>)]
        /\ UNCHANGED <<list, deferred>>

Run(r) ==
    LET ctx == Context(Message(r))
    IN  /\ MayRun(ctx)
        /\ r.result # "deferred"
        /\ last' = [out |-> "payload", request |-> r, ran |-> TRUE, late |-> FALSE,
                    given |-> Data(Message(r)),
                    payload |-> IF r.result = "ok" THEN Answer(ctx, "success", r.response)
                                ELSE Answer(ctx, "failed", <<>>)]
        /\ UNCHANGED <<list, deferred>>

Defer(r) ==
    LET ctx == Context(Message(r))
    IN  /\ MayRun(ctx)
        /\ r.result = "deferred"
        /\ Cardinality(deferred) < MaxDeferred
        /\ deferred' = deferred \cup {[request |-> r, ctx |-> ctx]}
        /\ last' = [out |-> "none", request |-> r, ran |-> TRUE, late |-> FALSE,
                    given |-> Data(Message(r))]
        /\ UNCHANGED list

\* The handler's own task calls prepare_payload with what it saved of ctx.
Complete(d) == /\ deferred' = deferred \ {d}
               /\ last' = [out |-> "payload", request |-> d.request, ran |-> FALSE, late |-> TRUE,
                           payload |-> Answer(d.ctx, "success", d.request.response)]
               /\ UNCHANGED list

Next == \/ \E cmd \in Cmds, access \in Accesses : Register(cmd, access)
        \/ \E cmd \in Cmds : Deregister(cmd)
        \/ \E r \in Requests : Refuse(r) \/ Run(r) \/ Defer(r)
        \/ \E d \in deferred : Complete(d)

-----------------------------------------------------------------------------
(* What the caller can rely on                                             *)

\* Every value of the type in a payload, however it is cut up.
Said(tlvs, type) == Joined([k \in DOMAIN tlvs |->
                       IF tlvs[k].type = type THEN tlvs[k].value ELSE <<>>])

CarriesOwnId == last.out = "payload" => Said(last.payload.tlvs, "req_id") = last.request.id

\* The commands in the table differ.
OneSlotEach == \A i, j \in Slots : list[i] # NoInfo /\ list[i].cmd = list[j].cmd => i = j

\* A request with an id, a role and a command has its handler run exactly when
\* one is registered for it and open to the role, on the whole of its data; the
\* answer fits its buffer and names the status, the command and the whole
\* response, and is put off only if the handler said so.
Answered ==
    LET r == last.request
        infos == {info \in ToSet(list) : info # NoInfo /\ info.cmd = r.cmd}
        named == r.id # <<>> /\ r.role # {} /\ r.cmd # 0
        open == named /\ \E info \in infos : info.access \cap r.role \cap BaseRoles # {}
        status == CASE last.late -> "success"
                    [] ~last.late /\ open -> IF r.result = "ok" THEN "success" ELSE r.result
                    [] ~last.late /\ ~named -> "cmd_invalid"
                    [] ~last.late /\ named /\ infos = {} -> "not_found"
                    [] OTHER -> "auth_fail"
    IN  last # NoneYet =>
        /\ last.late \/ last.ran = open
        /\ last.ran => last.given = r.data
        /\ last.out = "none" => status = "deferred"
        /\ last.out = "payload" =>
              /\ Size(last.payload.tlvs) <= last.payload.size
              /\ Said(last.payload.tlvs, "status") = <<status>>
              /\ Said(last.payload.tlvs, "cmd") = <<r.cmd, 0>>
              /\ Said(last.payload.tlvs, "data") = (IF status = "success" THEN r.response ELSE <<>>)
=============================================================================
