----------------------------- MODULE SigV4Server -----------------------------
(***************************************************************************)
(* The other end of SigV4: what a service computes from a request as it    *)
(* arrives, and the small sets of requests the signer is compared on.  It  *)
(* works on the wire alone, by definitions of its own.                     *)
(***************************************************************************)
EXTENDS SigV4

\* Of the spaces those count that follow a character, with another to come.
Plain(value) ==
    LET Counts(i) == \/ value[i] # " "
                     \/ /\ i > 1 /\ value[i - 1] # " "
                        /\ \E j \in i..Len(value) : value[j] # " "
    IN  FlattenSeq([i \in DOMAIN value |-> IF Counts(i) THEN <<value[i]>> ELSE <<>>])

\* "." stays, ".." goes up, no higher than the root; a last "/" is kept.
Walked(stack, seg) == IF seg \in {<<>>, <<".">>} THEN stack
                      ELSE IF seg # <<".", ".">> THEN Append(stack, seg)
                      ELSE IF stack = <<>> THEN stack ELSE Front(stack)
ServerPath(path) ==
    LET segs == Split(path, "/")
        walk[n \in 0..Len(segs)] == IF n = 0 THEN <<>> ELSE Walked(walk[n - 1], segs[n])
        stack == walk[Len(segs)]
        text == FlattenSeq([i \in DOMAIN stack |-> <<"/">> \o stack[i]])
    IN  text \o (IF stack = <<>> \/ path[Len(path)] = "/" THEN <<"/">> ELSE <<>>)

\* Escapes read back.
Decoded(text) ==
    LET Char(i) == CASE text[i] = "%" -> <<>>
                     [] i > 1 /\ text[i - 1] = "%" -> <<CHOOSE c \in DOMAIN Hex : Hex[c] = text[i]>>
                     [] OTHER -> <<text[i]>>
    IN  FlattenSeq([i \in DOMAIN text |-> Char(i)])

ServerParams(query) ==
    [i \in DOMAIN Split(query, "&") |->
        LET sides == Split(Split(query, "&")[i], "=") IN [name |-> sides[1], value |-> sides[2]]]

\* The parameters in order of name, then of value: each in the place that those
\* before it leave.
ServerQuery(query) ==
    LET Before(p, q) == IF p.name = q.name THEN Less(p.value, q.value) ELSE Less(p.name, q.name)
        params == ServerParams(query)
        Place(j) == 1 + Cardinality({k \in DOMAIN params : \/ Before(params[k], params[j])
                                                           \/ params[k] = params[j] /\ k < j})
        sorted == [i \in DOMAIN params |-> params[CHOOSE j \in DOMAIN params : Place(j) = i]]
    IN  FlattenSeq([i \in DOMAIN sorted |->
            (IF i = 1 THEN <<>> ELSE <<"&">>) \o sorted[i].name \o <<"=">> \o sorted[i].value])

\* Each name once, with its values in the order they arrive.
ServerHeaders(wire) ==
    {[name |-> h.name.word,
      values |-> FlattenSeq([i \in DOMAIN wire |-> IF SameName(wire[i], h) THEN <<Plain(wire[i].value)>>
                                                   ELSE <<>>])] : h \in ToSet(wire)}

\* The names in their order.
ServerSigned(wire) ==
    LET ranks == {WordRank(h) : h \in ToSet(wire)}
    IN  FlattenSeq([r \in DOMAIN Order |-> IF r \notin ranks THEN <<>>
                                           ELSE IF \A j \in ranks : r <= j THEN <<Order[r]>>
                                           ELSE <<";", Order[r]>>])

ServerSignature(in, path, query, wire, payload) ==
    [key |-> <<"AWS4", in.secret, "now", in.region, in.service>>,
     scope |-> <<"now", "/", in.region, "/", in.service, "/", "aws4_request">>,
     request |-> [method |-> in.method,
                  path |-> IF in.service = "s3" THEN path ELSE Encoded(ServerPath(path), TRUE, FALSE),
                  query |-> IF query = <<>> THEN <<>> ELSE ServerQuery(query),
                  headers |-> ServerHeaders(wire),
                  signed |-> ServerSigned(wire),
                  payload |-> payload]]

\* The parameters the server finds in a query are these.
Carries(query, params) ==
    LET found == IF query = <<>> THEN <<>> ELSE ServerParams(query)
        read == [i \in DOMAIN found |-> [name |-> Decoded(found[i].name), value |-> Decoded(found[i].value)]]
    IN  \A p \in ToSet(params) : Cardinality({i \in DOMAIN read : read[i] = p})
                                 = Cardinality({i \in DOMAIN params : params[i] = p})

-----------------------------------------------------------------------------
(* Requests                                                                *)

Base == [method |-> "GET", host |-> <<"host">>, path |-> <<"/", "a">>, params |-> <<>>,
         headers |-> <<>>, service |-> "service", region |-> "region", access |-> "key",
         secret |-> "secret", token |-> <<>>, late |-> FALSE, override |-> <<>>,
         payload |-> <<>>, signPayload |-> FALSE, expires |-> 60]

Paths == {FlattenSeq([i \in DOMAIN s |-> <<"/">> \o s[i]]) :
             s \in UNION {[1..n -> {<<>>, <<"a">>, <<"b", " ">>, <<".">>, <<".", ".">>}] : n \in 1..4}}

SomeParams == BoundedSeq([name : {<<"a">>, <<"b">>, <<"{">>, <<"X-Date">>},
                          value : {<<>>, <<"&">>, <<"a">>}], 2)

SomeHeaders ==
    BoundedSeq({Header("b", <<"a">>), Header("a", <<"a">>), Header("a", <<" ", "b", " ", " ", "a", " ">>),
                [name |-> [word |-> "a", caps |-> TRUE], value |-> <<"b">>]}, 3)
    \cup {<<Header(word, <<"a">>)>> : word \in {"authorization", "host", "x-amz-date"}}

WithPath(p, s) == [Base EXCEPT !.path = p, !.service = s]
WithParams(ps, t, l) == [Base EXCEPT !.params = ps, !.token = t, !.late = l]
WithHeaders(hs, p, t) == [Base EXCEPT !.headers = hs, !.signPayload = p, !.token = t]
WithExpires(e) == [Base EXCEPT !.expires = e]

Tokens == {<<>>, <<"a", "/">>}
Inputs == {WithPath(p, s) : p \in Paths, s \in {"s3", "service"}}
          \cup {WithParams(ps, t, l) : ps \in SomeParams, t \in Tokens, l \in BOOLEAN}
          \cup {WithHeaders(hs, p, t) : hs \in SomeHeaders, p \in BOOLEAN, t \in Tokens}
          \cup {WithExpires(e) : e \in {0, 1, MaxExpires, MaxExpires + 1}}

-----------------------------------------------------------------------------
(* The comparisons                                                         *)

\* The service accepts a presigned URL whose token and parameters it finds
\* whole: it computes the same signature from the path and query it receives,
\* the token that follows the signature left out.
Verified(in) ==
    LET r == PresignUrl(in)
        wire == <<Header("host", in.host)>> \o in.headers
        payload == IF in.service = "s3" THEN <<"UNSIGNED">> ELSE <<"hash">>
        token == IF in.token = <<>> THEN <<>>
                 ELSE <<[name |-> <<"X-Security-Token">>, value |-> in.token]>>
    IN  r.ok =>
        /\ r.url.signature = ServerSignature(in, r.url.path, r.url.query, wire, payload)
        /\ Decoded(r.url.path) = in.path
        /\ Carries(r.url.query, in.params \o IF in.late THEN <<>> ELSE token)
        /\ Decoded(r.url.tail) = IF in.late THEN in.token ELSE <<>>

\* The names that the signer adds to those of the caller.
AddedWords(in) ==
    {"host", "x-amz-date"} \cup (IF in.token = <<>> THEN {} ELSE {"x-amz-security-token"})
                           \cup (IF in.signPayload THEN {"x-amz-content-sha256"} ELSE {})

\* The service computes the signature of the Authorization header from the
\* headers and the payload it receives, those the signer adds and the caller's
\* in their order.
Agrees(in) ==
    LET r == Sigv4(in)
        payload == <<"hash">> \o in.payload
        token == IF in.token = <<>> THEN <<>> ELSE <<Header("x-amz-security-token", in.token)>>
        hash == IF in.signPayload THEN <<Header("x-amz-content-sha256", payload)>> ELSE <<>>
        wire == <<Header("x-amz-date", <<"now">>)>> \o hash \o in.headers \o token
                \o <<Header("host", in.host)>>
        reserved == \E h \in ToSet(in.headers) : h.name.word \in {"authorization"} \cup AddedWords(in)
    IN  /\ r.ok <=> ~reserved /\ Len(wire) <= MaxHeaders
        /\ r.ok => /\ r.signature = ServerSignature(in, Encoded(in.path, TRUE, FALSE),
                                                    BuildQuery(in.params), wire, payload)
                   /\ r.signed = ServerSigned(wire)
=============================================================================
