-------------------------------- MODULE SigV4 --------------------------------
(***************************************************************************)
(* components/rmaker_aws_sign/src/esp_rmaker_aws_sign_sigv4.c: how the     *)
(* signer canonicalises a request, and the presigned URL it writes.  It    *)
(* keeps no state, so the module is operators only.                        *)
(*                                                                         *)
(* A string is a sequence of symbols of Order: a character, the two digits *)
(* of an escape, or a word with no character that needs one.  A header     *)
(* name is a word in lower case or not, since names are told apart by      *)
(* strcasecmp.  Digest and HMAC stand for what goes into them.  No pointer *)
(* is NULL, every allocation succeeds and every text fits STS_LEN and the  *)
(* other fixed sizes.                                                      *)
(***************************************************************************)
EXTENDS Naturals, Sequences, FiniteSets, SequencesExt

CONSTANT MaxHeaders      \* MAX_HEADERS

ASSUME MaxHeadersAssumption == MaxHeaders \in Nat

\* The symbols, in the order of strcmp.
Order == <<" ", "%", "&", "+", "-", ".", "/", "20", "25", "26", "2B", "2F", "3B", "3D", "7B",
           ";", "=", "AWS4", "UNSIGNED", "X-Algorithm", "X-Credential", "X-Date", "X-Expires",
           "X-Security-Token", "X-Signature", "X-SignedHeaders",
           "a", "authorization", "aws4_request", "b", "hash", "host", "key", "now", "region",
           "s3", "seconds", "service", "x-amz-content-sha256", "x-amz-date",
           "x-amz-security-token", "{", "~">>
Rank == [c \in ToSet(Order) |-> CHOOSE i \in DOMAIN Order : Order[i] = c]

Hex == [c \in {" ", "%", "&", "+", "/", ";", "=", "{"} |->
           CASE c = " " -> "20" [] c = "%" -> "25" [] c = "&" -> "26" [] c = "+" -> "2B"
             [] c = "/" -> "2F" [] c = ";" -> "3B" [] c = "=" -> "3D" [] c = "{" -> "7B"]

\* strcmp: the first difference, of which the NUL behind a string may be a side.
CodeAt(s, i) == IF i \in DOMAIN s THEN Rank[s[i]] ELSE 0
Less(s, t) == \E i \in DOMAIN t : /\ CodeAt(s, i) < CodeAt(t, i)
                                 /\ \A k \in 1..i - 1 : CodeAt(s, k) = CodeAt(t, k)

-----------------------------------------------------------------------------
(* The output sink, written in chunks.  A chunk is copied only when it     *)
(* leaves room for the NUL; the length counts it all the same.             *)

Put(cap, out, chunk) ==
    [len |-> out.len + Len(chunk),
     text |-> IF out.len + Len(chunk) < cap THEN out.text \o chunk ELSE out.text]

\* What a buffer of cap bytes holds at the end.
Written(cap, chunks) ==
    LET out[n \in 0..Len(chunks)] == IF n = 0 THEN [len |-> 0, text |-> <<>>]
                                     ELSE Put(cap, out[n - 1], chunks[n])
    IN  out[Len(chunks)].text

-----------------------------------------------------------------------------
(* Encoders                                                                *)

EncodedSymbol(c, keepSlash, twice) ==
    IF c \notin DOMAIN Hex \/ (keepSlash /\ c = "/") THEN <<c>>
    ELSE IF twice THEN <<"%", "25", Hex[c]>> ELSE <<"%", Hex[c]>>

Encoded(s, keepSlash, twice) ==
    FlattenSeq([i \in DOMAIN s |-> EncodedSymbol(s[i], keepSlash, twice)])

\* put_uri: an empty path is "/".
Uri(path, twice) == IF path = <<>> THEN <<"/">> ELSE Encoded(path, TRUE, twice)

\* The segments next_segment steps through, and the empty ones it skips.
Extended(parts, at, c) == IF c = at THEN Append(parts, <<>>)
                          ELSE Append(Front(parts), Append(Last(parts), c))
Split(text, at) ==
    LET parts[n \in 0..Len(text)] == IF n = 0 THEN << <<>> >>
                                     ELSE Extended(parts[n - 1], at, text[n])
    IN  parts[Len(text)]

Kind(seg) == CASE seg \in {<<>>, <<".">>} -> "none" [] seg = <<".", ".">> -> "dot_dot" [] OTHER -> "name"

\* The segments of a kind from the i-th to the j-th.
Count(segs, i, j, kind) == Cardinality({k \in i..j : Kind(segs[k]) = kind})

\* A ".." after the i-th segment removes it.
RemovedLater(segs, i) ==
    \E j \in i + 1..Len(segs) : Count(segs, i + 1, j, "dot_dot") > Count(segs, i + 1, j, "name")

Normalized(path) ==
    LET segs == Split(path, "/")
        Kept(i) == Kind(segs[i]) = "name" /\ ~RemovedLater(segs, i)
        text == FlattenSeq([i \in DOMAIN segs |-> IF Kept(i) THEN <<"/">> \o segs[i] ELSE <<>>])
    IN  IF text = <<>> \/ Last(path) = "/" THEN Append(text, "/") ELSE text

\* put_trimmed
Squeezed(text, c) == IF c = " " /\ (text = <<>> \/ Last(text) = " ") THEN text ELSE Append(text, c)
Trimmed(value) ==
    LET out[n \in 0..Len(value)] == IF n = 0 THEN <<>> ELSE Squeezed(out[n - 1], value[n])
        text == out[Len(value)]
    IN  IF text # <<>> /\ Last(text) = " " THEN Front(text) ELSE text

-----------------------------------------------------------------------------
(* Headers: records with a name [word, caps] and a value                   *)

WordRank(h) == Rank[h.name.word]
Header(word, value) == [name |-> [word |-> word, caps |-> FALSE], value |-> value]

SameName(h, k) == h.name.word = k.name.word
NameReserved(builtin, h) ==
    h.name.word = "authorization" \/ \E b \in ToSet(builtin) : SameName(b, h)

Refused(builtin, extra) ==
    \/ Len(builtin) + Len(extra) > MaxHeaders
    \/ \E h \in ToSet(extra) : NameReserved(builtin, h)

InsertFirst(sorted, key) ==
    InsertAt(sorted, 1 + Cardinality({i \in DOMAIN sorted : WordRank(sorted[i]) < WordRank(key)}), key)

\* One step of the insertion sort: after the headers that are not greater.
Insert(sorted, key) ==
    InsertAt(sorted, 1 + Cardinality({i \in DOMAIN sorted : WordRank(sorted[i]) <= WordRank(key)}), key)

CollectHeaders(builtin, extra) ==
    LET all == builtin \o extra
        sorted[n \in 0..Len(all)] == IF n = 0 THEN <<>> ELSE Insert(sorted[n - 1], all[n])
    IN  sorted[Len(all)]

\* The headers of h that begin a run of equal names.
Firsts(h) == {i \in DOMAIN h : i = 1 \/ ~SameName(h[i], h[i - 1])}

SignedHeaders(h) ==
    FlattenSeq([i \in DOMAIN h |-> IF i \notin Firsts(h) THEN <<>>
                                   ELSE IF i = 1 THEN <<h[i].name.word>>
                                   ELSE <<";", h[i].name.word>>])

\* The line of the run that begins at i: its values, joined with commas.
CanonicalLine(h, i) ==
    LET InRun(j) == j >= i /\ \A k \in i..j : SameName(h[k], h[i])
    IN  [name |-> h[i].name.word,
         values |-> FlattenSeq([j \in DOMAIN h |-> IF InRun(j) THEN <<Trimmed(h[j].value)>> ELSE <<>>])]

CanonicalHeaders(h) == {CanonicalLine(h, i) : i \in Firsts(h)}

-----------------------------------------------------------------------------
(* The canonical query                                                     *)

EncParam(p) == [name |-> Encoded(p.name, FALSE, FALSE), value |-> Encoded(p.value, FALSE, FALSE)]

EncParamBefore(p, q) == Less(p.name, q.name) \/ (p.name = q.name /\ Less(p.value, q.value))

\* qsort: equal parameters are the same, so the order they are taken in is nothing.
InsertParam(sorted, p) ==
    InsertAt(sorted, 1 + Cardinality({i \in DOMAIN sorted : ~EncParamBefore(p, sorted[i])}), p)
EncParams(params) ==
    LET sorted[n \in 0..Len(params)] == IF n = 0 THEN <<>>
                                        ELSE InsertParam(sorted[n - 1], EncParam(params[n]))
    IN  sorted[Len(params)]

\* build_query: the text of the sorted parameters, in the buffer sized for them.
BuildQuery(params) ==
    LET enc == EncParams(params)
        cap == 1 + Len(FlattenSeq([i \in DOMAIN enc |-> enc[i].name \o <<"=">> \o enc[i].value \o <<"&">>]))
        chunks(i) == (IF i = 1 THEN <<>> ELSE << <<"&">> >>) \o <<enc[i].name, <<"=">>, enc[i].value>>
    IN  Written(cap, FlattenSeq([i \in DOMAIN enc |-> chunks(i)]))

-----------------------------------------------------------------------------
(* The signer                                                              *)

Scope(in) == <<"now", "/", in.region, "/", in.service, "/", "aws4_request">>

\* sign_canonical: the key and the string to sign, of which the signature is made.
SignCanonical(in, query, h, payload) ==
    [key |-> <<"AWS4", in.secret, "now", in.region, in.service>>,
     scope |-> Scope(in),
     request |-> [method |-> in.method,
                  path |-> IF in.service = "s3" THEN Uri(in.path, FALSE)
                           ELSE Encoded(Normalized(in.path), TRUE, TRUE),
                  query |-> query,
                  headers |-> CanonicalHeaders(h),
                  signed |-> SignedHeaders(h),
                  payload |-> payload]]

PayloadHash(in) == IF in.override # <<>> THEN in.override ELSE <<"hash">> \o in.payload

Builtin(in) ==
    <<Header("host", in.host), Header("x-amz-date", <<"now">>)>>
    \o (IF in.token # <<>> THEN <<Header("x-amz-security-token", in.token)>> ELSE <<>>)
    \o (IF in.signPayload THEN <<Header("x-amz-content-sha256", PayloadHash(in))>> ELSE <<>>)

\* sigv4: refused, or what the Authorization header says.
Sigv4(in) ==
    LET h == CollectHeaders(Builtin(in), in.headers)
    IN  IF Head(in.path) # "/" \/ Refused(Builtin(in), in.headers) THEN [ok |-> FALSE]
        ELSE [ok |-> TRUE, credential |-> <<in.access, Scope(in)>>, signed |-> SignedHeaders(h),
              signature |-> SignCanonical(in, BuildQuery(in.params), h, PayloadHash(in))]

OwnParams == {"X-Algorithm", "X-Credential", "X-Date", "X-Expires", "X-SignedHeaders",
              "X-Security-Token", "X-Signature"}
PresignParamReserved(p) == \E own \in OwnParams : p.name = <<own>>

MaxExpires == 604800
Expires(in) == in.expires \in 1..MaxExpires

Param(name, value) == [name |-> <<name>>, value |-> value]

PresignParams(in, signed) ==
    in.params \o <<Param("X-Algorithm", <<"AWS4">>),
                   Param("X-Credential", <<in.access, "/">> \o Scope(in)),
                   Param("X-Date", <<"now">>), Param("X-Expires", <<"seconds">>),
                   Param("X-SignedHeaders", signed)>>
    \o (IF in.token # <<>> /\ ~in.late THEN <<Param("X-Security-Token", in.token)>> ELSE <<>>)

PresignPayload(in) == IF in.override # <<>> THEN in.override
                      ELSE IF in.service = "s3" THEN <<"UNSIGNED">> ELSE <<"hash">>

\* put_presigned_url, as the path and the query the server receives.
PresignedUrl(in, query, signature) ==
    [path |-> Uri(in.path, FALSE), query |-> query, signature |-> signature,
     tail |-> IF in.token # <<>> /\ in.late THEN Encoded(in.token, FALSE, FALSE) ELSE <<>>]

PresignUrl(in) ==
    LET builtin == <<Header("host", in.host)>>
        h == CollectHeaders(builtin, in.headers)
        query == BuildQuery(PresignParams(in, SignedHeaders(h)))
    IN  IF \/ Head(in.path) # "/" \/ ~Expires(in) \/ Refused(builtin, in.headers)
           \/ \E p \in ToSet(in.params) : PresignParamReserved(p)
        THEN [ok |-> FALSE]
        ELSE [ok |-> TRUE,
              url |-> PresignedUrl(in, query, SignCanonical(in, query, h, PresignPayload(in)))]
=============================================================================
