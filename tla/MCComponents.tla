---------------------------- MODULE MCComponents -----------------------------
(***************************************************************************)
(* An instance of Components for TLC.                                      *)
(***************************************************************************)
EXTENDS Components

CONSTANT IdLengths    \* lengths of the request ids

\* One TLV holds Chunk bytes and a request id ReqIdLen, at most; a sequence of
\* n different bytes stands for any of its length.
Bytes(n) == [i \in 1..n |-> i]
Req(id, role, cmd, data, outcome, answer) ==
    [id |-> Bytes(id), role |-> role, cmd |-> cmd, data |-> Bytes(data),
     result |-> outcome, response |-> Bytes(answer)]

\* Requests refused and run, data and responses around the size of a TLV, and
\* one that is answered later.
SomeRequests ==
    {Req(id, role, cmd, 0, "failed", 0) : id \in IdLengths, cmd \in 0..2,
                                          role \in {{}, {"admin"}, {"primary"}, {"sub"}}}
    \cup {Req(1, {"admin"}, cmd, n, "ok", 0) : cmd \in 1..2, n \in {2, 3, 7}}
    \cup {Req(1, {"admin"}, cmd, 0, "ok", n) : cmd \in 1..2, n \in {0, 2, 3, 4, 6}}
    \cup {Req(1, {"primary", "sub"}, cmd, 1, "deferred", 4) : cmd \in 1..2}

SomeAccesses == {{"admin"}, {"primary", "sub"}}

\* Two complete ports, one of them without HTTP, and some that are not.
Whole == [mem |-> TRUE, crypto |-> TRUE, time |-> TRUE, json |-> TRUE, mutex |-> "all", http |-> "all"]
SomePorts == {Whole, [Whole EXCEPT !.http = "none", !.json = FALSE],
              [Whole EXCEPT !.mutex = "none"], [Whole EXCEPT !.http = "some"]}

\* A message in one part and two in several, of different lengths.
SomeParts == <<1, 2, 3>>
=============================================================================
