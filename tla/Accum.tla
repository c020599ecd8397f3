-------------------------------- MODULE Accum --------------------------------
(***************************************************************************)
(* components/rmaker_aws_sign/src/esp_rmaker_aws_sign_accum.c: the buffer  *)
(* a response is gathered in, and what send_request makes of it.  A port   *)
(* declares a length, which may be wrong or 0, hands over the body in      *)
(* pieces, and may go on after it was told to stop.  The bytes of a body   *)
(* are 1, 2, 3, ...; allocations may fail.                                 *)
(***************************************************************************)
EXTENDS Naturals, Sequences

CONSTANTS Limit,     \* CONFIG_ESP_RMAKER_AWS_SIGN_REQUEST_RESPONSE_MAX
          MinCap,    \* ACCUM_MIN_CAP
          Pieces,    \* sizes of the pieces
          MaxSent    \* bound: bytes handed over in one transfer

VARIABLES phase,        \* of the transfer: idle, headers, body or returned
          text, cap,    \* what the buffer holds; its size, 0 when there is none
          status,       \* acc.status
          gotResponse,  \* acc.got_response
          retried,      \* attempt # 0, or the connection was not reused
          sent,         \* history: bytes the port has handed over
          result        \* of the call: none, ok or error

vars == <<phase, text, cap, status, gotResponse, retried, sent, result>>

Init == /\ phase = "idle" /\ text = <<>> /\ cap = 0 /\ status = "ok" /\ gotResponse = FALSE
        /\ retried = FALSE /\ sent = 0 /\ result = "none"

\* From the buffer's own size, or ACCUM_MIN_CAP, double until there is room.
Doubled(need) ==
    LET grow[c \in Nat \ {0}] == IF c > need THEN c ELSE grow[2 * c]
    IN  grow[IF cap = 0 THEN MinCap ELSE cap]

AtMost(n, bound) == IF n > bound THEN bound ELSE n

\* Mutant of Grown: no room for the terminator at the limit.
GrownToLimit(need, exact) == IF exact THEN need + 1 ELSE AtMost(Doubled(need), Limit)

Grown(need, exact) == IF exact THEN need + 1 ELSE AtMost(Doubled(need), Limit + 1)

\* accum_reserve, whose allocation fails without memory.
Fits(need, memory) == need <= Limit /\ (need < cap \/ memory)
Reserve(need, exact, memory) ==
    /\ cap' = IF Fits(need, memory) /\ need >= cap THEN Grown(need, exact) ELSE cap
    /\ status' = CASE need > Limit -> "invalid_size"
                   [] need <= Limit /\ ~Fits(need, memory) -> "no_mem"
                   [] OTHER -> status

Perform == /\ phase = "idle"
           /\ phase' = "headers"
           /\ retried' \in {retried, TRUE}
           /\ UNCHANGED <<text, cap, status, gotResponse, sent, result>>

Hint(length, memory) ==
    /\ phase = "headers"
    /\ phase' = "body"
    /\ gotResponse' = TRUE
    /\ IF length = 0 THEN UNCHANGED <<cap, status>> ELSE Reserve(length, TRUE, memory)
    /\ UNCHANGED <<text, retried, sent, result>>

Sink(len, memory) ==
    /\ phase = "body"
    /\ sent + len <= MaxSent
    /\ sent' = sent + len
    /\ gotResponse' = TRUE
    /\ Reserve(Len(text) + len, FALSE, memory)
    /\ text' = IF Fits(Len(text) + len, memory) THEN text \o [i \in 1..len |-> sent + i] ELSE text
    /\ UNCHANGED <<phase, retried, result>>

\* "also covers a port that ignored the abort"
Succeeds == /\ phase = "body"
            /\ phase' = "returned"
            /\ result' = IF status = "ok" THEN "ok" ELSE "error"
            /\ UNCHANGED <<text, cap, status, gotResponse, retried, sent>>

\* accum_reset and another attempt, or the error.
Fails == /\ phase \in {"headers", "body"}
         /\ IF ~retried /\ status = "ok" /\ ~gotResponse
              THEN /\ phase' = "headers" /\ retried' = TRUE
                   /\ text' = <<>> /\ status' = "ok" /\ gotResponse' = FALSE
                   /\ sent' = 0
                   /\ UNCHANGED <<cap, result>>
              ELSE /\ phase' = "returned" /\ result' = "error"
                   /\ UNCHANGED <<text, cap, status, gotResponse, retried, sent>>

\* The body goes to the caller, or accum_free wipes it; then another call.
Free == /\ phase = "returned"
        /\ phase' = "idle" /\ text' = <<>> /\ cap' = 0 /\ status' = "ok" /\ gotResponse' = FALSE
        /\ retried' = FALSE /\ sent' = 0 /\ result' = "none"

Next == \/ Perform
        \/ \E length \in 0..(Limit + 1), memory \in BOOLEAN : Hint(length, memory)
        \/ \E len \in Pieces, memory \in BOOLEAN : Sink(len, memory)
        \/ Succeeds \/ Fails \/ Free

-----------------------------------------------------------------------------
\* The body and its terminator are within the buffer, which is within the limit;
\* a call that succeeds has the whole body, in order, and one piece refused
\* is enough for the call to fail.
BodyHeld == /\ cap <= Limit + 1
            /\ cap = 0 => text = <<>>
            /\ cap > 0 => Len(text) < cap
            /\ status = "ok" => text = [i \in 1..sent |-> i]
            /\ result = "ok" => status = "ok" /\ sent <= Limit
=============================================================================
