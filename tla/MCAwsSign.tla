----------------------------- MODULE MCAwsSign ------------------------------
(***************************************************************************)
(* An instance of AwsSign for TLC: two tasks, of which one also keeps      *)
(* credentials of its own; requests to two targets, with and without an    *)
(* extra header, and with a struct that holds another alias.               *)
(***************************************************************************)
EXTENDS AwsSign

CONSTANTS t1, api, kvs, hdr, main, video, struct

Request(target, extra, alias, s) ==
    [target |-> target, headers |-> extra, alias |-> alias, creds |-> s]

SomeRequests == {Request(api, {hdr}, main, struct), Request(kvs, {}, video, struct),
                 Request(api, {}, main, t1)}
=============================================================================
