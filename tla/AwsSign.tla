------------------------------- MODULE AwsSign -------------------------------
(***************************************************************************)
(* components/rmaker_aws_sign: one handle, its credential host and region, *)
(* its pooled connection, and the tasks that call send_request,            *)
(* creds_refresh and set_cred_host on it.                                  *)
(*                                                                         *)
(* Each action runs from one lock, network call or failure to the next.    *)
(* region_mutex is held for one copy at a time, so the copies are atomic   *)
(* steps and the lock is left out; get_region only reads.  Time is a       *)
(* choice: credentials come near their expiry, and a pooled connection has *)
(* been idle too long, whenever they like.  A request is its target (host  *)
(* and timeout), the names of its caller's headers, its role alias and its *)
(* credentials struct; a region of its own is left out.  What the signer   *)
(* computes is represented by what goes into it.                           *)
(***************************************************************************)
EXTENDS Naturals, Sequences, FiniteSets

CONSTANTS Tasks,
          Requests,   \* records with target, headers, alias and creds
          Targets,    \* hosts requests go to, each with a timeout
          Headers,    \* names of extra headers
          Aliases,    \* role aliases
          Shared,     \* credentials structs the tasks use through send_request only
          NoTask, NoTarget, NoAlias,
          MaxHosts    \* bound: credential hosts the handle is ever given

\* A task may also keep a struct of its own, which it may refresh directly.
Structs == Shared \cup Tasks

ASSUME AwsSignAssumption ==
    /\ NoTask \notin Tasks /\ NoTarget \notin Targets /\ NoAlias \notin Aliases
    /\ IsFiniteSet(Tasks) /\ Shared \cap Tasks = {}
    /\ Requests \subseteq [target : Targets, headers : SUBSET Headers,
                           alias : Aliases, creds : Structs]
    /\ Requests # {}
    /\ MaxHosts \in Nat \ {0}

VARIABLES
    gen,          \* cred_host_gen, which names the credential host
    region,       \* the gen whose region handle->region holds
    creds, due,   \* contents of each struct; those past their refresh_epoch_sec
    requestLock, credsLock,
    op, pc, req,  \* of each task: the call it is in, where, and its request
    sig,          \* what its signature was made from
    first,        \* attempt = 0
    reused,       \* conn_get took the pooled connection
    got,          \* acc.got_response
    answer,       \* history: the call whose answer it read, by its task
    conn,         \* the pooled connection's target, NoTarget when there is none
    headers,      \* caller's headers set on it
    auth, token,  \* Authorization and x-amz-security-token set on it
    peer,         \* the server still keeps it open
    unread        \* the answers in it, each with the task whose call it answers

host == <<gen, region>>
structs == <<creds, due>>
locks == <<requestLock, credsLock>>
local == <<sig, first, reused, got, answer>>
pool == <<conn, headers, auth, token, peer, unread>>
vars == <<host, structs, locks, op, pc, req, local, pool>>

\* The strings of a struct: one fetch is told from the next by its version.
NoCreds == [gen |-> 0, alias |-> NoAlias, version |-> 0]
NoSig == [creds |-> NoCreds, region |-> 0]

\* What the locals of an idle task hold is of no interest.
AnyRequest == CHOOSE r \in Requests : TRUE

At(t, place) == pc[t] = place
To(t, place) == pc' = [pc EXCEPT ![t] = place]
Return(t) == To(t, "idle") /\ op' = [op EXCEPT ![t] = "none"]

Init == /\ gen = 1 /\ region = 1
        /\ creds = [s \in Structs |-> NoCreds] /\ due = {}
        /\ requestLock = NoTask /\ credsLock = NoTask
        /\ op = [t \in Tasks |-> "none"]
        /\ pc = [t \in Tasks |-> "idle"]
        /\ req = [t \in Tasks |-> AnyRequest]
        /\ sig = [t \in Tasks |-> NoSig]
        /\ first = [t \in Tasks |-> TRUE]
        /\ reused = [t \in Tasks |-> FALSE]
        /\ got = [t \in Tasks |-> FALSE]
        /\ answer = [t \in Tasks |-> NoTask]
        /\ conn = NoTarget /\ headers = {} /\ auth = NoSig /\ token = NoCreds
        /\ peer = FALSE /\ unread = <<>>

-----------------------------------------------------------------------------
(* send_request, up to the refresh, and a refresh called by itself         *)

\* "tasks share one only through send_request()"
MayUse(t, s) == s \in Shared \cup {t}

SendCall(t, r) == /\ op[t] = "none"
                  /\ MayUse(t, r.creds)
                  /\ op' = [op EXCEPT ![t] = "send"]
                  /\ req' = [req EXCEPT ![t] = r]
                  /\ To(t, "lock_request")
                  /\ UNCHANGED <<host, structs, locks, sig, first, reused, got, answer, pool>>

LockRequest(t) == /\ At(t, "lock_request")
                  /\ requestLock = NoTask
                  /\ requestLock' = t
                  /\ To(t, "refresh")
                  /\ UNCHANGED <<host, structs, credsLock, op, req, local, pool>>

RefreshCall(t, r) == /\ op[t] = "none"
                     /\ r.creds = t
                     /\ op' = [op EXCEPT ![t] = "refresh"]
                     /\ req' = [req EXCEPT ![t] = r]
                     /\ To(t, "refresh")
                     /\ UNCHANGED <<host, structs, locks, local, pool>>

-----------------------------------------------------------------------------
(* creds_refresh                                                           *)

Struct(t) == creds[req[t].creds]

\* The caller of the refresh goes on, or gives up.
AfterRefresh(t) == IF op[t] = "send" THEN To(t, "sign") /\ UNCHANGED op ELSE Return(t)
AfterRefusal(t) == IF op[t] = "send" THEN To(t, "unlock") /\ UNCHANGED op ELSE Return(t)

OtherAlias(t) == Struct(t) # NoCreds /\ Struct(t).alias # req[t].alias

\* The struct holds another alias, or the clock is not trustworthy.
Refuse(t) == /\ At(t, "refresh")
             /\ AfterRefusal(t)
             /\ UNCHANGED <<host, structs, locks, req, local, pool>>

Check(t) == /\ At(t, "refresh")
            /\ ~OtherAlias(t)
            /\ To(t, "lock_creds")
            /\ UNCHANGED <<host, structs, locks, op, req, local, pool>>

\* Mutant of Stale: the host the credentials came from is not compared.
StaleByTime(t) == Struct(t) = NoCreds \/ req[t].creds \in due

Stale(t) == \/ Struct(t) = NoCreds
            \/ Struct(t).gen # gen
            \/ req[t].creds \in due

LockCreds(t) == /\ At(t, "lock_creds")
                /\ credsLock = NoTask
                /\ IF Stale(t)
                     THEN credsLock' = t /\ To(t, "fetch") /\ UNCHANGED op
                     ELSE AfterRefresh(t) /\ UNCHANGED credsLock
                /\ UNCHANGED <<host, structs, requestLock, req, local, pool>>

\* A fetch from the current host, which makes the struct good for a while.
Fetch(t) == /\ At(t, "fetch")
            /\ creds' = [creds EXCEPT ![req[t].creds] =
                           [gen |-> gen, alias |-> req[t].alias, version |-> 1 - @.version]]
            /\ due' = due \ {req[t].creds}
            /\ credsLock' = NoTask
            /\ AfterRefresh(t)
            /\ UNCHANGED <<host, requestLock, req, local, pool>>

\* Any failure leaves the struct as it was.
FetchFails(t) == /\ At(t, "fetch")
                 /\ credsLock' = NoTask
                 /\ AfterRefusal(t)
                 /\ UNCHANGED <<host, structs, requestLock, req, local, pool>>

\* Time passes: now >= refresh_epoch_sec.
NearExpiry(s) == /\ creds[s] # NoCreds
                 /\ due' = due \cup {s}
                 /\ UNCHANGED <<host, creds, locks, op, pc, req, local, pool>>

-----------------------------------------------------------------------------
(* send_request, from the signature to the answer                          *)

Sign(t) == /\ At(t, "sign")
           /\ sig' = [sig EXCEPT ![t] = [creds |-> Struct(t), region |-> region]]
           /\ To(t, "connect")
           /\ UNCHANGED <<host, structs, locks, op, req, first, reused, got, answer, pool>>

\* Out of memory, in the signer or for the URL.
SignFails(t) == /\ At(t, "sign")
                /\ To(t, "unlock")
                /\ UNCHANGED <<host, structs, locks, op, req, local, pool>>

Matches(t) == conn = req[t].target

\* conn_get, when the pooled connection matches and has not been idle too long.
Reuse(t) == /\ At(t, "connect")
            /\ Matches(t)
            /\ reused' = [reused EXCEPT ![t] = TRUE]
            /\ To(t, "headers")
            /\ UNCHANGED <<host, structs, locks, op, req, sig, first, got, answer, pool>>

Close == /\ conn' = NoTarget /\ headers' = {} /\ auth' = NoSig /\ token' = NoCreds
         /\ peer' = FALSE /\ unread' = <<>>

\* Otherwise: close what there is, and open.
Open(t) == /\ At(t, "connect")
           /\ reused' = [reused EXCEPT ![t] = FALSE]
           /\ conn' = req[t].target /\ headers' = {} /\ auth' = NoSig /\ token' = NoCreds
           /\ peer' = TRUE /\ unread' = <<>>
           /\ To(t, "headers")
           /\ UNCHANGED <<host, structs, locks, op, req, sig, first, got, answer>>

OpenFails(t) == /\ At(t, "connect")
                /\ reused' = [reused EXCEPT ![t] = FALSE]
                /\ Close
                /\ To(t, "unlock")
                /\ UNCHANGED <<host, structs, locks, op, req, sig, first, got, answer>>

SetHeaders(t) == /\ At(t, "headers")
                 /\ auth' = sig[t]
                 /\ token' = Struct(t)
                 /\ headers' = headers \cup req[t].headers
                 /\ To(t, "perform")
                 /\ UNCHANGED <<host, structs, locks, op, req, local, conn, peer, unread>>

\* One of the set_header calls fails; those before it have been made.
SetHeadersFails(t) == /\ At(t, "headers")
                      /\ \E H \in SUBSET req[t].headers : headers' = headers \cup H
                      /\ To(t, "clear")
                      /\ UNCHANGED <<host, structs, locks, op, req, local, conn, auth, token,
                                     peer, unread>>

\* The request goes out, and reaches the server or is lost.
Perform(t) == /\ At(t, "perform")
              /\ \/ peer /\ unread' = Append(unread, t)
                 \/ UNCHANGED unread
              /\ To(t, "await")
              /\ UNCHANGED <<host, structs, locks, op, req, local, conn, headers, auth, token,
                             peer>>

Answered(t) == /\ At(t, "await")
               /\ unread # <<>>
               /\ answer' = [answer EXCEPT ![t] = Head(unread)]
               /\ unread' = Tail(unread)
               /\ got' = [got EXCEPT ![t] = TRUE]
               /\ To(t, "clear")
               /\ UNCHANGED <<host, structs, locks, op, req, sig, first, reused, conn,
                              headers, auth, token, peer>>

\* Mutant of AfterFailure: only a connection that came from the pool is closed.
AfterFailureReused(t) == IF reused[t] THEN Close ELSE UNCHANGED pool

\* "An aborted or failed transfer leaves the connection unusable."
AfterFailure(t) == Close

\* Mutants of MayRetry: a response that has begun, or a first retry, does not matter.
MayRetryBegun(t, begun) == first[t] /\ reused[t]
MayRetryOnNew(t, begun) == ~begun

\* One retry, when a reused handle fails before any response.
MayRetry(t, begun) == first[t] /\ reused[t] /\ ~begun

\* begun: some of the answer was there, and then the transfer broke off, or
\* the accumulator had no room or no memory for it.
PerformFails(t, begun) ==
    /\ At(t, "await")
    /\ begun => unread # <<>>
    /\ got' = [got EXCEPT ![t] = begun]
    /\ AfterFailure(t)
    /\ first' = [first EXCEPT ![t] = FALSE]
    /\ To(t, IF MayRetry(t, begun) THEN "connect" ELSE "unlock")
    /\ UNCHANGED <<host, structs, locks, op, req, sig, reused, answer>>

\* Mutant of Clear: what the caller set stays on the connection.
ClearNothing(t) == UNCHANGED headers

\* clear_caller_headers, when the handle is still the pooled one.
Clear(t) == headers' = IF At(t, "clear") THEN headers \ req[t].headers ELSE headers

\* Every request overwrites the signature's headers, so they do not matter any
\* more; an answer still unread now is nobody's.
Finish(t) == /\ pc[t] \in {"clear", "unlock"}
             /\ Clear(t)
             /\ requestLock' = NoTask
             /\ Return(t)
             /\ req' = [req EXCEPT ![t] = AnyRequest]
             /\ sig' = [sig EXCEPT ![t] = NoSig]
             /\ first' = [first EXCEPT ![t] = TRUE]
             /\ reused' = [reused EXCEPT ![t] = FALSE]
             /\ got' = [got EXCEPT ![t] = FALSE]
             /\ answer' = [answer EXCEPT ![t] = NoTask]
             /\ auth' = NoSig /\ token' = NoCreds
             /\ unread' = [i \in DOMAIN unread |-> NoTask]
             /\ UNCHANGED <<host, structs, credsLock, conn, peer>>

\* The server closes a connection that is idle or in use.
PeerCloses == /\ peer
              /\ peer' = FALSE
              /\ UNCHANGED <<host, structs, locks, op, pc, req, local, conn, headers, auth, token,
                             unread>>

-----------------------------------------------------------------------------
(* set_cred_host                                                           *)

HostCall(t) == /\ op[t] = "none"
               /\ gen + Cardinality({u \in Tasks : pc[u] \in {"host_request", "host_creds"}})
                    < MaxHosts
               /\ op' = [op EXCEPT ![t] = "host"]
               /\ To(t, "host_request")
               /\ UNCHANGED <<host, structs, locks, req, local, pool>>

\* Mutant of HostLockRequest: a request under way is not waited for.
HostLockRequestNot(t) == /\ At(t, "host_request")
                         /\ To(t, "host_creds")
                         /\ UNCHANGED <<host, structs, locks, op, req, local, pool>>

HostLockRequest(t) == /\ At(t, "host_request")
                      /\ requestLock = NoTask
                      /\ requestLock' = t
                      /\ To(t, "host_creds")
                      /\ UNCHANGED <<host, structs, credsLock, op, req, local, pool>>

HostLockCreds(t) == /\ At(t, "host_creds")
                    /\ credsLock = NoTask
                    /\ credsLock' = t
                    /\ gen' = gen + 1
                    /\ To(t, "host_region")
                    /\ UNCHANGED <<region, structs, requestLock, op, req, local, pool>>

HostRegion(t) == /\ At(t, "host_region")
                 /\ region' = gen
                 /\ credsLock' = NoTask
                 /\ requestLock' = NoTask
                 /\ Return(t)
                 /\ UNCHANGED <<gen, structs, req, local, pool>>

-----------------------------------------------------------------------------
Lock(t) == LockRequest(t) \/ LockCreds(t) \/ HostLockRequest(t) \/ HostLockCreds(t)

Work(t) == \/ Refuse(t) \/ Check(t) \/ Fetch(t) \/ FetchFails(t)
           \/ Sign(t) \/ SignFails(t)
           \/ Reuse(t) \/ Open(t) \/ OpenFails(t)
           \/ SetHeaders(t) \/ SetHeadersFails(t)
           \/ Perform(t) \/ Answered(t) \/ \E begun \in BOOLEAN : PerformFails(t, begun)
           \/ Finish(t) \/ HostRegion(t)

Next == \/ \E t \in Tasks : \/ \E r \in Requests : SendCall(t, r) \/ RefreshCall(t, r)
                            \/ HostCall(t)
                            \/ Lock(t)
                            \/ Work(t)
        \/ \E s \in Structs : NearExpiry(s)
        \/ PeerCloses

(***************************************************************************)
(* Every network call ends, by its timeout at the latest, and a mutex that *)
(* is free again and again is given to each task that waits for it.        *)
(***************************************************************************)
Fairness == \A t \in Tasks : WF_vars(Work(t)) /\ SF_vars(Lock(t))

Spec == Init /\ [][Next]_vars

FairSpec == Spec /\ Fairness

-----------------------------------------------------------------------------
(* Properties                                                              *)

HoldsRequest == {"refresh", "lock_creds", "fetch", "sign", "connect", "headers", "perform",
                 "await", "clear", "unlock"}

\* Every variable stays in its type, and each lock is with the task whose place says so.
TypeOK ==
    /\ gen \in 1 .. MaxHosts /\ region \in 1 .. MaxHosts
    /\ creds \in [Structs -> [gen : 0 .. MaxHosts, alias : Aliases \cup {NoAlias}, version : {0, 1}]]
    /\ due \subseteq Structs
    /\ requestLock \in Tasks \cup {NoTask} /\ credsLock \in Tasks \cup {NoTask}
    /\ op \in [Tasks -> {"none", "send", "refresh", "host"}]
    /\ pc \in [Tasks -> HoldsRequest \cup {"idle", "lock_request", "host_request", "host_creds",
                                           "host_region"}]
    /\ req \in [Tasks -> Requests]
    /\ \A t \in Tasks : /\ sig[t].region \in 0 .. MaxHosts
                        /\ answer[t] \in Tasks \cup {NoTask}
    /\ <<first, reused, got>> \in [Tasks -> BOOLEAN] \X [Tasks -> BOOLEAN] \X [Tasks -> BOOLEAN]
    /\ conn \in Targets \cup {NoTarget} /\ headers \subseteq Headers
    /\ peer \in BOOLEAN /\ Len(unread) <= 1
    /\ \A t \in Tasks :
         /\ requestLock = t <=> \/ op[t] = "send" /\ pc[t] \in HoldsRequest
                                \/ pc[t] \in {"host_creds", "host_region"}
         /\ credsLock = t <=> pc[t] \in {"fetch", "host_region"}

\* The request of t is on its way.
Sending(t) == pc[t] \in {"perform", "await"}

(***************************************************************************)
(* A request goes out signed for the credential host, the region and the   *)
(* role alias in force, with the session token of the very credentials     *)
(* that signed it, whatever other tasks refresh or change meanwhile        *)
(* ("Also holds the region steady while this call signs").                 *)
(***************************************************************************)
SignedAsConfigured ==
    \A t \in Tasks : Sending(t) =>
        /\ auth.creds.gen = gen
        /\ auth.region = gen
        /\ auth.creds.alias = req[t].alias
        /\ token = auth.creds

(***************************************************************************)
(* A request on a pooled connection carries its own headers and goes to    *)
(* its own host: nothing is left of the requests before it, failed ones    *)
(* included ("Leave the pooled handle holding only the headers every       *)
(* request overwrites").                                                   *)
(***************************************************************************)
WireIsExact ==
    \A t \in Tasks : Sending(t) => /\ conn = req[t].target
                                   /\ headers = req[t].headers
                                   /\ auth = sig[t]

(***************************************************************************)
(* The answer a call returns is the answer to its own request, never what  *)
(* an earlier request, given up in the middle, left in the connection.     *)
(***************************************************************************)
AnswerIsOwn == \A t \in Tasks : At(t, "clear") /\ got[t] => answer[t] = t

(***************************************************************************)
(* "Once a response starts, the server has acted, so it is never resent."  *)
(***************************************************************************)
NotResent == \A t \in Tasks : pc[t] \in {"connect", "headers", "perform"} => ~got[t]

(***************************************************************************)
(* Every call on the handle returns: the locks are taken in one order and  *)
(* released on every path, that of a failure too.                          *)
(***************************************************************************)
CallsReturn == \A t \in Tasks : op[t] # "none" ~> op[t] = "none"
=============================================================================
