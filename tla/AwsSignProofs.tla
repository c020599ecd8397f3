---------------------------- MODULE AwsSignProofs ----------------------------
(***************************************************************************)
(* Theorems of AwsSign for every set of tasks, requests and hosts.         *)
(***************************************************************************)
EXTENDS AwsSign, FiniteSetTheorems, TLAPS

Credentials == [gen : 0 .. MaxHosts, alias : Aliases \cup {NoAlias}, version : {0, 1}]
Signatures == [creds : Credentials, region : 0 .. MaxHosts]
Places == HoldsRequest \cup {"idle", "lock_request", "host_request", "host_creds", "host_region"}

\* Hosts that calls under way are about to set, which count towards the bound.
Pending == {t \in Tasks : pc[t] \in {"host_request", "host_creds"}}

Types ==
    /\ gen \in 1 .. MaxHosts /\ region \in 1 .. MaxHosts
    /\ creds \in [Structs -> Credentials] /\ due \subseteq Structs
    /\ requestLock \in Tasks \cup {NoTask} /\ credsLock \in Tasks \cup {NoTask}
    /\ op \in [Tasks -> {"none", "send", "refresh", "host"}]
    /\ pc \in [Tasks -> Places]
    /\ req \in [Tasks -> Requests]
    /\ sig \in [Tasks -> Signatures] /\ answer \in [Tasks -> Tasks \cup {NoTask}]
    /\ first \in [Tasks -> BOOLEAN] /\ reused \in [Tasks -> BOOLEAN] /\ got \in [Tasks -> BOOLEAN]
    /\ conn \in Targets \cup {NoTarget} /\ headers \subseteq Headers
    /\ peer \in BOOLEAN

\* A task holds request_mutex in these places.
Owns(t) == \/ op[t] = "send" /\ pc[t] \in HoldsRequest
           \/ pc[t] \in {"host_creds", "host_region"}

\* The place of a task belongs to its call, and each mutex to a place.
Calls ==
    /\ \A t \in Tasks : /\ op[t] = "none" <=> pc[t] = "idle"
                        /\ op[t] = "host" <=> pc[t] \in {"host_request", "host_creds",
                            "host_region"}
                        /\ op[t] = "refresh" => pc[t] \in {"refresh", "lock_creds", "fetch"}
                        /\ op[t] = "refresh" => req[t].creds = t
                        /\ op[t] = "send" => MayUse(t, req[t].creds)
    /\ \A t \in Tasks : /\ requestLock = t <=> Owns(t)
                        /\ credsLock = t <=> pc[t] \in {"fetch", "host_region"}

\* What the pooled connection holds, by the place of the task that uses it.
Wire ==
    /\ \A t \in Tasks : pc[t] \in {"headers", "perform", "await"} => conn = req[t].target
    /\ \A t \in Tasks : Sending(t) => headers = req[t].headers
    /\ \A t \in Tasks : pc[t] = "clear" => headers \subseteq req[t].headers
    /\ (\A t \in Tasks : pc[t] \notin {"perform", "await", "clear"}) => headers = {}

\* An answer is only in the connection while the call it answers waits for it.
Answers ==
    /\ unread = <<>> \/ \E t \in Tasks : pc[t] = "await" /\ unread = <<t>>
    /\ \A t \in Tasks : got[t] => pc[t] \in {"clear", "unlock"}
    /\ AnswerIsOwn

\* The struct of a request under way is of the host and the alias in force, and
\* the signature and the connection's headers are made from it.
Signed ==
    /\ (\A t \in Tasks : pc[t] # "host_region") => region = gen
    /\ \A t \in Tasks : op[t] = "send" /\ pc[t] = "lock_creds" =>
          Struct(t) = NoCreds \/ Struct(t).alias = req[t].alias
    /\ \A t \in Tasks : pc[t] \in {"sign", "connect", "headers", "perform", "await"} =>
          Struct(t).gen = gen /\ Struct(t).alias = req[t].alias
    /\ \A t \in Tasks : pc[t] \in {"connect", "headers", "perform", "await"} =>
          sig[t] = [creds |-> Struct(t), region |-> gen]
    /\ \A t \in Tasks : Sending(t) => auth = sig[t] /\ token = Struct(t)

IInv == /\ Types
        /\ gen + Cardinality(Pending) <= MaxHosts
        /\ Calls
        /\ Wire
        /\ Answers
        /\ Signed

-----------------------------------------------------------------------------
\* The owner of request_mutex is alone in what it protects.
LEMMA Alone ==
  ASSUME Types, Calls, NEW t \in Tasks, Owns(t), NEW u \in Tasks, u # t
  PROVE  /\ ~Owns(u)
         /\ pc[u] \notin {"sign", "connect", "headers", "perform", "await", "clear", "unlock",
                          "host_creds", "host_region"}
<1>1. requestLock = t /\ requestLock # u
  BY DEF Calls
<1>2. ~Owns(u)
  BY <1>1 DEF Calls
<1>3. op[u] # "send" => pc[u] \notin {"sign", "connect", "headers", "perform", "await", "clear",
                                     "unlock"}
  BY DEF Calls, Types
<1> QED BY <1>2, <1>3 DEF Owns, HoldsRequest

\* What a request names is of its type.
LEMMA Named ==
  ASSUME Types, NEW t \in Tasks
  PROVE  /\ req[t].target \in Targets /\ req[t].headers \subseteq Headers
         /\ req[t].alias \in Aliases /\ req[t].creds \in Structs
         /\ Struct(t) \in Credentials
<1>1. req[t] \in [target : Targets, headers : SUBSET Headers, alias : Aliases, creds : Structs]
  BY AwsSignAssumption DEF Types
<1> QED BY <1>1 DEF Types, Struct

\* A step of a task, by what it leaves alone.
Begins(t) == (\E r \in Requests : SendCall(t, r) \/ RefreshCall(t, r)) \/ HostCall(t)
Uses(t) == \/ Reuse(t) \/ Open(t) \/ OpenFails(t) \/ SetHeaders(t) \/ SetHeadersFails(t)
           \/ Perform(t) \/ Answered(t) \/ PerformFails(t, TRUE) \/ PerformFails(t, FALSE)
           \/ Finish(t)
Prepares(t) == \/ Refuse(t) \/ Check(t) \/ Fetch(t) \/ FetchFails(t) \/ Sign(t) \/ SignFails(t)
               \/ HostRegion(t)
Step(t) == Begins(t) \/ Lock(t) \/ Prepares(t) \/ Uses(t)

\* A task that uses the pooled connection is alone in that.
LEMMA UserAlone ==
  ASSUME IInv, NEW t \in Tasks, Uses(t)
  PROVE  \A u \in Tasks : u # t => pc[u] \notin {"sign", "connect", "headers", "perform", "await",
                                                 "clear", "unlock", "host_creds", "host_region"}
<1>1. pc[t] \in {"connect", "headers", "perform", "await", "clear", "unlock"}
  BY DEF Uses, Reuse, Open, OpenFails, SetHeaders, SetHeadersFails, Perform, Answered,
      PerformFails, Finish, At
<1>2. Owns(t)
  BY <1>1 DEF IInv, Types, Calls, Owns, HoldsRequest
<1> QED BY <1>2, Alone DEF IInv

\* A call that is to set a host has room for it.
LEMMA Room ==
  ASSUME IInv, NEW t \in Tasks, pc[t] = "host_creds"
  PROVE  gen + 1 <= MaxHosts
<1>1. t \in Pending /\ Pending \subseteq Tasks /\ IsFiniteSet(Tasks)
  BY AwsSignAssumption DEF Pending
<1>2. IsFiniteSet(Pending) /\ Cardinality(Pending) \in Nat
  BY <1>1, FS_Subset, FS_CardinalityType
<1>3. Cardinality(Pending) # 0
  BY <1>1, <1>2, FS_EmptySet
<1>4. gen \in Nat /\ MaxHosts \in Nat /\ gen + Cardinality(Pending) <= MaxHosts
  BY AwsSignAssumption DEF IInv, Types
<1> QED BY <1>2, <1>3, <1>4

\* What a failed request does: begun, or not, and then retried or given up.
Drops(t, begun, place) ==
    /\ pc[t] = "await" /\ pc' = [pc EXCEPT ![t] = place]
    /\ got' = [got EXCEPT ![t] = begun]
    /\ first' = [first EXCEPT ![t] = FALSE]
    /\ conn' = NoTarget /\ headers' = {} /\ auth' = NoSig /\ token' = NoCreds /\ peer' = FALSE
    /\ unread' = <<>>
    /\ UNCHANGED <<gen, region, creds, due, requestLock, credsLock, op, req, sig, reused, answer>>

LEMMA Failed ==
  ASSUME NEW t \in Tasks, \E begun \in BOOLEAN : PerformFails(t, begun)
  PROVE  Drops(t, FALSE, "connect") \/ Drops(t, FALSE, "unlock") \/ Drops(t, TRUE, "unlock")
<1> USE DEF PerformFails, AfterFailure, Close, MayRetry, At, To, host, structs, locks, Drops
<1>1. CASE PerformFails(t, TRUE)
  BY <1>1
<1>2. CASE PerformFails(t, FALSE)
  BY <1>2
<1> QED BY <1>1, <1>2

\* Each step moves its task to a place of its call, and hands the mutexes over with it.
LEMMA CallsKept ==
  ASSUME IInv, NEW t \in Tasks, Step(t)
  PROVE  Calls'
<1> USE DEF IInv, Types, Calls, Owns, HoldsRequest, MayUse, At, To, Return, AfterRefresh,
           AfterRefusal, host, structs, locks, local, pool
<1>1. NoTask \notin Tasks
  BY AwsSignAssumption
<1>2. CASE Begins(t)
  BY <1>2, <1>1 DEF Begins, SendCall, RefreshCall, HostCall
<1>3. CASE LockRequest(t)
  BY <1>3, <1>1 DEF LockRequest
<1>4. CASE LockCreds(t)
  BY <1>4, <1>1 DEF LockCreds
<1>5. CASE HostLockRequest(t)
  BY <1>5, <1>1 DEF HostLockRequest
<1>6. CASE HostLockCreds(t)
  BY <1>6, <1>1 DEF HostLockCreds
<1>7. CASE Refuse(t)
  BY <1>7, <1>1 DEF Refuse
<1>8. CASE Check(t)
  BY <1>8, <1>1 DEF Check
<1>9. CASE Fetch(t)
  BY <1>9, <1>1 DEF Fetch
<1>10. CASE FetchFails(t)
  BY <1>10, <1>1 DEF FetchFails
<1>11. CASE Sign(t)
  BY <1>11, <1>1 DEF Sign
<1>12. CASE SignFails(t)
  BY <1>12, <1>1 DEF SignFails
<1>13. CASE HostRegion(t)
  BY <1>13, <1>1 DEF HostRegion
<1>14. CASE Reuse(t)
  BY <1>14, <1>1 DEF Reuse
<1>15. CASE Open(t)
  BY <1>15, <1>1 DEF Open
<1>16. CASE OpenFails(t)
  BY <1>16, <1>1 DEF OpenFails
<1>17. CASE SetHeaders(t)
  BY <1>17, <1>1 DEF SetHeaders
<1>18. CASE SetHeadersFails(t)
  BY <1>18, <1>1 DEF SetHeadersFails
<1>19. CASE Perform(t)
  BY <1>19, <1>1 DEF Perform
<1>20. CASE Answered(t)
  BY <1>20, <1>1 DEF Answered
<1>21. CASE \E begun \in BOOLEAN : PerformFails(t, begun)
  <2>1. CASE Drops(t, FALSE, "connect")
    BY <2>1 DEF Drops
  <2>2. CASE Drops(t, FALSE, "unlock")
    BY <2>2 DEF Drops
  <2>3. CASE Drops(t, TRUE, "unlock")
    BY <2>3 DEF Drops
  <2> QED BY <1>21, <2>1, <2>2, <2>3, Failed
<1>22. CASE Finish(t)
  BY <1>22, <1>1 DEF Finish
<1> QED BY <1>2, <1>3, <1>4, <1>5, <1>6, <1>7, <1>8, <1>9, <1>10, <1>11, <1>12, <1>13, <1>14,
    <1>15, <1>16, <1>17, <1>18, <1>19, <1>20, <1>21, <1>22 DEF Step, Lock, Prepares, Uses

\* Each step keeps every variable in its type.
LEMMA TypesKept ==
  ASSUME IInv, NEW t \in Tasks, Step(t)
  PROVE  Types'
<1> USE DEF IInv, Types, Places, HoldsRequest, At, To, Return, AfterRefresh, AfterRefusal,
           host, structs, locks, local, pool
<1>1. NoAlias \notin Aliases /\ MaxHosts \in Nat
  BY AwsSignAssumption
<1>2. pc[t] = "host_creds" => gen + 1 <= MaxHosts
  BY Room
<1>3. AnyRequest \in Requests
  BY AwsSignAssumption DEF AnyRequest
<1>4. CASE Begins(t)
  BY <1>4 DEF Begins, SendCall, RefreshCall, HostCall
<1>5. CASE LockRequest(t)
  BY <1>5 DEF LockRequest
<1>6. CASE LockCreds(t)
  BY <1>6 DEF LockCreds
<1>7. CASE HostLockRequest(t)
  BY <1>7 DEF HostLockRequest
<1>8. CASE HostLockCreds(t)
  BY <1>8, <1>2 DEF HostLockCreds
<1>9. CASE Refuse(t)
  BY <1>9 DEF Refuse
<1>10. CASE Check(t)
  BY <1>10 DEF Check
<1>11. CASE Fetch(t)
  <2>1. [gen |-> gen, alias |-> req[t].alias, version |-> 1 - Struct(t).version] \in Credentials
    BY Named, <1>1 DEF Credentials
  <2>2. creds' \in [Structs -> Credentials]
    BY <1>11, <2>1 DEF Fetch, Struct
  <2> QED BY <1>11, <2>2 DEF Fetch
<1>12. CASE FetchFails(t)
  BY <1>12 DEF FetchFails
<1>13. CASE Sign(t)
  BY <1>13, Named, <1>1 DEF Sign, Signatures
<1>14. CASE SignFails(t)
  BY <1>14 DEF SignFails
<1>15. CASE HostRegion(t)
  BY <1>15 DEF HostRegion
<1>16. CASE Reuse(t)
  BY <1>16 DEF Reuse
<1>17. CASE Open(t)
  BY <1>17, Named DEF Open
<1>18. CASE OpenFails(t)
  BY <1>18 DEF OpenFails, Close
<1>19. CASE SetHeaders(t)
  BY <1>19, Named DEF SetHeaders
<1>20. CASE SetHeadersFails(t)
  BY <1>20, Named DEF SetHeadersFails
<1>21. CASE Perform(t)
  BY <1>21 DEF Perform
<1>22. CASE Answered(t)
  <2>1. Head(unread) \in Tasks
    BY <1>22 DEF Answered, Answers
  <2> QED BY <1>22, <2>1 DEF Answered
<1>23. CASE \E begun \in BOOLEAN : PerformFails(t, begun)
  <2>1. CASE Drops(t, FALSE, "connect")
    BY <2>1, <1>1 DEF Drops, NoSig, NoCreds
  <2>2. CASE Drops(t, FALSE, "unlock")
    BY <2>2, <1>1 DEF Drops, NoSig, NoCreds
  <2>3. CASE Drops(t, TRUE, "unlock")
    BY <2>3, <1>1 DEF Drops, NoSig, NoCreds
  <2> QED BY <1>23, <2>1, <2>2, <2>3, Failed
<1>24. CASE Finish(t)
  <2>1. NoSig \in Signatures
    BY <1>1 DEF NoSig, NoCreds, Signatures, Credentials
  <2>2. headers' \subseteq Headers
    BY <1>24 DEF Finish, Clear
  <2> QED BY <1>24, <1>3, <2>1, <2>2 DEF Finish
<1> QED BY <1>4, <1>5, <1>6, <1>7, <1>8, <1>9, <1>10, <1>11, <1>12, <1>13, <1>14, <1>15, <1>16,
    <1>17, <1>18, <1>19, <1>20, <1>21, <1>22, <1>23, <1>24 DEF Step, Lock, Prepares, Uses

\* Each step leaves on the connection what the place of its user says.
LEMMA WireKept ==
  ASSUME IInv, NEW t \in Tasks, Step(t)
  PROVE  Wire'
<1> USE DEF IInv, Types, Wire, Sending, At, To, Return, AfterRefresh, AfterRefusal,
           host, structs, locks, local, pool
<1>1. Uses(t) => \A u \in Tasks : u # t => pc[u] \notin {"headers", "perform", "await", "clear"}
  BY UserAlone
<1>2. CASE Begins(t)
  BY <1>2 DEF Begins, SendCall, RefreshCall, HostCall, Calls
<1>3. CASE LockRequest(t)
  BY <1>3 DEF LockRequest
<1>4. CASE LockCreds(t)
  BY <1>4 DEF LockCreds
<1>5. CASE HostLockRequest(t)
  BY <1>5 DEF HostLockRequest
<1>6. CASE HostLockCreds(t)
  BY <1>6 DEF HostLockCreds
<1>7. CASE Refuse(t)
  BY <1>7 DEF Refuse
<1>8. CASE Check(t)
  BY <1>8 DEF Check
<1>9. CASE Fetch(t)
  BY <1>9 DEF Fetch
<1>10. CASE FetchFails(t)
  BY <1>10 DEF FetchFails
<1>11. CASE Sign(t)
  BY <1>11 DEF Sign
<1>12. CASE SignFails(t)
  BY <1>12 DEF SignFails
<1>13. CASE HostRegion(t)
  BY <1>13 DEF HostRegion
<1>14. CASE Reuse(t)
  BY <1>14, <1>1 DEF Reuse, Matches, Uses
<1>15. CASE Open(t)
  BY <1>15, <1>1 DEF Open, Uses
<1>16. CASE OpenFails(t)
  BY <1>16, <1>1 DEF OpenFails, Close, Uses
<1>17. CASE SetHeaders(t)
  BY <1>17, <1>1 DEF SetHeaders, Uses
<1>18. CASE SetHeadersFails(t)
  BY <1>18, <1>1 DEF SetHeadersFails, Uses
<1>19. CASE Perform(t)
  BY <1>19, <1>1 DEF Perform, Uses
<1>20. CASE Answered(t)
  BY <1>20, <1>1 DEF Answered, Uses
<1>21. CASE \E begun \in BOOLEAN : PerformFails(t, begun)
  <2>1. CASE Drops(t, FALSE, "connect")
    BY <2>1, <1>21, <1>1 DEF Drops, Uses
  <2>2. CASE Drops(t, FALSE, "unlock")
    BY <2>2, <1>21, <1>1 DEF Drops, Uses
  <2>3. CASE Drops(t, TRUE, "unlock")
    BY <2>3, <1>21, <1>1 DEF Drops, Uses
  <2> QED BY <1>21, <2>1, <2>2, <2>3, Failed
<1>22. CASE Finish(t)
  BY <1>22, <1>1 DEF Finish, Clear, Uses
<1> QED BY <1>2, <1>3, <1>4, <1>5, <1>6, <1>7, <1>8, <1>9, <1>10, <1>11, <1>12, <1>13, <1>14,
    <1>15, <1>16, <1>17, <1>18, <1>19, <1>20, <1>21, <1>22 DEF Step, Lock, Prepares, Uses

\* Each step leaves no answer in the connection but to the call that awaits it.
LEMMA AnswersKept ==
  ASSUME IInv, NEW t \in Tasks, Step(t)
  PROVE  Answers'
<1> USE DEF IInv, Types, Answers, AnswerIsOwn, At, To, Return, AfterRefresh, AfterRefusal,
           host, structs, locks, local, pool
<1>1. Uses(t) => \A u \in Tasks : u # t => pc[u] \notin {"headers", "perform", "await", "clear"}
  BY UserAlone
<1>2. CASE Begins(t)
  BY <1>2 DEF Begins, SendCall, RefreshCall, HostCall, Calls
<1>3. CASE LockRequest(t)
  BY <1>3 DEF LockRequest
<1>4. CASE LockCreds(t)
  BY <1>4 DEF LockCreds
<1>5. CASE HostLockRequest(t)
  BY <1>5 DEF HostLockRequest
<1>6. CASE HostLockCreds(t)
  BY <1>6 DEF HostLockCreds
<1>7. CASE Refuse(t)
  BY <1>7 DEF Refuse
<1>8. CASE Check(t)
  BY <1>8 DEF Check
<1>9. CASE Fetch(t)
  BY <1>9 DEF Fetch
<1>10. CASE FetchFails(t)
  BY <1>10 DEF FetchFails
<1>11. CASE Sign(t)
  BY <1>11 DEF Sign
<1>12. CASE SignFails(t)
  BY <1>12 DEF SignFails
<1>13. CASE HostRegion(t)
  BY <1>13 DEF HostRegion
<1>14. CASE Reuse(t)
  BY <1>14, <1>1 DEF Reuse, Uses
<1>15. CASE Open(t)
  BY <1>15, <1>1 DEF Open, Uses
<1>16. CASE OpenFails(t)
  BY <1>16, <1>1 DEF OpenFails, Close, Uses
<1>17. CASE SetHeaders(t)
  BY <1>17, <1>1 DEF SetHeaders, Uses
<1>18. CASE SetHeadersFails(t)
  BY <1>18, <1>1 DEF SetHeadersFails, Uses
<1>19. CASE Perform(t)
  <2>1. unread = <<>>
    BY <1>19, <1>1 DEF Perform, Uses
  <2>2. unread' = <<>> \/ unread' = <<t>>
    BY <1>19, <2>1 DEF Perform
  <2> QED BY <1>19, <2>2 DEF Perform
<1>20. CASE Answered(t)
  <2>1. unread = <<t>>
    BY <1>20, <1>1 DEF Answered, Uses
  <2>2. Head(unread) = t /\ Tail(unread) = <<>>
    BY <2>1
  <2> QED BY <1>20, <2>2 DEF Answered
<1>21. CASE \E begun \in BOOLEAN : PerformFails(t, begun)
  <2>1. CASE Drops(t, FALSE, "connect")
    BY <2>1, <1>21, <1>1 DEF Drops, Uses
  <2>2. CASE Drops(t, FALSE, "unlock")
    BY <2>2, <1>21, <1>1 DEF Drops, Uses
  <2>3. CASE Drops(t, TRUE, "unlock")
    BY <2>3, <1>21, <1>1 DEF Drops, Uses
  <2> QED BY <1>21, <2>1, <2>2, <2>3, Failed
<1>22. CASE Finish(t)
  <2>1. unread = <<>>
    BY <1>22, <1>1 DEF Finish, Uses
  <2>2. unread' = <<>>
    BY <1>22, <2>1 DEF Finish
  <2> QED BY <1>22, <2>2 DEF Finish
<1> QED BY <1>2, <1>3, <1>4, <1>5, <1>6, <1>7, <1>8, <1>9, <1>10, <1>11, <1>12, <1>13, <1>14,
    <1>15, <1>16, <1>17, <1>18, <1>19, <1>20, <1>21, <1>22 DEF Step, Lock, Prepares, Uses

\* Each step keeps the signature of a request under way made from what is in force.
LEMMA SignedKept ==
  ASSUME IInv, NEW t \in Tasks, Step(t)
  PROVE  Signed'
<1> USE DEF IInv, Types, Signed, Struct, Sending, At, To, Return, AfterRefresh, AfterRefusal,
           host, structs, locks, local, pool
<1>1. Uses(t) => \A u \in Tasks : u # t => pc[u] \notin {"headers", "perform", "await", "clear"}
  BY UserAlone
<1>2. CASE Begins(t)
  BY <1>2 DEF Begins, SendCall, RefreshCall, HostCall, Calls
<1>3. CASE LockRequest(t)
  BY <1>3 DEF LockRequest
<1>4. CASE LockCreds(t)
  BY <1>4 DEF LockCreds, Stale
<1>5. CASE HostLockRequest(t)
  BY <1>5 DEF HostLockRequest
<1>6. CASE HostLockCreds(t)
  <2>1. \A u \in Tasks : u # t => pc[u] \notin {"sign", "connect", "headers", "perform", "await"}
    BY <1>6, Alone DEF HostLockCreds, Owns
  <2> QED BY <1>6, <2>1 DEF HostLockCreds
<1>7. CASE Refuse(t)
  BY <1>7 DEF Refuse
<1>8. CASE Check(t)
  BY <1>8 DEF Check, OtherAlias
<1>9. CASE Fetch(t)
  <2>1. req[t].creds \in Structs /\ op[t] \in {"send", "refresh"}
    BY <1>9, Named DEF Fetch, Calls
  <2>2. \A u \in Tasks : u # t /\ op[u] = "send"
                             /\ pc[u] \in {"lock_creds", "sign", "connect", "headers", "perform",
                                 "await"}
                        => req[u].creds # req[t].creds
    <3>1. CASE op[t] = "send"
      BY <1>9, <3>1, Alone DEF Fetch, Owns, HoldsRequest
    <3>2. CASE op[t] = "refresh"
      BY <3>2, AwsSignAssumption DEF Calls, MayUse
    <3> QED BY <2>1, <3>1, <3>2
  <2>3. \A u \in Tasks : pc[u] \in {"sign", "connect", "headers", "perform",
      "await"} => op[u] = "send"
    BY DEF Calls
  <2>4. creds'[req[t].creds].gen = gen /\ creds'[req[t].creds].alias = req[t].alias
    BY <1>9, <2>1 DEF Fetch
  <2>5. \A u \in Tasks : u # t /\ op[u] = "send"
                             /\ pc[u] \in {"lock_creds", "sign", "connect", "headers", "perform",
                                 "await"}
                        => creds'[req[u].creds] = creds[req[u].creds]
    BY <1>9, <2>2, Named DEF Fetch
  <2> QED BY <1>9, <2>3, <2>4, <2>5 DEF Fetch
<1>10. CASE FetchFails(t)
  BY <1>10 DEF FetchFails
<1>11. CASE Sign(t)
  <2>1. region = gen
    BY <1>11, Alone DEF Sign, Owns, Calls, HoldsRequest
  <2> QED BY <1>11, <2>1 DEF Sign
<1>12. CASE SignFails(t)
  BY <1>12 DEF SignFails
<1>13. CASE HostRegion(t)
  BY <1>13 DEF HostRegion
<1>14. CASE Reuse(t)
  BY <1>14, <1>1 DEF Reuse, Uses
<1>15. CASE Open(t)
  BY <1>15, <1>1 DEF Open, Uses
<1>16. CASE OpenFails(t)
  BY <1>16, <1>1 DEF OpenFails, Close, Uses
<1>17. CASE SetHeaders(t)
  BY <1>17, <1>1 DEF SetHeaders, Uses
<1>18. CASE SetHeadersFails(t)
  BY <1>18, <1>1 DEF SetHeadersFails, Uses
<1>19. CASE Perform(t)
  BY <1>19, <1>1 DEF Perform, Uses
<1>20. CASE Answered(t)
  BY <1>20, <1>1 DEF Answered, Uses
<1>21. CASE \E begun \in BOOLEAN : PerformFails(t, begun)
  <2>1. CASE Drops(t, FALSE, "connect")
    BY <2>1, <1>21, <1>1 DEF Drops, Uses
  <2>2. CASE Drops(t, FALSE, "unlock")
    BY <2>2, <1>21, <1>1 DEF Drops, Uses
  <2>3. CASE Drops(t, TRUE, "unlock")
    BY <2>3, <1>21, <1>1 DEF Drops, Uses
  <2> QED BY <1>21, <2>1, <2>2, <2>3, Failed
<1>22. CASE Finish(t)
  BY <1>22, <1>1 DEF Finish, Uses
<1> QED BY <1>2, <1>3, <1>4, <1>5, <1>6, <1>7, <1>8, <1>9, <1>10, <1>11, <1>12, <1>13, <1>14,
    <1>15, <1>16, <1>17, <1>18, <1>19, <1>20, <1>21, <1>22 DEF Step, Lock, Prepares, Uses

\* The hosts that calls are about to set stay within the bound.
LEMMA PendingKept ==
  ASSUME IInv, NEW t \in Tasks, Step(t)
  PROVE  gen' + Cardinality(Pending') <= MaxHosts
<1> DEFINE P == Pending
           Q == Pending'
<1>1. gen \in Nat /\ MaxHosts \in Nat /\ gen + Cardinality(P) <= MaxHosts
  BY AwsSignAssumption DEF IInv, Types
<1>2. IsFiniteSet(P) /\ Cardinality(P) \in Nat
  BY AwsSignAssumption, FS_Subset, FS_CardinalityType DEF Pending
<1> USE DEF At, To, Return, AfterRefresh, AfterRefusal, host, structs, locks, local, pool, IInv,
    Types
<1>3. CASE HostCall(t)
  <2>1. t \notin P /\ Q = P \cup {t} /\ gen' = gen
    BY <1>3 DEF HostCall, Pending, Calls
  <2>2. gen + Cardinality(P) < MaxHosts
    BY <1>3 DEF HostCall, Pending
  <2>3. Cardinality(Q) = Cardinality(P) + 1
    BY <1>2, <2>1, FS_AddElement
  <2> HIDE DEF P, Q
  <2>4. gen' + Cardinality(Q) <= MaxHosts
    BY <1>1, <1>2, <2>1, <2>2, <2>3
  <2> QED BY <2>4 DEF Q
<1>4. CASE HostLockCreds(t)
  <2>1. t \in P /\ Q = P \ {t} /\ gen' = gen + 1
    BY <1>4 DEF HostLockCreds, Pending
  <2>2. Cardinality(Q) = Cardinality(P) - 1
    BY <1>2, <2>1, FS_RemoveElement
  <2> HIDE DEF P, Q
  <2>3. gen' + Cardinality(Q) <= MaxHosts
    BY <1>1, <1>2, <2>1, <2>2
  <2> QED BY <2>3 DEF Q
<1>5. ASSUME ~HostCall(t), ~HostLockCreds(t)
      PROVE  gen' = gen /\ Q = P
  <2>1. CASE \E r \in Requests : SendCall(t, r) \/ RefreshCall(t, r)
    BY <2>1 DEF SendCall, RefreshCall, Pending, Calls
  <2>2. CASE LockRequest(t) \/ LockCreds(t) \/ HostLockRequest(t)
    BY <2>2 DEF LockRequest, LockCreds, HostLockRequest, Pending
  <2>3. CASE Prepares(t)
    BY <2>3 DEF Prepares, Refuse, Check, Fetch, FetchFails, Sign, SignFails, HostRegion, Pending
  <2>4. CASE Reuse(t) \/ Open(t) \/ OpenFails(t) \/ SetHeaders(t) \/ SetHeadersFails(t)
    BY <2>4 DEF Reuse, Open, OpenFails, SetHeaders, SetHeadersFails, Pending
  <2>5. CASE Perform(t) \/ Answered(t) \/ Finish(t)
    BY <2>5 DEF Perform, Answered, Finish, Pending
  <2>6. CASE \E begun \in BOOLEAN : PerformFails(t, begun)
    BY <2>6, Failed DEF Drops, Pending
  <2> QED BY <1>5, <2>1, <2>2, <2>3, <2>4, <2>5, <2>6 DEF Step, Begins, Lock, Uses
<1>6. CASE gen' = gen /\ Q = P
  BY <1>1, <1>6
<1> QED BY <1>3, <1>4, <1>5, <1>6

-----------------------------------------------------------------------------
\* The inductive invariant: at first, and then with every step.
LEMMA InitInv == Init => IInv
<1> SUFFICES ASSUME Init PROVE IInv
  OBVIOUS
<1> USE DEF Init
<1>1. AnyRequest \in Requests /\ NoTask \notin Tasks /\ MaxHosts \in Nat \ {0}
  BY AwsSignAssumption DEF AnyRequest
<1>2. NoCreds \in Credentials /\ NoSig \in Signatures
  BY <1>1 DEF NoSig, NoCreds, Signatures, Credentials
<1>3. Types
  <2>1. creds \in [Structs -> Credentials] /\ sig \in [Tasks -> Signatures]
    BY <1>2
  <2>2. /\ first \in [Tasks -> BOOLEAN] /\ reused \in [Tasks -> BOOLEAN]
        /\ got \in [Tasks -> BOOLEAN] /\ peer \in BOOLEAN
    OBVIOUS
  <2>3. /\ gen \in 1 .. MaxHosts /\ region \in 1 .. MaxHosts
        /\ req \in [Tasks -> Requests]
        /\ due \subseteq Structs /\ headers \subseteq Headers
        /\ answer \in [Tasks -> Tasks \cup {NoTask}]
    BY <1>1
  <2> QED BY <2>1, <2>2, <2>3 DEF Types, Places
<1>4. gen + Cardinality(Pending) <= MaxHosts
  <2>1. Pending = {}
    BY DEF Pending
  <2> QED BY <1>1, <2>1, FS_EmptySet
<1>5. Calls
  BY <1>1 DEF Calls, Owns, HoldsRequest
<1>6. Wire /\ Answers
  BY DEF Wire, Answers, AnswerIsOwn, Sending, At
<1>7. Signed
  BY DEF Signed, Sending
<1> QED BY <1>3, <1>4, <1>5, <1>6, <1>7 DEF IInv

\* A step of a task.
LEMMA StepInv ==
  ASSUME IInv, NEW t \in Tasks, Step(t)
  PROVE  IInv'
<1>1. (gen + Cardinality(Pending) <= MaxHosts)'
  BY PendingKept
<1> QED BY <1>1, CallsKept, TypesKept, WireKept, AnswersKept, SignedKept DEF IInv

\* A step of time, or of the server.
LEMMA OutsideInv ==
  ASSUME IInv, (\E s \in Structs : NearExpiry(s)) \/ PeerCloses
  PROVE  IInv'
<1> USE DEF NearExpiry, PeerCloses, host, structs, locks, local, pool
<1>1. Types'
  BY DEF IInv, Types
<1>2. (gen + Cardinality(Pending) <= MaxHosts)'
  BY DEF IInv, Pending
<1>3. Calls' /\ Wire'
  BY DEF IInv, Calls, Owns, Wire, Sending
<1>4. Answers'
  BY DEF IInv, Answers, AnswerIsOwn, At
<1>5. Signed'
  BY DEF IInv, Signed, Sending, Struct
<1> QED BY <1>1, <1>2, <1>3, <1>4, <1>5 DEF IInv

\* Every step.
LEMMA NextInv == IInv /\ [Next]_vars => IInv'
<1> SUFFICES ASSUME IInv, [Next]_vars PROVE IInv'
  OBVIOUS
<1>1. CASE \E t \in Tasks : Step(t)
  BY <1>1, StepInv
<1>2. CASE (\E s \in Structs : NearExpiry(s)) \/ PeerCloses
  BY <1>2, OutsideInv
<1>3. CASE UNCHANGED vars
  <2> USE <1>3 DEF vars, host, structs, locks, local, pool
  <2>1. Types'
    BY DEF IInv, Types
  <2>2. (gen + Cardinality(Pending) <= MaxHosts)'
    BY DEF IInv, Pending
  <2>3. Calls' /\ Wire'
    BY DEF IInv, Calls, Owns, Wire, Sending
  <2>4. Answers'
    BY DEF IInv, Answers, AnswerIsOwn, At
  <2>5. Signed'
    BY DEF IInv, Signed, Sending, Struct
  <2> QED BY <2>1, <2>2, <2>3, <2>4, <2>5 DEF IInv
<1> QED BY <1>1, <1>2, <1>3 DEF Next, Work, Step, Begins, Uses, Prepares

\* It holds throughout.
LEMMA Invariant == Spec => []IInv
BY InitInv, NextInv, PTL DEF Spec

-----------------------------------------------------------------------------
(***************************************************************************)
(* Every variable keeps its type, each mutex is with the task whose place  *)
(* says so (esp_rmaker_aws_sign_send_request releases it on every path),   *)
(* and at most one answer is ever in the connection.                       *)
(***************************************************************************)
THEOREM Typing == Spec => []TypeOK
<1>1. IInv => TypeOK
  <2> SUFFICES ASSUME IInv PROVE TypeOK
    OBVIOUS
  <2>1. Len(unread) <= 1
    <3>1. unread = <<>> \/ \E t \in Tasks : unread = <<t>>
      BY DEF IInv, Answers
    <3>2. Len(<<>>) <= 1 /\ \A t \in Tasks : Len(<<t>>) <= 1
      OBVIOUS
    <3> QED BY <3>1, <3>2
  <2>2. \A t \in Tasks : sig[t].region \in 0 .. MaxHosts /\ answer[t] \in Tasks \cup {NoTask}
    BY DEF IInv, Types, Signatures
  <2>3. \A t \in Tasks :
         /\ requestLock = t <=> \/ op[t] = "send" /\ pc[t] \in HoldsRequest
                                \/ pc[t] \in {"host_creds", "host_region"}
         /\ credsLock = t <=> pc[t] \in {"fetch", "host_region"}
    BY DEF IInv, Calls, Owns
  <2>4. <<first, reused, got>> \in [Tasks -> BOOLEAN] \X [Tasks -> BOOLEAN] \X [Tasks -> BOOLEAN]
    BY DEF IInv, Types
  <2>5. /\ gen \in 1 .. MaxHosts /\ region \in 1 .. MaxHosts
        /\ creds \in [Structs -> [gen : 0 .. MaxHosts, alias : Aliases \cup {NoAlias},
            version : {0, 1}]]
        /\ due \subseteq Structs
        /\ requestLock \in Tasks \cup {NoTask} /\ credsLock \in Tasks \cup {NoTask}
        /\ op \in [Tasks -> {"none", "send", "refresh", "host"}]
        /\ pc \in [Tasks -> HoldsRequest \cup {"idle", "lock_request", "host_request", "host_creds",
                                               "host_region"}]
        /\ req \in [Tasks -> Requests]
        /\ conn \in Targets \cup {NoTarget} /\ headers \subseteq Headers
        /\ peer \in BOOLEAN
    BY DEF IInv, Types, Credentials, Places
  <2> QED BY <2>1, <2>2, <2>3, <2>4, <2>5 DEF TypeOK
<1> QED BY <1>1, Invariant, PTL

(***************************************************************************)
(* Whatever other tasks refresh, send or reconfigure meanwhile, a request  *)
(* goes out signed for the host, the region and the alias in force, with   *)
(* the token of the credentials that signed it.                            *)
(***************************************************************************)
THEOREM SignedRight == Spec => []SignedAsConfigured
<1>1. IInv => SignedAsConfigured
  BY AwsSignAssumption DEF IInv, Types, Signed, SignedAsConfigured, Sending, Struct
<1> QED BY <1>1, Invariant, PTL

(***************************************************************************)
(* A pooled connection carries the headers of one request only, and to     *)
(* the host of that request (conn_get, clear_caller_headers).              *)
(***************************************************************************)
THEOREM WireAlwaysExact == Spec => []WireIsExact
<1>1. IInv => WireIsExact
  BY DEF IInv, Wire, Signed, WireIsExact, Sending
<1> QED BY <1>1, Invariant, PTL

\* A call returns the answer to its own request (conn_close after a failure).
THEOREM AnswersAreOwn == Spec => []AnswerIsOwn
<1>1. IInv => AnswerIsOwn
  BY DEF IInv, Answers
<1> QED BY <1>1, Invariant, PTL

\* No request of which the server answered a byte is sent again (may_retry).
THEOREM NeverResent == Spec => []NotResent
<1>1. IInv => NotResent
  BY DEF IInv, Answers, NotResent
<1> QED BY <1>1, Invariant, PTL
=============================================================================
