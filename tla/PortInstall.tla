----------------------------- MODULE PortInstall -----------------------------
(***************************************************************************)
(* components/rmaker_aws_sign/src/esp_rmaker_aws_sign_port.c: tasks that   *)
(* install a port at the same time, with an atomic state and no lock.  A   *)
(* port says which of its groups of operations are complete; each step is  *)
(* one access of the state or of the table.  The removal of a port, which  *)
(* only tests call, is left out.                                           *)
(***************************************************************************)
EXTENDS Naturals

CONSTANTS Tasks,
          Ports,    \* records with mem, crypto, time, json: BOOLEAN, and
                    \* mutex, http: none, some or all of the operations
          NoPort

VARIABLES state,    \* s_port_state
          table,    \* g_esp_rmaker_aws_sign_port: the ports its operations and its log are of
          pc, port, \* of each task: where it is in port_install, and its argument
          told      \* history: the port a task was told is installed

vars == <<state, table, pc, port, told>>

Empty == [ops |-> NoPort, log |-> NoPort]

Init == /\ state = "none" /\ table = Empty
        /\ pc = [t \in Tasks |-> "idle"]
        /\ port = [t \in Tasks |-> NoPort]
        /\ told = [t \in Tasks |-> NoPort]

At(t, place) == pc[t] = place
To(t, place) == pc' = [pc EXCEPT ![t] = place]
Return(t) == To(t, "idle") /\ port' = [port EXCEPT ![t] = NoPort]

\* Mutant of Claimed: an install that is under way is not seen.
ClaimedLate == state # "installed"

Claimed == state = "none"

\* The compare and exchange.
Install(t, p) ==
    /\ At(t, "idle")
    /\ IF Claimed THEN state' = "installing" /\ To(t, "log") /\ port' = [port EXCEPT ![t] = p] /\ UNCHANGED told
       ELSE /\ told' = [told EXCEPT ![t] = IF state = "installed" /\ table.ops = p THEN p ELSE NoPort]
            /\ UNCHANGED <<state, pc, port>>
    /\ UNCHANGED table

WriteLog(t) == /\ At(t, "log")
               /\ table' = [table EXCEPT !.log = port[t]]
               /\ To(t, "prepare")
               /\ UNCHANGED <<state, port, told>>

\* port_prepare, before the initialisation of the crypto backend.
Complete(p) == /\ p.mem /\ p.crypto /\ p.time
               /\ p.mutex # "some" /\ p.http # "some"
               /\ p.http = "all" => p.mutex = "all" /\ p.json

Prepared(t) == /\ At(t, "prepare")
               /\ Complete(port[t])
               /\ To(t, "copy")
               /\ UNCHANGED <<state, table, port, told>>

\* Incomplete, or the backend does not start.
Rejected(t) == /\ At(t, "prepare")
               /\ table' = Empty
               /\ To(t, "release")
               /\ UNCHANGED <<state, port, told>>

Release(t) == /\ At(t, "release")
              /\ state' = "none"
              /\ told' = [told EXCEPT ![t] = NoPort]
              /\ Return(t)
              /\ UNCHANGED table

Copy(t) == /\ At(t, "copy")
           /\ table' = [ops |-> port[t], log |-> port[t]]
           /\ To(t, "publish")
           /\ UNCHANGED <<state, port, told>>

Publish(t) == /\ At(t, "publish")
              /\ state' = "installed"
              /\ told' = [told EXCEPT ![t] = port[t]]
              /\ Return(t)
              /\ UNCHANGED table

Next == \E t \in Tasks : \/ \E p \in Ports : Install(t, p)
                         \/ WriteLog(t) \/ Prepared(t) \/ Rejected(t) \/ Release(t)
                         \/ Copy(t) \/ Publish(t)

Spec == Init /\ [][Next]_vars

-----------------------------------------------------------------------------
TypeOK == /\ state \in {"none", "installing", "installed"}
          /\ table \in [ops : Ports \cup {NoPort}, log : Ports \cup {NoPort}]
          /\ pc \in [Tasks -> {"idle", "log", "prepare", "copy", "publish", "release"}]
          /\ port \in [Tasks -> Ports \cup {NoPort}]
          /\ told \in [Tasks -> Ports \cup {NoPort}]

\* The table is read without a lock once the state says INSTALLED: it is then
\* one whole, complete port, and the one every caller that was told ESP_OK gave.
PortInstalledOnce ==
    /\ state = "installed" => /\ table.ops \in Ports /\ table.log = table.ops
                              /\ Complete(table.ops)
    /\ \A t \in Tasks : told[t] # NoPort => state = "installed" /\ table.ops = told[t]

\* What is installed stays.
NeverReplaced == [][state = "installed" => UNCHANGED <<state, table>>]_vars

-----------------------------------------------------------------------------
\* The inductive invariant: one task installs at most, from the claim to the
\* release, and the table is its own meanwhile.
Installing == {t \in Tasks : pc[t] # "idle"}

Inv == /\ TypeOK
       /\ state = "installing" <=> Installing # {}
       /\ \A t, u \in Installing : t = u
       /\ \A t \in Installing : port[t] \in Ports
       /\ \A t \in Tasks : pc[t] \in {"copy", "publish"} => Complete(port[t])
       /\ \A t \in Tasks : pc[t] = "publish" => table.ops = port[t] /\ table.log = port[t]
       /\ PortInstalledOnce
=============================================================================
