-------------------------- MODULE PortInstallProofs --------------------------
(***************************************************************************)
(* What PortInstall promises, for any tasks and any ports.                 *)
(***************************************************************************)
EXTENDS PortInstall, TLAPS

\* At the start nothing is installed and nobody installs.
LEMMA InitInv == Init => Inv
  BY DEF Init, Inv, TypeOK, Empty, Installing, PortInstalledOnce

\* The claim of an install, or its answer when it comes too late.
LEMMA InstallInv ==
  ASSUME Inv, NEW t \in Tasks, NEW p \in Ports, Install(t, p)
  PROVE  Inv'
  <1> USE DEF Inv, TypeOK, Installing, PortInstalledOnce, Install, At
  <1>1. CASE Claimed
    <2>1. /\ state = "none" /\ state' = "installing" /\ table' = table /\ told' = told
          /\ pc' = [pc EXCEPT ![t] = "log"] /\ port' = [port EXCEPT ![t] = p]
      BY <1>1 DEF Claimed, To
    <2>2. \A u \in Tasks : pc[u] = "idle"
      BY <2>1
    <2>3. Installing' = {t}
      BY <2>1, <2>2
    <2>4. TypeOK'
      BY <2>1
    <2>5. \A u \in Tasks : told[u] = NoPort
      BY <2>1
    <2> QED
      BY <2>1, <2>2, <2>3, <2>4, <2>5
  <1>2. CASE ~Claimed
    <2>1. /\ UNCHANGED <<state, table, pc, port>>
          /\ told' = [told EXCEPT ![t] = IF state = "installed" /\ table.ops = p THEN p ELSE NoPort]
      BY <1>2
    <2>2. TypeOK'
      BY <2>1
    <2>3. \A u \in Tasks : told'[u] # NoPort => state = "installed" /\ table.ops = told'[u]
      BY <2>1
    <2> QED
      BY <2>1, <2>2, <2>3
  <1> QED
    BY <1>1, <1>2

\* The steps of the one task that installs.
LEMMA StepInv ==
  ASSUME Inv, NEW t \in Tasks,
         WriteLog(t) \/ Prepared(t) \/ Rejected(t) \/ Release(t) \/ Copy(t) \/ Publish(t)
  PROVE  Inv'
  <1> USE DEF Inv, TypeOK, Installing, PortInstalledOnce, At, To
  <1>1. pc[t] # "idle" /\ state = "installing"
    BY DEF WriteLog, Prepared, Rejected, Release, Copy, Publish
  <1>2. \A u \in Tasks : u # t => pc[u] = "idle"
    BY <1>1
  <1>3. \A u \in Tasks : told[u] = NoPort
    BY <1>1
  <1>4. port[t] \in Ports
    BY <1>1
  <1>5. CASE WriteLog(t)
    BY <1>1, <1>2, <1>3, <1>4, <1>5 DEF WriteLog
  <1>6. CASE Prepared(t)
    BY <1>1, <1>2, <1>3, <1>4, <1>6 DEF Prepared
  <1>7. CASE Rejected(t)
    BY <1>1, <1>2, <1>3, <1>4, <1>7 DEF Rejected, Empty
  <1>8. CASE Release(t)
    <2>1. \A u \in Tasks : pc'[u] = "idle"
      BY <1>2, <1>8 DEF Release, Return
    <2> QED
      BY <1>1, <1>2, <1>3, <1>4, <1>8, <2>1 DEF Release, Return
  <1>9. CASE Copy(t)
    BY <1>1, <1>2, <1>3, <1>4, <1>9 DEF Copy
  <1>10. CASE Publish(t)
    <2>1. /\ pc[t] = "publish" /\ state' = "installed" /\ table' = table
          /\ told' = [told EXCEPT ![t] = port[t]]
          /\ pc' = [pc EXCEPT ![t] = "idle"] /\ port' = [port EXCEPT ![t] = NoPort]
      BY <1>10 DEF Publish, Return
    <2>2. \A u \in Tasks : pc'[u] = "idle"
      BY <1>2, <2>1
    <2>3. table.ops = port[t] /\ table.log = port[t] /\ Complete(port[t])
      BY <2>1
    <2>4. TypeOK'
      BY <1>4, <2>1
    <2>5. PortInstalledOnce'
      BY <1>3, <1>4, <2>1, <2>3
    <2> QED
      BY <2>1, <2>2, <2>4, <2>5
  <1> QED
    BY <1>5, <1>6, <1>7, <1>8, <1>9, <1>10

LEMMA NextInv == Inv /\ [Next]_vars => Inv'
  <1> SUFFICES ASSUME Inv, [Next]_vars PROVE Inv'
    OBVIOUS
  <1>1. CASE Next
    BY <1>1, InstallInv, StepInv DEF Next
  <1>2. CASE UNCHANGED vars
    BY <1>2 DEF vars, Inv, TypeOK, Installing, PortInstalledOnce
  <1> QED
    BY <1>1, <1>2

\* The inductive invariant holds: one task at a time is between the claim of
\* the state and its release.
THEOREM Invariance == Spec => []Inv
  BY InitInv, NextInv, PTL DEF Spec

\* port.c: once the state says INSTALLED the table is one complete port, that of
\* every task that was told ESP_OK.
THEOREM OneWholePort == Spec => []PortInstalledOnce
  <1>1. Inv => PortInstalledOnce
    BY DEF Inv
  <1> QED
    BY <1>1, Invariance, PTL

\* port.c: "Re-installing the same port is harmless; swapping one in is not".
THEOREM InstalledStays == Spec => NeverReplaced
  <1>1. Inv /\ [Next]_vars => [state = "installed" => UNCHANGED <<state, table>>]_vars
    <2> SUFFICES ASSUME Inv, Next, state = "installed" PROVE UNCHANGED <<state, table>>
      OBVIOUS
    <2>1. \A t \in Tasks : pc[t] = "idle"
      BY DEF Inv, Installing, TypeOK
    <2> QED
      BY <2>1 DEF Next, Install, Claimed, WriteLog, Prepared, Rejected, Release, Copy, Publish, At
  <1> QED
    BY <1>1, Invariance, PTL DEF Spec, NeverReplaced
=============================================================================
