--------------------------- MODULE ComponentsProofs ---------------------------
(***************************************************************************)
(* Theorems of Components, for every value of its constants: each part     *)
(* keeps its promise beside the others.  The installation of a port, the   *)
(* session and the signer have theorems of their own, which carry over;    *)
(* the device, the buffer of a response, the renewal of credentials, the   *)
(* dates, the search of the zones, the match of topics and the answers to  *)
(* commands are proved here.                                               *)
(***************************************************************************)
EXTENDS Components, SigV4Proofs

-----------------------------------------------------------------------------
(* The device: rmaker_system_ctrl and rmaker_time_sync over one partition  *)

\* A zone that is being set is a zone, and stored until a factory reset closes
\* the partition, which then stays closed until the next boot.
IInv ==
    /\ TypeOK
    /\ boot \in {0, 1}
    /\ task \in {"store", "env", "name"} => zone \in Zones
    /\ task \in {"env", "name"} /\ nvs.open => nvs.posix = zone
    /\ EnvIsStored

\* What a control step may do: restart the device, or erase the partition, or
\* leave it alone.
LEMMA ControlStep ==
  ASSUME IInv, CtrlStep(Ctrl!Next)
  PROVE  /\ rebootTimer' \in {"none", "created", "started"}
         /\ resetTimer' \in [kind : {"wifi", "factory"}, reboot : {"now", "later", "never"}]
                            \cup {Ctrl!NoTimer}
         /\ callers' \in [Ctrl!Callers -> {"idle", "check", "create", "start", "finish"}]
         /\ owed' \subseteq {"reboot", "wifi", "factory"}
         /\ \/ boot' = boot /\ UNCHANGED sync /\ nvs' \in {nvs, Ctrl!Erased}
            \/ boot' = 1 - boot /\ Sync!Reset
               /\ \E p \in {nvs, Ctrl!Erased} : nvs' = [p EXCEPT !.open = TRUE]
  <1> USE DEF IInv, TypeOK, CtrlStep
  <1> DEFINE Typed ==
        /\ rebootTimer' \in {"none", "created", "started"}
        /\ resetTimer' \in [kind : {"wifi", "factory"}, reboot : {"now", "later", "never"}]
                           \cup {Ctrl!NoTimer}
        /\ callers' \in [Ctrl!Callers -> {"idle", "check", "create", "start", "finish"}]
        /\ owed' \subseteq {"reboot", "wifi", "factory"}
        /\ \/ boot' = boot /\ nvs' \in {nvs, Ctrl!Erased}
           \/ boot' = 1 - boot /\ \E p \in {nvs, Ctrl!Erased} : nvs' = [p EXCEPT !.open = TRUE]
  <1>1. ASSUME NEW settled, NEW p \in {nvs, Ctrl!Erased}, Ctrl!Restart(settled, p)
        PROVE  Typed
    BY <1>1 DEF Ctrl!Restart, Ctrl!Callers
  <1>2. ASSUME Ctrl!PlainRestart PROVE Typed
    BY <1>1, <1>2 DEF Ctrl!PlainRestart
  <1>3. ASSUME NEW c \in Ctrl!Callers, Ctrl!RebootStep(c) PROVE Typed
    <2> USE DEF Ctrl!To, Ctrl!Return, Ctrl!Callers, Ctrl!timers
    <2>1. CASE Ctrl!RebootCheck(c)
      BY <1>3, <2>1 DEF Ctrl!RebootCheck
    <2>2. CASE Ctrl!RebootCreate(c)
      BY <1>3, <2>2 DEF Ctrl!RebootCreate
    <2>3. CASE Ctrl!RebootStart(c)
      BY <1>3, <2>3 DEF Ctrl!RebootStart
    <2>4. CASE Ctrl!RebootStartFails(c)
      BY <1>3, <2>4 DEF Ctrl!RebootStartFails
    <2>5. CASE Ctrl!RebootAsserts(c)
      BY <1>2, <2>5 DEF Ctrl!RebootAsserts
    <2>6. CASE Ctrl!RebootFindsNone(c)
      BY <1>3, <2>6 DEF Ctrl!RebootFindsNone
    <2> QED
      BY <1>3, <2>1, <2>2, <2>3, <2>4, <2>5, <2>6 DEF Ctrl!RebootStep
  <1>4. ASSUME NEW c \in Ctrl!Callers, NEW kind \in {"wifi", "factory"},
               NEW reboot \in {"now", "later", "never"}, Ctrl!Perform(c, kind, reboot)
        PROVE  Typed
    <2>1. Ctrl!Partition(kind) \in {nvs, Ctrl!Erased}
      BY DEF Ctrl!Partition
    <2>2. CASE reboot = "now" /\ Ctrl!Restart(Ctrl!Everything, Ctrl!Partition(kind))
      BY <1>1, <2>1, <2>2
    <2>3. CASE reboot # "now" /\ ~Ctrl!Restart(Ctrl!Everything, Ctrl!Partition(kind))
      BY <1>4, <2>1, <2>3 DEF Ctrl!Perform, Ctrl!To, Ctrl!Return, Ctrl!Callers, Ctrl!timers
    <2> QED
      BY <1>4, <2>1, <2>2, <2>3, <1>1 DEF Ctrl!Perform
  <1>5. ASSUME NEW delay \in {"now", "later"}, Ctrl!Reboot(delay) PROVE Typed
    <2>1. CASE Ctrl!PlainRestart
      BY <1>2, <2>1
    <2>2. CASE ~Ctrl!PlainRestart
      BY <1>5, <2>2 DEF Ctrl!Reboot, Ctrl!To, Ctrl!Callers, Ctrl!timers
    <2> QED
      BY <2>1, <2>2
  <1>6. ASSUME NEW kind \in {"wifi", "factory"}, NEW delay \in {"now", "later"},
               NEW reboot \in {"now", "later", "never"}, Ctrl!Reset(kind, delay, reboot)
        PROVE  Typed
    <2>1. CASE Ctrl!Perform("app", kind, reboot)
      BY <1>4, <2>1 DEF Ctrl!Callers
    <2>2. CASE Ctrl!StartResetTimer(kind, reboot)
      BY <2>2 DEF Ctrl!StartResetTimer, Ctrl!timers
    <2> QED
      BY <1>6, <2>1, <2>2 DEF Ctrl!Reset
  <1>7. ASSUME Ctrl!FireReset PROVE Typed
    <2>1. /\ resetTimer.kind \in {"wifi", "factory"} /\ resetTimer.reboot \in {"now", "later", "never"}
          /\ Ctrl!Perform("daemon", resetTimer.kind, resetTimer.reboot)
      BY <1>7 DEF Ctrl!FireReset
    <2> QED
      BY <1>4, <2>1 DEF Ctrl!Callers
  <1>8. ASSUME Ctrl!FireReboot \/ Ctrl!Finish \/ Ctrl!PowerLoss PROVE Typed
    <2>1. CASE Ctrl!Finish
      BY <2>1 DEF Ctrl!Finish, Ctrl!To, Ctrl!Callers, Ctrl!timers
    <2> QED
      BY <1>2, <1>8, <2>1 DEF Ctrl!FireReboot, Ctrl!PowerLoss
  <1>9. Typed
    BY <1>3, <1>5, <1>6, <1>7, <1>8 DEF Ctrl!Next
  <1>10. boot' # boot => Sync!Reset
    OBVIOUS
  <1>11. boot' = boot => UNCHANGED sync
    OBVIOUS
  <1>12. 1 - boot # boot
    OBVIOUS
  <1> QED
    BY <1>9, <1>10, <1>11, <1>12

\* A restart begins with no TZ set, an erased partition is closed.
LEMMA ControlInv ==
  ASSUME IInv, CtrlStep(Ctrl!Next)
  PROVE  IInv'
  <1> DEFINE Kept == [open : BOOLEAN, posix : Keys, name : Keys]
  <1> USE DEF IInv, TypeOK, EnvIsStored
  <1>1. /\ Ctrl!Erased \in Kept /\ ~Ctrl!Erased.open
        /\ Ctrl!Erased.posix = Nothing /\ Ctrl!Erased.name = Nothing
    <2>1. Ctrl!Erased = [open |-> FALSE, posix |-> Nothing, name |-> Nothing]
      BY DEF Ctrl!Erased
    <2>2. Nothing \in Keys
      BY DEF Keys
    <2> QED
      BY <2>1, <2>2
  <1>2. CASE boot' = boot /\ UNCHANGED sync /\ nvs' \in {nvs, Ctrl!Erased}
    <2>1. UNCHANGED <<env, applied, task, zone, asked, left>>
      BY <1>2 DEF sync
    <2>2. CASE nvs' = nvs
      BY <1>2, <2>1, <2>2, ControlStep
    <2>3. CASE nvs' = Ctrl!Erased
      BY <1>1, <1>2, <2>1, <2>3, ControlStep
    <2> QED
      BY <1>2, <2>2, <2>3
  <1>3. ASSUME NEW p \in {nvs, Ctrl!Erased}, boot' = 1 - boot, Sync!Reset,
               nvs' = [p EXCEPT !.open = TRUE]
        PROVE  IInv'
    <2>1. p \in Kept /\ (p.name # Nothing => p.posix # Nothing)
      BY <1>1
    <2>2. nvs' \in Kept /\ nvs'.open /\ nvs'.name = p.name /\ nvs'.posix = p.posix
      BY <1>3, <2>1
    <2>3. /\ env' = Nothing /\ ~applied' /\ task' = "idle" /\ zone' = Nothing
          /\ asked' = 0 /\ left' = 0
      BY <1>3 DEF Sync!Reset
    <2>4. boot' \in {0, 1} /\ Nothing \in Keys /\ 0 \in 0..0
      BY <1>3 DEF Keys
    <2> QED
      BY <2>1, <2>2, <2>3, <2>4, ControlStep
  <1> QED
    BY <1>2, <1>3, ControlStep


\* The steps of the task that sets the zone and waits.
LEMMA SyncInv ==
  ASSUME IInv, Sync!Next, UNCHANGED ctrl
  PROVE  IInv'
  <1> USE DEF IInv, TypeOK, EnvIsStored, Keys, ctrl, Sync!ticks
  <1>1. ASSUME NEW z \in Zones, Sync!SetTimezone(z) \/ Sync!SetTimezonePosix(z) PROVE IInv'
    BY <1>1 DEF Sync!SetTimezone, Sync!SetTimezonePosix
  <1>2. CASE Sync!Store
    BY <1>2, DeviceAssumption DEF Sync!Store, Sync!Return
  <1>3. CASE Sync!SetEnv
    BY <1>3, DeviceAssumption DEF Sync!SetEnv, Sync!Return
  <1>4. CASE Sync!StoreName
    BY <1>4, DeviceAssumption DEF Sync!StoreName, Sync!Return
  <1>5. CASE Sync!AppStartsSntp \/ Sync!ClockSet
    BY <1>5 DEF Sync!AppStartsSntp, Sync!ClockSet
  <1>6. CASE Sync!TimeSyncInit
    BY <1>6 DEF Sync!TimeSyncInit, Sync!Enabled
  <1>7. ASSUME NEW n \in Waits, Sync!Wait(n) PROVE IInv'
    BY <1>7, DeviceAssumption DEF Sync!Wait
  <1>8. CASE Sync!Sleep
    <2>1. left' \in 0..asked
      <3>1. Sync!Piece \in Nat /\ Sync!Piece <= left
        BY DeviceAssumption DEF Sync!Piece
      <3>2. left' = (left + 16 - Sync!Piece) % 16
        BY <1>8 DEF Sync!Sleep, Sync!Word
      <3>3. asked \in Nat /\ left \in Nat /\ left <= asked
        BY DeviceAssumption
      <3>4. \A n \in Nat : (n + 16) % 16 \in 0..n
        OBVIOUS
      <3>5. left - Sync!Piece \in Nat /\ left + 16 - Sync!Piece = (left - Sync!Piece) + 16
        BY <3>1, <3>3
      <3>6. left' \in 0..(left - Sync!Piece)
        BY <3>2, <3>4, <3>5
      <3> QED
        BY <3>1, <3>3, <3>6
    <2> QED
      BY <1>8, <2>1 DEF Sync!Sleep
  <1>9. CASE Sync!WaitEnds
    BY <1>9 DEF Sync!WaitEnds, Sync!Return
  <1> QED
    BY <1>1, <1>2, <1>3, <1>4, <1>5, <1>6, <1>7, <1>8, <1>9 DEF Sync!Next, Sync!SetZone


LEMMA InitInv == Init => IInv
<1> SUFFICES ASSUME Init PROVE IInv
  OBVIOUS
<1>1. /\ nvs = [open |-> TRUE, posix |-> Nothing, name |-> Nothing]
      /\ env = Nothing /\ ~applied /\ task = "idle" /\ zone = Nothing /\ asked = 0 /\ left = 0
  BY DEF Init, Sync!Init, Sync!InitTask
<1>2. /\ rebootTimer = "none" /\ resetTimer = Ctrl!NoTimer /\ boot = 0 /\ owed = {}
      /\ callers = [c \in Ctrl!Callers |-> "idle"]
  BY DEF Init, Ctrl!Init
<1>3. nvs \in [open : BOOLEAN, posix : Keys, name : Keys] /\ nvs.open
  BY <1>1 DEF Keys
<1>4. nvs.name = Nothing
  BY <1>1
<1> QED
  BY <1>1, <1>2, <1>3, <1>4 DEF IInv, TypeOK, EnvIsStored, Keys

LEMMA Invariance == Spec => []IInv
<1>1. IInv /\ [Next]_vars => IInv'
  <2> SUFFICES ASSUME IInv, [Next]_vars PROVE IInv'
    OBVIOUS
  <2>1. CASE UNCHANGED vars
    BY <2>1 DEF vars, ctrl, sync, IInv, TypeOK, EnvIsStored
  <2> QED
    BY <2>1, ControlInv, SyncInv DEF Next
<1> QED
  BY <1>1, InitInv, PTL DEF Spec

\* Type correctness: the timers and the calls under way are as the code knows
\* them, the remaining ticks of a wait never wrap.
THEOREM Typing == Spec => []TypeOK
<1>1. IInv => TypeOK
  BY DEF IInv
<1> QED
  BY <1>1, Invariance, PTL

\* Whatever step fails, whenever the power goes or the partition is erased, the
\* zone in force is the one the next boot sets.
THEOREM ZoneIsStored == Spec => []EnvIsStored
<1>1. IInv => EnvIsStored
  BY DEF IInv
<1> QED
  BY <1>1, Invariance, PTL

-----------------------------------------------------------------------------
(* The parts take their own steps, and no others                           *)

InstallsP == INSTANCE PortInstallProofs WITH Tasks <- Installers, NoPort <- Nothing
SessionP == INSTANCE MqttSessionProofs

\* A behaviour of the whole is a behaviour of each part.
THEOREM PartsAreTheirOwn ==
  SpecAll => /\ Init /\ [][Next]_vars
             /\ Commands!Init /\ [][Commands!Next]_commands
             /\ Response!Init /\ [][Response!Next]_response
             /\ Installs!Init /\ [][Installs!Next]_installs
             /\ Session!Init /\ [][Session!Next]_session
<1>1. InitAll => Init /\ Commands!Init /\ Response!Init /\ Installs!Init /\ Session!Init
  BY DEF InitAll
<1>2. [NextAll]_allVars => /\ [Next]_vars /\ [Commands!Next]_commands
                          /\ [Response!Next]_response /\ [Installs!Next]_installs
                          /\ [Session!Next]_session
  BY DEF NextAll, allVars
<1> QED BY <1>1, <1>2, PTL DEF SpecAll

-----------------------------------------------------------------------------
(* port.c and esp-mqtt-glue.c                                              *)

\* The steps of Installs are those its theorems are about.
LEMMA InstallsSteps ==
  /\ Installs!Init => InstallsP!Init
  /\ [Installs!Next]_installs => [InstallsP!Next]_InstallsP!vars
  /\ InstallsP!PortInstalledOnce => PortInstalledOnce
<1>1. Installs!Init => InstallsP!Init
  BY DEF Installs!Init, InstallsP!Init, Installs!Empty, InstallsP!Empty
<1>2. Installs!Next => InstallsP!Next
  BY Zenon DEF Installs!Next, InstallsP!Next, Installs!Install, InstallsP!Install,
     Installs!At, InstallsP!At, Installs!To, InstallsP!To, Installs!Claimed, InstallsP!Claimed,
     Installs!WriteLog, InstallsP!WriteLog, Installs!Prepared, InstallsP!Prepared,
     Installs!Rejected, InstallsP!Rejected, Installs!Release, InstallsP!Release,
     Installs!Copy, InstallsP!Copy, Installs!Publish, InstallsP!Publish,
     Installs!Return, InstallsP!Return, Installs!Empty, InstallsP!Empty,
     Installs!Complete, InstallsP!Complete
<1>3. InstallsP!PortInstalledOnce => PortInstalledOnce
  BY DEF PortInstalledOnce, Installs!PortInstalledOnce, InstallsP!PortInstalledOnce,
     Installs!Complete, InstallsP!Complete
<1> QED BY <1>1, <1>2, <1>3 DEF installs, InstallsP!vars

\* port.c: what is installed is one whole port, that of those told so, for any
\* tasks and ports.
THEOREM OnePortInstalled == SpecAll => []PortInstalledOnce
<1>1. InstallsP!Spec => []InstallsP!PortInstalledOnce
  BY InstallsP!OneWholePort
<1> QED BY <1>1, InstallsSteps, PartsAreTheirOwn, PTL DEF InstallsP!Spec

\* The steps of Session are those its theorems are about.
LEMMA SessionSteps ==
  /\ Session!Init => SessionP!Init
  /\ [Session!Next]_session => [SessionP!Next]_SessionP!vars
  /\ SessionP!FlagsFollowClient => FlagsFollowClient
  /\ SessionP!DeliveredWhole => DeliveredWhole
<1>1. Session!Init => SessionP!Init
  BY Zenon DEF
     Session!Init, SessionP!Init, Session!NoEvent, SessionP!NoEvent, Session!NoArrival,
     SessionP!NoArrival, Session!NoLong, SessionP!NoLong
<1>2. ASSUME \/ Session!InitGlue \/ Session!Deinit \/ Session!Connect \/ Session!UpdateStart
             \/ \E name \in {"disconnect", "update"} :
                   Session!Call(name) \/ Session!Stop(name) \/ Session!Mark(name)
      PROVE  SessionP!Next
  BY <1>2, Zenon DEF SessionP!Next,
     Session!InitGlue, SessionP!InitGlue, Session!Deinit, SessionP!Deinit, Session!CanStop,
     SessionP!CanStop, Session!Connect, SessionP!Connect, Session!Start, SessionP!Start,
     Session!Call, SessionP!Call, Session!Stop, SessionP!Stop, Session!AfterStop,
     SessionP!AfterStop, Session!Mark, SessionP!Mark, Session!MarkDisconnected,
     SessionP!MarkDisconnected, Session!UpdateStart, SessionP!UpdateStart, Session!flags,
     SessionP!flags, Session!NoEvent, SessionP!NoEvent, Session!NoArrival,
     SessionP!NoArrival
<1>3. ASSUME \/ Session!BeforeConnect \/ Session!Connected \/ Session!Disconnected
             \/ Session!OtherEvent \/ Session!Enter \/ Session!Act
      PROVE  SessionP!Next
  BY <1>3, Zenon DEF SessionP!Next,
     Session!BeforeConnect, SessionP!BeforeConnect, Session!Connected, SessionP!Connected,
     Session!Disconnected, SessionP!Disconnected, Session!OtherEvent, SessionP!OtherEvent,
     Session!Dispatch, SessionP!Dispatch, Session!Enter, SessionP!Enter, Session!Act,
     SessionP!Act, Session!MarkDisconnected, SessionP!MarkDisconnected, Session!flags,
     SessionP!flags, Session!NoEvent, SessionP!NoEvent, Session!NoArrival,
     SessionP!NoArrival
<1>4. ASSUME NEW m \in Messages, Session!Data(m) PROVE SessionP!Data(m)
  BY <1>4, Zenon DEF
     Session!Data, SessionP!Data, Session!LongData, SessionP!LongData, Session!Kept,
     SessionP!Kept, Session!Zeroed, SessionP!Zeroed, Session!Part, SessionP!Part,
     Session!NoLong, SessionP!NoLong, Session!NoArrival, SessionP!NoArrival,
     Session!NoEvent, SessionP!NoEvent, Session!flags, SessionP!flags
<1>5. Session!Next => SessionP!Next
  BY <1>2, <1>3, <1>4, Zenon DEF Session!Next, SessionP!Next
<1>6. SessionP!FlagsFollowClient => FlagsFollowClient
  BY Zenon DEF FlagsFollowClient,
     Session!FlagsFollowClient, SessionP!FlagsFollowClient, Session!PublishDropped,
     SessionP!PublishDropped, Session!NoEvent, SessionP!NoEvent
<1>7. SessionP!DeliveredWhole => DeliveredWhole
  BY Zenon DEF DeliveredWhole,
     Session!DeliveredWhole, SessionP!DeliveredWhole, Session!NoLong, SessionP!NoLong,
     Session!Part, SessionP!Part
<1>8. UNCHANGED session => UNCHANGED SessionP!vars
  BY DEF session, SessionP!vars, SessionP!flags
<1> QED BY <1>1, <1>5, <1>6, <1>7, <1>8

\* esp-mqtt-glue.c: between events and calls the flags say what the client does.
THEOREM FlagsFollow == SpecAll => []FlagsFollowClient
<1>1. SessionP!Spec => []SessionP!FlagsFollowClient
  BY SessionP!FlagsAlwaysFollow
<1> QED BY <1>1, SessionSteps, PartsAreTheirOwn, PTL DEF SessionP!Spec

\* esp-mqtt-glue.c: the callbacks are given whole messages, in any numbers of parts.
THEOREM WholeMessages == SpecAll => []DeliveredWhole
<1>1. SessionP!SomeParts
  BY ComponentsAssumption DEF SessionP!SomeParts
<1>2. SessionP!Spec => []SessionP!DeliveredWhole
  BY <1>1, SessionP!AlwaysDeliveredWhole
<1> QED BY <1>2, SessionSteps, PartsAreTheirOwn, PTL DEF SessionP!Spec

-----------------------------------------------------------------------------
(* The least-number principle, by which facts about loops are proved       *)

\* The function f that a loop computes from any of the states D, and that the
\* loop counts down.
Computes(f, D, Stop, val, next) ==
    f = [x \in D |-> IF x \in Stop THEN val[x] ELSE f[next[x]]]

CountsDown(D, Stop, next, rest, N) ==
    \A x \in D : /\ rest[x] \in 0..N
                 /\ x \notin Stop => next[x] \in D /\ rest[next[x]] < rest[x]

\* A loop that counts down ends: the function that it computes exists.
LEMMA LoopEnds ==
  ASSUME NEW D, NEW Stop, NEW val, NEW next, NEW rest, NEW N \in Nat,
         CountsDown(D, Stop, next, rest, N)
  PROVE  \E f : Computes(f, D, Stop, val, next)
<1> USE DEF CountsDown, Computes
<1> DEFINE Part(n) == {x \in D : rest[x] < n}
           Loop(f, S) == f = [x \in S |-> IF x \in Stop THEN val[x] ELSE f[next[x]]]
           Endless == {n \in Nat : ~\E f : Loop(f, Part(n))}
<1>1. ASSUME NEW n \in Nat, NEW f, Loop(f, Part(n))
      PROVE  \E g : Loop(g, Part(n + 1))
  <2> DEFINE g == [x \in Part(n + 1) |-> IF x \in Stop THEN val[x] ELSE f[next[x]]]
  <2>1. \A x \in Part(n + 1) : x \notin Stop => next[x] \in Part(n) /\ next[x] \in Part(n + 1)
    <3> SUFFICES ASSUME NEW x \in Part(n + 1), x \notin Stop
                 PROVE  next[x] \in Part(n) /\ next[x] \in Part(n + 1)
      OBVIOUS
    <3>1. x \in D /\ next[x] \in D /\ rest[next[x]] < rest[x] /\ rest[x] < n + 1
      OBVIOUS
    <3>2. rest[x] \in Nat /\ rest[next[x]] \in Nat
      BY <3>1
    <3>3. rest[next[x]] < n /\ rest[next[x]] < n + 1
      BY <3>1, <3>2
    <3> QED BY <3>1, <3>3
  <2>2. \A x \in Part(n) : f[x] = IF x \in Stop THEN val[x] ELSE f[next[x]]
    <3> HIDE DEF Part
    <3> QED BY <1>1
  <2>3. \A x \in Part(n + 1) : g[x] = IF x \in Stop THEN val[x] ELSE f[next[x]]
    <3> HIDE DEF Part
    <3> QED OBVIOUS
  <2>4. g = [x \in Part(n + 1) |-> g[x]]
    OBVIOUS
  <2> HIDE DEF g, Part
  <2>5. \A x \in Part(n + 1) : x \notin Stop => g[next[x]] = f[next[x]]
    <3> SUFFICES ASSUME NEW x \in Part(n + 1), x \notin Stop PROVE g[next[x]] = f[next[x]]
      OBVIOUS
    <3> DEFINE y == next[x]
    <3>1. y \in Part(n) /\ y \in Part(n + 1)
      BY <2>1
    <3> HIDE DEF y
    <3>2. /\ g[y] = IF y \in Stop THEN val[y] ELSE f[next[y]]
          /\ f[y] = IF y \in Stop THEN val[y] ELSE f[next[y]]
      BY <2>2, <2>3, <3>1, Zenon
    <3>3. g[y] = f[y]
      BY <3>2
    <3> QED BY <3>3 DEF y
  <2>6. \A x \in Part(n + 1) : g[x] = IF x \in Stop THEN val[x] ELSE g[next[x]]
    BY <2>3, <2>5, Zenon
  <2>7. g = [x \in Part(n + 1) |-> IF x \in Stop THEN val[x] ELSE g[next[x]]]
    BY <2>4, <2>6
  <2> QED BY <2>7
<1>2. \E f : Loop(f, Part(0))
  <2>1. Part(0) = {}
    OBVIOUS
  <2>2. Loop([x \in {} |-> x], {})
    OBVIOUS
  <2> QED BY <2>1, <2>2
<1>3. Part(N + 1) = D
  OBVIOUS
<1> HIDE DEF Part, Loop
<1>4. Endless = {}
  <2> SUFFICES ASSUME Endless # {} PROVE FALSE
    OBVIOUS
  <2>1. PICK n \in Endless : \A k \in Endless : n <= k
    BY LeastNat
  <2>2. n # 0 /\ n \in Nat
    BY <1>2
  <2>3. n - 1 \in Nat /\ n - 1 \notin Endless /\ (n - 1) + 1 = n
    BY <2>1, <2>2
  <2>4. PICK f : Loop(f, Part(n - 1))
    BY <2>3
  <2>5. \E g : Loop(g, Part((n - 1) + 1))
    BY <1>1, <2>3, <2>4
  <2> QED BY <2>3, <2>5
<1>5. \E f : Loop(f, D)
  <2>1. N + 1 \in Nat
    OBVIOUS
  <2> QED BY <1>3, <1>4, <2>1
<1> QED BY <1>5 DEF Loop

\* What holds of n + 1, and of each number whose successor it holds of, holds
\* down to 1.
LEMMA Downwards ==
  ASSUME NEW n \in Nat, NEW S, n + 1 \in S, \A i \in 1..n : i + 1 \in S => i \in S
  PROVE  \A i \in 1..(n + 1) : i \in S
<1> DEFINE Bad == {k \in Nat : k <= n /\ (n + 1) - k \notin S}
<1>1. ASSUME NEW k \in Bad, \A j \in Bad : k <= j PROVE FALSE
  <2>1. k \in Nat /\ k <= n /\ (n + 1) - k \notin S
    OBVIOUS
  <2>2. k # 0
    BY <2>1
  <2>3. k - 1 \in Nat /\ k - 1 <= n /\ ~(k <= k - 1)
    BY <2>1, <2>2
  <2>4. k - 1 \notin Bad
    <3> HIDE DEF Bad
    <3> QED BY <1>1, <2>3
  <2>5. (n + 1) - (k - 1) \in S /\ (n + 1) - (k - 1) = ((n + 1) - k) + 1
    BY <2>1, <2>3, <2>4
  <2>6. (n + 1) - k \in 1..n
    BY <2>1, <2>2
  <2> QED BY <2>1, <2>5, <2>6
<1>2. Bad = {}
  <2>1. Bad \in SUBSET Nat
    OBVIOUS
  <2> HIDE DEF Bad
  <2> QED BY <1>1, <2>1, LeastNat
<1>3. ASSUME NEW i \in 1..(n + 1) PROVE i \in S
  <2> DEFINE k == (n + 1) - i
  <2>1. k \in Nat /\ k <= n /\ (n + 1) - k = i
    OBVIOUS
  <2> HIDE DEF k
  <2>2. k \notin Bad
    BY <1>2, Zenon
  <2>3. (n + 1) - k \in S
    BY <2>1, <2>2, Zenon
  <2> QED BY <2>1, <2>3, Zenon
<1> QED BY <1>3

\* The function f that a recursion computes on D, a step at each place from
\* its value at the next one.
Recurs(f, D, Stop, val, step, next) ==
    f = [x \in D |-> IF x \in Stop THEN val[x] ELSE step[x][f[next[x]]]]

\* A recursion that counts down defines a function, whose values are in V.
LEMMA RecursionEnds ==
  ASSUME NEW D, NEW V, NEW Stop, NEW val, NEW step, NEW next, NEW rest, NEW N \in Nat,
         CountsDown(D, Stop, next, rest, N),
         \A x \in D : IF x \in Stop THEN val[x] \in V ELSE step[x] \in [V -> V]
  PROVE  \E f \in [D -> V] : Recurs(f, D, Stop, val, step, next)
<1> USE DEF CountsDown
<1> DEFINE Part(n) == {x \in D : rest[x] < n}
           Value(f, x) == IF x \in Stop THEN val[x] ELSE step[x][f[next[x]]]
           Loop(f, S) == f \in [S -> V] /\ \A x \in S : f[x] = Value(f, x)
           Endless == {n \in Nat : ~\E f : Loop(f, Part(n))}
<1>1. ASSUME NEW n \in Nat
      PROVE  /\ Part(n) \subseteq Part(n + 1) /\ Part(n) \subseteq D /\ Part(n + 1) \subseteq D
             /\ \A x \in Part(n + 1) : x \notin Stop => next[x] \in Part(n)
  <2>1. ASSUME NEW x \in Part(n) PROVE x \in Part(n + 1)
    <3>1. x \in D /\ rest[x] < n /\ rest[x] \in Nat
      OBVIOUS
    <3> QED BY <3>1
  <2>2. ASSUME NEW x \in Part(n + 1), x \notin Stop PROVE next[x] \in Part(n)
    <3>1. x \in D /\ next[x] \in D /\ rest[next[x]] < rest[x] /\ rest[x] < n + 1
      BY <2>2
    <3>2. rest[x] \in Nat /\ rest[next[x]] \in Nat
      BY <3>1
    <3>3. rest[next[x]] < n
      BY <3>1, <3>2
    <3> QED BY <3>1, <3>3
  <2> QED BY <2>1, <2>2
<1>2. ASSUME NEW n \in Nat, NEW f, Loop(f, Part(n))
      PROVE  \E h : Loop(h, Part(n + 1))
  <2> DEFINE h == [x \in Part(n + 1) |-> Value(f, x)]
  <2> HIDE DEF Part
  <2>1. ASSUME NEW x \in Part(n + 1) PROVE Value(f, x) \in V
    <3>1. x \in D
      BY <1>1
    <3>2. CASE x \in Stop
      BY <3>1, <3>2
    <3>3. CASE x \notin Stop
      <4>1. f[next[x]] \in V /\ step[x] \in [V -> V]
        BY <1>1, <1>2, <3>1, <3>3
      <4> QED BY <3>3, <4>1
    <3> QED BY <3>2, <3>3
  <2> HIDE DEF Value
  <2>2. h \in [Part(n + 1) -> V] /\ \A x \in Part(n + 1) : h[x] = Value(f, x)
    BY <2>1
  <2>3. \A x \in Part(n) : h[x] = f[x]
    BY <1>1, <1>2, <2>2
  <2> HIDE DEF h
  <2>4. ASSUME NEW x \in Part(n + 1) PROVE Value(f, x) = Value(h, x)
    <3>1. x \notin Stop => f[next[x]] = h[next[x]]
      BY <1>1, <2>3
    <3> QED BY <3>1 DEF Value
  <2> QED BY <2>2, <2>4
<1>3. \E f : Loop(f, Part(0))
  <2>1. Part(0) = {}
    OBVIOUS
  <2> HIDE DEF Part, Value
  <2>2. Loop([x \in {} |-> x], {})
    OBVIOUS
  <2> HIDE DEF Loop
  <2> QED BY <2>1, <2>2
<1>4. Part(N + 1) = D
  OBVIOUS
<1>5. Endless = {}
  <2> HIDE DEF Part, Loop
  <2> SUFFICES ASSUME Endless # {} PROVE FALSE
    OBVIOUS
  <2>1. PICK n \in Endless : \A k \in Endless : n <= k
    BY LeastNat
  <2>2. n # 0 /\ n \in Nat
    BY <1>3
  <2>3. n - 1 \in Nat /\ n - 1 \notin Endless /\ (n - 1) + 1 = n
    BY <2>1, <2>2
  <2>4. PICK f : Loop(f, Part(n - 1))
    BY <2>3
  <2>5. \E h : Loop(h, Part((n - 1) + 1))
    BY <1>2, <2>3, <2>4
  <2> QED BY <2>3, <2>5
<1>6. \E f \in [D -> V] : Recurs(f, D, Stop, val, step, next)
  <2>1. N + 1 \in Nat
    OBVIOUS
  <2>2. PICK f : Loop(f, D)
    <3> HIDE DEF Part, Loop
    <3> QED BY <1>4, <1>5, <2>1
  <2> HIDE DEF Value
  <2>3. f = [x \in D |-> Value(f, x)] /\ f \in [D -> V]
    BY <2>2
  <2>4. Recurs(f, D, Stop, val, step, next)
    BY <2>3 DEF Recurs, Value
  <2> QED BY <2>3, <2>4
<1> QED BY <1>6

\* The loop that doubles a size ends, with room for what is needed.
LEMMA Doubling ==
  ASSUME NEW need \in Nat, cap \in Nat
  PROVE  Response!Doubled(need) \in Nat /\ Response!Doubled(need) > need
<1> DEFINE first == IF cap = 0 THEN MinCap ELSE cap
           D == Nat \ {0}
           Stop == {c \in D : c > need}
           val == [c \in D |-> c]
           next == [c \in D |-> 2 * c]
           rest == [c \in D |-> IF c > need THEN 0 ELSE need + 1 - c]
           Grows(f) == f = [c \in D |-> IF c > need THEN c ELSE f[2 * c]]
           grow == CHOOSE f : Grows(f)
<1>1. CountsDown(D, Stop, next, rest, need + 1)
  <2>1. \A c \in D : rest[c] \in 0..(need + 1)
    OBVIOUS
  <2>2. \A c \in D : c \notin Stop => next[c] \in D /\ rest[next[c]] < rest[c]
    OBVIOUS
  <2> QED BY <2>1, <2>2, Zenon DEF CountsDown
<1>2. \E f : Grows(f)
  <2>1. need + 1 \in Nat
    OBVIOUS
  <2>2. PICK f : Computes(f, D, Stop, val, next)
    BY <1>1, <2>1, LoopEnds, Zenon
  <2>3. f = [c \in D |-> IF c \in Stop THEN val[c] ELSE f[next[c]]]
    BY <2>2 DEF Computes
  <2>4. \A c \in D : (IF c \in Stop THEN val[c] ELSE f[next[c]]) = IF c > need THEN c ELSE f[2 * c]
    OBVIOUS
  <2>5. Grows(f)
    <3> HIDE DEF D, Stop, val, next
    <3> QED BY <2>3, <2>4
  <2> QED BY <2>5
<1>3. Grows(grow)
  BY <1>2, Zenon
<1>4. \A c \in D : grow[c] = IF c > need THEN c ELSE grow[2 * c]
  BY <1>3
<1> HIDE DEF grow
<1> DEFINE Short == {j \in Nat : \E c \in D : c + j > need /\ ~(grow[c] \in Nat /\ grow[c] > need)}
<1>5. Short = {}
  <2> SUFFICES ASSUME Short # {} PROVE FALSE
    OBVIOUS
  <2>1. PICK j \in Short : \A k \in Short : j <= k
    BY LeastNat
  <2>2. PICK c \in D : c + j > need /\ ~(grow[c] \in Nat /\ grow[c] > need)
    BY <2>1
  <2>3. c <= need /\ grow[c] = grow[2 * c]
    BY <1>4, <2>2
  <2>4. j \in Nat /\ j - 1 \in Nat /\ 2 * c \in D /\ 2 * c + (j - 1) > need
    BY <2>2, <2>3
  <2>5. j - 1 \in Short
    BY <2>2, <2>3, <2>4
  <2> HIDE DEF Short
  <2> QED BY <2>1, <2>4, <2>5
<1>6. first \in D
  BY ComponentsAssumption
<1>7. grow[first] \in Nat /\ grow[first] > need
  <2> DEFINE good(c) == grow[c] \in Nat /\ grow[c] > need
  <2>1. \A c \in D : good(c)
    <3> SUFFICES ASSUME NEW c \in D PROVE good(c)
      OBVIOUS
    <3>1. need \in Nat /\ c + need > need
      OBVIOUS
    <3>2. need \notin Short
      BY <1>5
    <3> HIDE DEF D
    <3> QED BY <3>1, <3>2
  <2> HIDE DEF D, first
  <2> QED BY <1>6, <2>1
<1> QED BY <1>7 DEF Response!Doubled, grow

-----------------------------------------------------------------------------
(* accum.c                                                                 *)

\* What the buffer of a response keeps to: what it holds and its terminator
\* have room, within the limit, and unless it refused a piece it holds all
\* the bytes handed over.
BufferInv ==
    /\ cap \in Nat /\ cap <= Limit + 1 /\ sent \in Nat /\ text \in Seq(Nat)
    /\ cap = 0 => text = <<>>
    /\ cap > 0 => Len(text) < cap
    /\ status = "ok" => text = [i \in 1..sent |-> i]
    /\ result = "ok" => status = "ok" /\ phase = "returned"

\* The bytes handed over are as many as they are.
LEMMA Bytes ==
  ASSUME NEW n \in Nat
  PROVE  [i \in 1..n |-> i] \in Seq(Nat) /\ Len([i \in 1..n |-> i]) = n
  OBVIOUS

\* The next piece of the bytes comes after those handed over.
LEMMA NextPiece ==
  ASSUME NEW n \in Nat, NEW len \in Nat
  PROVE  [i \in 1..n |-> i] \o [i \in 1..len |-> n + i] = [i \in 1..(n + len) |-> i]
<1> DEFINE a == [i \in 1..n |-> i]
           b == [i \in 1..len |-> n + i]
<1>1. a \in Seq(Nat) /\ b \in Seq(Nat) /\ Len(a) = n /\ Len(b) = len
  OBVIOUS
<1>2. \A i \in 1..n : a[i] = i
  OBVIOUS
<1>3. \A i \in 1..len : b[i] = n + i
  OBVIOUS
<1> HIDE DEF a, b
<1>4. /\ a \o b \in Seq(Nat) /\ Len(a \o b) = n + len
      /\ \A i \in 1..(n + len) : (a \o b)[i] = IF i <= n THEN a[i] ELSE b[i - n]
  BY <1>1, ConcatProperties, Zenon
<1>5. ASSUME NEW i \in 1..(n + len) PROVE (a \o b)[i] = i
  <2> DEFINE at == (a \o b)[i]
  <2>1. at = IF i <= n THEN a[i] ELSE b[i - n]
    BY <1>4, Zenon
  <2> HIDE DEF at
  <2>2. i <= n => a[i] = i
    BY <1>2
  <2>3. ~(i <= n) => b[i - n] = n + (i - n)
    <3>1. ~(i <= n) => i - n \in 1..len
      OBVIOUS
    <3> QED BY <1>3, <3>1, Zenon
  <2>4. at = i
    BY <2>1, <2>2, <2>3
  <2> QED BY <2>4 DEF at
<1>6. a \o b = [i \in 1..(n + len) |-> i]
  <2> DEFINE c == a \o b
  <2>1. c \in Seq(Nat) /\ Len(c) = n + len /\ \A i \in 1..(n + len) : c[i] = i
    BY <1>4, <1>5
  <2> HIDE DEF c
  <2>2. c = [i \in 1..Len(c) |-> c[i]]
    BY <2>1
  <2>3. c = [i \in 1..(n + len) |-> c[i]]
    BY <2>1, <2>2
  <2>4. c = [i \in 1..(n + len) |-> i]
    BY <2>1, <2>3, Zenon
  <2> QED BY <2>4 DEF c
<1> QED BY <1>6 DEF a, b

\* accum_reserve: room for what is needed, or an error and the buffer as it was.
LEMMA Reserved ==
  ASSUME NEW need \in Nat, NEW exact \in BOOLEAN, NEW memory \in BOOLEAN,
         cap \in Nat, cap <= Limit + 1, Response!Reserve(need, exact, memory)
  PROVE  /\ cap' \in Nat /\ cap' <= Limit + 1 /\ cap <= cap'
         /\ Response!Fits(need, memory) => need < cap' /\ status' = status
         /\ ~Response!Fits(need, memory) => cap' = cap /\ status' # "ok"
<1>1. Response!Doubled(need) \in Nat /\ Response!Doubled(need) > need
  BY Doubling
<1>2. ASSUME need <= Limit
      PROVE  /\ Response!Grown(need, exact) \in Nat /\ need < Response!Grown(need, exact)
             /\ Response!Grown(need, exact) <= Limit + 1
  BY <1>1, <1>2, ComponentsAssumption DEF Response!Grown, Response!AtMost
<1>3. CASE Response!Fits(need, memory)
  <2>1. need <= Limit
    BY <1>3, Zenon DEF Response!Fits
  <2>4. ~(need > Limit)
    BY <2>1, ComponentsAssumption
  <2>5. status' = status
    BY <1>3, <2>4, Zenon DEF Response!Reserve
  <2>2. CASE need < cap
    <3>1. cap' = cap
      BY <2>2 DEF Response!Reserve
    <3> QED BY <1>3, <2>2, <2>5, <3>1
  <2>3. CASE need >= cap
    <3>1. cap' = Response!Grown(need, exact)
      BY <1>3, <2>3 DEF Response!Reserve
    <3> QED BY <1>2, <1>3, <2>1, <2>3, <2>5, <3>1
  <2> QED BY <2>2, <2>3
<1>4. CASE ~Response!Fits(need, memory)
  <2>1. cap' = cap
    BY <1>4 DEF Response!Reserve
  <2>2. CASE need > Limit
    BY <1>4, <2>1, <2>2, ComponentsAssumption DEF Response!Reserve
  <2>3. CASE need <= Limit
    BY <1>4, <2>1, <2>3, ComponentsAssumption DEF Response!Reserve
  <2> QED BY <2>2, <2>3, ComponentsAssumption
<1> QED BY <1>3, <1>4

\* Each step of a call of send_request keeps BufferInv.
LEMMA BufferStep ==
  ASSUME BufferInv, [Response!Next]_response
  PROVE  BufferInv'
<1> USE DEF BufferInv
<1>1. CASE Response!Perform
  BY <1>1 DEF Response!Perform
<1>2. ASSUME NEW length \in 0..(Limit + 1), NEW memory \in BOOLEAN, Response!Hint(length, memory)
      PROVE  BufferInv'
  <2>1. length \in Nat /\ phase = "headers" /\ UNCHANGED <<text, sent, result>>
    BY <1>2, ComponentsAssumption DEF Response!Hint
  <2>2. result # "ok"
    BY <2>1
  <2>3. CASE length = 0
    BY <1>2, <2>1, <2>2, <2>3 DEF Response!Hint
  <2>4. CASE length # 0
    <3>1. Response!Reserve(length, TRUE, memory)
      BY <1>2, <2>4 DEF Response!Hint
    <3>2. /\ cap' \in Nat /\ cap' <= Limit + 1 /\ cap <= cap'
          /\ status' = "ok" => status = "ok"
      BY <2>1, <3>1, Reserved
    <3>3. Len(text) \in Nat /\ Len(<<>>) = 0
      OBVIOUS
    <3>4. /\ cap' = 0 => text = <<>>
          /\ cap' > 0 => Len(text) < cap'
      BY <3>2, <3>3
    <3> QED BY <2>1, <2>2, <3>2, <3>4
  <2> QED BY <2>3, <2>4
<1>3. ASSUME NEW len \in Pieces, NEW memory \in BOOLEAN, Response!Sink(len, memory)
      PROVE  BufferInv'
  <2> DEFINE need == Len(text) + len
             piece == [i \in 1..len |-> sent + i]
  <2>1. len \in Nat /\ Len(text) \in Nat /\ need \in Nat
    BY ComponentsAssumption
  <2>2. piece \in Seq(Nat) /\ Len(piece) = len
    BY <2>1
  <2>3. phase = "body" /\ UNCHANGED <<phase, result>> /\ result # "ok"
    BY <1>3 DEF Response!Sink
  <2>4. /\ sent' = sent + len
        /\ text' = IF Response!Fits(need, memory) THEN text \o piece ELSE text
        /\ Response!Reserve(need, FALSE, memory)
    BY <1>3 DEF Response!Sink
  <2>5. /\ cap' \in Nat /\ cap' <= Limit + 1
        /\ Response!Fits(need, memory) => need < cap' /\ status' = status
        /\ ~Response!Fits(need, memory) => cap' = cap /\ status' # "ok"
    BY <2>1, <2>4, Reserved
  <2>6. CASE Response!Fits(need, memory)
    <3>1. text' = text \o piece
      BY <2>4, <2>6
    <3> HIDE DEF piece
    <3>2. text' \in Seq(Nat) /\ Len(text') = need
      <4>1. text \in Seq(Nat)
        OBVIOUS
      <4> HIDE DEF BufferInv
      <4> QED BY <2>2, <3>1, <4>1, ConcatProperties, Zenon
    <3>3. status = "ok" => text' = [i \in 1..sent' |-> i]
      <4> SUFFICES ASSUME status = "ok" PROVE text' = [i \in 1..sent' |-> i]
        OBVIOUS
      <4>1. text' = [i \in 1..sent |-> i] \o piece /\ sent \in Nat
        BY <3>1
      <4>2. [i \in 1..sent |-> i] \o piece = [i \in 1..(sent + len) |-> i]
        BY <2>1, <4>1, NextPiece DEF piece
      <4>3. sent' = sent + len
        BY <2>4
      <4> HIDE DEF BufferInv
      <4> QED BY <4>1, <4>2, <4>3, Zenon
    <3>4. need < cap' /\ status' = status
      BY <2>5, <2>6
    <3> HIDE DEF need
    <3> QED BY <2>1, <2>3, <2>4, <2>5, <3>2, <3>3, <3>4
  <2>7. CASE ~Response!Fits(need, memory)
    <3>1. text' = text /\ cap' = cap /\ status' # "ok" /\ sent' \in Nat
      BY <2>1, <2>4, <2>5, <2>7
    <3> QED BY <2>3, <3>1
  <2> QED BY <2>6, <2>7
<1>4. CASE Response!Succeeds
  BY <1>4 DEF Response!Succeeds
<1>5. ASSUME \/ Response!Fails
             \/ Response!Free
      PROVE  BufferInv'
  <2>1. <<>> \in Seq(Nat) /\ Len(<<>>) = 0 /\ <<>> = [i \in 1..0 |-> i]
    OBVIOUS
  <2>2. CASE Response!Free
    <3>1. /\ text' = <<>> /\ cap' = 0 /\ sent' = 0 /\ result' = "none"
      BY <2>2 DEF Response!Free
    <3> QED BY <2>1, <3>1, ComponentsAssumption
  <2>3. CASE Response!Fails /\ phase' = "headers"
    <3>1. text' = <<>> /\ sent' = 0 /\ cap' = cap /\ result' = result
      BY <2>3 DEF Response!Fails
    <3>2. phase \in {"headers", "body"}
      BY <2>3 DEF Response!Fails
    <3>3. result' # "ok"
      BY <3>1, <3>2
    <3> QED BY <2>1, <3>1, <3>3
  <2>4. CASE Response!Fails /\ phase' # "headers"
    <3>1. result' = "error" /\ UNCHANGED <<text, cap, status, sent>>
      BY <2>4 DEF Response!Fails
    <3> QED BY <3>1
  <2> QED BY <1>5, <2>2, <2>3, <2>4
<1>6. CASE UNCHANGED response
  BY <1>6 DEF response
<1> QED BY <1>1, <1>2, <1>3, <1>4, <1>5, <1>6 DEF Response!Next

\* accum.c: a response is whole, or an error, whatever the sizes, the pieces
\* and the allocations that fail.
THEOREM WholeResponse == SpecAll => []BodyHeld
<1>1. Response!Init => BufferInv
  <2>1. <<>> \in Seq(Nat) /\ Len(<<>>) = 0 /\ <<>> = [i \in 1..0 |-> i]
    OBVIOUS
  <2> QED BY <2>1, ComponentsAssumption DEF Response!Init, BufferInv
<1>2. BufferInv => BodyHeld
  <2> SUFFICES ASSUME BufferInv PROVE BodyHeld
    OBVIOUS
  <2>1. ASSUME result = "ok" PROVE sent <= Limit
    <3>1. text = [i \in 1..sent |-> i] /\ sent \in Nat
      BY <2>1 DEF BufferInv
    <3>2. Len(text) = sent
      BY <3>1, Bytes
    <3> QED BY <3>1, <3>2, ComponentsAssumption DEF BufferInv
  <2> QED BY <2>1 DEF BufferInv, BodyHeld, Response!BodyHeld
<1> QED BY <1>1, <1>2, BufferStep, PartsAreTheirOwn, PTL
-----------------------------------------------------------------------------
(* The calendar                                                            *)

\* The leap years up to y, and what a year adds to them.
LeapsTo(y) == y \div 4 - y \div 100 + y \div 400
Leap(y) == y % 4 = 0 /\ (y % 100 # 0 \/ y % 400 = 0)

\* C's remainder is 0 where the modulus is.
LEMMA Leaps ==
  ASSUME NEW y \in Int
  PROVE  /\ Clocks!IsLeap(y) <=> Leap(y)
         /\ LeapsTo(y) \in Int
         /\ LeapsTo(y) = LeapsTo(y - 1) + (IF Leap(y) THEN 1 ELSE 0)
<1>1. ASSUME NEW n \in {4, 100, 400} PROVE Clocks!Rem(y, n) = 0 <=> y % n = 0
  <2>1. CASE y >= 0
    BY <2>1 DEF Clocks!Rem, Clocks!Quot
  <2>2. CASE ~(y >= 0)
    BY <2>2 DEF Clocks!Rem, Clocks!Quot
  <2> QED BY <2>1, <2>2
<1>2. y % 400 = 0 => y % 4 = 0 /\ y % 100 = 0
  OBVIOUS
<1>3. Clocks!IsLeap(y) <=> Leap(y)
  BY <1>1, <1>2 DEF Clocks!IsLeap, Leap
<1>4. ASSUME NEW n \in {4, 100, 400}
      PROVE  y \div n = (y - 1) \div n + (IF y % n = 0 THEN 1 ELSE 0)
  OBVIOUS
<1>5. LeapsTo(y) \in Int
  BY DEF LeapsTo
<1>6. y % 100 = 0 => y % 4 = 0
  OBVIOUS
<1>7. LeapsTo(y) = LeapsTo(y - 1) + (IF Leap(y) THEN 1 ELSE 0)
  BY <1>2, <1>4, <1>6 DEF LeapsTo, Leap
<1> QED BY <1>3, <1>5, <1>7

\* The days before each month of a civil year, which begins in March, and the
\* number of a day.
MarchDays == <<306, 337, 0, 31, 61, 92, 122, 153, 184, 214, 245, 275>>
DayNumber(cy, march, d) == 365 * cy + LeapsTo(cy) + march + d - 719469

\* days_from_civil counts the leap years up to the civil year.
LEMMA CivilDays ==
  ASSUME NEW y \in Int, NEW m \in 1..12, NEW d \in Int
  PROVE  Clocks!DaysFromCivil(y, m, d) = DayNumber(Clocks!CivilYear(y, m), MarchDays[m], d)
<1> DEFINE cy == Clocks!CivilYear(y, m)
           era == Clocks!Quot(IF cy >= 0 THEN cy ELSE cy - 399, 400)
           yoe == cy - era * 400
           before == (153 * (m + (IF m > 2 THEN -3 ELSE 9)) + 2) \div 5
<1>1. cy \in Int
  BY DEF Clocks!CivilYear
<1>2. Clocks!DaysFromCivil(y, m, d) =
         era * 146097 + yoe * 365 + yoe \div 4 - yoe \div 100 + (before + d - 1) - 719468
  BY SMT DEF Clocks!DaysFromCivil
<1>3. before \in Int /\ before = MarchDays[m]
  <2>1. m \in {1, 2, 3, 4, 5, 6, 7, 8, 9, 10, 11, 12}
    OBVIOUS
  <2> QED BY <2>1, SMT DEF MarchDays
<1> HIDE DEF cy, before
<1>4. era \in Int /\ yoe \in 0..399 /\ cy = 400 * era + yoe
  <2>1. CASE cy >= 0
    <3>1. era = cy \div 400
      BY <2>1 DEF Clocks!Quot
    <3> QED BY <1>1, <2>1, <3>1, SMT
  <2>2. CASE ~(cy >= 0)
    <3>1. era = -((399 - cy) \div 400)
      <4>1. ~(cy - 399 >= 0) /\ -(cy - 399) = 399 - cy
        BY <1>1, <2>2
      <4> QED BY <2>2, <4>1, Zenon DEF Clocks!Quot
    <3> HIDE DEF era
    <3>2. era \in Int /\ cy - era * 400 \in 0..399
      BY <1>1, <2>2, <3>1, SMT
    <3> QED BY <1>1, <3>2, SMT
  <2> QED BY <2>1, <2>2
<1> HIDE DEF era, yoe
<1>5. /\ cy \div 4 = 100 * era + yoe \div 4
      /\ cy \div 100 = 4 * era + yoe \div 100
      /\ cy \div 400 = era
  BY <1>4, SMT
<1>6. LeapsTo(cy) = 97 * era + yoe \div 4 - yoe \div 100
  BY <1>4, <1>5, SMT DEF LeapsTo
<1>7. Clocks!DaysFromCivil(y, m, d) = DayNumber(cy, MarchDays[m], d)
  BY <1>2, <1>3, <1>4, <1>6, SMT DEF DayNumber
<1> QED BY <1>7 DEF cy

\* The operator of the standard module, whatever module it is reached through.
LEMMA SameCardinality == \A S : Clocks!Cardinality(S) = Cardinality(S)
BY DEF Clocks!Cardinality, Cardinality

\* timegm's loops over the years count the leap years between.
LEMMA LeapCount ==
  ASSUME NEW a \in Int, NEW b \in Int, a <= b + 1
  PROVE  Cardinality({x \in a..b : Clocks!IsLeap(x)}) = LeapsTo(b) - LeapsTo(a - 1)
<1> DEFINE S(k) == {x \in a..k : Clocks!IsLeap(x)}
           Good(k) == IsFiniteSet(S(k)) /\ Cardinality(S(k)) = LeapsTo(k) - LeapsTo(a - 1)
           Bad == {n \in Nat : ~Good(a + n - 1)}
<1>1. ASSUME NEW n \in Nat, \A j \in Bad : n <= j PROVE Good(a + n - 1)
  <2>1. CASE n = 0
    <3>1. S(a - 1) = {} /\ a + n - 1 = a - 1
      BY <2>1
    <3>2. LeapsTo(a - 1) - LeapsTo(a - 1) = 0
      BY Leaps
    <3> QED BY <3>1, <3>2, FS_EmptySet
  <2>2. CASE n # 0
    <3> DEFINE top == a + n - 1
    <3>1. n - 1 \in Nat /\ a + (n - 1) - 1 = top - 1 /\ top \in Int /\ top >= a
      BY <2>2
    <3>2. n - 1 \notin Bad
      BY <1>1, <3>1
    <3>3. Good(top - 1)
      BY <3>1, <3>2
    <3> HIDE DEF top, Bad
    <3>4. a..top = (a..(top - 1)) \cup {top} /\ top \notin a..(top - 1)
      BY <3>1
    <3>5. /\ S(top) = IF Clocks!IsLeap(top) THEN S(top - 1) \cup {top} ELSE S(top - 1)
          /\ top \notin S(top - 1)
      BY <3>4
    <3> HIDE DEF S
    <3>6. /\ LeapsTo(top - 1) \in Int /\ LeapsTo(a - 1) \in Int
          /\ LeapsTo(top) = LeapsTo(top - 1) + (IF Leap(top) THEN 1 ELSE 0)
          /\ Clocks!IsLeap(top) <=> Leap(top)
      <4>1. top - 1 \in Int /\ a - 1 \in Int
        BY <3>1
      <4> QED BY <3>1, <4>1, Leaps
    <3>7. CASE Leap(top)
      <4>1. S(top) = S(top - 1) \cup {top}
        BY <3>5, <3>6, <3>7
      <4>2. IsFiniteSet(S(top)) /\ Cardinality(S(top)) = Cardinality(S(top - 1)) + 1
        BY <3>3, <3>5, <4>1, FS_AddElement
      <4> QED BY <3>3, <3>6, <3>7, <4>2 DEF top
    <3>8. CASE ~Leap(top)
      <4>1. S(top) = S(top - 1) /\ LeapsTo(top) = LeapsTo(top - 1)
        BY <3>5, <3>6, <3>8
      <4> QED BY <3>3, <4>1 DEF top
    <3> QED BY <3>7, <3>8
  <2> QED BY <2>1, <2>2
<1> HIDE DEF Good, Bad
<1>2. Bad \in SUBSET Nat /\ \A n \in Nat : n \in Bad <=> ~Good(a + n - 1)
  BY DEF Bad
<1>3. Bad = {}
  <2> SUFFICES ASSUME Bad # {} PROVE FALSE
    OBVIOUS
  <2>1. PICK n \in Bad : \A j \in Bad : n <= j
    BY <1>2, LeastNat, Zenon
  <2>2. n \in Nat
    BY <1>2
  <2>3. Good(a + n - 1)
    BY <1>1, <2>1, <2>2, Zenon
  <2> QED BY <1>2, <2>2, <2>3, Zenon
<1>4. PICK n \in Nat : a + n - 1 = b
  <2>1. b + 1 - a \in Nat /\ a + (b + 1 - a) - 1 = b
    OBVIOUS
  <2> QED BY <2>1
<1>5. Good(b)
  BY <1>2, <1>3, <1>4, Zenon
<1> QED BY <1>5 DEF Good

\* timegm counts the days that days_from_civil computes.
LEMMA TimegmCivil ==
  ASSUME NEW y \in Int, NEW m \in 1..12, NEW d \in Int
  PROVE  Clocks!TimegmDays(y, m - 1, d) = Clocks!DaysFromCivil(y, m, d)
<1> DEFINE since == Cardinality({k \in 1970..(y - 1) : Clocks!IsLeap(k)})
           until == Cardinality({k \in y..1969 : Clocks!IsLeap(k)})
           years == IF y >= 1970 THEN 365 * (y - 1970) + since ELSE 365 * (y - 1970) - until
           leap == IF Leap(y) THEN 1 ELSE 0
           cy == Clocks!CivilYear(y, m)
<1>1. Clocks!TimegmDays(y, m - 1, d) =
        years + Clocks!DaysBefore[m] + (IF m > 2 /\ Clocks!IsLeap(y) THEN 1 ELSE 0) + d - 1
  <2>1. ~(m - 1 < 0) /\ ~(m - 1 > 11) /\ (m - 1) % 12 = m - 1 /\ (m - 1) + 1 = m
        /\ (m - 1 > 1 <=> m > 2)
    BY SMT
  <2> DEFINE year == IF m - 1 < 0 THEN y + Clocks!Quot(m - 1 - 11, 12)
                     ELSE IF m - 1 > 11 THEN y + (m - 1) \div 12 ELSE y
             month == IF m - 1 < 0 THEN 12 + Clocks!Rem(m - 1, 12) ELSE (m - 1) % 12
             leaps(from, to) == Cardinality({k \in from..to : Clocks!IsLeap(k)})
  <2>2. Clocks!TimegmDays(y, m - 1, d) =
          (IF year >= 1970 THEN 365 * (year - 1970) + leaps(1970, year - 1)
           ELSE 365 * (year - 1970) - leaps(year, 1969))
          + Clocks!DaysBefore[month + 1]
          + (IF month > 1 /\ Clocks!IsLeap(year) THEN 1 ELSE 0) + d - 1
    BY SameCardinality DEF Clocks!TimegmDays
  <2>3. year = y /\ month = m - 1
    BY <2>1
  <2> HIDE DEF year, month
  <2> QED BY <2>1, <2>2, <2>3
<1>2. /\ LeapsTo(y) \in Int /\ LeapsTo(y - 1) \in Int /\ LeapsTo(1969) = 477
      /\ LeapsTo(y) = LeapsTo(y - 1) + leap
      /\ Clocks!IsLeap(y) <=> Leap(y)
  <2>1. LeapsTo(1969) = 477
    BY SMT DEF LeapsTo
  <2>2. LeapsTo(y - 1) \in Int
    BY Leaps
  <2> QED BY <2>1, <2>2, Leaps
<1>3. years = 365 * (y - 1970) + LeapsTo(y - 1) - 477
  <2>1. CASE y >= 1970
    <3>1. since = LeapsTo(y - 1) - LeapsTo(1970 - 1)
      <4>1. 1970 <= (y - 1) + 1 /\ y - 1 \in Int
        BY <2>1
      <4> QED BY <4>1, LeapCount
    <3> HIDE DEF since, until
    <3> QED BY <1>2, <2>1, <3>1, SMT
  <2>2. CASE ~(y >= 1970)
    <3>1. until = LeapsTo(1969) - LeapsTo(y - 1)
      BY <2>2, LeapCount
    <3> HIDE DEF since, until
    <3> QED BY <1>2, <2>2, <3>1, SMT
  <2> QED BY <2>1, <2>2
<1> HIDE DEF years
<1>4. Clocks!DaysFromCivil(y, m, d) = DayNumber(cy, MarchDays[m], d)
  BY CivilDays
<1>5. CASE m > 2
  <2>1. cy = y
    BY <1>5 DEF Clocks!CivilYear
  <2>2. MarchDays[m] \in Int /\ Clocks!DaysBefore[m] = MarchDays[m] + 59
    <3>1. m \in {3, 4, 5, 6, 7, 8, 9, 10, 11, 12}
      BY <1>5
    <3> QED BY <3>1, SMT DEF Clocks!DaysBefore, MarchDays
  <2> HIDE DEF cy
  <2> QED BY <1>1, <1>2, <1>3, <1>4, <1>5, <2>1, <2>2, SMT DEF DayNumber
<1>6. CASE ~(m > 2)
  <2>1. cy = y - 1
    BY <1>6 DEF Clocks!CivilYear
  <2>2. MarchDays[m] \in Int /\ Clocks!DaysBefore[m] = MarchDays[m] - 306
    <3>1. m \in {1, 2}
      BY <1>6
    <3> QED BY <3>1, SMT DEF Clocks!DaysBefore, MarchDays
  <2> HIDE DEF cy
  <2> QED BY <1>1, <1>2, <1>3, <1>4, <1>6, <2>1, <2>2, SMT DEF DayNumber
<1> QED BY <1>5, <1>6

\* A parsed time.
Time(y, m, d, h, i, s) ==
    [year |-> y, month |-> m, day |-> d, hour |-> h, minute |-> i, second |-> s]

\* The fields of a parsed time.
LEMMA TimeFields ==
  ASSUME NEW y, NEW m, NEW d, NEW h, NEW i, NEW s
  PROVE  LET t == Time(y, m, d, h, i, s)
         IN  /\ t.year = y /\ t.month = m /\ t.day = d
             /\ t.hour = h /\ t.minute = i /\ t.second = s
  BY DEF Time

\* A parsed time with a field changed.
LEMMA TimeExcept ==
  \A y, m, d, h, i, s, z :
     /\ [Time(y, m, d, h, i, s) EXCEPT !.year = z] = Time(z, m, d, h, i, s)
     /\ [Time(y, m, d, h, i, s) EXCEPT !.month = z] = Time(y, z, d, h, i, s)
     /\ [Time(y, m, d, h, i, s) EXCEPT !.day = z] = Time(y, m, z, h, i, s)
BY DEF Time

Seconds(h, i, s) == h * 3600 + i * 60 + s

\* creds.c: the number of its day, and the seconds into it.
LEMMA CredsTime ==
  \A y \in Int, m \in 1..12, d \in 1..31, h \in 0..23, i \in 0..59, s \in 0..60 :
     Clocks!CredsEpoch(Time(y, m, d, h, i, s)) = <<Clocks!DaysFromCivil(y, m, d), Seconds(h, i, s)>>
<1> TAKE y \in Int, m \in 1..12, d \in 1..31, h \in 0..23, i \in 0..59, s \in 0..60
<1> DEFINE t == Time(y, m, d, h, i, s)
<1>1. t.year = y /\ t.month = m /\ t.day = d /\ t.hour = h /\ t.minute = i /\ t.second = s
  BY TimeFields
<1> HIDE DEF t
<1>2. Clocks!InRange(t)
  BY <1>1 DEF Clocks!InRange
<1>3. Clocks!CredsEpoch(t) = <<Clocks!DaysFromCivil(y, m, d), Seconds(h, i, s)>>
  BY <1>1, <1>2 DEF Clocks!CredsEpoch, Seconds
<1> QED BY <1>3 DEF t

\* creds.c: the number of the day of a time, whatever the time of day.
Numbered(h, i, s) ==
    \A y \in Int, m \in 1..12, d \in 1..31 :
       Clocks!CredsEpoch(Time(y, m, d, h, i, s))[1] =
          DayNumber(Clocks!CivilYear(y, m), MarchDays[m], d)

\* creds.c numbers the days from a year of March to February.
LEMMA CredsDay ==
  ASSUME NEW h \in 0..23, NEW i \in 0..59, NEW s \in 0..60
  PROVE  Numbered(h, i, s)
<1> SUFFICES ASSUME NEW y \in Int, NEW m \in 1..12, NEW d \in 1..31
             PROVE  Clocks!CredsEpoch(Time(y, m, d, h, i, s))[1] =
                       DayNumber(Clocks!CivilYear(y, m), MarchDays[m], d)
  BY DEF Numbered
<1>1. Clocks!CredsEpoch(Time(y, m, d, h, i, s)) = <<Clocks!DaysFromCivil(y, m, d), Seconds(h, i, s)>>
  BY CredsTime
<1>2. Clocks!CredsEpoch(Time(y, m, d, h, i, s))[1] = Clocks!DaysFromCivil(y, m, d)
  BY <1>1
<1> QED BY <1>2, CivilDays

\* creds.c: each day of the calendar has the number after that of the day before it.
LEMMA DayFollows ==
  ASSUME NEW y \in Int, NEW m \in 1..12, NEW d \in 1..31, d <= Clocks!MonthLength(y, m),
         NEW h \in 0..23, NEW i \in 0..59, NEW s \in 0..60
  PROVE  Clocks!CredsEpoch(Clocks!NextDay(Time(y, m, d, h, i, s)))[1] =
            Clocks!CredsEpoch(Time(y, m, d, h, i, s))[1] + 1
<1> DEFINE t == Time(y, m, d, h, i, s)
           cy == Clocks!CivilYear(y, m)
           length == Clocks!MonthLength(y, m)
<1>0. Numbered(h, i, s)
  BY CredsDay
<1>1. Clocks!CredsEpoch(t)[1] = DayNumber(cy, MarchDays[m], d)
  BY <1>0 DEF Numbered
<1>2. \A yy \in Int, mm \in 1..12, dd \in 1..31 :
         Clocks!NextDay(t) = Time(yy, mm, dd, h, i, s) =>
           Clocks!CredsEpoch(Clocks!NextDay(t))[1] =
             DayNumber(Clocks!CivilYear(yy, mm), MarchDays[mm], dd)
  <2>1. ASSUME NEW yy \in Int, NEW mm \in 1..12, NEW dd \in 1..31
        PROVE  Clocks!CredsEpoch(Time(yy, mm, dd, h, i, s))[1] =
                 DayNumber(Clocks!CivilYear(yy, mm), MarchDays[mm], dd)
    BY <1>0 DEF Numbered
  <2> QED BY <2>1
<1>3. Clocks!NextDay(t) = IF d < length THEN Time(y, m, d + 1, h, i, s)
                          ELSE IF m < 12 THEN Time(y, m + 1, 1, h, i, s)
                          ELSE Time(y + 1, 1, 1, h, i, s)
  <2> DEFINE u == Time(y, m + 1, d, h, i, s)
             v == Time(y + 1, m, d, h, i, s)
             w == Time(y + 1, 1, d, h, i, s)
  <2>1. t.year = y /\ t.month = m /\ t.day = d
    BY TimeFields
  <2>2. /\ [t EXCEPT !.day = d + 1] = Time(y, m, d + 1, h, i, s)
        /\ [t EXCEPT !.month = m + 1] = u /\ [u EXCEPT !.day = 1] = Time(y, m + 1, 1, h, i, s)
        /\ [t EXCEPT !.year = y + 1] = v /\ [v EXCEPT !.month = 1] = w
        /\ [w EXCEPT !.day = 1] = Time(y + 1, 1, 1, h, i, s)
    BY TimeExcept
  <2> HIDE DEF t, u, v, w
  <2>3. Clocks!NextDay(t) = IF d < length THEN [t EXCEPT !.day = d + 1]
                            ELSE IF m < 12 THEN [[t EXCEPT !.month = m + 1] EXCEPT !.day = 1]
                            ELSE [[[t EXCEPT !.year = y + 1] EXCEPT !.month = 1] EXCEPT !.day = 1]
    BY <2>1, Zenon DEF Clocks!NextDay
  <2> QED BY <2>2, <2>3, Zenon
<1>4. /\ LeapsTo(y) \in Int /\ LeapsTo(y - 1) \in Int
      /\ LeapsTo(y) = LeapsTo(y - 1) + (IF Leap(y) THEN 1 ELSE 0)
      /\ Clocks!IsLeap(y) <=> Leap(y)
  <2>1. LeapsTo(y - 1) \in Int
    BY Leaps
  <2> QED BY <2>1, Leaps
<1>5. m \in {1, 2, 3, 4, 5, 6, 7, 8, 9, 10, 11, 12}
  OBVIOUS
<1>6. cy \in Int /\ LeapsTo(cy) \in Int /\ MarchDays[m] \in Int /\ length \in 28..31
  <2>1. MarchDays[m] \in Int
    BY <1>5 DEF MarchDays
  <2>2. length \in 28..31
    BY DEF Clocks!MonthLength
  <2>3. cy \in {y, y - 1}
    BY DEF Clocks!CivilYear
  <2> QED BY <1>4, <2>1, <2>2, <2>3
<1>7. CASE d < length
  <2>1. d + 1 \in 1..31
    BY <1>6, <1>7
  <2>2. Clocks!CredsEpoch(Clocks!NextDay(t))[1] = DayNumber(cy, MarchDays[m], d + 1)
    BY <1>2, <1>3, <1>7, <2>1, Zenon
  <2> HIDE DEF t, cy, length
  <2>3. DayNumber(cy, MarchDays[m], d + 1) = DayNumber(cy, MarchDays[m], d) + 1
    BY <1>6, SMT DEF DayNumber
  <2> QED BY <1>1, <2>2, <2>3, Zenon DEF t
<1>8. CASE ~(d < length) /\ m < 12
  <2> DEFINE next == Clocks!CivilYear(y, m + 1)
  <2>1. m + 1 \in 1..12 /\ 1 \in 1..31 /\ d = length
    BY <1>6, <1>8
  <2>2. Clocks!CredsEpoch(Clocks!NextDay(t))[1] = DayNumber(next, MarchDays[m + 1], 1)
    BY <1>2, <1>3, <1>8, <2>1, Zenon
  <2>3. DayNumber(next, MarchDays[m + 1], 1) = DayNumber(cy, MarchDays[m], d) + 1
    <3>1. CASE m = 2
      <4>1. cy = y - 1 /\ next = y
        BY <3>1 DEF Clocks!CivilYear
      <4>2. d = IF Leap(y) THEN 29 ELSE 28
        BY <1>4, <2>1, <3>1 DEF Clocks!MonthLength
      <4>3. MarchDays[m] = 337 /\ MarchDays[m + 1] = 0
        BY <3>1 DEF MarchDays
      <4> HIDE DEF cy, next
      <4> QED BY <1>4, <4>1, <4>2, <4>3, SMT DEF DayNumber
    <3>2. CASE m # 2
      <4>1. next = cy
        BY <3>2 DEF Clocks!CivilYear
      <4>2. MarchDays[m + 1] = MarchDays[m] + d
        <5>1. m \in {1, 3, 4, 5, 6, 7, 8, 9, 10, 11}
          BY <1>5, <1>8, <3>2
        <5> QED BY <2>1, <5>1, SMT DEF Clocks!MonthLength, MarchDays
      <4> HIDE DEF cy, next
      <4> QED BY <1>6, <4>1, <4>2, SMT DEF DayNumber
    <3> QED BY <3>1, <3>2
  <2> HIDE DEF t, cy, next
  <2> QED BY <1>1, <2>2, <2>3, Zenon DEF t
<1>9. CASE ~(d < length) /\ ~(m < 12)
  <2>1. m = 12 /\ d = length
    BY <1>6, <1>9
  <2>2. d = 31
    BY <2>1 DEF Clocks!MonthLength
  <2>3. y + 1 \in Int /\ 1 \in 1..12 /\ 1 \in 1..31
    OBVIOUS
  <2>4. Clocks!CredsEpoch(Clocks!NextDay(t))[1] =
           DayNumber(Clocks!CivilYear(y + 1, 1), MarchDays[1], 1)
    <3>1. Clocks!NextDay(t) = Time(y + 1, 1, 1, h, i, s)
      BY <1>3, <1>9, Zenon
    <3>2. Clocks!CredsEpoch(Time(y + 1, 1, 1, h, i, s))[1] =
             DayNumber(Clocks!CivilYear(y + 1, 1), MarchDays[1], 1)
      BY <1>0, <2>3 DEF Numbered
    <3> HIDE DEF t
    <3> QED BY <3>1, <3>2
  <2>5. Clocks!CivilYear(y + 1, 1) = y /\ cy = y
    BY <2>1 DEF Clocks!CivilYear
  <2>6. MarchDays[1] = 306 /\ MarchDays[m] = 275
    BY <2>1 DEF MarchDays
  <2> HIDE DEF t, cy, length
  <2>7. DayNumber(y, 306, 1) = DayNumber(y, 275, 31) + 1
    BY <1>4, SMT DEF DayNumber
  <2> QED BY <1>1, <2>2, <2>4, <2>5, <2>6, <2>7 DEF t
<1> QED BY <1>7, <1>8, <1>9

\* timegm: a month past the year is one of the next, one before it of the last.
LEMMA MonthsCarry ==
  ASSUME NEW y \in Int, NEW m \in 1..12, NEW d \in Int
  PROVE  /\ Clocks!TimegmDays(y, m + 11, d) = Clocks!TimegmDays(y + 1, m - 1, d)
         /\ m > 1 => Clocks!TimegmDays(y, m - 13, d) = Clocks!TimegmDays(y - 1, m - 1, d)
<1> DEFINE year(yy, mon) == IF mon < 0 THEN yy + Clocks!Quot(mon - 11, 12)
                            ELSE IF mon > 11 THEN yy + mon \div 12 ELSE yy
           month(mon) == IF mon < 0 THEN 12 + Clocks!Rem(mon, 12) ELSE mon % 12
           leaps(from, to) == Clocks!Cardinality({k \in from..to : Clocks!IsLeap(k)})
           Days(yr, mth) ==
              (IF yr >= 1970 THEN 365 * (yr - 1970) + leaps(1970, yr - 1)
               ELSE 365 * (yr - 1970) - leaps(yr, 1969))
              + Clocks!DaysBefore[mth + 1]
              + (IF mth > 1 /\ Clocks!IsLeap(yr) THEN 1 ELSE 0) + d - 1
<1>1. ASSUME NEW yy, NEW mon
      PROVE  Clocks!TimegmDays(yy, mon, d) = Days(year(yy, mon), month(mon))
  BY SMT DEF Clocks!TimegmDays
<1>2. m \in {1, 2, 3, 4, 5, 6, 7, 8, 9, 10, 11, 12}
  OBVIOUS
<1>3. /\ year(y, m + 11) = y + 1 /\ month(m + 11) = m - 1
      /\ year(y + 1, m - 1) = y + 1 /\ month(m - 1) = m - 1
      /\ year(y - 1, m - 1) = y - 1
  BY <1>2, SMT
<1>4. m > 1 => year(y, m - 13) = y - 1 /\ month(m - 13) = m - 1
  BY <1>2, SMT DEF Clocks!Quot, Clocks!Rem
<1> HIDE DEF year, month, Days
<1> QED BY <1>1, <1>3, <1>4, SMT

\* convert_iso8601_to_epoch, from the number of the day and the seconds into it.
SyncOf(days, seconds, offset) ==
    IF <<days, seconds>> = <<-1, 86399>> THEN [ok |-> FALSE]
    ELSE [ok |-> TRUE, epoch |-> <<days, seconds - 60 * offset>>]

\* time_sync.c adds the seconds of the day, and takes the offset off.
LEMMA SyncTime ==
  \A y, m, d, h, i, s, o :
     Clocks!SyncEpoch(Time(y, m, d, h, i, s), o) =
        SyncOf(Clocks!TimegmDays(y, m - 1, d), Seconds(h, i, s), o)
<1> TAKE y, m, d, h, i, s, o
<1> DEFINE t == Time(y, m, d, h, i, s)
<1>1. t.year = y /\ t.month = m /\ t.day = d /\ t.hour = h /\ t.minute = i /\ t.second = s
  BY TimeFields
<1> HIDE DEF t
<1>2. Clocks!SyncEpoch(t, o) = SyncOf(Clocks!TimegmDays(y, m - 1, d), Seconds(h, i, s), o)
  BY <1>1 DEF Clocks!SyncEpoch, SyncOf, Seconds
<1> QED BY <1>2 DEF t

\* creds.c and time_sync.c: the conversions agree at every time of the calendar.
THEOREM Conversions ==
  ASSUME NEW y \in Int, NEW m \in 1..12, NEW d \in 1..31, d <= Clocks!MonthLength(y, m),
         NEW h \in 0..23, NEW i \in 0..59, NEW s \in 0..60
  PROVE  Clocks!ConversionsAgree(Time(y, m, d, h, i, s))
<1> DEFINE t == Time(y, m, d, h, i, s)
           days == Clocks!TimegmDays(y, m - 1, d)
           seconds == Seconds(h, i, s)
           Synced(o) == Clocks!SyncEpoch(t, o)
<1>1. Clocks!CredsEpoch(Clocks!NextDay(t))[1] = Clocks!CredsEpoch(t)[1] + 1
  BY DayFollows
<1>2. Clocks!CredsEpoch([t EXCEPT !.year = 1970, !.month = 1, !.day = 1])[1] = 0
  <2>1. ASSUME NEW z \in Int
        PROVE  Clocks!CredsEpoch([t EXCEPT !.year = z, !.month = 1, !.day = 1])[1] =
                  DayNumber(Clocks!CivilYear(z, 1), MarchDays[1], 1)
    <3> DEFINE u == Time(z, m, d, h, i, s)
               v == Time(z, 1, d, h, i, s)
               w == Time(z, 1, 1, h, i, s)
    <3>1. [t EXCEPT !.year = z] = u /\ [u EXCEPT !.month = 1] = v /\ [v EXCEPT !.day = 1] = w
      BY TimeExcept
    <3>2. 1 \in 1..12 /\ 1 \in 1..31
      OBVIOUS
    <3>3. Clocks!CredsEpoch(w)[1] = DayNumber(Clocks!CivilYear(z, 1), MarchDays[1], 1)
      <4>1. Numbered(h, i, s)
        BY CredsDay
      <4> QED BY <3>2, <4>1 DEF Numbered
    <3> HIDE DEF t, u, v, w
    <3>4. [t EXCEPT !.year = z, !.month = 1, !.day = 1] = w
      BY <3>1, Zenon
    <3> QED BY <3>3, <3>4
  <2>2. Clocks!CivilYear(1970, 1) = 1969 /\ MarchDays[1] = 306
    BY SMT DEF Clocks!CivilYear, MarchDays
  <2>3. LeapsTo(1969) = 477
    BY SMT DEF LeapsTo
  <2>4. DayNumber(1969, 306, 1) = 0
    BY <2>3, SMT DEF DayNumber
  <2> HIDE DEF t
  <2>5. ASSUME NEW z \in Int, z = 1970
        PROVE  Clocks!CredsEpoch([t EXCEPT !.year = z, !.month = 1, !.day = 1])[1] = 0
    <3>1. DayNumber(Clocks!CivilYear(z, 1), MarchDays[1], 1) = 0
      BY <2>2, <2>4, <2>5, SMT
    <3> QED BY <2>1, <3>1, Zenon
  <2> DEFINE Day(z) == Clocks!CredsEpoch([t EXCEPT !.year = z, !.month = 1, !.day = 1])[1]
  <2>6. \A z \in Int : z = 1970 => Day(z) = 0
    BY <2>5, Zenon
  <2> HIDE DEF Day
  <2>7. Day(1970) = 0
    BY <2>6, SMT
  <2> QED BY <2>7 DEF Day
<1>3. Clocks!CredsEpoch(t) = <<days, seconds>>
  <2>1. Clocks!CredsEpoch(t) = <<Clocks!DaysFromCivil(y, m, d), seconds>>
    BY CredsTime
  <2>2. d \in Int
    OBVIOUS
  <2>3. days = Clocks!DaysFromCivil(y, m, d)
    BY <2>2, TimegmCivil
  <2> QED BY <2>1, <2>3
<1>4. \A o : Synced(o) = SyncOf(days, seconds, o)
  BY SyncTime, SMT
<1>5. seconds \in Int
  BY DEF Seconds
<1>6. t.month = m /\ t.year = y
  BY TimeFields
<1>7. ASSUME NEW a \in Int, NEW b \in Int,
             Clocks!TimegmDays(y, a - 1, d) = Clocks!TimegmDays(b, m - 1, d)
      PROVE  Clocks!SyncEpoch([t EXCEPT !.month = a], 0) = Clocks!SyncEpoch([t EXCEPT !.year = b], 0)
  <2> DEFINE u == Time(y, a, d, h, i, s)
             v == Time(b, m, d, h, i, s)
  <2>1. [t EXCEPT !.month = a] = u /\ [t EXCEPT !.year = b] = v
    BY TimeExcept
  <2>2. Clocks!SyncEpoch(u, 0) = SyncOf(Clocks!TimegmDays(y, a - 1, d), seconds, 0)
    BY SyncTime
  <2>3. Clocks!SyncEpoch(v, 0) = SyncOf(Clocks!TimegmDays(b, m - 1, d), seconds, 0)
    BY SyncTime
  <2> HIDE DEF t, u, v, seconds
  <2> QED BY <1>7, <2>1, <2>2, <2>3, Zenon
<1>8. Clocks!SyncEpoch([t EXCEPT !.month = t.month + 12], 0) =
      Clocks!SyncEpoch([t EXCEPT !.year = t.year + 1], 0)
  <2>1. d \in Int /\ m + 12 \in Int /\ y + 1 \in Int /\ (m + 12) - 1 = m + 11
    OBVIOUS
  <2>2. Clocks!TimegmDays(y, m + 11, d) = Clocks!TimegmDays(y + 1, m - 1, d)
    BY <2>1, MonthsCarry
  <2> HIDE DEF t
  <2>3. Clocks!SyncEpoch([t EXCEPT !.month = m + 12], 0) = Clocks!SyncEpoch([t EXCEPT !.year = y + 1], 0)
    BY <1>7, <2>1, <2>2, SMT
  <2> QED BY <1>6, <2>3, Zenon
<1>9. t.month > 1 => Clocks!SyncEpoch([t EXCEPT !.month = t.month - 12], 0) =
                     Clocks!SyncEpoch([t EXCEPT !.year = t.year - 1], 0)
  <2> SUFFICES ASSUME m > 1
               PROVE  Clocks!SyncEpoch([t EXCEPT !.month = t.month - 12], 0) =
                      Clocks!SyncEpoch([t EXCEPT !.year = t.year - 1], 0)
    BY <1>6, Zenon
  <2>1. d \in Int /\ m - 12 \in Int /\ y - 1 \in Int /\ (m - 12) - 1 = m - 13
    OBVIOUS
  <2>2. Clocks!TimegmDays(y, m - 13, d) = Clocks!TimegmDays(y - 1, m - 1, d)
    BY <2>1, MonthsCarry
  <2> HIDE DEF t
  <2>3. Clocks!SyncEpoch([t EXCEPT !.month = m - 12], 0) = Clocks!SyncEpoch([t EXCEPT !.year = y - 1], 0)
    BY <1>7, <2>1, <2>2, SMT
  <2> QED BY <1>6, <2>3, Zenon
<1>10. /\ Synced(0).ok => Synced(0).epoch = Clocks!CredsEpoch(t)
       /\ Synced(0).ok => Synced(330).epoch = <<Synced(0).epoch[1], Synced(0).epoch[2] - 19800>>
       /\ ~Synced(0).ok => Clocks!CredsEpoch(t) = <<-1, 86399>>
  <2> HIDE DEF t, days, seconds, Synced
  <2>1. CASE <<days, seconds>> = <<-1, 86399>>
    <3>1. ~Synced(0).ok
      BY <1>4, <2>1, SMT DEF SyncOf
    <3> QED BY <1>3, <2>1, <3>1, SMT
  <2>2. CASE <<days, seconds>> # <<-1, 86399>>
    <3>1. \A o : Synced(o) = [ok |-> TRUE, epoch |-> <<days, seconds - 60 * o>>]
      BY <1>4, <2>2, SMT DEF SyncOf
    <3>2. /\ Synced(0).ok
          /\ Synced(0).epoch = <<days, seconds - 60 * 0>>
          /\ Synced(330).epoch = <<days, seconds - 60 * 330>>
      BY <3>1, SMT
    <3> QED BY <1>3, <1>5, <3>2, SMT
  <2> QED BY <2>1, <2>2, SMT
<1> HIDE DEF t
<1>11. Clocks!ConversionsAgree(t)
  BY <1>1, <1>2, <1>8, <1>9, <1>10, SMT DEF Clocks!ConversionsAgree, Synced
<1> QED BY <1>11 DEF t

-----------------------------------------------------------------------------
(* timezone.c                                                              *)

\* lower, at a place of a name and at its end.
LEMMA LowerCode ==
  ASSUME NEW name \in Seq(Clocks!Characters), NEW i \in Nat \ {0}
  PROVE  /\ Clocks!Lower(name, i) \in Nat
         /\ Clocks!Lower(name, i) = 0 <=> i > Len(name)
<1>1. CASE i > Len(name)
  BY <1>1 DEF Clocks!Lower
<1>2. CASE ~(i > Len(name))
  <2>1. name[i] \in Clocks!Characters
    BY <1>2
  <2>2. Clocks!Code[name[i]] \in {47, 65, 66, 95, 97, 98}
    BY <2>1 DEF Clocks!Code, Clocks!Characters
  <2> DEFINE c == Clocks!Code[name[i]]
  <2>3. Clocks!Lower(name, i) = IF c \in 65..90 THEN c + 32 ELSE c
    BY <1>2 DEF Clocks!Lower
  <2>4. c \in Nat \ {0}
    BY <2>2
  <2> HIDE DEF c
  <2>5. Clocks!Lower(name, i) \in Nat \ {0}
    BY <2>3, <2>4
  <2> QED BY <1>2, <2>5
<1> QED BY <1>1, <1>2

\* The k-th character that counts is at place p, or p is past the end.
At(name, k, p) ==
    /\ p \in 1..(Len(name) + 1)
    /\ p > Len(name) \/ p \in Clocks!Kept(name)
    /\ Cardinality(Clocks!Kept(name) \cap 1..(p - 1)) = k - 1

\* The characters kept of a name are finitely many.
LEMMA KeptFinite ==
  ASSUME NEW name \in Seq(Clocks!Characters)
  PROVE  /\ Clocks!Kept(name) \subseteq 1..Len(name)
         /\ \A S \in SUBSET Clocks!Kept(name) : IsFiniteSet(S) /\ Cardinality(S) \in Nat
<1>1. Clocks!Kept(name) \subseteq 1..Len(name)
  BY DEF Clocks!Kept
<1>2. Len(name) \in Nat
  OBVIOUS
<1>3. IsFiniteSet(1..Len(name))
  BY <1>2, FS_Interval
<1>4. \A S \in SUBSET Clocks!Kept(name) : IsFiniteSet(S)
  BY <1>1, <1>3, FS_Subset
<1> QED BY <1>1, <1>4, FS_CardinalityType

\* after: a place further on, past underscores only.
LEMMA AfterEnds ==
  ASSUME NEW name \in Seq(Clocks!Characters), NEW p \in 1..Len(name)
  PROVE  LET q == Clocks!After(name, p)
         IN  /\ q \in (p + 1)..(Len(name) + 1)
             /\ q > Len(name) \/ name[q] # "underscore"
             /\ \A m \in (p + 1)..(q - 1) : name[m] = "underscore"
<1> DEFINE Ends == {k \in (p + 1)..(Len(name) + 1) : k > Len(name) \/ name[k] # "underscore"}
<1>1. p \in Nat /\ Len(name) \in Nat
  OBVIOUS
<1>2. Ends \in SUBSET Nat /\ Len(name) + 1 \in Ends
  BY <1>1
<1>3. PICK k \in Ends : \A j \in Ends : k <= j
  BY <1>2, LeastNat
<1>4. /\ k \in (p + 1)..(Len(name) + 1)
      /\ k > Len(name) \/ name[k] # "underscore"
      /\ \A m \in (p + 1)..(k - 1) : name[m] = "underscore"
  BY <1>1, <1>3
<1> QED BY <1>4, Zenon DEF Clocks!After

\* It is the place of the next character that counts.
LEMMA NextKept ==
  ASSUME NEW name \in Seq(Clocks!Characters), NEW p \in Clocks!Kept(name)
  PROVE  LET q == Clocks!After(name, p)
         IN  /\ q \in (p + 1)..(Len(name) + 1)
             /\ q > Len(name) \/ q \in Clocks!Kept(name)
             /\ Clocks!Kept(name) \cap 1..(q - 1) = (Clocks!Kept(name) \cap 1..(p - 1)) \cup {p}
<1> DEFINE q == Clocks!After(name, p)
<1>1. p \in 1..Len(name) /\ Len(name) \in Nat
  BY KeptFinite
<1>2. /\ q \in (p + 1)..(Len(name) + 1)
      /\ q > Len(name) \/ name[q] # "underscore"
      /\ \A m \in (p + 1)..(q - 1) : name[m] = "underscore"
  BY <1>1, AfterEnds
<1> HIDE DEF q
<1>3. q > Len(name) \/ q \in Clocks!Kept(name)
  BY <1>1, <1>2 DEF Clocks!Kept
<1>4. Clocks!Kept(name) \cap 1..(q - 1) = (Clocks!Kept(name) \cap 1..(p - 1)) \cup {p}
  <2>1. \A m \in (p + 1)..(q - 1) : m \notin Clocks!Kept(name)
    BY <1>1, <1>2 DEF Clocks!Kept
  <2>2. 1..(q - 1) = 1..(p - 1) \cup {p} \cup (p + 1)..(q - 1)
    BY <1>1, <1>2
  <2> QED BY <2>1, <2>2
<1> QED BY <1>2, <1>3, <1>4 DEF q

\* The characters that count are as many as there are places for them.
LEMMA FoldedText ==
  ASSUME NEW name \in Seq(Clocks!Characters)
  PROVE  Clocks!Folded(name) \in Seq(Nat)
<1> DEFINE kept == Clocks!Kept(name)
           n == Cardinality(kept)
           To(i) == kept \cap 1..i
           Place(j) == CHOOSE i \in kept : Cardinality(To(i)) = j
<1>1. n \in Nat /\ kept \subseteq 1..Len(name) /\ Len(name) \in Nat
  BY KeptFinite
<1>2. Clocks!Folded(name) = [j \in 1..n |-> Clocks!Lower(name, Place(j))]
  BY Zenon DEF Clocks!Folded, Clocks!Cardinality, Cardinality
<1>3. \A i : To(i) \in SUBSET kept /\ IsFiniteSet(To(i)) /\ Cardinality(To(i)) \in Nat
  BY KeptFinite
<1>4. ASSUME NEW j \in 1..n PROVE \E i \in kept : Cardinality(To(i)) = j
  <2> DEFINE Enough == {i \in Nat : Cardinality(To(i)) >= j}
  <2>1. Len(name) \in Enough
    <3>1. To(Len(name)) = kept
      BY <1>1
    <3>2. Cardinality(To(Len(name))) = n
      BY <3>1, Zenon
    <3> HIDE DEF n, To
    <3> QED BY <1>1, <3>2
  <2>2. PICK i \in Enough : \A m \in Enough : i <= m
    BY <2>1, LeastNat
  <2>3. i # 0
    <3>1. To(0) = {}
      OBVIOUS
    <3>2. Cardinality(To(0)) = 0
      BY <3>1, FS_EmptySet, Zenon
    <3> HIDE DEF To
    <3> QED BY <3>2
  <2>4. i - 1 \in Nat /\ i - 1 \notin Enough
    <3>1. i \in Nat
      BY <2>2
    <3> HIDE DEF Enough
    <3>2. i - 1 \in Nat /\ ~(i <= i - 1)
      BY <2>3, <3>1
    <3> QED BY <2>2, <3>2
  <2> DEFINE below == Cardinality(To(i - 1))
             upTo == Cardinality(To(i))
  <2>5. below \in Nat /\ upTo \in Nat /\ below < j /\ upTo >= j
    <3> HIDE DEF To
    <3> QED BY <1>3, <2>2, <2>4
  <2>6. CASE i \in kept
    <3>1. To(i) = To(i - 1) \cup {i} /\ i \notin To(i - 1)
      BY <1>1, <2>6
    <3>2. upTo = below + 1
      BY <1>3, <3>1, FS_AddElement, Zenon
    <3>3. upTo = j
      <4> HIDE DEF upTo, below
      <4> QED BY <2>5, <3>2
    <3> QED BY <2>6, <3>3
  <2>7. CASE i \notin kept
    <3>1. To(i) = To(i - 1)
      BY <1>1, <2>7
    <3>2. upTo = below
      BY <3>1, Zenon
    <3> HIDE DEF upTo, below
    <3> QED BY <2>5, <3>2
  <2> QED BY <2>6, <2>7
<1>5. ASSUME NEW j \in 1..n PROVE Clocks!Lower(name, Place(j)) \in Nat
  <2>1. Place(j) \in kept
    <3> HIDE DEF kept, To
    <3> QED BY <1>4
  <2>2. Place(j) \in Nat \ {0}
    <3> HIDE DEF Place
    <3> QED BY <1>1, <2>1
  <2> QED BY <2>2, LowerCode
<1>6. [j \in 1..n |-> Clocks!Lower(name, Place(j))] \in Seq(Nat)
  <2> HIDE DEF n, Place
  <2> QED BY <1>1, <1>5
<1> QED BY <1>2, <1>6

\* The places of a name and its characters that count go together.
LEMMA PlacesFound ==
  ASSUME NEW name \in Seq(Clocks!Characters), NEW k \in Nat \ {0}, NEW p, At(name, k, p)
  PROVE  /\ Len(Clocks!Folded(name)) \in Nat
         /\ p > Len(name) => Len(Clocks!Folded(name)) = k - 1
         /\ p <= Len(name) => /\ k \in 1..Len(Clocks!Folded(name))
                              /\ Clocks!Folded(name)[k] = Clocks!Lower(name, p)
                              /\ At(name, k + 1, Clocks!After(name, p))
<1> DEFINE kept == Clocks!Kept(name)
           n == Cardinality(kept)
           To(i) == kept \cap 1..i
<1>1. n \in Nat /\ kept \subseteq 1..Len(name) /\ Len(name) \in Nat /\ p \in 1..(Len(name) + 1)
  BY KeptFinite DEF At
<1>2. Clocks!Folded(name) =
         [j \in 1..n |-> Clocks!Lower(name, CHOOSE i \in kept : Cardinality(To(i)) = j)]
  BY Zenon DEF Clocks!Folded, Clocks!Cardinality, Cardinality
<1>3. Len(Clocks!Folded(name)) = n
  BY <1>1, <1>2
<1>4. \A i : To(i) \in SUBSET kept /\ IsFiniteSet(To(i)) /\ Cardinality(To(i)) \in Nat
  BY KeptFinite
<1>5. ASSUME p > Len(name) PROVE n = k - 1
  <2>1. To(p - 1) = kept
    BY <1>1, <1>5
  <2> QED BY <2>1 DEF At
<1>6. ASSUME p <= Len(name)
      PROVE  /\ k \in 1..n
             /\ Clocks!Folded(name)[k] = Clocks!Lower(name, p)
             /\ At(name, k + 1, Clocks!After(name, p))
  <2>1. p \in kept /\ Cardinality(To(p - 1)) = k - 1
    BY <1>1, <1>6 DEF At
  <2>2. To(p) = To(p - 1) \cup {p} /\ p \notin To(p - 1)
    BY <1>1, <2>1
  <2>3. Cardinality(To(p)) = k
    <3>1. Cardinality(To(p - 1) \cup {p}) = Cardinality(To(p - 1)) + 1
      BY <1>4, <2>2, FS_AddElement, Zenon
    <3> HIDE DEF To, kept
    <3> QED BY <2>1, <2>2, <3>1
  <2>4. k <= n
    <3>1. IsFiniteSet(kept)
      BY KeptFinite
    <3> QED BY <1>4, <2>3, <3>1, FS_Subset
  <2>5. ASSUME NEW i \in kept, NEW j \in kept, i < j PROVE Cardinality(To(i)) # Cardinality(To(j))
    <3>1. To(i) \in SUBSET To(j) /\ j \in To(j) /\ j \notin To(i)
      BY <1>1, <2>5
    <3> QED BY <1>4, <3>1, FS_Subset
  <2>6. \A i \in kept : Cardinality(To(i)) = k => i = p
    <3>1. \A i \in kept : i \in Nat
      BY <1>1
    <3> HIDE DEF kept, To
    <3> QED BY <2>1, <2>3, <2>5, <3>1
  <2>7. (CHOOSE i \in kept : Cardinality(To(i)) = k) = p
    <3> HIDE DEF kept, To
    <3> QED BY <2>1, <2>3, <2>6, Zenon
  <2>8. k \in 1..n
    BY <1>1, <2>4
  <2>9. Clocks!Folded(name)[k] = Clocks!Lower(name, p)
    <3> HIDE DEF kept, To, n
    <3> QED BY <1>2, <2>7, <2>8
  <2>10. At(name, k + 1, Clocks!After(name, p))
    <3> DEFINE q == Clocks!After(name, p)
    <3>1. /\ q \in (p + 1)..(Len(name) + 1)
          /\ q > Len(name) \/ q \in kept
          /\ To(q - 1) = To(p)
      BY <2>1, <2>2, NextKept
    <3>2. q \in 1..(Len(name) + 1)
      BY <1>1, <3>1
    <3>3. Cardinality(kept \cap 1..(q - 1)) = k
      BY <2>3, <3>1, Zenon
    <3>4. (k + 1) - 1 = k
      OBVIOUS
    <3> HIDE DEF q
    <3>5. At(name, k + 1, q)
      BY <3>1, <3>2, <3>3, <3>4, Zenon DEF At
    <3> QED BY <3>5 DEF q
  <2> QED BY <2>8, <2>9, <2>10
<1> QED BY <1>1, <1>3, <1>5, <1>6

\* tz_name_cmp: nothing is left to compare, or characters that differ.
Over(target, other) ==
    {x \in (1..(Len(target) + 1)) \X (1..(Len(other) + 1)) :
        x[1] > Len(target) \/ Clocks!Lower(target, x[1]) # Clocks!Lower(other, x[2])}

\* Where it goes on both names have a character, and the same.
LEMMA MayGoOn ==
  ASSUME NEW target \in Seq(Clocks!Characters), NEW other \in Seq(Clocks!Characters),
         NEW p \in 1..(Len(target) + 1), NEW q \in 1..(Len(other) + 1)
  PROVE  <<p, q>> \notin Over(target, other) =>
            /\ p \in 1..Len(target) /\ q \in 1..Len(other)
            /\ Clocks!Lower(target, p) = Clocks!Lower(other, q)
<1>1. <<p, q>> \notin Over(target, other) =>
         ~(p > Len(target)) /\ Clocks!Lower(target, p) = Clocks!Lower(other, q)
  BY DEF Over
<1>2. p \in Nat \ {0} /\ q \in Nat \ {0} /\ Len(target) \in Nat /\ Len(other) \in Nat
  OBVIOUS
<1>3. /\ Clocks!Lower(target, p) = 0 <=> p > Len(target)
      /\ Clocks!Lower(other, q) = 0 <=> q > Len(other)
  BY <1>2, LowerCode
<1> QED BY <1>1, <1>2, <1>3

\* The loop of tz_name_cmp ends.
LEMMA CmpLoop ==
  ASSUME NEW target \in Seq(Clocks!Characters), NEW other \in Seq(Clocks!Characters)
  PROVE  \E f : /\ Clocks!TzNameCmp(target, other) = f[<<1, 1>>]
                /\ \A p \in 1..(Len(target) + 1), q \in 1..(Len(other) + 1) :
                      f[<<p, q>>] =
                         IF <<p, q>> \in Over(target, other)
                         THEN Clocks!Lower(target, p) - Clocks!Lower(other, q)
                         ELSE f[<<Clocks!After(target, p), Clocks!After(other, q)>>]
<1> DEFINE D == (1..(Len(target) + 1)) \X (1..(Len(other) + 1))
           Stop == Over(target, other)
           val == [x \in D |-> Clocks!Lower(target, x[1]) - Clocks!Lower(other, x[2])]
           next == [x \in D |-> <<Clocks!After(target, x[1]), Clocks!After(other, x[2])>>]
           rest == [x \in D |-> Len(target) + 1 - x[1]]
           Body(f, x) == IF x[1] > Len(target) \/ Clocks!Lower(target, x[1]) # Clocks!Lower(other, x[2])
                         THEN Clocks!Lower(target, x[1]) - Clocks!Lower(other, x[2])
                         ELSE f[<<Clocks!After(target, x[1]), Clocks!After(other, x[2])>>]
           cmp == CHOOSE f : f = [x \in D |-> Body(f, x)]
<1>1. Len(target) \in Nat /\ Len(other) \in Nat
  OBVIOUS
<1>2. ASSUME NEW p \in 1..(Len(target) + 1), NEW q \in 1..(Len(other) + 1),
             <<p, q>> \notin Stop
      PROVE  /\ Clocks!After(target, p) \in (p + 1)..(Len(target) + 1)
             /\ Clocks!After(other, q) \in 1..(Len(other) + 1)
  <2>1. p \in 1..Len(target) /\ q \in 1..Len(other)
    BY <1>2, MayGoOn
  <2>2. Clocks!After(other, q) \in (q + 1)..(Len(other) + 1)
    BY <2>1, AfterEnds
  <2> QED BY <2>1, <2>2, AfterEnds
<1>3. \A x \in D : rest[x] \in 0..Len(target)
  BY <1>1
<1>4. \A x \in D : x \notin Stop => next[x] \in D /\ rest[next[x]] < rest[x]
  <2> SUFFICES ASSUME NEW x \in D, x \notin Stop PROVE next[x] \in D /\ rest[next[x]] < rest[x]
    OBVIOUS
  <2>0. PICK p \in 1..(Len(target) + 1), q \in 1..(Len(other) + 1) : x = <<p, q>>
    OBVIOUS
  <2> DEFINE pp == Clocks!After(target, p)
             qq == Clocks!After(other, q)
  <2>1. next[<<p, q>>] = <<pp, qq>> /\ rest[<<p, q>>] = Len(target) + 1 - p
    OBVIOUS
  <2>2. pp \in (p + 1)..(Len(target) + 1) /\ qq \in 1..(Len(other) + 1)
    BY <1>2, <2>0
  <2>3. pp \in 1..(Len(target) + 1)
    BY <2>2
  <2>4. <<pp, qq>> \in D /\ rest[<<pp, qq>>] = Len(target) + 1 - pp
    BY <2>2, <2>3
  <2> HIDE DEF next, rest, D, pp, qq
  <2> QED BY <1>1, <2>0, <2>1, <2>2, <2>4
<1>5. PICK f : f = [x \in D |-> IF x \in Stop THEN val[x] ELSE f[next[x]]]
  <2> HIDE DEF D, Stop, val, next, rest
  <2>1. CountsDown(D, Stop, next, rest, Len(target))
    BY <1>3, <1>4, Zenon DEF CountsDown
  <2>2. \E g : Computes(g, D, Stop, val, next)
    BY <1>1, <2>1, LoopEnds, Zenon
  <2> QED BY <2>2, Zenon DEF Computes
<1>6. \A x \in D : Body(f, x) = IF x \in Stop THEN val[x] ELSE f[next[x]]
  BY DEF Over
<1>7. f = [x \in D |-> Body(f, x)]
  <2> HIDE DEF D, Stop, val, next, Body
  <2> QED BY <1>5, <1>6
<1>8. cmp = [x \in D |-> Body(cmp, x)]
  <2> HIDE DEF D, Body
  <2> QED BY <1>7
<1>9. Clocks!TzNameCmp(target, other) = cmp[<<1, 1>>]
  BY Zenon DEF Clocks!TzNameCmp
<1> HIDE DEF cmp
<1>10. ASSUME NEW p \in 1..(Len(target) + 1), NEW q \in 1..(Len(other) + 1)
       PROVE  cmp[<<p, q>>] =
                 IF <<p, q>> \in Over(target, other)
                 THEN Clocks!Lower(target, p) - Clocks!Lower(other, q)
                 ELSE cmp[<<Clocks!After(target, p), Clocks!After(other, q)>>]
  <2>1. <<p, q>> \in D /\ <<p, q>>[1] = p /\ <<p, q>>[2] = q
    OBVIOUS
  <2>2. cmp[<<p, q>>] = Body(cmp, <<p, q>>)
    <3> HIDE DEF D, Body
    <3> QED BY <1>8, <2>1
  <2> QED BY <2>1, <2>2 DEF Over
<1> QED BY <1>9, <1>10, Zenon

\* tz_name_cmp says how the names are ordered, without case and underscores.
LEMMA CmpOrders ==
  ASSUME NEW target \in Seq(Clocks!Characters), NEW other \in Seq(Clocks!Characters)
  PROVE  LET c == Clocks!TzNameCmp(target, other)
             s == Clocks!Folded(target)
             t == Clocks!Folded(other)
         IN  /\ c \in Int
             /\ c = 0 => s = t
             /\ c < 0 => Clocks!Ascending(s, t)
             /\ c > 0 => Clocks!Ascending(t, s)
<1> DEFINE s == Clocks!Folded(target)
           t == Clocks!Folded(other)
           Right(c) == /\ c \in Int
                       /\ c = 0 => s = t
                       /\ c < 0 => Clocks!Ascending(s, t)
                       /\ c > 0 => Clocks!Ascending(t, s)
           Same(k) == \A j \in 1..(k - 1) : s[j] = t[j]
<1>1. PICK f : /\ Clocks!TzNameCmp(target, other) = f[<<1, 1>>]
               /\ \A p \in 1..(Len(target) + 1), q \in 1..(Len(other) + 1) :
                     f[<<p, q>>] =
                        IF <<p, q>> \in Over(target, other)
                        THEN Clocks!Lower(target, p) - Clocks!Lower(other, q)
                        ELSE f[<<Clocks!After(target, p), Clocks!After(other, q)>>]
  BY CmpLoop
<1>2. s \in Seq(Nat) /\ t \in Seq(Nat) /\ Len(target) \in Nat /\ Len(other) \in Nat
  BY FoldedText
<1> DEFINE Wrong == {n \in Nat : \E p \in 1..(Len(target) + 1), q \in 1..(Len(other) + 1), k \in Nat \ {0} :
                        /\ n = Len(target) + 1 - p
                        /\ At(target, k, p) /\ At(other, k, q) /\ Same(k)
                        /\ ~Right(f[<<p, q>>])}
<1>3. ASSUME NEW p \in 1..(Len(target) + 1), NEW q \in 1..(Len(other) + 1), NEW k \in Nat \ {0},
             At(target, k, p), At(other, k, q), Same(k), <<p, q>> \in Over(target, other)
      PROVE  Right(Clocks!Lower(target, p) - Clocks!Lower(other, q))
  <2> DEFINE a == Clocks!Lower(target, p)
             b == Clocks!Lower(other, q)
  <2>1. /\ a \in Nat /\ b \in Nat
        /\ a = 0 <=> p > Len(target)
        /\ b = 0 <=> q > Len(other)
    <3>1. p \in Nat \ {0} /\ q \in Nat \ {0}
      OBVIOUS
    <3> QED BY <3>1, LowerCode
  <2>2. /\ p > Len(target) => Len(s) = k - 1
        /\ p <= Len(target) => k \in 1..Len(s) /\ s[k] = a
    BY <1>3, PlacesFound
  <2>3. /\ q > Len(other) => Len(t) = k - 1
        /\ q <= Len(other) => k \in 1..Len(t) /\ t[k] = b
    BY <1>3, PlacesFound
  <2>4. p > Len(target) \/ a # b
    BY <1>3 DEF Over
  <2> HIDE DEF a, b, s, t
  <2>5. a - b \in Int
    BY <2>1
  <2>6. ASSUME a - b = 0 PROVE s = t
    <3>1. p > Len(target) /\ q > Len(other)
      BY <2>1, <2>4, <2>6
    <3>2. Len(s) = k - 1 /\ Len(t) = k - 1
      BY <2>2, <2>3, <3>1
    <3> QED BY <1>2, <1>3, <3>2
  <2>7. ASSUME a - b < 0 PROVE Clocks!Ascending(s, t)
    <3>1. a < b /\ k \in 1..Len(t) /\ t[k] = b
      BY <2>1, <2>3, <2>7
    <3>2. k = Len(s) + 1 \/ (k \in 1..Len(s) /\ s[k] < t[k])
      BY <1>2, <2>2, <3>1
    <3>3. DOMAIN s = 1..Len(s) /\ DOMAIN t = 1..Len(t)
      BY <1>2
    <3> QED BY <1>3, <3>1, <3>2, <3>3, Zenon DEF Clocks!Ascending
  <2>8. ASSUME a - b > 0 PROVE Clocks!Ascending(t, s)
    <3>1. b < a /\ k \in 1..Len(s) /\ s[k] = a
      BY <2>1, <2>2, <2>8
    <3>2. k = Len(t) + 1 \/ (k \in 1..Len(t) /\ t[k] < s[k])
      BY <1>2, <2>3, <3>1
    <3>3. DOMAIN s = 1..Len(s) /\ DOMAIN t = 1..Len(t)
      BY <1>2
    <3>4. \A j \in 1..(k - 1) : t[j] = s[j]
      BY <1>3
    <3> QED BY <3>1, <3>2, <3>3, <3>4, Zenon DEF Clocks!Ascending
  <2>9. Right(a - b)
    BY <2>5, <2>6, <2>7, <2>8
  <2> QED BY <2>9 DEF a, b
<1>4. ASSUME NEW n \in Wrong, \A m \in Wrong : n <= m PROVE FALSE
  <2>1. PICK p \in 1..(Len(target) + 1), q \in 1..(Len(other) + 1), k \in Nat \ {0} :
           /\ n = Len(target) + 1 - p
           /\ At(target, k, p) /\ At(other, k, q) /\ Same(k)
           /\ ~Right(f[<<p, q>>])
    BY <1>4
  <2>2. <<p, q>> \notin Over(target, other)
    <3> HIDE DEF Right, Same
    <3> QED BY <1>1, <1>3, <2>1
  <2>3. p \in 1..Len(target) /\ q \in 1..Len(other)
        /\ Clocks!Lower(target, p) = Clocks!Lower(other, q)
    BY <2>2, MayGoOn
  <2> DEFINE pp == Clocks!After(target, p)
             qq == Clocks!After(other, q)
  <2>4. pp \in (p + 1)..(Len(target) + 1) /\ qq \in (q + 1)..(Len(other) + 1)
    BY <2>3, AfterEnds
  <2>5. p <= Len(target) /\ q <= Len(other)
    BY <2>3
  <2>6. s[k] = Clocks!Lower(target, p) /\ At(target, k + 1, pp)
    BY <2>1, <2>5, PlacesFound
  <2>7. t[k] = Clocks!Lower(other, q) /\ At(other, k + 1, qq)
    BY <2>1, <2>5, PlacesFound
  <2>8. f[<<p, q>>] = f[<<pp, qq>>]
    BY <1>1, <2>2
  <2> HIDE DEF s, t, pp, qq
  <2>9. Same(k + 1)
    BY <2>1, <2>3, <2>6, <2>7
  <2> HIDE DEF Same, Right
  <2>10. pp \in 1..(Len(target) + 1) /\ qq \in 1..(Len(other) + 1) /\ k + 1 \in Nat \ {0}
         /\ Len(target) + 1 - pp \in Nat /\ Len(target) + 1 - pp < n
    <3>1. n = Len(target) + 1 - p
      BY <2>1
    <3> HIDE DEF Wrong
    <3> QED BY <1>2, <2>4, <3>1
  <2>11. Len(target) + 1 - pp \in Wrong
    BY <2>1, <2>6, <2>7, <2>8, <2>9, <2>10, Zenon
  <2>12. n \in Nat /\ n <= Len(target) + 1 - pp
    BY <1>4, <2>11
  <2> HIDE DEF Wrong
  <2> QED BY <2>10, <2>12
<1>5. At(target, 1, 1) /\ At(other, 1, 1) /\ Same(1)
  <2>1. ASSUME NEW name \in Seq(Clocks!Characters) PROVE At(name, 1, 1)
    <3>1. Clocks!Kept(name) \cap 1..(1 - 1) = {} /\ Len(name) \in Nat
      OBVIOUS
    <3>2. 1 > Len(name) \/ 1 \in Clocks!Kept(name)
      BY DEF Clocks!Kept
    <3>3. Cardinality(Clocks!Kept(name) \cap 1..(1 - 1)) = 1 - 1
      BY <3>1, FS_EmptySet
    <3> QED BY <3>1, <3>2, <3>3 DEF At
  <2> QED BY <2>1
<1>6. Right(f[<<1, 1>>])
  <2> SUFFICES ASSUME ~Right(f[<<1, 1>>]) PROVE FALSE
    OBVIOUS
  <2> HIDE DEF Right, Same
  <2>1. Len(target) + 1 - 1 \in Nat /\ 1 \in 1..(Len(target) + 1) /\ 1 \in 1..(Len(other) + 1)
        /\ 1 \in Nat \ {0}
    BY <1>2
  <2>2. Len(target) + 1 - 1 \in Wrong
    BY <1>5, <2>1, Zenon
  <2>3. Wrong \in SUBSET Nat /\ Wrong # {}
    BY <2>2
  <2>4. \E m \in Wrong : \A n \in Wrong : m <= n
    BY <2>3, LeastNat, Zenon
  <2> QED BY <1>4, <2>4, Zenon
<1> QED BY <1>1, <1>6

\* Of two sequences at most one comes before the other.
LEMMA OneBeforeOther ==
  ASSUME NEW s \in Seq(Nat), NEW t \in Seq(Nat), Clocks!Ascending(s, t)
  PROVE  ~Clocks!Ascending(t, s)
<1>1. SUFFICES ASSUME Clocks!Ascending(t, s) PROVE FALSE
  OBVIOUS
<1>2. DOMAIN s = 1..Len(s) /\ DOMAIN t = 1..Len(t) /\ Len(s) \in Nat /\ Len(t) \in Nat
  OBVIOUS
<1>3. PICK i \in DOMAIN t : /\ i = Len(s) + 1 \/ (i \in DOMAIN s /\ s[i] < t[i])
                            /\ \A j \in 1..(i - 1) : s[j] = t[j]
  BY Zenon DEF Clocks!Ascending
<1>4. PICK k \in DOMAIN s : /\ k = Len(t) + 1 \/ (k \in DOMAIN t /\ t[k] < s[k])
                            /\ \A j \in 1..(k - 1) : t[j] = s[j]
  BY <1>1, Zenon DEF Clocks!Ascending
<1>5. i \in Nat /\ k \in Nat /\ i >= 1 /\ k >= 1 /\ i <= Len(t) /\ k <= Len(s)
  BY <1>2
<1>6. \A j \in DOMAIN s : s[j] \in Nat
  OBVIOUS
<1>7. \A j \in DOMAIN t : t[j] \in Nat
  OBVIOUS
<1>8. CASE i = k
  <2>1. i \in DOMAIN s /\ i \in DOMAIN t /\ s[i] < t[i] /\ t[i] < s[i]
    BY <1>2, <1>3, <1>4, <1>5, <1>8
  <2> QED BY <1>6, <1>7, <2>1
<1>9. CASE i < k
  <2>1. i \in DOMAIN s /\ i \in 1..(k - 1)
    BY <1>2, <1>5, <1>9
  <2>2. s[i] < t[i] /\ s[i] = t[i]
    BY <1>2, <1>3, <1>4, <1>5, <1>9, <2>1
  <2> QED BY <1>6, <2>1, <2>2
<1>10. CASE k < i
  <2>1. k \in DOMAIN t /\ k \in 1..(i - 1)
    BY <1>2, <1>5, <1>10
  <2>2. t[k] < s[k] /\ s[k] = t[k]
    BY <1>2, <1>3, <1>4, <1>5, <1>10, <2>1
  <2> QED BY <1>7, <2>1, <2>2
<1> QED BY <1>5, <1>8, <1>9, <1>10

\* The middle of what is left of the table.
Mid(lo, hi) == (lo + hi) \div 2

\* The middle is a place of what is left.
LEMMA MidBetween ==
  ASSUME NEW lo \in Nat, NEW hi \in Nat, lo < hi
  PROVE  Mid(lo, hi) \in Nat /\ lo <= Mid(lo, hi) /\ Mid(lo, hi) < hi
  BY DEF Mid

\* What the search returns from any part of the table.
Searches(f, tzs, name) ==
    /\ Clocks!TzSearch(tzs, name) = f[<<0, Len(tzs)>>]
    /\ \A lo \in 0..Len(tzs), hi \in 0..Len(tzs) :
          LET mid == Mid(lo, hi)
              c == Clocks!TzNameCmp(name, tzs[mid + 1])
          IN  f[<<lo, hi>>] = IF lo >= hi THEN 0 ELSE IF c = 0 THEN mid + 1
                              ELSE IF c < 0 THEN f[<<lo, mid>>] ELSE f[<<mid + 1, hi>>]

\* The loop of the search ends.
LEMMA SearchLoop ==
  ASSUME NEW tzs, Len(tzs) \in Nat, NEW name
  PROVE  \E f : Searches(f, tzs, name)
<1> DEFINE n == Len(tzs)
           D == (0..n) \X (0..n)
           c(x) == Clocks!TzNameCmp(name, tzs[Mid(x[1], x[2]) + 1])
           Stop == {x \in D : x[1] >= x[2] \/ c(x) = 0}
           val == [x \in D |-> IF x[1] >= x[2] THEN 0 ELSE Mid(x[1], x[2]) + 1]
           next == [x \in D |-> IF c(x) < 0 THEN <<x[1], Mid(x[1], x[2])>>
                                ELSE <<Mid(x[1], x[2]) + 1, x[2]>>]
           rest == [x \in D |-> IF x[1] >= x[2] THEN 0 ELSE x[2] - x[1]]
           Body(f, x) == CASE x[1] >= x[2] -> 0
                           [] x[1] < x[2] /\ c(x) = 0 -> Mid(x[1], x[2]) + 1
                           [] x[1] < x[2] /\ c(x) < 0 -> f[<<x[1], Mid(x[1], x[2])>>]
                           [] OTHER -> f[<<Mid(x[1], x[2]) + 1, x[2]>>]
           find == CHOOSE f : f = [x \in D |-> Body(f, x)]
<1>1. \A x \in D : rest[x] \in 0..n
  OBVIOUS
<1>2. ASSUME NEW x \in D, x \notin Stop PROVE next[x] \in D /\ rest[next[x]] < rest[x]
  <2>1. PICK lo \in 0..n, hi \in 0..n : x = <<lo, hi>>
    OBVIOUS
  <2> DEFINE mid == Mid(lo, hi)
  <2>2. lo < hi
    BY <1>2, <2>1
  <2>3. mid \in Nat /\ lo <= mid /\ mid < hi
    BY <2>2, MidBetween
  <2>4. rest[x] = hi - lo
    BY <2>1, <2>2
  <2>5. next[x] \in {<<lo, mid>>, <<mid + 1, hi>>}
    BY <2>1
  <2> HIDE DEF mid, next
  <2>6. <<lo, mid>> \in D /\ rest[<<lo, mid>>] = IF lo >= mid THEN 0 ELSE mid - lo
    BY <2>3
  <2>7. <<mid + 1, hi>> \in D /\ rest[<<mid + 1, hi>>] = IF mid + 1 >= hi THEN 0 ELSE hi - (mid + 1)
    BY <2>3
  <2> HIDE DEF rest, D
  <2> QED BY <2>2, <2>3, <2>4, <2>5, <2>6, <2>7
<1>3. PICK f : f = [x \in D |-> IF x \in Stop THEN val[x] ELSE f[next[x]]]
  <2> HIDE DEF D, Stop, val, next, rest
  <2>1. CountsDown(D, Stop, next, rest, n)
    BY <1>1, <1>2, Zenon DEF CountsDown
  <2>2. \E g : Computes(g, D, Stop, val, next)
    BY <2>1, LoopEnds, Zenon
  <2> QED BY <2>2, Zenon DEF Computes
<1>4. \A x \in D : Body(f, x) = IF x \in Stop THEN val[x] ELSE f[next[x]]
  OBVIOUS
<1>5. f = [x \in D |-> Body(f, x)]
  <2> HIDE DEF D, Stop, val, next, Body
  <2> QED BY <1>3, <1>4
<1>6. find = [x \in D |-> Body(find, x)]
  <2> HIDE DEF D, Body
  <2> QED BY <1>5
<1>7. Clocks!TzSearch(tzs, name) = find[<<0, n>>]
  BY Zenon DEF Clocks!TzSearch, Mid
<1> HIDE DEF find
<1>8. ASSUME NEW lo \in 0..n, NEW hi \in 0..n
      PROVE  find[<<lo, hi>>] =
                IF lo >= hi THEN 0 ELSE IF c(<<lo, hi>>) = 0 THEN Mid(lo, hi) + 1
                ELSE IF c(<<lo, hi>>) < 0 THEN find[<<lo, Mid(lo, hi)>>] ELSE find[<<Mid(lo, hi) + 1, hi>>]
  <2>1. <<lo, hi>> \in D /\ <<lo, hi>>[1] = lo /\ <<lo, hi>>[2] = hi
    OBVIOUS
  <2>2. find[<<lo, hi>>] = Body(find, <<lo, hi>>)
    <3> HIDE DEF D, Body
    <3> QED BY <1>6, <2>1
  <2>3. ~(lo >= hi) => lo < hi
    OBVIOUS
  <2> HIDE DEF c
  <2> QED BY <2>1, <2>2, <2>3
<1>9. Searches(find, tzs, name)
  BY <1>7, <1>8 DEF Searches
<1> QED BY <1>9

\* A name is found in a table that is sorted, of any length, exactly where it
\* stands.
THEOREM Search ==
  ASSUME NEW tzs \in Seq(Seq(Clocks!Characters)), Clocks!Sorted(tzs),
         NEW name \in Seq(Clocks!Characters)
  PROVE  Clocks!SearchFinds(tzs, name)
<1> DEFINE n == Len(tzs)
           word == Clocks!Folded(name)
           entry(i) == Clocks!Folded(tzs[i])
           c(i) == Clocks!TzNameCmp(name, tzs[i])
           Stands(i) == entry(i) = word
           Right(r) == IF \E i \in 1..n : Stands(i) THEN r \in 1..n /\ Stands(r) ELSE r = 0
           Among(lo, hi) == \A i \in 1..n : Stands(i) => lo < i /\ i <= hi
<1>1. n \in Nat /\ DOMAIN tzs = 1..n /\ \A i \in 1..n : tzs[i] \in Seq(Clocks!Characters)
  OBVIOUS
<1>2. word \in Seq(Nat) /\ \A i \in 1..n : entry(i) \in Seq(Nat)
  BY <1>1, FoldedText
<1>3. \A i \in 1..n : /\ c(i) \in Int
                      /\ c(i) = 0 => Stands(i)
                      /\ c(i) < 0 => Clocks!Ascending(word, entry(i))
                      /\ c(i) > 0 => Clocks!Ascending(entry(i), word)
  <2> SUFFICES ASSUME NEW i \in 1..n
               PROVE  /\ c(i) \in Int
                      /\ c(i) = 0 => Stands(i)
                      /\ c(i) < 0 => Clocks!Ascending(word, entry(i))
                      /\ c(i) > 0 => Clocks!Ascending(entry(i), word)
    OBVIOUS
  <2>1. tzs[i] \in Seq(Clocks!Characters)
    BY <1>1
  <2> QED BY <2>1, CmpOrders
<1>4. \A i, j \in 1..n : i < j => Clocks!Ascending(entry(i), entry(j))
  BY <1>1, Zenon DEF Clocks!Sorted
<1> PICK f : Searches(f, tzs, name)
  BY <1>1, SearchLoop
<1>5. /\ Clocks!TzSearch(tzs, name) = f[<<0, n>>]
      /\ \A lo \in 0..n, hi \in 0..n :
            f[<<lo, hi>>] = IF lo >= hi THEN 0 ELSE IF c(Mid(lo, hi) + 1) = 0 THEN Mid(lo, hi) + 1
                            ELSE IF c(Mid(lo, hi) + 1) < 0 THEN f[<<lo, Mid(lo, hi)>>]
                            ELSE f[<<Mid(lo, hi) + 1, hi>>]
  BY DEF Searches
<1> HIDE DEF word, entry, c
\* what the comparison with one entry says of the others
<1>6. ASSUME NEW m \in 1..n, NEW i \in 1..n, Stands(i)
      PROVE  (c(m) < 0 => i < m) /\ (c(m) > 0 => m < i)
  <2>1. CASE i = m
    <3>1. ~Clocks!Ascending(word, word)
      BY <1>2, OneBeforeOther
    <3> QED BY <1>3, <1>6, <2>1, <3>1
  <2>2. CASE i < m
    <3>1. Clocks!Ascending(word, entry(m))
      BY <1>4, <1>6, <2>2
    <3>2. ~Clocks!Ascending(entry(m), word)
      BY <1>2, <3>1, OneBeforeOther
    <3> QED BY <1>3, <2>2, <3>2
  <2>3. CASE m < i
    <3>1. Clocks!Ascending(entry(m), word)
      BY <1>4, <1>6, <2>3
    <3>2. ~Clocks!Ascending(word, entry(m))
      BY <1>2, <3>1, OneBeforeOther
    <3> QED BY <1>3, <2>3, <3>2
  <2> QED BY <1>1, <2>1, <2>2, <2>3
<1> DEFINE Wrong == {d \in Nat : \E lo \in 0..n, hi \in 0..n :
                        /\ d = IF lo >= hi THEN 0 ELSE hi - lo
                        /\ Among(lo, hi) /\ ~Right(f[<<lo, hi>>])}
<1>7. ASSUME NEW d \in Wrong, \A e \in Wrong : d <= e PROVE FALSE
  <2>1. PICK lo \in 0..n, hi \in 0..n : /\ d = IF lo >= hi THEN 0 ELSE hi - lo
                                        /\ Among(lo, hi) /\ ~Right(f[<<lo, hi>>])
    BY <1>7
  <2> DEFINE mid == Mid(lo, hi)
             m == mid + 1
  <2>2. CASE lo >= hi
    <3>1. f[<<lo, hi>>] = 0
      BY <1>5, <2>2
    <3>2. ~\E i \in 1..n : Stands(i)
      <4> SUFFICES ASSUME NEW i \in 1..n, Stands(i) PROVE FALSE
        OBVIOUS
      <4>1. lo < i /\ i <= hi
        BY <2>1
      <4> HIDE DEF Stands
      <4> QED BY <1>1, <2>2, <4>1
    <3> HIDE DEF Stands
    <3> QED BY <2>1, <3>1, <3>2
  <2>3. CASE lo < hi
    <3>1. mid \in Nat /\ lo <= mid /\ mid < hi
      BY <2>3, MidBetween
    <3>2. ~(lo >= hi) /\ d = hi - lo /\ hi - lo \in Nat
      BY <2>1, <2>3
    <3>3. f[<<lo, hi>>] = IF c(m) = 0 THEN m ELSE IF c(m) < 0 THEN f[<<lo, mid>>] ELSE f[<<m, hi>>]
      <4> HIDE DEF c
      <4> QED BY <1>5, <3>2, Zenon
    <3> HIDE DEF mid
    <3>4. m \in 1..n /\ mid \in 0..n /\ m \in 0..n
      BY <3>1
    <3>5. c(m) \in Int
      BY <1>3, <3>4
    <3>6. CASE c(m) = 0
      <4>1. Stands(m) /\ f[<<lo, hi>>] = m
        BY <1>3, <3>3, <3>4, <3>6
      <4> HIDE DEF Stands, m
      <4> QED BY <2>1, <3>4, <4>1
    <3>7. CASE c(m) < 0
      <4>1. f[<<lo, hi>>] = f[<<lo, mid>>]
        BY <3>3, <3>5, <3>7
      <4>2. Among(lo, mid)
        <5> SUFFICES ASSUME NEW i \in 1..n, Stands(i) PROVE lo < i /\ i <= mid
          OBVIOUS
        <5>1. i < m
          BY <1>6, <3>4, <3>7
        <5> QED BY <2>1, <3>1, <5>1
      <4> DEFINE e == IF lo >= mid THEN 0 ELSE mid - lo
      <4>3. e \in Nat /\ e < d
        BY <3>1, <3>2
      <4> HIDE DEF Right, Among
      <4>4. e \in Wrong
        BY <2>1, <3>4, <4>1, <4>2, <4>3
      <4> HIDE DEF e, Wrong
      <4>5. d <= e
        BY <1>7, <4>4
      <4> QED BY <3>2, <4>3, <4>5
    <3>8. CASE c(m) > 0
      <4>1. f[<<lo, hi>>] = f[<<m, hi>>]
        BY <3>3, <3>5, <3>8
      <4>2. Among(m, hi)
        <5> SUFFICES ASSUME NEW i \in 1..n, Stands(i) PROVE m < i /\ i <= hi
          OBVIOUS
        <5>1. m < i
          BY <1>6, <3>4, <3>8
        <5> QED BY <2>1, <5>1
      <4> DEFINE e == IF m >= hi THEN 0 ELSE hi - m
      <4>3. e \in Nat /\ e < d
        BY <3>1, <3>2
      <4> HIDE DEF Right, Among, m
      <4>4. e \in Wrong
        BY <2>1, <3>4, <4>1, <4>2, <4>3
      <4> HIDE DEF e, Wrong
      <4>5. d <= e
        BY <1>7, <4>4
      <4> QED BY <3>2, <4>3, <4>5
    <3> QED BY <3>5, <3>6, <3>7, <3>8
  <2> QED BY <2>2, <2>3
<1>8. Right(f[<<0, n>>])
  <2> SUFFICES ASSUME ~Right(f[<<0, n>>]) PROVE FALSE
    OBVIOUS
  <2> DEFINE d == IF 0 >= n THEN 0 ELSE n - 0
  <2>1. Among(0, n)
    <3> HIDE DEF Stands
    <3> QED BY <1>1
  <2>2. d \in Nat /\ 0 \in 0..n /\ n \in 0..n
    BY <1>1
  <2> HIDE DEF Right, Among, n
  <2>3. d \in Wrong
    BY <2>1, <2>2, Zenon
  <2> HIDE DEF d
  <2>4. \E m \in Wrong : \A e \in Wrong : m <= e
    <3>1. Wrong \in SUBSET Nat /\ Wrong # {}
      BY <2>3
    <3> QED BY <3>1, LeastNat, Zenon
  <2> QED BY <1>7, <2>4, Zenon
<1>9. 0 \notin 1..n
  BY <1>1
<1>10. Right(Clocks!TzSearch(tzs, name))
  BY <1>5, <1>8, Zenon
<1>11. (\E i \in DOMAIN tzs : entry(i) = word) <=> \E i \in 1..n : Stands(i)
  BY <1>1
<1> QED BY <1>9, <1>10, <1>11 DEF Clocks!SearchFinds, word, entry

-----------------------------------------------------------------------------
(* esp-mqtt-glue.c: which filters match a topic                            *)

\* Levels that are sequences of C, one or more.
ListsOf(C) == {l \in Seq(Seq(C)) : Len(l) >= 1}

\* A list of levels with an empty level, or a character, put in front of it.
SplitBefore(l, k) == /\ Len(k) = Len(l) + 1 /\ k[1] = <<>>
                     /\ \A i \in 1..Len(l) : k[i + 1] = l[i]
Lengthened(l, k, c) == /\ Len(k) = Len(l) /\ k[1] = <<c>> \o l[1]
                       /\ \A i \in 2..Len(l) : k[i] = l[i]

\* Lists of levels stay such lists.
LEMMA InFront ==
  ASSUME NEW C, NEW c \in C, NEW l \in ListsOf(C)
  PROVE  /\ << <<>> >> \o l \in ListsOf(C) /\ SplitBefore(l, << <<>> >> \o l)
         /\ [l EXCEPT ![1] = <<c>> \o @] \in ListsOf(C)
         /\ Lengthened(l, [l EXCEPT ![1] = <<c>> \o @], c)
<1> DEFINE L == Seq(C)
           e == << <<>> >>
           k == <<c>> \o l[1]
<1>1. l \in Seq(L) /\ Len(l) \in Nat /\ Len(l) >= 1 /\ l[1] \in L
  BY DEF ListsOf
<1>2. <<>> \in L /\ <<c>> \in L
  OBVIOUS
<1>3. k \in L
  BY <1>1, <1>2, ConcatProperties, Zenon
<1> HIDE DEF L
<1>4. e \in Seq(L) /\ Len(e) = 1 /\ e[1] = <<>>
  BY <1>2
<1> HIDE DEF e
<1>5. /\ e \o l \in Seq(L) /\ Len(e \o l) = 1 + Len(l)
      /\ \A i \in 1..(1 + Len(l)) : (e \o l)[i] = IF i <= 1 THEN e[i] ELSE l[i - 1]
  <2>1. /\ e \o l \in Seq(L) /\ Len(e \o l) = Len(e) + Len(l)
        /\ \A i \in 1..(Len(e) + Len(l)) : (e \o l)[i] = IF i <= Len(e) THEN e[i] ELSE l[i - Len(e)]
    BY <1>1, <1>4, ConcatProperties, Zenon
  <2>2. Len(e) = 1
    BY <1>4
  <2> QED BY <2>1, <2>2, Zenon
<1>6. e \o l \in ListsOf(C) /\ SplitBefore(l, e \o l)
  BY <1>1, <1>4, <1>5 DEF ListsOf, SplitBefore, L
<1> HIDE DEF k
<1>7. [l EXCEPT ![1] = k] \in Seq(L) /\ Lengthened(l, [l EXCEPT ![1] = k], c)
  BY <1>1, <1>3 DEF Lengthened, k
<1>8. [l EXCEPT ![1] = k] \in ListsOf(C)
  BY <1>1, <1>7 DEF ListsOf, Lengthened, L
<1> QED BY <1>6, <1>7, <1>8 DEF e, k

\* The levels of a text, of what begins at each of its places.
IsSplit(from, name, C) ==
    /\ from \in [1..(Len(name) + 1) -> ListsOf(C)]
    /\ from[Len(name) + 1] = << <<>> >>
    /\ \A i \in 1..Len(name) : IF name[i] = Filters!Slash THEN SplitBefore(from[i + 1], from[i])
                               ELSE Lengthened(from[i + 1], from[i], name[i])

\* The levels of a text are those of what begins at its first place.
LEMMA LevelsSplit ==
  ASSUME NEW C, NEW name \in Seq(C)
  PROVE  \E from : IsSplit(from, name, C) /\ Filters!Levels(name) = from[1]
<1> DEFINE n == Len(name)
           D == 1..(n + 1)
           V == ListsOf(C)
           Stop == {n + 1}
           none == << <<>> >>
           val == [i \in D |-> none]
           add(i) == [l \in V |-> IF name[i] = Filters!Slash THEN none \o l ELSE [l EXCEPT ![1] = <<name[i]>> \o @]]
           step == [i \in D |-> add(i)]
           next == [i \in D |-> i + 1]
           rest == [i \in D |-> n + 1 - i]
           Body(f, i) == CASE i > n -> none
                           [] i <= n /\ name[i] = Filters!Slash -> none \o f[i + 1]
                           [] OTHER -> [f[i + 1] EXCEPT ![1] = <<name[i]>> \o @]
           Slice(f) == f = [i \in D |-> Body(f, i)]
           from == CHOOSE f : Slice(f)
<1>1. n \in Nat /\ n + 1 \in D /\ \A i \in 1..n : name[i] \in C
  OBVIOUS
<1>2. none \in V
  BY DEF ListsOf
<1> HIDE DEF none
<1>3. CountsDown(D, Stop, next, rest, n)
  BY <1>1 DEF CountsDown
<1>4. \A i \in D : IF i \in Stop THEN val[i] \in V ELSE step[i] \in [V -> V]
  <2> SUFFICES ASSUME NEW i \in D PROVE IF i \in Stop THEN val[i] \in V ELSE step[i] \in [V -> V]
    OBVIOUS
  <2>1. CASE i \in Stop
    BY <1>2, <2>1
  <2>2. CASE i \notin Stop
    <3>1. i \in 1..n /\ name[i] \in C
      BY <1>1, <2>2
    <3>2. \A l \in V : (IF name[i] = Filters!Slash THEN none \o l ELSE [l EXCEPT ![1] = <<name[i]>> \o @]) \in V
      <4> SUFFICES ASSUME NEW l \in V
                   PROVE  (IF name[i] = Filters!Slash THEN none \o l ELSE [l EXCEPT ![1] = <<name[i]>> \o @]) \in V
        OBVIOUS
      <4>1. none \o l \in V /\ [l EXCEPT ![1] = <<name[i]>> \o @] \in V
        BY <3>1, InFront, Zenon DEF none
      <4> QED BY <4>1, Zenon
    <3> HIDE DEF V
    <3>3. add(i) \in [V -> V]
      BY <3>2, Zenon
    <3> QED BY <2>2, <3>3
  <2> QED BY <2>1, <2>2
<1> HIDE DEF V
<1>5. ASSUME NEW f, f \in [D -> V] PROVE \A i \in D : Body(f, i) = IF i \in Stop THEN val[i] ELSE step[i][f[next[i]]]
  <2> SUFFICES ASSUME NEW i \in D
               PROVE  Body(f, i) = IF i \in Stop THEN val[i] ELSE step[i][f[next[i]]]
    OBVIOUS
  <2>1. CASE i \in Stop
    BY <1>1, <2>1
  <2>2. CASE i \notin Stop
    <3>1. i \in 1..n /\ i + 1 \in D /\ ~(i > n) /\ i <= n
      BY <1>1, <2>2
    <3>2. f[i + 1] \in V /\ next[i] = i + 1
      BY <1>5, <3>1
    <3>3. step[i][f[i + 1]] = IF name[i] = Filters!Slash THEN none \o f[i + 1] ELSE [f[i + 1] EXCEPT ![1] = <<name[i]>> \o @]
      BY <3>2, Zenon
    <3>4. CASE name[i] = Filters!Slash
      BY <2>2, <3>1, <3>2, <3>3, <3>4, Zenon
    <3>5. CASE name[i] # Filters!Slash
      BY <2>2, <3>1, <3>2, <3>3, <3>5, Zenon
    <3> QED BY <3>4, <3>5
  <2> QED BY <2>1, <2>2
<1>6. \E f : Slice(f)
  <2>1. PICK f \in [D -> V] : Recurs(f, D, Stop, val, step, next)
    <3> HIDE DEF D, Stop, val, step, next, rest
    <3> QED BY <1>1, <1>3, <1>4, RecursionEnds, Zenon
  <2>3. Slice(f)
    <3> HIDE DEF D, Stop, val, step, next, Body
    <3> QED BY <1>5, <2>1 DEF Recurs
  <2> QED BY <2>3
<1>7. Slice(from)
  BY <1>6, Zenon
<1>8. Filters!Levels(name) = from[1]
  BY Zenon DEF Filters!Levels, none
<1> HIDE DEF from
<1>9. \A i \in D : from[i] = Body(from, i)
  <2> HIDE DEF Body, D
  <2> QED BY <1>7
<1>10. from[n + 1] = none
  <2>1. n + 1 > n /\ ~(n + 1 <= n)
    BY <1>1
  <2>2. Body(from, n + 1) = none
    BY <2>1, Zenon
  <2> QED BY <1>1, <1>9, <2>2, Zenon
<1>11. \A i \in 1..n : from[i] = IF name[i] = Filters!Slash THEN none \o from[i + 1]
                                  ELSE [from[i + 1] EXCEPT ![1] = <<name[i]>> \o @]
  <2> SUFFICES ASSUME NEW i \in 1..n
               PROVE  from[i] = IF name[i] = Filters!Slash THEN none \o from[i + 1]
                                ELSE [from[i + 1] EXCEPT ![1] = <<name[i]>> \o @]
    OBVIOUS
  <2>1. i \in D /\ ~(i > n) /\ i <= n
    BY <1>1
  <2>2. from[i] = Body(from, i)
    BY <1>9, <2>1
  <2>3. CASE name[i] = Filters!Slash
    BY <2>1, <2>2, <2>3, Zenon
  <2>4. CASE name[i] # Filters!Slash
    BY <2>1, <2>2, <2>4, Zenon
  <2> QED BY <2>3, <2>4
<1>12. ASSUME NEW i \in 1..n, from[i + 1] \in V
       PROVE  /\ from[i] \in V
              /\ IF name[i] = Filters!Slash THEN SplitBefore(from[i + 1], from[i])
                 ELSE Lengthened(from[i + 1], from[i], name[i])
  <2>1. name[i] \in C /\ from[i + 1] \in ListsOf(C)
    BY <1>1, <1>12 DEF V
  <2>2. CASE name[i] = Filters!Slash
    <3>1. from[i] = << <<>> >> \o from[i + 1]
      BY <1>11, <2>2 DEF none
    <3> QED BY <2>1, <2>2, <3>1, InFront, Zenon DEF V
  <2>3. CASE name[i] # Filters!Slash
    <3>1. from[i] = [from[i + 1] EXCEPT ![1] = <<name[i]>> \o @]
      BY <1>11, <2>3
    <3>2. /\ [from[i + 1] EXCEPT ![1] = <<name[i]>> \o @] \in ListsOf(C)
          /\ Lengthened(from[i + 1], [from[i + 1] EXCEPT ![1] = <<name[i]>> \o @], name[i])
      BY <2>1, InFront, Zenon
    <3> QED BY <2>3, <3>1, <3>2, Zenon DEF V
  <2> QED BY <2>2, <2>3
<1>13. \A i \in D : from[i] \in V
  <2> DEFINE S == {i \in D : from[i] \in V}
  <2>1. n + 1 \in S
    BY <1>1, <1>2, <1>10
  <2>2. \A i \in 1..n : i + 1 \in S => i \in S
    BY <1>1, <1>12
  <2>3. \A i \in 1..(n + 1) : i \in S
    <3> HIDE DEF S
    <3> QED BY <1>1, <2>1, <2>2, Downwards
  <2> QED BY <2>3
<1>14. \A i \in 1..n : i + 1 \in D
  BY <1>1
<1>15. from = [i \in D |-> from[i]]
  <2> HIDE DEF Body, D
  <2> QED BY <1>7
<1>16. from \in [D -> V]
  BY <1>13, <1>15, Zenon
<1>17. \A i \in 1..n : IF name[i] = Filters!Slash THEN SplitBefore(from[i + 1], from[i])
                        ELSE Lengthened(from[i + 1], from[i], name[i])
  BY <1>12, <1>13, <1>14
<1>18. IsSplit(from, name, C)
  BY <1>10, <1>16, <1>17, Zenon DEF IsSplit, none, V
<1> QED BY <1>8, <1>18

\* A character in front of a level makes a level that begins with it, and that
\* says what the level was.
LEMMA CharFirst ==
  ASSUME NEW C, NEW c \in C, NEW r \in Seq(C)
  PROVE  /\ <<c>> \o r # <<>> /\ \A d : <<c>> \o r = <<d>> => c = d
         /\ \A d \in C, s \in Seq(C) : <<c>> \o r = <<d>> \o s => c = d /\ r = s
<1>1. \A d \in C, s \in Seq(C) : /\ Len(<<d>> \o s) = 1 + Len(s) /\ (<<d>> \o s)[1] = d
                                 /\ \A i \in 1..Len(s) : (<<d>> \o s)[i + 1] = s[i]
  <2> SUFFICES ASSUME NEW d \in C, NEW s \in Seq(C)
               PROVE  /\ Len(<<d>> \o s) = 1 + Len(s) /\ (<<d>> \o s)[1] = d
                      /\ \A i \in 1..Len(s) : (<<d>> \o s)[i + 1] = s[i]
    OBVIOUS
  <2> QED OBVIOUS
<1> DEFINE a == <<c>> \o r
<1>2. Len(a) = 1 + Len(r) /\ a[1] = c /\ Len(r) \in Nat
  BY <1>1
<1>3. ASSUME NEW d \in C, NEW s \in Seq(C), a = <<d>> \o s PROVE c = d /\ r = s
  <2>1. /\ Len(a) = 1 + Len(s) /\ a[1] = d /\ \A i \in 1..Len(s) : a[i + 1] = s[i]
    <3> DEFINE b == <<d>> \o s
    <3>1. /\ Len(b) = 1 + Len(s) /\ b[1] = d /\ \A i \in 1..Len(s) : b[i + 1] = s[i]
      BY <1>1, Zenon
    <3>2. a = b
      BY <1>3
    <3> HIDE DEF a, b
    <3> QED BY <3>1, <3>2
  <2>2. \A i \in 1..Len(r) : a[i + 1] = r[i]
    BY <1>1, Zenon
  <2> HIDE DEF a
  <2>3. Len(r) = Len(s) /\ Len(s) \in Nat
    BY <1>2, <2>1
  <2>4. \A i \in 1..Len(r) : r[i] = s[i]
    BY <2>1, <2>2, <2>3
  <2>5. r = s
    BY <2>3, <2>4, SeqEqual, Zenon
  <2> QED BY <1>2, <2>1, <2>5
<1>4. ASSUME NEW d, a = <<d>> PROVE c = d
  <2>1. <<d>>[1] = d
    OBVIOUS
  <2> HIDE DEF a
  <2> QED BY <1>2, <1>4, <2>1
<1>5. a # <<>>
  BY <1>2
<1> QED BY <1>3, <1>4, <1>5, Zenon

\* The level that begins at a place of a text.
Begins(from, name, C, i) ==
    /\ from[i + 1] \in ListsOf(C) /\ from[i] \in ListsOf(C)
    /\ name[i] = Filters!Slash => from[i][1] = <<>> /\ Len(from[i]) >= 2
    /\ name[i] # Filters!Slash => /\ from[i][1] = <<name[i]>> \o from[i + 1][1]
                          /\ from[i + 1][1] \in Seq(C)
                          /\ from[i][1] # <<>> /\ \A d : from[i][1] = <<d>> => name[i] = d

\* A / begins an empty level that is not the last, another character a level
\* that begins with it.
LEMMA FirstLevel ==
  ASSUME NEW C, NEW name \in Seq(C), NEW from, IsSplit(from, name, C), NEW i \in 1..Len(name)
  PROVE  Begins(from, name, C, i)
<1>1. name[i] \in C /\ i + 1 \in 1..(Len(name) + 1) /\ i \in 1..(Len(name) + 1)
  OBVIOUS
<1>2. from[i + 1] \in ListsOf(C) /\ from[i] \in ListsOf(C)
  BY <1>1 DEF IsSplit
<1>3. from[i + 1][1] \in Seq(C) /\ Len(from[i + 1]) \in Nat /\ Len(from[i + 1]) >= 1
  <2>1. from[i + 1] \in Seq(Seq(C)) /\ Len(from[i + 1]) >= 1
    BY <1>2 DEF ListsOf
  <2> DEFINE L == Seq(C)
  <2> HIDE DEF L
  <2> QED BY <2>1 DEF L
<1>4. ASSUME name[i] = Filters!Slash PROVE from[i][1] = <<>> /\ Len(from[i]) >= 2
  <2>1. SplitBefore(from[i + 1], from[i])
    BY <1>4 DEF IsSplit
  <2> QED BY <1>3, <2>1 DEF SplitBefore
<1>5. ASSUME name[i] # Filters!Slash
      PROVE  /\ from[i][1] = <<name[i]>> \o from[i + 1][1]
             /\ from[i][1] # <<>> /\ \A d : from[i][1] = <<d>> => name[i] = d
  <2>1. from[i][1] = <<name[i]>> \o from[i + 1][1]
    BY <1>5 DEF IsSplit, Lengthened
  <2> DEFINE a == <<name[i]>> \o from[i + 1][1]
  <2>2. a # <<>> /\ \A d : a = <<d>> => name[i] = d
    <3> DEFINE c == name[i]
               r == from[i + 1][1]
    <3>1. c \in C /\ r \in Seq(C)
      BY <1>1, <1>3
    <3> HIDE DEF c, r
    <3>2. <<c>> \o r # <<>> /\ \A d : <<c>> \o r = <<d>> => c = d
      BY <3>1, CharFirst, Zenon
    <3> QED BY <3>2, Zenon DEF c, r
  <2>3. from[i][1] = a
    BY <2>1
  <2> HIDE DEF a
  <2>4. from[i][1] # <<>> /\ \A d : from[i][1] = <<d>> => name[i] = d
    BY <2>2, <2>3, Zenon
  <2> QED BY <2>1, <2>4
<1> QED BY <1>2, <1>3, <1>4, <1>5, Zenon DEF Begins

\* Levels match level by level, save a + against an empty last level.
Agree(x, y) == /\ Len(x) = Len(y)
               /\ \A i \in 1..Len(x) : \/ x[i] = y[i]
                                       \/ x[i] = <<Filters!Plus>> /\ ~(i = Len(x) /\ y[i] = <<>>)

\* An empty level before both changes nothing.
LEMMA AgreeSplit ==
  ASSUME NEW C, NEW x \in ListsOf(C), NEW y \in ListsOf(C), NEW k, NEW l,
         SplitBefore(x, k), SplitBefore(y, l)
  PROVE  Agree(k, l) <=> Agree(x, y)
<1>1. Len(x) \in Nat /\ Len(y) \in Nat /\ Len(x) >= 1
  BY DEF ListsOf
<1>2. ASSUME Agree(x, y) PROVE Agree(k, l)
  <2>1. Len(k) = Len(l)
    BY <1>2 DEF Agree, SplitBefore
  <2>2. ASSUME NEW i \in 1..Len(k) PROVE k[i] = l[i] \/ (k[i] = <<Filters!Plus>> /\ ~(i = Len(k) /\ l[i] = <<>>))
    <3>1. CASE i = 1
      BY <3>1 DEF SplitBefore
    <3>2. CASE i # 1
      <4>1. i - 1 \in 1..Len(x) /\ (i - 1) + 1 = i /\ (i = Len(k) <=> i - 1 = Len(x)) /\ Len(x) = Len(y)
        BY <1>1, <1>2, <3>2 DEF Agree, SplitBefore
      <4>2. k[i] = x[i - 1] /\ l[i] = y[i - 1]
        BY <4>1 DEF SplitBefore
      <4> QED BY <1>2, <4>1, <4>2 DEF Agree
    <3> QED BY <3>1, <3>2
  <2> QED BY <2>1, <2>2 DEF Agree
<1>3. ASSUME Agree(k, l) PROVE Agree(x, y)
  <2>1. Len(x) = Len(y)
    BY <1>1, <1>3 DEF Agree, SplitBefore
  <2>2. ASSUME NEW i \in 1..Len(x) PROVE x[i] = y[i] \/ (x[i] = <<Filters!Plus>> /\ ~(i = Len(x) /\ y[i] = <<>>))
    <3>1. i + 1 \in 1..Len(k) /\ (i + 1 = Len(k) <=> i = Len(x))
      BY <1>1 DEF SplitBefore
    <3>2. k[i + 1] = x[i] /\ l[i + 1] = y[i]
      BY <2>1 DEF SplitBefore
    <3> QED BY <1>3, <3>1, <3>2 DEF Agree
  <2> QED BY <2>1, <2>2 DEF Agree
<1> QED BY <1>2, <1>3

\* Neither does the same character, unless it makes or breaks a +.
LEMMA AgreeLengthened ==
  ASSUME NEW C, NEW x \in ListsOf(C), NEW y \in ListsOf(C), NEW k, NEW l, NEW c \in C,
         Lengthened(x, k, c), Lengthened(y, l, c), c # Filters!Plus, x[1] # <<Filters!Plus>>
  PROVE  Agree(k, l) <=> Agree(x, y)
<1>1. Len(x) \in Nat /\ Len(y) \in Nat /\ Len(x) >= 1 /\ x[1] \in Seq(C) /\ Len(y) >= 1 /\ y[1] \in Seq(C)
  <2>1. x \in Seq(Seq(C)) /\ Len(x) >= 1 /\ y \in Seq(Seq(C)) /\ Len(y) >= 1
    BY DEF ListsOf
  <2> DEFINE L == Seq(C)
  <2> HIDE DEF L
  <2> QED BY <2>1 DEF L
<1>2. k[1] = <<c>> \o x[1] /\ l[1] = <<c>> \o y[1] /\ Len(k) = Len(x) /\ Len(l) = Len(y)
  BY DEF Lengthened
<1>3. k[1] # <<Filters!Plus>> /\ (k[1] = l[1] <=> x[1] = y[1])
  <2> DEFINE a == <<c>> \o x[1]
             b == <<c>> \o y[1]
  <2>1. a # <<Filters!Plus>>
    BY <1>1, CharFirst, Zenon
  <2>2. a = b => x[1] = y[1]
    BY <1>1, CharFirst, Zenon
  <2>3. x[1] = y[1] => a = b
    OBVIOUS
  <2>4. k[1] = a /\ l[1] = b
    BY <1>2
  <2> HIDE DEF a, b
  <2> QED BY <2>1, <2>2, <2>3, <2>4, Zenon
<1>4. \A i \in 2..Len(x) : k[i] = x[i]
  BY DEF Lengthened
<1>5. \A i \in 2..Len(y) : l[i] = y[i]
  BY DEF Lengthened
<1>6. ASSUME Len(x) = Len(y), NEW i \in 1..Len(x)
      PROVE  /\ k[i] = l[i] <=> x[i] = y[i]
             /\ k[i] = <<Filters!Plus>> /\ ~(i = Len(k) /\ l[i] = <<>>) <=> x[i] = <<Filters!Plus>> /\ ~(i = Len(x) /\ y[i] = <<>>)
  <2>1. CASE i = 1
    BY <1>3, <2>1, Zenon
  <2>2. CASE i # 1
    <3>1. i \in 2..Len(x) /\ i \in 2..Len(y)
      BY <1>1, <1>6, <2>2
    <3> QED BY <1>2, <1>4, <1>5, <3>1, Zenon
  <2> QED BY <2>1, <2>2
<1> QED BY <1>2, <1>6, Zenon DEF Agree

\* Levels that begin differently match only if a + is the first.
LEMMA AgreeNot ==
  ASSUME NEW C, NEW k \in ListsOf(C), NEW l, k[1] # l[1],
         k[1] # <<Filters!Plus>> \/ (Len(l) = 1 /\ l[1] = <<>>)
  PROVE  ~Agree(k, l)
<1>1. 1 \in 1..Len(k)
  BY DEF ListsOf
<1> QED BY <1>1 DEF Agree

\* A + that is a level matches a level, but for an empty last one.
LEMMA AgreePlus ==
  ASSUME NEW C, NEW x \in ListsOf(C), NEW y \in ListsOf(C), NEW z, NEW k,
         Lengthened(x, k, Filters!Plus), x[1] = <<>>, z[1] = <<>>,
         Len(z) = Len(y), \A i \in 2..Len(y) : z[i] = y[i], y[1] = <<>> => Len(y) >= 2
  PROVE  Agree(k, y) <=> Agree(x, z)
<1>1. Len(x) \in Nat /\ Len(y) \in Nat /\ Len(x) >= 1 /\ Len(y) >= 1
  BY DEF ListsOf
<1>2. k[1] = <<Filters!Plus>> /\ Len(k) = Len(x) /\ \A i \in 2..Len(x) : k[i] = x[i]
  <2>1. <<Filters!Plus>> \o <<>> = <<Filters!Plus>>
    OBVIOUS
  <2> QED BY <2>1 DEF Lengthened
<1>3. ASSUME Len(x) = Len(y), NEW i \in 1..Len(x)
      PROVE  \/ i = 1
             \/ k[i] = x[i] /\ z[i] = y[i]
  BY <1>1, <1>2, <1>3
<1>4. ~(1 = Len(k) /\ y[1] = <<>>) \/ Len(k) # Len(y)
  BY <1>1
<1>5. ASSUME Agree(k, y) PROVE Agree(x, z)
  <2>1. Len(x) = Len(y) /\ Len(x) = Len(z)
    BY <1>2, <1>5, Zenon DEF Agree
  <2>2. ASSUME NEW i \in 1..Len(x) PROVE x[i] = z[i] \/ (x[i] = <<Filters!Plus>> /\ ~(i = Len(x) /\ z[i] = <<>>))
    BY <1>2, <1>3, <1>5, <2>1, Zenon DEF Agree
  <2> QED BY <2>1, <2>2, Zenon DEF Agree
<1>6. ASSUME Agree(x, z) PROVE Agree(k, y)
  <2>1. Len(k) = Len(y) /\ Len(x) = Len(y)
    BY <1>2, <1>6, Zenon DEF Agree
  <2>2. ASSUME NEW i \in 1..Len(k) PROVE k[i] = y[i] \/ (k[i] = <<Filters!Plus>> /\ ~(i = Len(k) /\ y[i] = <<>>))
    BY <1>2, <1>3, <1>4, <1>6, <2>1, Zenon DEF Agree
  <2> QED BY <2>1, <2>2, Zenon DEF Agree
<1> QED BY <1>5, <1>6

\* The end of a level is the next / or the end of the topic.
LEMMA LevelEndIs ==
  ASSUME NEW C, NEW topic \in Seq(C), NEW t \in 1..(Len(topic) + 1)
  PROVE  /\ Filters!LevelEnd(topic, t) \in t..(Len(topic) + 1)
         /\ Filters!LevelEnd(topic, t) > Len(topic) \/ topic[Filters!LevelEnd(topic, t)] = Filters!Slash
         /\ \A i \in t..(Filters!LevelEnd(topic, t) - 1) : topic[i] # Filters!Slash
<1> DEFINE n == Len(topic)
           Ends(e) == e > n \/ topic[e] = Filters!Slash
           Here == {e \in Nat : e >= t /\ e <= n + 1 /\ Ends(e)}
           IsEnd(e) == Ends(e) /\ \A i \in t..(e - 1) : topic[i] # Filters!Slash
<1>1. n \in Nat /\ t \in Nat /\ n + 1 \in Here
  OBVIOUS
<1>2. PICK e \in Here : \A i \in Here : e <= i
  <2> HIDE DEF Here
  <2>1. Here \in SUBSET Nat
    BY DEF Here
  <2> QED BY <1>1, <2>1, LeastNat
<1>3. e \in t..(n + 1) /\ IsEnd(e)
  <2>1. e \in Nat /\ e >= t /\ e <= n + 1 /\ Ends(e)
    OBVIOUS
  <2>2. ASSUME NEW i \in t..(e - 1) PROVE topic[i] # Filters!Slash
    <3>1. i \in Nat /\ i >= t /\ i <= n + 1 /\ ~(e <= i)
      BY <1>1, <2>1
    <3>2. i \notin Here
      <4> HIDE DEF Here
      <4> QED BY <1>2, <3>1
    <3> QED BY <3>1, <3>2
  <2> QED BY <1>1, <2>1, <2>2
<1>4. Filters!LevelEnd(topic, t) = CHOOSE i \in t..(n + 1) : IsEnd(i)
  BY Zenon DEF Filters!LevelEnd
<1> HIDE DEF IsEnd
<1>5. Filters!LevelEnd(topic, t) \in t..(n + 1) /\ IsEnd(Filters!LevelEnd(topic, t))
  BY <1>3, <1>4, Zenon
<1> QED BY <1>5 DEF IsEnd

\* At the end e of the level of t an empty level begins, and the same levels
\* follow it.
GoesOn(from, name, t, e) ==
    /\ e \in 1..(Len(name) + 1) /\ from[e][1] = <<>> /\ Len(from[e]) = Len(from[t])
    /\ \A i \in 2..Len(from[t]) : from[e][i] = from[t][i]

\* What follows the end of a level does not depend on where in it one begins.
LEMMA SameAfter ==
  ASSUME NEW C, NEW name \in Seq(C), NEW from, IsSplit(from, name, C), NEW t \in 1..(Len(name) + 1)
  PROVE  GoesOn(from, name, t, Filters!LevelEnd(name, t))
<1> DEFINE e == Filters!LevelEnd(name, t)
           Same(j) == /\ Len(from[e]) = Len(from[j])
                      /\ \A i \in 2..Len(from[j]) : from[e][i] = from[j][i]
           S == {j \in 1..e : j >= t => Same(j)}
<1>1. /\ e \in t..(Len(name) + 1) /\ (e > Len(name) \/ name[e] = Filters!Slash)
      /\ \A i \in t..(e - 1) : name[i] # Filters!Slash
  BY LevelEndIs
<1>2. Len(name) \in Nat /\ t \in Nat /\ t >= 1
  OBVIOUS
<1> HIDE DEF e
<1>3. from[e][1] = <<>>
  <2>1. CASE e > Len(name)
    <3>1. e = Len(name) + 1
      BY <1>1, <1>2, <2>1
    <3>2. from[e] = << <<>> >>
      BY <3>1 DEF IsSplit
    <3> QED BY <3>2
  <2>2. CASE ~(e > Len(name))
    <3>1. e \in 1..Len(name) /\ name[e] = Filters!Slash
      BY <1>1, <1>2, <2>2
    <3>2. name[e] = Filters!Slash => from[e][1] = <<>> /\ Len(from[e]) >= 2
      BY <3>1, FirstLevel, Zenon DEF Begins
    <3> QED BY <3>1, <3>2
  <2> QED BY <2>1, <2>2
<1>4. e \in S
  BY <1>1, <1>2
<1>5. ASSUME NEW j \in 1..(e - 1), j + 1 \in S PROVE j \in S
  <2>1. j \in 1..e
    BY <1>1, <1>2
  <2>2. ASSUME j >= t PROVE Same(j)
    <3>1. j \in t..(e - 1) /\ j \in 1..Len(name) /\ j + 1 >= t
      BY <1>1, <1>2, <2>2
    <3>2. Lengthened(from[j + 1], from[j], name[j])
      BY <1>1, <3>1 DEF IsSplit
    <3>3. Same(j + 1)
      BY <1>5, <3>1
    <3>4. Len(from[j]) = Len(from[j + 1]) /\ \A i \in 2..Len(from[j + 1]) : from[j][i] = from[j + 1][i]
      BY <3>2 DEF Lengthened
    <3> QED BY <3>3, <3>4
  <2> QED BY <2>1, <2>2
<1> HIDE DEF S
<1>6. t \in S
  <2> DEFINE n == e - 1
  <2>1. n \in Nat /\ n + 1 = e /\ t \in 1..(n + 1)
    BY <1>1, <1>2
  <2>2. \A j \in 1..n : j + 1 \in S => j \in S
    BY <1>5
  <2> HIDE DEF n
  <2> QED BY <1>4, <2>1, <2>2, Downwards
<1>7. Same(t) /\ e \in 1..(Len(name) + 1)
  <2>1. t >= t
    BY <1>2
  <2> QED BY <1>1, <1>2, <1>6, <2>1 DEF S
<1> QED BY <1>3, <1>7 DEF e, GoesOn

\* What mqtt_topic_matches finds from places of the filter and the topic.
MatchesFrom(match, filter, topic) ==
    \A f \in 1..(Len(filter) + 1), t \in 1..(Len(topic) + 1) :
       /\ f > Len(filter) \/ t > Len(topic) => (match[<<f, t>>] <=> f > Len(filter) /\ t > Len(topic))
       /\ f <= Len(filter) /\ t <= Len(topic) /\ filter[f] = Filters!Plus =>
             (match[<<f, t>>] <=> match[<<f + 1, Filters!LevelEnd(topic, t)>>])
       /\ f <= Len(filter) /\ t <= Len(topic) /\ filter[f] # Filters!Plus =>
             (match[<<f, t>>] <=> filter[f] = topic[t] /\ match[<<f + 1, t + 1>>])

\* The loop of mqtt_topic_matches ends.
LEMMA MatchLoop ==
  ASSUME NEW C, NEW filter \in Seq(C), NEW topic \in Seq(C)
  PROVE  \E match : MatchesFrom(match, filter, topic) /\ Filters!TopicMatches(filter, topic) = match[<<1, 1>>]
<1> DEFINE nf == Len(filter)
           nt == Len(topic)
           D == (1..(nf + 1)) \X (1..(nt + 1))
           V == BOOLEAN
           Stop == {p \in D : p[1] > nf \/ p[2] > nt}
           val == [p \in D |-> p[1] > nf /\ p[2] > nt]
           same(p) == filter[p[1]] = topic[p[2]]
           step == [p \in D |-> [b \in V |-> IF filter[p[1]] = Filters!Plus THEN b ELSE same(p) /\ b]]
           next == [p \in D |-> IF filter[p[1]] = Filters!Plus THEN <<p[1] + 1, Filters!LevelEnd(topic, p[2])>>
                                ELSE <<p[1] + 1, p[2] + 1>>]
           rest == [p \in D |-> nf + 1 - p[1]]
           Body(m, p) ==
              CASE p[1] > nf \/ p[2] > nt -> p[1] > nf /\ p[2] > nt
                [] p[1] <= nf /\ p[2] <= nt /\ filter[p[1]] = Filters!Plus -> m[<<p[1] + 1, Filters!LevelEnd(topic, p[2])>>]
                [] OTHER -> same(p) /\ m[<<p[1] + 1, p[2] + 1>>]
           Matching(m) == m = [p \in D |-> Body(m, p)]
           match == CHOOSE m : Matching(m)
<1>1. nf \in Nat /\ nt \in Nat
  OBVIOUS
<1>2. ASSUME NEW p \in D, p \notin Stop
      PROVE  /\ ~(p[1] > nf \/ p[2] > nt) /\ p[1] <= nf /\ p[2] <= nt
             /\ next[p] \in D /\ rest[next[p]] < rest[p]
  <2> DEFINE f == p[1]
             t == p[2]
             e == Filters!LevelEnd(topic, t)
  <2>1. f \in 1..(nf + 1) /\ t \in 1..(nt + 1) /\ ~(f > nf \/ t > nt)
    BY <1>2
  <2>2. f <= nf /\ t <= nt /\ f + 1 \in 1..(nf + 1) /\ t + 1 \in 1..(nt + 1)
    BY <1>1, <2>1
  <2>3. e \in 1..(nt + 1)
    <3>1. e \in t..(nt + 1)
      BY <2>1, LevelEndIs
    <3> HIDE DEF e
    <3> QED BY <1>1, <2>1, <3>1
  <2>4. rest[p] = nf + 1 - f
    OBVIOUS
  <2>5. next[p] = <<f + 1, e>> \/ next[p] = <<f + 1, t + 1>>
    OBVIOUS
  <2> HIDE DEF next, e, f, t
  <2>6. next[p] \in D /\ next[p][1] = f + 1
    BY <2>2, <2>3, <2>5
  <2>7. rest[next[p]] = nf + 1 - (f + 1)
    BY <2>6
  <2> HIDE DEF rest, D
  <2>8. rest[next[p]] < rest[p]
    BY <1>1, <2>1, <2>2, <2>4, <2>7
  <2> QED BY <2>1, <2>2, <2>6, <2>8 DEF f, t
<1>3. CountsDown(D, Stop, next, rest, nf)
  <2>1. \A p \in D : rest[p] \in 0..nf
    BY <1>1
  <2> HIDE DEF D, Stop, next, rest
  <2> QED BY <1>2, <2>1 DEF CountsDown
<1>4. \A p \in D : IF p \in Stop THEN val[p] \in V ELSE step[p] \in [V -> V]
  <2> SUFFICES ASSUME NEW p \in D PROVE val[p] \in V /\ step[p] \in [V -> V]
    OBVIOUS
  <2>1. val[p] \in V
    BY Zenon
  <2>2. \A b \in V : (IF filter[p[1]] = Filters!Plus THEN b ELSE same(p) /\ b) \in V
    BY Zenon
  <2> HIDE DEF same, V
  <2>3. step[p] \in [V -> V]
    BY <2>2, Zenon
  <2> QED BY <2>1, <2>3
<1>5. \E m : Matching(m)
  <2>1. PICK m \in [D -> V] : Recurs(m, D, Stop, val, step, next)
    <3> HIDE DEF D, V, Stop, val, step, next, rest
    <3> QED BY <1>1, <1>3, <1>4, RecursionEnds, Zenon
  <2>2. ASSUME NEW p \in D PROVE Body(m, p) = IF p \in Stop THEN val[p] ELSE step[p][m[next[p]]]
    <3>1. CASE p \in Stop
      <4>1. p[1] > nf \/ p[2] > nt
        BY <3>1
      <4>2. p[1] <= nf /\ p[2] <= nt => ~(p[1] > nf \/ p[2] > nt)
        BY <1>1
      <4>3. Body(m, p) = (p[1] > nf /\ p[2] > nt)
        <5> HIDE DEF D, same
        <5> QED BY <4>1, <4>2, Zenon
      <4>4. val[p] = (p[1] > nf /\ p[2] > nt)
        BY Zenon
      <4> HIDE DEF Body, val, step, next, Stop
      <4> QED BY <3>1, <4>3, <4>4, Zenon
    <3>2. CASE p \notin Stop
      <4>1. /\ ~(p[1] > nf \/ p[2] > nt) /\ p[1] <= nf /\ p[2] <= nt
            /\ m[next[p]] \in V
        <5> HIDE DEF D, V, next, rest
        <5> QED BY <1>2, <3>2, Zenon
      <4>2. step[p][m[next[p]]] = IF filter[p[1]] = Filters!Plus THEN m[next[p]] ELSE same(p) /\ m[next[p]]
        <5> HIDE DEF same, next, V
        <5> QED BY <4>1, Zenon
      <4>3. next[p] = IF filter[p[1]] = Filters!Plus THEN <<p[1] + 1, Filters!LevelEnd(topic, p[2])>>
                      ELSE <<p[1] + 1, p[2] + 1>>
        OBVIOUS
      <4> HIDE DEF next, step, same, D, Stop
      <4>4. CASE filter[p[1]] = Filters!Plus
        BY <3>2, <4>1, <4>2, <4>3, <4>4, Zenon
      <4>5. CASE filter[p[1]] # Filters!Plus
        BY <3>2, <4>1, <4>2, <4>3, <4>5, Zenon
      <4> QED BY <4>4, <4>5
    <3> QED BY <3>1, <3>2
  <2>3. Matching(m)
    <3> HIDE DEF D, Stop, val, step, next, Body
    <3> QED BY <2>1, <2>2 DEF Recurs
  <2> QED BY <2>3
<1>6. Matching(match)
  BY <1>5, Zenon
<1>7. Filters!TopicMatches(filter, topic) = match[<<1, 1>>]
  BY Zenon DEF Filters!TopicMatches
<1> HIDE DEF match
<1>8. \A p \in D : match[p] = Body(match, p)
  <2> HIDE DEF Body, D
  <2> QED BY <1>6
<1>9. MatchesFrom(match, filter, topic)
  <2> SUFFICES ASSUME NEW f \in 1..(nf + 1), NEW t \in 1..(nt + 1)
               PROVE  /\ f > nf \/ t > nt => (match[<<f, t>>] <=> f > nf /\ t > nt)
                      /\ f <= nf /\ t <= nt /\ filter[f] = Filters!Plus =>
                            (match[<<f, t>>] <=> match[<<f + 1, Filters!LevelEnd(topic, t)>>])
                      /\ f <= nf /\ t <= nt /\ filter[f] # Filters!Plus =>
                            (match[<<f, t>>] <=> filter[f] = topic[t] /\ match[<<f + 1, t + 1>>])
    BY Zenon DEF MatchesFrom
  <2>1. <<f, t>> \in D /\ <<f, t>>[1] = f /\ <<f, t>>[2] = t
    OBVIOUS
  <2>2. f <= nf /\ t <= nt => ~(f > nf \/ t > nt)
    BY <1>1
  <2>3. match[<<f, t>>] = Body(match, <<f, t>>)
    <3> HIDE DEF Body, D
    <3> QED BY <1>8, <2>1
  <2>4. match[<<f, t>>] =
           CASE f > nf \/ t > nt -> f > nf /\ t > nt
             [] f <= nf /\ t <= nt /\ filter[f] = Filters!Plus -> match[<<f + 1, Filters!LevelEnd(topic, t)>>]
             [] OTHER -> filter[f] = topic[t] /\ match[<<f + 1, t + 1>>]
    BY <2>1, <2>3, Zenon
  <2>5. CASE f > nf \/ t > nt
    BY <2>2, <2>4, <2>5, Zenon
  <2>6. CASE ~(f > nf \/ t > nt) /\ filter[f] = Filters!Plus
    BY <2>2, <2>4, <2>6, Zenon
  <2>7. CASE ~(f > nf \/ t > nt) /\ filter[f] # Filters!Plus
    BY <2>2, <2>4, <2>7, Zenon
  <2> QED BY <2>5, <2>6, <2>7, Zenon
<1> QED BY <1>7, <1>9

\* A filter of which each + is a whole level matches a topic, both of any
\* length, just when it matches it level by level, with the one exception that
\* the code makes and MQTT does not: a + at the end of the filter and an empty
\* level at the end of the topic.
THEOREM MatchesLevels ==
  ASSUME NEW C, NEW filter \in Seq(C), NEW topic \in Seq(C), Filters!WholeLevels(filter)
  PROVE  Filters!TopicMatches(filter, topic) <=>
             Filters!LevelsMatch(filter, topic) /\ ~Filters!EmptyEnd(filter, topic)
<1> DEFINE nf == Len(filter)
           nt == Len(topic)
<1>1. nf \in Nat /\ nt \in Nat /\ \A f \in 1..nf : filter[f] \in C
  OBVIOUS
<1>a. PICK F : IsSplit(F, filter, C) /\ Filters!Levels(filter) = F[1]
  BY LevelsSplit, Zenon
<1>b. PICK T : IsSplit(T, topic, C) /\ Filters!Levels(topic) = T[1]
  BY LevelsSplit, Zenon
<1>c. \A f \in 1..nf : Begins(F, filter, C, f)
  BY <1>a, FirstLevel, Zenon
<1>d. \A t \in 1..nt : Begins(T, topic, C, t)
  BY <1>b, FirstLevel, Zenon
<1>e. \A t \in 1..(nt + 1) : GoesOn(T, topic, t, Filters!LevelEnd(topic, t))
  BY <1>b, SameAfter, Zenon
<1>m. PICK match : MatchesFrom(match, filter, topic) /\ Filters!TopicMatches(filter, topic) = match[<<1, 1>>]
  BY MatchLoop, Zenon
<1>2. /\ \A f \in 1..(nf + 1) : F[f] \in ListsOf(C)
      /\ \A t \in 1..(nt + 1) : T[t] \in ListsOf(C)
  BY <1>a, <1>b DEF IsSplit
<1>3. F[nf + 1] = << <<>> >> /\ T[nt + 1] = << <<>> >>
  BY <1>a, <1>b DEF IsSplit
<1>4. Filters!Slash # Filters!Plus
  BY DEF Filters!Slash, Filters!Plus
<1> DEFINE S == {f \in 1..(nf + 1) : \A t \in 1..(nt + 1) : match[<<f, t>>] <=> Agree(F[f], T[t])}
\* past the end of the filter
<1>5. nf + 1 \in S
  <2> SUFFICES ASSUME NEW t \in 1..(nt + 1) PROVE match[<<nf + 1, t>>] <=> Agree(F[nf + 1], T[t])
    BY <1>1
  <2>1. match[<<nf + 1, t>>] <=> t > nt
    <3>1. nf + 1 > nf /\ nf + 1 \in 1..(nf + 1)
      BY <1>1
    <3> QED BY <3>1, <1>m, Zenon DEF MatchesFrom
  <2>2. CASE t > nt
    <3>1. t = nt + 1
      BY <1>1, <2>2
    <3>2. Agree(F[nf + 1], T[t])
      BY <1>3, <3>1 DEF Agree
    <3> QED BY <2>1, <2>2, <3>2
  <2>3. CASE ~(t > nt)
    <3>1. t \in 1..nt
      BY <1>1, <2>3
    <3>2. T[t][1] = <<>> => Len(T[t]) >= 2
      BY <1>d, <3>1, Zenon DEF Begins
    <3>3. ~Agree(F[nf + 1], T[t])
      <4>1. Len(F[nf + 1]) = 1 /\ F[nf + 1][1] = <<>> /\ <<>> # <<Filters!Plus>>
        BY <1>3
      <4>2. F[nf + 1] \in ListsOf(C)
        BY <1>1, <1>2
      <4>3. CASE T[t][1] = <<>>
        <5>1. Len(T[t]) # 1
          <6> DEFINE n == Len(T[t])
          <6>1. n \in Nat
            BY <1>2 DEF ListsOf
          <6>2. n >= 2
            BY <3>2, <4>3, Zenon
          <6> HIDE DEF n
          <6>3. n # 1
            BY <6>1, <6>2
          <6> QED BY <6>3 DEF n
        <5> QED BY <4>1, <5>1, Zenon DEF Agree
      <4>4. CASE T[t][1] # <<>>
        BY <4>1, <4>2, <4>4, AgreeNot, Zenon
      <4> QED BY <4>3, <4>4
    <3> QED BY <2>1, <2>3, <3>3
  <2> QED BY <2>2, <2>3
\* within it
<1>6. ASSUME NEW f \in 1..nf, f + 1 \in S PROVE f \in S
  <2> SUFFICES ASSUME NEW t \in 1..(nt + 1) PROVE match[<<f, t>>] <=> Agree(F[f], T[t])
    BY <1>1
  <2>1. f \in 1..(nf + 1) /\ f <= nf /\ ~(f > nf) /\ f + 1 \in 1..(nf + 1)
    BY <1>1
  <2>2. /\ F[f + 1] \in ListsOf(C) /\ F[f] \in ListsOf(C)
        /\ filter[f] = Filters!Slash => F[f][1] = <<>> /\ Len(F[f]) >= 2
        /\ filter[f] # Filters!Slash => /\ F[f][1] = <<filter[f]>> \o F[f + 1][1]
                                /\ F[f + 1][1] \in Seq(C)
                                /\ F[f][1] # <<>> /\ \A d : F[f][1] = <<d>> => filter[f] = d
    BY <1>c, Zenon DEF Begins
  <2>3. \A u \in 1..(nt + 1) : match[<<f + 1, u>>] <=> Agree(F[f + 1], T[u])
    BY <1>6
  <2>4. filter[f] = Filters!Slash => SplitBefore(F[f + 1], F[f])
    BY <1>a, <1>b DEF IsSplit
  <2>5. filter[f] # Filters!Slash => Lengthened(F[f + 1], F[f], filter[f])
    BY <1>a, <1>b DEF IsSplit
  <2>6. filter[f] # Filters!Plus => F[f][1] # <<Filters!Plus>>
    <3>1. <<>> # <<Filters!Plus>>
      OBVIOUS
    <3> QED BY <2>2, <3>1, Zenon
  <2> HIDE DEF S
  <2>7. CASE t > nt
    <3>1. t = nt + 1
      BY <1>1, <2>7
    <3>2. ~match[<<f, t>>]
      BY <2>1, <2>7, <1>m, Zenon DEF MatchesFrom
    <3>3. Len(T[t]) = 1 /\ T[t][1] = <<>>
      <4>1. Len(T[nt + 1]) = 1 /\ T[nt + 1][1] = <<>>
        BY <1>3
      <4> QED BY <3>1, <4>1, Zenon
    <3>4. ~Agree(F[f], T[t])
      <4>1. CASE filter[f] = Filters!Slash
        <5> DEFINE n == Len(F[f])
        <5>1. n \in Nat
          BY <2>2 DEF ListsOf
        <5>2. n >= 2
          BY <2>2, <4>1, Zenon
        <5> HIDE DEF n
        <5>3. n # 1
          BY <5>1, <5>2
        <5> QED BY <3>3, <5>3, Zenon DEF Agree, n
      <4>2. CASE filter[f] # Filters!Slash
        BY <2>2, <3>3, <4>2, AgreeNot, Zenon
      <4> QED BY <4>1, <4>2
    <3> QED BY <3>2, <3>4
  <2>8. CASE ~(t > nt) /\ filter[f] = Filters!Plus
    <3> DEFINE e == Filters!LevelEnd(topic, t)
    <3>1. t \in 1..nt /\ t <= nt
      BY <1>1, <2>8
    <3>2. match[<<f, t>>] <=> match[<<f + 1, e>>]
      BY <2>1, <2>8, <3>1, <1>m, Zenon DEF MatchesFrom
    <3>3. /\ e \in 1..(nt + 1) /\ T[e][1] = <<>> /\ Len(T[e]) = Len(T[t])
          /\ \A i \in 2..Len(T[t]) : T[e][i] = T[t][i]
      BY <1>e, Zenon DEF GoesOn
    <3> HIDE DEF e
    <3>4. T[t][1] = <<>> => Len(T[t]) >= 2
      BY <1>d, <3>1, Zenon DEF Begins
    <3>5. F[f + 1][1] = <<>>
      <4>1. CASE f = nf
        BY <1>3, <4>1
      <4>2. CASE f # nf
        <5>1. f + 1 \in 1..nf /\ filter[f + 1] = Filters!Slash
          BY <1>1, <2>8, <4>2 DEF Filters!WholeLevels
        <5> QED BY <1>c, <5>1, Zenon DEF Begins
      <4> QED BY <4>1, <4>2
    <3>6. Lengthened(F[f + 1], F[f], Filters!Plus)
      BY <1>4, <2>5, <2>8
    <3>7. Agree(F[f], T[t]) <=> Agree(F[f + 1], T[e])
      BY <1>2, <2>2, <3>3, <3>4, <3>5, <3>6, AgreePlus, Zenon
    <3> QED BY <2>3, <3>2, <3>3, <3>7, Zenon
  <2>9. CASE ~(t > nt) /\ filter[f] # Filters!Plus
    <3>1. t \in 1..nt /\ t <= nt /\ t + 1 \in 1..(nt + 1)
      BY <1>1, <2>9
    <3>2. match[<<f, t>>] <=> filter[f] = topic[t] /\ match[<<f + 1, t + 1>>]
      BY <2>1, <2>9, <3>1, <1>m, Zenon DEF MatchesFrom
    <3>3. /\ T[t + 1] \in ListsOf(C) /\ T[t] \in ListsOf(C)
          /\ topic[t] = Filters!Slash => T[t][1] = <<>> /\ Len(T[t]) >= 2
          /\ topic[t] # Filters!Slash => /\ T[t][1] = <<topic[t]>> \o T[t + 1][1]
                                 /\ T[t + 1][1] \in Seq(C)
                                 /\ T[t][1] # <<>> /\ \A d : T[t][1] = <<d>> => topic[t] = d
      BY <1>d, <3>1, Zenon DEF Begins
    <3>4. CASE filter[f] = topic[t] /\ filter[f] = Filters!Slash
      <4>1. SplitBefore(T[t + 1], T[t])
        BY <1>b, <3>1, <3>4 DEF IsSplit
      <4>2. Agree(F[f], T[t]) <=> Agree(F[f + 1], T[t + 1])
        <5> DEFINE x == F[f + 1]
                   y == T[t + 1]
                   k == F[f]
                   l == T[t]
        <5>1. SplitBefore(x, k) /\ SplitBefore(y, l)
          BY <2>4, <3>4, <4>1
        <5>2. x \in ListsOf(C) /\ y \in ListsOf(C)
          BY <2>2, <3>3
        <5> HIDE DEF x, y, k, l
        <5>3. Agree(k, l) <=> Agree(x, y)
          BY <5>1, <5>2, AgreeSplit
        <5> QED BY <5>3 DEF x, y, k, l
      <4> QED BY <2>3, <3>1, <3>2, <3>4, <4>2, Zenon
    <3>5. CASE filter[f] = topic[t] /\ filter[f] # Filters!Slash
      <4>1. Lengthened(T[t + 1], T[t], filter[f])
        BY <1>b, <3>1, <3>5 DEF IsSplit
      <4>2. F[f + 1][1] # <<Filters!Plus>>
        <5>1. CASE f = nf
          BY <1>3, <5>1
        <5>2. CASE f # nf
          <6>1. f + 1 \in 1..nf /\ filter[f + 1] # Filters!Plus
            BY <1>1, <3>5, <5>2 DEF Filters!WholeLevels
          <6>2. F[f + 1][1] = <<Filters!Plus>> => filter[f + 1] = Filters!Plus
            <7>1. CASE filter[f + 1] = Filters!Slash
              <8>1. F[f + 1][1] = <<>>
                BY <1>c, <6>1, <7>1, Zenon DEF Begins
              <8>2. <<>> # <<Filters!Plus>>
                OBVIOUS
              <8> QED BY <8>1, <8>2, Zenon
            <7>2. CASE filter[f + 1] # Filters!Slash
              BY <1>c, <6>1, <7>2, Zenon DEF Begins
            <7> QED BY <7>1, <7>2
          <6> QED BY <6>1, <6>2
        <5> QED BY <5>1, <5>2
      <4>3. filter[f] \in C
        BY <1>1
      <4>4. Agree(F[f], T[t]) <=> Agree(F[f + 1], T[t + 1])
        <5> DEFINE x == F[f + 1]
                   y == T[t + 1]
                   k == F[f]
                   l == T[t]
                   c == filter[f]
        <5>1. Lengthened(x, k, c) /\ Lengthened(y, l, c) /\ c \in C /\ c # Filters!Plus
          BY <2>5, <2>9, <3>5, <4>1, <4>3
        <5>2. x \in ListsOf(C) /\ y \in ListsOf(C) /\ x[1] # <<Filters!Plus>>
          BY <2>2, <3>3, <4>2
        <5> HIDE DEF x, y, k, l, c
        <5>3. Agree(k, l) <=> Agree(x, y)
          BY <5>1, <5>2, AgreeLengthened
        <5> QED BY <5>3 DEF x, y, k, l
      <4> QED BY <2>3, <3>1, <3>2, <3>5, <4>4, Zenon
    <3>6. CASE filter[f] # topic[t]
      <4>1. F[f][1] # T[t][1]
        <5>1. CASE filter[f] = Filters!Slash
          BY <2>2, <3>3, <3>6, <5>1
        <5>2. CASE filter[f] # Filters!Slash /\ topic[t] = Filters!Slash
          BY <2>2, <3>3, <5>2
        <5>3. CASE filter[f] # Filters!Slash /\ topic[t] # Filters!Slash
          <6>1. filter[f] \in C /\ topic[t] \in C
            BY <1>1, <3>1
          <6> DEFINE a == <<filter[f]>> \o F[f + 1][1]
                     b == <<topic[t]>> \o T[t + 1][1]
          <6>2. a # b
            <7> DEFINE c == filter[f]
                       d == topic[t]
                       r == F[f + 1][1]
                       s == T[t + 1][1]
            <7>1. c \in C /\ d \in C /\ r \in Seq(C) /\ s \in Seq(C) /\ c # d
              BY <2>2, <3>3, <3>6, <5>3, <6>1
            <7> HIDE DEF c, d, r, s
            <7>2. <<c>> \o r # <<d>> \o s
              BY <7>1, CharFirst, Zenon
            <7> QED BY <7>2 DEF c, d, r, s
          <6>3. F[f][1] = a /\ T[t][1] = b
            BY <2>2, <3>3, <5>3
          <6> HIDE DEF a, b
          <6> QED BY <6>2, <6>3
        <5> QED BY <5>1, <5>2, <5>3
      <4>2. ~Agree(F[f], T[t])
        BY <2>2, <2>6, <2>9, <4>1, AgreeNot, Zenon
      <4> QED BY <3>2, <3>6, <4>2
    <3> QED BY <3>4, <3>5, <3>6
  <2> QED BY <2>7, <2>8, <2>9
<1>7. \A f \in 1..(nf + 1) : f \in S
  <2> HIDE DEF S
  <2> QED BY <1>1, <1>5, <1>6, Downwards
<1>8. match[<<1, 1>>] <=> Agree(F[1], T[1])
  <2>1. 1 \in 1..(nf + 1) /\ 1 \in 1..(nt + 1)
    BY <1>1
  <2> QED BY <1>7, <2>1
<1>9. DOMAIN F[1] = 1..Len(F[1])
  <2>1. F[1] \in ListsOf(C)
    BY <1>1, <1>2
  <2> QED BY <2>1 DEF ListsOf
<1>10. Filters!LevelsMatch(filter, topic) /\ ~Filters!EmptyEnd(filter, topic) <=> Agree(F[1], T[1])
  <2> DEFINE x == F[1]
             y == T[1]
             n == Len(x)
  <2>1. n \in 1..n
    <3>1. F[1] \in ListsOf(C)
      BY <1>1, <1>2
    <3> QED BY <3>1 DEF ListsOf
  <2>2. Filters!LevelsMatch(filter, topic) <=>
            n = Len(y) /\ \A i \in 1..n : x[i] = y[i] \/ x[i] = <<Filters!Plus>>
    BY <1>9, <1>a, <1>b, Zenon DEF Filters!LevelsMatch
  <2>3. Filters!EmptyEnd(filter, topic) <=> x[n] = <<Filters!Plus>> /\ y[Len(y)] = <<>>
    BY <1>a, <1>b, Zenon DEF Filters!EmptyEnd
  <2>4. Agree(x, y) <=> n = Len(y) /\ \A i \in 1..n :
            x[i] = y[i] \/ (x[i] = <<Filters!Plus>> /\ ~(i = n /\ y[i] = <<>>))
    BY Zenon DEF Agree
  <2>5. <<>> # <<Filters!Plus>>
    OBVIOUS
  <2> HIDE DEF x, y, n
  <2>6. ASSUME Agree(x, y)
        PROVE  Filters!LevelsMatch(filter, topic) /\ ~Filters!EmptyEnd(filter, topic)
    <3>1. Filters!LevelsMatch(filter, topic)
      BY <2>2, <2>4, <2>6, Zenon
    <3>2. n = Len(y) /\ (x[n] = y[n] \/ ~(y[n] = <<>>) \/ x[n] # <<Filters!Plus>>)
      BY <2>1, <2>4, <2>6, Zenon
    <3> QED BY <2>3, <2>5, <3>1, <3>2
  <2>7. ASSUME Filters!LevelsMatch(filter, topic), ~Filters!EmptyEnd(filter, topic)
        PROVE  Agree(x, y)
    <3>1. n = Len(y) /\ \A i \in 1..n : x[i] = y[i] \/ x[i] = <<Filters!Plus>>
      BY <2>2, <2>7, Zenon
    <3>2. ~(x[n] = <<Filters!Plus>> /\ y[n] = <<>>)
      BY <2>3, <2>7, <3>1, Zenon
    <3>3. \A i \in 1..n : x[i] = y[i] \/ (x[i] = <<Filters!Plus>> /\ ~(i = n /\ y[i] = <<>>))
      BY <3>1, <3>2, Zenon
    <3> QED BY <2>4, <3>1, <3>3, Zenon
  <2> QED BY <2>6, <2>7 DEF x, y
<1> QED BY <1>8, <1>10, <1>m, Zenon

\* A topic reaches the subscriptions that match its levels, with that exception.
LEMMA Reaches ==
  ASSUME NEW topic \in Filters!Topics
  PROVE  Filters!ReachesMatchingSaveEmptyEnd(topic)
<1> DEFINE C == {"a", "b", Filters!Slash, Filters!Plus}
<1>1. topic \in Seq(C)
  BY DEF Filters!Topics, Filters!Texts
<1>2. \A filter \in Filters!Filters : filter \in Seq(C) /\ Filters!WholeLevels(filter)
  BY DEF Filters!Filters, Filters!Texts
<1> HIDE DEF C
<1>3. \A filter \in Filters!Filters :
        Filters!TopicMatches(filter, topic) <=>
            Filters!LevelsMatch(filter, topic) /\ ~Filters!EmptyEnd(filter, topic)
  BY <1>1, <1>2, MatchesLevels, Zenon
<1> DEFINE Sub(filter) == [topic |-> filter, cb |-> filter]
           subs == {Sub(filter) : filter \in Filters!Filters}
<1>4. \A filter : Sub(filter).topic = filter /\ Sub(filter).cb = filter
  OBVIOUS
<1> HIDE DEF Sub
<1>5. Filters!Matches(subs, topic) = {filter \in Filters!Filters : Filters!TopicMatches(filter, topic)}
  <2>1. ASSUME NEW x \in Filters!Matches(subs, topic) PROVE x \in Filters!Filters /\ Filters!TopicMatches(x, topic)
    <3>1. PICK s \in subs : Filters!TopicMatches(s.topic, topic) /\ x = s.cb
      BY Zenon DEF Filters!Matches
    <3>2. PICK filter \in Filters!Filters : s = Sub(filter)
      OBVIOUS
    <3> QED BY <1>4, <3>1, <3>2, Zenon
  <2>2. ASSUME NEW x \in Filters!Filters, Filters!TopicMatches(x, topic) PROVE x \in Filters!Matches(subs, topic)
    <3>1. Sub(x) \in subs /\ Filters!TopicMatches(Sub(x).topic, topic) /\ Sub(x).cb = x
      BY <1>4, <2>2, Zenon
    <3> QED BY <3>1, Zenon DEF Filters!Matches
  <2> QED BY <2>1, <2>2, Zenon
<1>6. {filter \in Filters!Filters : Filters!TopicMatches(filter, topic)} =
          {filter \in Filters!Filters : Filters!LevelsMatch(filter, topic)}
              \ {filter \in Filters!Filters : Filters!EmptyEnd(filter, topic)}
  BY <1>3, Zenon
<1> QED BY <1>5, <1>6, Zenon DEF Filters!ReachesMatchingSaveEmptyEnd, Sub

-----------------------------------------------------------------------------
(* creds.c                                                                 *)

\* creds_refresh: whatever the service says of the expiry, what was just
\* fetched is not due at once, and falls due before it expires but no longer
\* than the margin before.
LEMMA Renewal ==
  ASSUME NEW now \in Int, NEW expiration \in Int
  PROVE  Clocks!RenewedBetween(now, expiration)
<1> DEFINE until == Clocks!Expiration(now, expiration)
           half == (until - now) \div 2
           at == Clocks!RefreshTime(now, expiration)
<1>1. until \in Int /\ now < until
  BY ComponentsAssumption DEF Clocks!Expiration
<1> HIDE DEF until
<1>2. half \in Nat /\ 2 * half <= until - now /\ until - now <= 2 * half + 1
  BY <1>1
<1> HIDE DEF half
<1>3. at = until - (IF half > Margin THEN Margin ELSE half)
  BY DEF Clocks!RefreshTime, until, half
<1> HIDE DEF at
<1>4. /\ now < at /\ at <= until /\ until - at <= Margin
      /\ until - now > 1 => at < until
  BY <1>1, <1>2, <1>3, ComponentsAssumption
<1> QED BY <1>4 DEF Clocks!RenewedBetween, until, at

\* A time of the calendar.
IsTime(t) == \E y \in Int, m \in 1..12, d \in 1..31, h \in 0..23, i \in 0..59, s \in 0..60 :
                d <= Clocks!MonthLength(y, m) /\ t = Time(y, m, d, h, i, s)

\* The times that are given to the conversions are of the calendar.
LEMMA TimesOfCalendar == \A t \in Clocks!Times : IsTime(t)
<1>1. \A y \in Int, m \in 1..12 : Clocks!MonthLength(y, m) \in 28..31
  BY DEF Clocks!MonthLength
<1>2. ASSUME NEW t \in [year : Int, month : 1..12, day : 1..31, hour : 0..23, minute : 0..59, second : 0..60],
             t.day <= Clocks!MonthLength(t.year, t.month)
      PROVE  IsTime(t)
  <2>1. t = Time(t.year, t.month, t.day, t.hour, t.minute, t.second)
    BY DEF Time
  <2> QED BY <1>2, <2>1 DEF IsTime
<1>3. ASSUME NEW y \in Int, NEW m \in 1..12
      PROVE  IsTime(Time(y, m, Clocks!MonthLength(y, m), 23, 59, 59))
  <2>1. Clocks!MonthLength(y, m) \in 1..31 /\ Clocks!MonthLength(y, m) <= Clocks!MonthLength(y, m)
    BY <1>1
  <2>2. 23 \in 0..23 /\ 59 \in 0..59 /\ 59 \in 0..60
    OBVIOUS
  <2> QED BY <2>1, <2>2, Zenon DEF IsTime
<1>4. ASSUME NEW t \in Clocks!Times PROVE IsTime(t)
  <2>1. CASE /\ t \in [year : Int, month : 1..12, day : {1, 28}, hour : 0..23, minute : 0..59, second : 0..60]
    <3>1. t.day <= Clocks!MonthLength(t.year, t.month)
      <4>1. t.year \in Int /\ t.month \in 1..12 /\ t.day \in {1, 28}
        BY <2>1
      <4>2. Clocks!MonthLength(t.year, t.month) \in 28..31
        BY <1>1, <4>1
      <4> QED BY <4>1, <4>2
    <3>2. {1, 28} \subseteq 1..31
      OBVIOUS
    <3> QED BY <1>2, <2>1, <3>1, <3>2
  <2>2. CASE \E y \in 1968..2004, m \in 1..12 : t = Time(y, m, Clocks!MonthLength(y, m), 23, 59, 59)
    BY <1>3, <2>2
  <2>3. \/ t \in [year : Int, month : 1..12, day : {1, 28}, hour : 0..23, minute : 0..59, second : 0..60]
        \/ \E y \in 1968..2004, m \in 1..12 : t = Time(y, m, Clocks!MonthLength(y, m), 23, 59, 59)
    BY SMT DEF Clocks!Times, Time
  <2> QED BY <2>1, <2>2, <2>3
<1> QED BY <1>4

\* Names, and a table of names that is sorted.
IsLookup(in) == /\ in.tzs \in Seq(Seq(Clocks!Characters)) /\ Clocks!Sorted(in.tzs)
                /\ in.name \in Seq(Clocks!Characters)

\* What is looked up is a name, in such a table.
LEMMA LookupsOfNames == \A in \in Clocks!Lookups : IsLookup(in)
<1> DEFINE Names == Seq(Clocks!Characters)
<1>1. /\ "a" \in Clocks!Characters /\ "A" \in Clocks!Characters /\ "b" \in Clocks!Characters
      /\ "B" \in Clocks!Characters /\ "slash" \in Clocks!Characters
      /\ "underscore" \in Clocks!Characters
  BY DEF Clocks!Characters
<1>2. Clocks!ZoneNames \subseteq Names
  BY <1>1 DEF Clocks!ZoneNames
<1>3. ASSUME NEW tzs \in Clocks!Tables PROVE tzs \in Seq(Names) /\ Clocks!Sorted(tzs)
  <2>1. PICK n \in 1..5 : tzs \in [1..n -> Clocks!ZoneNames]
    BY DEF Clocks!Tables
  <2>2. Clocks!Sorted(tzs)
    BY DEF Clocks!Tables
  <2> HIDE DEF Names
  <2> QED BY <1>2, <2>1, <2>2
<1>4. ASSUME NEW in \in Clocks!Lookups PROVE in.tzs \in Clocks!Tables /\ in.name \in Names
  <2>1. /\ in.tzs \in Clocks!Tables
        /\ in.name \in Clocks!ZoneNames \cup
              {<<>>, <<"A">>, <<"a", "b">>, <<"b", "slash">>,
               <<"a", "underscore", "underscore", "slash", "B">>,
               <<"B", "slash", "a", "b", "underscore">>}
    BY DEF Clocks!Lookups
  <2>2. /\ <<>> \in Names /\ <<"A">> \in Names /\ <<"a", "b">> \in Names
        /\ <<"b", "slash">> \in Names
    BY <1>1
  <2>3. /\ <<"a", "underscore", "underscore", "slash", "B">> \in Names
        /\ <<"B", "slash", "a", "b", "underscore">> \in Names
    BY <1>1
  <2> HIDE DEF Names
  <2> QED BY <1>2, <2>1, <2>2, <2>3, Zenon
<1> HIDE DEF Names
<1> QED BY <1>3, <1>4, Zenon DEF IsLookup, Names

\* An input is of its kind: a time of renewal, a time of the calendar, a lookup,
\* a topic, a request to sign.
InputInv == /\ input.of = "nows" => input.in.now \in Int /\ input.in.expiration \in Int
            /\ input.of = "times" => IsTime(input.in)
            /\ input.of = "zones" => IsLookup(input.in)
            /\ input.of = "topics" => input.in \in Filters!Topics
            /\ input.of = "signer" => IsRequest(input.in)

\* An algorithm is given the inputs of its kind.
LEMMA InputsOfKind ==
  /\ InitAll => InputInv
  /\ InputInv /\ [NextAll]_allVars => InputInv'
<1>1. InitAll => InputInv
  BY DEF InitAll, NoInput, InputInv
<1>2. InputInv /\ [NextAll]_allVars => InputInv'
  <2>1. Compute => InputInv'
    <3>1. ASSUME input' = NoInput PROVE InputInv'
      BY <3>1 DEF NoInput, InputInv
    <3>2. ASSUME NEW in \in Clocks!Nows, input' = [of |-> "nows", in |-> in] PROVE InputInv'
      BY <3>2 DEF Clocks!Nows, InputInv
    <3>3. ASSUME NEW in \in Clocks!Times, input' = [of |-> "times", in |-> in] PROVE InputInv'
      <4>1. IsTime(in) /\ input'.in = in /\ input'.of = "times"
        BY <3>3, TimesOfCalendar
      <4> QED BY <4>1 DEF InputInv
    <3>4. ASSUME NEW in \in Clocks!Lookups, input' = [of |-> "zones", in |-> in] PROVE InputInv'
      <4>1. IsLookup(in) /\ input'.in = in /\ input'.of = "zones"
        BY <3>4, LookupsOfNames
      <4> QED BY <4>1 DEF InputInv
    <3>5. ASSUME NEW in \in Filters!Topics, input' = [of |-> "topics", in |-> in] PROVE InputInv'
      BY <3>5 DEF InputInv
    <3>6. ASSUME NEW in \in Inputs, input' = [of |-> "signer", in |-> in] PROVE InputInv'
      <4>1. IsRequest(in) /\ input'.in = in /\ input'.of = "signer"
        BY <3>6, InputsAreRequests
      <4> QED BY <4>1 DEF InputInv
    <3> QED BY <3>1, <3>2, <3>3, <3>4, <3>5, <3>6 DEF Compute
  <2>2. UNCHANGED input => (InputInv => InputInv')
    BY DEF InputInv
  <2> QED BY <2>1, <2>2 DEF NextAll, allVars
<1> QED BY <1>1, <1>2

\* creds.c: credentials are renewed before they expire, and not at once, at
\* each input, for any margin and any time to live.
THEOREM AlwaysRenewedInTime == SpecAll => []RenewedInTime
<1>1. InputInv => RenewedInTime
  BY Renewal DEF InputInv, RenewedInTime
<1> QED BY <1>1, InputsOfKind, PTL DEF SpecAll

\* creds.c and time_sync.c number each day of the calendar after the one before
\* it, from the epoch, and so agree with each other, at each input.
THEOREM AlwaysOnCalendar == SpecAll => []ClocksAgree
<1>1. \A t : IsTime(t) => Clocks!ConversionsAgree(t)
  BY Conversions DEF IsTime
<1>2. InputInv => ClocksAgree
  BY <1>1 DEF InputInv, ClocksAgree
<1> QED BY <1>2, InputsOfKind, PTL DEF SpecAll

\* timezone.c: a name is found in a sorted table of any length exactly where it
\* stands, at each input.
THEOREM AlwaysFound == SpecAll => []ZoneFound
<1>1. InputInv => ZoneFound
  BY Search DEF InputInv, IsLookup, ZoneFound
<1> QED BY <1>1, InputsOfKind, PTL DEF SpecAll

\* mqtt_topic_matches: a topic reaches just the subscriptions whose filter
\* matches its levels, save those that end in a + where it ends in an empty level,
\* which by MQTT it should reach too, at each input.  MatchesLevels says so of
\* every topic and every filter whose + are whole levels, of any length.
THEOREM AlwaysReachesSaveEmptyEnd == SpecAll => []ReachesMatchingSaveEmptyEnd
<1>1. InputInv => ReachesMatchingSaveEmptyEnd
  BY Reaches DEF InputInv, ReachesMatchingSaveEmptyEnd
<1> QED BY <1>1, InputsOfKind, PTL DEF SpecAll

\* sigv4.c: a service computes the signature that the signer made, at each input.
\* HeaderVerifies and UrlVerifies say so of every request, of any length.
THEOREM AlwaysVerified == SpecAll => []SignatureVerified
<1>1. InputInv => SignatureVerified
  BY HeaderVerifies, UrlVerifies DEF InputInv, SignatureVerified
<1> QED BY <1>1, InputsOfKind, PTL DEF SpecAll

-----------------------------------------------------------------------------
(* cmd_resp.c                                                              *)

\* The number of TLVs of a value of len bytes, and where the k-th ends.
Tally(len) == IF len = 0 THEN 1 ELSE (len + Chunk - 1) \div Chunk
Cut(len, k) == IF k = Tally(len) THEN len ELSE k * Chunk

\* A value is cut into full pieces and a last one that fits, no more of them
\* than get_tlv_encoded_size allows for.
LEMMA Cuts ==
  ASSUME Chunk \in Nat \ {0}, NEW len \in Nat
  PROVE  /\ Tally(len) \in Nat \ {0} /\ 2 * Tally(len) + len <= Commands!EncodedSize(len)
         /\ Commands!EncodedSize(len) \in Nat /\ Commands!EncodedSize(len) >= len + 2
         /\ Cut(len, 0) = 0 /\ Cut(len, Tally(len)) = len
         /\ \A k \in 1..Tally(len) : /\ Cut(len, k - 1) = (k - 1) * Chunk
                                     /\ Cut(len, k) \in Nat /\ Cut(len, k - 1) \in Nat
                                     /\ Cut(len, k - 1) <= Cut(len, k) /\ Cut(len, k) <= len
                                     /\ k < Tally(len) => Cut(len, k) = Cut(len, k - 1) + Chunk
<1> DEFINE n == Tally(len)
           q == len \div Chunk
<1>1. q \in Nat /\ q * Chunk <= len /\ len < q * Chunk + Chunk
  OBVIOUS
<1>2. CASE len = 0
  <2>1. n = 1 /\ q = 0
    BY <1>1, <1>2 DEF Tally
  <2>2. Commands!EncodedSize(len) = 2
    BY <1>2, <2>1 DEF Commands!EncodedSize
  <2> HIDE DEF n, q
  <2> QED BY <1>2, <2>1, <2>2 DEF Cut, n
<1>3. CASE len # 0
  <2> DEFINE p == (len + Chunk - 1) \div Chunk
  <2>1. p \in Nat /\ p * Chunk <= len + Chunk - 1 /\ len + Chunk - 1 < p * Chunk + Chunk
    OBVIOUS
  <2>2. n = p
    BY <1>3 DEF Tally
  <2> HIDE DEF n, p, q
  <2>3. p >= 1
    BY <1>3, <2>1
  <2>4. p <= q + 1
    BY <1>1, <1>3, <2>1
  <2>5. ASSUME NEW k \in 1..p
        PROVE  (k - 1) * Chunk \in Nat /\ (k - 1) * Chunk < len /\ (k < p => k * Chunk < len)
    BY <1>3, <2>1
  <2>6. Commands!EncodedSize(len) = 2 * (q + 1) + len
    BY DEF Commands!EncodedSize, q
  <2>7. 2 * p + len <= Commands!EncodedSize(len) /\ Commands!EncodedSize(len) \in Nat /\ Commands!EncodedSize(len) >= len + 2
    BY <1>1, <2>1, <2>4, <2>6
  <2>8. Cut(len, 0) = 0 /\ Cut(len, p) = len
    BY <2>2, <2>3 DEF Cut, n
  <2>9. ASSUME NEW k \in 1..p
        PROVE  /\ Cut(len, k - 1) = (k - 1) * Chunk
               /\ Cut(len, k) \in Nat /\ Cut(len, k - 1) \in Nat
               /\ Cut(len, k - 1) <= Cut(len, k) /\ Cut(len, k) <= len
               /\ k < p => Cut(len, k) = Cut(len, k - 1) + Chunk
    <3>1. Cut(len, k - 1) = (k - 1) * Chunk /\ k - 1 # p
      BY <2>1, <2>2, <2>3 DEF Cut, n
    <3>2. CASE k = p
      <4>1. Cut(len, k) = len
        BY <2>2, <3>2 DEF Cut, n
      <4> QED BY <2>5, <3>1, <3>2, <4>1
    <3>3. CASE k # p
      <4>1. Cut(len, k) = k * Chunk /\ k < p
        BY <2>1, <2>2, <3>3 DEF Cut, n
      <4>2. k * Chunk = (k - 1) * Chunk + Chunk
        OBVIOUS
      <4>3. (k - 1) * Chunk \in Nat /\ k * Chunk < len
        BY <2>5, <4>1
      <4> HIDE DEF Cut
      <4> QED BY <3>1, <4>1, <4>2, <4>3
    <3> QED BY <3>2, <3>3
  <2> QED BY <2>1, <2>2, <2>3, <2>7, <2>8, <2>9 DEF n
<1> QED BY <1>2, <1>3

\* A TLV of a type, with a sequence of elements of E.
TlvTypes == {"req_id", "role", "status", "cmd", "data"}
TlvOf(E) == [type : TlvTypes, value : Seq(E)]

\* The TLVs of a value are its pieces, all of them full but the last.
LEMMA TlvsAre ==
  ASSUME Chunk \in Nat \ {0}, NEW E, NEW type \in TlvTypes, NEW v \in Seq(E)
  PROVE  LET T == Commands!Tlvs(type, v)
             n == Tally(Len(v))
         IN  /\ T \in Seq(TlvOf(E)) /\ Len(T) = n /\ Len(v) \in Nat
             /\ \A k \in 1..n : /\ T[k].type = type
                                /\ T[k].value = SubSeq(v, Cut(Len(v), k - 1) + 1, Cut(Len(v), k))
                                /\ Len(T[k].value) = Cut(Len(v), k) - Cut(Len(v), k - 1)
<1> DEFINE len == Len(v)
           n == Tally(len)
           Piece(k) == SubSeq(v, Cut(len, k - 1) + 1, Cut(len, k))
           T == [k \in 1..n |-> [type |-> type, value |-> Piece(k)]]
<1>1. len \in Nat /\ (v = <<>> <=> len = 0) /\ \A i \in 1..len : v[i] \in E
  OBVIOUS
<1>2. /\ n \in Nat \ {0} /\ Cut(len, n) = len
      /\ \A k \in 1..n : /\ Cut(len, k - 1) = (k - 1) * Chunk
                         /\ Cut(len, k) \in Nat /\ Cut(len, k - 1) \in Nat
                         /\ Cut(len, k - 1) <= Cut(len, k) /\ Cut(len, k) <= len
  BY <1>1, Cuts
<1>3. Commands!Tlvs(type, v) = T
  <2> DEFINE m == IF v = <<>> THEN 1 ELSE (len + Chunk - 1) \div Chunk
             U == [k \in 1..m |-> [type |-> type,
                      value |-> SubSeq(v, (k - 1) * Chunk + 1, IF k = m THEN len ELSE k * Chunk)]]
  <2>1. Commands!Tlvs(type, v) = U
    BY DEF Commands!Tlvs
  <2>2. m = n
    BY <1>1 DEF Tally
  <2>3. ASSUME NEW k \in 1..n
        PROVE  SubSeq(v, (k - 1) * Chunk + 1, IF k = n THEN len ELSE k * Chunk) = Piece(k)
    <3>1. Cut(len, k - 1) = (k - 1) * Chunk
      BY <1>2
    <3>2. Cut(len, k) = IF k = n THEN len ELSE k * Chunk
      BY DEF Cut
    <3> QED BY <3>1, <3>2, Zenon
  <2> HIDE DEF m, n, len, Piece
  <2>4. U = T
    BY <2>2, <2>3
  <2> QED BY <2>1, <2>4
<1>4. ASSUME NEW k \in 1..n
      PROVE  Piece(k) \in Seq(E) /\ Len(Piece(k)) = Cut(len, k) - Cut(len, k - 1)
  <2> DEFINE a == Cut(len, k - 1) + 1
             b == Cut(len, k)
  <2>1. a \in Int /\ b \in Int /\ 1 <= a /\ b <= len /\ a <= b + 1
    BY <1>2
  <2> HIDE DEF a, b, len
  <2>2. \A i \in a..b : v[i] \in E
    BY <1>1, <2>1
  <2>3. SubSeq(v, a, b) \in Seq(E) /\ Len(SubSeq(v, a, b)) = IF a <= b THEN b - a + 1 ELSE 0
    BY <2>1, <2>2, SubSeqProperties
  <2>4. Len(SubSeq(v, a, b)) = b - a + 1
    BY <2>1, <2>3
  <2>5. b - a + 1 = Cut(len, k) - Cut(len, k - 1)
    BY <1>1, <1>2 DEF a, b
  <2> QED BY <2>3, <2>4, <2>5 DEF a, b
<1> HIDE DEF Piece, n
<1>5. T \in Seq(TlvOf(E)) /\ Len(T) = n
  <2>1. \A k \in 1..n : [type |-> type, value |-> Piece(k)] \in TlvOf(E)
    BY <1>4 DEF TlvOf
  <2> QED BY <1>2, <2>1
<1>6. ASSUME NEW k \in 1..n
      PROVE  /\ T[k].type = type /\ T[k].value = Piece(k)
             /\ Len(T[k].value) = Cut(len, k) - Cut(len, k - 1)
  <2>1. T[k].type = type /\ T[k].value = Piece(k)
    OBVIOUS
  <2> QED BY <1>4, <2>1, Zenon
<1> HIDE DEF T
<1> QED BY <1>1, <1>3, <1>5, <1>6 DEF n, Piece

\* Each of them holds a sequence.
LEMMA HoldsValue ==
  ASSUME NEW E, NEW M \in Seq(TlvOf(E)), NEW n \in 1..Len(M)
  PROVE  M[n].type \in TlvTypes /\ M[n].value \in Seq(E) /\ Len(M[n].value) \in Nat
<1>1. M[n] \in TlvOf(E)
  OBVIOUS
<1> DEFINE tlv == M[n]
<1> HIDE DEF tlv
<1>2. tlv.type \in TlvTypes /\ tlv.value \in Seq(E)
  BY <1>1 DEF TlvOf, tlv
<1>3. Len(tlv.value) \in Nat
  BY <1>2
<1> QED BY <1>2, <1>3 DEF tlv

\* The bytes of the first TLVs add up to those of all.
LEMMA SizeIs ==
  ASSUME NEW E, NEW M \in Seq(TlvOf(E))
  PROVE  \E f \in [0..Len(M) -> Nat] :
            /\ Commands!Size(M) = f[Len(M)] /\ f[0] = 0
            /\ \A n \in 1..Len(M) : f[n] = f[n - 1] + 2 + Len(M[n].value)
<1> DEFINE D == 0..Len(M)
           val == [x \in D |-> 0]
           add(x) == 2 + Len(M[x].value)
           step == [x \in D |-> [s \in Nat |-> s + add(x)]]
           next == [x \in D |-> x - 1]
           rest == [x \in D |-> x]
           Adds(f) == f = [n \in D |-> IF n = 0 THEN 0 ELSE f[n - 1] + 2 + Len(M[n].value)]
           size == CHOOSE f : Adds(f)
<1>1. Len(M) \in Nat /\ \A x \in 1..Len(M) : add(x) \in Nat
  <2>1. \A x \in 1..Len(M) : M[x].value \in Seq(E)
    BY HoldsValue
  <2> QED BY <2>1, HoldsValue
<1> HIDE DEF add
<1>2. CountsDown(D, {0}, next, rest, Len(M))
  BY <1>1 DEF CountsDown
<1>3. \A x \in D : IF x \in {0} THEN val[x] \in Nat ELSE step[x] \in [Nat -> Nat]
  BY <1>1
<1>4. PICK f \in [D -> Nat] : Recurs(f, D, {0}, val, step, next)
  <2> HIDE DEF D, val, step, next, rest
  <2> QED BY <1>1, <1>2, <1>3, RecursionEnds, Zenon
<1>5. Adds(f)
  <2>1. f = [x \in D |-> IF x \in {0} THEN val[x] ELSE step[x][f[next[x]]]]
    BY <1>4 DEF Recurs
  <2>2. ASSUME NEW x \in D
        PROVE  (IF x \in {0} THEN val[x] ELSE step[x][f[next[x]]])
                  = IF x = 0 THEN 0 ELSE f[x - 1] + 2 + Len(M[x].value)
    <3>1. CASE x = 0
      BY <3>1
    <3>2. CASE x # 0
      <4>1. x - 1 \in D /\ f[x - 1] \in Nat /\ x \in 1..Len(M)
        BY <1>1, <3>2
      <4>2. step[x][f[next[x]]] = f[x - 1] + add(x)
        BY <4>1
      <4>3. add(x) \in Nat /\ add(x) = 2 + Len(M[x].value)
        BY <1>1, <4>1 DEF add
      <4>4. f[x - 1] + 2 + Len(M[x].value) = f[x - 1] + add(x)
        <5> DEFINE a == f[x - 1]
                   len == Len(M[x].value)
        <5>1. a \in Nat /\ len \in Nat /\ add(x) = 2 + len
          BY <4>1, <4>3, HoldsValue
        <5> HIDE DEF a, len, add
        <5>2. a + 2 + len = a + add(x)
          BY <5>1
        <5> QED BY <5>2 DEF a, len
      <4> QED BY <3>2, <4>2, <4>4
    <3> QED BY <3>1, <3>2
  <2> HIDE DEF D, val, step, next
  <2> QED BY <2>1, <2>2
<1>6. Adds(size)
  BY <1>5
<1>7. Commands!Size(M) = size[Len(M)]
  BY DEF Commands!Size
<1>8. size \in [D -> Nat] /\ size[0] = 0
      /\ \A n \in 1..Len(M) : size[n] = size[n - 1] + 2 + Len(M[n].value)
  <2> HIDE DEF size
  <2>1. size[0] = 0 /\ DOMAIN size = D
    BY <1>1, <1>6
  <2>2. ASSUME NEW n \in 1..Len(M)
        PROVE  n - 1 \in D /\ size[n] = size[n - 1] + 2 + Len(M[n].value)
    <3>1. n \in D /\ n # 0 /\ n - 1 \in D
      BY <1>1
    <3>2. size[n] = IF n = 0 THEN 0 ELSE size[n - 1] + 2 + Len(M[n].value)
      <4> HIDE DEF D
      <4> QED BY <1>6, <3>1
    <3> QED BY <3>1, <3>2
  <2>3. \A x \in D : x \in {y \in D : size[y] \in Nat}
    <3> DEFINE S == {y \in D : size[y] \in Nat}
    <3>1. 0 \in S
      BY <1>1, <2>1
    <3>2. ASSUME NEW i \in 0..(Len(M) - 1), i \in S PROVE i + 1 \in S
      <4>1. i + 1 \in 1..Len(M) /\ (i + 1) - 1 = i /\ size[i] \in Nat
        BY <1>1, <3>2
      <4>2. Len(M[i + 1].value) \in Nat
        BY <4>1, HoldsValue
      <4>3. size[i + 1] = size[i] + 2 + Len(M[i + 1].value)
        BY <2>2, <4>1
      <4> QED BY <4>1, <4>2, <4>3
    <3> HIDE DEF S
    <3>3. \A i \in 0..Len(M) : i \in S
      BY <1>1, <3>1, <3>2, Upwards, Zenon
    <3> QED BY <3>3 DEF S
  <2>4. size \in [D -> Nat]
    BY <1>6, <2>3
  <2> QED BY <2>1, <2>2, <2>4
<1> HIDE DEF size
<1> QED BY <1>7, <1>8

\* Values are joined one behind the other.
LEMMA JoinedIs ==
  ASSUME NEW E, NEW W \in Seq(Seq(E))
  PROVE  \E f \in [0..Len(W) -> Seq(E)] :
            /\ Commands!Joined(W) = f[Len(W)] /\ f[0] = <<>>
            /\ \A n \in 1..Len(W) : f[n] = f[n - 1] \o W[n]
<1> DEFINE D == 0..Len(W)
           val == [x \in D |-> <<>>]
           step == [x \in D |-> [s \in Seq(E) |-> s \o W[x]]]
           next == [x \in D |-> x - 1]
           rest == [x \in D |-> x]
           Joins(f) == f = [n \in D |-> IF n = 0 THEN <<>> ELSE f[n - 1] \o W[n]]
           joined == CHOOSE f : Joins(f)
<1>1. Len(W) \in Nat /\ \A x \in 1..Len(W) : W[x] \in Seq(E)
  OBVIOUS
<1>2. CountsDown(D, {0}, next, rest, Len(W))
  BY <1>1 DEF CountsDown
<1>3. \A x \in D : IF x \in {0} THEN val[x] \in Seq(E) ELSE step[x] \in [Seq(E) -> Seq(E)]
  BY <1>1
<1>4. PICK f \in [D -> Seq(E)] : Recurs(f, D, {0}, val, step, next)
  <2> HIDE DEF D, val, step, next, rest
  <2> QED BY <1>1, <1>2, <1>3, RecursionEnds, Zenon
<1>5. Joins(f)
  <2>1. f = [x \in D |-> IF x \in {0} THEN val[x] ELSE step[x][f[next[x]]]]
    BY <1>4 DEF Recurs
  <2>2. ASSUME NEW x \in D
        PROVE  (IF x \in {0} THEN val[x] ELSE step[x][f[next[x]]])
                  = IF x = 0 THEN <<>> ELSE f[x - 1] \o W[x]
    <3>1. CASE x = 0
      BY <3>1
    <3>2. CASE x # 0
      <4>3. x - 1 \in D
        BY <1>1, <3>2
      <4>1. x - 1 \in D /\ f[x - 1] \in Seq(E)
        <5> HIDE DEF D
        <5> QED BY <1>4, <4>3
      <4>2. step[x][f[next[x]]] = f[x - 1] \o W[x]
        BY <4>1
      <4> QED BY <3>2, <4>2
    <3> QED BY <3>1, <3>2
  <2> HIDE DEF D, val, step, next
  <2> QED BY <2>1, <2>2
<1>6. Joins(joined)
  BY <1>5
<1>7. Commands!Joined(W) = joined[Len(W)]
  BY DEF Commands!Joined
<1>8. joined \in [D -> Seq(E)] /\ joined[0] = <<>>
      /\ \A n \in 1..Len(W) : joined[n] = joined[n - 1] \o W[n]
  <2> HIDE DEF joined
  <2>1. joined[0] = <<>> /\ DOMAIN joined = D
    BY <1>1, <1>6
  <2>2. ASSUME NEW n \in 1..Len(W)
        PROVE  n - 1 \in D /\ joined[n] = joined[n - 1] \o W[n]
    <3>1. n \in D /\ n # 0 /\ n - 1 \in D
      BY <1>1
    <3>2. joined[n] = IF n = 0 THEN <<>> ELSE joined[n - 1] \o W[n]
      <4> HIDE DEF D
      <4> QED BY <1>6, <3>1
    <3> QED BY <3>1, <3>2
  <2>3. \A x \in D : x \in {y \in D : joined[y] \in Seq(E)}
    <3> DEFINE S == {y \in D : joined[y] \in Seq(E)}
    <3>1. 0 \in S
      <4>1. 0 \in D /\ <<>> \in Seq(E)
        BY <1>1
      <4> HIDE DEF D
      <4> QED BY <2>1, <4>1, Zenon
    <3>2. ASSUME NEW i \in 0..(Len(W) - 1), i \in S PROVE i + 1 \in S
      <4>1. i + 1 \in 1..Len(W) /\ (i + 1) - 1 = i /\ joined[i] \in Seq(E)
        BY <1>1, <3>2
      <4>2. joined[i + 1] = joined[i] \o W[i + 1]
        BY <2>2, <4>1
      <4>3. joined[i] \o W[i + 1] \in Seq(E)
        <5>1. W[i + 1] \in Seq(E)
          BY <1>1, <4>1
        <5> QED BY <4>1, <5>1, ConcatProperties
      <4>4. joined[i + 1] \in Seq(E) /\ i + 1 \in D
        <5>1. i + 1 \in D
          BY <1>1
        <5> HIDE DEF D
        <5> QED BY <4>2, <4>3, <5>1, Zenon
      <4> HIDE DEF D
      <4> QED BY <4>4, Zenon
    <3> HIDE DEF S
    <3>3. \A i \in 0..Len(W) : i \in S
      BY <1>1, <3>1, <3>2, Upwards, Zenon
    <3> QED BY <3>3 DEF S
  <2>4. joined \in [D -> Seq(E)]
    BY <1>6, <2>3
  <2> QED BY <2>1, <2>2, <2>4
<1> HIDE DEF joined
<1> QED BY <1>7, <1>8

\* Empty values join to an empty one.
LEMMA JoinedEmpty ==
  ASSUME NEW E, NEW W \in Seq(Seq(E)), \A k \in 1..Len(W) : W[k] = <<>>
  PROVE  Commands!Joined(W) = <<>>
<1>1. PICK f \in [0..Len(W) -> Seq(E)] :
         /\ Commands!Joined(W) = f[Len(W)] /\ f[0] = <<>>
         /\ \A n \in 1..Len(W) : f[n] = f[n - 1] \o W[n]
  BY JoinedIs
<1> DEFINE S == {i \in 0..Len(W) : f[i] = <<>>}
<1>2. Len(W) \in Nat /\ 0 \in S
  BY <1>1
<1>3. ASSUME NEW i \in 0..(Len(W) - 1), i \in S PROVE i + 1 \in S
  <2>1. i + 1 \in 1..Len(W) /\ (i + 1) - 1 = i /\ f[i] = <<>>
    BY <1>2, <1>3
  <2>2. f[i + 1] = <<>> \o <<>>
    BY <1>1, <2>1
  <2>3. f[i + 1] = <<>>
    BY <2>2
  <2> QED BY <2>1, <2>3
<1> HIDE DEF S
<1>4. \A i \in 0..Len(W) : i \in S
  BY <1>2, <1>3, Upwards, Zenon
<1> QED BY <1>1, <1>2, <1>4 DEF S

\* The pieces of a value, with empty ones before and behind them, join to it.
LEMMA JoinedPieces ==
  ASSUME Chunk \in Nat \ {0}, NEW E, NEW v \in Seq(E), NEW W \in Seq(Seq(E)),
         NEW a \in Nat, a + Tally(Len(v)) <= Len(W),
         \A k \in 1..Len(W) :
            W[k] = IF a < k /\ k <= a + Tally(Len(v))
                   THEN SubSeq(v, Cut(Len(v), k - a - 1) + 1, Cut(Len(v), k - a)) ELSE <<>>
  PROVE  Commands!Joined(W) = v
<1> DEFINE len == Len(v)
           n == Tally(len)
           To(i) == IF i <= a THEN 0 ELSE IF i <= a + n THEN Cut(len, i - a) ELSE len
<1>1. PICK f \in [0..Len(W) -> Seq(E)] :
         /\ Commands!Joined(W) = f[Len(W)] /\ f[0] = <<>>
         /\ \A i \in 1..Len(W) : f[i] = f[i - 1] \o W[i]
  BY JoinedIs
<1>2. /\ len \in Nat /\ n \in Nat \ {0} /\ Cut(len, 0) = 0 /\ Cut(len, n) = len
      /\ \A k \in 1..n : /\ Cut(len, k) \in Nat /\ Cut(len, k - 1) \in Nat
                         /\ Cut(len, k - 1) <= Cut(len, k) /\ Cut(len, k) <= len
  <2>1. len \in Nat
    OBVIOUS
  <2> HIDE DEF len
  <2> QED BY <2>1, Cuts
<1>3. SubSeq(v, 1, 0) = <<>> /\ SubSeq(v, 1, len) = v
  BY SubSeqFull, SubSeqEmpty
<1> DEFINE S == {i \in 0..Len(W) : f[i] = SubSeq(v, 1, To(i))}
<1>4. Len(W) \in Nat /\ 0 \in S
  <2>1. To(0) = 0
    OBVIOUS
  <2>2. Len(W) \in Nat /\ 0 \in 0..Len(W)
    OBVIOUS
  <2> HIDE DEF To
  <2>3. f[0] = SubSeq(v, 1, To(0))
    BY <1>1, <1>3, <2>1, Zenon
  <2> QED BY <2>2, <2>3, Zenon
<1>5. ASSUME NEW i \in 0..(Len(W) - 1), i \in S PROVE i + 1 \in S
  <2>1. /\ i + 1 \in 1..Len(W) /\ (i + 1) - 1 = i /\ f[i] = SubSeq(v, 1, To(i))
        /\ i + 1 \in 0..Len(W) /\ i \in Nat
    BY <1>4, <1>5
  <2>2. f[i + 1] = SubSeq(v, 1, To(i)) \o W[i + 1]
    BY <1>1, <2>1
  <2>3. CASE i + 1 <= a
    <3>1. To(i) = 0 /\ To(i + 1) = 0 /\ W[i + 1] = <<>>
      BY <2>1, <2>3
    <3>2. <<>> \o <<>> = <<>>
      OBVIOUS
    <3> QED BY <1>3, <2>1, <2>2, <3>1, <3>2, Zenon
  <2>4. CASE a < i + 1 /\ i + 1 <= a + n
    <3> DEFINE k == (i + 1) - a
    <3>1. k \in 1..n /\ (i + 1) - a - 1 = k - 1 /\ i - a = k - 1
      BY <1>2, <2>1, <2>4
    <3>2. To(i + 1) = Cut(len, k)
      BY <2>4, <2>1
    <3>3. To(i) = Cut(len, k - 1)
      <4>1. CASE i <= a
        <5>1. k - 1 = 0
          BY <2>1, <2>4, <4>1
        <5> QED BY <1>2, <4>1, <5>1
      <4>2. CASE ~(i <= a)
        <5>1. i <= a + n
          BY <1>2, <2>1, <2>4
        <5> QED BY <3>1, <4>2, <5>1, Zenon
      <4> QED BY <4>1, <4>2
    <3>4. W[i + 1] = SubSeq(v, Cut(len, k - 1) + 1, Cut(len, k))
      BY <2>1, <2>4, <3>1
    <3> HIDE DEF k, To
    <3>5. Cut(len, k - 1) \in 0..len /\ Cut(len, k) \in Cut(len, k - 1)..len
      BY <1>2, <3>1
    <3>6. SubSeq(v, 1, Cut(len, k - 1)) \o SubSeq(v, Cut(len, k - 1) + 1, Cut(len, k))
             = SubSeq(v, 1, Cut(len, k))
      <4> DEFINE b == Cut(len, k - 1)
                 c == Cut(len, k)
      <4> HIDE DEF b, c
      <4>1. b \in 1 - 1..Len(v) /\ c \in b..Len(v) /\ 1 \in 1..Len(v) + 1
        BY <1>2, <3>5 DEF b, c, len
      <4>2. SubSeq(v, 1, b) \o SubSeq(v, b + 1, c) = SubSeq(v, 1, c)
        BY <4>1, ConcatAdjacentSubSeq
      <4> QED BY <4>2 DEF b, c
    <3> QED BY <2>1, <2>2, <3>2, <3>3, <3>4, <3>6, Zenon
  <2>5. CASE ~(i + 1 <= a + n)
    <3>1. To(i + 1) = len /\ W[i + 1] = <<>>
      BY <1>2, <2>1, <2>5
    <3>2. To(i) = len
      <4>1. CASE i = a + n
        <5>1. ~(i <= a) /\ i <= a + n /\ i - a = n
          BY <1>2, <4>1
        <5> QED BY <1>2, <5>1
      <4>2. CASE i # a + n
        <5>1. ~(i <= a) /\ ~(i <= a + n)
          <6> HIDE DEF n
          <6> QED BY <1>2, <2>1, <2>5, <4>2
        <5> QED BY <5>1, Zenon
      <4> QED BY <4>1, <4>2
    <3>3. v \o <<>> = v
      OBVIOUS
    <3> HIDE DEF To, len
    <3> QED BY <1>3, <2>1, <2>2, <3>1, <3>2, <3>3, Zenon
  <2>6. i + 1 <= a \/ (a < i + 1 /\ i + 1 <= a + n) \/ ~(i + 1 <= a + n)
    BY <2>1
  <2> QED BY <2>3, <2>4, <2>5, <2>6
<1> HIDE DEF S
<1>6. \A i \in 0..Len(W) : i \in S
  BY <1>4, <1>5, Upwards, Zenon
<1>7. To(Len(W)) = len
  <2>1. Len(W) \in Nat /\ a + n <= Len(W) /\ ~(Len(W) <= a)
    BY <1>2, <1>4
  <2>2. CASE Len(W) = a + n
    <3>1. Len(W) - a = n
      BY <1>2, <2>2
    <3> QED BY <1>2, <2>1, <2>2, <3>1
  <2>3. CASE Len(W) # a + n
    BY <1>2, <2>1, <2>3
  <2> QED BY <2>2, <2>3
<1>8. f[Len(W)] = SubSeq(v, 1, To(Len(W)))
  BY <1>4, <1>6 DEF S
<1> HIDE DEF To
<1> QED BY <1>1, <1>3, <1>7, <1>8

\* The least of a set of natural numbers is that which none of it is below.
LEMMA MinIs ==
  ASSUME NEW S \in SUBSET Nat, NEW m \in S, \A k \in S : m <= k
  PROVE  Commands!Min(S) = m
<1>1. \A x \in S : (\A y \in S : x <= y) => x = m
  <2> SUFFICES ASSUME NEW x \in S, \A y \in S : x <= y PROVE x = m
    OBVIOUS
  <2>1. x <= m /\ m <= x /\ x \in Nat /\ m \in Nat
    OBVIOUS
  <2> QED BY <2>1
<1> QED BY <1>1 DEF Commands!Min

\* From place a on, M has the TLVs of v, and no others of their type.
Spans(M, type, v, a) ==
    /\ a + Tally(Len(v)) <= Len(M)
    /\ \A k \in 1..Len(M) :
          IF a < k /\ k <= a + Tally(Len(v))
          THEN /\ M[k].type = type
               /\ M[k].value = SubSeq(v, Cut(Len(v), k - a - 1) + 1, Cut(Len(v), k - a))
               /\ Len(M[k].value) = Cut(Len(v), k - a) - Cut(Len(v), k - a - 1)
          ELSE M[k].type # type

Lacks(M, type) == \A k \in 1..Len(M) : M[k].type # type

\* M has the value v of a type, or no value and v is empty.
Tells(M, type, v) == (\E a \in Nat : Spans(M, type, v, a)) \/ (Lacks(M, type) /\ v = <<>>)

\* The first place of a set of them, or 0.
FirstOf(I) == IF I # {} THEN Commands!Min(I) ELSE 0
OfType(M, type) == {i \in 1..Len(M) : M[i].type = type}

\* The first TLV of a type.
LEMMA FirstOfType ==
  ASSUME NEW E, NEW M \in Seq(TlvOf(E)), NEW type
  PROVE  /\ Lacks(M, type) => FirstOf(OfType(M, type)) = 0
         /\ \A a \in 1..Len(M) :
               M[a].type = type /\ (\A k \in 1..Len(M) : M[k].type = type => a <= k)
                  => FirstOf(OfType(M, type)) = a
<1> DEFINE I == OfType(M, type)
<1>1. ASSUME Lacks(M, type) PROVE FirstOf(I) = 0
  <2>1. I = {}
    BY <1>1 DEF Lacks, OfType
  <2> HIDE DEF I
  <2> QED BY <2>1 DEF FirstOf
<1>2. ASSUME NEW a \in 1..Len(M), M[a].type = type,
             \A k \in 1..Len(M) : M[k].type = type => a <= k
      PROVE  FirstOf(I) = a
  <2>1. a \in I /\ I \in SUBSET Nat /\ \A k \in I : a <= k
    BY <1>2 DEF OfType
  <2> HIDE DEF I
  <2>2. Commands!Min(I) = a
    BY <2>1, MinIs
  <2> QED BY <2>1, <2>2 DEF FirstOf
<1> HIDE DEF I
<1> QED BY <1>1, <1>2 DEF I

\* A value that M tells is said, and read if the buffer has room.
LEMMA Told ==
  ASSUME Chunk \in Nat \ {0}, NEW E, NEW M \in Seq(TlvOf(E)), NEW type, NEW v \in Seq(E),
         Tells(M, type, v)
  PROVE  /\ Commands!Said(M, type) = v
         /\ \A size \in Nat : Len(v) <= size => Commands!Value(M, type, size) = v
<1> DEFINE N == Len(M)
           W == [k \in 1..N |-> IF M[k].type = type THEN M[k].value ELSE <<>>]
           first == FirstOf(OfType(M, type))
           InRun(k) == \A j \in first..k : /\ M[j].type = type
                                           /\ j < k => Len(M[j].value) = Chunk
           X == [k \in 1..N |-> IF k >= first /\ InRun(k) THEN M[k].value ELSE <<>>]
<1>1. N \in Nat /\ DOMAIN M = 1..N /\ <<>> \in Seq(E) /\ \A k \in 1..N : M[k].value \in Seq(E)
  BY HoldsValue
<1>2. W \in Seq(Seq(E)) /\ Len(W) = N
  <2>1. \A k \in 1..N : (IF M[k].type = type THEN M[k].value ELSE <<>>) \in Seq(E)
    BY <1>1
  <2> QED BY <1>1, <2>1
<1>3. X \in Seq(Seq(E)) /\ Len(X) = N
  <2> HIDE DEF InRun, first
  <2>1. \A k \in 1..N : (IF k >= first /\ InRun(k) THEN M[k].value ELSE <<>>) \in Seq(E)
    BY <1>1
  <2> QED BY <1>1, <2>1
<1>4. Commands!Said(M, type) = Commands!Joined(W)
  BY <1>1 DEF Commands!Said
<1>5. ASSUME NEW size
      PROVE  Commands!Value(M, type, size) =
                IF first = 0 \/ Len(Commands!Joined(X)) > size THEN <<>> ELSE Commands!Joined(X)
  BY <1>1 DEF Commands!Value, Commands!SelectInSeq, FirstOf, OfType
<1>9. /\ Lacks(M, type) => first = 0
      /\ \A c \in 1..N :
            M[c].type = type /\ (\A k \in 1..N : M[k].type = type => c <= k) => first = c
  BY FirstOfType
<1>6. CASE Lacks(M, type) /\ v = <<>>
  <2>1. first = 0
    BY <1>6, <1>9
  <2>2. \A k \in 1..N : W[k] = <<>>
    BY <1>6 DEF Lacks
  <2> HIDE DEF W, X, first, N
  <2>3. Commands!Joined(W) = <<>>
    BY <1>2, <2>2, JoinedEmpty
  <2> QED BY <1>4, <1>5, <1>6, <2>1, <2>3
<1>7. ASSUME NEW a \in Nat, Spans(M, type, v, a)
      PROVE  Commands!Joined(W) = v /\ first = a + 1 /\ Commands!Joined(X) = v
  <2> DEFINE len == Len(v)
             n == Tally(len)
             Piece(k) == SubSeq(v, Cut(len, k - a - 1) + 1, Cut(len, k - a))
  <2>1. /\ len \in Nat /\ n \in Nat \ {0}
        /\ \A k \in 1..n : k < n => Cut(len, k) = Cut(len, k - 1) + Chunk /\ Cut(len, k - 1) \in Nat
    <3>1. len \in Nat
      OBVIOUS
    <3> HIDE DEF len
    <3> QED BY <3>1, Cuts
  <2> HIDE DEF len, n
  <2>2. /\ a + n <= N
        /\ \A k \in 1..N :
              IF a < k /\ k <= a + n
              THEN /\ M[k].type = type /\ M[k].value = Piece(k)
                   /\ Len(M[k].value) = Cut(len, k - a) - Cut(len, k - a - 1)
              ELSE M[k].type # type
    BY <1>7 DEF Spans, len, n
  <2> HIDE DEF Piece
  <2>3. \A k \in 1..N : W[k] = IF a < k /\ k <= a + n THEN Piece(k) ELSE <<>>
    BY <2>2
  <2>4. first = a + 1
    <3>1. a + 1 \in 1..N /\ a < a + 1 /\ a + 1 <= a + n
      BY <1>1, <2>1, <2>2
    <3>2. M[a + 1].type = type
      BY <2>2, <3>1
    <3>3. \A k \in 1..N : M[k].type = type => a + 1 <= k
      <4> SUFFICES ASSUME NEW k \in 1..N, M[k].type = type PROVE a + 1 <= k
        OBVIOUS
      <4>1. a < k
        BY <2>2
      <4> QED BY <4>1
    <3> DEFINE b == a + 1
    <3>4. \A c \in 1..N : M[c].type = type /\ (\A k \in 1..N : M[k].type = type => c <= k)
                            => first = c
      BY <1>9, Zenon
    <3> HIDE DEF first, b
    <3>5. b \in 1..N /\ M[b].type = type /\ \A k \in 1..N : M[k].type = type => b <= k
      BY <3>1, <3>2, <3>3, Zenon DEF b
    <3>6. first = b
      BY <3>4, <3>5, Zenon
    <3> QED BY <3>6 DEF b
  <2>5. ASSUME NEW k \in 1..N, a < k, k <= a + n PROVE InRun(k)
    <3> SUFFICES ASSUME NEW j \in first..k
                 PROVE  M[j].type = type /\ (j < k => Len(M[j].value) = Chunk)
      BY Zenon
    <3> HIDE DEF first
    <3>1. j \in 1..N /\ a < j /\ j <= a + n
      BY <1>1, <2>1, <2>4, <2>5
    <3>2. M[j].type = type /\ Len(M[j].value) = Cut(len, j - a) - Cut(len, j - a - 1)
      BY <2>2, <3>1
    <3>3. ASSUME j < k PROVE Len(M[j].value) = Chunk
      <4> DEFINE i == j - a
      <4>1. i \in 1..n /\ i < n /\ j - a - 1 = i - 1
        BY <2>1, <2>5, <3>1, <3>3
      <4> HIDE DEF i
      <4>2. Cut(len, i) = Cut(len, i - 1) + Chunk /\ Cut(len, i - 1) \in Nat
        BY <2>1, <4>1
      <4>3. Len(M[j].value) = Cut(len, i) - Cut(len, i - 1)
        BY <3>2, <4>1 DEF i
      <4> QED BY <4>2, <4>3
    <3> QED BY <3>2, <3>3
  <2>6. ASSUME NEW k \in 1..N, k > a + n PROVE ~InRun(k)
    <3>1. k \in first..k
      BY <2>1, <2>4, <2>6
    <3>2. M[k].type # type
      BY <2>1, <2>2, <2>6
    <3> HIDE DEF first
    <3> QED BY <3>1, <3>2, Zenon
  <2>7. \A k \in 1..N : X[k] = IF a < k /\ k <= a + n THEN Piece(k) ELSE <<>>
    <3> HIDE DEF InRun, first
    <3> SUFFICES ASSUME NEW k \in 1..N
                 PROVE  X[k] = IF a < k /\ k <= a + n THEN Piece(k) ELSE <<>>
      BY Zenon
    <3>1. X[k] = IF k >= first /\ InRun(k) THEN M[k].value ELSE <<>>
      BY Zenon
    <3> HIDE DEF X
    <3>2. CASE a < k /\ k <= a + n
      <4>1. k >= first /\ InRun(k) /\ M[k].value = Piece(k)
        BY <2>2, <2>4, <2>5, <3>2
      <4> QED BY <3>1, <3>2, <4>1, Zenon
    <3>3. CASE k <= a
      <4>1. ~(k >= first) /\ ~(a < k)
        BY <2>4, <3>3
      <4> QED BY <3>1, <4>1, Zenon
    <3>4. CASE k > a + n
      <4>1. ~InRun(k) /\ ~(k <= a + n)
        BY <2>1, <2>6, <3>4
      <4> QED BY <3>1, <4>1, Zenon
    <3> QED BY <2>1, <3>2, <3>3, <3>4
  <2> HIDE DEF W, X, first, N, InRun
  <2>8. Commands!Joined(W) = v
    BY <1>2, <2>2, <2>3, JoinedPieces DEF len, n, Piece
  <2>9. Commands!Joined(X) = v
    BY <1>3, <2>2, <2>7, JoinedPieces DEF len, n, Piece
  <2> QED BY <2>4, <2>8, <2>9
<1>8. CASE \E a \in Nat : Spans(M, type, v, a)
  <2> HIDE DEF W, X, first, N
  <2>1. PICK a \in Nat : Spans(M, type, v, a)
    BY <1>8
  <2>2. Commands!Joined(W) = v /\ first = a + 1 /\ Commands!Joined(X) = v
    BY <1>7, <2>1
  <2>3. first # 0
    BY <2>2
  <2>4. ASSUME NEW size \in Nat, Len(v) <= size PROVE Commands!Value(M, type, size) = v
    <3>1. ~(Len(v) > size)
      BY <2>4
    <3> QED BY <1>5, <2>2, <2>3, <3>1, Zenon
  <2> QED BY <1>4, <2>2, <2>4
<1> QED BY <1>6, <1>8 DEF Tells

\* The pieces of a value take its bytes and a header each.
LEMMA SizeOfPieces ==
  ASSUME Chunk \in Nat \ {0}, NEW E, NEW M \in Seq(TlvOf(E)), NEW type \in TlvTypes, NEW v \in Seq(E)
  PROVE  /\ Commands!Size(M) \in Nat
         /\ Commands!Size(M \o Commands!Tlvs(type, v))
               = Commands!Size(M) + 2 * Tally(Len(v)) + Len(v)
<1> DEFINE T == Commands!Tlvs(type, v)
           len == Len(v)
           n == Tally(len)
           N == M \o T
           m == Len(M)
<1>1. /\ T \in Seq(TlvOf(E)) /\ Len(T) = n /\ len \in Nat
      /\ \A k \in 1..n : Len(T[k].value) = Cut(len, k) - Cut(len, k - 1)
  BY TlvsAre, ZenonT(60)
<1> HIDE DEF T, len
<1>2. /\ n \in Nat \ {0} /\ Cut(len, 0) = 0 /\ Cut(len, n) = len
      /\ \A k \in 1..n : Cut(len, k) \in Nat /\ Cut(len, k - 1) \in Nat
  BY <1>1, Cuts
<1> HIDE DEF n
<1>3. /\ N \in Seq(TlvOf(E)) /\ Len(N) = m + n /\ m \in Nat
      /\ \A k \in 1..m : N[k] = M[k]
      /\ \A k \in 1..n : N[m + k] = T[k]
  <2>1. N \in Seq(TlvOf(E)) /\ Len(N) = m + n /\ m \in Nat
    <3>1. m \in Nat
      OBVIOUS
    <3>2. M \o T \in Seq(TlvOf(E)) /\ Len(M \o T) = Len(M) + Len(T)
      BY <1>1, ConcatProperties, Zenon
    <3> QED BY <1>1, <3>1, <3>2, Zenon
  <2>2. \A k \in 1..(m + n) : N[k] = IF k <= m THEN M[k] ELSE T[k - m]
    BY <1>1, ConcatProperties
  <2> HIDE DEF N, m
  <2>3. ASSUME NEW k \in 1..m PROVE N[k] = M[k]
    <3>1. k \in 1..(m + n) /\ k <= m
      BY <1>2, <2>1
    <3> QED BY <2>2, <3>1
  <2>4. ASSUME NEW k \in 1..n PROVE N[m + k] = T[k]
    <3>1. m + k \in 1..(m + n) /\ ~(m + k <= m) /\ (m + k) - m = k
      BY <1>2, <2>1
    <3>2. N[m + k] = IF m + k <= m THEN M[m + k] ELSE T[(m + k) - m]
      BY <2>2, <3>1, Zenon
    <3> QED BY <3>1, <3>2, Zenon
  <2> QED BY <2>1, <2>3, <2>4
<1>4. PICK f \in [0..m -> Nat] :
         /\ Commands!Size(M) = f[m] /\ f[0] = 0
         /\ \A k \in 1..m : f[k] = f[k - 1] + 2 + Len(M[k].value)
  BY SizeIs
<1> HIDE DEF N, m
<1>5. PICK g \in [0..(m + n) -> Nat] :
         /\ Commands!Size(N) = g[m + n] /\ g[0] = 0
         /\ \A k \in 1..(m + n) : g[k] = g[k - 1] + 2 + Len(N[k].value)
  <2> DEFINE l == Len(N)
  <2>1. \E g \in [0..l -> Nat] :
           /\ Commands!Size(N) = g[l] /\ g[0] = 0
           /\ \A k \in 1..l : g[k] = g[k - 1] + 2 + Len(N[k].value)
    BY <1>3, SizeIs
  <2>2. l = m + n
    BY <1>3
  <2> HIDE DEF l
  <2> QED BY <2>1, <2>2
<1>6. g[m] = f[m]
  <2> DEFINE S == {i \in 0..m : g[i] = f[i]}
  <2>1. 0 \in S
    BY <1>3, <1>4, <1>5
  <2>2. ASSUME NEW i \in 0..(m - 1), i \in S PROVE i + 1 \in S
    <3>1. i + 1 \in 1..m /\ i + 1 \in 1..(m + n) /\ (i + 1) - 1 = i /\ g[i] = f[i]
      BY <1>2, <1>3, <2>2
    <3>2. N[i + 1] = M[i + 1]
      BY <1>3, <3>1
    <3>3. g[i + 1] = g[i] + 2 + Len(N[i + 1].value)
      BY <1>5, <3>1
    <3>4. f[i + 1] = f[i] + 2 + Len(M[i + 1].value)
      BY <1>4, <3>1
    <3>5. g[i + 1] = f[i + 1]
      BY <3>1, <3>2, <3>3, <3>4, Zenon
    <3> QED BY <3>1, <3>5
  <2> HIDE DEF S
  <2>3. \A i \in 0..m : i \in S
    BY <1>3, <2>1, <2>2, Upwards, Zenon
  <2> QED BY <1>3, <2>3 DEF S
<1>7. g[m + n] = f[m] + 2 * n + len
  <2> DEFINE To(k) == f[m] + 2 * k + Cut(len, k)
             S == {k \in 0..n : g[m + k] = To(k)}
  <2>1. 0 \in S
    <3>1. f[m] \in Nat /\ 0 \in 0..n /\ m + 0 = m
      BY <1>2, <1>3, <1>4
    <3>2. To(0) = f[m]
      BY <1>2, <3>1
    <3> HIDE DEF To
    <3> QED BY <1>6, <3>1, <3>2
  <2>2. ASSUME NEW k \in 0..(n - 1), k \in S PROVE k + 1 \in S
    <3>1. /\ k + 1 \in 1..n /\ m + (k + 1) \in 1..(m + n) /\ (k + 1) - 1 = k
          /\ (m + (k + 1)) - 1 = m + k /\ g[m + k] = To(k) /\ f[m] \in Nat
      BY <1>2, <1>3, <1>4, <2>2
    <3>2. g[m + (k + 1)] = g[m + k] + 2 + Len(N[m + (k + 1)].value)
      <4> DEFINE i == m + (k + 1)
      <4>1. g[i] = g[i - 1] + 2 + Len(N[i].value)
        BY <1>5, <3>1
      <4> QED BY <3>1, <4>1
    <3>3. N[m + (k + 1)] = T[k + 1]
      BY <1>3, <3>1
    <3>4. Len(T[k + 1].value) = Cut(len, k + 1) - Cut(len, k)
      BY <1>1, <3>1
    <3>5. Cut(len, k + 1) \in Nat /\ Cut(len, k) \in Nat
      BY <1>2, <3>1
    <3>6. g[m + (k + 1)] = To(k) + 2 + (Cut(len, k + 1) - Cut(len, k))
      BY <3>1, <3>2, <3>3, <3>4, Zenon
    <3>7. To(k) + 2 + (Cut(len, k + 1) - Cut(len, k)) = To(k + 1)
      BY <3>1, <3>5
    <3> HIDE DEF To
    <3> QED BY <3>1, <3>6, <3>7
  <2> HIDE DEF S
  <2>3. \A k \in 0..n : k \in S
    BY <1>2, <2>1, <2>2, Upwards, Zenon
  <2>4. n \in 0..n
    BY <1>2
  <2>5. g[m + n] = To(n)
    BY <2>3, <2>4 DEF S
  <2>6. To(n) = f[m] + 2 * n + len
    BY <1>2
  <2> HIDE DEF To
  <2> QED BY <2>5, <2>6
<1>8. f[m] \in Nat
  BY <1>3, <1>4
<1> QED BY <1>4, <1>5, <1>7, <1>8 DEF N, T, n, len

\* A value that is added goes behind what is there, and changes nothing of it.
LEMMA PiecesBehind ==
  ASSUME Chunk \in Nat \ {0}, NEW E, NEW M \in Seq(TlvOf(E)), NEW type \in TlvTypes, NEW v \in Seq(E)
  PROVE  LET N == M \o Commands!Tlvs(type, v)
         IN  /\ N \in Seq(TlvOf(E))
             /\ Lacks(M, type) => Tells(N, type, v)
             /\ \A t : t # type /\ Lacks(M, t) => Lacks(N, t)
             /\ \A t : \A w \in Seq(E) : t # type /\ Tells(M, t, w) => Tells(N, t, w)
<1> DEFINE T == Commands!Tlvs(type, v)
           n == Tally(Len(v))
           N == M \o T
           m == Len(M)
<1>1. /\ T \in Seq(TlvOf(E)) /\ Len(T) = n
      /\ \A k \in 1..n : /\ T[k].type = type
                         /\ T[k].value = SubSeq(v, Cut(Len(v), k - 1) + 1, Cut(Len(v), k))
                         /\ Len(T[k].value) = Cut(Len(v), k) - Cut(Len(v), k - 1)
  BY TlvsAre, ZenonT(60)
<1>2. n \in Nat \ {0}
  <2>1. Len(v) \in Nat
    OBVIOUS
  <2> QED BY <2>1, Cuts
<1> HIDE DEF T, n
<1>3. /\ N \in Seq(TlvOf(E)) /\ Len(N) = m + n /\ m \in Nat
      /\ \A k \in 1..(m + n) : N[k] = IF k <= m THEN M[k] ELSE T[k - m]
  <2>1. m \in Nat
    OBVIOUS
  <2>2. M \o T \in Seq(TlvOf(E)) /\ Len(M \o T) = Len(M) + Len(T)
    BY <1>1, ConcatProperties, Zenon
  <2>3. \A k \in 1..(m + n) : N[k] = IF k <= m THEN M[k] ELSE T[k - m]
    BY <1>1, ConcatProperties
  <2> QED BY <1>1, <2>1, <2>2, <2>3, Zenon
<1> HIDE DEF N, m
<1>4. ASSUME NEW k \in 1..(m + n), ~(k <= m)
      PROVE  k - m \in 1..n /\ N[k] = T[k - m] /\ N[k].type = type
  <2>1. k - m \in 1..n /\ N[k] = T[k - m]
    BY <1>2, <1>3, <1>4
  <2> QED BY <1>1, <2>1, Zenon
<1>5. ASSUME Lacks(M, type) PROVE Tells(N, type, v)
  <2>1. ASSUME NEW k \in 1..(m + n)
        PROVE  IF m < k /\ k <= m + n
               THEN /\ N[k].type = type
                    /\ N[k].value = SubSeq(v, Cut(Len(v), k - m - 1) + 1, Cut(Len(v), k - m))
                    /\ Len(N[k].value) = Cut(Len(v), k - m) - Cut(Len(v), k - m - 1)
               ELSE N[k].type # type
    <3>1. CASE k <= m
      <4>1. ~(m < k) /\ k \in 1..m /\ N[k] = M[k]
        BY <1>3, <3>1
      <4> QED BY <1>5, <4>1, Zenon DEF Lacks, m
    <3>2. CASE ~(k <= m)
      <4> DEFINE i == k - m
      <4>1. i \in 1..n /\ N[k] = T[i] /\ N[k].type = type
        BY <1>4, <3>2
      <4> HIDE DEF i
      <4>2. N[k].value = SubSeq(v, Cut(Len(v), i - 1) + 1, Cut(Len(v), i))
            /\ Len(N[k].value) = Cut(Len(v), i) - Cut(Len(v), i - 1)
        BY <1>1, <4>1, Zenon
      <4>3. m < k /\ k <= m + n
        BY <1>2, <1>3, <3>2
      <4> QED BY <4>1, <4>2, <4>3, Zenon DEF i
    <3> QED BY <3>1, <3>2
  <2>2. m + Tally(Len(v)) <= Len(N) /\ m \in Nat
    BY <1>2, <1>3 DEF n
  <2>3. Spans(N, type, v, m)
    BY <1>3, <2>1, <2>2, Zenon DEF Spans, n
  <2> QED BY <2>2, <2>3, Zenon DEF Tells
<1>6. ASSUME NEW t, t # type, Lacks(M, t) PROVE Lacks(N, t)
  <2> SUFFICES ASSUME NEW k \in 1..(m + n) PROVE N[k].type # t
    BY <1>3, Zenon DEF Lacks
  <2>1. CASE k <= m
    <3>1. k \in 1..m /\ N[k] = M[k]
      BY <1>3, <2>1
    <3> QED BY <1>6, <3>1, Zenon DEF Lacks, m
  <2>2. CASE ~(k <= m)
    BY <1>4, <1>6, <2>2, Zenon
  <2> QED BY <2>1, <2>2
<1>7. ASSUME NEW t, NEW w \in Seq(E), t # type, Tells(M, t, w) PROVE Tells(N, t, w)
  <2>1. CASE Lacks(M, t) /\ w = <<>>
    BY <1>6, <1>7, <2>1, Zenon DEF Tells
  <2>2. ASSUME NEW a \in Nat, Spans(M, t, w, a) PROVE Spans(N, t, w, a)
    <3> DEFINE c == Tally(Len(w))
    <3>1. Len(w) \in Nat /\ c \in Nat
      <4>1. Len(w) \in Nat
        OBVIOUS
      <4> QED BY <4>1, Cuts
    <3> HIDE DEF c
    <3>2. a + c <= m
      BY <2>2 DEF Spans, c, m
    <3>3. ASSUME NEW k \in 1..(m + n)
          PROVE  IF a < k /\ k <= a + c
                 THEN /\ N[k].type = t
                      /\ N[k].value = SubSeq(w, Cut(Len(w), k - a - 1) + 1, Cut(Len(w), k - a))
                      /\ Len(N[k].value) = Cut(Len(w), k - a) - Cut(Len(w), k - a - 1)
                 ELSE N[k].type # t
      <4>1. CASE k <= m
        <5>1. k \in 1..m /\ N[k] = M[k]
          BY <1>3, <4>1
        <5> QED BY <2>2, <5>1, Zenon DEF Spans, c, m
      <4>2. CASE ~(k <= m)
        <5>1. ~(k <= a + c)
          BY <1>3, <3>1, <3>2, <4>2
        <5>2. N[k].type # t
          BY <1>4, <1>7, <4>2, Zenon
        <5> QED BY <5>1, <5>2, Zenon
      <4> QED BY <4>1, <4>2
    <3>4. a + c <= Len(N)
      BY <1>2, <1>3, <3>1, <3>2
    <3> QED BY <1>3, <3>3, <3>4, Zenon DEF Spans, c
  <2> QED BY <1>7, <2>1, <2>2, Zenon DEF Tells
<1> HIDE DEF N
<1>8. /\ N \in Seq(TlvOf(E))
      /\ Lacks(M, type) => Tells(N, type, v)
      /\ \A t : t # type /\ Lacks(M, t) => Lacks(N, t)
      /\ \A t : \A w \in Seq(E) : t # type /\ Tells(M, t, w) => Tells(N, t, w)
  BY <1>3, <1>5, <1>6, <1>7, Zenon
<1> QED BY <1>8, Zenon DEF N, T

\* add_tlv, of a value for which get_tlv_encoded_size has counted the room.
LEMMA Added ==
  ASSUME Chunk \in Nat \ {0}, NEW E, NEW M \in Seq(TlvOf(E)), NEW type \in TlvTypes, NEW v \in Seq(E),
         NEW size \in Nat, NEW used \in Nat, Commands!Size(M) <= used,
         used + Commands!EncodedSize(Len(v)) <= size
  PROVE  LET N == Commands!AddTlv(size, M, type, v)
         IN  /\ N \in Seq(TlvOf(E))
             /\ Commands!Size(N) <= used + Commands!EncodedSize(Len(v))
             /\ Lacks(M, type) => Tells(N, type, v)
             /\ \A t : t # type /\ Lacks(M, t) => Lacks(N, t)
             /\ \A t : \A w \in Seq(E) : t # type /\ Tells(M, t, w) => Tells(N, t, w)
<1> DEFINE len == Len(v)
           T == M \o Commands!Tlvs(type, v)
<1>1. len \in Nat /\ Commands!Size(M) \in Nat
      /\ Commands!Size(T) = Commands!Size(M) + 2 * Tally(len) + len
  <2>1. len \in Nat
    OBVIOUS
  <2> QED BY <2>1, SizeOfPieces, Zenon
<1> HIDE DEF T
<1>2. /\ Tally(len) \in Nat /\ 2 * Tally(len) + len <= Commands!EncodedSize(len)
      /\ Commands!EncodedSize(len) \in Nat /\ Commands!EncodedSize(len) >= len + 2
  <2> HIDE DEF len
  <2> QED BY <1>1, Cuts
<1>3. ~(len + 2 > size - Commands!Size(M))
  BY <1>1, <1>2
<1>4. Commands!AddTlv(size, M, type, v) = T
  BY <1>3 DEF Commands!AddTlv, T
<1>5. Commands!Size(T) <= used + Commands!EncodedSize(len)
  BY <1>1, <1>2
<1>6. /\ T \in Seq(TlvOf(E))
      /\ Lacks(M, type) => Tells(T, type, v)
      /\ \A t : t # type /\ Lacks(M, t) => Lacks(T, t)
      /\ \A t : \A w \in Seq(E) : t # type /\ Tells(M, t, w) => Tells(T, t, w)
  BY PiecesBehind, Zenon DEF T
<1> QED BY <1>4, <1>5, <1>6, Zenon

\* The buffer of four values, without the last one if it is empty, and its room.
Filling(size, s1, v1, s2, v2, s3, v3, s4, v4) ==
    LET H == Commands!AddTlv(size, Commands!AddTlv(size, Commands!AddTlv(size, <<>>, s1, v1),
                                                   s2, v2), s3, v3)
    IN  IF v4 # <<>> THEN Commands!AddTlv(size, H, s4, v4) ELSE H

HasRoom(size, v1, v2, v3, v4) ==
    Commands!EncodedSize(Len(v1)) + Commands!EncodedSize(Len(v2)) + Commands!EncodedSize(Len(v3))
       + (IF v4 # <<>> THEN Commands!EncodedSize(Len(v4)) ELSE 0) <= size

\* Up to four values go to a buffer with room for them, the last one if it is not
\* empty, and all of them are told.
LEMMA Filled ==
  ASSUME Chunk \in Nat \ {0}, NEW E, NEW size \in Nat,
         NEW s1 \in TlvTypes, NEW s2 \in TlvTypes, NEW s3 \in TlvTypes, NEW s4 \in TlvTypes,
         s1 # s2, s1 # s3, s1 # s4, s2 # s3, s2 # s4, s3 # s4,
         NEW v1 \in Seq(E), NEW v2 \in Seq(E), NEW v3 \in Seq(E), NEW v4 \in Seq(E),
         HasRoom(size, v1, v2, v3, v4)
  PROVE  LET N == Filling(size, s1, v1, s2, v2, s3, v3, s4, v4)
         IN  /\ N \in Seq(TlvOf(E)) /\ Commands!Size(N) <= size
             /\ Tells(N, s1, v1) /\ Tells(N, s2, v2) /\ Tells(N, s3, v3) /\ Tells(N, s4, v4)
<1> DEFINE e1 == Commands!EncodedSize(Len(v1))
           e2 == Commands!EncodedSize(Len(v2))
           e3 == Commands!EncodedSize(Len(v3))
           e4 == Commands!EncodedSize(Len(v4))
           A == Commands!AddTlv(size, <<>>, s1, v1)
           B == Commands!AddTlv(size, A, s2, v2)
           H == Commands!AddTlv(size, B, s3, v3)
           G == Commands!AddTlv(size, H, s4, v4)
<1>1. e1 \in Nat /\ e2 \in Nat /\ e3 \in Nat /\ e4 \in Nat
  <2>1. ASSUME NEW v \in Seq(E) PROVE Commands!EncodedSize(Len(v)) \in Nat
    <3>1. Len(v) \in Nat
      OBVIOUS
    <3> QED BY <3>1, Cuts
  <2> QED BY <2>1, Zenon
<1> HIDE DEF e1, e2, e3, e4
<1>2. e1 + e2 + e3 + (IF v4 # <<>> THEN e4 ELSE 0) <= size
  BY DEF e1, e2, e3, e4, HasRoom
<1>3. <<>> \in Seq(TlvOf(E)) /\ Commands!Size(<<>>) = 0 /\ \A t : Lacks(<<>>, t)
  <2>1. <<>> \in Seq(TlvOf(E)) /\ Len(<<>>) = 0
    OBVIOUS
  <2>2. Commands!Size(<<>>) = 0
    <3>1. PICK f \in [0..0 -> Nat] : Commands!Size(<<>>) = f[0] /\ f[0] = 0
      BY <2>1, SizeIs
    <3> QED BY <3>1
  <2>3. \A t : Lacks(<<>>, t)
    BY <2>1 DEF Lacks
  <2> QED BY <2>1, <2>2, <2>3
<1>4. /\ A \in Seq(TlvOf(E)) /\ Commands!Size(A) <= e1
      /\ Tells(A, s1, v1) /\ Lacks(A, s2) /\ Lacks(A, s3) /\ Lacks(A, s4)
  <2>1. 0 \in Nat /\ Commands!Size(<<>>) <= 0 /\ 0 + e1 <= size /\ 0 + e1 = e1
    BY <1>1, <1>2, <1>3
  <2> DEFINE none == <<>>
             first == Commands!AddTlv(size, none, s1, v1)
  <2>2. none \in Seq(TlvOf(E)) /\ Commands!Size(none) <= 0 /\ \A t : Lacks(none, t)
    BY <1>3, <2>1
  <2> HIDE DEF none
  <2>3. /\ first \in Seq(TlvOf(E)) /\ Commands!Size(first) <= 0 + e1
        /\ Tells(first, s1, v1) /\ \A t : t # s1 => Lacks(first, t)
    BY <2>1, <2>2, Added, Zenon DEF e1
  <2>4. first = A
    BY DEF none
  <2> HIDE DEF first, A
  <2> QED BY <2>1, <2>3, <2>4, Zenon
<1> HIDE DEF A
<1>5. /\ B \in Seq(TlvOf(E)) /\ Commands!Size(B) <= e1 + e2
      /\ Tells(B, s1, v1) /\ Tells(B, s2, v2) /\ Lacks(B, s3) /\ Lacks(B, s4)
  <2>1. e1 + e2 <= size
    BY <1>1, <1>2
  <2> QED BY <1>1, <1>4, <2>1, Added, Zenon DEF e2
<1> HIDE DEF B
<1>6. /\ H \in Seq(TlvOf(E)) /\ Commands!Size(H) <= e1 + e2 + e3
      /\ Tells(H, s1, v1) /\ Tells(H, s2, v2) /\ Tells(H, s3, v3) /\ Lacks(H, s4)
  <2>1. e1 + e2 \in Nat /\ (e1 + e2) + e3 <= size
    BY <1>1, <1>2
  <2> QED BY <1>5, <2>1, Added, Zenon DEF e3
<1> HIDE DEF H
<1>7. CASE v4 = <<>>
  <2>1. Commands!Size(H) \in Nat
    BY <1>6, SizeOfPieces
  <2>2. Commands!Size(H) <= size
    BY <1>1, <1>2, <1>6, <1>7, <2>1
  <2>3. Tells(H, s4, v4)
    BY <1>6, <1>7, Zenon DEF Tells
  <2> QED BY <1>6, <1>7, <2>2, <2>3, Zenon DEF Filling, H, B, A
<1>8. CASE v4 # <<>>
  <2>1. e1 + e2 + e3 \in Nat /\ (e1 + e2 + e3) + e4 <= size
    BY <1>1, <1>2, <1>8
  <2>2. /\ G \in Seq(TlvOf(E)) /\ Commands!Size(G) <= (e1 + e2 + e3) + e4
        /\ Tells(G, s1, v1) /\ Tells(G, s2, v2) /\ Tells(G, s3, v3) /\ Tells(G, s4, v4)
    BY <1>6, <2>1, Added, Zenon DEF e4
  <2> HIDE DEF G
  <2>3. Commands!Size(G) \in Nat
    BY <2>2, SizeOfPieces
  <2>4. Commands!Size(G) <= size
    BY <1>1, <2>1, <2>2, <2>3
  <2> QED BY <1>8, <2>2, <2>4, Zenon DEF Filling, G, H, B, A
<1> QED BY <1>7, <1>8, Zenon

Outcomes == {"success", "failed", "cmd_invalid", "not_found", "auth_fail"}

\* What ids, roles, commands and data are made of.
Atoms == Nat \cup Outcomes \cup {r.role : r \in Requests} \cup {r.cmd : r \in Requests}

\* The message of a request is read as it was meant, if its id leaves room for
\* the terminator.
LEMMA MessageRead ==
  ASSUME NEW r \in Requests, Len(r.id) < ReqIdLen
  PROVE  /\ Commands!Context(Commands!Message(r)) = [id |-> r.id, role |-> r.role, cmd |-> r.cmd]
         /\ Commands!Data(Commands!Message(r)) = r.data
<1> DEFINE M == Commands!Message(r)
           size == Commands!TestBuffer
<1>1. /\ Chunk \in Nat \ {0} /\ ReqIdLen \in Nat /\ size \in Nat
      /\ r.id \in Seq(Nat) /\ r.data \in Seq(Nat)
      /\ Commands!EncodedSize(Len(r.id)) + Commands!EncodedSize(1) + Commands!EncodedSize(2)
             + Commands!EncodedSize(Len(r.data)) <= size
  BY RequestsAssumption DEF Commands!TestBuffer
<1>2. /\ r.id \in Seq(Atoms) /\ r.data \in Seq(Atoms)
      /\ <<r.role>> \in Seq(Atoms) /\ <<r.cmd, 0>> \in Seq(Atoms)
      /\ Len(<<r.role>>) = 1 /\ Len(<<r.cmd, 0>>) = 2
  <2>1. Nat \subseteq Atoms /\ r.role \in Atoms /\ r.cmd \in Atoms /\ 0 \in Atoms
    BY DEF Atoms
  <2>2. r.id \in Seq(Atoms) /\ r.data \in Seq(Atoms)
    BY <1>1, <2>1, SeqMonotonic
  <2> QED BY <2>1, <2>2
<1>3. Commands!EncodedSize(Len(r.id)) \in Nat /\ Commands!EncodedSize(1) \in Nat
      /\ Commands!EncodedSize(2) \in Nat /\ Commands!EncodedSize(Len(r.data)) \in Nat
  <2>1. Len(r.id) \in Nat /\ Len(r.data) \in Nat /\ 1 \in Nat /\ 2 \in Nat
    BY <1>1
  <2> QED BY <1>1, <2>1, Cuts, Zenon
<1>4. Commands!EncodedSize(Len(r.id)) + Commands!EncodedSize(1) + Commands!EncodedSize(2)
         + (IF r.data # <<>> THEN Commands!EncodedSize(Len(r.data)) ELSE 0) <= size
  BY <1>1, <1>3
<1>5. /\ M \in Seq(TlvOf(Atoms))
      /\ Tells(M, "req_id", r.id) /\ Tells(M, "role", <<r.role>>)
      /\ Tells(M, "cmd", <<r.cmd, 0>>) /\ Tells(M, "data", r.data)
  <2> DEFINE N == Filling(size, "req_id", r.id, "role", <<r.role>>, "cmd", <<r.cmd, 0>>, "data", r.data)
  <2>1. M = N
    BY DEF Commands!Message, Filling
  <2>2. HasRoom(size, r.id, <<r.role>>, <<r.cmd, 0>>, r.data)
    BY <1>2, <1>4, Zenon DEF HasRoom
  <2>4. /\ "req_id" \in TlvTypes /\ "role" \in TlvTypes /\ "cmd" \in TlvTypes /\ "data" \in TlvTypes
        /\ "req_id" # "role" /\ "req_id" # "cmd" /\ "req_id" # "data"
        /\ "role" # "cmd" /\ "role" # "data" /\ "cmd" # "data"
    BY Zenon DEF TlvTypes
  <2>3. /\ N \in Seq(TlvOf(Atoms))
        /\ Tells(N, "req_id", r.id) /\ Tells(N, "role", <<r.role>>)
        /\ Tells(N, "cmd", <<r.cmd, 0>>) /\ Tells(N, "data", r.data)
    BY <1>1, <1>2, <2>2, <2>4, Filled, Zenon
  <2> HIDE DEF N
  <2> QED BY <2>1, <2>3, Zenon
<1> HIDE DEF M
<1>6. Len(r.id) <= ReqIdLen /\ Len(r.data) <= size /\ Len(r.id) # ReqIdLen
  <2>1. Len(r.id) \in Nat /\ Len(r.data) \in Nat
    BY <1>1
  <2>2. Len(r.data) + 2 <= Commands!EncodedSize(Len(r.data))
    BY <1>1, <2>1, Cuts
  <2> QED BY <1>1, <1>3, <2>1, <2>2
<1>7. /\ Commands!Value(M, "req_id", ReqIdLen) = r.id
      /\ Commands!Value(M, "role", 1) = <<r.role>>
      /\ Commands!Value(M, "cmd", 2) = <<r.cmd, 0>>
      /\ Commands!Value(M, "data", size) = r.data
  <2>1. Len(<<r.role>>) <= 1 /\ Len(<<r.cmd, 0>>) <= 2 /\ 1 \in Nat /\ 2 \in Nat
    BY <1>2
  <2>2. ASSUME NEW type, NEW v \in Seq(Atoms), Tells(M, type, v), NEW n \in Nat, Len(v) <= n
        PROVE  Commands!Value(M, type, n) = v
    BY <1>1, <1>5, <2>2, Told, Zenon
  <2>3. Commands!Value(M, "req_id", ReqIdLen) = r.id
    BY <1>1, <1>2, <1>5, <1>6, <2>2, Zenon
  <2>4. Commands!Value(M, "role", 1) = <<r.role>>
    BY <1>2, <1>5, <2>1, <2>2, Zenon
  <2>5. Commands!Value(M, "cmd", 2) = <<r.cmd, 0>>
    BY <1>2, <1>5, <2>1, <2>2, Zenon
  <2>6. Commands!Value(M, "data", size) = r.data
    BY <1>1, <1>2, <1>5, <1>6, <2>2, Zenon
  <2> QED BY <2>3, <2>4, <2>5, <2>6
<1>8. Commands!Data(M) = r.data
  BY <1>7 DEF Commands!Data
<1>9. Commands!Context(M) = [id |-> r.id, role |-> r.role, cmd |-> r.cmd]
  <2>1. <<r.role>> # <<>> /\ <<r.role>>[1] = r.role /\ <<r.cmd, 0>> # <<>> /\ <<r.cmd, 0>>[1] = r.cmd
    OBVIOUS
  <2> QED BY <1>6, <1>7, <2>1 DEF Commands!Context
<1> QED BY <1>8, <1>9 DEF M

AnswerFor(id, role, cmd, outcome, data) ==
    Commands!Answer([id |-> id, role |-> role, cmd |-> cmd], outcome, data)

\* An answer fits its buffer and says what it is made from.
LEMMA AnswerSays ==
  ASSUME NEW id \in Seq(Atoms), NEW role, NEW cmd \in Atoms, NEW outcome \in Outcomes,
         NEW data \in Seq(Atoms)
  PROVE  LET p == AnswerFor(id, role, cmd, outcome, data)
         IN  /\ Commands!Size(p.tlvs) <= p.size
             /\ Commands!Said(p.tlvs, "req_id") = id
             /\ Commands!Said(p.tlvs, "status") = <<outcome>>
             /\ Commands!Said(p.tlvs, "cmd") = <<cmd, 0>>
             /\ Commands!Said(p.tlvs, "data") = data
<1> DEFINE p == AnswerFor(id, role, cmd, outcome, data)
           e1 == Commands!EncodedSize(Len(id))
           e2 == Commands!EncodedSize(1)
           e3 == Commands!EncodedSize(2)
           e4 == IF data # <<>> THEN Commands!EncodedSize(Len(data)) ELSE 0
           size == e1 + 0 + e2 + e3 + e4
           N == Filling(size, "req_id", id, "status", <<outcome>>, "cmd", <<cmd, 0>>, "data", data)
<1>1. Chunk \in Nat \ {0}
  BY RequestsAssumption
<1>2. <<outcome>> \in Seq(Atoms) /\ <<cmd, 0>> \in Seq(Atoms)
      /\ Len(<<outcome>>) = 1 /\ Len(<<cmd, 0>>) = 2
  <2>1. outcome \in Atoms /\ 0 \in Atoms
    BY DEF Atoms
  <2> QED BY <2>1
<1>3. p = [size |-> size, tlvs |-> N]
  BY DEF AnswerFor, Commands!Answer, Commands!Payload, Filling
<1>4. e1 \in Nat /\ e2 \in Nat /\ e3 \in Nat /\ e4 \in Nat
  <2>1. Len(id) \in Nat /\ Len(data) \in Nat /\ 1 \in Nat /\ 2 \in Nat
    OBVIOUS
  <2>2. Commands!EncodedSize(Len(id)) \in Nat /\ Commands!EncodedSize(1) \in Nat
        /\ Commands!EncodedSize(2) \in Nat /\ Commands!EncodedSize(Len(data)) \in Nat
    BY <1>1, <2>1, Cuts, Zenon
  <2> QED BY <2>2
<1>5. size \in Nat /\ e1 + e2 + e3 + e4 <= size
  <2> HIDE DEF e1, e2, e3, e4
  <2> QED BY <1>4
<1>6. HasRoom(size, id, <<outcome>>, <<cmd, 0>>, data)
  <2> HIDE DEF size
  <2> QED BY <1>2, <1>5, Zenon DEF HasRoom
<1> HIDE DEF size
<1>a. /\ "req_id" \in TlvTypes /\ "status" \in TlvTypes /\ "cmd" \in TlvTypes /\ "data" \in TlvTypes
      /\ "req_id" # "status" /\ "req_id" # "cmd" /\ "req_id" # "data"
      /\ "status" # "cmd" /\ "status" # "data" /\ "cmd" # "data"
  BY Zenon DEF TlvTypes
<1>7. /\ N \in Seq(TlvOf(Atoms)) /\ Commands!Size(N) <= size
      /\ Tells(N, "req_id", id) /\ Tells(N, "status", <<outcome>>)
      /\ Tells(N, "cmd", <<cmd, 0>>) /\ Tells(N, "data", data)
  BY <1>1, <1>2, <1>5, <1>6, <1>a, Filled, Zenon
<1> HIDE DEF N
<1>8. /\ Commands!Said(N, "req_id") = id /\ Commands!Said(N, "status") = <<outcome>>
      /\ Commands!Said(N, "cmd") = <<cmd, 0>> /\ Commands!Said(N, "data") = data
  BY <1>1, <1>2, <1>7, Told, Zenon
<1> HIDE DEF p
<1>9. p.size = size /\ p.tlvs = N
  BY <1>3
<1> QED BY <1>7, <1>8, <1>9 DEF p

\* The first of a set of places is one of them.
LEMMA FirstIsIn ==
  ASSUME NEW I \in SUBSET Nat
  PROVE  (I = {} => FirstOf(I) = 0) /\ (I # {} => FirstOf(I) \in I)
<1>1. ASSUME I # {} PROVE FirstOf(I) \in I
  <2>1. PICK m \in I : \A k \in I : m <= k
    BY <1>1, LeastNat
  <2>2. Commands!Min(I) = m
    BY <2>1, MinIs
  <2> QED BY <1>1, <2>2 DEF FirstOf
<1> QED BY <1>1 DEF FirstOf

\* The table has one slot for each command that is in it.
Info == [cmd : {0} \cup Cmds, access : {{}} \cup Accesses]
TableInv == /\ list \in [1..MaxCmd -> Info]
            /\ \A i \in 1..MaxCmd : list[i] # Commands!NoInfo => list[i].cmd \in Cmds
            /\ Commands!OneSlotEach

\* get_cmd_info finds the slot of a command, or that it has none.
LEMMA FindIs ==
  ASSUME TableInv, NEW cmd
  PROVE  \/ Commands!Find(cmd) = 0 /\ \A i \in 1..MaxCmd : ~Commands!Holds(i, cmd)
         \/ Commands!Find(cmd) \in 1..MaxCmd /\ Commands!Holds(Commands!Find(cmd), cmd)
<1> DEFINE I == {i \in 1..MaxCmd : Commands!Holds(i, cmd)}
           P == [i \in 1..MaxCmd |-> i]
<1>1. Len(P) = MaxCmd /\ \A i \in 1..MaxCmd : P[i] = i
  BY RequestsAssumption
<1>2. Commands!Find(cmd) = FirstOf(I)
  <2> DEFINE J == {i \in 1..Len(P) : Commands!Holds(P[i], cmd)}
  <2>1. Commands!Find(cmd) = FirstOf(J)
    BY DEF Commands!Find, Commands!SelectInSeq, Commands!Slots, FirstOf
  <2> HIDE DEF P
  <2>2. J = I
    BY <1>1
  <2> HIDE DEF I, J
  <2> QED BY <2>1, <2>2
<1>3. I \in SUBSET Nat
  BY RequestsAssumption
<1> HIDE DEF I
<1>4. (I = {} => FirstOf(I) = 0) /\ (I # {} => FirstOf(I) \in I)
  BY <1>3, FirstIsIn
<1>5. CASE I = {}
  BY <1>2, <1>4, <1>5 DEF I
<1>6. CASE I # {}
  BY <1>2, <1>4, <1>6 DEF I
<1> QED BY <1>5, <1>6

\* Commands are entered in free slots, and taken out.
LEMMA TableKept ==
  /\ Commands!Init => TableInv
  /\ TableInv /\ [Commands!Next]_commands => TableInv'
<1>1. Commands!Init => TableInv
  <2> SUFFICES ASSUME Commands!Init PROVE TableInv
    OBVIOUS
  <2>1. list = [i \in 1..MaxCmd |-> Commands!NoInfo]
    BY DEF Commands!Init, Commands!Slots
  <2>2. Commands!NoInfo \in Info
    BY DEF Commands!NoInfo, Info
  <2> QED BY <2>1, <2>2 DEF TableInv, Commands!OneSlotEach, Commands!Slots
<1>2. TableInv /\ UNCHANGED list => TableInv'
  BY DEF TableInv, Commands!OneSlotEach, Commands!Slots
<1>3. ASSUME TableInv, NEW cmd \in Cmds, NEW access \in Accesses, Commands!Register(cmd, access)
      PROVE  TableInv'
  <2> DEFINE I == {i \in 1..Len(list) : list[i] = Commands!NoInfo}
             free == FirstOf(I)
             info == [cmd |-> cmd, access |-> access]
  <2>1. /\ Commands!Find(cmd) = 0 /\ free # 0
        /\ list' = [list EXCEPT ![free] = info]
    BY <1>3 DEF Commands!Register, Commands!SelectInSeq, FirstOf
  <2>2. Len(list) = MaxCmd /\ MaxCmd \in Nat
    BY <1>3, RequestsAssumption DEF TableInv
  <2>3. I \in SUBSET Nat /\ I \subseteq 1..MaxCmd
    BY <2>2
  <2> HIDE DEF I
  <2>4. free \in 1..MaxCmd
    BY <2>1, <2>3, FirstIsIn
  <2> HIDE DEF free
  <2>5. \A i \in 1..MaxCmd : ~Commands!Holds(i, cmd)
    BY <1>3, <2>1, FindIs, RequestsAssumption
  <2>6. info \in Info /\ info.cmd = cmd
    BY DEF Info
  <2> HIDE DEF info
  <2>7. /\ list' \in [1..MaxCmd -> Info] /\ list'[free] = info
        /\ \A i \in 1..MaxCmd : i # free => list'[i] = list[i]
    BY <1>3, <2>1, <2>4, <2>6 DEF TableInv
  <2>8. \A i \in 1..MaxCmd : list'[i] # Commands!NoInfo => list'[i].cmd \in Cmds
    <3> SUFFICES ASSUME NEW i \in 1..MaxCmd, list'[i] # Commands!NoInfo PROVE list'[i].cmd \in Cmds
      OBVIOUS
    <3>1. CASE i = free
      BY <2>6, <2>7, <3>1
    <3>2. CASE i # free
      BY <1>3, <2>7, <3>2 DEF TableInv
    <3> QED BY <3>1, <3>2
  <2>9. ASSUME NEW i \in 1..MaxCmd, list[i].cmd = cmd PROVE FALSE
    <3>1. list[i] # Commands!NoInfo
      <4>1. Commands!NoInfo.cmd = 0 /\ cmd # 0
        BY RequestsAssumption DEF Commands!NoInfo
      <4> QED BY <2>9, <4>1
    <3> QED BY <2>5, <2>9, <3>1 DEF Commands!Holds
  <2>10. ASSUME NEW i \in 1..MaxCmd, NEW j \in 1..MaxCmd,
                list'[i] # Commands!NoInfo, list'[i].cmd = list'[j].cmd
         PROVE  i = j
    <3>1. CASE i = free /\ j # free
      BY <2>6, <2>7, <2>9, <2>10, <3>1
    <3>2. CASE i # free /\ j = free
      BY <2>6, <2>7, <2>9, <2>10, <3>2
    <3>3. CASE i # free /\ j # free
      <4>1. list[i] # Commands!NoInfo /\ list[i].cmd = list[j].cmd
        BY <2>7, <2>10, <3>3
      <4> QED BY <1>3, <4>1 DEF TableInv, Commands!OneSlotEach, Commands!Slots
    <3> QED BY <3>1, <3>2, <3>3
  <2> QED BY <2>7, <2>8, <2>10 DEF TableInv, Commands!OneSlotEach, Commands!Slots
<1>4. ASSUME TableInv, NEW cmd \in Cmds, Commands!Deregister(cmd) PROVE TableInv'
  <2> DEFINE slot == Commands!Find(cmd)
  <2>1. slot # 0 /\ list' = [list EXCEPT ![slot] = Commands!NoInfo]
    BY <1>4 DEF Commands!Deregister
  <2>2. slot \in 1..MaxCmd
    BY <1>4, <2>1, FindIs
  <2> HIDE DEF slot
  <2>3. Commands!NoInfo \in Info
    BY DEF Commands!NoInfo, Info
  <2>4. /\ list' \in [1..MaxCmd -> Info] /\ list'[slot] = Commands!NoInfo
        /\ \A i \in 1..MaxCmd : i # slot => list'[i] = list[i]
    BY <1>4, <2>1, <2>2, <2>3 DEF TableInv
  <2>5. \A i \in 1..MaxCmd : list'[i] # Commands!NoInfo => list'[i].cmd \in Cmds
    BY <1>4, <2>4 DEF TableInv
  <2>6. ASSUME NEW i \in 1..MaxCmd, NEW j \in 1..MaxCmd,
               list'[i] # Commands!NoInfo, list'[i].cmd = list'[j].cmd
        PROVE  i = j
    <3>1. i # slot /\ list'[i].cmd \in Cmds
      BY <2>4, <2>5, <2>6
    <3>2. j # slot
      <4>1. Commands!NoInfo.cmd = 0
        BY DEF Commands!NoInfo
      <4> QED BY <2>4, <2>6, <3>1, <4>1, RequestsAssumption
    <3>3. list[i] # Commands!NoInfo /\ list[i].cmd = list[j].cmd
      BY <2>4, <2>6, <3>1, <3>2
    <3> QED BY <1>4, <3>3 DEF TableInv, Commands!OneSlotEach, Commands!Slots
  <2> QED BY <2>4, <2>5, <2>6 DEF TableInv, Commands!OneSlotEach, Commands!Slots
<1>5. TableInv /\ [Commands!Next]_commands => TableInv'
  <2> SUFFICES ASSUME TableInv, [Commands!Next]_commands PROVE TableInv'
    OBVIOUS
  <2>1. CASE UNCHANGED commands
    BY <1>2, <2>1 DEF commands
  <2>2. ASSUME NEW r \in Requests, Commands!Refuse(r) \/ Commands!Run(r) \/ Commands!Defer(r)
        PROVE  TableInv'
    BY <1>2, <2>2 DEF Commands!Refuse, Commands!Run, Commands!Defer
  <2>3. ASSUME NEW d \in deferred, Commands!Complete(d) PROVE TableInv'
    BY <1>2, <2>3 DEF Commands!Complete
  <2> QED BY <1>3, <1>4, <2>1, <2>2, <2>3, Zenon DEF Commands!Next
<1> QED BY <1>1, <1>5

\* What a message asks for, and whether the table lets it.
Ctx(r) == [id |-> r.id, role |-> r.role, cmd |-> r.cmd]
Named(r) == r.id # <<>> /\ r.role # {} /\ r.cmd # 0
Infos(tbl, cmd) == {info \in Commands!ToSet(tbl) : info # Commands!NoInfo /\ info.cmd = cmd}
Opened(tbl, r) ==
    Named(r) /\ \E info \in Infos(tbl, r.cmd) : info.access \cap r.role \cap Commands!BaseRoles # {}

\* The status of the outcome l of a message, with the table tbl.
StatusOf(l, tbl) ==
    LET r == l.request
    IN  CASE l.late -> "success"
          [] ~l.late /\ Opened(tbl, r) -> IF r.result = "ok" THEN "success" ELSE r.result
          [] ~l.late /\ ~Named(r) -> "cmd_invalid"
          [] ~l.late /\ Named(r) /\ Infos(tbl, r.cmd) = {} -> "not_found"
          [] OTHER -> "auth_fail"

\* The outcome l is as its message, the table and its handler say.
Correct(l, tbl) ==
    /\ l.late \/ l.ran = Opened(tbl, l.request)
    /\ l.ran => l.given = l.request.data
    /\ l.out = "none" => StatusOf(l, tbl) = "deferred"
    /\ l.out = "payload" =>
          /\ Commands!Size(l.payload.tlvs) <= l.payload.size
          /\ Commands!Said(l.payload.tlvs, "status") = <<StatusOf(l, tbl)>>
          /\ Commands!Said(l.payload.tlvs, "cmd") = <<l.request.cmd, 0>>
          /\ Commands!Said(l.payload.tlvs, "data")
                = (IF StatusOf(l, tbl) = "success" THEN l.request.response ELSE <<>>)

\* That is what Answered says.
LEMMA AnsweredIs ==
  /\ Commands!Answered <=> (last # Commands!NoneYet => Correct(last, list))
  /\ Commands!Answered' <=> (last' # Commands!NoneYet => Correct(last', list'))
  BY Zenon DEF Commands!Answered, Correct, StatusOf, Opened, Infos, Named

\* The handler of a request runs just when the table lets it, and it is refused
\* for what it lacks.
LEMMA Judged ==
  ASSUME TableInv, NEW r \in Requests
  PROVE  /\ Commands!MayRun(Ctx(r)) <=> Opened(list, r)
         /\ ~Commands!MayRun(Ctx(r)) =>
               Commands!Refusal(Ctx(r)) =
                  IF ~Named(r) THEN "cmd_invalid"
                  ELSE IF Infos(list, r.cmd) = {} THEN "not_found" ELSE "auth_fail"
<1> DEFINE slot == Commands!Find(r.cmd)
<1>1. Ctx(r).id = r.id /\ Ctx(r).role = r.role /\ Ctx(r).cmd = r.cmd
  BY DEF Ctx
<1>2. Commands!Valid(Ctx(r)) <=> Named(r)
  BY <1>1 DEF Commands!Valid, Named
<1>3. Commands!ToSet(list) = {list[i] : i \in 1..MaxCmd}
  BY DEF TableInv, Commands!ToSet
<1>4. CASE slot = 0 /\ \A i \in 1..MaxCmd : ~Commands!Holds(i, r.cmd)
  <2>1. Infos(list, r.cmd) = {}
    BY <1>3, <1>4 DEF Infos, Commands!Holds
  <2>2. ~Opened(list, r)
    BY <2>1 DEF Opened
  <2>3. ~Commands!MayRun(Ctx(r))
    BY <1>1, <1>4, Zenon DEF Commands!MayRun
  <2>4. Commands!Refusal(Ctx(r)) = IF ~Named(r) THEN "cmd_invalid" ELSE "not_found"
    <3>1. CASE Named(r)
      BY <1>1, <1>2, <1>4, <3>1, Zenon DEF Commands!Refusal
    <3>2. CASE ~Named(r)
      BY <1>1, <1>2, <1>4, <3>2, Zenon DEF Commands!Refusal
    <3> QED BY <3>1, <3>2
  <2> QED BY <2>1, <2>2, <2>3, <2>4, Zenon
<1>5. CASE slot \in 1..MaxCmd /\ Commands!Holds(slot, r.cmd)
  <2>1. /\ slot # 0 /\ list[slot] # Commands!NoInfo /\ list[slot].cmd = r.cmd
        /\ slot \in 1..MaxCmd
    BY <1>5, RequestsAssumption DEF Commands!Holds
  <2> HIDE DEF slot
  <2>2. Infos(list, r.cmd) = {list[slot]}
    <3>1. ASSUME NEW i \in 1..MaxCmd, list[i] # Commands!NoInfo, list[i].cmd = r.cmd
          PROVE  i = slot
      BY <2>1, <3>1 DEF TableInv, Commands!OneSlotEach, Commands!Slots
    <3> QED BY <1>3, <2>1, <3>1 DEF Infos
  <2>3. Commands!Allowed(list[slot], r.role)
           <=> list[slot].access \cap r.role \cap Commands!BaseRoles # {}
    <3>1. list[slot].access \cap (r.role \cap Commands!BaseRoles)
             = list[slot].access \cap r.role \cap Commands!BaseRoles
      BY Zenon
    <3> QED BY <3>1, Zenon DEF Commands!Allowed
  <2>4. (\E info \in Infos(list, r.cmd) : info.access \cap r.role \cap Commands!BaseRoles # {})
           <=> list[slot].access \cap r.role \cap Commands!BaseRoles # {}
    BY <2>2
  <2>5. Commands!MayRun(Ctx(r)) <=> Opened(list, r)
    BY <1>1, <1>2, <2>1, <2>3, <2>4, Zenon DEF Commands!MayRun, Opened, slot
  <2>6. Infos(list, r.cmd) # {}
    BY <2>2
  <2>7. CASE Named(r)
    <3>1. Commands!Refusal(Ctx(r)) = "auth_fail"
      BY <1>1, <1>2, <2>1, <2>7, Zenon DEF Commands!Refusal, slot
    <3> QED BY <2>5, <2>6, <2>7, <3>1, Zenon
  <2>8. CASE ~Named(r)
    <3>1. Commands!Refusal(Ctx(r)) = "cmd_invalid"
      BY <1>2, <2>8, Zenon DEF Commands!Refusal
    <3> QED BY <2>5, <2>8, <3>1, Zenon
  <2> QED BY <2>7, <2>8
<1> QED BY <1>4, <1>5, FindIs, Zenon

\* The answer to a request says what it is made from.
LEMMA AnswerTo ==
  ASSUME NEW r \in Requests, NEW outcome \in Outcomes, NEW data \in Seq(Nat)
  PROVE  LET p == Commands!Answer(Ctx(r), outcome, data)
         IN  /\ Commands!Size(p.tlvs) <= p.size
             /\ Commands!Said(p.tlvs, "req_id") = r.id
             /\ Commands!Said(p.tlvs, "status") = <<outcome>>
             /\ Commands!Said(p.tlvs, "cmd") = <<r.cmd, 0>>
             /\ Commands!Said(p.tlvs, "data") = data
<1>1. r.id \in Seq(Atoms) /\ r.cmd \in Atoms /\ data \in Seq(Atoms)
  <2>1. r.id \in Seq(Nat) /\ Nat \subseteq Atoms /\ r.cmd \in Atoms
    BY RequestsAssumption DEF Atoms
  <2> QED BY <2>1, SeqMonotonic
<1> DEFINE p == AnswerFor(r.id, r.role, r.cmd, outcome, data)
<1>2. /\ Commands!Size(p.tlvs) <= p.size
      /\ Commands!Said(p.tlvs, "req_id") = r.id
      /\ Commands!Said(p.tlvs, "status") = <<outcome>>
      /\ Commands!Said(p.tlvs, "cmd") = <<r.cmd, 0>>
      /\ Commands!Said(p.tlvs, "data") = data
  BY <1>1, AnswerSays
<1>3. Commands!Answer(Ctx(r), outcome, data) = p
  BY DEF Ctx, AnswerFor
<1> HIDE DEF p
<1> QED BY <1>2, <1>3, Zenon

\* An outcome with the answer of its request says what it should.
LEMMA AnswerOf ==
  ASSUME NEW r \in Requests, NEW outcome \in Outcomes, NEW data \in Seq(Nat), NEW l, NEW tbl,
         l.request = r, l.payload = Commands!Answer(Ctx(r), outcome, data),
         StatusOf(l, tbl) = outcome,
         outcome = "success" => data = r.response, outcome # "success" => data = <<>>,
         l.out = "payload", l.late \/ l.ran = Opened(tbl, r), l.ran => l.given = r.data
  PROVE  Correct(l, tbl) /\ Commands!Said(l.payload.tlvs, "req_id") = r.id
<1> DEFINE p == Commands!Answer(Ctx(r), outcome, data)
<1>a. /\ Commands!Size(p.tlvs) <= p.size
      /\ Commands!Said(p.tlvs, "req_id") = r.id
      /\ Commands!Said(p.tlvs, "status") = <<outcome>>
      /\ Commands!Said(p.tlvs, "cmd") = <<r.cmd, 0>>
      /\ Commands!Said(p.tlvs, "data") = data
  BY AnswerTo
<1>b. l.payload = p
  OBVIOUS
<1> HIDE DEF p
<1>1. /\ Commands!Size(l.payload.tlvs) <= l.payload.size
      /\ Commands!Said(l.payload.tlvs, "req_id") = r.id
      /\ Commands!Said(l.payload.tlvs, "status") = <<outcome>>
      /\ Commands!Said(l.payload.tlvs, "cmd") = <<r.cmd, 0>>
      /\ Commands!Said(l.payload.tlvs, "data") = data
  BY <1>a, <1>b, Zenon
<1>2. l.out # "none"
  BY Zenon
<1>3. data = IF StatusOf(l, tbl) = "success" THEN r.response ELSE <<>>
  BY Zenon
<1> QED BY <1>1, <1>2, <1>3, Zenon DEF Correct

\* Ids leave room for their terminator in cmd_ctx.
ShortIds == \A r \in Requests : Len(r.id) < ReqIdLen

\* What is kept of a request put off is its context.
DeferredInv == \A d \in deferred : d.request \in Requests /\ d.ctx = Ctx(d.request)

CommandsInv == TableInv /\ DeferredInv /\ RequestAnswered

\* The outcome of a step is that of its message.
LEMMA OutcomeRight ==
  ASSUME ShortIds, CommandsInv, UNCHANGED list, NEW r \in Requests,
         \/ Commands!Refuse(r) \/ Commands!Run(r) \/ Commands!Defer(r)
         \/ \E d \in deferred : Commands!Complete(d) /\ d.request = r
  PROVE  /\ Correct(last', list)
         /\ last'.out = "payload" => Commands!Said(last'.payload.tlvs, "req_id") = last'.request.id
<1>1. TableInv /\ DeferredInv
  BY DEF CommandsInv
<1>2. Commands!Context(Commands!Message(r)) = Ctx(r) /\ Commands!Data(Commands!Message(r)) = r.data
  BY MessageRead DEF ShortIds, Ctx
<1>3. r.response \in Seq(Nat) /\ <<>> \in Seq(Nat) /\ r.result \in {"ok", "failed", "deferred"}
  BY RequestsAssumption
<1>4. /\ Commands!MayRun(Ctx(r)) <=> Opened(list, r)
      /\ ~Commands!MayRun(Ctx(r)) =>
            Commands!Refusal(Ctx(r)) =
               IF ~Named(r) THEN "cmd_invalid"
               ELSE IF Infos(list, r.cmd) = {} THEN "not_found" ELSE "auth_fail"
  BY <1>1, Judged
<1>5. CASE Commands!Refuse(r)
  <2> DEFINE outcome == Commands!Refusal(Ctx(r))
             l == [out |-> "payload", request |-> r, ran |-> FALSE, late |-> FALSE,
                   payload |-> Commands!Answer(Ctx(r), outcome, <<>>)]
  <2>1. ~Opened(list, r) /\ last' = l
    BY <1>2, <1>4, <1>5, Zenon DEF Commands!Refuse
  <2>2. /\ l.out = "payload" /\ l.request = r /\ ~l.ran /\ ~l.late
        /\ l.payload = Commands!Answer(Ctx(r), outcome, <<>>)
    BY Zenon
  <2>3. l.ran = Opened(list, r)
    BY <2>1, Zenon DEF Opened
  <2>4. outcome = IF ~Named(r) THEN "cmd_invalid"
                  ELSE IF Infos(list, r.cmd) = {} THEN "not_found" ELSE "auth_fail"
    BY <1>4, <2>1, Zenon
  <2> HIDE DEF l, outcome
  <2>5. StatusOf(l, list) = outcome
    <3>1. CASE ~Named(r)
      BY <2>1, <2>2, <2>4, <3>1, Zenon DEF StatusOf
    <3>2. CASE Named(r) /\ Infos(list, r.cmd) = {}
      BY <2>1, <2>2, <2>4, <3>2, Zenon DEF StatusOf
    <3>3. CASE Named(r) /\ Infos(list, r.cmd) # {}
      BY <2>1, <2>2, <2>4, <3>3, Zenon DEF StatusOf
    <3> QED BY <3>1, <3>2, <3>3
  <2>6. outcome \in Outcomes /\ outcome # "success"
    BY <2>4, Zenon DEF Outcomes
  <2>7. Correct(l, list) /\ Commands!Said(l.payload.tlvs, "req_id") = r.id
    BY <1>3, <2>2, <2>3, <2>5, <2>6, AnswerOf, Zenon
  <2> QED BY <2>1, <2>2, <2>7, Zenon
<1>6. CASE Commands!Run(r)
  <2> DEFINE outcome == IF r.result = "ok" THEN "success" ELSE "failed"
             data == IF r.result = "ok" THEN r.response ELSE <<>>
             l == [out |-> "payload", request |-> r, ran |-> TRUE, late |-> FALSE, given |-> r.data,
                   payload |-> IF r.result = "ok" THEN Commands!Answer(Ctx(r), "success", r.response)
                               ELSE Commands!Answer(Ctx(r), "failed", <<>>)]
  <2>1. Opened(list, r) /\ last' = l /\ r.result # "deferred"
    BY <1>2, <1>4, <1>6, Zenon DEF Commands!Run
  <2>2. /\ l.out = "payload" /\ l.request = r /\ l.ran /\ ~l.late /\ l.given = r.data
        /\ l.payload = IF r.result = "ok" THEN Commands!Answer(Ctx(r), "success", r.response)
                       ELSE Commands!Answer(Ctx(r), "failed", <<>>)
    BY Zenon
  <2>3. l.ran = Opened(list, r)
    BY <2>1, Zenon DEF Opened
  <2> HIDE DEF l
  <2>4. l.payload = Commands!Answer(Ctx(r), outcome, data)
    BY <2>2, Zenon
  <2>5. StatusOf(l, list) = outcome
    <3>1. r.result = "ok" \/ r.result = "failed"
      BY <1>3, <2>1, Zenon
    <3>2. Named(r) /\ Infos(list, r.cmd) # {}
      BY <2>1, Zenon DEF Opened
    <3>3. CASE r.result = "ok"
      BY <2>1, <2>2, <3>2, <3>3, Zenon DEF StatusOf
    <3>4. CASE r.result # "ok"
      BY <2>1, <2>2, <3>1, <3>2, <3>4, Zenon DEF StatusOf
    <3> QED BY <3>3, <3>4
  <2>6. /\ outcome \in Outcomes
        /\ data \in Seq(Nat)
        /\ outcome = "success" => data = r.response
        /\ outcome # "success" => data = <<>>
    <3>1. CASE r.result = "ok"
      BY <1>3, <3>1, Zenon DEF Outcomes
    <3>2. CASE r.result # "ok"
      BY <1>3, <3>2, Zenon DEF Outcomes
    <3> QED BY <3>1, <3>2
  <2> HIDE DEF outcome, data
  <2>8. l.out = "payload" /\ l.request = r
    BY <2>2
  <2>9. (l.late \/ l.ran = Opened(list, r)) /\ (l.ran => l.given = r.data)
    BY <2>2, <2>3
  <2>7. Correct(l, list) /\ Commands!Said(l.payload.tlvs, "req_id") = r.id
    BY <2>4, <2>5, <2>6, <2>8, <2>9, AnswerOf, Zenon
  <2> QED BY <2>1, <2>2, <2>7, Zenon
<1>7. CASE Commands!Defer(r)
  <2> DEFINE l == [out |-> "none", request |-> r, ran |-> TRUE, late |-> FALSE, given |-> r.data]
  <2>1. Opened(list, r) /\ last' = l /\ r.result = "deferred"
    BY <1>2, <1>4, <1>7, Zenon DEF Commands!Defer
  <2>2. l.out = "none" /\ l.request = r /\ l.ran /\ ~l.late /\ l.given = r.data
    BY Zenon
  <2>3. l.ran = Opened(list, r)
    BY <2>1, Zenon DEF Opened
  <2> HIDE DEF l
  <2>4. StatusOf(l, list) = "deferred"
    <3>1. Named(r) /\ r.result # "ok" /\ Infos(list, r.cmd) # {}
      BY <2>1, Zenon DEF Opened
    <3> QED BY <2>1, <2>2, <3>1, Zenon DEF StatusOf
  <2>5. l.out # "payload"
    BY <2>2, Zenon
  <2> QED BY <2>1, <2>2, <2>3, <2>4, <2>5, Zenon DEF Correct
<1>8. ASSUME last' = [out |-> "payload", request |-> r, ran |-> FALSE, late |-> TRUE,
                      payload |-> Commands!Answer(Ctx(r), "success", r.response)]
      PROVE  /\ Correct(last', list)
             /\ Commands!Said(last'.payload.tlvs, "req_id") = last'.request.id
  <2> DEFINE l == [out |-> "payload", request |-> r, ran |-> FALSE, late |-> TRUE,
                   payload |-> Commands!Answer(Ctx(r), "success", r.response)]
  <2>1. last' = l
    BY <1>8
  <2>2. /\ l.out = "payload" /\ l.request = r /\ ~l.ran /\ l.late
        /\ l.payload = Commands!Answer(Ctx(r), "success", r.response)
    BY Zenon
  <2> HIDE DEF l
  <2>3. StatusOf(l, list) = "success"
    BY <2>2, Zenon DEF StatusOf
  <2> DEFINE outcome == "success"
             data == r.response
  <2>4. /\ outcome \in Outcomes
        /\ data \in Seq(Nat)
        /\ outcome = "success" => data = r.response
        /\ outcome # "success" => data = <<>>
        /\ l.payload = Commands!Answer(Ctx(r), outcome, data)
        /\ StatusOf(l, list) = outcome
    BY <1>3, <2>2, <2>3, Zenon DEF Outcomes
  <2> HIDE DEF outcome, data
  <2>6. l.late \/ l.ran = Opened(list, r)
    BY <2>2
  <2>7. l.ran => l.given = r.data
    BY <2>2
  <2>8. l.out = "payload" /\ l.request = r
    BY <2>2
  <2>5. Correct(l, list) /\ Commands!Said(l.payload.tlvs, "req_id") = r.id
    BY <2>4, <2>6, <2>7, <2>8, AnswerOf, Zenon
  <2> QED BY <2>1, <2>2, <2>5, Zenon
<1>9. ASSUME NEW d \in deferred, Commands!Complete(d), d.request = r
      PROVE  last' = [out |-> "payload", request |-> r, ran |-> FALSE, late |-> TRUE,
                      payload |-> Commands!Answer(Ctx(r), "success", r.response)]
  BY <1>1, <1>9, Zenon DEF Commands!Complete, DeferredInv
<1> QED BY <1>5, <1>6, <1>7, <1>8, <1>9, Zenon

\* A handler runs just when the role and the table let it, on all of its data, and
\* each answer is complete and carries the id of its request.
LEMMA CommandsStep ==
  ASSUME ShortIds
  PROVE  /\ Commands!Init => CommandsInv
         /\ CommandsInv /\ [Commands!Next]_commands => CommandsInv'
<1>1. Commands!Init => CommandsInv
  <2> SUFFICES ASSUME Commands!Init PROVE CommandsInv
    OBVIOUS
  <2>1. TableInv
    BY TableKept
  <2>2. last = Commands!NoneYet /\ deferred = {}
    BY DEF Commands!Init
  <2>3. last.out # "payload"
    <3>1. last.out = "nothing"
      BY <2>2 DEF Commands!NoneYet
    <3> QED BY <3>1, Zenon
  <2>4. Commands!Answered /\ Commands!CarriesOwnId
    BY <2>2, <2>3, AnsweredIs, Zenon DEF Commands!CarriesOwnId
  <2> QED BY <2>1, <2>2, <2>4 DEF CommandsInv, TableInv, DeferredInv, RequestAnswered
<1>2. ASSUME CommandsInv, [Commands!Next]_commands PROVE CommandsInv'
  <2>1. TableInv' /\ DeferredInv
    BY <1>2, TableKept DEF CommandsInv
  <2>2. CASE UNCHANGED commands
    <3>1. Commands!Answered /\ Commands!CarriesOwnId
      BY <1>2 DEF CommandsInv, RequestAnswered
    <3>2. Commands!Answered'
      BY <2>2, <3>1, AnsweredIs, Zenon DEF commands
    <3>3. Commands!CarriesOwnId'
      BY <2>2, <3>1 DEF commands, Commands!CarriesOwnId
    <3>4. DeferredInv'
      BY <2>1, <2>2 DEF commands, DeferredInv
    <3> QED BY <2>1, <3>2, <3>3, <3>4 DEF CommandsInv, RequestAnswered, TableInv
  <2>3. ASSUME last' = Commands!NoneYet, UNCHANGED deferred PROVE CommandsInv'
    <3>1. last'.out # "payload"
      <4>1. last'.out = "nothing"
        BY <2>3 DEF Commands!NoneYet
      <4> QED BY <4>1, Zenon
    <3>2. Commands!Answered' /\ Commands!CarriesOwnId'
      BY <2>3, <3>1, AnsweredIs, Zenon DEF Commands!CarriesOwnId
    <3>3. DeferredInv'
      BY <2>1, <2>3 DEF DeferredInv
    <3> QED BY <2>1, <3>2, <3>3 DEF CommandsInv, RequestAnswered, TableInv
  <2>4. ASSUME Correct(last', list), UNCHANGED list, DeferredInv',
               last'.out = "payload" =>
                  Commands!Said(last'.payload.tlvs, "req_id") = last'.request.id
        PROVE  CommandsInv'
    <3>1. Commands!Answered' /\ Commands!CarriesOwnId'
      BY <2>4, AnsweredIs, Zenon DEF Commands!CarriesOwnId
    <3> QED BY <2>1, <2>4, <3>1 DEF CommandsInv, RequestAnswered, TableInv
  <2>5. ASSUME NEW cmd \in Cmds, NEW access \in Accesses,
               Commands!Register(cmd, access) \/ Commands!Deregister(cmd)
        PROVE  CommandsInv'
    BY <2>3, <2>5, Zenon DEF Commands!Register, Commands!Deregister
  <2>6. ASSUME NEW r \in Requests, Commands!Refuse(r) \/ Commands!Run(r)
        PROVE  CommandsInv'
    <3>1. UNCHANGED <<list, deferred>>
      BY <2>6, Zenon DEF Commands!Refuse, Commands!Run
    <3>2. DeferredInv'
      BY <2>1, <3>1 DEF DeferredInv
    <3> QED BY <1>2, <2>4, <2>6, <3>1, <3>2, OutcomeRight, Zenon
  <2>7. ASSUME NEW r \in Requests, Commands!Defer(r) PROVE CommandsInv'
    <3>1. /\ list' = list
          /\ deferred' = deferred \cup {[request |-> r, ctx |-> Commands!Context(Commands!Message(r))]}
      BY <2>7, Zenon DEF Commands!Defer
    <3>2. Commands!Context(Commands!Message(r)) = Ctx(r)
      BY MessageRead DEF ShortIds, Ctx
    <3>3. DeferredInv'
      BY <2>1, <3>1, <3>2 DEF DeferredInv
    <3> QED BY <1>2, <2>4, <2>7, <3>1, <3>3, OutcomeRight, Zenon
  <2>8. ASSUME NEW d \in deferred, Commands!Complete(d) PROVE CommandsInv'
    <3>1. list' = list /\ deferred' = deferred \ {d}
      BY <2>8, Zenon DEF Commands!Complete
    <3>2. d.request \in Requests /\ DeferredInv'
      BY <2>1, <3>1 DEF DeferredInv
    <3> QED BY <1>2, <2>4, <2>8, <3>1, <3>2, OutcomeRight, Zenon
  <2>9. ASSUME NEW cmd \in Cmds, Commands!Deregister(cmd) PROVE CommandsInv'
    BY <2>3, <2>9, Zenon DEF Commands!Deregister
  <2> QED BY <1>2, <2>2, <2>5, <2>6, <2>7, <2>8, <2>9, Zenon DEF Commands!Next
<1> QED BY <1>1, <1>2

\* A handler runs just when the request names a registered command that its role
\* may use, with all of its data, and each complete answer tells its status, its
\* command and the handler's response, and carries the id of its request: however
\* many commands, users and requests there are, esp_rmaker_cmd_response_handler
\* (cmd_resp.c) answers the request it was given.
THEOREM AlwaysAnswered ==
  ASSUME ShortIds
  PROVE  SpecAll => []RequestAnswered
<1>1. CommandsInv => RequestAnswered
  BY DEF CommandsInv
<1> QED BY <1>1, CommandsStep, PartsAreTheirOwn, PTL
=============================================================================
