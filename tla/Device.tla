-------------------------------- MODULE Device --------------------------------
(***************************************************************************)
(* System control and time synchronisation on one device: they share the   *)
(* NVS partition, which a factory reset closes and erases, and a restart   *)
(* takes the RAM of both.                                                  *)
(***************************************************************************)
EXTENDS Naturals

CONSTANTS Zones, Default, Nothing, DefaultTicks, Waits

ASSUME DeviceAssumption == /\ Nothing \notin Zones
                           /\ DefaultTicks \in Nat \ {0} /\ Waits \subseteq Nat

VARIABLES nvs, boot,
          rebootTimer, orphan, resetTimer, callers, owed, lost,
          env, applied, sntp, task, zone, byName, synced, asked, left

Ctrl == INSTANCE SystemCtrl WITH pc <- callers
Sync == INSTANCE TimeSync WITH pc <- task

ctrl == <<boot, rebootTimer, orphan, resetTimer, callers, owed, lost>>
sync == <<env, applied, sntp, task, zone, byName, synced, asked, left>>
vars == <<nvs, ctrl, sync>>

Init == Ctrl!Init /\ Sync!Init

CtrlStep(step) == step /\ IF boot' # boot THEN Sync!Reset ELSE UNCHANGED sync

Next == \/ CtrlStep(Ctrl!Next)
        \/ Sync!Next /\ UNCHANGED ctrl

\* A timer that is started fires: the daemon takes those that are due
\* in the order of their times.  A task at work goes on.
Fairness == /\ SF_vars(CtrlStep(Ctrl!FireReboot))
            /\ SF_vars(CtrlStep(Ctrl!FireReset))
            /\ WF_vars(CtrlStep(Ctrl!Finish))
            /\ \A c \in Ctrl!Callers : WF_vars(CtrlStep(Ctrl!RebootStep(c)))

Spec == Init /\ [][Next]_vars /\ Fairness

-----------------------------------------------------------------------------
Keys == Zones \cup {Default, Nothing}

TypeOK == /\ nvs \in [open : BOOLEAN, posix : Keys, name : Keys]
          /\ rebootTimer \in {"none", "created", "started"}
          /\ resetTimer \in [kind : {"wifi", "factory"}, reboot : {"now", "later", "never"}]
                            \cup {Ctrl!NoTimer}
          /\ callers \in [Ctrl!Callers -> {"idle", "check", "create", "start", "finish"}]
          /\ owed \subseteq {"reboot", "wifi", "factory"}
          /\ env \in Keys /\ zone \in Keys
          /\ task \in {"idle", "store", "env", "name", "wait"}
          /\ left \in 0..asked /\ asked \in Waits \cup {0}

\* Once TZ has been set in a boot, and until a factory reset closes the
\* partition, it is what the next boot would set, whatever has failed.  No name
\* is stored without a POSIX string.
EnvIsStored == /\ nvs.name # Nothing => nvs.posix # Nothing
               /\ applied /\ task # "env" /\ nvs.open =>
                     env = IF nvs.posix # Nothing THEN nvs.posix
                           ELSE IF Default # Nothing THEN Default ELSE env

\* A reboot that was accepted comes, unless the start of the other caller's
\* fails meanwhile and takes the timer with it.
PromisedRebootComes == "reboot" \in owed ~> "reboot" \notin owed \/ lost

\* A reset that was accepted is done, or forgotten by a restart that comes first
\* and is not its own.
PromisedResetComes == \A kind \in {"wifi", "factory"} : kind \in owed ~> kind \notin owed
=============================================================================
