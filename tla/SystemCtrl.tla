------------------------------ MODULE SystemCtrl ------------------------------
(***************************************************************************)
(* components/rmaker_system_ctrl: reboot, Wi-Fi reset and factory reset,   *)
(* each at once or by a timer.  They are called by one task, app, and the  *)
(* timers fire in daemon, whose reset callback calls reboot in its turn:   *)
(* both read and write reboot_timer without a lock, a step at a time.      *)
(*                                                                         *)
(* A delay is now (0 seconds) or later; a reset need not reboot, which is  *)
(* never.  A negative delay of a timer, which makes it one of some 2^32    *)
(* ticks, is left out.  Creating or starting a timer may fail, erasing the *)
(* partition succeeds.  Events are posted and change nothing here.         *)
(***************************************************************************)
EXTENDS Naturals

VARIABLES
    rebootTimer,  \* reboot_timer: none, created or started
    orphan,       \* a started timer reboot_timer no longer points to
    resetTimer,   \* reset_timer: NoTimer, or what its callback is to do
    pc,           \* where app and daemon are in reboot
    nvs,          \* the NVS partition, which outlives a restart
    boot,         \* changes with every restart
    owed,         \* history: resets and reboots accepted and still to come
    lost          \* history: a failed start deleted the other caller's timer

vars == <<rebootTimer, orphan, resetTimer, pc, nvs, boot, owed, lost>>
timers == <<rebootTimer, orphan, lost>>

NoTimer == [kind |-> "none"]
Callers == {"app", "daemon"}

\* nothing: what the keys hold in an erased partition.
CONSTANT Nothing
Erased == [open |-> FALSE, posix |-> Nothing, name |-> Nothing]

Init == /\ rebootTimer = "none" /\ orphan = FALSE /\ resetTimer = NoTimer
        /\ pc = [c \in Callers |-> "idle"]
        /\ nvs = [Erased EXCEPT !.open = TRUE]
        /\ boot = 0 /\ owed = {} /\ lost = FALSE

To(c, place) == pc' = [pc EXCEPT ![c] = place]

\* RAM is lost and the partition opened again, as the restart found it; what the
\* restart settles is owed no more.
Restart(settled, partition) == /\ rebootTimer' = "none" /\ orphan' = FALSE /\ resetTimer' = NoTimer
                    /\ pc' = [c \in Callers |-> "idle"]
                    /\ nvs' = [partition EXCEPT !.open = TRUE]
                    /\ boot' = 1 - boot
                    /\ owed' = owed \ settled
                    /\ lost' = FALSE

Everything == {"reboot", "wifi", "factory"}

\* A restart without a reset: every reset not done by now is forgotten.
PlainRestart == Restart(Everything, nvs)

-----------------------------------------------------------------------------
(* esp_rmaker_reboot with a delay, of either caller                        *)

\* What a caller does when reboot has returned: the daemon ends its callback.
Return(c) == IF c = "daemon" THEN To(c, "finish") ELSE To(c, "idle")

RebootCheck(c) == /\ pc[c] = "check"
                  /\ IF rebootTimer # "none" THEN Return(c) ELSE To(c, "create")
                  /\ UNCHANGED <<timers, resetTimer, nvs, boot, owed>>

RebootCreate(c) == /\ pc[c] = "create"
                   /\ orphan' = (orphan \/ rebootTimer = "started")
                   /\ \/ rebootTimer' = "created" /\ To(c, "start")
                      \/ rebootTimer' = "none" /\ Return(c)
                   /\ UNCHANGED <<resetTimer, nvs, boot, owed, lost>>

\* reboot_timer is read again and again.  The other caller may have cleared it:
\* before the first of these reads it is taken for a lack of memory, after it no
\* timer at all is started, which is an assertion.
RebootStart(c) == /\ pc[c] = "start"
                  /\ rebootTimer # "none"
                  /\ rebootTimer' = "started"
                  /\ owed' = owed \cup {"reboot"}
                  /\ Return(c)
                  /\ UNCHANGED <<orphan, lost, resetTimer, nvs, boot>>

RebootStartFails(c) == /\ pc[c] = "start"
                       /\ rebootTimer # "none"
                       /\ rebootTimer' = "none"
                       /\ lost' = (lost \/ rebootTimer = "started")
                       /\ Return(c)
                       /\ UNCHANGED <<orphan, resetTimer, nvs, boot, owed>>

RebootFindsNone(c) == /\ pc[c] = "start"
                      /\ rebootTimer = "none"
                      /\ Return(c)
                      /\ UNCHANGED <<timers, resetTimer, nvs, boot, owed>>

RebootAsserts(c) == pc[c] = "start" /\ rebootTimer = "none" /\ PlainRestart

-----------------------------------------------------------------------------
(* The calls of app                                                        *)

Reboot(delay) == /\ pc["app"] = "idle"
                 /\ \/ delay = "now" /\ PlainRestart
                    \/ /\ delay = "later" /\ To("app", "check")
                       /\ UNCHANGED <<timers, resetTimer, nvs, boot, owed>>

\* The kinds of reset one kind does.
Does(kind) == IF kind = "factory" THEN {"wifi", "factory"} ELSE {"wifi"}

\* __esp_rmaker_wifi_reset and __esp_rmaker_factory_reset, then the reboot.
Partition(kind) == IF kind = "factory" THEN Erased ELSE nvs

PerformRebootFirst(c, kind, reboot) ==
    \/ reboot = "now" /\ Restart(Everything \ Does(kind), nvs)
    \/ /\ reboot # "now"
       /\ IF reboot = "later" THEN To(c, "check") ELSE Return(c)
       /\ nvs' = Partition(kind)
       /\ owed' = owed \ Does(kind)
       /\ UNCHANGED <<timers, resetTimer, boot>>

Perform(c, kind, reboot) ==
    \/ reboot = "now" /\ Restart(Everything, Partition(kind))
    \/ /\ reboot # "now"
       /\ IF reboot = "later" THEN To(c, "check") ELSE Return(c)
       /\ nvs' = Partition(kind)
       /\ owed' = owed \ Does(kind)
       /\ UNCHANGED <<timers, resetTimer, boot>>

\* start_reset_timer; without memory for the delay the callback reboots at once.
StartResetTimer(kind, reboot) ==
    /\ resetTimer = NoTimer
    /\ \E kept \in {reboot, "now"} :
          resetTimer' = [kind |-> kind, reboot |-> kept]
    /\ owed' = owed \cup {kind}
    /\ UNCHANGED <<timers, pc, nvs, boot>>

\* A reset that cannot be started changes nothing, and returns ESP_OK too.
Reset(kind, delay, reboot) ==
    /\ pc["app"] = "idle"
    /\ \/ delay = "now" /\ Perform("app", kind, reboot)
       \/ delay = "later" /\ StartResetTimer(kind, reboot)

-----------------------------------------------------------------------------
(* The timer daemon, and the loss of power                                 *)

FireReboot == /\ pc["daemon"] = "idle"
              /\ rebootTimer = "started" \/ orphan
              /\ PlainRestart

FireReset == /\ pc["daemon"] = "idle"
             /\ resetTimer # NoTimer
             /\ Perform("daemon", resetTimer.kind, resetTimer.reboot)

FinishOther == /\ pc["daemon"] = "finish"
               /\ rebootTimer' = "none"
               /\ To("daemon", "idle")
               /\ UNCHANGED <<orphan, lost, resetTimer, nvs, boot, owed>>

\* The reset callback deletes its timer.
Finish == /\ pc["daemon"] = "finish"
          /\ resetTimer' = NoTimer
          /\ To("daemon", "idle")
          /\ UNCHANGED <<timers, nvs, boot, owed>>

PowerLoss == PlainRestart

RebootStep(c) == RebootCheck(c) \/ RebootCreate(c) \/ RebootStart(c) \/ RebootStartFails(c)
                 \/ RebootFindsNone(c) \/ RebootAsserts(c)

Next == \/ \E delay \in {"now", "later"} : Reboot(delay)
        \/ \E kind \in {"wifi", "factory"}, delay \in {"now", "later"}, reboot \in {"now", "later", "never"} :
              Reset(kind, delay, reboot)
        \/ \E c \in Callers : RebootStep(c)
        \/ FireReboot \/ FireReset \/ Finish
        \/ PowerLoss
=============================================================================
