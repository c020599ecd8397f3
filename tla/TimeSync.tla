------------------------------- MODULE TimeSync -------------------------------
(***************************************************************************)
(* components/rmaker_time_sync/src/time_sync.c: the time zone, kept in NVS *)
(* and set in the environment, and the wait for the time.  One task calls  *)
(* it.  A zone is its POSIX string and its name at once; the table of      *)
(* zones is in Clock.  NVS, SNTP and the clock are external.               *)
(***************************************************************************)
EXTENDS Naturals

CONSTANTS Zones,         \* zones the task sets, all in the table
          Default,       \* CONFIG_ESP_RMAKER_DEF_TIMEZONE, Nothing unless in the table
          Nothing,
          DefaultTicks,  \* DEFAULT_TICKS
          Waits          \* ticks waits are asked for

VARIABLES
    nvs,      \* the partition: open, and the keys posix and name
    env,      \* TZ of the environment
    applied,  \* history: TZ has been set in this boot
    sntp,     \* esp_sntp_enabled
    pc,       \* where the task is
    zone,     \* the zone it sets
    byName,   \* it is in set_timezone, of which set_timezone_posix is a part
    synced,   \* the time is past REF_TIME
    asked, left  \* ticks of a wait: asked for, and remaining

vars == <<nvs, env, applied, sntp, pc, zone, byName, synced, asked, left>>
ticks == <<asked, left>>

\* unsigned arithmetic of 32 bits, made narrow
Word == 16

InitTask == /\ env = Nothing /\ applied = FALSE
            /\ pc = "idle" /\ zone = Nothing /\ byName = FALSE
            /\ asked = 0 /\ left = 0

Init == /\ InitTask
        /\ nvs = [open |-> TRUE, posix |-> Nothing, name |-> Nothing]
        /\ sntp = FALSE /\ synced = FALSE

\* What a restart leaves of the task; the clock may keep the time.
Reset == /\ env' = Nothing /\ applied' = FALSE
         /\ pc' = "idle" /\ zone' = Nothing /\ byName' = FALSE
         /\ asked' = 0 /\ left' = 0
         /\ sntp' = FALSE /\ synced' \in {synced, FALSE}

Return == pc' = "idle" /\ zone' = Nothing /\ byName' = FALSE

-----------------------------------------------------------------------------
(* Setting the zone                                                        *)

SetTimezone(z) == /\ pc = "idle"
                  /\ pc' = "store" /\ zone' = z /\ byName' = TRUE
                  /\ UNCHANGED <<nvs, env, applied, sntp, synced, ticks>>

SetTimezonePosix(z) == /\ pc = "idle"
                       /\ pc' = "store" /\ zone' = z /\ byName' = FALSE
                       /\ UNCHANGED <<nvs, env, applied, sntp, synced, ticks>>

\* __esp_rmaker_time_set_nvs, which may fail, and fails when NVS is closed.
StoreEnvFirst == /\ pc = "store"
                 /\ env' = zone /\ applied' = TRUE
                 /\ \/ nvs.open /\ nvs' = [nvs EXCEPT !.posix = zone] /\ pc' = "env"
                       /\ UNCHANGED <<zone, byName>>
                    \/ UNCHANGED nvs /\ Return
                 /\ UNCHANGED <<sntp, synced, ticks>>

Store == /\ pc = "store"
         /\ \/ nvs.open /\ nvs' = [nvs EXCEPT !.posix = zone] /\ pc' = "env"
               /\ UNCHANGED <<zone, byName>>
            \/ UNCHANGED nvs /\ Return
         /\ UNCHANGED <<env, applied, sntp, synced, ticks>>

SetEnv == /\ pc = "env"
          /\ env' = zone /\ applied' = TRUE
          /\ IF byName THEN pc' = "name" /\ UNCHANGED <<zone, byName>> ELSE Return
          /\ UNCHANGED <<nvs, sntp, synced, ticks>>

StoreName == /\ pc = "name"
             /\ \/ nvs.open /\ nvs' = [nvs EXCEPT !.name = zone]
                \/ UNCHANGED nvs
             /\ Return
             /\ UNCHANGED <<env, applied, sntp, synced, ticks>>

-----------------------------------------------------------------------------
(* time_sync_init, and with it timezone_enable                             *)

AppStartsSntp == /\ ~sntp /\ sntp' = TRUE
                 /\ UNCHANGED <<nvs, env, applied, pc, zone, byName, synced, ticks>>

\* The stored zone, or the default one; nothing when the default is unknown.
Enabled == IF nvs.open /\ nvs.posix # Nothing THEN nvs.posix
           ELSE IF Default # Nothing THEN Default ELSE env

TimeSyncInit == /\ pc = "idle"
                /\ ~sntp                \* or SNTP is left as it is, and the zone too
                /\ sntp' = TRUE
                /\ env' = Enabled
                /\ applied' = (applied \/ Enabled # Nothing)
                /\ UNCHANGED <<nvs, pc, zone, byName, synced, ticks>>

-----------------------------------------------------------------------------
(* wait_for_sync                                                           *)

ClockSet == ~synced /\ synced' = TRUE /\ UNCHANGED <<nvs, env, applied, sntp, pc, zone, byName, ticks>>

Wait(n) == /\ pc = "idle"
           /\ pc' = "wait" /\ asked' = n /\ left' = n
           /\ UNCHANGED <<nvs, env, applied, sntp, zone, byName, synced>>

PieceWhole == DefaultTicks
Piece == IF left < DefaultTicks THEN left ELSE DefaultTicks

Sleep == /\ pc = "wait"
         /\ left > 0 /\ ~synced
         /\ left' = (left + Word - Piece) % Word
         /\ UNCHANGED <<nvs, env, applied, sntp, pc, zone, byName, synced, asked>>

WaitEnds == /\ pc = "wait"
            /\ left = 0 \/ synced
            /\ Return
            /\ asked' = 0 /\ left' = 0
            /\ UNCHANGED <<nvs, env, applied, sntp, synced>>

SetZone == \/ \E z \in Zones : SetTimezone(z) \/ SetTimezonePosix(z)
           \/ Store \/ SetEnv \/ StoreName

Next == \/ SetZone \/ AppStartsSntp \/ TimeSyncInit \/ ClockSet
        \/ \E n \in Waits : Wait(n)
        \/ Sleep \/ WaitEnds
=============================================================================
