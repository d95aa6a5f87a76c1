---------------------------- MODULE RewardSwitch ----------------------------
(***************************************************************************)
(* The snack reward switch and its three copies: the MCU's RAM, its flash  *)
(* sector (erased and rewritten by every save) and the SOC.  The MCU tells *)
(* the SOC when the switch is set, and again once a second for SyncCount   *)
(* seconds after the SOC came online, which it infers from heartbeats.     *)
(*                                                                         *)
(* Power may be lost between the erase and the write, the SOC may restart  *)
(* at any time (its copy is off until it is told), heartbeats may be lost, *)
(* and so may every notification: it is a single frame that nobody         *)
(* acknowledges.  Time is in seconds.                                      *)
(***************************************************************************)
EXTENDS Naturals

CONSTANTS
    HbPeriod,    \* 2: the SOC's heartbeat
    HbTimeout,   \* 7: SOC_HEARTBEAT_TIMEOUT_US
    SyncCount,   \* 5: REWARD_SYNC_BOOT_COUNT
    LoopTicks,   \* bound: seconds from one app_ctrl_time_task to the next
    MinBoot,     \* the shortest restart of the SOC
    MaxLosses,   \* repetitions lost in one window
    MaxSets,     \* bound: commands in a behaviour
    MaxFaults    \* bound: restarts of the MCU and of the SOC in a behaviour

ASSUME RewardAssumption ==
    /\ HbPeriod \in Nat \ {0} /\ HbTimeout \in Nat /\ SyncCount \in Nat
    /\ LoopTicks \in Nat \ {0} /\ MinBoot \in Nat /\ MaxLosses \in Nat
    /\ MaxSets \in Nat /\ MaxFaults \in Nat

Switch == 0..1
Blank == 2      \* an erased or half-written sector: the magic or the CRC fails

VARIABLES
    rewardEnabled,        \* g_ctrlState.rewardEnabled
    flash,                \* what the sector holds
    saving,               \* where in app_ctrl_reward_flag_save the main loop is
    g_soc_online, hbAge,  \* hbAge: clock_time() - g_soc_last_heartbeat_tick
    g_reward_sync_left,
    syncDue,              \* a second has passed since s_last_sync
    loopAge,              \* seconds since app_ctrl_time_task
    resetAsked,           \* SOC_FACTORY_RESET waits for its answer
    socUp, socAge,        \* socAge: since the restart began, or the last beat
    socFlag,              \* the SOC's copy
    losses,               \* repetitions lost in this window
    missed,               \* history: the SOC missed the notification of a SET
                          \* that no repetition is sure to make good
    sets, faults          \* how many commands and restarts there were

switch == <<rewardEnabled, flash, saving>>
online == <<g_soc_online, hbAge, g_reward_sync_left, losses>>
soc == <<socUp, socAge, socFlag, missed>>
budget == <<sets, faults>>
vars == <<switch, online, syncDue, loopAge, resetAsked, soc, budget>>

\* app_ctrl_reward_flag_load
Load(f) == IF f = 1 THEN 1 ELSE 0

\* app_ctrl_init in an MCU that was never set, before the SOC is up.
Init == /\ flash = Blank /\ rewardEnabled = Load(flash)
        /\ saving = "no" /\ g_soc_online = 0 /\ hbAge = 0 /\ g_reward_sync_left = 0
        /\ syncDue = 1 /\ loopAge = 0 /\ resetAsked = 0
        /\ socUp = 0 /\ socAge = MinBoot /\ socFlag = 0 /\ missed = 0
        /\ losses = 0 /\ sets = 0 /\ faults = 0

MainLoop == saving = "no"

---------------------------------------------------------------------------
\* Setting the switch

Command == MainLoop /\ sets < MaxSets /\ sets' = sets + 1

reward_flag_set(on) ==
    /\ Command
    /\ rewardEnabled' = on /\ saving' = "erase"
    /\ UNCHANGED <<flash, online, syncDue, loopAge, resetAsked, soc, faults>>

factory_reset ==
    /\ Command /\ g_soc_online = 1
    /\ resetAsked' = 1
    /\ UNCHANGED <<switch, online, syncDue, loopAge, soc, faults>>

\* Mutant: the reset is not saved.
rsp_factory_reset_forgets ==
    /\ MainLoop /\ resetAsked = 1 /\ socUp = 1
    /\ resetAsked' = 0 /\ rewardEnabled' = 0
    /\ UNCHANGED <<flash, saving, online, syncDue, loopAge, soc, budget>>

\* The SOC's answer: OK takes the switch back to off, any other leaves it.
rsp_factory_reset ==
    /\ MainLoop /\ resetAsked = 1 /\ socUp = 1
    /\ resetAsked' = 0
    /\ \/ /\ rewardEnabled # 0
          /\ rewardEnabled' = 0 /\ saving' = "erase"
       \/ UNCHANGED <<rewardEnabled, saving>>
    /\ UNCHANGED <<flash, online, syncDue, loopAge, soc, budget>>

cleanup_factory_reset ==
    /\ MainLoop /\ resetAsked = 1
    /\ resetAsked' = 0
    /\ UNCHANGED <<switch, online, syncDue, loopAge, soc, budget>>

\* app_ctrl_reward_flag_save: flash_erase_sector ...
save_erase ==
    /\ saving = "erase"
    /\ flash' = Blank /\ saving' = "write"
    /\ UNCHANGED <<rewardEnabled, online, syncDue, loopAge, resetAsked,
                   soc, budget>>

\* app_ctrl_soc_sync_reward_flag, when a SOC that is up hears it
Notified == IF socUp = 1 THEN socFlag' = rewardEnabled /\ missed' = 0
                         ELSE UNCHANGED <<socFlag, missed>>

\* The window has more repetitions left than may still be lost.
WillBeRepeated == g_soc_online = 1 /\ g_reward_sync_left + losses > MaxLosses

\* ... and when the line loses that of a SET
NotHeard == /\ socUp = 1 /\ UNCHANGED socFlag
            /\ missed' = IF WillBeRepeated THEN missed ELSE 1

\* ... and flash_write_page, then the notification (lines 621, 1487).
save_write ==
    /\ saving = "write"
    /\ flash' = rewardEnabled /\ saving' = "no"
    /\ Notified \/ NotHeard
    /\ UNCHANGED <<rewardEnabled, online, syncDue, loopAge, resetAsked,
                   socUp, socAge, budget>>

---------------------------------------------------------------------------
\* Knowing that the SOC is there

\* Mutant: the window opens at the first heartbeat after power-on only.
WindowAt_boot_only == IF hbAge = 0 /\ g_soc_online = 0
                      THEN SyncCount ELSE g_reward_sync_left

WindowAt == IF g_soc_online = 0 THEN SyncCount ELSE g_reward_sync_left

\* app_ctrl_mark_soc_online
heartbeat ==
    /\ MainLoop /\ socUp = 1
    /\ socAge' = 0
    /\ g_reward_sync_left' = WindowAt
    /\ losses' = IF g_soc_online = 0 THEN 0 ELSE losses
    /\ missed' = IF g_soc_online = 0 THEN 0 ELSE missed
    /\ g_soc_online' = 1 /\ hbAge' = 0
    /\ UNCHANGED <<switch, syncDue, loopAge, resetAsked, socUp, socFlag, budget>>

HeartbeatLost ==
    /\ socUp = 1 /\ socAge = HbPeriod
    /\ socAge' = 0
    /\ UNCHANGED <<switch, online, syncDue, loopAge, resetAsked, socUp, socFlag,
                   missed, budget>>

\* Mutant: a SOC once heard of is online for ever.
Silent_never == FALSE

Silent == g_soc_online = 1 /\ hbAge > HbTimeout

Resend == syncDue = 1 /\ g_reward_sync_left > 0

\* app_ctrl_time_task: a notification of the window, which the SOC may miss,
\* then the check of the heartbeat.
time_task ==
    /\ MainLoop
    /\ loopAge' = 0 /\ syncDue' = 0
    /\ \/ ~Resend /\ UNCHANGED <<g_reward_sync_left, socFlag, missed, losses>>
       \/ /\ Resend
          /\ g_reward_sync_left' = g_reward_sync_left - 1
          /\ \/ Notified /\ losses' = losses
             \/ /\ losses < MaxLosses /\ losses' = losses + 1
                /\ UNCHANGED <<socFlag, missed>>
    /\ g_soc_online' = IF Silent THEN 0 ELSE g_soc_online
    /\ UNCHANGED <<switch, hbAge, resetAsked, socUp, socAge, budget>>

---------------------------------------------------------------------------
\* Faults, and the clock

Fault == faults < MaxFaults /\ faults' = faults + 1

\* The MCU loses its power and starts again; so does every wake-up from deep
\* sleep (app_ctrl_init).
PowerLoss ==
    /\ Fault
    /\ rewardEnabled' = Load(flash) /\ saving' = "no"
    /\ g_soc_online' = 0 /\ hbAge' = 0 /\ g_reward_sync_left' = 0 /\ losses' = 0
    /\ syncDue' = 1 /\ loopAge' = 0 /\ resetAsked' = 0
    /\ UNCHANGED <<flash, soc, sets>>

\* The last heartbeat of a SOC that stops has been handled.
SocStops ==
    /\ Fault /\ socUp = 1
    /\ socUp' = 0 /\ socAge' = 0 /\ socFlag' = 0
    /\ UNCHANGED <<switch, online, syncDue, loopAge, resetAsked, missed, sets>>

SocStarts ==
    /\ socUp = 0 /\ socAge >= MinBoot
    /\ socUp' = 1 /\ socAge' = 0
    /\ UNCHANGED <<switch, online, syncDue, loopAge, resetAsked, socFlag, missed,
                   budget>>

\* The age of a heartbeat is counted while it is looked at, that of a restart
\* up to MinBoot.
Tick ==
    /\ loopAge < LoopTicks /\ loopAge' = loopAge + 1
    /\ syncDue' = 1
    /\ socUp = 1 => socAge < HbPeriod
    /\ socAge' = IF socUp = 0 /\ socAge = MinBoot THEN socAge ELSE socAge + 1
    /\ hbAge' = IF g_soc_online = 1 THEN hbAge + 1 ELSE hbAge
    /\ UNCHANGED <<switch, g_soc_online, g_reward_sync_left, losses, resetAsked,
                   socUp, socFlag, missed, budget>>

Next ==
    \/ \E on \in Switch : reward_flag_set(on)
    \/ factory_reset \/ rsp_factory_reset \/ cleanup_factory_reset
    \/ save_erase \/ save_write
    \/ heartbeat \/ HeartbeatLost \/ time_task
    \/ PowerLoss \/ SocStops \/ SocStarts \/ Tick

Spec == Init /\ [][Next]_vars

\* The main loop goes round and the clock runs, a save in progress goes on, and
\* a SOC that is up is heard of now and then.
FairSpec == /\ Spec
            /\ WF_vars(save_erase) /\ WF_vars(save_write)
            /\ WF_vars(time_task) /\ WF_vars(Tick) /\ SF_vars(heartbeat)

---------------------------------------------------------------------------
\* Properties

TypeOK ==
    /\ rewardEnabled \in Switch /\ flash \in 0..Blank
    /\ saving \in {"no", "erase", "write"}
    /\ g_soc_online \in 0..1 /\ hbAge \in Nat
    /\ g_reward_sync_left \in 0..SyncCount /\ losses \in 0..MaxLosses
    /\ syncDue \in 0..1 /\ loopAge \in 0..LoopTicks /\ resetAsked \in 0..1
    /\ socUp \in 0..1 /\ socAge \in Nat /\ socFlag \in Switch /\ missed \in 0..1
    /\ sets \in 0..MaxSets /\ faults \in 0..MaxFaults

\* Outside a save the flash holds what the MCU goes by, however the switch came
\* to its value: a command, a factory reset or a restart (app_ctrl.c:73-103,
\* 587-622, 1474-1491, 2350).
FlashHoldsSwitch == saving = "no" => Load(flash) = rewardEnabled

\* A SOC that is up and wrong about the switch is one the MCU will tell: it is
\* not yet online, or its window is not over.  The one exception: the single
\* frame that follows a SET or a reset was lost (app_ctrl.c:201-206, 621, 1487)
\* when the window had too few repetitions left, and nothing has reached the SOC
\* since (app_ctrl.c:108-119, 2379-2397).
WrongSocIsTold ==
    /\ saving = "no" /\ socUp = 1 /\ socFlag # rewardEnabled
    => g_soc_online = 0 \/ g_reward_sync_left > 0 \/ missed = 1

\* When commands and faults are over the SOC comes to agree with the MCU, though
\* heartbeats, repetitions and the frames that follow a SET are lost, but for a
\* lost frame that no repetition makes good: then it stays wrong
\* (app_ctrl.c:2394).
SocAgrees == <>[](socUp = 1 /\ missed = 0 => socFlag = rewardEnabled)
===========================================================================
