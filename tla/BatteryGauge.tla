---------------------------- MODULE BatteryGauge ----------------------------
(***************************************************************************)
(* The battery percentage of app_adc_mon.c and the Battery Service that    *)
(* shows it.  Every 250 ms app_adc_mon_poll turns the mean voltage into a  *)
(* percentage and lets the displayed one follow it by one step a second,   *)
(* upwards with a charger in the socket, downwards without.  The value in  *)
(* flash bridges the first seconds after a start; then 50 is set.          *)
(*                                                                         *)
(* The clock is a counter of 32 bits that comes round every 268 s: the     *)
(* seconds in which the gauge waits for a stable voltage come back with    *)
(* every round.                                                            *)
(***************************************************************************)
EXTENDS Integers

CONSTANTS
    Top,           \* 100 percent, also what an empty flash stands for
    Fixed,         \* 50, what the first stable report sets
    StepReports,   \* reports of a step: 4, APP_BAT_CHARGE_STEP_S of 250 ms each
    StableReports, \* reports of APP_BAT_PERCENT_STABLE_US
    Round,         \* reports in a round of the clock
    Targets        \* the percentages the voltage may stand for

\* What the constants may be; AdcMonitor assumes it.
GaugeConstants ==
    /\ Top \in Nat /\ Fixed \in 0..Top /\ Targets \subseteq 0..Top
    /\ StepReports \in Nat \ {0}
    /\ StableReports \in Nat /\ Round \in Nat /\ StableReports + 1 < Round

VARIABLES
    target,             \* the percentage the mean voltage stands for
    s_usb_det_stable,
    age,                \* reports since s_adc_init_tick, as the clock counts
    s_bat_percent_inited,   \* and first_5ms_flag, set by the same report
    s_bat_percent, s_bat_prev_charging, s_bat_rate_acc_us,
    wanted,             \* history: reports in a row that asked for a step up,
                        \* or with the minus sign for a step down
    flash,              \* the percentage stored, Top if there is none
    my_batVal,          \* the value of the characteristic
    listens,            \* 1: an APP has the level's notifications on
    heard,              \* history: 1 if it read the level, or heard it, since
                        \* the last notification that got lost
    view                \* the level it shows

gauge == <<s_bat_percent_inited, s_bat_percent, s_bat_prev_charging,
           s_bat_rate_acc_us, wanted>>
service == <<my_batVal, listens, heard, view>>
vars == <<target, s_usb_det_stable, age, gauge, flash, service>>

\* app_adc_mon_init with what the flash holds; the first pass of the main loop
\* puts it into the characteristic before anybody can read it.
Init ==
    /\ target \in Targets /\ s_usb_det_stable \in 0..1
    /\ flash \in Targets \cup {Top}
    /\ age = 0 /\ s_bat_percent_inited = 0 /\ s_bat_percent = flash
    /\ s_bat_prev_charging = 255 /\ s_bat_rate_acc_us = 0 /\ wanted = 0
    /\ my_batVal = flash /\ listens = 0 /\ heard = 0 /\ view = flash

\* A start with f in flash
Start(f) ==
    /\ flash' = f
    /\ age' = 0 /\ s_bat_percent_inited' = 0 /\ s_bat_percent' = f
    /\ s_bat_prev_charging' = 255 /\ s_bat_rate_acc_us' = 0 /\ wanted' = 0
    /\ my_batVal' = f /\ listens' = 0 /\ heard' = 0
    /\ UNCHANGED <<target, view>>

---------------------------------------------------------------------------
\* The battery drains or is charged; a charger is found or missed.

VoltageChanges ==
    /\ target' \in Targets
    /\ UNCHANGED <<s_usb_det_stable, age, gauge, flash, service>>

SocketChanges ==
    /\ s_usb_det_stable' = 1 - s_usb_det_stable
    /\ UNCHANGED <<target, age, gauge, flash, service>>

---------------------------------------------------------------------------
\* app_adc_mon_bat_percent_apply_rate_limit

\* What the charger allows of a target: a charged battery does not fall, any
\* other does not rise.
Allowed(raw, charging) ==
    IF (charging = 1 /\ raw < s_bat_percent) \/ (charging = 0 /\ raw > s_bat_percent)
    THEN s_bat_percent ELSE raw

\* Mutant: time gathered under the other charger counts.
Gathered_always(charging) == 1 + s_bat_rate_acc_us

\* The time towards the next step, in reports, with this one
Gathered(charging) ==
    1 + IF s_bat_prev_charging = charging THEN s_bat_rate_acc_us ELSE 0

apply_rate_limit(raw, charging) ==
    /\ s_bat_prev_charging' = charging
    /\ LET goal == Allowed(raw, charging) IN
       \/ /\ goal = s_bat_percent
          /\ s_bat_rate_acc_us' = 0 /\ UNCHANGED s_bat_percent
       \/ /\ goal # s_bat_percent /\ Gathered(charging) < StepReports
          /\ s_bat_rate_acc_us' = Gathered(charging) /\ UNCHANGED s_bat_percent
       \/ /\ goal # s_bat_percent /\ Gathered(charging) >= StepReports
          /\ s_bat_rate_acc_us' = Gathered(charging) - StepReports
          /\ s_bat_percent' = IF charging = 1 THEN s_bat_percent + 1
                              ELSE s_bat_percent - 1

\* History: what this report asks for, forgotten by a step
Wanted(raw, charging) ==
    IF charging = 1 /\ raw > s_bat_percent THEN 1 + (IF wanted > 0 THEN wanted ELSE 0)
    ELSE IF charging = 0 /\ raw < s_bat_percent
    THEN (IF wanted < 0 THEN wanted ELSE 0) - 1
    ELSE 0

\* The first stable report sets Fixed, whatever the voltage, and saves it.
first_report(charging) ==
    /\ s_bat_percent_inited = 0 /\ s_bat_percent_inited' = 1
    /\ s_bat_prev_charging' = charging /\ s_bat_rate_acc_us' = 0
    /\ s_bat_percent' = Fixed /\ flash' = Fixed /\ wanted' = 0

later_report(charging) ==
    /\ s_bat_percent_inited = 1
    /\ apply_rate_limit(target, charging)
    /\ wanted' = IF s_bat_percent' # s_bat_percent THEN 0 ELSE Wanted(target, charging)
    /\ UNCHANGED <<s_bat_percent_inited, flash>>

\* clock_time_exceed(s_adc_init_tick, APP_BAT_PERCENT_STABLE_US)
Stable == age' > StableReports

\* The gauge's part of a report; the socket has just been sampled.
report ==
    /\ age' = (age + 1) % Round
    /\ s_usb_det_stable' \in 0..1
    /\ \/ ~Stable /\ UNCHANGED <<gauge, flash>>
       \/ Stable /\ (first_report(s_usb_det_stable') \/ later_report(s_usb_det_stable'))
    /\ UNCHANGED <<target, service>>

---------------------------------------------------------------------------
\* Battery Service

\* Mutant: only a falling level is notified.
battery_update_falling ==
    /\ s_bat_percent # my_batVal
    /\ my_batVal' = s_bat_percent
    /\ IF listens = 1 /\ s_bat_percent < my_batVal
       THEN view' = s_bat_percent /\ heard' = 1
       ELSE UNCHANGED <<view, heard>>
    /\ UNCHANGED <<target, s_usb_det_stable, age, gauge, flash, listens>>

\* The main loop, or a status push, finds another percentage than was reported
\* last, which is the characteristic's.  A notification the stack does not take
\* is lost.
battery_update ==
    /\ s_bat_percent # my_batVal
    /\ my_batVal' = s_bat_percent
    /\ \/ listens = 0 /\ UNCHANGED <<view, heard>>
       \/ listens = 1 /\ view' = s_bat_percent /\ heard' = 1
       \/ listens = 1 /\ heard' = 0 /\ UNCHANGED view
    /\ UNCHANGED <<target, s_usb_det_stable, age, gauge, flash, listens>>

\* An APP connects, switches the notifications on and reads the level.
Subscribes ==
    /\ listens = 0 /\ listens' = 1
    /\ view' = my_batVal /\ heard' = 1
    /\ UNCHANGED <<target, s_usb_det_stable, age, gauge, flash, my_batVal>>

Leaves ==
    /\ listens = 1 /\ listens' = 0 /\ heard' = 0
    /\ UNCHANGED <<target, s_usb_det_stable, age, gauge, flash, my_batVal, view>>

---------------------------------------------------------------------------
\* Starts

\* app_request_deep_sleep without a connection saves the percentage, key or
\* charger start the chip again.  Power may fail between erasing and writing.
DeepSleep ==
    /\ listens = 0
    /\ s_usb_det_stable' \in 0..1
    /\ Start(s_bat_percent) \/ Start(Top)

\* A reset, or power fails; in the first stable report also while it saves.
Reset ==
    /\ s_usb_det_stable' \in 0..1
    /\ \/ Start(flash)
       \/ s_bat_percent_inited = 0 /\ age >= StableReports /\ Start(Top)

Restart == DeepSleep \/ Reset

Next == \/ VoltageChanges \/ SocketChanges \/ report
        \/ battery_update \/ Subscribes \/ Leaves \/ Restart

Spec == Init /\ [][Next]_vars

---------------------------------------------------------------------------
\* Properties

TypeOK ==
    /\ target \in Targets /\ s_usb_det_stable \in 0..1
    /\ age \in 0..(Round - 1) /\ s_bat_percent_inited \in 0..1
    /\ s_bat_percent \in 0..Top /\ flash \in 0..Top
    /\ s_bat_prev_charging \in {0, 1, 255}
    /\ s_bat_rate_acc_us \in 0..(StepReports - 1)
    /\ wanted \in (-StepReports)..StepReports
    /\ my_batVal \in 0..Top /\ view \in 0..Top
    /\ listens \in 0..1 /\ heard \in 0..1

\* Between two starts the percentage, once set, moves by single steps, up only
\* with a charger and down only without, each after a full second of reports
\* that asked for it under that charger (app_adc_mon.c:276-312).
StepIsEarned ==
    s_bat_percent' # s_bat_percent /\ s_bat_percent_inited = 1
        /\ s_bat_percent_inited' = 1 =>
      \/ /\ s_bat_percent' = s_bat_percent + 1
         /\ s_usb_det_stable' = 1 /\ wanted = StepReports - 1
      \/ /\ s_bat_percent' = s_bat_percent - 1
         /\ s_usb_det_stable' = 0 /\ wanted = 1 - StepReports
StepsAreEarned == [][StepIsEarned]_vars
===========================================================================
