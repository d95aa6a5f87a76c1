---------------------------- MODULE ChargeGuard ----------------------------
(***************************************************************************)
(* The temperature guard of app_adc_mon.c.  app_adc_mon_poll samples the   *)
(* socket and the sensor every 10 ms and, every ReportSamples samples,     *)
(* turns the mean into one reading and lets app_adc_mon_temp_charge_manage *)
(* decide: charging ends above 50 degrees and resumes at 40, above 70 the  *)
(* device is to switch itself off.                                         *)
(*                                                                         *)
(* A temperature is one of the four bands the thresholds tell apart.  The  *)
(* mean of a window lies between its coldest and its hottest sample; with  *)
(* the sensor loose it may be anything, or no valid reading at all.        *)
(***************************************************************************)
EXTENDS Naturals

CONSTANTS
    ReportSamples,     \* samples of a report: 25 in the code
    DebounceSamples,   \* APP_CHARGE_GPIO_DEBOUNCE_SAMPLES
    MaxRestarts        \* bound: wake-ups and resets of a behaviour

ASSUME GuardAssumption ==
    /\ DebounceSamples \in Nat \ {0}
    /\ ReportSamples \in Nat /\ ReportSamples >= DebounceSamples
    /\ MaxRestarts \in Nat

Cool    == 0   \* at most APP_NTC_CHARGE_ON_TEMP_C, 40
Warm    == 1   \* at most APP_NTC_CHARGE_OFF_TEMP_C, 50
Hot     == 2   \* at most APP_NTC_POWER_OFF_TEMP_C, 70
Burning == 3

Bands == Cool..Burning

VARIABLES
    temp, wired, plugged,        \* battery, sensor and socket as they are
    lowest, highest, sound,      \* the window's samples; sound: sensor never loose
    s_sample_cnt,
    s_usb_det_stable, s_usb_det_cnt,
    s_charge_switch_on,          \* also the level of GPIO_CHARGE_EN
    g_app_power_on, powerState,  \* app.c's flag; what the SOC and the APP are told
    hotFor,     \* history: samples in a row that were hot, plugged in and sound
    burningFor, \* history: samples in a row that were burning and sound
    cooled,     \* history: 1 when a sample was cool, or loose, since charging
                \* ended or the guard started anew
    restarts

world == <<temp, wired, plugged>>
window == <<lowest, highest, sound, s_sample_cnt>>
socket == <<s_usb_det_stable, s_usb_det_cnt>>
history == <<hotFor, burningFor, cooled>>
vars == <<world, window, socket, s_charge_switch_on, g_app_power_on, powerState,
          history, restarts>>

Init ==
    /\ temp \in Bands /\ wired \in 0..1 /\ plugged \in 0..1
    /\ lowest = Burning /\ highest = Cool /\ sound = 1 /\ s_sample_cnt = 0
    /\ s_usb_det_stable = plugged /\ s_usb_det_cnt = 0
    /\ s_charge_switch_on = 1 /\ g_app_power_on = 0 /\ powerState = 0
    /\ hotFor = 0 /\ burningFor = 0 /\ cooled = 1 /\ restarts = 0

\* The battery warms or cools, the charger comes or goes, the sensor breaks.
WorldChanges ==
    /\ \/ temp' \in Bands \ {temp} /\ UNCHANGED <<wired, plugged>>
       \/ wired' = 1 - wired /\ UNCHANGED <<temp, plugged>>
       \/ plugged' = 1 - plugged /\ UNCHANGED <<temp, wired>>
    /\ UNCHANGED <<window, socket, s_charge_switch_on, g_app_power_on, powerState,
                   history, restarts>>

\* POWER_CTRL of the APP (app_ctrl_handle_power_ctrl)
power_ctrl(on) ==
    /\ g_app_power_on' = on /\ powerState' = on
    /\ UNCHANGED <<world, window, socket, s_charge_switch_on, history, restarts>>

gpio_debounce ==
    \/ /\ plugged = s_usb_det_stable
       /\ s_usb_det_cnt' = 0 /\ UNCHANGED s_usb_det_stable
    \/ /\ plugged # s_usb_det_stable
       /\ IF s_usb_det_cnt + 1 >= DebounceSamples
          THEN s_usb_det_cnt' = 0 /\ s_usb_det_stable' = plugged
          ELSE s_usb_det_cnt' = s_usb_det_cnt + 1 /\ UNCHANGED s_usb_det_stable

\* The window with one sample more
Lowest  == IF temp < lowest THEN temp ELSE lowest
Highest == IF temp > highest THEN temp ELSE highest
Sound   == IF wired = 1 THEN sound ELSE 0

\* The readings the mean of that window may give
Readings == IF Sound = 1 THEN Lowest..Highest ELSE Bands

Longer(n) == IF n < 2 * ReportSamples THEN n + 1 ELSE n

\* History: what this sample adds, counted up to two windows.
Witness ==
    /\ hotFor' = IF temp >= Hot /\ wired = 1 /\ plugged = 1 THEN Longer(hotFor) ELSE 0
    /\ burningFor' = IF temp = Burning /\ wired = 1 THEN Longer(burningFor) ELSE 0
    /\ cooled' = IF s_charge_switch_on' = 0 /\ s_charge_switch_on = 1 THEN 0
                 ELSE IF temp = Cool \/ wired = 0 THEN 1 ELSE cooled

sample ==
    /\ s_sample_cnt + 1 < ReportSamples
    /\ s_sample_cnt' = s_sample_cnt + 1
    /\ lowest' = Lowest /\ highest' = Highest /\ sound' = Sound
    /\ gpio_debounce
    /\ UNCHANGED <<world, s_charge_switch_on, g_app_power_on, powerState, restarts>>
    /\ Witness

TooHot(reading) == \/ reading = Burning
                   \/ s_usb_det_stable' = 1 /\ reading > Warm

\* Mutant: with the charger away nothing is done, the burning battery included.
charge_switch_plugged_only(reading) ==
    IF s_usb_det_stable' = 0 THEN s_charge_switch_on
    ELSE IF s_charge_switch_on = 1
    THEN IF reading > Warm THEN 0 ELSE 1
    ELSE IF reading <= Cool THEN 1 ELSE 0

\* Mutant: one threshold for both ways.
charge_switch_no_gap(reading) ==
    IF reading = Burning THEN 0
    ELSE IF s_usb_det_stable' = 0 THEN s_charge_switch_on
    ELSE IF reading <= Warm THEN 1 ELSE 0

\* Mutant: charging does not resume.
charge_switch_once(reading) ==
    IF TooHot(reading) THEN 0
    ELSE s_charge_switch_on

charge_switch(reading) ==
    IF TooHot(reading) THEN 0
    ELSE IF s_usb_det_stable' = 1 /\ reading <= Cool THEN 1
    ELSE s_charge_switch_on

temp_charge_manage(reading, power) ==
    /\ s_charge_switch_on' = charge_switch(reading)
    /\ g_app_power_on' = IF reading = Burning THEN 0 ELSE power

\* The last sample of the window and the report: without a valid reading
\* app_adc_mon_temp_charge_manage returns at once.  Just before, the gauge
\* clears the flag if the battery is empty, though it is charging.
report(empty) ==
    /\ s_sample_cnt + 1 >= ReportSamples
    /\ gpio_debounce
    /\ empty = 1 => s_usb_det_stable' = 1
    /\ LET power == IF empty = 1 THEN 0 ELSE g_app_power_on IN
       \/ \E reading \in Readings : temp_charge_manage(reading, power)
       \/ Sound = 0 /\ g_app_power_on' = power /\ UNCHANGED s_charge_switch_on
    /\ s_sample_cnt' = 0 /\ lowest' = Burning /\ highest' = Cool /\ sound' = 1
    /\ UNCHANGED <<world, powerState, restarts>>
    /\ Witness

\* Reset or wake-up from deep sleep: everything in RAM starts anew.
Restart ==
    /\ restarts < MaxRestarts /\ restarts' = restarts + 1
    /\ lowest' = Burning /\ highest' = Cool /\ sound' = 1 /\ s_sample_cnt' = 0
    /\ s_usb_det_stable' = plugged /\ s_usb_det_cnt' = 0
    /\ s_charge_switch_on' = 1 /\ g_app_power_on' = 0 /\ powerState' = 0
    /\ hotFor' = 0 /\ burningFor' = 0 /\ cooled' = 1
    /\ UNCHANGED world

poll == sample \/ \E empty \in 0..1 : report(empty)

Next == WorldChanges \/ (\E on \in 0..1 : power_ctrl(on)) \/ poll \/ Restart

Spec == Init /\ [][Next]_vars

\* The main loop comes round.
FairSpec == Spec /\ WF_vars(poll)

---------------------------------------------------------------------------
\* Properties

TypeOK ==
    /\ temp \in Bands /\ wired \in 0..1 /\ plugged \in 0..1
    /\ lowest \in Bands /\ highest \in Bands /\ sound \in 0..1
    /\ s_sample_cnt \in 0..(ReportSamples - 1)
    /\ s_usb_det_stable \in 0..1 /\ s_usb_det_cnt \in 0..(DebounceSamples - 1)
    /\ s_charge_switch_on \in 0..1 /\ g_app_power_on \in 0..1 /\ powerState \in 0..1
    /\ hotFor \in 0..2 * ReportSamples /\ burningFor \in 0..2 * ReportSamples
    /\ cooled \in 0..1
    /\ restarts \in 0..MaxRestarts

\* A battery above 50 degrees on the charger is not charged for longer than two
\* windows less one sample, whatever the world did before; above 70 degrees
\* without regard to the socket (app_adc_mon.c:323-331, 341-347).
HeatEndsCharge ==
    \/ hotFor >= 2 * ReportSamples - 1
    \/ burningFor >= 2 * ReportSamples - 1
    => s_charge_switch_on = 0

\* Once ended, charging resumes only after the battery was at 40 degrees
\* (docs/蛋安抚器产品定义.md:80; app_adc_mon.c:333-337), or after a restart: the
\* switch is in RAM and starts as 1.
ResumesOnlyCool == s_charge_switch_on = 1 => cooled = 1

\* "Above 70 degrees: forced power off" (app_adc_mon.c:340,
\* docs/蛋安抚器产品定义.md:81): the power state
\* told to the SOC and to the APP follows the flag the guard clears.
BurningIsOff ==
    burningFor >= 2 * ReportSamples - 1 /\ g_app_power_on = 0 => powerState = 0

\* A cool battery on the charger is charged again (app_adc_mon.c:333-337).
CoolResumes ==
    <>[](temp = Cool /\ wired = 1 /\ plugged = 1) => <>[](s_charge_switch_on = 1)
===========================================================================
