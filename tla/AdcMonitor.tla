----------------------------- MODULE AdcMonitor -----------------------------
(***************************************************************************)
(* app_adc_mon_poll as a whole: the temperature guard and the battery      *)
(* gauge take their share of the same report, read the same debounced      *)
(* socket, start anew together, and the gauge clears the power flag of a   *)
(* device whose battery is empty though it is charging.                    *)
(*                                                                         *)
(* "use" bounds a behaviour, one of the records of Uses: the temperatures  *)
(* and percentages there are, whether the sensor may be loose, whether the *)
(* power is switched and whether an APP shows the level.                   *)
(***************************************************************************)
EXTENDS ChargeGuard

CONSTANTS
    Top, Fixed, StepReports, StableReports, Round, Targets,  \* BatteryGauge
    Low,     \* 5 percent: below it a device that is charging is to power off
    Uses

VARIABLES
    target, age, s_bat_percent_inited, s_bat_percent, s_bat_prev_charging,
    s_bat_rate_acc_us, wanted, flash, my_batVal, listens, heard, view,
    use

Gauge == INSTANCE BatteryGauge

ASSUME MonitorAssumption ==
    /\ Gauge!GaugeConstants /\ Low \in Nat
    /\ \A u \in Uses : /\ u.bands \subseteq Bands /\ u.targets \subseteq Targets
                       /\ {u.loose, u.power, u.app} \subseteq BOOLEAN

gaugeOnly == <<target, age, s_bat_percent_inited, s_bat_percent,
               s_bat_prev_charging, s_bat_rate_acc_us, wanted, flash, my_batVal,
               listens, heard, view>>
allVars == <<vars, gaugeOnly, use>>

MonitorInit == /\ use \in Uses
               /\ Init /\ Gauge!Init
               /\ temp \in use.bands /\ {target, flash} \subseteq use.targets
               /\ wired = 1 \/ use.loose

---------------------------------------------------------------------------
\* The world: temperature, sensor and socket, or the voltage

TemperatureMoves ==
    /\ WorldChanges
    /\ temp' \in use.bands /\ (wired' = 1 \/ use.loose)
    /\ UNCHANGED <<gaugeOnly, use>>

VoltageMoves == Gauge!VoltageChanges /\ target' \in use.targets /\ UNCHANGED <<vars, use>>

PowerSwitched == use.power /\ (\E on \in 0..1 : power_ctrl(on)) /\ UNCHANGED <<gaugeOnly, use>>

---------------------------------------------------------------------------
\* app_adc_mon_poll

\* A sample that completes no report, the gauge's sums included
poll_sample == sample /\ UNCHANGED <<gaugeOnly, use>>

\* app_adc_mon_is_charging: besides the socket it wants the charger's pin and
\* a SOC that executes nothing.
EmptyThoughCharging == /\ Gauge!Stable
                       /\ s_usb_det_stable' = 1 /\ s_bat_percent' < Low

poll_report == \E empty \in 0..1 :
                  /\ report(empty) /\ Gauge!report
                  /\ empty = 1 => EmptyThoughCharging
                  /\ UNCHANGED use

monitor_poll == poll_sample \/ poll_report

---------------------------------------------------------------------------
\* Main loop, APP and restarts

level_update == Gauge!battery_update /\ UNCHANGED <<vars, use>>
level_read == use.app /\ (Gauge!Subscribes \/ Gauge!Leaves) /\ UNCHANGED <<vars, use>>

starts == Restart /\ Gauge!Restart /\ UNCHANGED use

MonitorNext == \/ TemperatureMoves \/ VoltageMoves \/ PowerSwitched
               \/ monitor_poll \/ level_update \/ level_read \/ starts

MonitorSpec == MonitorInit /\ [][MonitorNext]_allVars

---------------------------------------------------------------------------
\* Properties

\* See BatteryGauge.
StepsAreEarned == [][Gauge!StepIsEarned]_allVars

\* Once voltage and socket rest, and the device stays up, the percentage comes
\* to what they allow, and an APP that heard every notification shows it, though
\* the clock comes round and the gauge stands still for a while in every round
\* (app_adc_mon.c:263-315, 466, app.c:1119-1129, app_att.c:533-551).
LevelSettles ==
    <>[][UNCHANGED <<target, s_usb_det_stable>>]_allVars =>
        <>[](/\ Gauge!Allowed(target, s_usb_det_stable) = s_bat_percent
             /\ heard = 1 => view = s_bat_percent)
===========================================================================
