-------------------------- MODULE AdcMonitorProofs --------------------------
(***************************************************************************)
(* What temperature guard and battery gauge promise for every length of a  *)
(* report, of the debouncing and of a step.                                *)
(*                                                                         *)
(* The guard first.  Its bound of two windows needs to know that the       *)
(* socket is debounced before a window ends and that the samples of the    *)
(* current window were as hot as the counters say.                         *)
(*                                                                         *)
(* The monitor implements both of its parts: each of its steps is a step   *)
(* of either or leaves it alone.  What is proved of a part therefore holds *)
(* of the whole.  Of the gauge: no step without a full second of reports   *)
(* that asked for it, since the time it gathers is the length of that row  *)
(* of reports.                                                             *)
(*                                                                         *)
(* The two tables last: their rows fall, so the first pair that fits is    *)
(* the only one, and what the division rounds stays between its two rows.  *)
(***************************************************************************)
EXTENDS Integers, AdcMonitor, AdcTables, WellFoundedInduction, TLAPS


\* No variable leaves its range.
THEOREM TypeCorrect == Spec => []TypeOK
<1>. USE GuardAssumption DEF TypeOK, Bands, Cool, Warm, Hot, Burning
<1>1. Init => TypeOK
  BY DEF Init
<1>2. TypeOK /\ [Next]_vars => TypeOK'
  <2>. SUFFICES ASSUME TypeOK, [Next]_vars PROVE TypeOK'
    OBVIOUS
  <2>1. CASE WorldChanges
    BY <2>1 DEF WorldChanges, window, socket, history
  <2>2. ASSUME NEW on \in 0..1, power_ctrl(on) PROVE TypeOK'
    BY <2>2 DEF power_ctrl, world, window, socket, history
  <2>3. CASE sample
    BY <2>3 DEF sample, gpio_debounce, Witness, Longer, Lowest, Highest, Sound, world
  <2>4. ASSUME NEW empty \in 0..1, report(empty) PROVE TypeOK'
    <3>1. s_charge_switch_on' \in 0..1 /\ g_app_power_on' \in 0..1
      BY <2>4 DEF report, temp_charge_manage, charge_switch
    <3>2. s_usb_det_stable' \in 0..1 /\ s_usb_det_cnt' \in 0..(DebounceSamples - 1)
      BY <2>4 DEF report, gpio_debounce
    <3>. QED
      BY <2>4, <3>1, <3>2 DEF report, Witness, Longer, world
  <2>5. CASE Restart
    BY <2>5 DEF Restart, world
  <2>6. CASE UNCHANGED vars
    BY <2>6 DEF vars, world, window, socket, history
  <2>. QED
    BY <2>1, <2>2, <2>3, <2>4, <2>5, <2>6 DEF Next, poll
<1>. QED
  BY <1>1, <1>2, PTL DEF Spec

---------------------------------------------------------------------------
\* The counters against the window, the socket and the switch.

Counted == /\ hotFor >= s_sample_cnt => lowest >= Hot /\ sound = 1
           /\ burningFor >= s_sample_cnt => lowest = Burning /\ sound = 1

Debounced == s_usb_det_stable = 0 => hotFor <= s_usb_det_cnt

Ended == /\ hotFor >= ReportSamples + s_sample_cnt => s_charge_switch_on = 0
         /\ burningFor >= ReportSamples + s_sample_cnt => s_charge_switch_on = 0

GuardInv == Counted /\ Debounced /\ Ended

LEMMA GuardInvHolds == Spec => []GuardInv
<1>. USE GuardAssumption DEF TypeOK, Bands, Cool, Warm, Hot, Burning
<1>1. Init => GuardInv
  BY DEF Init, GuardInv, Counted, Debounced, Ended
<1>2. TypeOK /\ GuardInv /\ [Next]_vars => GuardInv'
  <2>. SUFFICES ASSUME TypeOK, GuardInv, [Next]_vars PROVE GuardInv'
    OBVIOUS
  <2>. USE DEF GuardInv
  <2>1. CASE WorldChanges
    BY <2>1 DEF WorldChanges, window, socket, history, Counted, Debounced, Ended
  <2>2. ASSUME NEW on \in 0..1, power_ctrl(on) PROVE GuardInv'
    BY <2>2 DEF power_ctrl, world, window, socket, history, Counted, Debounced, Ended
  <2>3. CASE sample
    <3>1. Counted'
      BY <2>3 DEF sample, Witness, Longer, Lowest, Sound, Counted
    <3>2. Debounced'
      BY <2>3 DEF sample, Witness, Longer, gpio_debounce, Debounced
    <3>3. Ended'
      BY <2>3 DEF sample, Witness, Longer, Ended
    <3>. QED
      BY <3>1, <3>2, <3>3
  <2>4. ASSUME NEW empty \in 0..1, report(empty) PROVE GuardInv'
    <3>1. Debounced'
      BY <2>4 DEF report, Witness, Longer, gpio_debounce, Debounced
    <3>2. s_usb_det_cnt' \in 0..(DebounceSamples - 1) /\ s_usb_det_stable' \in 0..1
      BY <2>4 DEF report, gpio_debounce
    <3>3. ASSUME hotFor' >= ReportSamples PROVE s_charge_switch_on' = 0
      <4>1. s_usb_det_stable' = 1
        <5>1. hotFor' \in Nat
          BY <2>4 DEF report, Witness, Longer
        <5>. QED
          BY <3>1, <3>2, <3>3, <5>1 DEF Debounced
      <4>2. temp >= Hot /\ wired = 1 /\ hotFor >= s_sample_cnt
        BY <2>4, <3>3 DEF report, Witness, Longer
      <4>3. Sound = 1 /\ \A r \in Readings : r > Warm
        BY <4>2 DEF Counted, Sound, Readings, Lowest
      <4>. QED
        BY <2>4, <4>1, <4>3 DEF report, temp_charge_manage, charge_switch, TooHot
    <3>4. ASSUME burningFor' >= ReportSamples PROVE s_charge_switch_on' = 0
      <4>1. temp = Burning /\ wired = 1 /\ burningFor >= s_sample_cnt
        BY <2>4, <3>4 DEF report, Witness, Longer
      <4>2. Sound = 1 /\ \A r \in Readings : r = Burning
        BY <4>1 DEF Counted, Sound, Readings, Lowest, Highest
      <4>. QED
        BY <2>4, <4>2 DEF report, temp_charge_manage, charge_switch, TooHot
    <3>5. Ended'
      BY <2>4, <3>3, <3>4 DEF report, Ended
    <3>6. Counted'
      BY <2>4 DEF report, Counted
    <3>. QED
      BY <3>1, <3>5, <3>6
  <2>5. CASE Restart
    BY <2>5 DEF Restart, Counted, Debounced, Ended
  <2>6. CASE UNCHANGED vars
    BY <2>6 DEF vars, world, window, socket, history, Counted, Debounced, Ended
  <2>. QED
    BY <2>1, <2>2, <2>3, <2>4, <2>5, <2>6 DEF Next, poll
<1>. QED
  BY <1>1, <1>2, TypeCorrect, PTL DEF Spec

\* A hot battery on the charger is not charged for two windows, restarts and
\* loose sensors in between included; above 70 degrees whatever the socket is
\* taken for.
THEOREM HeatNeverChargesLong == Spec => []HeatEndsCharge
<1>1. TypeOK /\ GuardInv => HeatEndsCharge
  BY GuardAssumption DEF TypeOK, GuardInv, Ended, HeatEndsCharge
<1>. QED
  BY <1>1, TypeCorrect, GuardInvHolds, PTL

---------------------------------------------------------------------------
\* Hysteresis: a cool reading has a cool sample behind it.

CoolSeen == s_charge_switch_on = 0 /\ (lowest = Cool \/ sound = 0) => cooled = 1

\* Between two restarts charging resumes only after a cool sample
\* (app_adc_mon.c:333-337).
THEOREM ResumeNeedsCool == Spec => []ResumesOnlyCool
<1>. USE GuardAssumption DEF TypeOK, Bands, Cool, Warm, Hot, Burning
<1>. DEFINE Inv == ResumesOnlyCool /\ CoolSeen
<1>1. Init => Inv
  BY DEF Init, ResumesOnlyCool, CoolSeen
<1>2. TypeOK /\ Inv /\ [Next]_vars => Inv'
  <2>. SUFFICES ASSUME TypeOK, Inv, [Next]_vars PROVE Inv'
    OBVIOUS
  <2>. USE DEF ResumesOnlyCool, CoolSeen
  <2>1. CASE WorldChanges
    BY <2>1 DEF WorldChanges, window, history
  <2>2. ASSUME NEW on \in 0..1, power_ctrl(on) PROVE Inv'
    BY <2>2 DEF power_ctrl, window, history
  <2>3. CASE sample
    BY <2>3 DEF sample, Witness, Lowest, Sound
  <2>4. ASSUME NEW empty \in 0..1, report(empty) PROVE Inv'
    <3>1. CASE s_charge_switch_on' = 0
      BY <2>4, <3>1 DEF report
    <3>2. CASE s_charge_switch_on = 1 /\ s_charge_switch_on' = 1
      BY <2>4, <3>2 DEF report, Witness
    <3>3. CASE s_charge_switch_on = 0 /\ s_charge_switch_on' = 1
      <4>1. Cool \in Readings
        BY <2>4, <3>3 DEF report, temp_charge_manage, charge_switch, Readings, Lowest, Highest
      <4>2. cooled = 1 \/ temp = Cool \/ wired = 0
        BY <3>3, <4>1 DEF Readings, Lowest, Highest, Sound
      <4>. QED
        BY <2>4, <3>3, <4>2 DEF report, Witness
    <3>4. s_charge_switch_on' \in 0..1
      BY <2>4 DEF report, temp_charge_manage, charge_switch
    <3>. QED
      BY <3>1, <3>2, <3>3, <3>4
  <2>5. CASE Restart
    BY <2>5 DEF Restart
  <2>6. CASE UNCHANGED vars
    BY <2>6 DEF vars, window, history
  <2>. QED
    BY <2>1, <2>2, <2>3, <2>4, <2>5, <2>6 DEF Next, poll
<1>. QED
  BY <1>1, <1>2, TypeCorrect, PTL DEF Spec

---------------------------------------------------------------------------
\* The composition


\* The monitor implements ChargeGuard, whatever the gauge does meanwhile.
THEOREM ImplementsGuard == MonitorSpec => Spec
<1>1. MonitorInit => Init
  BY DEF MonitorInit
<1>2. [MonitorNext]_allVars => [Next]_vars
  <2>. SUFFICES ASSUME MonitorNext \/ UNCHANGED allVars PROVE [Next]_vars
    OBVIOUS
  <2>1. CASE TemperatureMoves
    BY <2>1 DEF TemperatureMoves, Next
  <2>2. CASE VoltageMoves \/ level_update \/ level_read
    BY <2>2 DEF VoltageMoves, level_update, level_read
  <2>3. CASE PowerSwitched
    BY <2>3 DEF PowerSwitched, Next
  <2>4. CASE monitor_poll
    BY <2>4 DEF monitor_poll, poll_sample, poll_report, poll, Next
  <2>5. CASE starts
    BY <2>5 DEF starts, Next
  <2>6. CASE UNCHANGED allVars
    BY <2>6 DEF allVars
  <2>. QED
    BY <2>1, <2>2, <2>3, <2>4, <2>5, <2>6 DEF MonitorNext
<1>. QED
  BY <1>1, <1>2, PTL DEF MonitorSpec, Spec

\* A sample or a change of the world is for the gauge a change of the socket
\* at most.
LEMMA SocketOnly ==
    ASSUME s_usb_det_stable \in 0..1, s_usb_det_stable' \in 0..1,
           UNCHANGED gaugeOnly
    PROVE  Gauge!SocketChanges \/ UNCHANGED Gauge!vars
<1>1. CASE s_usb_det_stable' = s_usb_det_stable
  BY <1>1 DEF gaugeOnly, Gauge!vars, Gauge!gauge, Gauge!service
<1>2. CASE s_usb_det_stable' # s_usb_det_stable
  BY <1>2 DEF gaugeOnly, Gauge!SocketChanges, Gauge!gauge, Gauge!service
<1>. QED
  BY <1>1, <1>2

\* The monitor implements BatteryGauge, whatever the guard does meanwhile.
THEOREM ImplementsGauge == MonitorSpec => Gauge!Spec
<1>1. MonitorInit => Gauge!Init
  BY DEF MonitorInit
<1>2. TypeOK /\ TypeOK' /\ [MonitorNext]_allVars => [Gauge!Next]_(Gauge!vars)
  <2>. SUFFICES ASSUME s_usb_det_stable \in 0..1, s_usb_det_stable' \in 0..1,
                       MonitorNext \/ UNCHANGED allVars
                PROVE  [Gauge!Next]_(Gauge!vars)
    BY DEF TypeOK
  <2>1. CASE TemperatureMoves \/ PowerSwitched \/ poll_sample \/ UNCHANGED allVars
    <3>1. UNCHANGED gaugeOnly
      BY <2>1 DEF TemperatureMoves, PowerSwitched, poll_sample, allVars
    <3>. QED
      BY <3>1, SocketOnly DEF Gauge!Next
  <2>2. CASE VoltageMoves
    BY <2>2 DEF VoltageMoves, Gauge!Next
  <2>3. CASE poll_report
    BY <2>3 DEF poll_report, Gauge!Next
  <2>4. CASE level_update \/ level_read
    BY <2>4 DEF level_update, level_read, Gauge!Next
  <2>5. CASE starts
    BY <2>5 DEF starts, Gauge!Next
  <2>. QED
    BY <2>1, <2>2, <2>3, <2>4, <2>5 DEF MonitorNext, monitor_poll
<1>. QED
  BY <1>1, <1>2, ImplementsGuard, TypeCorrect, PTL DEF MonitorSpec, Gauge!Spec

\* What is proved of the guard holds of the monitor: a hot battery is not charged
\* for long, whatever the gauge does to the power flag meanwhile.
THEOREM MonitorEndsHeat == MonitorSpec => []HeatEndsCharge
  BY ImplementsGuard, HeatNeverChargesLong, PTL

---------------------------------------------------------------------------
\* The gauge

\* The time gathered is the row of reports, with the sign of its direction.
Row == IF s_bat_percent_inited = 0 THEN wanted = 0 /\ s_bat_rate_acc_us = 0
       ELSE \/ s_bat_prev_charging = 1 /\ wanted = s_bat_rate_acc_us
            \/ s_bat_prev_charging = 0 /\ wanted + s_bat_rate_acc_us = 0

GaugeInv == Gauge!TypeOK /\ Row

\* A report after the first one keeps the row, and takes an earned step only.
LEMMA LaterReport ==
    ASSUME GaugeInv, NEW charging \in 0..1, Gauge!later_report(charging)
    PROVE  /\ Row'
           /\ s_bat_percent' \in 0..Top /\ s_bat_prev_charging' = charging
           /\ s_bat_rate_acc_us' \in 0..(StepReports - 1)
           /\ wanted' \in (-StepReports)..StepReports
           /\ s_bat_percent_inited = 1 /\ s_bat_percent_inited' = 1 /\ flash' = flash
           /\ s_bat_percent' # s_bat_percent =>
                \/ /\ s_bat_percent' = s_bat_percent + 1
                   /\ charging = 1 /\ wanted = StepReports - 1
                \/ /\ s_bat_percent' = s_bat_percent - 1
                   /\ charging = 0 /\ wanted = 1 - StepReports
<1>. USE MonitorAssumption DEF Gauge!GaugeConstants, Gauge!TypeOK, GaugeInv
<1>1. /\ s_bat_percent_inited = 1 /\ s_bat_percent_inited' = 1 /\ flash' = flash
      /\ Gauge!apply_rate_limit(target, charging)
      /\ wanted' = IF s_bat_percent' # s_bat_percent THEN 0
                   ELSE Gauge!Wanted(target, charging)
      /\ s_bat_prev_charging' = charging
  BY DEF Gauge!later_report, Gauge!apply_rate_limit
<1>2. target \in Nat /\ s_bat_percent \in Nat /\ target <= Top /\ s_bat_percent <= Top
  OBVIOUS
<1>3. /\ s_bat_rate_acc_us \in Nat /\ s_bat_rate_acc_us < StepReports /\ wanted \in Int
      /\ StepReports \in Nat /\ StepReports > 0
  OBVIOUS
<1>4. CASE charging = 1
  <2>1. CASE target > s_bat_percent
    <3>1. Gauge!Allowed(target, charging) # s_bat_percent
      BY <1>2, <1>4, <2>1 DEF Gauge!Allowed
    <3>2. Gauge!Wanted(target, charging) = Gauge!Gathered(charging)
      BY <1>1, <1>2, <1>3, <1>4, <2>1 DEF Gauge!Wanted, Gauge!Gathered, Row
    <3>3. /\ Gauge!Gathered(charging) \in 1..StepReports
          /\ Gauge!Gathered(charging) = StepReports => wanted = StepReports - 1
      BY <1>1, <1>3, <1>4, <3>2 DEF Gauge!Gathered, Row, Gauge!Wanted
    <3>. QED
      BY <1>1, <1>2, <1>3, <1>4, <2>1, <3>1, <3>2, <3>3 DEF Gauge!apply_rate_limit, Row
  <2>2. CASE ~(target > s_bat_percent)
    <3>1. Gauge!Allowed(target, charging) = s_bat_percent
      BY <1>2, <1>4, <2>2 DEF Gauge!Allowed
    <3>2. Gauge!Wanted(target, charging) = 0
      BY <1>4, <2>2 DEF Gauge!Wanted
    <3>. QED
      BY <1>1, <1>2, <1>3, <1>4, <3>1, <3>2 DEF Gauge!apply_rate_limit, Row
  <2>. QED
    BY <2>1, <2>2
<1>5. CASE charging = 0
  <2>1. CASE target < s_bat_percent
    <3>1. Gauge!Allowed(target, charging) # s_bat_percent
      BY <1>2, <1>5, <2>1 DEF Gauge!Allowed
    <3>2. Gauge!Wanted(target, charging) + Gauge!Gathered(charging) = 0
      BY <1>1, <1>2, <1>3, <1>5, <2>1 DEF Gauge!Wanted, Gauge!Gathered, Row
    <3>3. /\ Gauge!Gathered(charging) \in 1..StepReports
          /\ Gauge!Gathered(charging) = StepReports => wanted = 1 - StepReports
      BY <1>1, <1>3, <1>5, <3>2 DEF Gauge!Gathered, Row, Gauge!Wanted
    <3>. QED
      BY <1>1, <1>2, <1>3, <1>5, <2>1, <3>1, <3>2, <3>3 DEF Gauge!apply_rate_limit, Row
  <2>2. CASE ~(target < s_bat_percent)
    <3>1. Gauge!Allowed(target, charging) = s_bat_percent
      BY <1>2, <1>5, <2>2 DEF Gauge!Allowed
    <3>2. Gauge!Wanted(target, charging) = 0
      BY <1>5, <2>2 DEF Gauge!Wanted
    <3>. QED
      BY <1>1, <1>2, <1>3, <1>5, <3>1, <3>2 DEF Gauge!apply_rate_limit, Row
  <2>. QED
    BY <2>1, <2>2
<1>. QED
  BY <1>4, <1>5

LEMMA GaugeInvHolds == Gauge!Spec => []GaugeInv
<1>. USE MonitorAssumption DEF Gauge!GaugeConstants
<1>1. Gauge!Init => GaugeInv
  BY DEF Gauge!Init, GaugeInv, Gauge!TypeOK, Row
<1>2. GaugeInv /\ [Gauge!Next]_(Gauge!vars) => GaugeInv'
  <2>. SUFFICES ASSUME GaugeInv, [Gauge!Next]_(Gauge!vars) PROVE GaugeInv'
    OBVIOUS
  <2>. USE DEF GaugeInv, Gauge!TypeOK
  <2>1. CASE Gauge!VoltageChanges
    BY <2>1 DEF Gauge!VoltageChanges, Gauge!gauge, Gauge!service, Row
  <2>2. CASE Gauge!SocketChanges
    BY <2>2 DEF Gauge!SocketChanges, Gauge!gauge, Gauge!service, Row
  <2>3. CASE Gauge!report
    <3>1. age' \in 0..(Round - 1) /\ UNCHANGED <<target, Gauge!service>>
      <4>1. age + 1 \in Nat /\ Round \in Nat /\ Round > 0 /\ age' = (age + 1) % Round
        BY <2>3 DEF Gauge!report
      <4>2. age' \in 0..(Round - 1)
        BY <4>1
      <4>. QED
        BY <2>3, <4>2 DEF Gauge!report
    <3>2. CASE UNCHANGED <<Gauge!gauge, flash>>
      BY <2>3, <3>1, <3>2 DEF Gauge!report, Gauge!gauge, Gauge!service, Row
    <3>3. CASE Gauge!first_report(s_usb_det_stable')
      <4>1. s_usb_det_stable' \in 0..1
        BY <2>3 DEF Gauge!report
      <4>2. 0 \in 0..(StepReports - 1) /\ 0 \in (-StepReports)..StepReports
        OBVIOUS
      <4>3. Row'
        <5>1. s_bat_prev_charging' = 1 \/ s_bat_prev_charging' = 0
          BY <3>3, <4>1 DEF Gauge!first_report
        <5>2. /\ s_bat_percent_inited' = 1
              /\ wanted' = 0 /\ s_bat_rate_acc_us' = 0
          BY <3>3 DEF Gauge!first_report
        <5>. QED
          BY ONLY <5>1, <5>2 DEF Row
      <4>. QED
        BY <3>1, <3>3, <4>1, <4>2, <4>3 DEF Gauge!first_report, Gauge!service
    <3>4. CASE Gauge!later_report(s_usb_det_stable')
      <4>1. s_usb_det_stable' \in 0..1
        BY <2>3 DEF Gauge!report
      <4>. QED
        BY <3>1, <3>4, <4>1, LaterReport DEF Gauge!service
    <3>. QED
      BY <2>3, <3>2, <3>3, <3>4 DEF Gauge!report
  <2>4. CASE Gauge!battery_update
    BY <2>4 DEF Gauge!battery_update, Gauge!gauge, Row
  <2>5. CASE Gauge!Subscribes \/ Gauge!Leaves
    BY <2>5 DEF Gauge!Subscribes, Gauge!Leaves, Gauge!gauge, Row
  <2>6. CASE Gauge!Restart
    BY <2>6 DEF Gauge!Restart, Gauge!DeepSleep, Gauge!Reset, Gauge!Start, Row
  <2>7. CASE UNCHANGED Gauge!vars
    BY <2>7 DEF Gauge!vars, Gauge!gauge, Gauge!service, Row
  <2>. QED
    BY <2>1, <2>2, <2>3, <2>4, <2>5, <2>6, <2>7 DEF Gauge!Next
<1>. QED
  BY <1>1, <1>2, PTL DEF Gauge!Spec

\* Types of the gauge, for every number of reports, every set of voltages and
\* every history of starts.
THEOREM GaugeTypes == Gauge!Spec => []Gauge!TypeOK
<1>1. GaugeInv => Gauge!TypeOK
  BY DEF GaugeInv
<1>. QED
  BY <1>1, GaugeInvHolds, PTL

\* Between two starts no step of the percentage without a full second of reports
\* that asked for it, up only with a charger, down only without, however voltage
\* and charger change and however often the clock comes round
\* (app_adc_mon.c:263-315).
THEOREM EveryStepIsEarned == MonitorSpec => StepsAreEarned
<1>1. GaugeInv /\ [Gauge!Next]_(Gauge!vars) => Gauge!StepIsEarned
  <2>. SUFFICES ASSUME GaugeInv, [Gauge!Next]_(Gauge!vars),
                       s_bat_percent' # s_bat_percent,
                       s_bat_percent_inited = 1, s_bat_percent_inited' = 1
                PROVE  Gauge!StepIsEarned
    BY DEF Gauge!StepIsEarned
  <2>1. CASE Gauge!report
    <3>1. Gauge!later_report(s_usb_det_stable') /\ s_usb_det_stable' \in 0..1
      BY <2>1 DEF Gauge!report, Gauge!first_report, Gauge!gauge
    <3>. QED
      BY <3>1, LaterReport DEF Gauge!StepIsEarned
  <2>2. CASE Gauge!Restart
    BY <2>2 DEF Gauge!Restart, Gauge!DeepSleep, Gauge!Reset, Gauge!Start
  <2>3. CASE \/ Gauge!VoltageChanges \/ Gauge!SocketChanges \/ Gauge!battery_update
             \/ Gauge!Subscribes \/ Gauge!Leaves \/ UNCHANGED Gauge!vars
    BY <2>3 DEF Gauge!VoltageChanges, Gauge!SocketChanges, Gauge!battery_update,
                Gauge!Subscribes, Gauge!Leaves, Gauge!vars, Gauge!gauge
  <2>. QED
    BY <2>1, <2>2, <2>3 DEF Gauge!Next
<1>2. MonitorSpec => []GaugeInv /\ [][Gauge!Next]_(Gauge!vars)
  BY ImplementsGauge, GaugeInvHolds, PTL DEF Gauge!Spec
<1>3. GaugeInv /\ [Gauge!Next]_(Gauge!vars) => [Gauge!StepIsEarned]_allVars
  BY <1>1
<1>. QED
  BY <1>2, <1>3, PTL DEF StepsAreEarned

---------------------------------------------------------------------------
\* The two tables

\* Every non-empty set of numbers has a least one.
LEMMA LeastNumber ==
    ASSUME NEW T, T \subseteq Nat, T # {}
    PROVE  \E m \in T : \A k \in T : m <= k
<1>1. PICK m \in T : \A k \in T : ~ (<<k, m>> \in OpToRel(<, Nat))
  BY NatLessThanWellFounded, WFMin, Zenon
<1>2. ASSUME NEW k \in T, k < m PROVE FALSE
  <2>1. <<k, m>> \in OpToRel(<, Nat)
    BY <1>2 DEF OpToRel
  <2>. QED
    BY <1>1, <2>1
<1>. QED
  BY <1>2

\* A row of numbers, each smaller than the one before it.
Falls(row) == /\ Len(row) \in Nat /\ Len(row) >= 2
              /\ \A i \in 1..Len(row) : row[i] \in Int
              /\ \A i \in 1..(Len(row) - 1) : row[i] > row[i + 1]

\* It falls from every place to every later one.
LEMMA FallsFurther ==
    ASSUME NEW row, Falls(row), NEW i \in 1..Len(row), NEW j \in 1..Len(row), i < j
    PROVE  row[i] > row[j]
<1>. DEFINE Against == {k \in 1..Len(row) : i < k /\ row[k] >= row[i]}
<1>. SUFFICES ASSUME ~(row[i] > row[j]) PROVE FALSE
  OBVIOUS
<1>0. Against \subseteq Nat /\ j \in Against
  BY DEF Falls
<1>1. PICK m \in Against : \A k \in Against : m <= k
  <2>. HIDE DEF Against
  <2>. QED
    BY <1>0, LeastNumber, Zenon
<1>2. m - 1 \in 1..(Len(row) - 1) /\ row[m - 1] > row[m] /\ i <= m - 1
  BY DEF Falls
<1>3. row[m - 1] \in Int /\ row[m] \in Int /\ row[i] \in Int
  BY <1>2 DEF Falls
<1>4. m - 1 = i \/ m - 1 \in Against
  BY <1>2, <1>3 DEF Falls
<1>5. m - 1 \notin Against
  BY <1>1
<1>. QED
  BY <1>2, <1>3, <1>4, <1>5

\* The search of both conversions ends at the first pair of neighbours around the
\* value.
LEMMA PairIsFirst ==
    ASSUME NEW row, Falls(row), NEW value \in Int,
           row[1] > value, value > row[Len(row)]
    PROVE  /\ Pair(row, value) \in 1..(Len(row) - 1)
           /\ row[Pair(row, value)] >= value
           /\ value >= row[Pair(row, value) + 1]
           /\ \A j \in 1..(Pair(row, value) - 1) : row[j + 1] > value
<1>. DEFINE Below == {k \in 1..(Len(row) - 1) : value >= row[k + 1]}
<1>1. Below \subseteq Nat /\ Len(row) - 1 \in Below
  BY DEF Falls
<1>2. PICK m \in Below : \A k \in Below : m <= k
  <2>. HIDE DEF Below
  <2>. QED
    BY <1>1, LeastNumber, Zenon
<1>3. \A j \in 1..(m - 1) : row[j + 1] > value
  <2>. SUFFICES ASSUME NEW j \in 1..(m - 1) PROVE row[j + 1] > value
    OBVIOUS
  <2>1. j \in 1..(Len(row) - 1) /\ j \notin Below
    BY <1>2 DEF Falls
  <2>2. row[j + 1] \in Int
    BY <2>1 DEF Falls
  <2>. QED
    BY <2>1, <2>2
<1>4. row[m] >= value
  <2>1. CASE m = 1
    BY <2>1 DEF Falls
  <2>2. CASE m # 1
    <3>1. m - 1 \in 1..(m - 1) /\ (m - 1) + 1 = m /\ row[m] \in Int
      BY <2>2 DEF Falls
    <3>2. row[(m - 1) + 1] > value
      BY <3>1, <1>3
    <3>. QED
      BY <3>1, <3>2
  <2>. QED
    BY <2>1, <2>2
<1>5. /\ m \in 1..(Len(row) - 1)
      /\ row[m] >= value /\ value >= row[m + 1]
      /\ \A j \in 1..(m - 1) : row[j + 1] > value
  BY <1>3, <1>4
<1>. DEFINE Around(k) == /\ row[k] >= value /\ value >= row[k + 1]
                       /\ \A j \in 1..(k - 1) : row[j + 1] > value
<1>6. Pair(row, value) = CHOOSE k \in 1..(Len(row) - 1) : Around(k)
  BY DEF Pair
<1>7. \E k \in 1..(Len(row) - 1) : Around(k)
  BY <1>5
<1>8. Pair(row, value) \in 1..(Len(row) - 1) /\ Around(Pair(row, value))
  <2>. HIDE DEF Around
  <2>. QED
    BY <1>6, <1>7, Zenon
<1>. QED
  BY <1>8, Zenon

\* Division drops less than a whole.
LEMMA Division ==
    ASSUME NEW a \in Int, NEW d \in Nat, d > 0
    PROVE  /\ a \div d \in Int
           /\ d * (a \div d) <= a /\ a < d * (a \div d) + d
  OBVIOUS
---------------------------------------------------------------------------
\* The temperature

\* The sensor's table: one entry a degree, and each of them smaller.
LEMMA TableOfTemperatures ==
    /\ Falls(g_ntc_table)
    /\ Len(g_ntc_table) = 156 /\ Hottest = Coldest + 155 /\ Coldest \in Int
<1>1. Len(g_ntc_table) = 156
  BY DEF g_ntc_table
<1>2. \A i \in 1..156 : g_ntc_table[i] \in Nat
  BY DEF g_ntc_table
<1>3. \A i \in 1..155 : g_ntc_table[i] > g_ntc_table[i + 1]
  BY DEF g_ntc_table
<1>. QED
  BY <1>1, <1>2, <1>3 DEF Falls, Coldest, Hottest

\* A full degree is counted when its entry of the table is reached, and only then.
LEMMA FullDegree ==
    ASSUME NEW r \in Int
    PROVE  LET t == ntc_temp_from_res_10ohm(r) IN
           /\ t \in Coldest..Hottest
           /\ t > Coldest => r <= g_ntc_table[t - Coldest + 1]
           /\ t < Hottest => r > g_ntc_table[t - Coldest + 2]
<1>. DEFINE t == ntc_temp_from_res_10ohm(r)
            Reached(u) == /\ u \in Coldest..Hottest
                          /\ u > Coldest => r <= g_ntc_table[u - Coldest + 1]
                          /\ u < Hottest => r > g_ntc_table[u - Coldest + 2]
<1>. SUFFICES Reached(t)
  OBVIOUS
<1>0. /\ Len(g_ntc_table) = 156 /\ Hottest = Coldest + 155 /\ Coldest \in Int
      /\ \A i \in 1..156 : g_ntc_table[i] \in Int
      /\ \A i \in 1..155 : g_ntc_table[i] > g_ntc_table[i + 1]
  BY TableOfTemperatures DEF Falls
<1>1. CASE r >= g_ntc_table[1]
  <2>1. t = Coldest
    BY <1>1 DEF ntc_temp_from_res_10ohm
  <2>2. r > g_ntc_table[2]
    BY <1>0, <1>1
  <2>. QED
    BY <1>0, <2>1, <2>2
<1>2. CASE r < g_ntc_table[1] /\ r <= g_ntc_table[156]
  <2>1. t = Hottest
    BY <1>0, <1>2 DEF ntc_temp_from_res_10ohm
  <2>. QED
    BY <1>0, <1>2, <2>1
<1>3. CASE r < g_ntc_table[1] /\ r > g_ntc_table[156]
  <2>. DEFINE i == Pair(g_ntc_table, r)
              dr == g_ntc_table[i] - g_ntc_table[i + 1]
              q == (g_ntc_table[i] - r) \div dr
  <2>0. Falls(g_ntc_table) /\ g_ntc_table[1] > r /\ r > g_ntc_table[Len(g_ntc_table)]
    BY <1>0, <1>3, TableOfTemperatures
  <2>1. i \in 1..155 /\ g_ntc_table[i] >= r /\ r >= g_ntc_table[i + 1]
    <3>1. /\ i \in 1..(Len(g_ntc_table) - 1)
          /\ g_ntc_table[i] >= r /\ r >= g_ntc_table[i + 1]
      BY <2>0, PairIsFirst, Zenon
    <3>. QED
      BY <1>0, <3>1
  <2>2. t = Coldest + (i - 1) + q
    BY <1>0, <1>3 DEF ntc_temp_from_res_10ohm
  <2>. HIDE DEF t, i, q
  <2>3. /\ g_ntc_table[i] \in Int /\ g_ntc_table[i + 1] \in Int
        /\ dr \in Nat /\ dr > 0 /\ g_ntc_table[i] - r \in 0..dr
    <3>1. i \in 1..156 /\ i + 1 \in 1..156
      BY <2>1
    <3>2. /\ g_ntc_table[i] \in Int /\ g_ntc_table[i + 1] \in Int
          /\ g_ntc_table[i] > g_ntc_table[i + 1]
      BY <1>0, <2>1, <3>1
    <3>. QED
      BY <2>1, <3>2
  <2>. HIDE DEF dr
  <2>4. CASE r = g_ntc_table[i + 1]
    <3>1. q = 1
      <4>1. g_ntc_table[i] - r = dr
        BY <2>4 DEF dr
      <4>. QED
        BY <2>3, <4>1 DEF q
    <3>2. t - Coldest + 1 = i + 1 /\ t - Coldest + 2 = i + 2 /\ t \in Coldest..Hottest
      BY <1>0, <2>1, <2>2, <3>1
    <3>3. t < Hottest => i + 1 \in 1..155
      BY <1>0, <2>1, <3>2
    <3>4. t < Hottest => g_ntc_table[i + 1] > g_ntc_table[i + 2]
      <4>. SUFFICES ASSUME t < Hottest PROVE g_ntc_table[i + 1] > g_ntc_table[i + 2]
        OBVIOUS
      <4>1. g_ntc_table[i + 1] > g_ntc_table[(i + 1) + 1] /\ (i + 1) + 1 = i + 2
        BY <1>0, <2>1, <3>3
      <4>. QED
        BY <4>1
    <3>. QED
      BY <2>3, <2>4, <3>2, <3>4
  <2>5. CASE r > g_ntc_table[i + 1]
    <3>1. q = 0
      <4>1. g_ntc_table[i] - r \in 0..(dr - 1)
        BY <2>3, <2>5 DEF dr
      <4>. QED
        BY <2>3, <4>1 DEF q
    <3>2. t - Coldest + 1 = i /\ t - Coldest + 2 = i + 1 /\ t \in Coldest..Hottest
      BY <1>0, <2>1, <2>2, <3>1
    <3>. QED
      BY <2>1, <2>5, <3>2
  <2>6. r = g_ntc_table[i + 1] \/ r > g_ntc_table[i + 1]
    BY <2>1, <2>3
  <2>. QED
    BY <2>4, <2>5, <2>6
<1>. QED
  BY <1>0, <1>1, <1>2, <1>3

\* What the ADC delivers
LEMMA SweepStays == SweepSpec => [](mv \in 0..LastMv)
<1>1. SweepInit => mv \in 0..LastMv
  BY DEF SweepInit, LastMv
<1>2. mv \in 0..LastMv /\ [Sweep]_mv => (mv \in 0..LastMv)'
  <2>. SUFFICES ASSUME mv \in 0..LastMv, [Sweep]_mv PROVE mv' \in 0..LastMv
    OBVIOUS
  <2>1. CASE mv' = mv
    BY <2>1
  <2>2. CASE mv' = (mv + 1) % (LastMv + 1)
    <3>1. mv + 1 \in 1..3300
      BY DEF LastMv
    <3>. QED
      BY <2>2, <3>1 DEF LastMv
  <2>. QED
    BY <2>1, <2>2 DEF Sweep
<1>. QED
  BY <1>1, <1>2, PTL DEF SweepSpec

\* A mean below the reference has a resistance.
LEMMA ResistanceIsNumber ==
    ASSUME NEW v \in 0..LastMv PROVE Resistance(v) \in Int
<1>1. 1000 * v \in Int /\ 3300 - v \in Nat /\ 3300 - v > 0
  BY DEF LastMv
<1>2. (1000 * v) \div (3300 - v) \in Int
  BY <1>1, Division
<1>. QED
  BY <1>2 DEF Resistance

\* A reading of the sensor is the full degree that was reached, whatever the ADC
\* delivers, and never claims the warmer one (app_adc_mon.c:211-233, 447-453).
THEOREM DegreesAreReached == SweepSpec => []TemperatureIsReached
<1>1. mv \in 0..LastMv => TemperatureIsReached
  BY ResistanceIsNumber, FullDegree DEF TemperatureIsReached
<1>. QED
  BY <1>1, SweepStays, PTL

---------------------------------------------------------------------------
\* The percentage

\* Products keep the order of their factors.
LEMMA TimesKeepsOrder ==
    ASSUME NEW d \in Nat, NEW a \in Int, NEW b \in Int, a <= b
    PROVE  d * a <= d * b /\ d * a \in Int /\ d * b \in Int
  OBVIOUS

\* A quotient that is rounded to the nearest number.
Rounded(n, d) == (n + d \div 2) \div d

\* It is off by half a divisor at most,
LEMMA RoundedIsNear ==
    ASSUME NEW n \in Nat, NEW d \in Nat, d > 0
    PROVE  /\ Rounded(n, d) \in Nat
           /\ 2 * (n - d * Rounded(n, d)) <= d
           /\ 2 * (n - d * Rounded(n, d)) >= -d
<1>. DEFINE h == d \div 2  q == (n + h) \div d
<1>1. h \in Nat /\ 2 * h <= d /\ d <= 2 * h + 1
  OBVIOUS
<1>. HIDE DEF h
<1>2. q \in Int /\ d * q <= n + h /\ n + h < d * q + d
  BY <1>1, Division
<1>3. q >= 0
  <2>. HIDE DEF q
  <2>1. d * q \in Int
    BY <1>2
  <2>. SUFFICES ASSUME q <= -1 PROVE FALSE
    BY <1>2
  <2>2. d * q <= d * (-1)
    BY <1>2, TimesKeepsOrder
  <2>. QED
    BY <1>1, <1>2, <2>1, <2>2
<1>4. Rounded(n, d) = q
  BY DEF Rounded, h
<1>. HIDE DEF q
<1>5. d * q \in Int
  BY <1>2
<1>. QED
  BY <1>1, <1>2, <1>3, <1>4, <1>5

\* keeps the order of what is divided,
LEMMA RoundedKeepsOrder ==
    ASSUME NEW d \in Nat, d > 0, NEW n \in Nat, NEW m \in Nat, n <= m
    PROVE  Rounded(n, d) <= Rounded(m, d)
<1>. DEFINE h == d \div 2  p == (n + h) \div d  q == (m + h) \div d
<1>1. h \in Nat
  OBVIOUS
<1>. HIDE DEF h
<1>2. /\ p \in Int /\ d * p <= n + h
      /\ q \in Int /\ m + h < d * q + d
  BY <1>1, Division
<1>3. Rounded(n, d) = p /\ Rounded(m, d) = q
  BY DEF Rounded, h
<1>. HIDE DEF p, q
<1>4. d * p \in Int /\ d * q \in Int /\ d * (q + 1) = d * q + d
  BY <1>2
<1>. SUFFICES ASSUME q + 1 <= p PROVE FALSE
  BY <1>2, <1>3
<1>5. d * (q + 1) <= d * p
  BY <1>2, TimesKeepsOrder
<1>. QED
  BY <1>1, <1>2, <1>4, <1>5

\* and is exact where nothing is to be rounded.
LEMMA RoundedOfProduct ==
    ASSUME NEW d \in Nat, d > 0, NEW k \in Nat
    PROVE  Rounded(k * d, d) = k
<1>. DEFINE h == d \div 2  q == (k * d + h) \div d
<1>1. h \in Nat /\ h < d
  OBVIOUS
<1>. HIDE DEF h
<1>2. k * d \in Nat /\ d * k = k * d
  OBVIOUS
<1>3. q \in Int /\ d * q <= k * d + h /\ k * d + h < d * q + d
  BY <1>1, <1>2, Division
<1>4. Rounded(k * d, d) = q
  BY DEF Rounded, h
<1>. HIDE DEF q
<1>5. /\ d * q \in Int
      /\ d * (q + 1) = d * q + d /\ d * (k + 1) = d * k + d
      /\ d * (q + 1) \in Int /\ d * (k + 1) \in Int
  BY <1>2, <1>3
<1>6. q <= k
  <2>. SUFFICES ASSUME k + 1 <= q PROVE FALSE
    BY <1>3
  <2>1. d * (k + 1) <= d * q
    BY <1>3, TimesKeepsOrder
  <2>. QED
    BY <1>1, <1>2, <1>3, <1>5, <2>1
<1>7. k <= q
  <2>. SUFFICES ASSUME q + 1 <= k PROVE FALSE
    BY <1>3
  <2>1. d * (q + 1) <= d * k
    BY <1>3, TimesKeepsOrder
  <2>. QED
    BY <1>1, <1>2, <1>3, <1>5, <2>1
<1>. QED
  BY <1>3, <1>4, <1>6, <1>7

\* The columns of the table of the battery
Volts == [i \in DOMAIN g_bat_table |-> g_bat_table[i][1]]
Percents == [i \in DOMAIN g_bat_table |-> g_bat_table[i][2]]

\* The battery's table: voltage and percentage fall together, from 100 to 0.
LEMMA TableOfCharge ==
    /\ Falls(Volts) /\ Len(Volts) = 24
    /\ Falls(Percents) /\ Len(Percents) = 24
    /\ Percents[1] = 100 /\ Percents[24] = 0
    /\ Len(g_bat_table) = 24
    /\ \A i \in 1..24 : g_bat_table[i][1] = Volts[i] /\ g_bat_table[i][2] = Percents[i]
<1>1. Len(g_bat_table) = 24 /\ DOMAIN g_bat_table = 1..24
  BY DEF g_bat_table
<1>2. \A i \in 1..24 : g_bat_table[i][1] \in Nat /\ g_bat_table[i][2] \in Nat
  BY DEF g_bat_table
<1>3. \A i \in 1..23 : g_bat_table[i][1] > g_bat_table[i + 1][1]
  BY DEF g_bat_table
<1>4. \A i \in 1..23 : g_bat_table[i][2] > g_bat_table[i + 1][2]
  BY DEF g_bat_table
<1>5. g_bat_table[1][2] = 100 /\ g_bat_table[24][2] = 0
  BY DEF g_bat_table
<1>6. /\ Volts = [i \in 1..24 |-> g_bat_table[i][1]]
      /\ Percents = [i \in 1..24 |-> g_bat_table[i][2]]
  BY <1>1 DEF Volts, Percents
<1>7. Len(Volts) = 24 /\ Len(Percents) = 24
  BY <1>2, <1>6
<1>8. \A i \in 1..24 : g_bat_table[i][1] = Volts[i] /\ g_bat_table[i][2] = Percents[i]
  BY <1>6
<1>9. \A i \in 1..23 : Volts[i] > Volts[i + 1] /\ Percents[i] > Percents[i + 1]
  BY <1>3, <1>4, <1>8
<1>. QED
  BY <1>1, <1>2, <1>5, <1>7, <1>8, <1>9 DEF Falls

\* Its voltages in any two rows
LEMMA VoltsOrdered ==
    /\ \A i \in 1..24 : Volts[i] \in Int
    /\ \A i, j \in 1..24 : i < j => Volts[j] < Volts[i]
<1>1. ASSUME NEW i \in 1..24, NEW j \in 1..24, i < j
      PROVE  Volts[j] < Volts[i]
  <2>1. Falls(Volts) /\ i \in 1..Len(Volts) /\ j \in 1..Len(Volts)
    BY TableOfCharge
  <2>2. Volts[i] > Volts[j]
    BY <1>1, <2>1, FallsFurther, Zenon
  <2>. QED
    BY <2>2, TableOfCharge DEF Falls
<1>2. \A i \in 1..24 : Volts[i] \in Int
  BY TableOfCharge DEF Falls
<1>. QED
  BY <1>1, <1>2

\* Where a voltage lies between two entries: the row, and what the code counts
\* down from its percentage.
Between(cell, i) ==
    /\ i \in 1..23
    /\ Volts[i] >= cell /\ cell >= Volts[i + 1]
    /\ \A j \in 1..(i - 1) : Volts[j + 1] > cell

Span(i) == Volts[i] - Volts[i + 1]
Drop(i) == Percents[i] - Percents[i + 1]

\* What a row is made of
LEMMA RowIsNumbers ==
    ASSUME NEW i \in 1..23
    PROVE  /\ Volts[i] \in Int /\ Volts[i + 1] \in Int
           /\ Percents[i] \in 0..100 /\ Percents[i + 1] \in 0..100
           /\ Span(i) \in Nat /\ Span(i) > 0 /\ Drop(i) \in Nat /\ Drop(i) > 0
<1>1. \A k \in 1..24 : Volts[k] \in Int /\ Percents[k] \in Int
  BY TableOfCharge DEF Falls
<1>2. \A k \in 1..23 : Volts[k] > Volts[k + 1] /\ Percents[k] > Percents[k + 1]
  BY TableOfCharge DEF Falls
<1>3. \A k \in 1..24 : Percents[k] \in 0..100
  <2>. SUFFICES ASSUME NEW k \in 1..24 PROVE Percents[k] \in 0..100
    OBVIOUS
  <2>1. k = 1 \/ 100 > Percents[k]
    <3>1. CASE k = 1
      BY <3>1
    <3>2. CASE 1 < k
      <4>0. Falls(Percents) /\ 1 \in 1..Len(Percents) /\ k \in 1..Len(Percents)
        BY TableOfCharge
      <4>1. Percents[1] > Percents[k]
        BY <3>2, <4>0, FallsFurther, Zenon
      <4>. QED
        BY <4>1, TableOfCharge
    <3>. QED
      BY <3>1, <3>2
  <2>2. k = 24 \/ Percents[k] > 0
    <3>1. CASE k = 24
      BY <3>1
    <3>2. CASE k < 24
      <4>0. Falls(Percents) /\ k \in 1..Len(Percents) /\ 24 \in 1..Len(Percents)
        BY TableOfCharge
      <4>1. Percents[k] > Percents[24]
        BY <3>2, <4>0, FallsFurther, Zenon
      <4>. QED
        BY <4>1, TableOfCharge
    <3>. QED
      BY <3>1, <3>2
  <2>3. Percents[1] = 100 /\ Percents[24] = 0 /\ Percents[k] \in Int
    BY <1>1, TableOfCharge
  <2>4. Percents[k] <= 100
    BY <2>1, <2>3
  <2>5. Percents[k] >= 0
    BY <2>2, <2>3
  <2>. QED
    BY <2>3, <2>4, <2>5
<1>4. i \in 1..24 /\ i + 1 \in 1..24
  OBVIOUS
<1>5. /\ Volts[i] \in Int /\ Volts[i + 1] \in Int
      /\ Percents[i] \in 0..100 /\ Percents[i + 1] \in 0..100
      /\ Volts[i] > Volts[i + 1] /\ Percents[i] > Percents[i + 1]
  BY <1>1, <1>2, <1>3, <1>4
<1>6. Percents[i] \in Int /\ Percents[i + 1] \in Int
  BY <1>5
<1>7. Span(i) \in Nat /\ Span(i) > 0 /\ Drop(i) \in Nat /\ Drop(i) > 0
  BY <1>5, <1>6 DEF Span, Drop
<1>. QED
  BY <1>5, <1>7

\* The code's three ways to a percentage
LEMMA PercentIsOneOf ==
    ASSUME NEW cell \in Int
    PROVE  \/ cell >= Volts[1] /\ bat_percent_from_mv(cell) = 100
           \/ cell < Volts[1] /\ cell <= Volts[24] /\ bat_percent_from_mv(cell) = 0
           \/ \E i \in 1..23 :
                /\ Volts[24] < cell /\ cell < Volts[1] /\ Between(cell, i)
                /\ bat_percent_from_mv(cell) =
                     Percents[i] - Rounded(Drop(i) * (Volts[i] - cell), Span(i))
<1>. DEFINE way(i) ==
       g_bat_table[i][2] - ((g_bat_table[i][2] - g_bat_table[i + 1][2]) * (Volts[i] - cell)
          + (Volts[i] - Volts[i + 1]) \div 2) \div (Volts[i] - Volts[i + 1])
<1>0. bat_percent_from_mv(cell) =
        IF cell >= Volts[1] THEN g_bat_table[1][2]
        ELSE IF cell <= Volts[Len(g_bat_table)] THEN g_bat_table[Len(g_bat_table)][2]
        ELSE way(Pair(Volts, cell))
  BY Zenon DEF bat_percent_from_mv, Volts
<1>. HIDE DEF way
<1>1. CASE cell >= Volts[1]
  BY <1>0, <1>1, TableOfCharge
<1>2. CASE ~(cell >= Volts[1]) /\ cell <= Volts[24]
  <2>1. Volts[1] \in Int
    BY TableOfCharge DEF Falls
  <2>2. bat_percent_from_mv(cell) = 0
    BY <1>0, <1>2, TableOfCharge
  <2>. QED
    BY <1>2, <2>1, <2>2
<1>3. CASE ~(cell >= Volts[1]) /\ ~(cell <= Volts[24])
  <2>. DEFINE i == Pair(Volts, cell)
  <2>1. Volts[1] \in Int /\ Volts[24] \in Int
    BY TableOfCharge DEF Falls
  <2>2. Falls(Volts) /\ Volts[1] > cell /\ cell > Volts[Len(Volts)]
    BY <1>3, <2>1, TableOfCharge
  <2>3. /\ i \in 1..(Len(Volts) - 1)
        /\ Volts[i] >= cell /\ cell >= Volts[i + 1]
        /\ \A j \in 1..(i - 1) : Volts[j + 1] > cell
    BY <2>2, PairIsFirst, Zenon
  <2>4. Between(cell, i)
    BY <2>3, TableOfCharge DEF Between
  <2>5. bat_percent_from_mv(cell) =
          g_bat_table[i][2] - ((g_bat_table[i][2] - g_bat_table[i + 1][2]) * (Volts[i] - cell)
             + (Volts[i] - Volts[i + 1]) \div 2) \div (Volts[i] - Volts[i + 1])
    <3>1. bat_percent_from_mv(cell) = way(i)
      BY <1>0, <1>3, TableOfCharge
    <3>. QED
      BY <3>1, Zenon DEF way
  <2>. HIDE DEF i
  <2>6. i \in 1..24 /\ i + 1 \in 1..24
    BY <2>4 DEF Between
  <2>7. /\ g_bat_table[i][2] = Percents[i]
        /\ g_bat_table[i + 1][2] = Percents[i + 1]
    BY <2>6, TableOfCharge
  <2>8. bat_percent_from_mv(cell) =
          Percents[i] - Rounded(Drop(i) * (Volts[i] - cell), Span(i))
    BY <2>5, <2>7, Zenon DEF Rounded, Drop, Span
  <2>. QED
    BY <1>3, <2>1, <2>2, <2>4, <2>8, TableOfCharge DEF Between
<1>. QED
  BY <1>1, <1>2, <1>3

\* Within a row the reading stays between the percentages of its two entries.
LEMMA PercentWithinRow ==
    ASSUME NEW cell \in Int, NEW i \in 1..23, Between(cell, i)
    PROVE  LET q == Rounded(Drop(i) * (Volts[i] - cell), Span(i)) IN
           /\ Volts[i] - cell \in Nat /\ Drop(i) * (Volts[i] - cell) \in Nat
           /\ q \in 0..Drop(i)
           /\ cell = Volts[i + 1] => q = Drop(i)
<1>. DEFINE d == Span(i)  k == Drop(i)  off == Volts[i] - cell
<1>1. d \in Nat /\ d > 0 /\ k \in Nat /\ k > 0
  BY RowIsNumbers
<1>2. off \in 0..d /\ (cell = Volts[i + 1] => off = d)
  BY RowIsNumbers DEF Between, Span
<1>. HIDE DEF d, k, off
<1>3. k * off \in Nat /\ k * off <= k * d /\ k * d \in Nat
  BY <1>1, <1>2, TimesKeepsOrder
<1>4. Rounded(k * d, d) = k
  BY <1>1, RoundedOfProduct
<1>5. Rounded(k * off, d) \in Nat /\ Rounded(k * off, d) <= k
  BY <1>1, <1>3, <1>4, RoundedIsNear, RoundedKeepsOrder
<1>6. cell = Volts[i + 1] => Rounded(k * off, d) = k
  BY <1>2, <1>4
<1>7. Rounded(k * off, d) \in 0..k
  BY <1>1, <1>5
<1>8. off \in Nat
  BY <1>1, <1>2
<1>. QED
  BY <1>3, <1>6, <1>7, <1>8 DEF d, k, off

\* A percentage is one.
LEMMA PercentInRange ==
    ASSUME NEW cell \in Int
    PROVE  bat_percent_from_mv(cell) \in 0..100
<1>1. ASSUME NEW i \in 1..23, Between(cell, i),
             bat_percent_from_mv(cell) =
               Percents[i] - Rounded(Drop(i) * (Volts[i] - cell), Span(i))
      PROVE  bat_percent_from_mv(cell) \in Percents[i + 1]..Percents[i]
  <2>. DEFINE q == Rounded(Drop(i) * (Volts[i] - cell), Span(i))
  <2>1. q \in 0..Drop(i)
    BY <1>1, PercentWithinRow, Zenon
  <2>2. bat_percent_from_mv(cell) = Percents[i] - q
    BY <1>1
  <2>3. Percents[i] \in 0..100 /\ Percents[i + 1] \in 0..100 /\ Drop(i) = Percents[i] - Percents[i + 1]
    BY RowIsNumbers DEF Drop
  <2>. HIDE DEF q
  <2>4. q \in Int /\ 0 <= q /\ q <= Percents[i] - Percents[i + 1]
    BY <2>1, <2>3
  <2>5. Percents[i] - q \in Percents[i + 1]..Percents[i]
    <3>1. Percents[i] \in Int /\ Percents[i + 1] \in Int
      BY <2>3
    <3>. QED
      BY <2>4, <3>1
  <2>. QED
    BY <2>2, <2>5
<1>2. ASSUME NEW i \in 1..23, bat_percent_from_mv(cell) \in Percents[i + 1]..Percents[i]
      PROVE  bat_percent_from_mv(cell) \in 0..100
  <2>1. Percents[i] \in 0..100 /\ Percents[i + 1] \in 0..100
    BY RowIsNumbers, Zenon
  <2>. QED
    BY <1>2, <2>1
<1>. QED
  BY <1>1, <1>2, PercentIsOneOf

\* More voltage never reads as less charge.
LEMMA PercentKeepsOrder ==
    ASSUME NEW a \in Int, NEW b \in Int, a <= b
    PROVE  bat_percent_from_mv(a) <= bat_percent_from_mv(b)
<1>. DEFINE pa == bat_percent_from_mv(a)  pb == bat_percent_from_mv(b)
            qa(i) == Rounded(Drop(i) * (Volts[i] - a), Span(i))
            qb(i) == Rounded(Drop(i) * (Volts[i] - b), Span(i))
<1>1. pa \in 0..100 /\ pb \in 0..100
  BY PercentInRange
<1>2. /\ \A i \in 1..24 : Volts[i] \in Int
      /\ Volts[24] < Volts[1]
  <2>1. Falls(Volts) /\ 1 \in 1..Len(Volts) /\ 24 \in 1..Len(Volts) /\ 1 < 24
    BY TableOfCharge
  <2>2. Volts[1] > Volts[24]
    BY <2>1, FallsFurther, Zenon
  <2>3. \A i \in 1..24 : Volts[i] \in Int
    BY TableOfCharge DEF Falls
  <2>. QED
    BY <2>2, <2>3
<1>3. CASE pa = 0 \/ pb = 100
  BY <1>1, <1>3
<1>4. CASE a >= Volts[1]
  BY <1>2, <1>3, <1>4, PercentIsOneOf
<1>5. CASE b <= Volts[24]
  BY <1>2, <1>3, <1>5, PercentIsOneOf
<1>6. ASSUME NEW i \in 1..23, Between(a, i), pa = Percents[i] - qa(i),
             NEW k \in 1..23, Between(b, k), pb = Percents[k] - qb(k)
      PROVE  pa <= pb
  <2>1. /\ Volts[i] - a \in Nat /\ Drop(i) * (Volts[i] - a) \in Nat /\ qa(i) \in 0..Drop(i)
    BY <1>6, PercentWithinRow, Zenon
  <2>2. /\ Volts[k] - b \in Nat /\ Drop(k) * (Volts[k] - b) \in Nat /\ qb(k) \in 0..Drop(k)
    BY <1>6, PercentWithinRow, Zenon
  <2>3. /\ Percents[i] \in Int /\ Percents[k] \in Int /\ Percents[k + 1] \in Int
        /\ Drop(k) = Percents[k] - Percents[k + 1]
        /\ Span(i) \in Nat /\ Span(i) > 0 /\ Drop(i) \in Nat
    <3>1. /\ Percents[i] \in 0..100 /\ Percents[k] \in 0..100 /\ Percents[k + 1] \in 0..100
          /\ Span(i) \in Nat /\ Span(i) > 0 /\ Drop(i) \in Nat
      BY RowIsNumbers, Zenon
    <3>2. Drop(k) = Percents[k] - Percents[k + 1]
      BY DEF Drop
    <3>. QED
      BY <3>1, <3>2
  <2>4. k <= i
    <3>. SUFFICES ASSUME i < k PROVE FALSE
      OBVIOUS
    <3>1. Volts[i + 1] > b /\ a >= Volts[i + 1] /\ Volts[i + 1] \in Int
      BY <1>2, <1>6 DEF Between
    <3>. QED
      BY <3>1
  <2>5. CASE k = i
    <3>1. Drop(i) * (Volts[i] - b) <= Drop(i) * (Volts[i] - a)
      <4>1. Volts[i] - b <= Volts[i] - a /\ Volts[i] - b \in Int /\ Volts[i] - a \in Int
        BY <1>2
      <4>. QED
        BY <2>3, <4>1, TimesKeepsOrder
    <3>2. qb(i) <= qa(i)
      BY <2>1, <2>2, <2>3, <2>5, <3>1, RoundedKeepsOrder
    <3>3. pb = Percents[i] - qb(i) /\ qb(i) \in Int /\ qa(i) \in Int
      BY <1>6, <2>1, <2>2, <2>5
    <3>. HIDE DEF qa, qb, pa, pb
    <3>. QED
      BY <1>6, <2>3, <3>2, <3>3
  <2>6. CASE k < i
    <3>1. Percents[k + 1] >= Percents[i]
      <4>1. CASE k + 1 = i
        BY <2>3, <4>1
      <4>2. CASE k + 1 < i
        <5>1. Falls(Percents) /\ k + 1 \in 1..Len(Percents) /\ i \in 1..Len(Percents)
          BY TableOfCharge
        <5>2. Percents[k + 1] > Percents[i]
          BY <4>2, <5>1, FallsFurther, Zenon
        <5>. QED
          BY <2>3, <5>2
      <4>. QED
        BY <2>6, <4>1, <4>2
    <3>. HIDE DEF qa, qb, pa, pb
    <3>. QED
      BY <1>6, <2>1, <2>2, <2>3, <3>1
  <2>. QED
    BY <2>4, <2>5, <2>6
<1>. QED
  <2>1. \/ pa = 0 \/ a >= Volts[1]
        \/ \E i \in 1..23 : Between(a, i) /\ pa = Percents[i] - qa(i)
    BY PercentIsOneOf
  <2>2. \/ pb = 100 \/ b <= Volts[24]
        \/ \E k \in 1..23 : Between(b, k) /\ pb = Percents[k] - qb(k)
    BY PercentIsOneOf
  <2>. HIDE DEF pa, pb, qa, qb
  <2>3. pa <= pb
    BY <1>3, <1>4, <1>5, <1>6, <2>1, <2>2, Zenon DEF pa, pb
  <2>. QED
    BY <2>3 DEF pa, pb

\* In every row that holds the voltage, so in both at an entry, the reading is off
\* the line by half a percent at most.
LEMMA PercentIsNearLine ==
    ASSUME NEW cell \in Int, NEW k \in 1..23, Volts[k + 1] <= cell, cell <= Volts[k]
    PROVE  LET off == (bat_percent_from_mv(cell) - Percents[k + 1]) * Span(k)
                        - Drop(k) * (cell - Volts[k + 1])
           IN 2 * off <= Span(k) /\ 2 * off >= -Span(k)
<1>. DEFINE p == bat_percent_from_mv(cell)
            Off == (p - Percents[k + 1]) * Span(k) - Drop(k) * (cell - Volts[k + 1])
<1>1. /\ Volts[k] \in Int /\ Volts[k + 1] \in Int
      /\ Percents[k] \in Int /\ Percents[k + 1] \in Int
      /\ Span(k) \in Nat /\ Span(k) > 0 /\ Drop(k) \in Nat
      /\ Span(k) = Volts[k] - Volts[k + 1] /\ Drop(k) = Percents[k] - Percents[k + 1]
  <2>1. /\ Volts[k] \in Int /\ Volts[k + 1] \in Int
        /\ Percents[k] \in 0..100 /\ Percents[k + 1] \in 0..100
        /\ Span(k) \in Nat /\ Span(k) > 0 /\ Drop(k) \in Nat
    BY RowIsNumbers, Zenon
  <2>2. Span(k) = Volts[k] - Volts[k + 1] /\ Drop(k) = Percents[k] - Percents[k + 1]
    BY DEF Span, Drop
  <2>. QED
    BY <2>1, <2>2
<1>. SUFFICES 2 * Off <= Span(k) /\ 2 * Off >= -Span(k)
  OBVIOUS
\* At an entry the reading is the entry's.
<1>2. CASE cell = Volts[k] /\ p = Percents[k]
  <2>1. Off = Drop(k) * Span(k) - Drop(k) * Span(k)
    BY <1>1, <1>2
  <2>2. Drop(k) * Span(k) \in Int
    BY <1>1
  <2>3. Off = 0
    BY <2>1, <2>2
  <2>. HIDE DEF Off
  <2>. QED
    BY <1>1, <2>3
<1>3. CASE cell = Volts[k + 1] /\ p = Percents[k + 1]
  <2>1. p - Percents[k + 1] = 0 /\ cell - Volts[k + 1] = 0
    BY <1>1, <1>3
  <2>2. Off = 0
    BY <1>1, <2>1
  <2>. HIDE DEF Off
  <2>. QED
    BY <1>1, <2>2
\* In the row the code has searched out, its quotient is the nearest.
<1>4. CASE Between(cell, k) /\ p = Percents[k] - Rounded(Drop(k) * (Volts[k] - cell), Span(k))
  <2>. DEFINE n == Drop(k) * (Volts[k] - cell)  q == Rounded(n, Span(k))
  <2>1. n \in Nat
    BY <1>4, PercentWithinRow, Zenon
  <2>. HIDE DEF n
  <2>2. /\ q \in Nat
        /\ 2 * (n - Span(k) * q) <= Span(k) /\ 2 * (n - Span(k) * q) >= -Span(k)
    BY <1>1, <2>1, RoundedIsNear
  <2>3. p = Percents[k] - q
    BY <1>4 DEF n
  <2>. HIDE DEF q, p
  <2>4. p - Percents[k + 1] = Drop(k) - q /\ cell - Volts[k + 1] = Span(k) - (Volts[k] - cell)
    BY <1>1, <2>2, <2>3
  <2>5. Off = (Drop(k) - q) * Span(k) - Drop(k) * (Span(k) - (Volts[k] - cell))
    BY <2>4
  <2>6. /\ (Drop(k) - q) * Span(k) = Drop(k) * Span(k) - Span(k) * q
        /\ Drop(k) * (Span(k) - (Volts[k] - cell)) = Drop(k) * Span(k) - n
        /\ Drop(k) * Span(k) \in Int /\ Span(k) * q \in Int
    BY <1>1, <2>2 DEF n
  <2>. HIDE DEF Off
  <2>7. Off = n - Span(k) * q
    BY <2>1, <2>5, <2>6
  <2>. QED
    BY <2>2, <2>7
<1>. QED
  <2>1. CASE cell >= Volts[1] /\ p = 100
    <3>1. k = 1 /\ cell = Volts[k]
      BY <1>1, <2>1, VoltsOrdered
    <3>2. p = Percents[k]
      BY <2>1, <3>1, TableOfCharge
    <3>. QED
      BY <1>2, <3>1, <3>2
  <2>2. CASE cell <= Volts[24] /\ p = 0
    <3>1. k = 23 /\ cell = Volts[k + 1]
      <4>1. CASE k < 23
        <5>1. Volts[24] < Volts[k + 1]
          BY <4>1, VoltsOrdered
        <5>. QED
          BY <1>1, <2>2, <5>1, VoltsOrdered
      <4>2. CASE k = 23
        BY <1>1, <2>2, <4>2
      <4>. QED
        BY <4>1, <4>2
    <3>2. p = Percents[k + 1]
      BY <2>2, <3>1, TableOfCharge
    <3>. QED
      BY <1>3, <3>1, <3>2
  <2>3. ASSUME NEW i \in 1..23, Between(cell, i),
               p = Percents[i] - Rounded(Drop(i) * (Volts[i] - cell), Span(i))
        PROVE  2 * Off <= Span(k) /\ 2 * Off >= -Span(k)
    <3>1. i <= k
      <4>. SUFFICES ASSUME k < i PROVE FALSE
        OBVIOUS
      <4>1. Volts[k + 1] > cell
        BY <2>3 DEF Between
      <4>. QED
        BY <1>1, <4>1
    <3>2. i = k \/ (k = i + 1 /\ cell = Volts[k])
      <4>1. CASE i + 1 < k
        <5>1. Volts[k] < Volts[i + 1] /\ Volts[i + 1] \in Int /\ cell >= Volts[i + 1]
          BY <2>3, <4>1, VoltsOrdered DEF Between
        <5>. QED
          BY <1>1, <5>1
      <4>2. CASE k = i + 1
        BY <1>1, <2>3, <4>2 DEF Between
      <4>. QED
        BY <3>1, <4>1, <4>2
    <3>3. CASE i = k
      BY <1>4, <2>3, <3>3
    <3>4. CASE k = i + 1 /\ cell = Volts[k]
      <4>1. Rounded(Drop(i) * (Volts[i] - cell), Span(i)) = Drop(i)
        BY <2>3, <3>4, PercentWithinRow, Zenon
      <4>2. p = Percents[k]
        <5>1. Percents[i] \in 0..100 /\ Percents[i + 1] \in 0..100
          BY RowIsNumbers, Zenon
        <5>2. Percents[i] - Drop(i) = Percents[i + 1]
          <6>1. Percents[i] \in Int /\ Percents[i + 1] \in Int
            BY <5>1
          <6>. QED
            BY <6>1 DEF Drop
        <5>3. p = Percents[i] - Drop(i)
          BY <2>3, <4>1
        <5>. QED
          BY <3>4, <5>2, <5>3
      <4>. QED
        BY <1>2, <3>4, <4>2
    <3>. QED
      BY <3>2, <3>3, <3>4
  <2>. HIDE DEF Off
  <2>. QED
    BY <2>1, <2>2, <2>3, PercentIsOneOf

\* The cell's voltage follows that of the ADC.
LEMMA CellIsNumber ==
    ASSUME NEW v \in Nat
    PROVE  /\ CellVoltage(v) \in Int /\ CellVoltage(v + 1) \in Int
           /\ CellVoltage(v) <= CellVoltage(v + 1)
  BY DEF CellVoltage

\* A battery's percentage rises with its voltage, within half a percent of the
\* line between two rows of the table (app_adc_mon.c:237-260, 458).
THEOREM PercentFollows == SweepSpec => []ChargeIsRounded
<1>1. mv \in 0..LastMv => ChargeIsRounded
  <2>. SUFFICES ASSUME mv \in 0..LastMv PROVE ChargeIsRounded
    OBVIOUS
  <2>. DEFINE cell == CellVoltage(mv)  next == CellVoltage(mv + 1)
  <2>1. cell \in Int /\ next \in Int /\ cell <= next
    BY CellIsNumber DEF LastMv
  <2>. HIDE DEF cell, next
  <2>2. bat_percent_from_mv(cell) \in 0..100
    BY <2>1, PercentInRange
  <2>3. bat_percent_from_mv(cell) <= bat_percent_from_mv(next)
    BY <2>1, PercentKeepsOrder
  <2>4. ASSUME NEW i \in 1..(Len(g_bat_table) - 1),
               cell \in g_bat_table[i + 1][1]..g_bat_table[i][1]
        PROVE  LET d == g_bat_table[i][1] - g_bat_table[i + 1][1]
                   off == (bat_percent_from_mv(cell) - g_bat_table[i + 1][2]) * d
                            - (g_bat_table[i][2] - g_bat_table[i + 1][2])
                                * (cell - g_bat_table[i + 1][1])
               IN 2 * off <= d /\ 2 * off >= -d
    <3>1. i \in 1..23 /\ i \in 1..24 /\ i + 1 \in 1..24
      BY TableOfCharge
    <3>2. /\ g_bat_table[i][1] = Volts[i] /\ g_bat_table[i + 1][1] = Volts[i + 1]
          /\ g_bat_table[i][2] = Percents[i] /\ g_bat_table[i + 1][2] = Percents[i + 1]
      BY <3>1, TableOfCharge
    <3>3. Volts[i] \in Int /\ Volts[i + 1] \in Int
      BY <3>1, RowIsNumbers, Zenon
    <3>4. Volts[i + 1] <= cell /\ cell <= Volts[i]
      BY <2>1, <2>4, <3>2, <3>3
    <3>5. LET off == (bat_percent_from_mv(cell) - Percents[i + 1]) * Span(i)
                        - Drop(i) * (cell - Volts[i + 1])
          IN 2 * off <= Span(i) /\ 2 * off >= -Span(i)
      BY <2>1, <3>1, <3>4, PercentIsNearLine, Zenon
    <3>. QED
      BY <3>2, <3>5, Zenon DEF Span, Drop
  <2>. QED
    BY <2>2, <2>3, <2>4, Zenon DEF ChargeIsRounded, cell, next
<1>. QED
  BY <1>1, SweepStays, PTL
===========================================================================
