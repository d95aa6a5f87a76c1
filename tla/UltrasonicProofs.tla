-------------------------- MODULE UltrasonicProofs --------------------------
(***************************************************************************)
(* The bound on an emission, for every limit, set of durations and pace of *)
(* the main loop, and for any profiles and commands.                       *)
(***************************************************************************)
EXTENDS Ultrasonic, TLAPS

LEMMA SecondsAreNat ==
  /\ Seconds \subseteq Nat /\ 0 \in Seconds
  /\ Durations \subseteq Seconds /\ \A d \in Durations : Granted(d) \in Seconds
  BY UltrasonicAssumption DEF Seconds, Granted

\* The two halves of TypeOK: a prover that reasons on switches is no good at
\* numbers, and the other way round.
SwitchesOK == /\ power \in BOOLEAN /\ trans \in BOOLEAN /\ emit \in BOOLEAN
              /\ g_ultra_stop_tick \in BOOLEAN
NumbersOK == /\ stopAge \in Nat /\ g_sec \in Seconds
             /\ loopAge \in 0..LoopTicks /\ emitAge \in Nat
             /\ tested \in 0..1 /\ stretched \in 0..1
             /\ requests \in 0..MaxRequests

LEMMA SwitchesStayOK == SwitchesOK /\ [Next]_vars => SwitchesOK'
<1>. SUFFICES ASSUME SwitchesOK, [Next]_vars PROVE SwitchesOK'
  OBVIOUS
<1>1. CASE emit_start
  BY <1>1, Zenon DEF emit_start, SwitchesOK, PowerUpAndStart
<1>2. CASE emit_stop
  BY <1>2, Zenon DEF emit_stop, SwitchesOK, PowerCut
<1>3. CASE emit_unknown_profile
  BY <1>3, Zenon DEF emit_unknown_profile, SwitchesOK, module
<1>4. ASSUME NEW c \in AppCommands, app_ultra_cmd(c) PROVE SwitchesOK'
  <2>. DEFINE P(p, t, e) == p \in BOOLEAN /\ t \in BOOLEAN /\ e \in BOOLEAN
  <2>1. ASSUME NEW p, NEW t, NEW e, P(p, t, e), Switch(p, t, e)
        PROVE P(power', trans', emit')
    BY <2>1, Zenon DEF Switch
  <2>2. PICK p, t, e : P(p, t, e) /\ Switch(p, t, e)
    BY <1>4, Zenon DEF app_ultra_cmd, SwitchesOK
  <2>3. g_ultra_stop_tick' = g_ultra_stop_tick
    BY <1>4, Zenon DEF app_ultra_cmd, timer
  <2>. QED
    BY <2>1, <2>2, <2>3, Zenon DEF SwitchesOK
<1>5. CASE time_task
  BY <1>5, Zenon DEF time_task, SwitchesOK, PowerCut, module
<1>6. CASE Tick
  BY <1>6, Zenon DEF Tick, SwitchesOK, module
<1>7. CASE UNCHANGED vars
  BY <1>7, Zenon DEF vars, module, timer, SwitchesOK
<1>. QED
  BY <1>1, <1>2, <1>3, <1>4, <1>5, <1>6, <1>7 DEF Next

LEMMA NumbersStayOK == NumbersOK /\ [Next]_vars => NumbersOK'
<1>. SUFFICES ASSUME NumbersOK, [Next]_vars PROVE NumbersOK'
  OBVIOUS
<1>. USE UltrasonicAssumption, SecondsAreNat DEF NumbersOK
<1>1. CASE emit_start
  BY <1>1 DEF emit_start, Request, PowerUpAndStart
<1>2. CASE emit_stop
  BY <1>2 DEF emit_stop, Request, PowerCut
<1>3. CASE emit_unknown_profile
  BY <1>3 DEF emit_unknown_profile, Request
<1>4. ASSUME NEW c \in AppCommands, app_ultra_cmd(c) PROVE NumbersOK'
  <2>1. emitAge' \in {emitAge, 0}
    BY <1>4, Zenon DEF app_ultra_cmd, Switch
  <2>2. /\ UNCHANGED <<stopAge, g_sec, loopAge, stretched>> /\ tested' = 1
        /\ requests < MaxRequests /\ requests' = requests + 1
    BY <1>4, Zenon DEF app_ultra_cmd, timer, Request
  <2>. QED
    BY <2>1, <2>2
<1>5. CASE time_task
  <2>1. /\ stopAge' \in {stopAge, 0} /\ emitAge' \in {emitAge, 0}
        /\ tested' \in {tested, 0} /\ stretched' \in {stretched, 0}
    BY <1>5, Zenon DEF time_task, PowerCut, history
  <2>. QED
    BY <1>5, <2>1 DEF time_task
<1>6. CASE Tick
  <2>1. stopAge' \in {stopAge + 1, 0} /\ emitAge' \in {emitAge + 1, emitAge}
    BY <1>6, Zenon DEF Tick
  <2>. QED
    BY <1>6, <2>1 DEF Tick
<1>7. CASE UNCHANGED vars
  BY <1>7 DEF vars, timer, history
<1>. QED
  BY <1>1, <1>2, <1>3, <1>4, <1>5, <1>6, <1>7 DEF Next

\* No variable leaves its range.
THEOREM TypeCorrect == Spec => []TypeOK
<1>1. TypeOK <=> SwitchesOK /\ NumbersOK
  BY DEF TypeOK, SwitchesOK, NumbersOK
<1>2. Init => SwitchesOK
  BY Zenon DEF Init, SwitchesOK
<1>3. Init => NumbersOK
  BY UltrasonicAssumption, SecondsAreNat DEF Init, NumbersOK
<1>. QED
  BY <1>1, <1>2, <1>3, SwitchesStayOK, NumbersStayOK, PTL DEF Spec

\* The timer keeps to the limit whatever the APP does (app_ctrl.c:2371), and
\* as long as no unknown profile sets it.
THEOREM TimerKeepsLimit == Spec => []TimerRuns
<1>. USE UltrasonicAssumption, SecondsAreNat
<1>1. Init => TimerRuns
  BY DEF Init, TimerRuns
<1>2. TypeOK /\ TimerRuns /\ [Next]_vars => TimerRuns'
  <2>. SUFFICES ASSUME TypeOK, TimerRuns, [Next]_vars PROVE TimerRuns'
    OBVIOUS
  <2>. USE DEF TypeOK, TimerRuns
  <2>1. CASE emit_start
    BY <2>1 DEF emit_start, Request, Granted
  <2>2. CASE emit_stop
    BY <2>2 DEF emit_stop
  <2>3. CASE emit_unknown_profile
    BY <2>3 DEF emit_unknown_profile
  <2>4. ASSUME NEW c \in AppCommands, app_ultra_cmd(c) PROVE TimerRuns'
    BY <2>4 DEF app_ultra_cmd, timer
  <2>5. CASE time_task
    <3>1. loopAge' = 0 /\ g_sec' = g_sec
      BY <2>5, Zenon DEF time_task
    <3>2. CASE TimeOver
      <4>1. g_ultra_stop_tick' = FALSE
        BY <2>5, <3>2, Zenon DEF time_task
      <4>. QED
        BY <4>1, Zenon
    <3>3. CASE ~TimeOver
      <4>1. UNCHANGED <<g_ultra_stop_tick, stopAge, stretched>>
        BY <2>5, <3>3, Zenon DEF time_task, history
      <4>2. g_ultra_stop_tick => stopAge <= g_sec
        BY <3>3 DEF TimeOver
      <4>. QED
        BY <3>1, <4>1, <4>2
    <3>. QED
      BY <3>2, <3>3, Zenon
  <2>6. CASE Tick
    BY <2>6 DEF Tick
  <2>7. CASE UNCHANGED vars
    BY <2>7 DEF vars, module, timer, history
  <2>. QED
    BY <2>1, <2>2, <2>3, <2>4, <2>5, <2>6, <2>7 DEF Next
<1>. QED
  BY <1>1, <1>2, TypeCorrect, PTL DEF Spec

\* If the APP leaves the module alone, no emission is without its timer.
THEOREM EmissionsAreTimed ==
  Spec => []EmissionTimed
<1>. USE UltrasonicAssumption, SecondsAreNat
<1>1. Init => EmissionTimed
  BY DEF Init, EmissionTimed, Emitting
<1>2. TypeOK /\ EmissionTimed /\ [Next]_vars => EmissionTimed'
  <2>. SUFFICES ASSUME TypeOK, EmissionTimed, [Next]_vars PROVE EmissionTimed'
    OBVIOUS
  <2>. USE DEF TypeOK, EmissionTimed, Emitting
  <2>1. CASE emit_start
    BY <2>1 DEF emit_start, PowerUpAndStart
  <2>2. CASE emit_stop
    BY <2>2 DEF emit_stop, PowerCut
  <2>3. CASE emit_unknown_profile
    BY <2>3 DEF emit_unknown_profile, module
  <2>4. ASSUME NEW c \in AppCommands, app_ultra_cmd(c) PROVE EmissionTimed'
    BY <2>4 DEF app_ultra_cmd
  <2>5. CASE time_task
    <3>1. CASE TimeOver
      BY <2>5, <3>1 DEF time_task, PowerCut
    <3>2. CASE ~TimeOver
      BY <2>5, <3>2 DEF time_task, module, history
    <3>. QED
      BY <3>1, <3>2
  <2>6. CASE Tick
    BY <2>6 DEF Tick, module
  <2>7. CASE UNCHANGED vars
    BY <2>7 DEF vars, module, timer, history
  <2>. QED
    BY <2>1, <2>2, <2>3, <2>4, <2>5, <2>6, <2>7 DEF Next
<1>. QED
  BY <1>1, <1>2, TypeCorrect, PTL DEF Spec

\* The safety limit of the handler: no emission outlasts it by more than one
\* pass of the main loop.
THEOREM EmissionIsBounded ==
  Spec => []EmissionBounded
<1>1. TypeOK /\ TimerRuns /\ EmissionTimed => EmissionBounded
  BY UltrasonicAssumption, SecondsAreNat
  DEF TypeOK, TimerRuns, EmissionTimed, EmissionBounded
<1>. QED
  BY <1>1, TypeCorrect, TimerKeepsLimit, EmissionsAreTimed, PTL
=============================================================================
