-------------------------- MODULE DeepSleepProofs --------------------------
(***************************************************************************)
(* The handshake before deep sleep, for every delay and period: a device   *)
(* that ended its connection in order to sleep is not connected again.     *)
(* And the key: while it is debounced every pass takes a sample, so that   *)
(* as many in a row saw it down as the time of debouncing has passes.      *)
(***************************************************************************)
EXTENDS DeepSleep, TLAPS

\* The types of the variables the handshake is about
RadioOK == /\ advertising \in 0..1 /\ g_adv_enabled \in 0..1
           /\ device_in_connection_state \in 0..1
           /\ sendTerminate_before_enterDeep \in 0..2

\* Only an advertising device connects, the gate enables advertising once, and
\* what asks for sleep disables it until the next start.
Handshake ==
    /\ g_adv_enabled = 0 => /\ advertising = 0 /\ device_in_connection_state = 0
                            /\ sendTerminate_before_enterDeep = 0
    /\ sendTerminate_before_enterDeep > 0 => advertising = 0
    /\ sendTerminate_before_enterDeep = 2 => device_in_connection_state = 0

HandshakeInv == RadioOK /\ Handshake

LEMMA HandshakeStep == HandshakeInv /\ [Next]_vars => HandshakeInv'
<1>. SUFFICES ASSUME HandshakeInv, [Next]_vars PROVE HandshakeInv'
  OBVIOUS
<1>. USE DEF HandshakeInv, RadioOK, Handshake
<1>1. CASE Events
  <2>1. CASE task_connect
    BY <2>1 DEF task_connect
  <2>2. CASE KeyMoves \/ PowerChanges \/ SocChanges
    BY <2>2 DEF KeyMoves, PowerChanges, SocChanges, radio
  <2>. QED
    BY <1>1, <2>1, <2>2 DEF Events
<1>2. CASE task_terminate
  BY <1>2 DEF task_terminate
<1>3. CASE Begin
  BY <1>3 DEF Begin, radio
<1>4. CASE adv_gate_open
  BY <1>4 DEF adv_gate_open
<1>5. CASE adv_gate_reboot
  BY <1>5 DEF adv_gate_reboot, Start
<1>6. CASE pm_proc_after_terminate
  BY <1>6 DEF pm_proc_after_terminate, request_deep_sleep
<1>7. CASE pm_proc
  BY <1>7 DEF pm_proc, request_deep_sleep
<1>8. CASE WakeUp
  BY <1>8 DEF WakeUp, Start
<1>9. CASE UNCHANGED vars
  BY <1>9 DEF vars, radio
<1>. QED
  BY <1>1, <1>2, <1>3, <1>4, <1>5, <1>6, <1>7, <1>8, <1>9 DEF Next, Pass

\* Nobody connects to a device that has hung up in order to sleep, whatever the
\* delays, the period of the clock and the behaviour of SOC, key and battery.
THEOREM HangsUpForGood == Spec => []NoNewConnection
<1>1. Init => HandshakeInv
  BY DEF Init, HandshakeInv, RadioOK, Handshake
<1>2. HandshakeInv => NoNewConnection
  BY DEF HandshakeInv, RadioOK, Handshake, NoNewConnection
<1>. QED
  BY <1>1, <1>2, HandshakeStep, PTL DEF Spec

\* Between two gates the wait for the SOC has not run out.
WaitsInTime == phase # "gate" /\ g_adv_enabled = 0 => advAge <= SocWait

LEMMA KeyStepTyped ==
    ASSUME key_sm \in {"IDLE", "PRESS_DEBOUNCE", "PRESSED", "RELEASE_DEBOUNCE"}
    PROVE  key_step \in {"IDLE", "PRESS_DEBOUNCE", "PRESSED", "RELEASE_DEBOUNCE"}
  BY DEF key_step

LEMMA SampledTyped ==
    ASSUME KeyDebounce \in Nat,
           seen \in [down : 0..(KeyDebounce + 2), up : 0..(KeyDebounce + 2),
                     press : 0..1]
    PROVE  Sampled \in [down : 0..(KeyDebounce + 2), up : 0..(KeyDebounce + 2),
                        press : 0..1]
  BY DEF Sampled

LEMMA TypeStep == TypeOK /\ WaitsInTime /\ [Next]_vars => (TypeOK /\ WaitsInTime)'
<1>. SUFFICES ASSUME TypeOK, WaitsInTime, [Next]_vars
              PROVE  (TypeOK /\ WaitsInTime)'
  OBVIOUS
<1>. USE SleepAssumption DEF TypeOK, WaitsInTime
<1>1. CASE KeyMoves
  BY <1>1 DEF KeyMoves, clock, keys, power, radio
<1>2. CASE PowerChanges
  BY <1>2 DEF PowerChanges, clock, keys, radio
<1>3. CASE SocChanges
  BY <1>3 DEF SocChanges, clock, keys, radio
<1>4. CASE task_connect
  BY <1>4 DEF task_connect, clock, keys, power
<1>5. CASE task_terminate
  BY <1>5 DEF task_terminate, clock, keys, power
<1>6. CASE Begin
  <2>1. age' \in 0..(Wrap - 1)
    BY <1>6 DEF Begin
  <2>2. keyAge' \in 0..(KeyDebounce + 1)
    BY <1>6 DEF Begin
  <2>3. advAge' \in 0..(SocWait + 1)
    BY <1>6 DEF Begin
  <2>. QED
    BY <1>6, <2>1, <2>2, <2>3 DEF Begin, power, radio
<1>7. CASE adv_gate_open
  BY <1>7 DEF adv_gate_open, clock, keys, power
<1>8. CASE adv_gate_reboot
  BY <1>8 DEF adv_gate_reboot, Start, NothingSeen
<1>9. CASE pm_proc_after_terminate
  BY <1>9 DEF pm_proc_after_terminate, request_deep_sleep, clock, keys, power
<1>10. CASE pm_proc
  <2>1. key_sm' \in {"IDLE", "PRESS_DEBOUNCE", "PRESSED", "RELEASE_DEBOUNCE"}
    BY <1>10, KeyStepTyped DEF pm_proc
  <2>2. keyAge' \in 0..(KeyDebounce + 1)
    BY <1>10 DEF pm_proc
  <2>3. seen' \in [down : 0..(KeyDebounce + 2), up : 0..(KeyDebounce + 2),
                   press : 0..1]
    BY <1>10, SampledTyped DEF pm_proc, NothingSeen
  <2>. QED
    BY <1>10, <2>1, <2>2, <2>3 DEF pm_proc, request_deep_sleep, clock, power
<1>11. CASE WakeUp
  BY <1>11 DEF WakeUp, Start, NothingSeen
<1>12. CASE UNCHANGED vars
  BY <1>12 DEF vars, clock, keys, power, radio
<1>. QED
  BY <1>1, <1>2, <1>3, <1>4, <1>5, <1>6, <1>7, <1>8, <1>9, <1>10, <1>11, <1>12
  DEF Next, Events, Pass

\* Types, for every delay and period: the wait for the SOC never runs on past
\* its end, and the samples of the key are counted to their limit only.
THEOREM TypeCorrect == Spec => []TypeOK
<1>1. Init => TypeOK /\ WaitsInTime
  BY SleepAssumption DEF Init, TypeOK, WaitsInTime, NothingSeen
<1>. QED
  BY <1>1, TypeStep, PTL DEF Spec

\* The samples keep up with the time: a pass that takes none goes to sleep.
DownSinceEdge ==
    key_sm = "PRESS_DEBOUNCE" /\ asleep = 0 =>
        /\ seen.down >= keyAge
        /\ phase = "events" => keyAge <= KeyDebounce /\ seen.down >= keyAge + 1

\* Only the last step of a pass puts the chip to sleep.
SleepsBetweenPasses == asleep = 1 => phase = "events"

KeyInv == TypeOK /\ HandshakeInv /\ SleepsBetweenPasses /\ DownSinceEdge /\ PressIsReal

\* A look at the key
LEMMA KeyLook ==
    ASSUME TypeOK, DownSinceEdge, PressIsReal, pm_proc, asleep = 0
    PROVE  DownSinceEdge' /\ PressIsReal'
<1>. USE SleepAssumption
<1>1. /\ phase = "pm" /\ phase' = "events" /\ key \in 0..1
      /\ keyAge \in 0..(KeyDebounce + 1)
      /\ seen.down \in 0..(KeyDebounce + 2) /\ seen.press \in 0..1
      /\ key_sm \in {"IDLE", "PRESS_DEBOUNCE", "PRESSED", "RELEASE_DEBOUNCE"}
  BY DEF TypeOK, pm_proc
<1>2. /\ key_sm' = key_step
      /\ keyAge' = IF key_step # key_sm /\ key_step \in {"PRESS_DEBOUNCE", "RELEASE_DEBOUNCE"}
                   THEN 0 ELSE keyAge
      /\ seen' = IF Released THEN NothingSeen ELSE Sampled
  BY DEF pm_proc
<1>3. /\ key = 1 /\ seen.down >= KeyDebounce + 1 => Sampled.press = 1
      /\ seen.press = 1 => Sampled.press = 1
      /\ key = 1 /\ seen.down <= KeyDebounce + 1 => Sampled.down = seen.down + 1
      /\ key = 1 => Sampled.down >= 1
      /\ key = 1 /\ seen.down = KeyDebounce + 2 => Sampled.down = KeyDebounce + 2
  BY <1>1 DEF Sampled
<1>4. CASE key_sm = "IDLE"
  <2>1. key_sm' \in {"IDLE", "PRESS_DEBOUNCE"} /\ (key_sm' = "PRESS_DEBOUNCE" => key = 1)
    BY <1>1, <1>2, <1>4 DEF key_step
  <2>2. key_sm' = "PRESS_DEBOUNCE" => keyAge' = 0 /\ seen'.down >= 1
    BY <1>2, <1>3, <1>4, <2>1 DEF Released
  <2>3. CASE key_sm' = "IDLE"
    BY <2>3 DEF DownSinceEdge, PressIsReal
  <2>4. CASE key_sm' = "PRESS_DEBOUNCE"
    <3>1. keyAge' = 0 /\ seen'.down >= 1
      BY <2>2, <2>4
    <3>2. Sampled.down \in Nat /\ seen'.down \in Nat
      BY <1>1, <1>2 DEF Sampled, NothingSeen
    <3>3. keyAge' <= KeyDebounce /\ seen'.down >= keyAge' + 1 /\ seen'.down >= keyAge'
      BY <3>1, <3>2
    <3>. QED
      BY <2>4, <3>3 DEF DownSinceEdge, PressIsReal
  <2>. QED
    BY <2>1, <2>3, <2>4
<1>5. CASE key_sm = "PRESS_DEBOUNCE"
  <2>1. seen.down >= keyAge /\ seen' = Sampled
    BY <1>2, <1>5 DEF DownSinceEdge, Released
  <2>2. CASE key = 0
    <3>1. key_sm' = "IDLE"
      BY <1>2, <1>5, <2>2 DEF key_step
    <3>. QED
      BY <3>1 DEF DownSinceEdge, PressIsReal
  <2>3. CASE key = 1 /\ keyAge > KeyDebounce
    <3>1. key_sm' = "PRESSED"
      BY <1>2, <1>5, <2>3 DEF key_step, Debounced
    <3>2. seen'.press = 1
      BY <1>1, <1>3, <2>1, <2>3
    <3>. QED
      BY <3>1, <3>2 DEF DownSinceEdge, PressIsReal
  <2>4. CASE key = 1 /\ keyAge <= KeyDebounce
    <3>1. key_sm' = "PRESS_DEBOUNCE" /\ keyAge' = keyAge
      BY <1>1, <1>2, <1>5, <2>4 DEF key_step, Debounced
    <3>2. seen'.down >= keyAge + 1
      BY <1>1, <1>3, <2>1, <2>4
    <3>3. keyAge' <= KeyDebounce /\ seen'.down >= keyAge' + 1
      BY <2>4, <3>1, <3>2
    <3>4. seen'.down \in Nat /\ keyAge' \in Nat
      BY <1>1, <1>3, <2>1, <2>4, <3>1
    <3>5. seen'.down >= keyAge'
      BY <3>3, <3>4
    <3>. QED
      BY <3>1, <3>3, <3>5 DEF DownSinceEdge, PressIsReal
  <2>. QED
    BY <1>1, <2>2, <2>3, <2>4
<1>6. CASE key_sm \in {"PRESSED", "RELEASE_DEBOUNCE"}
  <2>1. seen.press = 1
    BY <1>6 DEF PressIsReal
  <2>2. key_sm' # "PRESS_DEBOUNCE" /\ (Released => key_sm' = "IDLE")
    BY <1>1, <1>2, <1>6 DEF key_step, Released
  <2>3. ~Released => seen'.press = 1
    BY <1>2, <1>3, <2>1
  <2>. QED
    BY <2>2, <2>3 DEF DownSinceEdge, PressIsReal
<1>. QED
  BY <1>1, <1>4, <1>5, <1>6

LEMMA KeyStepKeeps ==
    ASSUME KeyInv, TypeOK', HandshakeInv', [Next]_vars
    PROVE  KeyInv'
<1>. USE DEF KeyInv
<1>0. SleepsBetweenPasses'
  BY DEF SleepsBetweenPasses, Next, Events, Pass, KeyMoves, PowerChanges, SocChanges,
         task_connect, task_terminate, Begin, adv_gate_open, adv_gate_reboot,
         pm_proc_after_terminate, pm_proc, WakeUp, Start, vars
<1>1. CASE Events \/ task_terminate \/ adv_gate_open \/ UNCHANGED vars
  <2>1. UNCHANGED <<key_sm, keyAge, seen, asleep>> /\ (phase' = "events" => phase = "events")
    BY <1>1
    DEF Events, KeyMoves, PowerChanges, SocChanges, task_connect, task_terminate,
        adv_gate_open, vars, keys, clock
  <2>. QED
    BY <1>0, <2>1 DEF DownSinceEdge, PressIsReal
<1>2. CASE Begin
  <2>1. /\ UNCHANGED <<key_sm, seen>> /\ phase = "events" /\ phase' = "gate" /\ asleep = 0
        /\ keyAge' \in {keyAge, keyAge + 1}
    BY <1>2 DEF Begin
  <2>2. seen.down \in Nat /\ keyAge \in Nat
    BY SleepAssumption DEF TypeOK
  <2>. QED
    BY <1>0, <2>1, <2>2 DEF DownSinceEdge, PressIsReal
<1>3. CASE adv_gate_reboot \/ WakeUp
  <2>1. key_sm' = "IDLE"
    BY <1>3 DEF adv_gate_reboot, WakeUp, Start
  <2>. QED
    BY <1>0, <2>1 DEF DownSinceEdge, PressIsReal
<1>4. CASE pm_proc_after_terminate
  <2>1. UNCHANGED <<key_sm, seen>> /\ asleep' = 1
    BY <1>4 DEF pm_proc_after_terminate, request_deep_sleep, keys, HandshakeInv,
                RadioOK, Handshake
  <2>. QED
    BY <1>0, <2>1 DEF DownSinceEdge, PressIsReal
<1>5. CASE pm_proc
  <2>1. asleep = 0
    BY <1>5 DEF pm_proc, SleepsBetweenPasses, TypeOK
  <2>. QED
    BY <1>0, <1>5, <2>1, KeyLook
<1>. QED
  BY <1>1, <1>2, <1>3, <1>4, <1>5 DEF Next, Pass

\* A press the device acts on was held for the whole time of debouncing: while the
\* key is being debounced every pass of the main loop takes a sample of it.
THEOREM PressesAreReal == Spec => []PressIsReal
<1>1. Init => HandshakeInv /\ SleepsBetweenPasses /\ DownSinceEdge /\ PressIsReal
  BY DEF Init, HandshakeInv, RadioOK, Handshake, SleepsBetweenPasses, DownSinceEdge,
         PressIsReal
<1>2. KeyInv /\ TypeOK' /\ HandshakeInv' /\ [Next]_vars => KeyInv'
  BY KeyStepKeeps
<1>3. KeyInv <=> TypeOK /\ HandshakeInv /\ SleepsBetweenPasses /\ DownSinceEdge /\ PressIsReal
  BY DEF KeyInv
<1>. QED
  BY <1>1, <1>2, <1>3, TypeCorrect, HandshakeStep, PTL DEF Spec
=============================================================================
