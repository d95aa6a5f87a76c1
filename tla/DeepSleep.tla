----------------------------- MODULE DeepSleep -----------------------------
(***************************************************************************)
(* How the device goes to sleep and comes up again (app.c).  A debounced   *)
(* press and release of the key, or a low battery, asks for deep sleep; a  *)
(* connected device first ends the connection and sleeps when the          *)
(* controller says it is gone.  After a start the MCU advertises once the  *)
(* SOC is online and restarts itself when the SOC stays away.              *)
(*                                                                         *)
(* A tick is one pass of the main loop.  The clock is a counter of 32 bits *)
(* that comes round every 268 s; age counts modulo Wrap like it.           *)
(***************************************************************************)
EXTENDS Naturals

CONSTANTS
    KeyDebounce,   \* KEY_DEBOUNCE_US
    KeyDelay,      \* KEY_SLEEP_ENABLE_DELAY_US
    LowDelay,      \* twelve times that
    SocWait,       \* SOC_LINK_WAIT_TIMEOUT_US
    Wrap           \* the period of the clock

ASSUME SleepAssumption ==
    /\ KeyDebounce \in Nat /\ KeyDelay \in Nat /\ LowDelay \in Nat
    /\ SocWait \in Nat /\ Wrap \in Nat
    /\ KeyDelay < LowDelay /\ LowDelay + 1 < Wrap /\ KeyDebounce < KeyDelay

VARIABLES
    phase,      \* of the main loop: events, gate, pm
    asleep,
    age,        \* clock_time() - key_sleep_enable_tick
    advAge,     \* clock_time() - advertise_begin_tick, while it matters
    key,        \* 1: held down
    key_sm, keyAge,
    seen,       \* history: the key as the passes saw it
    low, charger, executing,   \* battery below 5 %, charger pins, workState 3
    soc_online,
    advertising, g_adv_enabled,
    device_in_connection_state,
    sendTerminate_before_enterDeep

power == <<low, charger, executing>>
keys == <<key_sm, keyAge, seen>>
radio == <<advertising, g_adv_enabled, device_in_connection_state,
           sendTerminate_before_enterDeep>>
clock == <<age, advAge>>
vars == <<phase, asleep, clock, key, keys, power, soc_online, radio>>

\* Samples in a row: down and up so far, and whether a press was long enough.
NothingSeen == [down |-> 0, up |-> 0, press |-> 0]

Start == /\ phase' = "events" /\ asleep' = 0
         /\ age' = 0 /\ advAge' = 0
         /\ key_sm' = "IDLE" /\ keyAge' = 0 /\ seen' = NothingSeen
         /\ soc_online' = 0 /\ executing' = 0
         /\ advertising' = 0 /\ g_adv_enabled' = 0 /\ device_in_connection_state' = 0
         /\ sendTerminate_before_enterDeep' = 0

Init == /\ phase = "events" /\ asleep = 0
        /\ age = 0 /\ advAge = 0
        /\ key \in 0..1 /\ key_sm = "IDLE" /\ keyAge = 0 /\ seen = NothingSeen
        /\ low \in 0..1 /\ charger \in 0..1 /\ executing = 0 /\ soc_online = 0
        /\ advertising = 0 /\ g_adv_enabled = 0 /\ device_in_connection_state = 0
        /\ sendTerminate_before_enterDeep = 0

---------------------------------------------------------------------------
\* What happens between two passes

KeyMoves == /\ asleep = 0 /\ phase = "events" /\ key' = 1 - key
            /\ UNCHANGED <<phase, asleep, clock, keys, power, soc_online, radio>>

PowerChanges == /\ asleep = 0 /\ phase = "events"
                /\ low' \in 0..1 /\ charger' \in 0..1
                /\ UNCHANGED <<phase, asleep, clock, key, keys, executing, soc_online,
                               radio>>

\* Heartbeats come or fail; a SOC that is up executes a measure or does not.
SocChanges == /\ asleep = 0 /\ phase = "events"
              /\ soc_online' \in 0..1 /\ executing' \in 0..1
              /\ executing' # executing => soc_online = 1
              /\ UNCHANGED <<phase, asleep, clock, key, keys, low, charger, radio>>

task_connect ==
    /\ asleep = 0 /\ phase = "events"
    /\ advertising = 1 /\ device_in_connection_state = 0
    /\ device_in_connection_state' = 1
    /\ UNCHANGED <<phase, asleep, clock, key, keys, power, soc_online, advertising,
                   g_adv_enabled, sendTerminate_before_enterDeep>>

\* Mutant: the request is forgotten when the peer was faster.
task_terminate_forgets ==
    /\ asleep = 0 /\ phase = "events" /\ device_in_connection_state = 1
    /\ device_in_connection_state' = 0
    /\ sendTerminate_before_enterDeep' = 0
    /\ UNCHANGED <<phase, asleep, clock, key, keys, power, soc_online, advertising,
                   g_adv_enabled>>

\* The connection ends, by either side; advertising goes on if it is enabled.
task_terminate ==
    /\ asleep = 0 /\ phase = "events" /\ device_in_connection_state = 1
    /\ device_in_connection_state' = 0
    /\ sendTerminate_before_enterDeep' = IF sendTerminate_before_enterDeep = 1 THEN 2
                                         ELSE sendTerminate_before_enterDeep
    /\ UNCHANGED <<phase, asleep, clock, key, keys, power, soc_online, advertising,
                   g_adv_enabled>>

---------------------------------------------------------------------------
\* One pass of the main loop

Begin == /\ asleep = 0 /\ phase = "events" /\ phase' = "gate"
         /\ age' = (age + 1) % Wrap
         /\ advAge' = IF g_adv_enabled = 1 THEN 0 ELSE advAge + 1
         /\ keyAge' = IF keyAge <= KeyDebounce THEN keyAge + 1 ELSE keyAge
         /\ UNCHANGED <<asleep, key, key_sm, seen, power, soc_online, radio>>

adv_gate_open ==
    /\ phase = "gate" /\ phase' = "pm"
    /\ IF g_adv_enabled = 0 /\ soc_online = 1
       THEN advertising' = 1 /\ g_adv_enabled' = 1
       ELSE UNCHANGED <<advertising, g_adv_enabled>>
    /\ g_adv_enabled = 1 \/ soc_online = 1 \/ advAge <= SocWait
    /\ UNCHANGED <<asleep, clock, key, keys, power, soc_online,
                   device_in_connection_state, sendTerminate_before_enterDeep>>

\* The SOC stays away: start_reboot
adv_gate_reboot ==
    /\ phase = "gate"
    /\ g_adv_enabled = 0 /\ soc_online = 0 /\ advAge > SocWait
    /\ Start /\ UNCHANGED <<key, low, charger>>

Debounced == keyAge > KeyDebounce

\* Mutant: a key let go before the time is up is not noticed.
key_step_no_glitch ==
    CASE key_sm = "IDLE" /\ key = 1 -> "PRESS_DEBOUNCE"
      [] key_sm = "PRESS_DEBOUNCE" /\ Debounced -> "PRESSED"
      [] key_sm = "PRESSED" /\ key = 0 -> "RELEASE_DEBOUNCE"
      [] key_sm = "RELEASE_DEBOUNCE" /\ key = 1 -> "PRESSED"
      [] key_sm = "RELEASE_DEBOUNCE" /\ key = 0 /\ Debounced -> "IDLE"
      [] OTHER -> key_sm

key_step ==
    CASE key_sm = "IDLE" /\ key = 1 -> "PRESS_DEBOUNCE"
      [] key_sm = "PRESS_DEBOUNCE" /\ key = 0 -> "IDLE"
      [] key_sm = "PRESS_DEBOUNCE" /\ key = 1 /\ Debounced -> "PRESSED"
      [] key_sm = "PRESSED" /\ key = 0 -> "RELEASE_DEBOUNCE"
      [] key_sm = "RELEASE_DEBOUNCE" /\ key = 1 -> "PRESSED"
      [] key_sm = "RELEASE_DEBOUNCE" /\ key = 0 /\ Debounced -> "IDLE"
      [] OTHER -> key_sm

Released == key_sm = "RELEASE_DEBOUNCE" /\ key = 0 /\ Debounced

\* History: the samples of this pass; a press counts from the time of the code.
Sampled ==
    LET down == IF key = 1 THEN seen.down + 1 ELSE 0
        up   == IF key = 0 THEN seen.up + 1 ELSE 0
        enough == KeyDebounce + 2
    IN [down |-> IF down > enough THEN enough ELSE down,
        up |-> IF up > enough THEN enough ELSE up,
        press |-> IF down >= enough THEN 1 ELSE seen.press]

\* app_adc_mon_is_charging
is_charging == IF executing = 1 THEN 0 ELSE charger

KeyRequest == Released /\ age > KeyDelay

\* Mutant: a delay longer than the clock's period.
LowRequest_never == age > Wrap /\ is_charging = 0 /\ low = 1

LowRequest == age > LowDelay /\ is_charging = 0 /\ low = 1

\* Mutant: advertising stays enabled.
request_deep_sleep_advertises ==
    \/ /\ device_in_connection_state = 1
       /\ sendTerminate_before_enterDeep' = 1
       /\ UNCHANGED <<asleep, advertising>>
    \/ /\ device_in_connection_state = 0
       /\ asleep' = 1
       /\ UNCHANGED <<advertising, sendTerminate_before_enterDeep>>

request_deep_sleep ==
    \/ /\ device_in_connection_state = 1
       /\ sendTerminate_before_enterDeep' = 1 /\ advertising' = 0
       /\ UNCHANGED asleep
    \/ /\ device_in_connection_state = 0
       /\ asleep' = 1
       /\ UNCHANGED <<advertising, sendTerminate_before_enterDeep>>

\* blt_pm_proc after a connection has ended for the sleep
pm_proc_after_terminate ==
    /\ phase = "pm" /\ phase' = "events" /\ sendTerminate_before_enterDeep = 2
    /\ request_deep_sleep
    /\ UNCHANGED <<clock, key, keys, power, soc_online, g_adv_enabled,
                   device_in_connection_state>>

\* Otherwise the key is looked at, then the battery.  The second look at the pin
\* within a pass sees what the first saw.
pm_proc ==
    /\ phase = "pm" /\ phase' = "events" /\ sendTerminate_before_enterDeep # 2
    /\ key_sm' = key_step
    /\ keyAge' = IF key_step # key_sm /\ key_step \in {"PRESS_DEBOUNCE", "RELEASE_DEBOUNCE"}
                 THEN 0 ELSE keyAge
    /\ seen' = IF Released THEN NothingSeen ELSE Sampled
    /\ IF KeyRequest \/ LowRequest THEN request_deep_sleep
       ELSE UNCHANGED <<asleep, advertising, sendTerminate_before_enterDeep>>
    /\ UNCHANGED <<clock, key, power, soc_online, g_adv_enabled, device_in_connection_state>>

\* Key or charger wake the chip: everything starts anew.
WakeUp == /\ asleep = 1
          /\ key' \in 0..1 /\ charger' \in 0..1 /\ (key' = 1 \/ charger' = 1)
          /\ Start /\ UNCHANGED low

Events == KeyMoves \/ PowerChanges \/ SocChanges \/ task_connect
Pass == Begin \/ adv_gate_open \/ adv_gate_reboot \/ pm_proc_after_terminate \/ pm_proc

Next == Events \/ task_terminate \/ Pass \/ WakeUp

Spec == Init /\ [][Next]_vars

\* The main loop comes round, and the controller ends a connection it was told
\* to end, by the peer's answer or by the supervision timeout.
FairSpec == /\ Spec /\ WF_vars(Pass)
            /\ SF_vars(sendTerminate_before_enterDeep = 1 /\ task_terminate)

---------------------------------------------------------------------------
\* Properties

TypeOK ==
    /\ phase \in {"events", "gate", "pm"} /\ asleep \in 0..1
    /\ age \in 0..(Wrap - 1) /\ advAge \in 0..(SocWait + 1)
    /\ key \in 0..1 /\ keyAge \in 0..(KeyDebounce + 1)
    /\ key_sm \in {"IDLE", "PRESS_DEBOUNCE", "PRESSED", "RELEASE_DEBOUNCE"}
    /\ seen \in [down : 0..(KeyDebounce + 2), up : 0..(KeyDebounce + 2), press : 0..1]
    /\ low \in 0..1 /\ charger \in 0..1 /\ executing \in 0..1 /\ soc_online \in 0..1
    /\ advertising \in 0..1 /\ g_adv_enabled \in 0..1
    /\ device_in_connection_state \in 0..1
    /\ sendTerminate_before_enterDeep \in 0..2

\* Once the connection was ended in order to sleep nobody can connect again
\* before the chip sleeps (app.c:251-258, 212-215).
NoNewConnection == sendTerminate_before_enterDeep = 2 =>
    device_in_connection_state = 0 /\ advertising = 0

\* The key state machine leaves a press only after passes have seen the key down
\* for the time of debouncing without a gap (app.c:346-381).
PressIsReal == key_sm \in {"PRESSED", "RELEASE_DEBOUNCE"} => seen.press = 1

\* A device that was told to sleep does (app.c:251-279, 288-296, 212-215).
SleepComes == sendTerminate_before_enterDeep > 0 ~> asleep = 1

\* A battery that stays low puts the device to sleep once it has found its SOC,
\* though the clock comes round (app.c:410-414).
LowBatterySleeps ==
    []<>(low = 0 \/ charger = 1 \/ g_adv_enabled = 0 \/ asleep = 1)
===========================================================================
