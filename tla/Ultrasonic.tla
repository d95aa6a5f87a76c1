----------------------------- MODULE Ultrasonic -----------------------------
(***************************************************************************)
(* Emission of ultrasound.  The SOC asks for it with an event of a profile *)
(* and a duration (app_ctrl_evt_ultra_emit_from_soc); the MCU drives the   *)
(* module through an enable pin and a serial line whose answers it does    *)
(* not wait for, and app_ctrl_time_task ends the emission when its time is *)
(* over.  The APP has test commands that reach the module past this timer. *)
(*                                                                         *)
(* A command on the serial line may be lost: nothing in the MCU would      *)
(* notice.  Time is in seconds; the sleeps of 50 ms inside the handler     *)
(* are part of its step.  app_ultrasonic_start_emit has an error return    *)
(* that its callee cannot produce (ultra_txrx returns 0), so it is left    *)
(* out.                                                                    *)
(***************************************************************************)
EXTENDS Naturals

CONSTANTS
    Profiles,     \* profiles the SOC sends
    Durations,    \* durations the SOC sends, in seconds
    EmitLimit,    \* 10: the longest emission the handler grants
    AppCommands,  \* test commands the APP uses
    LoopTicks,    \* bound: seconds from one app_ctrl_time_task to the next
    MaxRequests   \* bound: events and commands in a behaviour

ASSUME UltrasonicAssumption ==
    /\ Durations \subseteq Nat
    /\ EmitLimit \in Nat /\ LoopTicks \in Nat /\ MaxRequests \in Nat

KnownProfiles == 1..3
Seconds == Durations \cup 0..EmitLimit

VARIABLES
    power,              \* GPIO_ULTAR_EN
    trans, emit,        \* the module's transformer and transmitter switches
    g_ultra_stop_tick,  \* TRUE when set (# 0)
    stopAge,            \* clock_time() - g_ultra_stop_tick, while set
    g_sec,
    loopAge,            \* seconds since app_ctrl_time_task
    emitAge,            \* history: how long the module has been emitting
    tested,             \* history: 1 when the APP switched the module itself
                        \* since the MCU last cut its power
    stretched,          \* history: 1 when an unknown profile set this
                        \* timer past the limit
    requests            \* history: how many events and commands came

module == <<power, trans, emit>>
timer == <<g_ultra_stop_tick, stopAge, g_sec>>
history == <<emitAge, tested, stretched>>
vars == <<module, timer, loopAge, history, requests>>

Emitting == power /\ trans /\ emit

Init == /\ power = FALSE /\ trans = FALSE /\ emit = FALSE
        /\ g_ultra_stop_tick = FALSE /\ stopAge = 0 /\ g_sec = 0
        /\ loopAge = 0 /\ emitAge = 0 /\ tested = 0 /\ stretched = 0
        /\ requests = 0

---------------------------------------------------------------------------
\* The module

\* app_ultrasonic_set_power(0): without power both switches fall back.
\* app_ultrasonic_stop_emit went before it, and may have been lost.
PowerCut == /\ power' = FALSE /\ trans' = FALSE /\ emit' = FALSE
            /\ emitAge' = 0 /\ tested' = 0

\* Mutant: only the commands on the serial line, the power stays on.
PowerCut_by_command ==
    /\ power' = power
    /\ trans' \in {trans, FALSE} /\ emit' \in {emit, FALSE}
    /\ emitAge' = IF power /\ trans' /\ emit' THEN emitAge ELSE 0
    /\ tested' = 0

\* app_ultrasonic_set_power(1) and app_ultrasonic_start_emit: each command is
\* taken or lost.  An emission of the timer's was cut (set_power(0), 50 ms);
\* one that the APP switched on goes on.
PowerUpAndStart ==
    LET on(switch) == power /\ switch /\ ~g_ultra_stop_tick
    IN  /\ power' = TRUE
        /\ trans' \in {on(trans), TRUE} /\ emit' \in {on(emit), TRUE}
        /\ emitAge' = IF on(trans) /\ on(emit) THEN emitAge ELSE 0

---------------------------------------------------------------------------
\* The event of the SOC

Request == requests < MaxRequests /\ requests' = requests + 1

emit_stop ==
    /\ Request /\ 0 \in Profiles
    /\ \E d \in Durations : g_sec' = d
    /\ PowerCut
    /\ g_ultra_stop_tick' = FALSE /\ stopAge' = 0 /\ stretched' = 0
    /\ UNCHANGED loopAge

\* The duration is stored before the profile is looked at.
emit_unknown_profile ==
    /\ Request /\ Profiles \ (KnownProfiles \cup {0}) # {}
    /\ \E d \in Durations :
         /\ g_sec' = d
         /\ stretched' = IF d > EmitLimit THEN 1 ELSE stretched
    /\ UNCHANGED <<module, g_ultra_stop_tick, stopAge, loopAge, emitAge, tested>>

Granted(d) == IF d > EmitLimit THEN EmitLimit ELSE d

\* Mutant: the timer is not set.
emit_start_keeps_timer ==
    /\ Request /\ Profiles \cap KnownProfiles # {}
    /\ \E d \in Durations : g_sec' = Granted(d)
    /\ PowerUpAndStart /\ stretched' = 0
    /\ UNCHANGED <<g_ultra_stop_tick, stopAge, loopAge, tested>>

emit_start ==
    /\ Request /\ Profiles \cap KnownProfiles # {}
    /\ \E d \in Durations : g_sec' = Granted(d)
    /\ PowerUpAndStart
    /\ g_ultra_stop_tick' = TRUE /\ stopAge' = 0 /\ stretched' = 0
    /\ UNCHANGED <<loopAge, tested>>

---------------------------------------------------------------------------
\* app_ctrl_handle_ultra_cmd: one switch of the module, no timer.

Switch(p, t, e) ==
    /\ power' = p
    /\ trans' = (p /\ t) /\ emit' = (p /\ e)
    /\ emitAge' = IF p /\ t /\ e THEN emitAge ELSE 0

app_ultra_cmd(c) ==
    /\ Request /\ c \in AppCommands
    /\ \/ c = "POWER_ON" /\ Switch(TRUE, trans, emit)
       \/ c = "POWER_OFF" /\ Switch(FALSE, trans, emit)
       \/ c = "TRANS_ON" /\ Switch(power, TRUE, emit)
       \/ c = "TRANS_OFF" /\ Switch(power, FALSE, emit)
       \/ c = "EMIT_ON" /\ Switch(power, trans, TRUE)
       \/ c = "EMIT_OFF" /\ Switch(power, trans, FALSE)
    /\ tested' = 1
    /\ UNCHANGED <<timer, loopAge, stretched>>

---------------------------------------------------------------------------
\* Mutant: a second too late.
TimeOver_late == g_ultra_stop_tick /\ stopAge > g_sec + 1

TimeOver == g_ultra_stop_tick /\ stopAge > g_sec

\* Mutant: the timer is started again where the emission should end.
time_task_again ==
    /\ loopAge' = 0
    /\ stopAge' = IF TimeOver THEN 0 ELSE stopAge
    /\ UNCHANGED <<module, history, g_ultra_stop_tick, g_sec, requests>>

time_task ==
    /\ loopAge' = 0
    /\ IF TimeOver
       THEN /\ PowerCut /\ stretched' = 0
            /\ g_ultra_stop_tick' = FALSE /\ stopAge' = 0
       ELSE UNCHANGED <<module, history, g_ultra_stop_tick, stopAge>>
    /\ UNCHANGED <<g_sec, requests>>

\* The age of an emission is counted up to where it is too long.
Tick ==
    /\ loopAge < LoopTicks /\ loopAge' = loopAge + 1
    /\ stopAge' = IF g_ultra_stop_tick THEN stopAge + 1 ELSE 0
    /\ emitAge' = IF Emitting /\ emitAge <= EmitLimit + LoopTicks
                  THEN emitAge + 1 ELSE emitAge
    /\ UNCHANGED <<module, tested, stretched, g_ultra_stop_tick, g_sec, requests>>

Next == \/ emit_start \/ emit_stop \/ emit_unknown_profile
        \/ \E c \in AppCommands : app_ultra_cmd(c)
        \/ time_task \/ Tick

Spec == Init /\ [][Next]_vars

\* The main loop goes round and the clock runs.
FairSpec == Spec /\ WF_vars(time_task) /\ WF_vars(Tick)

---------------------------------------------------------------------------
\* Properties

TypeOK ==
    /\ power \in BOOLEAN /\ trans \in BOOLEAN /\ emit \in BOOLEAN
    /\ g_ultra_stop_tick \in BOOLEAN /\ stopAge \in Nat
    /\ g_sec \in Seconds
    /\ loopAge \in 0..LoopTicks /\ emitAge \in Nat
    /\ tested \in 0..1 /\ stretched \in 0..1
    /\ requests \in 0..MaxRequests

\* The timer of an emission the SOC asked for is never set past the limit and
\* never overdue by more than one pass of the main loop, whatever the APP's
\* test commands do to the module meanwhile.  The exception is an event of an
\* unknown profile, whose duration is stored before it is checked
\* (app_ctrl.c:759).
TimerRuns ==
    g_ultra_stop_tick /\ stretched = 0 =>
        g_sec <= EmitLimit /\ stopAge <= EmitLimit + loopAge

\* The module the APP leaves alone never emits without a timer that is as old
\* as the emission.
EmissionTimed == tested = 0 => /\ Emitting => g_ultra_stop_tick /\ emitAge <= stopAge
                               /\ ~Emitting => emitAge = 0

\* A single emission lasts no longer than the limit and one pass of the main
\* loop, whatever the SOC asks for (restarts, stops, durations past the
\* limit), and even if the module never hears the commands to stop
\* (app_ctrl.c:785-809, 2370-2376), unless the APP switches the module itself
\* or an unknown profile sets the timer.
EmissionBounded == tested = 0 /\ stretched = 0 => emitAge <= EmitLimit + LoopTicks

\* Every emission comes to an end without any help of the SOC, also one that
\* an unknown profile lengthens; one that the APP switched on need not.
EmissionEnds == Emitting ~> ~Emitting \/ tested = 1
===========================================================================
