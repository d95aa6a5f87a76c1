----------------------------- MODULE StatusPush -----------------------------
(***************************************************************************)
(* How the APP's display follows g_ctrlState: once a second the MCU        *)
(* compares the state with the last snapshot it pushed (s_pushed_status)   *)
(* and pushes a new one when they differ; STATUS_GET answers the state of  *)
(* the moment and leaves the snapshot alone.  Where the values come from   *)
(* is the subject of DeviceState and ChargeGuard.                          *)
(*                                                                         *)
(* The charging bit has a rule of its own while the SOC executes a         *)
(* measure: STATUS_GET tells 0, the push keeps the last bit.               *)
(*                                                                         *)
(* A notification the BLE stack does not take is lost: nobody looks at the *)
(* result of app_ctrl_send, and the snapshot counts as pushed.             *)
(***************************************************************************)
EXTENDS Naturals

CONSTANTS
    Works,      \* workState
    Executing,  \* 3: a measure is being executed
    Settings,   \* power, volume and mode together
    Blank,      \* the zeros s_pushed_status starts with
    Slow,       \* TRUE: at most one change from one look to the next
    MaxChanges, MaxLinks  \* bounds of a behaviour

\* What the constants may be; a module that uses this one assumes it.
PushConstants ==
    /\ Executing \in Works /\ Blank \notin Settings
    /\ Slow \in BOOLEAN /\ MaxChanges \in Nat /\ MaxLinks \in Nat

VARIABLES
    work, settings,   \* g_ctrlState
    charge,           \* the debounced charger pins say charging
    s_pushed_status,
    listening,        \* 1: connected, notifications on
    informed,         \* history: 1 when a STATUS_GET was answered or a push
                      \* heard since then, and none was lost after it
    view,             \* what the APP displays
    moved,            \* history: 1 when something changed since the last look
    changes, links

state == <<work, settings, charge>>
vars == <<state, s_pushed_status, listening, informed, view, moved, changes, links>>

Snapshot(w, s, c) == [work |-> w, settings |-> s, charging |-> c]

Init == /\ work \in Works /\ settings \in Settings /\ charge \in 0..1
        /\ s_pushed_status = Snapshot(work, Blank, 0)
        /\ listening = 0 /\ informed = 0 /\ view = s_pushed_status
        /\ moved = 1 /\ changes = 0 /\ links = 0

Change == /\ changes < MaxChanges /\ changes' = changes + 1
          /\ Slow => moved = 0
          /\ moved' = 1

\* A callback or a handler stores other values.
state_changes(w, s) ==
    /\ Change
    /\ work' = w /\ settings' = s
    /\ UNCHANGED <<charge, s_pushed_status, listening, informed, view, links>>

charge_changes ==
    /\ Change
    /\ charge' = 1 - charge
    /\ UNCHANGED <<work, settings, s_pushed_status, listening, informed, view, links>>

\* app_adc_mon_is_charging
is_charging == IF work = Executing THEN 0 ELSE charge

\* STATUS_GET is answered, with the values stored before.
status_get_answer ==
    /\ listening = 1
    /\ view' = Snapshot(work, settings, is_charging) /\ informed' = 1
    /\ UNCHANGED <<state, s_pushed_status, listening, moved, changes, links>>

current == Snapshot(work, settings, IF work = Executing THEN s_pushed_status.charging
                                    ELSE is_charging)

\* Mutant: the settings are not compared.
differs_in_part == \/ s_pushed_status.work # current.work
                   \/ s_pushed_status.charging # current.charging

differs == s_pushed_status # current

\* app_ctrl_state_try_push_event: a push is heard, or nobody listens, or it is lost.
try_push_event ==
    /\ moved' = 0
    /\ \/ ~differs /\ UNCHANGED <<s_pushed_status, informed, view>>
       \/ /\ differs
          /\ s_pushed_status' = current
          /\ \/ listening = 1 /\ view' = current /\ informed' = 1
             \/ informed' = 0 /\ UNCHANGED view
    /\ UNCHANGED <<state, listening, changes, links>>

\* The APP connects and switches notifications on, or goes away.
Listens ==
    /\ links < MaxLinks /\ links' = links + 1
    /\ listening' = 1 - listening /\ informed' = 0
    /\ UNCHANGED <<state, s_pushed_status, view, moved, changes>>

Next == \/ \E w \in Works, s \in Settings : state_changes(w, s)
        \/ charge_changes \/ status_get_answer \/ try_push_event \/ Listens

Spec == Init /\ [][Next]_vars

---------------------------------------------------------------------------
\* Properties

TypeOK ==
    /\ work \in Works /\ settings \in Settings /\ charge \in 0..1
    /\ s_pushed_status \in [work : Works, settings : Settings \cup {Blank}, charging : 0..1]
    /\ view \in [work : Works, settings : Settings \cup {Blank}, charging : 0..1]
    /\ listening \in 0..1 /\ informed \in 0..1 /\ moved \in 0..1
    /\ changes \in 0..MaxChanges /\ links \in 0..MaxLinks

\* An APP that was told the state since it listens displays it whenever the MCU
\* has looked since the last change, and the charging bit outside execution; it
\* need not ask (app_ctrl.c:239-280, docs/ctrl_service_doc.md:1310).  Only after
\* a lost push it may be wrong, until the next push or until it asks.
DisplayFollows ==
    listening = 1 /\ informed = 1 /\ moved = 0 =>
        /\ view.work = work /\ view.settings = settings
        /\ work # Executing => view.charging = charge
===========================================================================
