# Verification of the egg soother firmware

TLA+ models of the BLE/UART firmware in `src/` (a Telink TLSR8 MCU between a
phone APP, an AI SOC and an ultrasound module), model-checked with TLC, with
proofs checked by TLAPS. Paths are relative to `src/`; `PROJECT.json` maps every
definition to the lines it stands for.

## 1. The system

```
 APP  <-- BLE GATT -->  MCU (app*.c)  <-- UART, CRC16 frames -->  AI SOC
                         |        \--- 2nd serial line, pin --->  ultrasound module
                         +-- flash: reward switch, battery percent
                         +-- ADC: battery, NTC, charger pins;  key;  LED
```

One pass of the main loop (`app.c:1116-1145`) runs, in this order: the BLE stack
(whose callbacks call `app_ctrl_onRx`, `task_connect`, `task_terminate`), the
battery update, `app_uart_task` (free the requests that timed out, *then* parse what
came in and run callbacks), `app_ctrl_time_task` (heartbeat timeout, stuck flags,
reward repetitions, notice of every second, status push, ultrasound timer), the advertising gate, key and
input, ADC, LED, power management. The only other thread is the UART receive
interrupt `app_uart_ndma_irq_proc` (`app_uart.c:36-60`). Everything is kept in RAM
but the reward switch and the battery percent.

| Component | State | Operations | What makes it correct |
|---|---|---|---|
| SOC request table (`app_uart.c:118-232`) | `g_uart_pending[8]`, `g_uart_seq` (u8) | send with callback, send without, dispatch of an answer, cleanup after 3 s | an answer reaches its own request only, at most once; no slot is lost; nothing waits longer than the timeout |
| UART receiver (`app_uart.c:36-60, 234-405`) | `g_uart_soc_rx_buf/len`, shared with the interrupt without a lock | byte received, overrun, find header, drop, parse, dispatch | an undamaged frame is never lost, frames are handed over once and in order, and are served |
| BLE command channel (`app_ctrl.c:1217-1302, 2421-2592`) | `s_last_seq`, response ring of four, one context per forwarded command, busy flag of the record transfer | receive, repeat filter, handlers, SOC callbacks, time task | a response carries the number of its command; a repeated frame is not executed twice; a refusal stays true; BUSY passes |
| Device state (`app_ctrl.c:166-199` and the handlers) | `g_ctrlState`: power, work, volume, mode, strategy, recording | handlers that store before they forward, callbacks that store on OK, events of the SOC, the notice of every second | when nothing is under way the copy is what the SOC has; what the APP was told last is so too |
| Calm records (`app_ctrl.c:1050-1212, 2075, 2231`) | busy flag and number of the request; the SOC's records, the APP's entries | announce, get, one notification per entry, delete, the SOC's belief in a connection | no record is deleted unread; "there is none" is true; every record is read in the end |
| Status push (`app_ctrl.c:204-280`) | `s_pushed_status` | look once a second, STATUS_GET | the APP's display is the state |
| Reward switch (`app_ctrl.c:36-119, 1474-1507, 2379-2397`) | RAM, flash sector, the SOC's copy, repetitions left | set, factory reset, save (erase, write), load, heartbeat, repeat | flash and RAM agree; the SOC comes to agree |
| Ultrasound (`app_ultrasonic.c`, `app_ctrl.c:745-870, 2200-2340, 2370`) | stop timer, `g_sec`, the module's switches | emission event, test commands, time task | no emission outlasts ten seconds and one pass; every emission ends |
| Temperature guard (`app_adc_mon.c:184-208, 318-363, 414-517`) | window of samples, debounced socket, charge switch | sample, report, restart | a hot battery is not charged; charging resumes only when cool, and does |
| Battery gauge (`app_adc_mon.c:235-315, 466-487`) | percent, its rate limit, its flash copy, the BLE characteristic | report, rate limit, first report, power off, notification | the level moves by earned steps only, comes to rest where the voltage is, and so does the level the APP shows |
| Deep sleep and start (`app.c:168-430, 1060-1145`) | key automaton, hand-over flag, advertising, clock | key, low battery, connect, terminate, advertising gate, wake-up | a device told to sleep does, and is not connected again before; only a real press counts |
| BLE glue, OTA, key input, LED, start-up, tools | | | *not modelled*: vendor tables, code without memory, code nobody reads |

The APP, the SOC, the module, the battery and the BLE controller are outside the
repository. Each module gives them every behaviour the handlers and `docs/` allow, and
`PROJECT.json` marks their actions as external.

**What is hard.** The interrupt against the parser; answers that come after their
timeout, twice or never, against slots that were reused and a one-byte counter that
comes round; the APP repeating frames across answers, timeouts and
disconnections; commands that overlap in one shared context; values stored before the
SOC has accepted them; a loss of power between erase and write; a SOC that restarts
unseen; records deleted across losses, repeats and late answers; timers polled by a loop that a callback may restart; the deep-sleep handshake
with a peer that may hang up at any moment; a clock that comes round every 268 s. The
`hazards` of `PROJECT.json` list them line by line.

## 2. Modules

Time is counted in ticks; where the code stores a tick and compares it with
`clock_time()`, a module keeps the difference as an *age*. `LoopTicks` is the bound on
the time of one pass of the main loop, and `loopAge` enforces it: the clock may not
run on without the loop. Definitions keep the names of the functions they model.
Operators under a comment "Mutant" are faulty variants of the definition that
follows; no specification uses them.

| Module | Models | Correspondence |
|---|---|---|
| `OneShotRequest` | what the request table promises | `status[n]`: unsent, open, silent, answered, expired; each callback at most once |
| `OrderedLine` | what the receiver promises | frames numbered as sent, the set of the damaged ones, what was handed over; no frame is overtaken unless it is damaged |
| `PendingTable` | request table | `send_cmd_with_cb`, `send_frame`, `dispatch_rsp`, `cleanup`; `wire` is what the SOC may still answer; `id` names a request, the code does not have it. Implements `OneShotRequest` |
| `UartRx` | UART receiver | one action per access to the shared length and buffer: the interrupt may act between any two; the CRC is right when the bytes are the bytes of one frame; a byte that a move left behind in its old place is marked as a copy (history). Implements `OrderedLine` |
| `RespCache` | the ring of responses | `CacheSave`, `FirstCached`; used by the next two |
| `CtrlChannel` | BLE command channel | one action per frame of the APP (`onRx` with its whole handler), per callback, for the time task and for connections; each of the some 30 commands is an instance of one of five handler shapes (`volume_set`: forwarded; `reward_flag_get`: answered at once; `uid_get`: in two frames; `calm_record_get`: with a busy flag; unknown). The request table enters as its promise `OneShotRequest` |
| `CalmRecords` | the records' way from SOC to APP | the handlers and callbacks of the two record commands with the repeat filter and the cache, the announcement, the notice of the connection; APP (from `scripts/visializable.py`) and SOC (from `docs/`) are external |
| `DeviceState` | `g_ctrlState` | one action per handler and per callback; two lines in order, with losses; the SOC with its own state; what the APP was told, and shows of the music |
| `StatusPush` | status push | `app_ctrl_state_try_push_event`, the answer to STATUS_GET, connect and disconnect; a push may be lost |
| `RewardSwitch` | reward switch | save in two steps with a loss of power at any point, heartbeats, repetitions, restarts of both chips |
| `Ultrasonic` | emission | the event handler, the stop timer, the APP's test commands; commands to the module may be lost |
| `ChargeGuard` | temperature guard | temperatures are the four bands of the thresholds; a window's mean lies between its extremes |
| `BatteryGauge` | battery gauge | the gauge's share of a report, in units of reports; its copy in flash; the level characteristic with notifications that may be lost |
| `AdcMonitor` | `app_adc_mon_poll` | `ChargeGuard` and `BatteryGauge` composed: they share the report, the debounced socket and the start; the gauge clears the power flag the guard also clears |
| `AdcTables` | the two conversions | millivolts to percent and to degrees as the code computes them, against what they are to mean; `Sweep` steps through all the ADC delivers |
| `DeepSleep` | sleep and start | the main loop as phases *events, gate, pm*; key automaton, requests, controller |
| `*Proofs` | | theorems about the module they are named after; `AppUartProofs` is about `UartRx` and `PendingTable`, `DeviceStateProofs` also about `StatusPush`, `AdcMonitorProofs` also about its two parts and the tables |
| `MC*`, `CalmScenes` | | instances for TLC; the other modules are small enough to be checked as they are |

The modules meet at interfaces, not in one state space: `PendingTable` is replaced by
its proven promise in `CtrlChannel`, `CalmRecords`, `DeviceState` and `RewardSwitch`
(a request is answered once or is lost with its answer); `UartRx` implements `OrderedLine`, the
line that keeps its order and may lose which those take the UART for (a damaged frame or one
handed over before may come once more, section 5);
`DeviceState` and `ChargeGuard` are where the values of `StatusPush` come from.
`AdcMonitor` is a composition proper: its theorems say that each part, looked at by
itself, behaves as its module says, so what was proved of the part holds of the whole.
`MCDeviceState` extends three modules and sets them side by side: the settings, their push and the
records, and lets one of them move in a behaviour (`part`): in the code they
share `g_ctrlState` only, and the push takes its values as they come.

## 3. Runs

| Run | Checks | Shows |
|---|---|---|
| `pending` | `OwnAnswers`, `NoOverdueRequest`, `OneShot`, `RequestsClose` | late, repeated and missing answers, a full table and a counter that comes round never confuse two requests; the table implements the abstract one; all slots come back without the SOC's help |
| `uart` | `IntactIsKept`, `InOrderOnce`, `LineKeepsOrder`, `FrameIsServed` | noise that pretends to be a header, an overrun, a full buffer and the races with the interrupt cost no frame that was not itself hit; frames come in order and once, except for one made of nothing but copies (section 5), and none overtakes an intact one: the receiver implements `OrderedLine` |
| `channel` | `RecordAnswersOwn`, `EchoOwn`, `AtMostOnce`, `RefusedStaysRefused`, `BusyIsBrief` | see below |
| `state` | `SettingsTyped`, `VolumeFollows`, `RecordingIsThere`, `WorkFollows`, `ModeFollows`, `StrategyIsOfShownMode`, `MusicFollows` | once both lines are quiet, the copy of each field whose last word was heard is the SOC's, and so are the volume, the mode and the recording the APP was told last and the music it shows; what was deleted or reset is not named any more; the notice of every second makes the SOC work as the APP has switched, though commands were lost or refused or the SOC has restarted |
| | `DisplayFollows` | with at most one change a second the APP displays the state after every look, unless the last push was lost |
| | `DeletedWasRead`, `NoRecordsIsTrue`, `RecordsReachApp` | what the SOC deletes was read to the last entry; an APP told that there is no record was told so by the SOC; every record is read and deleted in the end |
| `reward` | `FlashHoldsSwitch`, `WrongSocIsTold`, `SocAgrees` | flash and RAM agree outside a save; the SOC's copy comes to agree though both chips restart and notifications are lost, but for the one frame after a SET or a reset that no repetition makes good (section 5) |
| `ultra` | `EmissionBounded`, `EmissionEnds` | no emission outlasts the limit and one pass; all end |
| `guard` | `HeatEndsCharge`, `ResumesOnlyCool`, `CoolResumes` | a hot battery is off within two reports, resumes only after a cool sample, and does |
| | `StepsAreEarned`, `LevelSettles` | each step of the percentage took a second of reports that asked for it; once voltage and socket rest the percentage, and the level an APP shows, come to rest too, though the clock comes round |
| | `TemperatureIsReached`, `ChargeIsRounded` | over every voltage the ADC delivers, the tables give the temperature that was reached and the percentage rounded to the steps of the table |
| `sleep` | `NoNewConnection`, `PressIsReal`, `SleepComes`, `LowBatterySleeps` | the handshake before deep sleep neither lets a peer in nor hangs |
| `channel_unanswered` | `RequestsAnswered` (violated) | the timeout tells the APP nothing |
| `records_none` | `NoneMeansNone` (violated) | a repeated request for a record is answered "there is none" |
| `push_quick` | `DisplayFollows` (violated) | a change taken back within a second stays on the display |
| `guard_power` | `BurningIsOff` (violated) | "forced power off" switches nothing off |

The types are checked in `state`, whose data is richest, and proved everywhere.

**Environments.** `CtrlChannel`, `DeviceState`, `CalmRecords` and `AdcMonitor` choose in
`Init` which APP (and which SOC, which faults) they have to do with, a record `env`, `scene`
or `use` that also holds the bounds; the properties
say for which of them they hold. `channel` has four: *AnyApp* repeats any of its last
two frames and sends again before the answer; *PatientApp* waits longer than a request
can take; *LastFrameApp* repeats its last frame across up to three connections and
disconnections; *AllFramesApp* uses all kinds of commands, payloads and bad frames.
`RecordAnswersOwn` and `BusyIsBrief` hold of all, `EchoOwn` only of the patient one (the
code keeps one context per command), `AtMostOnce` and `RefusedStaysRefused` of those
that repeat the last frame only (the code remembers one number). `state` has seven
for the settings: volume, recordings, work and power, the same with a SOC that restarts, modes
and strategies, music, playing and time; `ModeFollows` and `StrategyIsOfShownMode` ask for
an APP that waits and a SOC that does not refuse. `known` holds the fields whose last word was heard:
a loss strikes those the lost message was about, a restart of the SOC those whose answers were under way,
a strategy found malformed after half of it was stored strikes mode and strategy, a POWER_CTRL that was
not sent, was refused or came on in a session strikes the work state, and an OK or an event that comes while
no APP is connected what it tells of the music. In the music environment the APP may be away at any answer or event.
About the SOC `DeviceState` assumes what `docs/ctrl_service_doc.md` says of it: it reports changes of its work
state, and POWER_CTRL on changes nothing in a SOC that is on; it takes the mode of a strategy it accepts and keeps the volume on a
factory reset. A recording that is not too short is a temporary one until REC_SAVE moves it (`:407`) or the next one begins;
REC_DELETE stops it and deletes it and the saved one (`:479`), and so does a factory reset; a REC_STOP that finds
nothing running gives the last result again. The APP of `DeviceState` repeats no frame (that is the matter of
`CtrlChannel`). The records have three scenes: *patient* (counts
the entries, leaves a request its time; losses on every way, restarts of the SOC), *hasty*
(goes by the last entry as the tool does, gives up early, is turned down; nothing is lost) and
*repeating* (counts, repeats its frames, records too long for a UART frame, losses and errors).
`DeletedWasRead` holds of an APP that counts, whatever else, and of one that goes by the last
entry if nothing is lost and it repeats nothing. `guard` has four uses: heat and a loose sensor,
the level with an APP, power that is switched on and ended again, and a sweep of the tables.

**Bounds, and why they are enough.** Tables and timeouts shrink together: what matters
is which happens first, not how long it takes.
- `pending`: two slots and a counter of three values, so that it comes round within the
  five numbers drawn, with requests refused because the table is full; timeout and loop of one
  tick, answers up to two ticks late, later than the timeout. `NoWrapAssumption` (numbers drawn during the longest
  wait fit the counter) is the condition under which the code is right: 256 numbers in 3 s and a pass.
- `uart`: frames of five bytes, the least there are (ten in the code), of which the last may look like the
  first sync byte; noise of both sync bytes and the version byte, which as a length asks for a payload of one; a
  buffer of eleven, in which two frames fit and a false header can ask for more than has come. Up to three
  frames, or two and two bytes of noise, or one and four (`MaxSent`); one overrun; a move counts in any number of the
  bytes that come while it runs, so that a frame of copies can arise.
- `channel`: three sequence numbers starting anywhere (so also at the initial
  `s_last_seq`), three commands in three frames, a ring and a table of two, timeouts of one tick.
- `state`, settings: two values per setting, recordings of one length below three seconds and two above, so that one may be taken for another; table of
  two, three or four commands, up to three events and one loss. Push: five changes and three connection
  changes over all work states and two settings. Records: two, of lengths below and above
  what a frame takes (3), a ring of two, up to fourteen frames of the APP, two faults, three
  connections and disconnections: enough to fail inside the recovery from another failure.
- `reward`: window of two of which one repetition may be lost, the frame after a SET or a reset lost at will, heartbeat timeout of two, restart of four, three
  commands and three faults, enough for a fault inside the recovery from another.
- `ultra`: durations of zero, below, at and past the limit, unknown profiles on either side of the known ones, seven requests.
- `guard`: three samples a report, debouncing of two, so that the socket and the window
  never fall together; one restart; any change of the world between samples. Percentages 0 to 3
  with 1 in the place of 50 and of 5, steps of two reports, a round of the clock of three reports of which
  the first is not stable: a step falls before, into and after the gap. The sweep takes each of the 3300 voltages.
- `sleep`: delays ordered as in the code (debounce < key < SOC wait < low battery < round of the
  clock); unbounded otherwise.

**Fairness.** The main loop goes round (no handler blocks) and the clock runs: weak
fairness of the loop's steps and of `Tick`, in `guard` of `monitor_poll` and the level's update.
Beyond that: a save that has begun goes on
(`RewardSwitch`); a SOC that is up is heard of now and then, strong fairness of
`heartbeat` (it sends one every two seconds, single ones may be lost); the controller ends a connection it
was told to end, strong fairness of `task_terminate` then (the supervision timeout).
Only `RecordsReachApp` assumes something of the others: an APP that has something to do does it
or gives up, and the SOC announces and answers as `docs/ctrl_service_doc.md` says, each with weak fairness;
what it promises ends when the APP leaves, and losses and restarts stay free.

**Deadlock** is checked in every run that expects no violation but in `uart`, where the line may go silent, and `state`,
where the APP may.

## 4. Proofs

All proofs hold for every value of the constants under the named assumptions (which
TLC evaluates in the runs; for the three modules of `MCDeviceState` they are an operator,
`DeviceConstants`, `PushConstants`, `RecordsConstants`, that the theorem assumes and `MCDeviceState` evaluates). Sizes and times are naturals; the ones that say more:
a frame fits into the buffer (`UartRx`); a volume is a percentage, and no recording lasts 0 s (`DeviceState`);
`NoWrapAssumption` (`PendingTable`); debouncing not longer than a report (`ChargeGuard`);
in the statement of `DisplayIsRight`, `Slow`; in that of `SocIsTold`, a restart of the SOC longer
than heartbeat timeout and pass, and fewer repetitions lost in a window than it has; how many of the frames after a SET
or a reset are lost is free.

| Theorem | States | Argument |
|---|---|---|
| `AppUartProofs!TypeCorrect, Invariant, KeysAreUnique, AnswersAreOwn, NothingOverdue` | keys unique, answers own, nothing overdue | inductive `IInv`: types; ages bounded by the loop; every entry and every possible answer was drawn so recently that fewer than `SeqMod` numbers lie between (counted through ages and bursts, as the state does not hold the distance); waiting, silent and called numbers lie apart; answers own. `OwnAnswers` alone is not inductive: that the linear search meets the right slot needs the distances |
| `AppUartProofs!TableImplementsOneShot` | the table refines `OneShotRequest` | under `IInv`, each action moves the status of one number, or of those that expired, or none |
| `AppUartProofs!RxIsTyped, RxInvariant, FramesComeInOrderOnce` | the receiver: types, order | `OrderInv`: copies lie behind their originals, so a byte in its own place was sent later than everything in front of it; `SentInv`, `FitInv`: what lies in the buffer was sent, and no byte beyond the length its header tells; `HandedInv`: no byte in its own place belongs to a frame handed over or to one before it, but those about to be dropped; `DropInv`: what the task remembers of the buffer while it drops, after a reset in between as well |
| `AppUartProofs!IntactFramesAreKept` | no intact frame is lost | `KeptInv`: a frame sent, or as much of it as was sent, was hit, was handed over, or lies in one piece and beyond what is being dropped (`Held`). Each of the steps of the parser gets one lemma: a search for S1 S2 stops at a held frame at the latest, what is too short or does not check does not begin with one, a move takes one along whole or hits it |
| `AppUartProofs!ReceiverIsOrderedLine` | the receiver refines `OrderedLine` | a frame that is held has its bytes in their own place, so by `OrderInv` it lies behind the one handed over, and is later; by `KeptInv` every earlier frame was hit or handed over (`HeldIsLater`). The same holds of the frame itself if all its bytes are copies. `HitInv`: only what was sent is hit |
| `CtrlChannelProofs!TypeCorrect, BusyPasses` | types; BUSY is brief | `Aged`: the flag's age is bounded through the place of the main loop, as it is looked at once a pass |
| `CtrlChannelProofs!CarriedOutOnce, NotDoneAfterAll` | the filter on the last number | `LastRemembered`: the last number is always the last request's, so a repeat of it never reaches a handler; `OneEntry`, `AllHonest`: hence no request has two entries, and no refused one has any, in what was sent and in what the ring may still resend |
| `CtrlChannelProofs!RecordIsForAsker` | the context of `CALM_RECORD_GET` | `Context`: of the waiting requests at most one can still be answered, the others are overdue with the cleanup ahead; the context is its own, and no older than it, so flag and slot fall together; `AllOwn` carries it over to the ring |
| `CtrlChannelProofs!EchoesItsAsker` | the shared contexts, for a patient APP | `Contexts`: of the waiting requests of a command one at most is not overdue; it is unanswered, the APP has waited for it no longer than the table, and the context is its own. So an APP that may ask again finds only overdue ones, which the cleanup takes before the parser. `AllTelling` carries it over to what is sent and to the ring, which in turn tells `Contexts` that a resent frame never answers a waiting request |
| `UltrasonicProofs!TypeCorrect, TimerKeepsLimit, EmissionsAreTimed, EmissionIsBounded` | emissions are bounded | a timer is never overdue by more than `loopAge`; an emission has a timer at least as old as itself (`EmissionTimed`); together the bound |
| `RewardSwitchProofs!TypeCorrect, FlashIsRight, SocIsTold` | the switch and its copies | `HeardOf`: a SOC that restarts cannot come back before the MCU has noticed its silence; `WindowGoesOn`: unless the SOC missed the frame after a SET or a reset, it is right, or the MCU has yet to open a window, or more repetitions are left than may still be lost |
| `DeviceStateProofs!SettingsAreTyped, VolumeIsTheSocs, RecordingIsTheSocs, WorkIsTheSocs, MusicIsTheSocs` | the copy is the SOC's | one invariant per field: of the messages on the line that name the field, each that no newer word follows holds the SOC's value (`LastIn`), and what the MCU holds is right unless a newer word is under way (`NoneIn`). `VolumeFollows` and its like say nothing of a busy line, so none of them is inductive. For work and power the notices on the other line count as well. The work state in the copy is the SOC's or the one a POWER_CTRL still on its way presumes (`WorkPresumed`); what the copy says of the recordings fits the SOC while it records nothing (`Fits`), for which a temporary recording that is no longer there must have been saved, unless another is being made (`Sane`) |
| `DeviceStateProofs!ModeIsTheSocs, StrategyIsTheSocs` | mode and strategy, for an APP that waits and a SOC that refuses nothing | `ModeInv`: the one request under way, wherever it or its answer is, leads to the mode stored beforehand |
| `DeviceStateProofs!PushIsTyped, DisplayIsRight` | the display | `DisplayInv`: unless a push was lost the display shows the last snapshot or the state itself, and with one change a second never an older one |
| `CalmRecordsProofs!TypeCorrect, DeletedAreRead` | no record is deleted unread | `RecordsInv`: whatever is on its way or in the ring is about a record that was made, and numbers are unique, so what the APP gathers is of one record (`Gathers`); a request to delete, wherever it is, is for a record heard to the last entry (`RequestsKnown`). An APP that goes by the last entry hears a response whole, and asks under a number newer than `s_last_seq`, so it is never answered from the ring |
| `CalmRecordsProofs!NoneIsTrue` | "there is none" is true | `EmptyInv`: at most one request for a record is under way and the busy flag stands as long as it is; the number in the context is the APP's last one or older; while the flag stands, an empty store has been seen since the APP asked |
| `AdcMonitorProofs!TypeCorrect, HeatNeverChargesLong, ResumeNeedsCool` | the guard | `GuardInv`: the counters of hot samples against the window (`Counted`), the socket (`Debounced`) and the switch one report on (`Ended`) |
| `AdcMonitorProofs!ImplementsGuard, ImplementsGauge, MonitorEndsHeat` | each half of `app_adc_mon_poll` implements its module | every step of the whole is a step of the part or leaves its variables alone; the guard's theorem then holds of the whole |
| `AdcMonitorProofs!GaugeTypes, EveryStepIsEarned` | the gauge | the time gathered towards a step is the length of the current row of reports that asked for it, under one charger |
| `AdcMonitorProofs!DegreesAreReached, PercentFollows` | the two tables | the rows fall, so a value between the ends lies between exactly one pair of them, the first that fits (`PairIsFirst`, from the least number of a set); the quotient stays between its rows (`Division`, `PercentWithinRow`), so the ends of neighbouring pairs meet and the order is kept (`PercentKeepsOrder`) |
| `DeepSleepProofs!HangsUpForGood, TypeCorrect` | nobody connects before sleep; types | `HandshakeInv`: while the hand-over runs the radio only goes from connected to off |
| `DeepSleepProofs!PressesAreReal` | a press was held for the whole time of debouncing | `KeyInv`: while the key is debounced the samples keep up with the time, as a pass that takes none puts the chip to sleep |

Model-checked only: all liveness (`RequestsClose`, `FrameIsServed`, `EmissionEnds`,
`SocAgrees`, `CoolResumes`, `LevelSettles`, `SleepComes`, `LowBatterySleeps`,
`RecordsReachApp`), because TLAPS has neither
`ENABLED` nor fairness. Every other property of a passing run is a theorem.

## 5. What disagrees

Shown by a run:
- `channel_unanswered`: a request that times out is forgotten (`app_uart.c:222`), the
  APP gets no SOC_TIMEOUT, against `docs/ctrl_service_doc.md:72`.
- `records_none`: a request for a record that comes again before the SOC has answered gets a
  plain OK (`app_ctrl.c:2466`), which means "there is no record" (`docs/ctrl_service_doc.md:616`).
- `push_quick`: the push compares with the last push (`app_ctrl.c:260`), not with what
  STATUS_GET has told since.
- `guard_power`: above 70 degrees only a flag nobody acts on is cleared (`app_adc_mon.c:351`).

Met while modelling; the models follow the code, and the properties name the condition:
- The frame that tells the SOC of a SET or a reset of the reward switch is sent once and not acknowledged
  (`app_ctrl.c:201-206, 621, 1487`). Lost outside the window after the SOC came up, or when the rest of the window is lost
  too, it leaves the SOC with the old value until the next SET or restart of either.
- POWER_CTRL on is accepted during a session and stores work state 1 (`app_ctrl.c:1387-1404`), though the SOC goes on
  with 3 and so reports no change: STATUS_GET puts it right, or the end of the session; until then the push tells 1. A
  refused POWER_CTRL, or one that finds the table full, leaves the presumed state in the same way.
- Answers to music commands, like everything `app_ctrl_send` is given while no APP is connected (`1290`), are told to nobody: an APP that
  comes back does not know whether its last command was carried out.
- The receive length is read twice around `memmove` (`app_uart.c:49-50`): bytes that come in between are counted, and in
  their places lies what was there before the move, so a frame can be handed over a second time if all its bytes are such
  copies. `InOrderOnce` does not hold of these: TLC finds one with three frames in a buffer of fifteen. It takes a whole frame
  that comes in during moves; at 9600 baud (`330`) a byte takes a millisecond and a move far less.
- One context per forwarded command: a second request before the first answer makes the
  first answer carry the second number (`app_ctrl.c:282-315, 1522`).
- The first command, if its number is 0xFF, is taken for a repeat and answered OK
  without being handled; so is a repeat while the SOC is still at work (`app_ctrl.c:2458-2467`).
- Only the last number is compared: an older frame repeated is executed again although its
  answer is cached (`app_ctrl.c:2459`). A repeat brings one frame of an answer of several (`1239`).
- An emission event of an unknown profile changes the timer of the running emission, past the limit (`app_ctrl.c:759`).
- Setting the reward switch to the value it has erases and rewrites the sector (`app_ctrl.c:1485`); power lost in between leaves the switch off.
- A SOC that restarts faster than 7 s is not noticed and not told the switch (`app_ctrl.c:114`).
- CALM_MODE_SET is stored before the SOC accepts and kept when it refuses (`app_ctrl.c:1811`); with two under way the first answer names neither mode (`948`).
- One stored ultrasound order for two strategies: CALM_MODE_GET may pair a mode with the order of the other (`app_ctrl.c:1016`).
- After an error of the SOC, REC_INFO_GET (`app_ctrl.c:409`) and CALM_STRATEGY_GET (`989`, with mode 0) answer OK from the copy; the former then tells of an unsaved recording (`505`). A refused POWER_CTRL is answered with 0 while the MCU stays on (`1345`).
- A restart between 41 and 50 degrees resumes charging (`app_adc_mon.c:406`).
- Each round of the clock suspends the key for its first 5 s (`app.c:396`).
- Five seconds after every start the percentage is set to 50, whatever the voltage, and saved (`app_adc_mon.c:474`);
  the branch that would show the voltage until then (`490`) is never taken, as its flag is set at every start (`385`).
- The header says that the NTC has a pull-up of 1 kOhm (`app_adc_mon.c:13`), the computation is that of 10 kOhm.
  Readings are whole degrees rounded down, so "above 50" begins at 51 (`348-363`).
- `g_app_power_on` is cleared by heat and by an empty battery that charges (`app_adc_mon.c:351, 486`); nobody switches anything off for it.
- A comment has a connecting APP told of records by `task_connect` (`app_ctrl.c:2075`), which does not do it
  (`app.c:168-182`); the SOC's repeated announcement covers it (`docs/ctrl_service_doc.md:1234`).
- The tool `scripts/visializable.py` takes a record for complete when it has the last entry, and so deletes one
  of which an entry was lost on the air.
- When music ends while no APP is connected the next one is not told (`app_ctrl.c:861`).
- The LED's table (`app_ui.c:41-45`) and what the code below it shows differ.
- While a session runs the charger counts as absent (`app_adc_mon.c:550`), also for the low-battery request (`app.c:411`).

## 6. Not modelled

- A reset of the receive buffer by the interrupt *during* `memmove` (`app_uart.c:50`): the length
  wraps below zero; what follows depends on the build.
- The bytes of answers, strategies and records: payloads are members of small sets. The snack event keeps no
  state and is only logged.
- That two of the parts of section 2 that share no variable act in one behaviour: the
  interfaces named there are where they meet.
- BLE tables, OTA, flash protection (`app_att.c`, `app.c`): what the vendor's stack delivers enters as
  frames, connections and disconnections. LED (`app_ui.c`): a function of battery and charger without memory but a
  blink flag. Key input (`app_input.c`) that nobody reads. Start-up code, pin tables, compiler helpers, tools.

## 7. Plan

Done: the request table with refinement and proofs first, as everything else rests on
it; then the channel, the state, the receiver and the independent components; then the
battery gauge and its composition with the guard, the records from the SOC's store to the
APP's display, and the rest of the device state (power, music, playing, notices);
then the proofs of the device state, of the receiver as a line that keeps its order, and of the tables.

What is left:
1. A composition of `PendingTable` with the contexts of the channel in place of the abstract
   table.
2. The APP's retry rule with the records' busy answer, in one module with the time that passes.
