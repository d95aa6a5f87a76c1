----------------------------- MODULE DeviceState -----------------------------
(***************************************************************************)
(* g_ctrlState, the MCU's copy of the SOC's settings, and what the APP is  *)
(* told of them.  Some handlers change the copy when they forward the      *)
(* command, some callbacks when the SOC answers, and events of the SOC     *)
(* change it on their own; requests, answers and events travel in order    *)
(* on two UART lines and may be lost (a request that times out counts as   *)
(* lost with its answer: OneShotRequest, PendingTable).                    *)
(*                                                                         *)
(* The SOC is outside the firmware (docs/ctrl_service_doc.md).  It handles *)
(* one request at a time, may refuse one, reports every change of its own  *)
(* work state, takes the mode of a strategy it accepts and keeps one       *)
(* strategy per mode.  A recording, unless it is too short, is a temporary *)
(* one until REC_SAVE moves it or the next one begins; REC_DELETE and      *)
(* FACTORY_RESET end it and delete both; a REC_STOP that finds no          *)
(* recording running gives the result of the most recent one again.  The   *)
(* SOC tells when its music has come to the end, not when it was stopped.  *)
(*                                                                         *)
(* "env" says which APP, which SOC and which bounds a behaviour has, one   *)
(* of the records of Envs:                                                 *)
(*   used       the commands the APP sends                                 *)
(*   volumes    the volumes it sets                                        *)
(*   orders     the measure and ultrasound orders of its strategies        *)
(*   pipelined  it sends a command before it has the last answer           *)
(*   malformed  it sends strategies with a bad ultrasound part             *)
(*   refusals   the SOC refuses commands                                   *)
(*   away       the APP may be away when an answer or an event comes; it   *)
(*              gets neither then nor later                                *)
(*   notices    the SOC may restart, and the MCU's notice of every second, *)
(*              with the link and the power, is sent (a free action; it    *)
(*              takes no slot)                                             *)
(*   maxCmds, maxEvents, maxLosses  how many commands, changes of the SOC  *)
(*              on its own and losses there are                            *)
(***************************************************************************)
EXTENDS Naturals, Sequences, FiniteSets

CONSTANTS
    Volumes,     \* the volumes; the first value of both sides is one too
    Orders,      \* the measure orders and ultrasound orders of a strategy
    Durations,   \* how long recordings are, in seconds
    MinDuration, \* 3: a shorter recording does not count
    PendingMax,  \* APP_UART_PENDING_MAX
    Envs         \* the environments, see above

\* What the constants may be; a module that uses this one assumes it.
DeviceConstants ==
    /\ Volumes \subseteq 0..100 /\ 0 \notin Durations /\ Orders # {}
    /\ MinDuration \in Nat \ {0} /\ Durations \subseteq Nat /\ PendingMax \in Nat
    /\ \A e \in Envs :
         /\ e.volumes \subseteq Volumes /\ e.orders \subseteq Orders
         /\ {e.pipelined, e.malformed, e.refusals, e.away, e.notices}
               \subseteq BOOLEAN
         /\ {e.maxCmds, e.maxEvents, e.maxLosses} \subseteq Nat

Modes == 0..1
Pieces == 0..1       \* of music
Query == 2           \* CALM_MUSIC_SELECT without an index
Monitoring == 1
Calming == 3
NoOrder == 0         \* an ultrasound part that is not stored
Default == CHOOSE o \in Orders : TRUE
DefaultStrategy == [measures |-> Default, us |-> Default]
Strategies(orders) == [measures : orders, us : orders]
Recording == {0} \cup Durations

VARIABLES
    g_ctrlState,   \* the MCU's copy; rec is ownerVoiceExist and ..Duration
    shownMode,     \* history: whose strategy measures and us are
    known,         \* history: what the SOC's last word on was heard
    toSoc, fromSoc,
    soc,           \* the SOC's own state
    told,          \* the last answer to the APP
    display,       \* what the APP shows of the music
    cmds, events, losses,
    env

deviceVars == <<g_ctrlState, shownMode, known, toSoc, fromSoc, soc, told,
                display, cmds, events, losses, env>>

Rec(d) == [exist |-> IF d >= MinDuration THEN 1 ELSE 0, duration |-> d]

\* The initializer of g_ctrlState; the SOC has settings of its own.
DeviceInit ==
    /\ env \in Envs
    /\ \E v \in env.volumes :
         g_ctrlState = [power |-> 0, work |-> 0, volume |-> v, mode |-> 0,
                        measures |-> Default, us |-> Default,
                        rec |-> Rec(0)]
    /\ shownMode = 0 /\ known = {}
    /\ toSoc = <<>> /\ fromSoc = <<>> /\ told = [cmd |-> "none"]
    /\ soc \in [work : {0}, volume : env.volumes, mode : Modes,
                strategy : {[m \in Modes |-> DefaultStrategy]},
                recording : {FALSE}, unsaved : {FALSE}, latest : {0},
                saved : {0},
                music : IF "MUSIC_SELECT" \in env.used THEN Pieces ELSE {0},
                playing : {FALSE}]
    /\ display = [music |-> 0, playing |-> FALSE]
    /\ cmds = 0 /\ events = 0 /\ losses = 0

---------------------------------------------------------------------------
\* Commands of the APP.  Each handler has checked that the SOC is online.

IsRsp(m) == m.kind = "rsp"
IsRequest(r) == r.cmd # "LINK_NOTIFY"
InFlight == Cardinality({k \in DOMAIN toSoc : IsRequest(toSoc[k])})
            + Cardinality({k \in DOMAIN fromSoc : IsRsp(fromSoc[k])})

Command(cmd) ==
    /\ cmd \in env.used /\ cmds < env.maxCmds /\ cmds' = cmds + 1
    /\ env.pipelined \/ (toSoc = <<>> /\ fromSoc = <<>>)
    /\ UNCHANGED display

\* Mutant: the table has no end.
SendToSoc_endless(cmd, arg, presumed) ==
    /\ known' = known \ presumed
    /\ toSoc' = Append(toSoc, [cmd |-> cmd, arg |-> arg])
    /\ UNCHANGED <<told, fromSoc, soc, events, losses, env>>

\* app_uart_send_cmd_with_cb, whose failure (the table is full) is answered
\* with SOC_TIMEOUT; what a handler presumed and stored before it stays.
SendToSoc(cmd, arg, presumed) ==
    /\ known' = known \ presumed
    /\ \/ /\ InFlight < PendingMax
          /\ toSoc' = Append(toSoc, [cmd |-> cmd, arg |-> arg])
          /\ UNCHANGED told
       \/ /\ InFlight >= PendingMax
          /\ told' = [cmd |-> cmd, st |-> "timeout"]
          /\ UNCHANGED toSoc
    /\ UNCHANGED <<fromSoc, soc, events, losses, env>>

\* Commands that change nothing before the SOC answers
Ask(cmd) == /\ Command(cmd)
            /\ SendToSoc(cmd, 0, {})
            /\ UNCHANGED <<g_ctrlState, shownMode>>

handle_status_get == Ask("STATUS_GET")
handle_volume_get == Ask("VOLUME_GET")
handle_calm_mode_get == Ask("CALM_MODE_GET")
handle_rec_start == Ask("REC_START")
handle_rec_stop == Ask("REC_STOP")
handle_rec_save == Ask("REC_SAVE")
handle_rec_delete == Ask("REC_DELETE")
handle_rec_info_get == Ask("REC_INFO_GET")
handle_factory_reset == Ask("FACTORY_RESET")
handle_rec_play_stop == Ask("REC_PLAY_STOP")
handle_music_play == Ask("MUSIC_PLAY")
handle_music_play_stop == Ask("MUSIC_PLAY_STOP")

\* The time is kept as well (g_timeCache), but nothing reads it.
handle_time_set == Ask("TIME_SET")

\* The saved recording (source 0) or the latest one (source 1)
handle_rec_play(source) ==
    /\ Command("REC_PLAY")
    /\ SendToSoc("REC_PLAY", source, {})
    /\ UNCHANGED <<g_ctrlState, shownMode>>

handle_music_select(index) ==
    /\ Command("MUSIC_SELECT")
    /\ SendToSoc("MUSIC_SELECT", index, {})
    /\ UNCHANGED <<g_ctrlState, shownMode>>

\* Mutant: the volume is stored before the SOC has it, as the mode is.
handle_volume_set_at_once(v) ==
    /\ Command("VOLUME_SET")
    /\ SendToSoc("VOLUME_SET", v, {})
    /\ g_ctrlState' = [g_ctrlState EXCEPT !.volume = v]
    /\ UNCHANGED shownMode

handle_volume_set(v) ==
    /\ Command("VOLUME_SET")
    /\ SendToSoc("VOLUME_SET", v, {})
    /\ UNCHANGED <<g_ctrlState, shownMode>>

Presumed(on) == IF on = 1 THEN Monitoring ELSE 0

\* Whatever the SOC does at the time, its work state is presumed; the event of
\* the change, if there is one, will tell.
handle_power_ctrl(on) ==
    /\ Command("POWER_CTRL")
    /\ g_ctrlState' = [g_ctrlState EXCEPT !.power = on, !.work = Presumed(on)]
    /\ SendToSoc("POWER_CTRL", on,
                 IF InFlight >= PendingMax THEN {"work", "power"} ELSE {"power"})
    /\ UNCHANGED shownMode

handle_calm_mode_set(m) ==
    /\ Command("CALM_MODE_SET")
    /\ g_ctrlState' = [g_ctrlState EXCEPT !.mode = m]
    /\ SendToSoc("CALM_MODE_SET", m, {"mode"})
    /\ UNCHANGED shownMode

handle_calm_strategy_set(m, s) ==
    /\ Command("STRATEGY_SET")
    /\ g_ctrlState' = [g_ctrlState EXCEPT !.mode = m, !.measures = s.measures,
                                          !.us = s.us]
    /\ shownMode' = m
    /\ SendToSoc("STRATEGY_SET", [mode |-> m, s |-> s], {"mode", "strategy"})

\* A bad ultrasound part is found after the rest was stored (line 1910).
handle_calm_strategy_bad(m, s) ==
    /\ env.malformed /\ Command("STRATEGY_SET")
    /\ g_ctrlState' = [g_ctrlState EXCEPT !.mode = m, !.measures = s.measures]
    /\ told' = [cmd |-> "STRATEGY_SET", st |-> "param"]
    /\ known' = known \ {"mode", "strategy"}
    /\ UNCHANGED <<shownMode, toSoc, fromSoc, soc, events, losses, env>>

handle_calm_strategy_get(m) ==
    /\ Command("STRATEGY_GET")
    /\ SendToSoc("STRATEGY_GET", m, {})
    /\ UNCHANGED <<g_ctrlState, shownMode>>

\* The notice of every second (app_ctrl_time_task), gone before the next.  "at"
\* is history: how many commands came before it.
link_notify_power ==
    /\ env.notices /\ \A k \in DOMAIN toSoc : IsRequest(toSoc[k])
    /\ toSoc' = Append(toSoc, [cmd |-> "LINK_NOTIFY", arg |-> g_ctrlState.power,
                               at |-> cmds])
    /\ UNCHANGED <<g_ctrlState, shownMode, known, fromSoc, soc, told, display,
                   cmds, events, losses, env>>

---------------------------------------------------------------------------
\* The SOC

Event == events < env.maxEvents /\ events' = events + 1

WorkEvent(s) == IF s.work = soc.work THEN <<>>
                ELSE <<[kind |-> "work", soc |-> s]>>

AnswerTo(r, st, s) ==
    <<[kind |-> "rsp", cmd |-> r.cmd, arg |-> r.arg, st |-> st, soc |-> s]>>

\* The recording of d seconds ends; the temporary one is moved; all are deleted.
Stopped(d) == [soc EXCEPT !.recording = FALSE, !.latest = d,
                          !.unsaved = d >= MinDuration]
Saved == [soc EXCEPT !.saved = soc.latest, !.unsaved = FALSE]
Deleted == [soc EXCEPT !.recording = FALSE, !.unsaved = FALSE, !.latest = 0,
                       !.saved = 0]

\* What the SOC may do with an accepted request
Accepted(r) ==
    CASE r.cmd \in {"POWER_CTRL", "LINK_NOTIFY"} ->
            {[soc EXCEPT !.work = IF r.arg = 0 THEN 0
                                  ELSE IF @ = 0 THEN Monitoring ELSE @]}
      [] r.cmd = "VOLUME_SET" -> {[soc EXCEPT !.volume = r.arg]}
      [] r.cmd = "CALM_MODE_SET" -> {[soc EXCEPT !.mode = r.arg]}
      [] r.cmd = "STRATEGY_SET" ->
            {[soc EXCEPT !.mode = r.arg.mode, !.strategy[r.arg.mode] = r.arg.s]}
      [] r.cmd = "REC_START" ->
            {[soc EXCEPT !.recording = TRUE, !.unsaved = FALSE]}
      [] r.cmd = "REC_STOP" ->
            IF soc.recording THEN {Stopped(d) : d \in Durations} ELSE {soc}
      [] r.cmd = "REC_SAVE" -> IF soc.unsaved THEN {Saved} ELSE {}
      [] r.cmd = "REC_DELETE" -> {Deleted}
      [] r.cmd = "REC_PLAY" ->
            {s \in {soc} : IF r.arg = 0 THEN s.saved # 0 ELSE s.unsaved}
      [] r.cmd = "MUSIC_PLAY" -> {[soc EXCEPT !.playing = TRUE]}
      [] r.cmd = "MUSIC_PLAY_STOP" -> {[soc EXCEPT !.playing = FALSE]}
      [] r.cmd = "MUSIC_SELECT" /\ r.arg # Query ->
            {[soc EXCEPT !.music = r.arg, !.playing = FALSE]}
      [] r.cmd = "FACTORY_RESET" ->
            {[Deleted EXCEPT !.mode = 0,
                             !.strategy = [m \in Modes |-> DefaultStrategy]]}
      [] OTHER -> {soc}

StatusOf(r, s) == IF r.cmd = "REC_STOP" /\ s.latest < MinDuration
                  THEN "short" ELSE "ok"

\* A notice switches as POWER_CTRL does and is not answered; it has settled the
\* power if no command was sent since.
SocHearsNotice ==
    /\ toSoc # <<>> /\ ~IsRequest(Head(toSoc))
    /\ toSoc' = Tail(toSoc)
    /\ soc' \in Accepted(Head(toSoc))
    /\ fromSoc' = fromSoc \o WorkEvent(soc')
    /\ known' = known \cup (IF Head(toSoc).at = cmds THEN {"power"} ELSE {})
    /\ UNCHANGED <<g_ctrlState, shownMode, told, display, cmds, events, losses,
                   env>>

\* What the MCU or the APP cannot be sure of when a request, an answer or an event is lost
Doubt(cmd) ==
    CASE cmd = "POWER_CTRL" -> {"work", "power"}
      [] cmd = "VOLUME_SET" -> {"volume"}
      [] cmd = "CALM_MODE_SET" -> {"mode"}
      [] cmd = "STRATEGY_SET" -> {"mode", "strategy"}
      [] cmd \in {"REC_START", "REC_STOP", "REC_SAVE", "REC_DELETE"} -> {"rec"}
      [] cmd = "FACTORY_RESET" -> {"mode", "strategy", "rec"}
      [] cmd = "MUSIC_SELECT" -> {"music", "playing"}
      [] cmd \in {"MUSIC_PLAY", "MUSIC_PLAY_STOP"} -> {"playing"}
      [] OTHER -> {}

DoubtOfAnswer(m) == IF IsRsp(m) THEN Doubt(m.cmd) ELSE {m.kind}

\* The SOC starts again, keeps its settings and has forgotten what it did; what
\* was under way is lost.
SocStartsAgain ==
    /\ env.notices /\ Event
    /\ soc' = [soc EXCEPT !.work = 0, !.recording = FALSE, !.unsaved = FALSE,
                          !.latest = 0, !.playing = FALSE]
    /\ known' = (known \ {"work", "power", "rec", "playing"})
                 \ ((UNION {Doubt(toSoc[k].cmd) : k \in DOMAIN toSoc})
                    \cup (UNION {DoubtOfAnswer(fromSoc[k]) : k \in DOMAIN fromSoc}))
    /\ toSoc' = <<>> /\ fromSoc' = <<>>
    /\ UNCHANGED <<g_ctrlState, shownMode, told, display, cmds, losses, env>>

\* No event follows a POWER_CTRL that is refused, nor one that switches the SOC
\* on in a session: the presumed work state stays though it is not the SOC's.
Misjudged(r, refused) ==
    IF r.cmd = "POWER_CTRL" /\ (refused \/ (r.arg = 1 /\ soc.work = Calming))
    THEN {"work"} ELSE {}

SocCarriesOut ==
    /\ toSoc # <<>> /\ IsRequest(Head(toSoc))
    /\ toSoc' = Tail(toSoc)
    /\ LET r == Head(toSoc) IN
       \/ /\ known' = known \ Misjudged(r, FALSE)
          /\ \E s \in Accepted(r) :
               /\ soc' = s
               /\ fromSoc' = fromSoc \o AnswerTo(r, StatusOf(r, s), s) \o WorkEvent(s)
       \/ /\ env.refusals \/ Accepted(r) = {}
          /\ known' = known \ Misjudged(r, TRUE)
          /\ soc' = soc /\ fromSoc' = fromSoc \o AnswerTo(r, "refused", soc)
    /\ UNCHANGED <<g_ctrlState, shownMode, told, display, cmds, events, losses, env>>

\* A session begins or ends, with an event of its own besides the work state;
\* a recording reaches its longest; the music comes to its end.
SocWorks ==
    /\ Event /\ soc.work # 0
    /\ soc' = [soc EXCEPT !.work = IF @ = Calming THEN Monitoring
                                   ELSE Calming]
    /\ fromSoc' = fromSoc \o WorkEvent(soc') \o <<[kind |-> "session"]>>
    /\ UNCHANGED <<g_ctrlState, shownMode, known, toSoc, told, display, cmds,
                   losses, env>>

SocAutoStops ==
    /\ Event /\ soc.recording
    /\ \E d \in Durations : soc' = Stopped(d)
    /\ fromSoc' = Append(fromSoc, [kind |-> "rec", soc |-> soc',
                                   st |-> IF soc'.latest < MinDuration
                                          THEN "short" ELSE "ok"])
    /\ UNCHANGED <<g_ctrlState, shownMode, known, toSoc, told, display, cmds,
                   losses, env>>

SocMusicEnds ==
    /\ Event /\ soc.playing
    /\ soc' = [soc EXCEPT !.playing = FALSE]
    /\ fromSoc' = Append(fromSoc, [kind |-> "playing", soc |-> soc'])
    /\ UNCHANGED <<g_ctrlState, shownMode, known, toSoc, told, display, cmds,
                   losses, env>>

LineLoses ==
    /\ losses < env.maxLosses /\ losses' = losses + 1
    /\ \/ /\ toSoc # <<>>
          /\ known' = known \ Doubt(Head(toSoc).cmd)
          /\ toSoc' = Tail(toSoc) /\ UNCHANGED fromSoc
       \/ /\ fromSoc # <<>>
          /\ known' = known \ DoubtOfAnswer(Head(fromSoc))
          /\ fromSoc' = Tail(fromSoc) /\ UNCHANGED toSoc
    /\ UNCHANGED <<g_ctrlState, shownMode, soc, told, display, cmds, events, env>>

---------------------------------------------------------------------------
\* Answers of the SOC: the callbacks

Receives(m) == /\ fromSoc' = Tail(fromSoc)
               /\ UNCHANGED <<toSoc, soc, cmds, events, losses, env>>

Responds(cmd, m) == Receives(m) /\ m.kind = "rsp" /\ m.cmd = cmd

Answer(cmd, m) == Responds(cmd, m) /\ UNCHANGED display

\* app_ctrl_send, without the kept copy: an APP that is not connected gets nothing.
Telling(cmd, st, what) == told' = [cmd |-> cmd, st |-> st, what |-> what]
NotTold == env.away /\ told' = [cmd |-> "none"]
Tell(m, st, what) == Telling(m.cmd, st, what) \/ NotTold

\* The copy takes new values on OK only, and is what the answer tells.
Learn(m, new, fields) ==
    /\ g_ctrlState' = IF m.st = "ok" THEN new ELSE g_ctrlState
    /\ known' = IF m.st = "ok" THEN known \cup fields ELSE known

rsp_power_ctrl(m) ==
    /\ Answer("POWER_CTRL", m)
    /\ IF m.st = "ok" THEN Tell(m, "ok", [on |-> m.arg])
                      ELSE Tell(m, "internal", [on |-> 0])
    /\ UNCHANGED <<g_ctrlState, shownMode, known>>

\* An answer with cached values is OK even when the SOC's was not.
rsp_status_get(m) ==
    /\ Answer("STATUS_GET", m)
    /\ Learn(m, [g_ctrlState EXCEPT !.work = m.soc.work, !.mode = m.soc.mode,
                                    !.volume = m.soc.volume],
             {"work", "volume", "mode"})
    /\ Tell(m, "ok", g_ctrlState')
    /\ UNCHANGED shownMode

rsp_calm_mode_get(m) ==
    /\ Answer("CALM_MODE_GET", m)
    /\ Learn(m, [g_ctrlState EXCEPT !.mode = m.soc.mode], {"mode"})
    /\ Tell(m, "ok", [mode |-> g_ctrlState'.mode, us |-> g_ctrlState.us])
    /\ UNCHANGED shownMode

rsp_volume_set(m) ==
    /\ Answer("VOLUME_SET", m)
    /\ Learn(m, [g_ctrlState EXCEPT !.volume = m.soc.volume], {"volume"})
    /\ Tell(m, m.st, [volume |-> g_ctrlState'.volume])
    /\ UNCHANGED shownMode

\* The SOC is asked for its status.
rsp_volume_get(m) ==
    /\ Answer("VOLUME_GET", m)
    /\ Learn(m, [g_ctrlState EXCEPT !.volume = m.soc.volume], {"volume"})
    /\ Tell(m, IF m.st = "ok" THEN "ok" ELSE "internal",
            [volume |-> g_ctrlState'.volume])
    /\ UNCHANGED shownMode

rsp_calm_mode_set(m) ==
    /\ Answer("CALM_MODE_SET", m)
    /\ known' = known \cup {"mode"}
    /\ Tell(m, m.st, [mode |-> g_ctrlState.mode])
    /\ UNCHANGED <<g_ctrlState, shownMode>>

rsp_calm_strategy_set(m) ==
    /\ Answer("STRATEGY_SET", m)
    /\ known' = known \cup {"mode", "strategy"}
    /\ Tell(m, m.st, [mode |-> m.arg.mode])
    /\ UNCHANGED <<g_ctrlState, shownMode>>

\* Mutant: the measures of the answer are passed on and not stored.
rsp_calm_strategy_get_part(m) ==
    /\ Answer("STRATEGY_GET", m)
    /\ Learn(m, [g_ctrlState EXCEPT !.us = m.soc.strategy[m.arg].us],
             {"strategy"})
    /\ shownMode' = IF m.st = "ok" THEN m.arg ELSE shownMode
    /\ Tell(m, "ok", [mode |-> m.arg])

\* Whichever mode was asked for, its strategy becomes the copy's.
rsp_calm_strategy_get(m) ==
    /\ Answer("STRATEGY_GET", m)
    /\ Learn(m, [g_ctrlState EXCEPT !.measures = m.soc.strategy[m.arg].measures,
                                    !.us = m.soc.strategy[m.arg].us],
             {"strategy"})
    /\ shownMode' = IF m.st = "ok" THEN m.arg ELSE shownMode
    /\ Tell(m, "ok", [mode |-> IF m.st = "ok" THEN m.arg ELSE 0,
                      measures |-> g_ctrlState'.measures, us |-> g_ctrlState'.us])

rsp_rec_start(m) ==
    /\ Answer("REC_START", m)
    /\ Tell(m, m.st, <<>>)
    /\ UNCHANGED <<g_ctrlState, shownMode, known>>

\* The recording that was just made, saved or not, becomes the copy's; one that
\* is too short is answered with PARAM_ERROR and counts as none.
rsp_rec_stop(m) ==
    /\ Answer("REC_STOP", m)
    /\ \/ /\ m.st = "ok"
          /\ g_ctrlState' = [g_ctrlState EXCEPT !.rec = Rec(m.soc.latest)]
          /\ known' = known \cup {"rec"}
       \/ /\ m.st = "short"
          /\ g_ctrlState' = [g_ctrlState EXCEPT !.rec = Rec(0)]
          /\ known' = known \cup {"rec"}
       \/ /\ m.st = "refused"
          /\ UNCHANGED <<g_ctrlState, known>>
    /\ Tell(m, IF m.st = "short" THEN "param" ELSE m.st, g_ctrlState'.rec)
    /\ UNCHANGED shownMode

rsp_rec_save(m) ==
    /\ Answer("REC_SAVE", m)
    /\ Learn(m, [g_ctrlState EXCEPT !.rec = [exist |-> 1,
                                             duration |-> m.soc.saved]],
             {"rec"})
    /\ Tell(m, m.st, g_ctrlState'.rec)
    /\ UNCHANGED shownMode

\* Mutant: the deletion is passed on and the copy kept.
rsp_rec_delete_passed_on(m) ==
    /\ Answer("REC_DELETE", m)
    /\ Learn(m, g_ctrlState, {"rec"})
    /\ Tell(m, m.st, <<>>)
    /\ UNCHANGED shownMode

rsp_rec_delete(m) ==
    /\ Answer("REC_DELETE", m)
    /\ Learn(m, [g_ctrlState EXCEPT !.rec = Rec(0)], {"rec"})
    /\ Tell(m, m.st, <<>>)
    /\ UNCHANGED shownMode

rsp_rec_info(m) ==
    /\ Answer("REC_INFO_GET", m)
    /\ Learn(m, [g_ctrlState EXCEPT !.rec = Rec(m.soc.saved)], {"rec"})
    /\ Tell(m, "ok", g_ctrlState'.rec)
    /\ UNCHANGED shownMode

\* Mutant: the reset forgets the mode.
rsp_factory_reset_keeps_mode(m) ==
    /\ Answer("FACTORY_RESET", m)
    /\ Learn(m, [g_ctrlState EXCEPT !.rec = Rec(0), !.us = Default,
                                    !.measures = Default],
             {"mode", "strategy", "rec"})
    /\ shownMode' = IF m.st = "ok" THEN 0 ELSE shownMode
    /\ Tell(m, IF m.st = "ok" THEN "ok" ELSE "internal", <<>>)

rsp_factory_reset(m) ==
    /\ Answer("FACTORY_RESET", m)
    /\ Learn(m, [g_ctrlState EXCEPT !.rec = Rec(0), !.mode = 0, !.us = Default,
                                    !.measures = Default],
             {"mode", "strategy", "rec"})
    /\ shownMode' = IF m.st = "ok" THEN 0 ELSE shownMode
    /\ Tell(m, IF m.st = "ok" THEN "ok" ELSE "internal", <<>>)

rsp_time_set(m) ==
    /\ Answer("TIME_SET", m)
    /\ \E refused \in {"param", "internal"} :
         Tell(m, IF m.st = "ok" THEN "ok" ELSE refused, <<>>)
    /\ UNCHANGED <<g_ctrlState, shownMode, known>>

rsp_rec_play(m) ==
    /\ Answer("REC_PLAY", m)
    /\ Tell(m, m.st, <<>>)
    /\ UNCHANGED <<g_ctrlState, shownMode, known>>

rsp_rec_play_stop(m) ==
    /\ Answer("REC_PLAY_STOP", m)
    /\ Tell(m, m.st, <<>>)
    /\ UNCHANGED <<g_ctrlState, shownMode, known>>

\* What the APP shows of the music changes with an OK that reaches it.
Shows(m, what, new, fields) ==
    /\ \/ /\ Telling(m.cmd, m.st, what)
          /\ display' = IF m.st = "ok" THEN new ELSE display
          /\ known' = IF m.st = "ok" THEN known \cup fields ELSE known
       \/ /\ NotTold /\ UNCHANGED display
          /\ known' = IF m.st = "ok" THEN known \ Doubt(m.cmd) ELSE known
    /\ UNCHANGED <<g_ctrlState, shownMode>>

rsp_music_play(m) ==
    /\ Responds("MUSIC_PLAY", m)
    /\ Shows(m, <<>>, [display EXCEPT !.playing = TRUE], {"playing"})

rsp_music_play_stop(m) ==
    /\ Responds("MUSIC_PLAY_STOP", m)
    /\ Shows(m, <<>>, [display EXCEPT !.playing = FALSE], {"playing"})

\* Mutant: the index of the command is answered, none being 0.
rsp_music_select_echo(m) ==
    /\ Responds("MUSIC_SELECT", m)
    /\ LET index == IF m.arg = Query THEN 0 ELSE m.arg IN
       Shows(m, [music |-> index],
             [display EXCEPT !.music = index, !.playing = @ /\ m.arg = Query],
             {"music"})

\* The index in the SOC's answer; the APP knows that a new piece does not play.
rsp_music_select(m) ==
    /\ Responds("MUSIC_SELECT", m)
    /\ Shows(m, [music |-> m.soc.music],
             [display EXCEPT !.music = m.soc.music, !.playing = @ /\ m.arg = Query],
             {"music"})

\* Events of the SOC

\* Mutant: the event is passed on to the APP and not stored.
evt_work_state_passed_on(m) ==
    /\ Receives(m) /\ m.kind = "work" /\ UNCHANGED display
    /\ known' = known \cup {"work"}
    /\ UNCHANGED <<g_ctrlState, shownMode, told>>

evt_work_state(m) ==
    /\ Receives(m) /\ m.kind = "work" /\ UNCHANGED display
    /\ g_ctrlState' = [g_ctrlState EXCEPT !.work = m.soc.work]
    /\ known' = known \cup {"work"}
    /\ UNCHANGED <<shownMode, told>>

evt_owner_rec(m) ==
    /\ Receives(m) /\ m.kind = "rec" /\ UNCHANGED display
    /\ g_ctrlState' = [g_ctrlState EXCEPT
                         !.rec = Rec(IF m.st = "ok" THEN m.soc.latest ELSE 0)]
    /\ known' = known \cup {"rec"}
    /\ Telling("REC_STOP", IF m.st = "ok" THEN "ok" ELSE "param", g_ctrlState'.rec)
       \/ NotTold
    /\ UNCHANGED shownMode

\* Passed on if there is an APP
evt_music_done(m) ==
    /\ Receives(m) /\ m.kind = "playing"
    /\ \/ /\ display' = [display EXCEPT !.playing = FALSE]
          /\ known' = known \cup {"playing"}
       \/ /\ env.away
          /\ known' = known \ {"playing"} /\ UNCHANGED display
    /\ UNCHANGED <<g_ctrlState, shownMode, told>>

\* Start and result of a session, a measure, an error: passed on as they are
evt_session(m) ==
    /\ Receives(m) /\ m.kind = "session"
    /\ UNCHANGED <<g_ctrlState, shownMode, known, told, display>>

Handler ==
    \/ handle_status_get \/ handle_volume_get \/ handle_calm_mode_get
    \/ handle_rec_start \/ handle_rec_stop \/ handle_rec_save
    \/ handle_rec_delete \/ handle_rec_info_get \/ handle_factory_reset
    \/ handle_rec_play_stop \/ handle_time_set
    \/ handle_music_play \/ handle_music_play_stop
    \/ \E source \in 0..1 : handle_rec_play(source)
    \/ \E index \in Pieces \cup {Query} : handle_music_select(index)
    \/ \E v \in env.volumes : handle_volume_set(v)
    \/ \E on \in 0..1 : handle_power_ctrl(on)
    \/ \E m \in Modes : handle_calm_mode_set(m) \/ handle_calm_strategy_get(m)
    \/ \E m \in Modes, s \in Strategies(env.orders) :
         handle_calm_strategy_set(m, s) \/ handle_calm_strategy_bad(m, s)

SocCallback ==
    /\ fromSoc # <<>>
    /\ LET m == Head(fromSoc) IN
       \/ rsp_power_ctrl(m) \/ rsp_status_get(m)
       \/ rsp_volume_set(m) \/ rsp_volume_get(m)
       \/ rsp_calm_mode_get(m) \/ rsp_calm_mode_set(m)
       \/ rsp_calm_strategy_set(m) \/ rsp_calm_strategy_get(m)
       \/ rsp_rec_start(m) \/ rsp_rec_stop(m) \/ rsp_rec_save(m)
       \/ rsp_rec_delete(m) \/ rsp_rec_info(m) \/ rsp_factory_reset(m)
       \/ rsp_time_set(m) \/ rsp_rec_play(m) \/ rsp_rec_play_stop(m)
       \/ rsp_music_play(m) \/ rsp_music_play_stop(m) \/ rsp_music_select(m)
       \/ evt_work_state(m) \/ evt_owner_rec(m)
       \/ evt_music_done(m) \/ evt_session(m)

DeviceNext ==
    \/ Handler \/ SocCallback
    \/ SocCarriesOut \/ SocHearsNotice \/ SocWorks \/ SocAutoStops \/ SocMusicEnds
    \/ SocStartsAgain \/ link_notify_power \/ LineLoses

DeviceSpec == DeviceInit /\ [][DeviceNext]_deviceVars

---------------------------------------------------------------------------
\* Properties

Quiet == toSoc = <<>> /\ fromSoc = <<>>
Agreed(field) == Quiet /\ field \in known

CopyStates == [power : 0..1, work : {0, Monitoring, Calming}, volume : Volumes,
               mode : Modes, measures : Orders, us : Orders,
               rec : [exist : 0..1, duration : Recording]]
SocStates == [work : {0, Monitoring, Calming}, volume : Volumes, mode : Modes,
              strategy : [Modes -> Strategies(Orders)], recording : BOOLEAN,
              unsaved : BOOLEAN, latest : Recording, saved : Recording,
              music : Pieces, playing : BOOLEAN]

SettingsTyped ==
    /\ g_ctrlState \in CopyStates
    /\ shownMode \in Modes
    /\ known \subseteq {"work", "power", "volume", "mode", "strategy", "rec",
                        "music", "playing"}
    /\ display \in [music : Pieces, playing : BOOLEAN]
    /\ soc \in SocStates
    /\ InFlight <= PendingMax

\* The last answer was to one of these commands, and OK.
Told(commands) == told.cmd \in commands /\ told.st = "ok"

\* However commands overlap, are refused or lost: once the line is quiet, a
\* volume the MCU was told and has not lost sight of is the SOC's, and so is the
\* one the APP was told last (app_ctrl.c:346, 450, 1550).
VolumeFollows ==
    Agreed("volume") =>
        /\ g_ctrlState.volume = soc.volume
        /\ Told({"VOLUME_SET", "VOLUME_GET", "STATUS_GET"})
             => told.what.volume = soc.volume

\* What may be said of the recordings of the SOC: the saved one, or the temporary
\* one while it is there; "none" right after a recording that was too short.
RecordingsOf(s) == {Rec(s.saved)}
                   \cup (IF s.unsaved THEN {Rec(s.latest)} ELSE {})
                   \cup (IF s.latest < MinDuration THEN {Rec(0)} ELSE {})

\* ... and while the SOC records nothing, the copy is one of its recordings, and
\* so is what the APP was told last (an answer to REC_STOP or the event of its
\* automatic end, to REC_SAVE, or to REC_INFO_GET, which tells the copy even if
\* the SOC has refused it): one that was deleted, reset or replaced is not named
\* any more (app_ctrl.c:398, 409, 505, 513, 893, 1169, 1203).
RecordingIsThere ==
    Agreed("rec") /\ ~soc.recording =>
        /\ g_ctrlState.rec \in RecordingsOf(soc)
        /\ Told({"REC_STOP", "REC_SAVE", "REC_INFO_GET"})
             => told.what \in RecordingsOf(soc)

\* On a quiet line the work state in the copy is the SOC's, however POWER_CTRLs,
\* which overwrite it, cross with sessions that begin and end and with their events
\* (app_ctrl.c:342, 648, 1403).  After a POWER_CTRL that the MCU could not send,
\* that was refused or lost, or that switched the SOC on in a session, which no
\* event corrects, it is again from the next event or STATUS_GET on.  And the
\* notice of every second makes the SOC work as the APP has switched, though a
\* POWER_CTRL was lost, refused or turned down by the MCU, or the SOC has
\* restarted (app_ctrl.c:2380-2389).
WorkFollows ==
    /\ Agreed("work") => g_ctrlState.work = soc.work
    /\ Agreed("power") => (g_ctrlState.power = 1 <=> soc.work # 0)

\* The mode, which the MCU stores before the SOC has it, is the SOC's in the end
\* if the APP waits for each answer and the SOC refuses nothing, and so is the
\* mode in the last answer; a reset and strategies set it too
\* (app_ctrl.c:349, 426, 948, 1811, 1900).
ModeFollows ==
    Agreed("mode") /\ ~env.refusals /\ ~env.pipelined =>
        /\ g_ctrlState.mode = soc.mode
        /\ Told({"CALM_MODE_SET", "CALM_MODE_GET", "STATUS_GET", "STRATEGY_SET"})
             => told.what.mode = soc.mode

\* The orders in the copy are the SOC's for one mode, that of the last strategy
\* set or read, which need not be the mode in force (app_ctrl.c:1001-1027, 1901).
StrategyIsOfShownMode ==
    Agreed("strategy") /\ ~env.refusals /\ ~env.pipelined
    => [measures |-> g_ctrlState.measures, us |-> g_ctrlState.us]
       = soc.strategy[shownMode]

\* The piece of music the APP shows is the SOC's, and it shows it playing while
\* it plays: answers and the event of its end come in the order in which things
\* happened.  An OK or an event that comes while no APP is connected, which
\* app_ctrl_send drops, leaves the next one in the dark until it starts, stops or
\* selects the music itself (app_ctrl.c:861, 1290, 2131, 2186, 2240).
MusicFollows ==
    /\ Agreed("music") => display.music = soc.music
    /\ Agreed("playing") => display.playing = soc.playing
===========================================================================
