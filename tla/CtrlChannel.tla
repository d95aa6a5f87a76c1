---------------------------- MODULE CtrlChannel ----------------------------
(***************************************************************************)
(* The command channel of app_ctrl.c: the APP writes command frames over   *)
(* BLE, app_ctrl_onRx filters repeated sequence numbers and calls one      *)
(* handler per command; a handler answers at once or forwards the command  *)
(* to the SOC, and a callback answers when the SOC does.  Every response   *)
(* is kept in a ring of four frames (RespCache), from which repeated       *)
(* commands are answered.                                                  *)
(*                                                                         *)
(* One pass of the main loop (app.c:1116-1145) visits three places where   *)
(* this state changes: BLE callbacks ("ble"), the frames of the SOC after  *)
(* the cleanup of the request table ("parse"), app_ctrl_time_task          *)
(* ("timer").  The request table is used at the level of its abstract      *)
(* specification OneShotRequest, with its size and its timeout.            *)
(*                                                                         *)
(* The frames are reduced to command, sequence number, status and place in *)
(* a response of several frames; "of" is a history field: the request      *)
(* whose result a frame carries.  "reqs", "sends", "bads", "links" and     *)
(* "sent" are history.  The APP and the SOC are not part of the firmware;  *)
(* "env" says which APP it is, one of the records of Apps:                 *)
(*   used       the commands it sends                                      *)
(*   payloads   their payloads, TRUE for those that are valid              *)
(*   patience   the ticks it waits for an answer before it repeats a       *)
(*              command or sends the same one anew                         *)
(*   retryDepth it repeats one of its last so many commands                *)
(* with the bounds of the instance: maxReqs commands in maxSends frames,   *)
(* maxBads bad frames, maxLinks connections and disconnections, at most    *)
(* loopTicks ticks from one app_uart_task to the next.                     *)
(***************************************************************************)
EXTENDS RespCache, FiniteSets

CONSTANTS
    Forwarded,     \* commands answered with the status the SOC returns
    Immediate,     \* commands answered from the MCU's own state in one frame
    UidGet,        \* the command answered at once in two frames
    RecordGet,     \* the command that keeps a busy flag while the SOC works
    Unknown,       \* commands app_ctrl_onRx has no case for
    SeqMod,        \* 256: the values of the u8 seq
    PendingMax,    \* APP_UART_PENDING_MAX
    RspTimeout,    \* APP_UART_RSP_TIMEOUT_US and the busy timeout, in ticks
    HbTimeout,     \* SOC_HEARTBEAT_TIMEOUT_US in ticks
    RecordEntries, \* bound: entries of a record
    Apps           \* the environments, see above

Seqs == 0..(SeqMod - 1)
Commands == Forwarded \cup Immediate \cup {UidGet, RecordGet} \cup Unknown

ASSUME ChannelAssumption ==
    /\ SeqMod \in Nat \ {0} /\ CacheSize \in Nat \ {0}
    /\ RspTimeout \in Nat /\ HbTimeout \in Nat /\ PendingMax \in Nat
    /\ RecordEntries \in Nat
    /\ RecordGet \notin Forwarded
    /\ \A a \in Apps :
         /\ {a.patience, a.retryDepth, a.maxReqs, a.maxSends, a.maxBads,
             a.maxLinks, a.loopTicks} \subseteq Nat
         /\ a.used \subseteq Commands /\ a.payloads \subseteq BOOLEAN
         /\ a.maxReqs <= SeqMod    \* the APP's counter does not come round

Statuses == {"OK", "LEN_ERROR", "UNSUPPORTED_CMD", "PARAM_ERROR",
             "INTERNAL_ERROR", "BUSY", "SOC_TIMEOUT", "SOC_ERROR"}

VARIABLES
    connected,        \* BLS_CONN_HANDLE # 0xFFFF
    s_last_seq,
    bleSeq,           \* g_ctx_<command>.bleSeq, one per forwarded command
    record,           \* g_ctx_calm_record_get
    uart,             \* the requests sent to the SOC, in order
    g_soc_online,
    hbAge,            \* ticks since the last heartbeat, while online
    place, loopAge,   \* where the main loop is; ticks since the last cleanup
    reqs, sends, bads, links, sent,
    env

link == <<connected, sent, g_resp_cache, g_resp_cache_idx>>
app == <<reqs, sends, bads, links, env>>
heart == <<g_soc_online, hbAge>>
loop == <<place, loopAge>>
vars == <<link, s_last_seq, bleSeq, record, uart, heart, loop, app>>

Frame(cmd, seq, status, of, part) ==
    [cmd |-> cmd, seq |-> seq, status |-> status, of |-> of, part |-> part]

Frames == [cmd : Commands, seq : Seqs, status : Statuses,
           of : 0..Len(reqs), part : 0..(RecordEntries + 1)]

Init == /\ env \in Apps
        /\ connected = FALSE
        /\ s_last_seq = SeqMod - 1
        /\ g_resp_cache = [i \in 0..(CacheSize - 1) |-> NoFrame]
        /\ g_resp_cache_idx = 0
        /\ bleSeq = [c \in Forwarded |-> 0]
        /\ record = [busy |-> FALSE, seq |-> 0, age |-> 0]
        /\ uart = << >>
        /\ g_soc_online = FALSE /\ hbAge = 0
        /\ place = "ble" /\ loopAge = 0
        /\ reqs = << >> /\ sends = 0 /\ bads = 0 /\ links = 0 /\ sent = << >>

---------------------------------------------------------------------------
\* Responses

Deliver(frames) ==
    sent' = IF connected THEN sent \o frames ELSE sent

\* app_ctrl_send of some RSP frames: a notification if a link is up; the
\* cache takes them in any case.
Respond(frames) ==
    Deliver(frames) /\ CacheSave(frames) /\ UNCHANGED connected

Reply(m, status) == Respond(<<Frame(m.cmd, m.seq, status, m.of, 0)>>)

---------------------------------------------------------------------------
\* The requests to the SOC

Waiting == {t \in DOMAIN uart : uart[t].waiting}

HasSlot == Cardinality(Waiting) < PendingMax

\* app_uart_send_cmd_with_cb that finds a slot.
SendToSoc(m) ==
    uart' = Append(uart, [cmd |-> m.cmd, of |-> m.of, soc |-> "open",
                          waiting |-> TRUE, age |-> 0])

Closed(e) == [e EXCEPT !.waiting = FALSE, !.age = 0]

---------------------------------------------------------------------------
\* The handlers of app_ctrl_onRx.  A frame m carries cmd, seq, whether its
\* payload passes the handler's check (good), and of.

\* The shape of all handlers that forward: payload, heartbeat, context, slot.
volume_set(m) ==
    /\ m.cmd \in Forwarded
    /\ \/ ~m.good /\ Reply(m, "PARAM_ERROR") /\ UNCHANGED <<bleSeq, uart>>
       \/ /\ m.good /\ ~g_soc_online
          /\ Reply(m, "SOC_TIMEOUT") /\ UNCHANGED <<bleSeq, uart>>
       \/ /\ m.good /\ g_soc_online
          /\ bleSeq' = [bleSeq EXCEPT ![m.cmd] = m.seq]
          /\ \/ HasSlot /\ SendToSoc(m) /\ UNCHANGED link
             \/ ~HasSlot /\ Reply(m, "SOC_TIMEOUT") /\ UNCHANGED uart
    /\ UNCHANGED record

reward_flag_get(m) ==
    /\ m.cmd \in Immediate
    /\ Reply(m, IF m.good THEN "OK" ELSE "PARAM_ERROR")
    /\ UNCHANGED <<bleSeq, record, uart>>

uid_get(m) ==
    /\ m.cmd = UidGet
    /\ \/ ~m.good /\ Reply(m, "PARAM_ERROR")
       \/ m.good /\ Respond([k \in 1..2 |->
                               Frame(UidGet, m.seq, "OK", m.of, k - 1)])
    /\ UNCHANGED <<bleSeq, record, uart>>

calm_record_get(m) ==
    /\ m.cmd = RecordGet
    /\ \/ /\ ~m.good
          /\ Reply(m, "PARAM_ERROR") /\ UNCHANGED <<record, uart>>
       \/ /\ m.good /\ ~g_soc_online
          /\ Reply(m, "SOC_TIMEOUT") /\ UNCHANGED <<record, uart>>
       \/ /\ m.good /\ g_soc_online /\ record.busy
          /\ Reply(m, "BUSY") /\ UNCHANGED <<record, uart>>
       \/ /\ m.good /\ g_soc_online /\ ~record.busy
          /\ \/ /\ HasSlot /\ SendToSoc(m) /\ UNCHANGED link
                /\ record' = [busy |-> TRUE, seq |-> m.seq, age |-> 0]
             \/ /\ ~HasSlot /\ Reply(m, "SOC_TIMEOUT") /\ UNCHANGED uart
                /\ record' = [busy |-> FALSE, seq |-> m.seq, age |-> 0]
    /\ UNCHANGED bleSeq

unsupported(m) ==
    /\ m.cmd \in Unknown
    /\ Reply(m, "UNSUPPORTED_CMD")
    /\ UNCHANGED <<bleSeq, record, uart>>

Handle(m) == \/ volume_set(m) \/ reward_flag_get(m) \/ uid_get(m)
             \/ calm_record_get(m) \/ unsupported(m)

\* Mutants: repeats are not noticed; only those with a kept answer are.
Repeated_never(m) == FALSE
Repeated_if_cached(m) == \E i \in DOMAIN g_resp_cache : Cached(i, m.cmd, m.seq)

\* The sequence number of the command handled last.
Repeated(m) == m.seq = s_last_seq

\* A repeated number: the frame kept for (cmd, seq), or else a plain OK.
rx_repeated(m) ==
    /\ Repeated(m)
    /\ \/ \E i \in DOMAIN g_resp_cache :
            /\ FirstCached(i, m.cmd, m.seq)
            /\ Deliver(<<g_resp_cache[i]>>)
            /\ UNCHANGED <<connected, g_resp_cache, g_resp_cache_idx>>
       \/ /\ \A i \in DOMAIN g_resp_cache : ~Cached(i, m.cmd, m.seq)
          /\ Reply(m, "OK")
    /\ UNCHANGED <<s_last_seq, bleSeq, record, uart>>

rx_command(m) == /\ ~Repeated(m)
                 /\ s_last_seq' = m.seq
                 /\ Handle(m)

onRx(m) == rx_repeated(m) \/ rx_command(m)

---------------------------------------------------------------------------
\* The APP

Command(n) == [cmd |-> reqs'[n].cmd, seq |-> reqs'[n].seq,
               good |-> reqs'[n].good, of |-> n]

\* A response to n was sent since n was written last.
Answered(n) == \E k \in (reqs[n].mark + 1)..Len(sent) : sent[k].of = n

\* No command of this kind is out without an answer for less than the APP's
\* patience.
MayAsk(cmd) == \A n \in DOMAIN reqs :
                 reqs[n].cmd = cmd => Answered(n) \/ reqs[n].age >= env.patience

Writes == /\ connected /\ place = "ble" /\ sends < env.maxSends
          /\ sends' = sends + 1
          /\ UNCHANGED <<bads, links, heart, loop, env>>

\* A new command under the next number of the APP's counter, which may start
\* anywhere.
AppCommand ==
    /\ Writes
    /\ Len(reqs) < env.maxReqs
    /\ \E cmd \in env.used, seq \in Seqs, good \in env.payloads :
         /\ MayAsk(cmd)
         /\ reqs # << >> => seq = (reqs[Len(reqs)].seq + 1) % SeqMod
         /\ reqs' = Append(reqs, [cmd |-> cmd, seq |-> seq, good |-> good,
                                  age |-> 0, mark |-> Len(sent)])
         /\ onRx(Command(Len(reqs) + 1))

\* The same frame again, from a BLE write the APP believes lost.
AppRepeat ==
    /\ Writes
    /\ \E n \in DOMAIN reqs :
         /\ n + env.retryDepth > Len(reqs)
         /\ MayAsk(reqs[n].cmd)
         /\ reqs' = [reqs EXCEPT ![n].age = 0, ![n].mark = Len(sent)]
         /\ onRx(Command(n))

\* A frame of another protocol version, or cut short: answered, and the
\* answer is cached, but the number is not remembered.  Frames of less than
\* six bytes and frames that are not commands are dropped without a trace.
AppBadFrame ==
    /\ connected /\ place = "ble" /\ bads < env.maxBads
    /\ bads' = bads + 1
    /\ \E cmd \in env.used, seq \in Seqs :
       \E e \in {"INTERNAL_ERROR", "LEN_ERROR"} :
         Respond(<<Frame(cmd, seq, e, 0, 0)>>)
    /\ UNCHANGED <<s_last_seq, bleSeq, record, uart, heart, loop, reqs, sends,
                   links, env>>

\* task_connect, task_terminate: nothing of the channel is reset.
ConnectionChange ==
    /\ place = "ble" /\ links < env.maxLinks
    /\ connected' = ~connected /\ links' = links + 1
    /\ UNCHANGED <<sent, g_resp_cache, g_resp_cache_idx, s_last_seq, bleSeq,
                   record, uart, heart, loop, reqs, sends, bads, env>>

---------------------------------------------------------------------------
\* The SOC

\* The request is carried out, or refused; it may also be lost.
SocWorks ==
    /\ \E t \in DOMAIN uart, r \in {"done", "refused"} :
         /\ uart[t].soc = "open"
         /\ uart' = [uart EXCEPT ![t].soc = r]
    /\ UNCHANGED <<link, s_last_seq, bleSeq, record, heart, loop, app>>

---------------------------------------------------------------------------
\* app_uart_task

\* Mutant: slots are kept one tick more.
TimedOut_late(e) == e.waiting /\ e.age > RspTimeout + 1

TimedOut(e) == e.waiting /\ e.age > RspTimeout

cleanup ==
    /\ place = "ble" /\ place' = "parse" /\ loopAge' = 0
    /\ uart' = [t \in DOMAIN uart |-> IF TimedOut(uart[t]) THEN Closed(uart[t])
                                      ELSE uart[t]]
    /\ UNCHANGED <<link, s_last_seq, bleSeq, record, heart, app>>

\* app_ctrl_evt_heartbeat_from_soc and app_ctrl_mark_soc_online
heartbeat ==
    /\ place = "parse"
    /\ g_soc_online' = TRUE /\ hbAge' = 0
    /\ UNCHANGED <<link, s_last_seq, bleSeq, record, uart, loop, app>>

Answers(t) == /\ place = "parse"
              /\ t \in Waiting /\ uart[t].soc # "open"
              /\ uart' = [uart EXCEPT ![t] = Closed(@)]

\* The callback of a forwarded command answers under the number its context
\* holds by now.
rsp_volume_set ==
    /\ \E t \in DOMAIN uart :
         /\ Answers(t) /\ uart[t].cmd \in Forwarded
         /\ Respond(<<Frame(uart[t].cmd, bleSeq[uart[t].cmd],
                            IF uart[t].soc = "done" THEN "OK" ELSE "SOC_ERROR",
                            uart[t].of, 0)>>)
    /\ UNCHANGED <<s_last_seq, bleSeq, record, heart, loop, app>>

\* What the callback of CALM_RECORD_GET sends for the request t: an error, or
\* one frame per entry (a bare OK, one frame as well, if there is no record);
\* a payload cut short ends the loop early, even before the first frame.
\* Nothing at all once the busy flag is down.
RecordFrames(t, entries) ==
    IF ~record.busy THEN << >>
    ELSE IF uart[t].soc = "refused"
    THEN <<Frame(RecordGet, record.seq, "INTERNAL_ERROR", uart[t].of, 0)>>
    ELSE [k \in 1..entries |->
            Frame(RecordGet, record.seq, "OK", uart[t].of, k - 1)]

rsp_calm_record_get ==
    /\ \E t \in DOMAIN uart, entries \in 0..RecordEntries :
         /\ Answers(t) /\ uart[t].cmd = RecordGet
         /\ Respond(RecordFrames(t, entries))
    /\ record' = [record EXCEPT !.busy = FALSE]
    /\ UNCHANGED <<s_last_seq, bleSeq, heart, loop, app>>

uart_task_returns ==
    /\ place = "parse" /\ place' = "timer"
    /\ UNCHANGED <<link, s_last_seq, bleSeq, record, uart, heart, loopAge, app>>

---------------------------------------------------------------------------
\* app_ctrl_time_task

\* Mutants: the busy flag is never taken down, or before the slot times out.
RecordStuck_never == FALSE
RecordStuck_early == record.busy /\ record.age >= RspTimeout

SocSilent == g_soc_online /\ hbAge > HbTimeout
RecordStuck == record.busy /\ record.age > RspTimeout

time_task ==
    /\ place = "timer" /\ place' = "ble"
    /\ g_soc_online' = (g_soc_online /\ ~SocSilent)
    /\ hbAge' = IF SocSilent THEN 0 ELSE hbAge
    /\ record' = [record EXCEPT !.busy = @ /\ ~RecordStuck]
    /\ UNCHANGED <<link, s_last_seq, bleSeq, uart, loopAge, app>>

---------------------------------------------------------------------------
\* The oldest a busy flag may be: it outlives its timeout by the rest of the
\* pass in which it is looked at and by the whole next pass, up to time_task.
Longest == RspTimeout + 2 * env.loopTicks
Overlong == Longest + 1

Older(age, most) == IF age < most THEN age + 1 ELSE age

\* The ages saturate where nothing distinguishes them any more.
Tick ==
    /\ loopAge < env.loopTicks /\ loopAge' = loopAge + 1
    /\ uart' = [t \in DOMAIN uart |->
                  IF uart[t].waiting THEN [uart[t] EXCEPT !.age = @ + 1]
                  ELSE uart[t]]
    /\ record' = IF record.busy
                 THEN [record EXCEPT !.age = Older(@, Overlong)]
                 ELSE record
    /\ hbAge' = IF g_soc_online THEN Older(hbAge, HbTimeout + 1) ELSE hbAge
    /\ reqs' = [n \in DOMAIN reqs |->
                  [reqs[n] EXCEPT !.age = Older(@, env.patience)]]
    /\ UNCHANGED <<link, s_last_seq, bleSeq, g_soc_online, place, sends, bads,
                   links, env>>

Loop == \/ cleanup \/ heartbeat \/ rsp_volume_set \/ rsp_calm_record_get
        \/ uart_task_returns \/ time_task

Next == \/ AppCommand \/ AppRepeat \/ AppBadFrame \/ ConnectionChange
        \/ SocWorks \/ Loop \/ Tick

Spec == Init /\ [][Next]_vars

\* The main loop goes round and the clock runs.
Fairness == /\ WF_vars(cleanup) /\ WF_vars(uart_task_returns)
            /\ WF_vars(time_task) /\ WF_vars(Tick)

FairSpec == Spec /\ Fairness

---------------------------------------------------------------------------
\* Properties

Requests == [cmd : Commands, seq : Seqs, good : BOOLEAN, age : 0..env.patience,
             mark : Nat]

SocRequests == [cmd : Forwarded \cup {RecordGet}, of : 1..Len(reqs),
                soc : {"open", "done", "refused"}, waiting : BOOLEAN,
                age : Nat]

TypeOK ==
    /\ env \in Apps
    /\ connected \in BOOLEAN /\ sent \in Seq(Frames)
    /\ s_last_seq \in Seqs
    /\ g_resp_cache \in [0..(CacheSize - 1) -> Frames \cup {NoFrame}]
    /\ g_resp_cache_idx \in 0..(CacheSize - 1)
    /\ bleSeq \in [Forwarded -> Seqs]
    /\ record \in [busy : BOOLEAN, seq : Seqs, age : 0..Overlong]
    /\ uart \in Seq(SocRequests)
    /\ g_soc_online \in BOOLEAN /\ hbAge \in 0..(HbTimeout + 1)
    /\ place \in {"ble", "parse", "timer"} /\ loopAge \in 0..env.loopTicks
    /\ reqs \in Seq(Requests) /\ Len(reqs) <= env.maxReqs
    /\ sends \in 0..env.maxSends /\ bads \in 0..env.maxBads
    /\ links \in 0..env.maxLinks

Echoes(f) == f.of # 0 => f.seq = reqs[f.of].seq

\* The result of a CALM_RECORD_GET goes out under the number of the very
\* request it answers, however fast the APP asks and however late the SOC
\* answers: the context is only overwritten when the old request has lost its
\* slot, because the busy flag and the slot time out together and the cleanup
\* runs before the parser (app_ctrl.c:1994-2007, 2412-2418).
RecordAnswersOwn ==
    \A k \in DOMAIN sent : sent[k].cmd = RecordGet => Echoes(sent[k])

\* Every response repeats the number of the command whose result it carries.
\* The context of a forwarded command is shared by all its requests
\* (app_ctrl.c:282-315), so this holds of an APP that gives a command the
\* time to be answered or to time out.
EchoOwn == env.patience > RspTimeout
           => \A k \in DOMAIN sent : Echoes(sent[k])

\* A command is not carried out twice because the APP repeats the last frame:
\* the filter on the last number (app_ctrl.c:2456-2473), through reconnects,
\* evictions from the cache and bad frames.  An APP that repeats older frames
\* is not protected.
AtMostOnce ==
    env.retryDepth <= 1 => \A n \in DOMAIN reqs :
        Cardinality({t \in DOMAIN uart : /\ uart[t].of = n
                                         /\ uart[t].soc = "done"}) <= 1

\* A command the MCU turned down (SOC offline, no slot, BUSY, a bad payload)
\* never reaches the SOC afterwards when the APP repeats the last frame: what
\* the APP was told stays true.
RefusedStaysRefused ==
    env.retryDepth <= 1 =>
    \A k \in DOMAIN sent, t \in DOMAIN uart :
        sent[k].status \in {"PARAM_ERROR", "BUSY", "SOC_TIMEOUT"}
        => uart[t].of # sent[k].of

\* The busy flag of CALM_RECORD_GET comes down in time, whatever the SOC and
\* the APP do, so that BUSY is not for ever (app_ctrl.c:2412-2418).
BusyIsBrief == record.busy => record.age <= Longest

\* What the documents say of a lost SOC response: the APP is told.
Unanswered(n) == n \in DOMAIN reqs /\ ~Answered(n)

RequestsAnswered ==
    \A n \in 1..SeqMod : Unanswered(n) ~> (~Unanswered(n) \/ ~connected)
===========================================================================
