---------------------------- MODULE CalmRecords ----------------------------
(***************************************************************************)
(* How the records of the calming sessions come from the SOC to the APP.   *)
(* The SOC keeps them; it announces every second that there are some, if   *)
(* it believes that an APP is connected, which the MCU tells it once a     *)
(* second and at every change.  The APP asks for the oldest record, gets a *)
(* notification per entry, and has the record deleted when it has all of   *)
(* them; then it asks for the next, until it is told that there is none    *)
(* (docs/ctrl_service_doc.md:521-660, 1232-1258).                          *)
(*                                                                         *)
(* SOC and APP are outside the firmware.  "scene" says which APP, which    *)
(* faults and which bounds a behaviour has, one of the records of Scenes:  *)
(*   careful    the APP counts the entries; otherwise it takes a record    *)
(*              for complete when it has the last one                      *)
(*   repeats    it writes the frame again that was not answered            *)
(*   hasty      it gives up on an answer that may still come               *)
(*   errors     SOC and MCU may turn a request down                        *)
(*   airLosses  notifications may be lost on the way to the APP            *)
(*   lengths    the numbers of entries of the records                      *)
(*   maxRecords, maxWrites, maxFaults, maxTurns  how many records, frames  *)
(*              of the APP, losses and restarts of the SOC, connections    *)
(*              and disconnections there are                               *)
(* A request is lost together with its answer if it takes longer than 3 s: *)
(* its slot and the busy mark end together (CtrlChannel, PendingTable).    *)
(***************************************************************************)
EXTENDS RespCache

CONSTANTS
    Fits,    \* entries that fit into a UART frame: 12
    Scenes   \* see above

\* What the constants may be; a module that uses this one assumes it.
RecordsConstants ==
    /\ CacheSize \in Nat \ {0} /\ Fits \in Nat \ {0}
    /\ \A s \in Scenes :
         /\ {s.careful, s.repeats, s.hasty, s.errors, s.airLosses} \subseteq BOOLEAN
         /\ s.lengths \subseteq Nat \ {0}
         /\ {s.maxRecords, s.maxWrites, s.maxFaults, s.maxTurns} \subseteq Nat

VARIABLES
    g_ble_connected,
    s_last_seq,
    g_ctx_calm_record_get,     \* busy and bleSeq
    g_ctx_calm_record_delete,  \* bleSeq
    requests,  \* on their way to the SOC
    messages,  \* answers and events on their way from the SOC
    stored,    \* the SOC's records, oldest first
    linkTold,  \* what the SOC believes of the connection
    reader,    \* the APP
    heard,     \* history: the entries <<record, index>> that reached the APP
    deleted,   \* history: the records the SOC has deleted
    wasEmpty,  \* history: there was no record at some time since the APP asked
    writes, faults, turns,
    scene

mcu == <<s_last_seq, g_ctx_calm_record_get, g_ctx_calm_record_delete,
         g_resp_cache, g_resp_cache_idx>>
store == <<stored, deleted, wasEmpty>>
lines == <<requests, messages>>
bounds == <<writes, turns, scene>>
recordVars == <<g_ble_connected, mcu, store, lines, linkTold, reader, heard,
                faults, bounds>>

Made == stored \o deleted
Idle == "nothing"

NoRecord == [id |-> 0, entries |-> 0]

\* Nothing is known, nothing was got.  "asked" is what the APP waits for.
NewReader(seq) == [seq |-> seq, asked |-> Idle, wants |-> FALSE, none |-> FALSE,
                   id |-> 0, total |-> 0, got |-> {}]

RecordsInit ==
    /\ scene \in Scenes
    /\ g_ble_connected = FALSE /\ linkTold = FALSE
    /\ s_last_seq = 0
    /\ g_ctx_calm_record_get = [busy |-> FALSE, bleSeq |-> 0]
    /\ g_ctx_calm_record_delete = [bleSeq |-> 0]
    /\ g_resp_cache = [i \in 0..(CacheSize - 1) |-> NoFrame]
    /\ g_resp_cache_idx = 0
    /\ requests = <<>> /\ messages = <<>>
    /\ stored = <<>> /\ deleted = <<>> /\ wasEmpty = FALSE
    /\ reader = NewReader(0) /\ heard = {}
    /\ writes = 0 /\ faults = 0 /\ turns = 0

Fault == faults < scene.maxFaults /\ faults' = faults + 1

---------------------------------------------------------------------------
\* Frames and what the APP makes of them

Plain(cmd, seq, status) ==
    [cmd |-> cmd, seq |-> seq, status |-> status, id |-> 0, idx |-> 0, total |-> 0]

Entry(seq, id, idx, total) ==
    [cmd |-> "get", seq |-> seq, status |-> "entry", id |-> id, idx |-> idx,
     total |-> total]

Complete == /\ reader.total > 0
            /\ IF scene.careful THEN reader.got = 0..(reader.total - 1)
               ELSE reader.total - 1 \in reader.got

\* The APP r gets these frames, all of one response: those it waits for count.
Reads(r, frames) ==
    LET mine == {f \in frames : f.cmd = r.asked /\ f.seq = r.seq}
        entries == {f \in mine : f.status = "entry"}
    IN \/ mine = {} /\ reader' = r
       \/ \E f \in entries :
            reader' = [r EXCEPT !.id = f.id, !.total = f.total,
                         !.got = {e.idx : e \in entries}
                                 \cup (IF @ # {} /\ r.id = f.id THEN @ ELSE {}),
                         !.asked = IF \E e \in entries : e.idx = f.total - 1
                                   THEN Idle ELSE @]
       \/ \E f \in mine \ entries :
            reader' = [r EXCEPT !.asked = Idle,
                         !.none = f.cmd = "get" /\ f.status = "ok",
                         !.wants = ~(f.cmd = "get" /\ f.status = "ok"),
                         !.total = IF f.cmd = "delete" THEN 0 ELSE @]

\* Notifications: none without a connection, and some may be lost.
Notify(r, frames) ==
    \E lost \in SUBSET DOMAIN frames :
       LET arrived == {frames[k] : k \in DOMAIN frames \ lost} IN
       /\ IF ~g_ble_connected THEN lost = DOMAIN frames /\ UNCHANGED faults
          ELSE IF lost = {} THEN UNCHANGED faults
          ELSE scene.airLosses /\ Fault
       /\ Reads(r, arrived)
       /\ heard' = heard \cup {<<f.id, f.idx>> :
                                 f \in {g \in arrived : g.status = "entry"}}

Respond(r, frames) == Notify(r, frames) /\ CacheSave(frames)

Silent(r) == /\ reader' = r
             /\ UNCHANGED <<heard, faults, g_resp_cache, g_resp_cache_idx>>

---------------------------------------------------------------------------
\* Commands of the APP r.  The SOC may be offline or the request table full.

Forward(cmd, id) == requests' = Append(requests, [cmd |-> cmd, id |-> id])

handle_calm_record_get(r) ==
    /\ UNCHANGED g_ctx_calm_record_delete
    /\ \/ /\ scene.errors   \* offline
          /\ Respond(r, <<Plain("get", r.seq, "timeout")>>)
          /\ UNCHANGED <<g_ctx_calm_record_get, requests>>
       \/ /\ g_ctx_calm_record_get.busy
          /\ Respond(r, <<Plain("get", r.seq, "busy")>>)
          /\ UNCHANGED <<g_ctx_calm_record_get, requests>>
       \/ /\ ~g_ctx_calm_record_get.busy
          /\ g_ctx_calm_record_get' = [busy |-> TRUE, bleSeq |-> r.seq]
          /\ Forward("get", 0) /\ Silent(r)
       \/ /\ ~g_ctx_calm_record_get.busy /\ scene.errors   \* no slot
          /\ g_ctx_calm_record_get' = [busy |-> FALSE, bleSeq |-> r.seq]
          /\ Respond(r, <<Plain("get", r.seq, "timeout")>>)
          /\ UNCHANGED requests

handle_calm_record_delete(r) ==
    /\ UNCHANGED g_ctx_calm_record_get
    /\ \/ /\ scene.errors   \* offline
          /\ Respond(r, <<Plain("delete", r.seq, "timeout")>>)
          /\ UNCHANGED <<g_ctx_calm_record_delete, requests>>
       \/ /\ g_ctx_calm_record_delete' = [bleSeq |-> r.seq]
          /\ \/ Forward("delete", r.id) /\ Silent(r)
             \/ /\ scene.errors   \* no slot
                /\ Respond(r, <<Plain("delete", r.seq, "timeout")>>)
                /\ UNCHANGED requests

\* A number that comes again: the first frame kept for it, or else a plain OK.
rx_repeated(r) ==
    /\ r.seq = s_last_seq
    /\ \/ \E i \in DOMAIN g_resp_cache :
            /\ FirstCached(i, r.asked, r.seq)
            /\ Notify(r, <<g_resp_cache[i]>>)
            /\ UNCHANGED <<g_resp_cache, g_resp_cache_idx>>
       \/ /\ \A i \in DOMAIN g_resp_cache : ~Cached(i, r.asked, r.seq)
          /\ Respond(r, <<Plain(r.asked, r.seq, "ok")>>)
    /\ UNCHANGED <<s_last_seq, g_ctx_calm_record_get, g_ctx_calm_record_delete,
                   requests>>

rx_command(r) ==
    /\ r.seq # s_last_seq /\ s_last_seq' = r.seq
    /\ \/ r.asked = "get" /\ handle_calm_record_get(r)
       \/ r.asked = "delete" /\ handle_calm_record_delete(r)

Write(r) ==
    /\ g_ble_connected /\ writes < scene.maxWrites /\ writes' = writes + 1
    /\ rx_repeated(r) \/ rx_command(r)
    /\ UNCHANGED <<g_ble_connected, messages, stored, deleted, linkTold, turns,
                   scene>>

UnderWay(cmd) == \E line \in {requests, messages} :
                   \E k \in DOMAIN line : line[k].cmd = cmd

\* An APP that is not hasty gives a request the time it may take.
Waited(cmd) == scene.hasty \/ ~(UnderWay(cmd) \/ g_ctx_calm_record_get.busy)

\* The APP asks anew: it counts its frames, and forgets what it has of a record.
AppGet ==
    /\ reader.asked = Idle /\ reader.wants /\ ~Complete /\ Waited("get")
    /\ wasEmpty' = (stored = <<>>)
    /\ Write([NewReader(reader.seq + 1) EXCEPT !.asked = "get"])

AppDelete ==
    /\ reader.asked = Idle /\ Complete
    /\ UNCHANGED wasEmpty
    /\ Write([reader EXCEPT !.asked = "delete", !.seq = @ + 1])

AppRepeat ==
    /\ scene.repeats /\ reader.asked # Idle
    /\ UNCHANGED wasEmpty
    /\ Write(reader)

AppGivesUp ==
    /\ reader.asked # Idle /\ Waited(reader.asked)
    /\ reader' = [reader EXCEPT !.asked = Idle, !.wants = TRUE, !.total = 0]
    /\ UNCHANGED <<g_ble_connected, mcu, store, lines, linkTold, heard, faults,
                   bounds>>

\* task_connect, task_terminate: the SOC is told; an APP begins from nothing.
ConnectionChange ==
    /\ turns < scene.maxTurns /\ turns' = turns + 1
    /\ g_ble_connected' = ~g_ble_connected
    /\ linkTold' = g_ble_connected'
    /\ reader' = NewReader(reader.seq)
    /\ UNCHANGED <<mcu, store, lines, heard, faults, writes, scene>>

---------------------------------------------------------------------------
\* The SOC

SocMakesRecord ==
    /\ Len(Made) < scene.maxRecords
    /\ \E n \in scene.lengths :
         stored' = Append(stored, [id |-> Len(Made) + 1, entries |-> n])
    /\ UNCHANGED <<g_ble_connected, mcu, deleted, wasEmpty, lines, linkTold,
                   reader, heard, faults, bounds>>

\* The announcement of every second; one at a time is on its way.
SocAnnounces ==
    /\ stored # <<>> /\ linkTold /\ ~UnderWay("new")
    /\ messages' = Append(messages, [cmd |-> "new"])
    /\ UNCHANGED <<g_ble_connected, mcu, store, requests, linkTold, reader,
                   heard, faults, bounds>>

Reply(cmd, status, r) ==
    messages' = Append(messages, [cmd |-> cmd, status |-> status, record |-> r])

Deletes(id) ==
    \E k \in DOMAIN stored :
       /\ stored[k].id = id
       /\ stored' = [j \in 1..(Len(stored) - 1) |-> stored[IF j < k THEN j ELSE j + 1]]
       /\ deleted' = Append(deleted, stored[k])
       /\ wasEmpty' = (wasEmpty \/ Len(stored) = 1)

SocAnswers ==
    /\ requests # <<>> /\ requests' = Tail(requests)
    /\ LET q == Head(requests) IN
       \/ /\ q.cmd = "get"
          /\ Reply("get", "ok", IF stored = <<>> THEN NoRecord ELSE Head(stored))
          /\ UNCHANGED store
       \/ /\ q.cmd = "delete"
          /\ Deletes(q.id)
          /\ Reply("delete", "ok", NoRecord)
       \/ /\ scene.errors \/ (q.cmd = "delete" /\ \A k \in DOMAIN stored : stored[k].id # q.id)
          /\ Reply(q.cmd, "refused", NoRecord)
          /\ UNCHANGED store
    /\ UNCHANGED <<g_ble_connected, mcu, linkTold, reader, heard, faults, bounds>>

\* The SOC starts again: its records remain.
SocRestarts ==
    /\ Fault
    /\ linkTold' = FALSE /\ requests' = <<>> /\ messages' = <<>>
    /\ UNCHANGED <<g_ble_connected, mcu, store, reader, heard, bounds>>

Lose ==
    /\ Fault
    /\ \/ requests # <<>> /\ requests' = Tail(requests) /\ UNCHANGED messages
       \/ messages # <<>> /\ messages' = Tail(messages) /\ UNCHANGED requests
    /\ UNCHANGED <<g_ble_connected, mcu, store, linkTold, reader, heard, bounds>>

---------------------------------------------------------------------------
\* The MCU hears the SOC.

Takes(m) == /\ messages # <<>> /\ m = Head(messages)
            /\ messages' = Tail(messages)
            /\ UNCHANGED <<g_ble_connected, s_last_seq, store, requests,
                           linkTold, bounds>>

\* Mutant: the frames say how many entries came, not how many there are.
RecordFrames_cut_total(m) ==
    LET seq == g_ctx_calm_record_get.bleSeq
        n   == IF m.record.entries < Fits THEN m.record.entries ELSE Fits
    IN IF m.status # "ok" THEN <<Plain("get", seq, "internal")>>
       ELSE IF m.record.entries = 0 THEN <<Plain("get", seq, "ok")>>
       ELSE [k \in 1..n |-> Entry(seq, m.record.id, k - 1, n)]

\* Mutant: the status is not looked at, and an error has no entries.
RecordFrames_no_status(m) ==
    LET seq == g_ctx_calm_record_get.bleSeq
        n   == IF m.record.entries < Fits THEN m.record.entries ELSE Fits
    IN IF m.record.entries = 0 THEN <<Plain("get", seq, "ok")>>
       ELSE [k \in 1..n |-> Entry(seq, m.record.id, k - 1, m.record.entries)]

\* An error; a plain OK that says there is no record; or one frame per entry,
\* as far as the payload goes, each with the number of all entries.
RecordFrames(m) ==
    LET seq == g_ctx_calm_record_get.bleSeq
        n   == IF m.record.entries < Fits THEN m.record.entries ELSE Fits
    IN IF m.status # "ok" THEN <<Plain("get", seq, "internal")>>
       ELSE IF m.record.entries = 0 THEN <<Plain("get", seq, "ok")>>
       ELSE [k \in 1..n |-> Entry(seq, m.record.id, k - 1, m.record.entries)]

rsp_calm_record_get(m) ==
    /\ Takes(m) /\ m.cmd = "get"
    /\ \/ g_ctx_calm_record_get.busy /\ Respond(reader, RecordFrames(m))
       \/ ~g_ctx_calm_record_get.busy /\ Silent(reader)
    /\ g_ctx_calm_record_get' = [g_ctx_calm_record_get EXCEPT !.busy = FALSE]
    /\ UNCHANGED g_ctx_calm_record_delete

rsp_calm_record_delete(m) ==
    /\ Takes(m) /\ m.cmd = "delete"
    /\ Respond(reader, <<Plain("delete", g_ctx_calm_record_delete.bleSeq,
                               IF m.status = "ok" THEN "ok" ELSE "soc_error")>>)
    /\ UNCHANGED <<g_ctx_calm_record_get, g_ctx_calm_record_delete>>

\* Passed on if an APP is connected (and hears it); it then wants to read.
evt_new_calm_record(m) ==
    /\ Takes(m) /\ m.cmd = "new"
    /\ \/ /\ g_ble_connected
          /\ reader' = [reader EXCEPT !.wants = TRUE] /\ UNCHANGED faults
       \/ /\ g_ble_connected /\ scene.airLosses /\ Fault /\ UNCHANGED reader
       \/ ~g_ble_connected /\ UNCHANGED <<reader, faults>>
    /\ UNCHANGED <<heard, g_ctx_calm_record_get, g_ctx_calm_record_delete,
                   g_resp_cache, g_resp_cache_idx>>

Callback == \E m \in {messages[k] : k \in DOMAIN messages} :
              \/ rsp_calm_record_get(m) \/ rsp_calm_record_delete(m)
              \/ evt_new_calm_record(m)

\* app_ctrl_time_task: a busy mark whose request has timed out
busy_times_out ==
    /\ g_ctx_calm_record_get.busy /\ ~UnderWay("get")
    /\ g_ctx_calm_record_get' = [g_ctx_calm_record_get EXCEPT !.busy = FALSE]
    /\ UNCHANGED <<g_ble_connected, s_last_seq, g_ctx_calm_record_delete,
                   g_resp_cache, g_resp_cache_idx, store, lines, linkTold,
                   reader, heard, faults, bounds>>

\* Mutant: the SOC is told at changes only.
link_notify_never == FALSE /\ UNCHANGED recordVars

\* ... and the notice of every second, if it is not lost
link_notify ==
    /\ linkTold # g_ble_connected /\ linkTold' = g_ble_connected
    /\ UNCHANGED <<g_ble_connected, mcu, store, lines, reader, heard, faults,
                   bounds>>

RecordsNext ==
    \/ AppGet \/ AppDelete \/ AppRepeat \/ AppGivesUp \/ ConnectionChange
    \/ SocMakesRecord \/ SocAnnounces \/ SocAnswers \/ SocRestarts \/ Lose
    \/ Callback \/ busy_times_out \/ link_notify

\* Main loop, SOC and APP go on; only the records and the faults are free.
RecordsFairness ==
    /\ WF_recordVars(AppGet \/ AppDelete \/ AppGivesUp)
    /\ WF_recordVars(SocAnnounces) /\ WF_recordVars(SocAnswers)
    /\ WF_recordVars(Callback)
    /\ WF_recordVars(busy_times_out) /\ WF_recordVars(link_notify)

RecordsSpec == RecordsInit /\ [][RecordsNext]_recordVars /\ RecordsFairness

---------------------------------------------------------------------------
\* Properties

\* A record that the SOC has deleted was read to the last entry: by an APP that
\* counts the entries whatever is lost, cut short or repeated, and by one that
\* goes by the last entry if no notification is lost and it repeats no frame
\* (app_ctrl.c:1113-1150, docs/ctrl_service_doc.md:612-615).
DeletedWasRead ==
    scene.careful \/ ~(scene.airLosses \/ scene.repeats) =>
        \A k \in DOMAIN deleted : \A i \in 0..(deleted[k].entries - 1) :
            <<deleted[k].id, i>> \in heard

\* An APP that is told there is no record was told so by the SOC, and not
\* because a request failed (app_ctrl.c:1067, 1098): there was none since the
\* APP asked.  Of an APP that repeats its frame it does not hold.
NoRecordsIsTrue == ~scene.repeats => (reader.none => wasEmpty)

\* The documents know no such exception: a repeated frame is answered with the
\* last response, and the one-byte OK means that there is no record
\* (docs/ctrl_service_doc.md:51, 616).
NoneMeansNone == reader.none => wasEmpty

\* Every record is read and deleted in the end if the APP stays, though
\* requests, answers, announcements and notifications are lost and the SOC
\* restarts and forgets that there is a connection (app_ctrl.c:2080, 2380-2389,
\* 2412, app.c:178).
Patient == /\ ~(scene.hasty \/ scene.errors \/ scene.repeats)
           /\ \A n \in scene.lengths : n <= Fits

RecordsReachApp ==
    \A id \in 1..2 :
        [](Patient /\ Len(Made) >= id => <>(\/ Len(deleted) >= id
                                             \/ ~g_ble_connected))
===========================================================================
