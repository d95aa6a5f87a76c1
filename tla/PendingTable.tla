--------------------------- MODULE PendingTable ---------------------------
(***************************************************************************)
(* The request table of app_uart.c: eight slots, an eight bit sequence     *)
(* number shared by every frame sent to the SOC, a three second timeout,   *)
(* and answers that are matched by (cmdId, seq).                           *)
(*                                                                         *)
(* The main loop (app.c:1116-1145) calls app_uart_task once per pass; the  *)
(* task first frees the slots that timed out, then parses the frames that  *)
(* came in.  Requests are sent from the other parts of the pass and from   *)
(* callbacks.  Time is counted in ticks of an arbitrary length; an entry   *)
(* stores its age, which is clock_time() - tick in the code.               *)
(*                                                                         *)
(* The SOC is outside the repository: it may answer a request late, more   *)
(* than once or not at all.  "wire" holds the requests it may still        *)
(* answer.  "issued", "calls" and "silent" are history variables.         *)
(***************************************************************************)
EXTENDS Naturals, Sequences

CONSTANTS
    PendingMax,   \* APP_UART_PENDING_MAX
    SeqMod,       \* 256: the values of the u8 g_uart_seq
    CmdIds,       \* the commands sent to the SOC
    RspTimeout,   \* APP_UART_RSP_TIMEOUT_US in ticks
    LoopTicks,    \* bound: ticks from one app_uart_task to the next
    MaxLate,      \* bound: ticks after which the SOC answers a request no more
    MaxBurst,     \* bound: sequence numbers drawn within one tick
    MaxIssued,    \* bound: sequence numbers drawn in a behaviour
    NoEntry       \* a slot with inUse = 0

Longest == IF MaxLate > RspTimeout + LoopTicks THEN MaxLate
                                               ELSE RspTimeout + LoopTicks

ASSUME SizesAssumption ==
    /\ PendingMax \in Nat /\ SeqMod \in Nat \ {0}
    /\ RspTimeout \in Nat /\ LoopTicks \in Nat /\ MaxLate \in Nat
    /\ MaxBurst \in Nat /\ MaxIssued \in Nat

\* The sequence number does not come round while a request, or an answer to
\* it, is still about.
ASSUME NoWrapAssumption == MaxBurst * (Longest + 1) <= SeqMod

Slots == 1..PendingMax
Seqs == 0..(SeqMod - 1)
Numbers == 0..(MaxIssued - 1)

\* id is the number of the request, which the code does not store.
Entries == [cmdId : CmdIds, seq : Seqs, age : Nat, id : Nat]

ASSUME NoEntryAssumption == NoEntry \notin Entries

VARIABLES
    g_uart_pending, g_uart_seq,
    task,      \* "parse" inside app_uart_task after the cleanup, else "main"
    loopAge,   \* ticks since the last cleanup
    burst,     \* sequence numbers drawn in this tick
    wire,      \* requests the SOC may still answer
    issued,    \* sequence numbers drawn so far
    silent,    \* numbers drawn for which no callback will run
    calls      \* callbacks run: <<request, request the answer was made for>>

vars == <<g_uart_pending, g_uart_seq, task, loopAge, burst, wire, issued,
          silent, calls>>

InUse(s) == g_uart_pending[s] # NoEntry

Init == /\ g_uart_pending = [s \in Slots |-> NoEntry]
        /\ g_uart_seq = 0
        /\ task = "main" /\ loopAge = 0 /\ burst = 0
        /\ wire = {} /\ issued = 0 /\ silent = {} /\ calls = << >>

---------------------------------------------------------------------------
\* Sending

\* g_uart_seq++, at the head of both send functions
DrawSeq == /\ issued < MaxIssued /\ burst < MaxBurst
           /\ g_uart_seq' = (g_uart_seq + 1) % SeqMod
           /\ issued' = issued + 1
           /\ burst' = burst + 1

NewEntry(cmd) == [cmdId |-> cmd, seq |-> g_uart_seq, age |-> 0, id |-> issued]

FirstFree(s) == ~InUse(s) /\ \A t \in Slots : t < s => InUse(t)

\* app_uart_send_cmd: no callback; it never takes a slot, and an answer to it
\* is an answer nobody waits for.
send_cmd(cmd) ==
    /\ DrawSeq
    /\ wire' = wire \cup {NewEntry(cmd)}
    /\ silent' = silent \cup {issued}
    /\ UNCHANGED <<g_uart_pending, task, loopAge, calls>>

\* app_uart_send_cmd_with_cb, the three ways it ends.
send_cmd_with_cb(cmd) ==
    /\ DrawSeq
    /\ \E s \in Slots : /\ FirstFree(s)
                        /\ g_uart_pending' =
                             [g_uart_pending EXCEPT ![s] = NewEntry(cmd)]
    /\ wire' = wire \cup {NewEntry(cmd)}
    /\ UNCHANGED <<task, loopAge, silent, calls>>

\* -2: the number is drawn, nothing is sent.
send_cmd_table_full ==
    /\ DrawSeq
    /\ \A s \in Slots : InUse(s)
    /\ silent' = silent \cup {issued}
    /\ UNCHANGED <<g_uart_pending, task, loopAge, wire, calls>>

\* -1: app_uart_send_frame rejects a payload of more than 64 bytes; the slot
\* taken a moment before is found again by (cmdId, seq) and given back.
send_cmd_frame_failed(cmd) ==
    /\ DrawSeq
    /\ \E s \in Slots :
         LET taken == [g_uart_pending EXCEPT ![s] = NewEntry(cmd)]
             mine(t) == /\ taken[t] # NoEntry
                        /\ taken[t].cmdId = cmd /\ taken[t].seq = g_uart_seq
         IN /\ FirstFree(s)
            /\ \E t \in Slots :
                 /\ mine(t) /\ \A u \in Slots : u < t => ~mine(u)
                 /\ g_uart_pending' = [taken EXCEPT ![t] = NoEntry]
    /\ silent' = silent \cup {issued}
    /\ UNCHANGED <<task, loopAge, wire, calls>>

---------------------------------------------------------------------------
\* app_uart_task

\* Mutants: no timeout; a tick too late; the timer is started again.
TimedOutNever(s) == FALSE
TimedOutLate(s) == InUse(s) /\ g_uart_pending[s].age > RspTimeout + 1

cleanup_restarts_timer ==
    /\ task = "main"
    /\ g_uart_pending' = [s \in Slots |->
                            IF InUse(s) /\ g_uart_pending[s].age > RspTimeout
                            THEN [g_uart_pending[s] EXCEPT !.age = 0]
                            ELSE g_uart_pending[s]]
    /\ task' = "parse" /\ loopAge' = 0
    /\ UNCHANGED <<g_uart_seq, burst, wire, issued, silent, calls>>

\* app_uart_cleanup_pending_timeout: clock_time_exceed(tick, 3 s)
TimedOut(s) == InUse(s) /\ g_uart_pending[s].age > RspTimeout

cleanup_pending_timeout ==
    /\ task = "main"
    /\ g_uart_pending' = [s \in Slots |-> IF TimedOut(s) THEN NoEntry
                                          ELSE g_uart_pending[s]]
    /\ task' = "parse" /\ loopAge' = 0
    /\ UNCHANGED <<g_uart_seq, burst, wire, issued, silent, calls>>

\* Mutant: the sequence number is not compared.
MatchesCommandOnly(s, m) == InUse(s) /\ g_uart_pending[s].cmdId = m.cmdId

\* The test of app_uart_dispatch_rsp for a slot and a frame.
Matches(s, m) == /\ InUse(s)
                 /\ g_uart_pending[s].cmdId = m.cmdId
                 /\ g_uart_pending[s].seq = m.seq

FirstMatch(s, m) == Matches(s, m) /\ \A t \in Slots : t < s => ~Matches(t, m)

\* Mutant: the slot stays in use while the callback runs, and after.
dispatch_keeps_slot ==
    /\ task = "parse"
    /\ \E m \in wire, s \in Slots :
         /\ FirstMatch(s, m)
         /\ calls' = Append(calls, <<g_uart_pending[s].id, m.id>>)
    /\ UNCHANGED <<g_uart_pending, g_uart_seq, task, loopAge, burst, wire,
                   issued, silent>>

\* A response frame that finds its slot: the slot is freed, then the callback
\* runs.  The SOC may send the same answer again.
dispatch_rsp ==
    /\ task = "parse"
    /\ \E m \in wire, s \in Slots :
         /\ FirstMatch(s, m)
         /\ g_uart_pending' = [g_uart_pending EXCEPT ![s] = NoEntry]
         /\ calls' = Append(calls, <<g_uart_pending[s].id, m.id>>)
    /\ UNCHANGED <<g_uart_seq, task, loopAge, burst, wire, issued, silent>>

\* The receive buffer holds no further complete frame.
uart_task_returns ==
    /\ task = "parse" /\ task' = "main"
    /\ UNCHANGED <<g_uart_pending, g_uart_seq, loopAge, burst, wire, issued,
                   silent, calls>>

---------------------------------------------------------------------------
\* The clock

Older(e) == [e EXCEPT !.age = @ + 1]

Tick ==
    /\ loopAge < LoopTicks
    /\ loopAge' = loopAge + 1
    /\ burst' = 0
    /\ g_uart_pending' = [s \in Slots |-> IF InUse(s)
                                          THEN Older(g_uart_pending[s])
                                          ELSE NoEntry]
    /\ wire' = {Older(m) : m \in {w \in wire : w.age < MaxLate}}
    /\ UNCHANGED <<g_uart_seq, task, issued, silent, calls>>

Send == \E cmd \in CmdIds : \/ send_cmd(cmd)
                            \/ send_cmd_with_cb(cmd)
                            \/ send_cmd_frame_failed(cmd)

Next == \/ Send \/ send_cmd_table_full
        \/ cleanup_pending_timeout \/ dispatch_rsp \/ uart_task_returns
        \/ Tick

Spec == Init /\ [][Next]_vars

\* The main loop goes round and the clock runs; nobody has to send or answer.
Fairness == /\ WF_vars(cleanup_pending_timeout)
            /\ WF_vars(uart_task_returns)
            /\ WF_vars(Tick)

FairSpec == Spec /\ Fairness

---------------------------------------------------------------------------
\* Properties

TypeOK ==
    /\ g_uart_pending \in [Slots -> Entries \cup {NoEntry}]
    /\ g_uart_seq \in Seqs
    /\ task \in {"main", "parse"}
    /\ loopAge \in 0..LoopTicks
    /\ burst \in 0..MaxBurst
    /\ wire \in SUBSET Entries
    /\ issued \in 0..MaxIssued
    /\ silent \in SUBSET Nat
    /\ calls \in Seq(Nat \X Nat)

\* Two waiting requests never carry the same (cmdId, seq), so that the linear
\* search of app_uart_dispatch_rsp (app_uart.c:190-207) has one candidate:
\* the eight bit counter comes round, and refused sends advance it too.
UniqueKeys ==
    \A s, t \in Slots :
        /\ InUse(s) /\ InUse(t)
        /\ g_uart_pending[s].cmdId = g_uart_pending[t].cmdId
        /\ g_uart_pending[s].seq = g_uart_pending[t].seq
        => s = t

\* A callback only ever gets the answer made for its own request, however
\* late or often the SOC answers and whatever slots were reused meanwhile.
OwnAnswers == \A i \in DOMAIN calls : calls[i][1] = calls[i][2]

\* No request waits, and so no callback runs, more than the timeout and one
\* pass of the main loop after it was sent: the cleanup comes before the
\* parsing in app_uart_task (app_uart.c:392-405).
NoOverdueRequest ==
    \A s \in Slots : InUse(s) => g_uart_pending[s].age <= RspTimeout + loopAge

Waiting(n) == \E s \in Slots : InUse(s) /\ g_uart_pending[s].id = n
Called(n) == \E i \in DOMAIN calls : calls[i][1] = n

StatusOf(n) == IF n >= issued THEN "unsent"
               ELSE IF n \in silent THEN "silent"
               ELSE IF Waiting(n) THEN "open"
               ELSE IF Called(n) THEN "answered"
               ELSE "expired"

Abstract == INSTANCE OneShotRequest
                WITH status <- [n \in Numbers |-> StatusOf(n)]

\* The table implements the one-shot requests: refused and unmatched requests
\* never run a callback, an answered or expired one never does so again.
OneShot == Abstract!Spec

\* Every waiting request is closed in the end, even if the SOC is dead: the
\* timeout gives its slot back (app_uart.c:222-232).
RequestsClose ==
    \A n \in Numbers : StatusOf(n) = "open" ~> StatusOf(n) # "open"
===========================================================================
