------------------------------- MODULE UartRx -------------------------------
(***************************************************************************)
(* The receiving side of the SOC's UART: the interrupt appends bytes to    *)
(* g_uart_soc_rx_buf while app_uart_task, in the main loop, looks for      *)
(* frames in it and drops what it has read.  Buffer and length are shared  *)
(* without a lock: a byte that arrives while bytes are being dropped is    *)
(* lost, or a byte that was moved away stays in its place.                 *)
(*                                                                         *)
(* A frame is S1 S2, a version byte, a length byte, payload and a CRC      *)
(* byte.  A byte carries its value and, unless it is noise, the frame it   *)
(* belongs to and its place there; the CRC is right when the bytes are the *)
(* bytes of one frame.  Two things are history and not in the code: a byte *)
(* that a move left behind in its old place is marked as a copy, and a     *)
(* frame handed over is marked when all its bytes were copies.  Left out:  *)
(* a reset of the buffer while memmove is under way.                       *)
(***************************************************************************)
EXTENDS Naturals, Sequences

CONSTANTS
    BufSize,        \* 128
    Lengths,        \* payload lengths of the SOC's frames
    MaxPayload,     \* APP_UART_MAX_PAYLOAD
    DataValues,     \* what a byte of payload or CRC may be
    NoiseValues,    \* what a byte of no frame may be
    MaxFrames, MaxNoise, MaxOverruns,   \* bounds of a behaviour
    MaxSent   \* bound: a frame counts two, a byte of noise one

S1 == 85
S2 == 170
Version == 1    \* UART_PROTO_VER and a message type the MCU knows
MinFrame == 5   \* 10 in the code

ASSUME UartRxAssumption ==
    /\ BufSize \in Nat /\ MaxPayload \in Nat
    /\ Lengths \subseteq 0..MaxPayload /\ MaxPayload + MinFrame <= BufSize
    /\ DataValues \subseteq Nat /\ NoiseValues \subseteq Nat
    /\ MaxFrames \in Nat /\ MaxNoise \in Nat /\ MaxOverruns \in Nat /\ MaxSent \in Nat

VARIABLES
    buf,         \* the first g_uart_soc_rx_len bytes of g_uart_soc_rx_buf
    sending,     \* the SOC: frame, payload length and byte on the wire
    pc,          \* where app_uart_task is
    before,      \* its local of that name
    n, next,     \* bytes being dropped, and where it goes on then
    mark,        \* bytes of buf the task has seen
    dispatched,  \* the frames handed over, in order
    hit,         \* history: frames that lost a byte to a full buffer or a race
    noise, overruns

line == <<sending, noise, overruns>>
rxVars == <<buf, line, pc, before, n, next, mark, dispatched, hit>>

Noise(v) == [v |-> v, f |-> 0, i |-> 0, copy |-> FALSE]

RxInit == /\ buf = <<>> /\ sending = [f |-> 0, len |-> 0, i |-> MinFrame]
          /\ pc = "idle" /\ before = 0 /\ n = 0 /\ next = "return" /\ mark = 0
          /\ dispatched = <<>> /\ hit = {} /\ noise = 0 /\ overruns = 0

FramesOf(bytes) == {bytes[j].f : j \in DOMAIN bytes} \ {0}

---------------------------------------------------------------------------
\* app_uart_ndma_irq_proc

Receive(b) ==
    \/ /\ Len(buf) < BufSize
       /\ buf' = Append(buf, b)
       /\ UNCHANGED <<hit, mark>>
    \/ /\ Len(buf) >= BufSize /\ pc # "move"
       /\ buf' = IF b.v = S1 THEN <<b>> ELSE <<>>
       /\ hit' = hit \cup FramesOf(buf) \cup (IF b.v = S1 THEN {} ELSE FramesOf(<<b>>))
       /\ mark' = 0

OnTheWay == sending.i < sending.len + MinFrame

\* The values byte i of a frame with so much payload may have
ValuesAt(i, len) == CASE i = 1 -> {S1} [] i = 2 -> {S2} [] i = 3 -> {Version}
                      [] i = 4 -> {len}
                      [] OTHER -> DataValues

Byte(f, len, i) ==
    /\ sending' = [f |-> f, len |-> len, i |-> i]
    /\ \E v \in ValuesAt(i, len) : Receive([v |-> v, f |-> f, i |-> i, copy |-> FALSE])
    /\ UNCHANGED <<pc, before, n, next, dispatched, noise, overruns>>

FrameByte == OnTheWay /\ Byte(sending.f, sending.len, sending.i + 1)

FrameBegins == /\ ~OnTheWay /\ sending.f < MaxFrames
               /\ 2 * (sending.f + 1) + noise <= MaxSent
               /\ \E len \in Lengths : Byte(sending.f + 1, len, 1)

\* What is left of a frame the line garbled is noise too.
NoiseByte(v) ==
    /\ ~OnTheWay /\ noise < MaxNoise /\ 2 * sending.f + noise < MaxSent
    /\ noise' = noise + 1
    /\ Receive(Noise(v))
    /\ UNCHANGED <<sending, pc, before, n, next, dispatched, overruns>>

\* app_uart_clear_rx_buf, called when the FIFO overran: the rest of the frame
\* on the wire is gone, too.
clear_rx_buf ==
    /\ pc # "move" /\ overruns < MaxOverruns /\ overruns' = overruns + 1
    /\ buf' = <<>> /\ mark' = 0
    /\ hit' = hit \cup FramesOf(buf) \cup (IF OnTheWay THEN {sending.f} ELSE {})
    /\ sending' = [sending EXCEPT !.i = sending.len + MinFrame]
    /\ UNCHANGED <<pc, before, n, next, dispatched, noise>>

---------------------------------------------------------------------------
\* app_uart_task and app_uart_try_parse_one

Go(where) == pc' = where /\ UNCHANGED <<buf, line, before, n, next, mark, dispatched, hit>>

Loop == /\ pc' = "parse" /\ before' = Len(buf)
        /\ UNCHANGED <<buf, line, n, next, mark, dispatched, hit>>

uart_task == pc = "idle" /\ Len(buf) >= MinFrame /\ Loop

parse_returns == /\ pc = "return"
                 /\ IF Len(buf) >= MinFrame /\ Len(buf) # before THEN Loop ELSE Go("idle")

\* Begin to drop count bytes, then go on elsewhere.
Drop(count, then) == /\ pc' = "drop" /\ n' = count /\ next' = then
                     /\ mark' = Len(buf)
                     /\ UNCHANGED <<buf, line, before, hit>>

IsSync(j) == buf[j].v = S1 /\ buf[j + 1].v = S2
Syncs == {j \in 1..(Len(buf) - 1) : IsSync(j)}

\* No S1 S2: all goes, except an S1 at the very end (n = 1).
find_no_sync == /\ pc = "parse" /\ Len(buf) >= MinFrame /\ Syncs = {}
                /\ pc' = "zero" /\ n' = (IF buf[Len(buf)].v = S1 THEN 1 ELSE 0)
                /\ next' = "return" /\ mark' = Len(buf)
                /\ UNCHANGED <<buf, line, before, dispatched, hit>>

\* Mutant: the search runs on to the last S1 S2.
find_sync_last ==
    /\ pc = "parse" /\ Len(buf) >= MinFrame
    /\ \E start \in Syncs :
        /\ \A j \in Syncs : j <= start
        /\ IF start > 1 THEN Drop(start - 1, "header") /\ UNCHANGED dispatched
           ELSE Go("header")

find_sync ==
    /\ pc = "parse" /\ Len(buf) >= MinFrame
    /\ \E start \in Syncs :
        /\ \A j \in Syncs : start <= j
        /\ IF start > 1 THEN Drop(start - 1, "header") /\ UNCHANGED dispatched
           ELSE Go("header")

PayloadLen == buf[4].v
FrameLen == PayloadLen + MinFrame

HeaderOK == buf[3].v = Version /\ PayloadLen <= MaxPayload /\ FrameLen <= BufSize

crc_ok == /\ buf[1].f # 0
          /\ \A j \in 1..FrameLen : buf[j].f = buf[1].f /\ buf[j].i = j

\* Mutant: a frame that fills the buffered bytes exactly counts as incomplete.
TooShort_by_one == \/ pc \in {"parse", "header"} /\ Len(buf) < MinFrame
                   \/ /\ pc = "header" /\ Len(buf) >= MinFrame /\ HeaderOK
                      /\ Len(buf) <= FrameLen

TooShort == \/ pc \in {"parse", "header"} /\ Len(buf) < MinFrame
            \/ pc = "header" /\ Len(buf) >= MinFrame /\ HeaderOK /\ Len(buf) < FrameLen

too_short == TooShort /\ Go("return")

bad_header == /\ pc = "header" /\ Len(buf) >= MinFrame /\ ~HeaderOK
              /\ Drop(1, "return") /\ UNCHANGED dispatched

Complete == pc = "header" /\ Len(buf) >= MinFrame /\ HeaderOK /\ Len(buf) >= FrameLen

\* Mutant: what does not check is dropped in full.
bad_crc_drops_frame == /\ Complete /\ ~crc_ok
                       /\ Drop(FrameLen, "return") /\ UNCHANGED dispatched

bad_crc == Complete /\ ~crc_ok /\ Drop(1, "return") /\ UNCHANGED dispatched

\* The frame at the head of the buffer, and whether it is a copy throughout
HandedOver == [f |-> buf[1].f, copy |-> \A j \in 1..FrameLen : buf[j].copy]

\* Mutant: the frame is handed over and only its header is dropped.
dispatch_keeps_frame == /\ Complete /\ crc_ok
                        /\ dispatched' = Append(dispatched, HandedOver)
                        /\ pc' = "return"
                        /\ UNCHANGED <<buf, line, before, n, next, mark, hit>>

\* app_uart_dispatch_rsp or app_uart_dispatch_evt, then the frame is dropped.
dispatch == /\ Complete /\ crc_ok
            /\ dispatched' = Append(dispatched, HandedOver)
            /\ Drop(FrameLen, "return")

---------------------------------------------------------------------------
\* app_uart_drop_rx_bytes: the test, then the store or the move.  After a reset
\* since the task looked, bytes are dropped that it never saw.

drop_test == /\ pc = "drop"
             /\ IF n >= Len(buf)
                THEN pc' = "zero" /\ n' = 0 /\ UNCHANGED <<mark, hit>>
                ELSE /\ pc' = "move" /\ mark' = Len(buf) /\ UNCHANGED n
                     /\ hit' = hit \cup FramesOf(SubSeq(buf, mark + 1, n))
             /\ UNCHANGED <<buf, line, before, next, dispatched>>

\* The bytes that came after the task looked
Late == SubSeq(buf, mark + 1, Len(buf))

\* g_uart_soc_rx_len is stored: what came late is gone.
zero == /\ pc = "zero" /\ pc' = next
        /\ buf' = IF n = 0 THEN <<>> ELSE <<IF mark > 0 THEN buf[mark] ELSE Noise(S1)>>
        /\ hit' = hit \cup FramesOf(Late)
        /\ UNCHANGED <<line, before, n, next, mark, dispatched>>

\* memmove, then the new length.  The length is read twice: the bytes that came
\* between the two reads are counted in, and in their places is what lay there.
move == /\ pc = "move" /\ pc' = next
        /\ \E counted \in 0..Len(Late) : buf' = [j \in 1..(mark - n + counted) |->
             IF j <= mark - n THEN buf[n + j]
                              ELSE [buf[j] EXCEPT !.copy = @ \/ j <= mark]]
        /\ hit' = hit \cup FramesOf(Late)
        /\ UNCHANGED <<line, before, n, next, mark, dispatched>>

parser == \/ uart_task \/ parse_returns \/ find_no_sync \/ find_sync \/ too_short
          \/ bad_header \/ bad_crc \/ dispatch \/ drop_test \/ zero \/ move

RxNext == \/ FrameByte \/ FrameBegins \/ (\E v \in NoiseValues : NoiseByte(v))
          \/ clear_rx_buf \/ parser

RxSpec == RxInit /\ [][RxNext]_rxVars

\* The main loop comes round.
FairRxSpec == RxSpec /\ WF_rxVars(parser)

---------------------------------------------------------------------------
\* Properties

Bytes == [v : Nat, f : 0..MaxFrames, i : Nat, copy : BOOLEAN]

\* No byte is stored beyond the end of the buffer, and nothing longer than it is
\* dropped (app_uart.c:36-51, 377-389).
RxTyped ==
    /\ buf \in Seq(Bytes) /\ Len(buf) <= BufSize
    /\ dispatched \in Seq([f : 1..MaxFrames, copy : BOOLEAN])
    /\ sending \in [f : 0..MaxFrames, len : Nat, i : Nat] /\ sending.i \in 1..(sending.len + MinFrame)
    /\ pc \in {"idle", "parse", "header", "drop", "zero", "move", "return"}
    /\ before \in 0..BufSize /\ n \in 0..BufSize /\ mark \in 0..BufSize
    /\ next \in {"header", "return"}
    /\ hit \subseteq 1..MaxFrames /\ noise \in 0..MaxNoise
    /\ overruns \in 0..MaxOverruns

Arrived == {f \in 1..sending.f : f < sending.f \/ ~OnTheWay}

\* All bytes of the frame lie in the buffer, in their order.
Whole(f) == \E j \in DOMAIN buf :
    /\ buf[j].f = f /\ buf[j].i = 1 /\ j + 3 <= Len(buf)
    /\ j + buf[j + 3].v + MinFrame - 1 <= Len(buf)
    /\ \A m \in 1..(buf[j + 3].v + MinFrame) : buf[j + m - 1].f = f /\ buf[j + m - 1].i = m

\* Noise, false headers and damaged neighbours never cost an intact frame: one
\* that lost no byte on the way is handed over or still in the buffer
\* (app_uart.c:234-322, 36-51).
IntactIsKept == \A f \in Arrived :
    \/ f \in hit \/ Whole(f)
    \/ \E j \in DOMAIN dispatched : dispatched[j].f = f

\* Frames of which one byte at least is where it was received are handed over
\* in the order they were sent, and none twice.  A frame made of nothing but the
\* copies a move left behind may be handed over once more (app_uart.c:49-50, 321).
InOrderOnce == \A j, k \in DOMAIN dispatched :
    j < k /\ ~dispatched[j].copy /\ ~dispatched[k].copy
        => dispatched[j].f < dispatched[k].f

\* The receiver is a line that keeps the order and loses only what was damaged:
\* no intact frame is overtaken by a later one, and what comes again was handed
\* over before or is damaged (app_uart.c:36-51, 234-322, 377-389).
Line == INSTANCE OrderedLine WITH sent <- sending.f, spoiled <- hit, got <- dispatched

LineKeepsOrder == Line!Spec

\* Without noise and loss, no frame waits in the buffer for ever
\* (app_uart_task, app_uart.c:396-404).
FrameIsServed == \A f \in 1..MaxFrames :
    (f \in Arrived /\ noise = 0 /\ hit = {})
        ~> (\E j \in DOMAIN dispatched : dispatched[j].f = f) \/ noise > 0 \/ hit # {}
=============================================================================
