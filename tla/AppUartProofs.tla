--------------------------- MODULE AppUartProofs ---------------------------
(***************************************************************************)
(* Proofs about app_uart.c: first about the receiver, for buffers,         *)
(* frames and noise of any size and any number of bytes that arrive        *)
(* during a move: above all that it is a line that keeps its order         *)
(* (OrderedLine). Then about the request table, for tables, counters,      *)
(* timeouts and delays of any size.  The two parts share no definition.    *)
(***************************************************************************)
EXTENDS PendingTable, UartRx, Integers, SequenceTheorems, TLAPS

---------------------------------------------------------------------------
\* The receiver

\* The frame on the wire has a length frames have.
LineInv == IF sending.f = 0 THEN ~OnTheWay ELSE sending.len \in Lengths

\* What is in the buffer was sent, and of the frame on the wire no more than
\* was sent so far.
SentInv == \A p \in DOMAIN buf :
    \/ buf[p].f = 0
    \/ /\ buf[p].f >= 1 /\ buf[p].i >= 1
       /\ \/ buf[p].f < sending.f
          \/ /\ buf[p].f = sending.f /\ buf[p].i <= sending.i
             /\ buf[p].v \in ValuesAt(buf[p].i, sending.len)

\* No byte of a frame lies beyond the length its fourth byte tells.
FitInv == \A p, q \in DOMAIN buf :
    buf[p].f # 0 /\ buf[p].f = buf[q].f /\ buf[p].i = 4
        => buf[q].i <= buf[p].v + MinFrame

\* A byte of a frame in the place where it was received
Own(b) == b.f # 0 /\ ~b.copy

Earlier(b, c) == b.f < c.f \/ (b.f = c.f /\ b.i < c.i)

\* Copies lie behind their originals: a byte in its own place was sent later
\* than everything in front of it.
OrderInv == \A p, q \in DOMAIN buf :
    p < q /\ Own(buf[q]) => Earlier(buf[p], buf[q])

\* The bytes about to be dropped
Leaving(p) == (pc \in {"drop", "move"} /\ p <= n) \/ (pc = "zero" /\ n = 0)

\* A frame handed over was sent, and no byte in its own place belongs to it or
\* to a frame before it.
SentOut(d) == d.f < sending.f \/ (d.f = sending.f /\ ~OnTheWay)
Passed(d) == ~d.copy => \A p \in DOMAIN buf :
                            Own(buf[p]) /\ ~Leaving(p) => d.f < buf[p].f

HandedInv == \A j \in DOMAIN dispatched : SentOut(dispatched[j]) /\ Passed(dispatched[j])

\* What the task remembers while it drops bytes: mark = 0 after a reset.
DropInv == /\ pc = "drop" => n >= 1 /\ (mark = 0 \/ (n <= mark /\ mark <= Len(buf)))
           /\ pc = "move" => n >= 1 /\ n < mark /\ mark <= Len(buf)
           /\ pc = "zero" => n \in {0, 1} /\ mark <= Len(buf)

\* A frame that begins at p is not touched by the bytes being dropped.
Safe(p) == /\ pc = "drop" => mark = 0 \/ p > n
           /\ pc = "move" => p > n
           /\ pc = "zero" => p > mark \/ (n = 1 /\ p = mark)

\* The first count bytes of the frame lie at p and behind it, none of them a copy.
Lies(p, f, len, count) ==
    /\ p + count - 1 <= Len(buf)
    /\ \A q \in p..(p + count - 1) : /\ buf[q].f = f /\ buf[q].i = q - p + 1
                                    /\ buf[q].v \in ValuesAt(q - p + 1, len)
                                    /\ ~buf[q].copy

\* All of the frame, or all of it that was sent, is in the buffer.
HeldAt(f, p, len) ==
    /\ Safe(p)
    /\ \/ f < sending.f /\ Lies(p, f, len, len + MinFrame)
       \/ /\ f = sending.f /\ len = sending.len /\ Lies(p, f, len, sending.i)
          /\ OnTheWay => p + sending.i - 1 = Len(buf)

Held(f) == \E p \in DOMAIN buf, len \in Lengths : HeldAt(f, p, len)

Handed(f) == \E j \in DOMAIN dispatched : dispatched[j].f = f

KeptInv == \A f \in 1..sending.f : f \in hit \/ Handed(f) \/ Held(f)

\* Only frames that were sent lose bytes.
HitInv == hit \subseteq 1..sending.f

USE UartRxAssumption

---------------------------------------------------------------------------
\* What the steps do to the buffer

\* The frames a piece of the buffer has bytes of
LEMMA FramesOfBytes ==
    ASSUME NEW s \in Seq(Bytes)
    PROVE  /\ FramesOf(s) \subseteq 1..MaxFrames
           /\ \A j \in 1..Len(s) : s[j].f # 0 => s[j].f \in FramesOf(s)
<1>1. DOMAIN s = 1..Len(s) /\ \A j \in 1..Len(s) : s[j] \in Bytes
  OBVIOUS
<1>2. \A j \in 1..Len(s) : s[j].f \in 0..MaxFrames
  BY <1>1 DEF Bytes
<1>3. FramesOf(s) \subseteq 1..MaxFrames
  BY <1>1, <1>2 DEF FramesOf
<1>4. QED
  BY <1>1, <1>3 DEF FramesOf

LEMMA FramesOfPiece ==
    ASSUME NEW s \in Seq(Bytes), NEW a \in Nat, NEW b \in Nat, a >= 1, b <= Len(s)
    PROVE  /\ FramesOf(SubSeq(s, a, b)) \subseteq 1..MaxFrames
           /\ \A j \in a..b : s[j].f # 0 => s[j].f \in FramesOf(SubSeq(s, a, b))
<1> DEFINE t == SubSeq(s, a, b)
<1>1. CASE a <= b
  <2>1. /\ t \in Seq(Bytes) /\ Len(t) = b - a + 1
        /\ \A j \in 1..(b - a + 1) : t[j] = s[a + j - 1]
    BY <1>1, SubSeqProperties
  <2>2. \A j \in a..b : j - a + 1 \in 1..Len(t) /\ t[j - a + 1] = s[j]
    BY <2>1
  <2>3. QED
    BY <2>1, <2>2, FramesOfBytes
<1>2. CASE b < a
  <2>1. t = <<>>
    BY <1>2, SubSeqProperties
  <2>2. QED
    BY <1>2, <2>1 DEF FramesOf
<1>3. QED
  BY <1>1, <1>2

LEMMA LateFrames ==
    ASSUME buf \in Seq(Bytes), mark \in Nat
    PROVE  /\ FramesOf(Late) \subseteq 1..MaxFrames
           /\ \A j \in (mark + 1)..Len(buf) : buf[j].f # 0 => buf[j].f \in FramesOf(Late)
<1>1. Len(buf) \in Nat /\ mark + 1 \in Nat /\ mark + 1 >= 1
  OBVIOUS
<1> DEFINE a == mark + 1  b == Len(buf)
<1> HIDE DEF a, b
<1>2. a \in Nat /\ b \in Nat /\ a >= 1 /\ b <= Len(buf)
  BY <1>1 DEF a, b
<1>3. /\ FramesOf(SubSeq(buf, a, b)) \subseteq 1..MaxFrames
      /\ \A j \in a..b : buf[j].f # 0 => buf[j].f \in FramesOf(SubSeq(buf, a, b))
  BY <1>2, FramesOfPiece
<1>4. QED
  BY <1>3 DEF a, b, Late

\* A byte that comes in is appended, or the buffer starts again with it.
Appended(b) == /\ Len(buf) < BufSize /\ Len(buf') = Len(buf) + 1
               /\ \A p \in 1..Len(buf) : buf'[p] = buf[p]
               /\ buf'[Len(buf) + 1] = b
               /\ hit' = hit /\ mark' = mark

StartedWith(b) == /\ pc # "move" /\ mark' = 0
                  /\ hit \subseteq hit' /\ FramesOf(buf) \subseteq hit'
                  /\ hit' \subseteq hit \cup 1..MaxFrames
                  /\ \/ Len(buf') = 1 /\ buf'[1] = b /\ b.v = S1
                     \/ Len(buf') = 0 /\ b.v # S1 /\ (b.f # 0 => b.f \in hit')

LEMMA ReceiveDoes ==
    ASSUME RxTyped, NEW b \in Bytes, Receive(b)
    PROVE  /\ buf' \in Seq(Bytes) /\ (Appended(b) \/ StartedWith(b))
           /\ Len(buf') \in Nat /\ Len(buf') <= BufSize
           /\ hit' \subseteq 1..MaxFrames /\ mark' \in {0, mark}
<1>0. buf \in Seq(Bytes) /\ BufSize >= 1
  BY DEF RxTyped, MinFrame
<1>1. ASSUME Len(buf) < BufSize /\ buf' = Append(buf, b) /\ UNCHANGED <<hit, mark>>
      PROVE  buf' \in Seq(Bytes) /\ Appended(b)
  BY <1>0, <1>1, AppendProperties DEF Appended
<1>2. ASSUME /\ Len(buf) >= BufSize /\ pc # "move" /\ mark' = 0
             /\ buf' = IF b.v = S1 THEN <<b>> ELSE <<>>
             /\ hit' = hit \cup FramesOf(buf) \cup (IF b.v = S1 THEN {} ELSE FramesOf(<<b>>))
      PROVE  buf' \in Seq(Bytes) /\ StartedWith(b)
  <2>1. <<b>> \in Seq(Bytes) /\ Len(<<b>>) = 1 /\ <<b>>[1] = b
    OBVIOUS
  <2>2. FramesOf(buf) \subseteq 1..MaxFrames /\ FramesOf(<<b>>) \subseteq 1..MaxFrames
    BY <1>0, <2>1, FramesOfBytes
  <2>3. b.f # 0 => b.f \in FramesOf(<<b>>)
    <3>1. 1 \in 1..Len(<<b>>)
      BY <2>1
    <3>2. <<b>>[1].f # 0 => <<b>>[1].f \in FramesOf(<<b>>)
      BY <2>1, <3>1, FramesOfBytes
    <3>3. QED
      BY <2>1, <3>2
  <2>4. CASE b.v = S1
    BY <1>2, <2>1, <2>2, <2>4 DEF StartedWith
  <2>5. CASE b.v # S1
    BY <1>2, <2>2, <2>3, <2>5 DEF StartedWith
  <2>6. QED
    BY <2>4, <2>5
<1>3. buf' \in Seq(Bytes) /\ (Appended(b) \/ StartedWith(b))
  BY <1>1, <1>2 DEF Receive
<1>4. Len(buf) \in Nat /\ hit \subseteq 1..MaxFrames
  BY DEF RxTyped
<1>5. CASE Appended(b)
  <2>1. Len(buf) < BufSize /\ Len(buf') = Len(buf) + 1 /\ hit' = hit /\ mark' = mark
    BY <1>5 DEF Appended
  <2>2. QED
    BY <1>3, <1>4, <2>1
<1>6. CASE StartedWith(b)
  <2>1. /\ Len(buf') = 0 \/ Len(buf') = 1
        /\ hit' \subseteq hit \cup 1..MaxFrames /\ mark' = 0
    BY <1>6 DEF StartedWith
  <2>2. Len(buf') \in Nat /\ Len(buf') <= BufSize
    <3>1. CASE Len(buf') = 0
      BY <3>1
    <3>2. CASE Len(buf') = 1
      BY <1>0, <3>2
    <3>3. QED
      BY <2>1, <3>1, <3>2
  <2>3. hit' \subseteq 1..MaxFrames
    BY <1>4, <2>1
  <2>4. QED
    BY <1>3, <2>1, <2>2, <2>3
<1>7. QED
  BY <1>3, <1>5, <1>6

\* The task looks at the buffer, or has it shortened; the line is left alone.
Looks == /\ pc \in {"idle", "return", "parse", "header", "drop"}
         /\ UNCHANGED <<buf, line>>

\* What a move leaves: the bytes behind the dropped ones, and copies.
Moved(counted) ==
    /\ counted \in 0..(Len(buf) - mark)
    /\ Len(buf') = mark - n + counted
    /\ \A j \in 1..(mark - n) : buf'[j] = buf[n + j]
    /\ \A j \in (mark - n + 1)..(mark - n + counted) :
         buf'[j] = [buf[j] EXCEPT !.copy = @ \/ j <= mark]

LEMMA MoveDoes ==
    ASSUME RxTyped, DropInv, move
    PROVE  /\ \E counted \in Nat : Moved(counted)
           /\ buf' \in Seq(Bytes) /\ Len(buf') < Len(buf)
           /\ hit \subseteq hit' /\ hit' \subseteq hit \cup 1..MaxFrames
           /\ \A j \in (mark + 1)..Len(buf) : buf[j].f # 0 => buf[j].f \in hit'
<1>0. /\ buf \in Seq(Bytes) /\ n \in Nat /\ mark \in Nat /\ Len(buf) \in Nat
      /\ n >= 1 /\ n < mark /\ mark <= Len(buf)
  BY DEF RxTyped, DropInv, move
<1>1. Late = SubSeq(buf, mark + 1, Len(buf))
  BY DEF Late
<1>2. Len(Late) = Len(buf) - mark
  BY <1>0, <1>1, SubSeqProperties
<1> DEFINE Left(j) == [buf[j] EXCEPT !.copy = @ \/ j <= mark]
           At(j) == IF j <= mark - n THEN buf[n + j] ELSE Left(j)
<1>3. PICK counted \in 0..(Len(buf) - mark) :
        buf' = [j \in 1..(mark - n + counted) |-> At(j)]
  BY <1>2 DEF move
<1> DEFINE size == mark - n + counted
<1>4. size \in Nat /\ size < Len(buf) /\ mark - n <= size
  BY <1>0
<1>5. \A j \in 1..Len(buf) : Left(j) \in Bytes
  <2>1. ASSUME NEW b \in Bytes, NEW x \in BOOLEAN
        PROVE  [b EXCEPT !.copy = x] \in Bytes
    BY DEF Bytes
  <2> TAKE j \in 1..Len(buf)
  <2>2. buf[j] \in Bytes
    BY <1>0
  <2>3. (buf[j].copy \/ j <= mark) \in BOOLEAN
    OBVIOUS
  <2>4. QED
    BY <2>1, <2>2, <2>3
<1> HIDE DEF Left
<1>6. \A j \in 1..size : At(j) \in Bytes
  <2> TAKE j \in 1..size
  <2>1. CASE j <= mark - n
    <3>1. n + j \in 1..Len(buf)
      BY <1>0, <2>1
    <3>2. QED
      BY <1>0, <2>1, <3>1
  <2>2. CASE ~(j <= mark - n)
    <3>1. j \in 1..Len(buf)
      BY <1>0, <1>4
    <3>2. QED
      BY <1>5, <2>2, <3>1
  <2>3. QED
    BY <2>1, <2>2
<1>7. buf' \in Seq(Bytes) /\ Len(buf') = size /\ Moved(counted)
  <2>1. buf' = [j \in 1..size |-> At(j)]
    BY <1>3
  <2>2. /\ \A j \in 1..(mark - n) : buf'[j] = buf[n + j]
        /\ \A j \in (mark - n + 1)..size : buf'[j] = Left(j)
    BY <1>0, <1>4, <2>1
  <2> HIDE DEF At
  <2>3. buf' \in Seq(Bytes) /\ Len(buf') = size
    <3> HIDE DEF size
    <3>1. buf' \in [1..size -> Bytes]
      BY <1>6, <2>1
    <3>2. QED
      BY <1>4, <3>1
  <2>4. QED
    BY <2>2, <2>3 DEF Moved, Left
<1>8. hit' = hit \cup FramesOf(Late)
  BY DEF move
<1>9. /\ FramesOf(Late) \subseteq 1..MaxFrames
      /\ \A j \in (mark + 1)..Len(buf) : buf[j].f # 0 => buf[j].f \in FramesOf(Late)
  BY <1>0, <1>1, LateFrames
<1>10. QED
  BY <1>4, <1>7, <1>8, <1>9

\* A store of the length leaves nothing, or the S1 at the end of what the task saw.
Cleared == \/ n = 0 /\ Len(buf') = 0
           \/ /\ n = 1 /\ Len(buf') = 1
              /\ buf'[1] = IF mark > 0 THEN buf[mark] ELSE Noise(S1)

LEMMA ZeroDoes ==
    ASSUME RxTyped, DropInv, zero
    PROVE  /\ Cleared
           /\ buf' \in Seq(Bytes) /\ Len(buf') <= BufSize
           /\ hit \subseteq hit' /\ hit' \subseteq hit \cup 1..MaxFrames
           /\ \A j \in (mark + 1)..Len(buf) : buf[j].f # 0 => buf[j].f \in hit'
<1>0. /\ buf \in Seq(Bytes) /\ mark \in Nat /\ Len(buf) \in Nat
      /\ n \in {0, 1} /\ mark <= Len(buf) /\ 1 <= BufSize
  BY DEF RxTyped, DropInv, zero, MinFrame
<1>1. Late = SubSeq(buf, mark + 1, Len(buf))
  BY DEF Late
<1>2. /\ FramesOf(Late) \subseteq 1..MaxFrames
      /\ \A j \in (mark + 1)..Len(buf) : buf[j].f # 0 => buf[j].f \in FramesOf(Late)
  BY <1>0, <1>1, LateFrames
<1>3. hit' = hit \cup FramesOf(Late)
  BY DEF zero
<1> DEFINE b == IF mark > 0 THEN buf[mark] ELSE Noise(S1)
<1>4. b \in Bytes
  <2>1. CASE mark > 0
    BY <1>0, <2>1
  <2>2. CASE ~(mark > 0)
    BY <2>2 DEF Bytes, Noise, S1
  <2>3. QED
    BY <2>1, <2>2
<1>5. buf' = IF n = 0 THEN <<>> ELSE <<b>>
  BY DEF zero
<1>6. Cleared /\ buf' \in Seq(Bytes) /\ Len(buf') <= BufSize
  <2> HIDE DEF b
  <2>1. CASE n = 0
    BY <1>0, <1>5, <2>1 DEF Cleared
  <2>2. CASE n = 1
    <3>1. <<b>> \in Seq(Bytes) /\ Len(<<b>>) = 1 /\ <<b>>[1] = b
      BY <1>4
    <3>2. QED
      BY <1>0, <1>5, <2>2, <3>1 DEF Cleared, b
  <2>3. QED
    BY <1>0, <2>1, <2>2
<1>7. QED
  BY <1>2, <1>3, <1>6

---------------------------------------------------------------------------
\* The next byte of a frame

\* It continues the frame on the wire or begins the next one.
NextByte(b) ==
    /\ b \in Bytes /\ Receive(b) /\ ~b.copy
    /\ b.f = sending'.f /\ b.i = sending'.i /\ b.v \in ValuesAt(b.i, sending'.len)
    /\ \/ OnTheWay /\ sending' = [sending EXCEPT !.i = sending.i + 1]
       \/ /\ ~OnTheWay /\ sending'.f = sending.f + 1 /\ sending'.i = 1
          /\ sending'.len \in Lengths
    /\ sending' \in [f : 1..MaxFrames, len : Nat, i : Nat]
    /\ 1 <= sending'.i /\ sending'.i <= sending'.len + MinFrame
    /\ UNCHANGED <<pc, before, n, next, dispatched, noise, overruns>>

LEMMA ValuesNat ==
    ASSUME NEW i \in Nat, NEW len \in Nat
    PROVE  ValuesAt(i, len) \subseteq Nat
  BY DEF ValuesAt, S1, S2, Version

LEMMA ByteDoes ==
    ASSUME RxTyped, sending.f > 0 \/ ~OnTheWay, FrameByte \/ FrameBegins
    PROVE  \E b \in Bytes : NextByte(b)
<1>0. /\ sending \in [f : 0..MaxFrames, len : Nat, i : Nat]
      /\ 1 <= sending.i /\ sending.i <= sending.len + MinFrame
  BY DEF RxTyped
<1>1. ASSUME NEW f \in 1..MaxFrames, NEW len \in Nat, NEW i \in Nat, 1 <= i,
             i <= len + MinFrame, Byte(f, len, i),
             \/ OnTheWay /\ f = sending.f /\ len = sending.len /\ i = sending.i + 1
             \/ ~OnTheWay /\ f = sending.f + 1 /\ i = 1 /\ len \in Lengths
      PROVE  \E b \in Bytes : NextByte(b)
  <2>1. PICK v \in ValuesAt(i, len) : Receive([v |-> v, f |-> f, i |-> i, copy |-> FALSE])
    BY <1>1 DEF Byte
  <2> DEFINE b == [v |-> v, f |-> f, i |-> i, copy |-> FALSE]
  <2>2. v \in Nat
    BY ValuesNat
  <2>3. b \in Bytes /\ b.v = v /\ b.f = f /\ b.i = i /\ ~b.copy
    BY <2>2 DEF Bytes
  <2>4. sending' = [f |-> f, len |-> len, i |-> i]
    BY <1>1 DEF Byte
  <2>5. /\ sending'.f = f /\ sending'.len = len /\ sending'.i = i
        /\ sending' \in [f : 1..MaxFrames, len : Nat, i : Nat]
    BY <2>4
  <2>6. OnTheWay => sending' = [sending EXCEPT !.i = sending.i + 1]
    BY <1>0, <1>1, <2>4
  <2>7. UNCHANGED <<pc, before, n, next, dispatched, noise, overruns>>
    BY <1>1 DEF Byte
  <2> HIDE DEF b
  <2>8. Receive(b)
    BY <2>1 DEF b
  <2>9. NextByte(b)
    BY <1>1, <2>1, <2>3, <2>5, <2>6, <2>7, <2>8 DEF NextByte
  <2>10. QED
    BY <2>3, <2>9
<1>2. CASE FrameByte
  <2>1. OnTheWay /\ Byte(sending.f, sending.len, sending.i + 1)
    BY <1>2 DEF FrameByte
  <2>2. sending.i + 1 <= sending.len + MinFrame
    BY <1>0, <2>1 DEF OnTheWay, MinFrame
  <2>3. QED
    BY <1>0, <1>1, <2>1, <2>2
<1>3. CASE FrameBegins
  <2>1. PICK len \in Lengths : Byte(sending.f + 1, len, 1)
    BY <1>3 DEF FrameBegins
  <2>2. len \in Nat /\ 1 <= len + MinFrame
    BY DEF MinFrame
  <2>3. ~OnTheWay /\ sending.f + 1 \in 1..MaxFrames
    BY <1>0, <1>3 DEF FrameBegins
  <2>4. QED
    BY <1>1, <2>1, <2>2, <2>3
<1>4. QED
  BY <1>2, <1>3

---------------------------------------------------------------------------
\* The types, and what the task remembers

\* The task begins to drop count bytes of those it saw.
Drops(count) == /\ pc \in {"parse", "header"} /\ pc' = "drop"
                /\ count \in 1..BufSize /\ count <= Len(buf)
                /\ n' = count /\ mark' = Len(buf) /\ next' \in {"header", "return"}
                /\ UNCHANGED <<buf, line, before, hit>>

\* The bytes in front of the first S1 S2 go.
Skips == \E start \in Syncs : /\ \A j \in Syncs : start <= j
                             /\ Drops(start - 1) /\ UNCHANGED dispatched

LEMMA HeadOfBuf ==
    ASSUME RxTyped, Complete
    PROVE  /\ buf \in Seq(Bytes) /\ FrameLen \in 5..BufSize /\ FrameLen <= Len(buf)
           /\ buf[1] \in Bytes /\ buf[4] \in Bytes /\ FrameLen = buf[4].v + MinFrame
<1>1. buf \in Seq(Bytes) /\ Len(buf) >= 5 /\ FrameLen <= BufSize /\ FrameLen <= Len(buf)
  BY DEF RxTyped, Complete, HeaderOK, MinFrame
<1>2. buf[1] \in Bytes /\ buf[4] \in Bytes
  BY <1>1
<1>3. buf[4].v \in Nat
  BY <1>2 DEF Bytes
<1>4. QED
  BY <1>1, <1>2, <1>3 DEF FrameLen, PayloadLen, MinFrame

LEMMA SyncsDrop ==
    ASSUME RxTyped, find_sync
    PROVE  \/ pc = "parse" /\ pc' = "header" /\ UNCHANGED <<buf, line, before, n, next, mark, dispatched, hit>>
           \/ Skips
<1>1. PICK start \in Syncs :
        /\ \A j \in Syncs : start <= j
        /\ IF start > 1 THEN Drop(start - 1, "header") /\ UNCHANGED dispatched
                        ELSE Go("header")
  BY DEF find_sync
<1>2. start \in 1..(Len(buf) - 1) /\ Len(buf) \in Nat /\ Len(buf) <= BufSize
  BY DEF Syncs, RxTyped
<1>3. CASE start > 1
  <2>1. start - 1 \in 1..BufSize /\ start - 1 <= Len(buf)
    BY <1>2, <1>3
  <2>2. Drops(start - 1) /\ UNCHANGED dispatched
    BY <1>1, <1>3, <2>1 DEF find_sync, Drop, Drops
  <2>3. QED
    BY <1>1, <1>3, <2>2 DEF Skips
<1>4. CASE ~(start > 1)
  BY <1>1, <1>4 DEF find_sync, Go
<1>5. QED
  BY <1>3, <1>4

\* A bad header or CRC costs one byte.
LEMMA BadDrops ==
    ASSUME RxTyped, bad_header \/ bad_crc
    PROVE  Drops(1) /\ pc = "header" /\ UNCHANGED dispatched
  BY DEF RxTyped, bad_header, bad_crc, Complete, Drop, Drops, MinFrame

LEMMA DispatchDrops ==
    ASSUME RxTyped, dispatch
    PROVE  /\ Drops(FrameLen) /\ pc = "header" /\ Complete /\ crc_ok
           /\ dispatched' = Append(dispatched, HandedOver)
           /\ HandedOver \in [f : 1..MaxFrames, copy : BOOLEAN]
           /\ HandedOver.f = buf[1].f
           /\ HandedOver.copy <=> \A j \in 1..FrameLen : buf[j].copy
<1>1. Complete /\ crc_ok /\ dispatched' = Append(dispatched, HandedOver)
  BY DEF dispatch
<1>2. Drops(FrameLen) /\ pc = "header"
  BY <1>1, HeadOfBuf DEF dispatch, Complete, Drop, Drops
<1>3. buf[1].f \in 1..MaxFrames
  <2>1. buf[1] \in Bytes
    BY <1>1, HeadOfBuf
  <2>2. buf[1].f \in 0..MaxFrames
    BY <2>1 DEF Bytes
  <2>3. QED
    BY <1>1, <2>2 DEF crc_ok
<1> DEFINE c == \A j \in 1..FrameLen : buf[j].copy
<1>4. c \in BOOLEAN
  OBVIOUS
<1>5. HandedOver = [f |-> buf[1].f, copy |-> c]
  BY DEF HandedOver
<1> HIDE DEF c
<1>6. /\ HandedOver \in [f : 1..MaxFrames, copy : BOOLEAN]
      /\ HandedOver.f = buf[1].f /\ HandedOver.copy = c
  BY <1>3, <1>4, <1>5
<1>7. QED
  BY <1>1, <1>2, <1>6 DEF c

\* Steps of the task that only move it on
Strolls == /\ pc \in {"idle", "parse", "header", "return"}
           /\ pc' \in {"idle", "parse", "header", "return"}
           /\ before' \in {before, Len(buf)}
           /\ UNCHANGED <<buf, line, n, next, mark, dispatched, hit>>

LEMMA StrollsOn ==
    ASSUME RxTyped, uart_task \/ parse_returns \/ too_short
    PROVE  Strolls
  BY DEF uart_task, parse_returns, too_short, TooShort, Loop, Go, Strolls

\* Every step is of one of these kinds.
LEMMA Kinds ==
    ASSUME RxTyped, LineInv, [RxNext]_rxVars
    PROVE  \/ \E b \in Bytes : NextByte(b)
           \/ \E v \in NoiseValues : NoiseByte(v)
           \/ clear_rx_buf \/ Strolls \/ find_no_sync \/ Skips
           \/ bad_header \/ bad_crc \/ dispatch \/ drop_test \/ zero \/ move
           \/ UNCHANGED rxVars
<1>1. CASE FrameByte \/ FrameBegins
  <2>1. sending.f > 0 \/ ~OnTheWay
    BY DEF LineInv, RxTyped
  <2>2. QED
    BY <1>1, <2>1, ByteDoes
<1>2. CASE uart_task \/ parse_returns \/ too_short
  BY <1>2, StrollsOn
<1>3. CASE find_sync
  <2>1. CASE pc = "parse" /\ pc' = "header" /\ UNCHANGED <<buf, line, before, n, next, mark, dispatched, hit>>
    BY <2>1 DEF Strolls
  <2>2. QED
    BY <1>3, <2>1, SyncsDrop DEF Skips
<1>4. QED
  BY <1>1, <1>2, <1>3 DEF RxNext, parser

LEMMA ArrivalDropInv ==
    ASSUME RxTyped, DropInv, NEW b \in Bytes, UNCHANGED <<pc, n>>,
           Appended(b) \/ StartedWith(b)
    PROVE  DropInv'
<1>1. Len(buf) \in Nat /\ mark \in Nat /\ n \in Nat
  BY DEF RxTyped
<1>2. CASE Appended(b)
  <2>1. Len(buf') = Len(buf) + 1 /\ mark' = mark
    BY <1>2 DEF Appended
  <2>2. QED
    BY <1>1, <2>1 DEF DropInv
<1>3. CASE StartedWith(b)
  <2>1. Len(buf') \in {0, 1} /\ mark' = 0 /\ pc # "move"
    BY <1>3 DEF StartedWith
  <2>2. QED
    BY <1>1, <2>1 DEF DropInv
<1>4. QED
  BY <1>2, <1>3

LEMMA RxTypeStep ==
    ASSUME RxTyped, LineInv, DropInv, [RxNext]_rxVars
    PROVE  RxTyped' /\ LineInv' /\ DropInv'
<1>0. /\ buf \in Seq(Bytes) /\ Len(buf) \in Nat /\ Len(buf) <= BufSize /\ BufSize >= 1
      /\ mark \in Nat /\ n \in Nat
  BY DEF RxTyped, MinFrame
<1>1. ASSUME NEW b \in Bytes, NextByte(b)
      PROVE  RxTyped' /\ LineInv' /\ DropInv'
  <2>1. /\ buf' \in Seq(Bytes) /\ (Appended(b) \/ StartedWith(b))
        /\ Len(buf') \in Nat /\ Len(buf') <= BufSize
        /\ hit' \subseteq 1..MaxFrames /\ mark' \in {0, mark}
    BY <1>1, ReceiveDoes DEF NextByte
  <2> HIDE DEF Bytes
  <2>2. /\ sending' \in [f : 0..MaxFrames, len : Nat, i : Nat]
        /\ sending'.i \in 1..(sending'.len + MinFrame)
    BY <1>1 DEF NextByte, MinFrame
  <2>3. UNCHANGED <<pc, before, n, next, dispatched, noise, overruns>>
    BY <1>1 DEF NextByte
  <2>4. RxTyped'
    BY <2>1, <2>2, <2>3 DEF RxTyped
  <2>5. LineInv'
    <3>1. sending'.f \in 1..MaxFrames
      BY <1>1 DEF NextByte
    <3>2. sending'.len \in Lengths
      BY <1>1 DEF NextByte, LineInv, RxTyped
    <3>3. QED
      BY <3>1, <3>2 DEF LineInv
  <2>6. DropInv'
    BY <1>0, <2>1, <2>3, ArrivalDropInv
  <2>7. QED
    BY <2>4, <2>5, <2>6
<1>2. ASSUME NEW v \in NoiseValues, NoiseByte(v)
      PROVE  RxTyped' /\ LineInv' /\ DropInv'
  <2>1. Noise(v) \in Bytes
    BY DEF Bytes, Noise
  <2>2. /\ buf' \in Seq(Bytes) /\ (Appended(Noise(v)) \/ StartedWith(Noise(v)))
        /\ Len(buf') \in Nat /\ Len(buf') <= BufSize
        /\ hit' \subseteq 1..MaxFrames /\ mark' \in {0, mark}
    BY <1>2, <2>1, ReceiveDoes DEF NoiseByte
  <2>3. noise' \in 0..MaxNoise
    BY <1>2 DEF NoiseByte, RxTyped
  <2>4. UNCHANGED <<sending, pc, before, n, next, dispatched, overruns>>
    BY <1>2 DEF NoiseByte
  <2>5. RxTyped'
    BY <2>2, <2>3, <2>4 DEF RxTyped
  <2>6. LineInv'
    BY <1>2 DEF NoiseByte, LineInv, OnTheWay
  <2>7. DropInv'
    BY <2>1, <2>2, <2>4, ArrivalDropInv
  <2>8. QED
    BY <2>5, <2>6, <2>7
<1>3. CASE clear_rx_buf
  <2>1. buf' = <<>> /\ Len(buf') = 0 /\ buf' \in Seq(Bytes)
    BY <1>3 DEF clear_rx_buf
  <2>2. hit' \subseteq 1..MaxFrames
    <3>1. FramesOf(buf) \subseteq 1..MaxFrames
      BY FramesOfBytes DEF RxTyped
    <3>2. hit \subseteq 1..MaxFrames /\ sending.f \in 0..MaxFrames
      BY DEF RxTyped
    <3>3. OnTheWay => sending.f \in 1..MaxFrames
      BY <3>2, <1>0 DEF LineInv
    <3>4. hit' = hit \cup FramesOf(buf) \cup (IF OnTheWay THEN {sending.f} ELSE {})
      BY <1>3 DEF clear_rx_buf
    <3>5. QED
      BY <3>1, <3>2, <3>3, <3>4
  <2>3. /\ sending' \in [f : 0..MaxFrames, len : Nat, i : Nat]
        /\ sending'.f = sending.f /\ sending'.len = sending.len
        /\ sending'.i = sending.len + MinFrame
    <3>1. sending \in [f : 0..MaxFrames, len : Nat, i : Nat]
      BY DEF RxTyped
    <3>2. sending' = [sending EXCEPT !.i = sending.len + MinFrame]
      BY <1>3 DEF clear_rx_buf
    <3>3. QED
      BY <3>1, <3>2 DEF MinFrame
  <2>4. /\ sending'.i \in 1..(sending'.len + MinFrame) /\ overruns' \in 0..MaxOverruns
        /\ mark' = 0 /\ UNCHANGED <<pc, before, n, next, dispatched, noise>>
    <3>1. sending'.i \in 1..(sending'.len + MinFrame)
      BY <2>3 DEF MinFrame
    <3>2. /\ overruns \in 0..MaxOverruns /\ overruns < MaxOverruns /\ overruns' = overruns + 1
          /\ mark' = 0 /\ UNCHANGED <<pc, before, n, next, dispatched, noise>>
      BY <1>3 DEF clear_rx_buf, RxTyped
    <3>3. QED
      BY <3>1, <3>2
  <2>8. RxTyped'
    BY <1>0, <2>1, <2>2, <2>3, <2>4 DEF RxTyped
  <2>5. LineInv'
    BY <2>3 DEF LineInv, OnTheWay, RxTyped
  <2>6. DropInv'
    BY <1>3, <2>1 DEF clear_rx_buf, DropInv
  <2>7. QED
    BY <2>5, <2>6, <2>8
<1>4. CASE Strolls
  BY <1>0, <1>4 DEF Strolls, line, RxTyped, LineInv, OnTheWay, DropInv
<1>5. CASE find_no_sync
  BY <1>0, <1>5 DEF find_no_sync, line, RxTyped, LineInv, OnTheWay, DropInv
<1>6. ASSUME NEW count, Drops(count),
             \/ UNCHANGED dispatched
             \/ dispatched' \in Seq([f : 1..MaxFrames, copy : BOOLEAN])
      PROVE  RxTyped' /\ LineInv' /\ DropInv'
  BY <1>0, <1>6 DEF Drops, line, RxTyped, LineInv, OnTheWay, DropInv
<1>7. CASE Skips
  BY <1>6, <1>7 DEF Skips
<1>8. CASE bad_header \/ bad_crc
  BY <1>6, <1>8, BadDrops
<1>9. CASE dispatch
  <2>1. dispatched' \in Seq([f : 1..MaxFrames, copy : BOOLEAN])
    <3>1. dispatched \in Seq([f : 1..MaxFrames, copy : BOOLEAN])
      BY DEF RxTyped
    <3>2. /\ dispatched' = Append(dispatched, HandedOver)
          /\ HandedOver \in [f : 1..MaxFrames, copy : BOOLEAN]
      BY <1>9, DispatchDrops
    <3>3. QED
      BY <3>1, <3>2, AppendProperties
  <2>2. QED
    BY <1>6, <1>9, <2>1, DispatchDrops
<1>10. CASE drop_test
  <2>1. hit' \subseteq 1..MaxFrames
    <3>1. CASE n >= Len(buf)
      BY <1>10, <3>1 DEF drop_test, RxTyped
    <3>2. CASE ~(n >= Len(buf))
      <4>1. FramesOf(SubSeq(buf, mark + 1, n)) \subseteq 1..MaxFrames
        BY <1>0, <3>2, FramesOfPiece
      <4>2. QED
        BY <1>10, <3>2, <4>1 DEF drop_test, RxTyped
    <3>3. QED
      BY <3>1, <3>2
  <2>2. UNCHANGED <<buf, line, before, next, dispatched>>
    BY <1>10 DEF drop_test
  <2>3. pc' \in {"zero", "move"} /\ n' \in 0..BufSize /\ mark' \in 0..BufSize
    BY <1>0, <1>10 DEF drop_test, RxTyped
  <2>4. RxTyped' /\ LineInv'
    BY <1>0, <2>1, <2>2, <2>3 DEF line, RxTyped, LineInv, OnTheWay
  <2>5. DropInv'
    BY <1>0, <1>10, <2>2 DEF drop_test, DropInv
  <2>6. QED
    BY <2>4, <2>5
<1>11. ASSUME zero \/ move, buf' \in Seq(Bytes), Len(buf') <= BufSize,
              hit' \subseteq 1..MaxFrames
       PROVE  RxTyped' /\ LineInv' /\ DropInv'
  <2>1. pc' = next /\ UNCHANGED <<line, before, n, next, mark, dispatched>>
    BY <1>11 DEF zero, move
  <2>2. RxTyped' /\ LineInv'
    BY <1>11, <2>1 DEF line, RxTyped, LineInv, OnTheWay
  <2>3. DropInv'
    BY <2>1 DEF DropInv, RxTyped
  <2>4. QED
    BY <2>2, <2>3
<1> hit \subseteq 1..MaxFrames
  BY DEF RxTyped
<1>12. CASE zero
  <2>1. buf' \in Seq(Bytes) /\ Len(buf') <= BufSize /\ hit' \subseteq 1..MaxFrames
    BY <1>12, ZeroDoes
  <2>2. QED
    BY <1>11, <1>12, <2>1
<1>13. CASE move
  <2>1. buf' \in Seq(Bytes) /\ Len(buf') < Len(buf) /\ hit' \subseteq 1..MaxFrames
    BY <1>13, MoveDoes
  <2>2. Len(buf') <= BufSize
    BY <1>0, <2>1
  <2>3. QED
    BY <1>11, <1>13, <2>1, <2>2
<1>14. CASE UNCHANGED rxVars
  BY <1>14 DEF rxVars, line, RxTyped, LineInv, OnTheWay, DropInv
<1>15. QED
  BY <1>1, <1>2, <1>3, <1>4, <1>5, <1>7, <1>8, <1>9, <1>10, <1>12, <1>13, <1>14, Kinds

---------------------------------------------------------------------------
\* Sent, in their place and in their order

\* Each byte of the buffer is one that lay there before, or noise.
Taken == \A p \in DOMAIN buf' :
    \/ buf'[p].f = 0
    \/ \E q \in DOMAIN buf : /\ buf'[p].f = buf[q].f /\ buf'[p].i = buf[q].i
                             /\ buf'[p].v = buf[q].v

LEMMA TakenStep ==
    ASSUME RxTyped, SentInv, FitInv, Taken, sending' = sending
    PROVE  SentInv' /\ FitInv'
<1>1. SentInv'
  BY DEF SentInv, Taken
<1>2. FitInv'
  <2> SUFFICES ASSUME NEW p \in DOMAIN buf', NEW q \in DOMAIN buf',
                      buf'[p].f # 0, buf'[p].f = buf'[q].f, buf'[p].i = 4
               PROVE  buf'[q].i <= buf'[p].v + MinFrame
    BY DEF FitInv
  <2>1. PICK a \in DOMAIN buf : /\ buf'[p].f = buf[a].f /\ buf'[p].i = buf[a].i
                                /\ buf'[p].v = buf[a].v
    BY DEF Taken
  <2>2. PICK b \in DOMAIN buf : /\ buf'[q].f = buf[b].f /\ buf'[q].i = buf[b].i
                                /\ buf'[q].v = buf[b].v
    BY DEF Taken
  <2>3. buf[b].i <= buf[a].v + MinFrame
    BY <2>1, <2>2 DEF FitInv
  <2>4. QED
    BY <2>1, <2>2, <2>3
<1>3. QED
  BY <1>1, <1>2

\* The bytes in the buffer are numbered by naturals.
LEMMA BufFacts ==
    ASSUME RxTyped
    PROVE  /\ buf \in Seq(Bytes) /\ DOMAIN buf = 1..Len(buf) /\ Len(buf) \in Nat
           /\ \A p \in DOMAIN buf : /\ buf[p].f \in 0..MaxFrames /\ buf[p].v \in Nat
                                    /\ buf[p].i \in Nat
           /\ n \in Nat /\ mark \in Nat
           /\ sending.f \in Nat /\ sending.i \in Nat /\ sending.len \in Nat
<1>1. buf \in Seq(Bytes) /\ DOMAIN buf = 1..Len(buf) /\ Len(buf) \in Nat
  BY DEF RxTyped
<1>2. \A p \in DOMAIN buf : buf[p] \in Bytes
  BY <1>1
<1>3. \A p \in DOMAIN buf : /\ buf[p].f \in 0..MaxFrames /\ buf[p].v \in Nat
                            /\ buf[p].i \in Nat
  BY <1>2 DEF Bytes
<1>4. sending \in [f : 0..MaxFrames, len : Nat, i : Nat] /\ n \in Nat /\ mark \in Nat
  BY DEF RxTyped
<1>5. QED
  BY <1>1, <1>3, <1>4

\* Where a byte comes from that a move left at q
Origin(q) == IF q <= mark - n THEN n + q ELSE q

LEMMA MoveOrigins ==
    ASSUME RxTyped, DropInv, move, NEW q \in DOMAIN buf'
    PROVE  /\ Origin(q) \in DOMAIN buf
           /\ buf'[q].f = buf[Origin(q)].f /\ buf'[q].i = buf[Origin(q)].i
           /\ buf'[q].v = buf[Origin(q)].v
           /\ Own(buf'[q]) => Own(buf[Origin(q)]) /\ (q <= mark - n \/ q > mark)
<1>1. PICK counted \in Nat : Moved(counted)
  BY MoveDoes
<1>2. buf' \in Seq(Bytes) /\ DOMAIN buf' = 1..Len(buf')
  BY MoveDoes
<1>3. /\ DOMAIN buf = 1..Len(buf) /\ Len(buf) \in Nat /\ n \in Nat /\ mark \in Nat
      /\ n < mark /\ mark <= Len(buf)
  BY BufFacts DEF DropInv, move
<1>4. q \in 1..(mark - n + counted) /\ counted <= Len(buf) - mark
  <2>1. Len(buf') = mark - n + counted /\ counted <= Len(buf) - mark
    BY <1>1 DEF Moved
  <2>2. q \in 1..Len(buf')
    BY <1>2
  <2>3. QED
    BY <2>1, <2>2
<1>5. CASE q <= mark - n
  <2>1. buf'[q] = buf[n + q] /\ n + q \in DOMAIN buf
    <3>1. q \in 1..(mark - n) /\ n + q \in 1..Len(buf)
      BY <1>3, <1>4, <1>5
    <3>2. buf'[q] = buf[n + q]
      BY <1>1, <3>1 DEF Moved
    <3>3. QED
      BY <1>3, <3>1, <3>2
  <2>2. QED
    BY <1>5, <2>1 DEF Origin
<1>6. CASE q > mark - n
  <2>1. q \in (mark - n + 1)..(mark - n + counted) /\ q \in DOMAIN buf
    BY <1>3, <1>4, <1>6
  <2>2. buf'[q] = [buf[q] EXCEPT !.copy = @ \/ q <= mark]
    BY <1>1, <2>1 DEF Moved
  <2>3. buf[q] \in Bytes
    BY <2>1, BufFacts
  <2>4. /\ buf'[q].f = buf[q].f /\ buf'[q].i = buf[q].i /\ buf'[q].v = buf[q].v
        /\ buf'[q].copy <=> (buf[q].copy \/ q <= mark)
    BY <2>2, <2>3 DEF Bytes
  <2>5. ~(q <= mark - n) /\ (~(q <= mark) => q > mark)
    BY <1>3, <1>4, <1>6
  <2>6. QED
    BY <2>1, <2>4, <2>5 DEF Origin, Own
<1>7. QED
  BY <1>3, <1>4, <1>5, <1>6

LEMMA MovedTaken ==
    ASSUME RxTyped, DropInv, move
    PROVE  Taken
  BY MoveOrigins DEF Taken

LEMMA ZeroTaken ==
    ASSUME RxTyped, DropInv, zero
    PROVE  Taken
<1>1. Cleared /\ buf' \in Seq(Bytes) /\ DOMAIN buf' = 1..Len(buf')
  BY ZeroDoes
<1>2. DOMAIN buf = 1..Len(buf) /\ mark \in Nat /\ mark <= Len(buf) /\ Len(buf) \in Nat
  BY BufFacts DEF DropInv, zero
<1>3. CASE n = 0
  BY <1>1, <1>3 DEF Cleared, Taken
<1>4. CASE n = 1 /\ mark > 0
  <2>1. Len(buf') = 1 /\ buf'[1] = buf[mark] /\ mark \in DOMAIN buf
    BY <1>1, <1>2, <1>4 DEF Cleared
  <2>2. QED
    BY <1>1, <2>1 DEF Taken
<1>5. CASE n = 1 /\ ~(mark > 0)
  <2>1. Len(buf') = 1 /\ buf'[1] = Noise(S1)
    BY <1>1, <1>5 DEF Cleared
  <2>2. buf'[1].f = 0
    BY <2>1 DEF Noise
  <2>3. QED
    BY <1>1, <2>1, <2>2 DEF Taken
<1>6. QED
  BY <1>1, <1>3, <1>4, <1>5 DEF Cleared

\* A byte that arrives: what is in the buffer then was there before, or is it.
LEMMA ArrivalTaken ==
    ASSUME RxTyped, NEW b \in Bytes, buf' \in Seq(Bytes), Appended(b) \/ StartedWith(b)
    PROVE  \A p \in DOMAIN buf' : buf'[p] = b \/ (p \in DOMAIN buf /\ buf'[p] = buf[p])
<1>1. DOMAIN buf = 1..Len(buf) /\ Len(buf) \in Nat /\ DOMAIN buf' = 1..Len(buf')
  BY BufFacts
<1>2. CASE Appended(b)
  BY <1>1, <1>2 DEF Appended
<1>3. CASE StartedWith(b)
  <2>1. Len(buf') = 0 \/ (Len(buf') = 1 /\ buf'[1] = b)
    BY <1>3 DEF StartedWith
  <2>2. QED
    BY <1>1, <2>1
<1>4. QED
  BY <1>2, <1>3

LEMMA SentArrival ==
    ASSUME RxTyped, SentInv, FitInv, NEW b \in Bytes, NextByte(b)
    PROVE  SentInv' /\ FitInv'
<1>1. \A p \in DOMAIN buf' : buf'[p] = b \/ (p \in DOMAIN buf /\ buf'[p] = buf[p])
  BY ReceiveDoes, ArrivalTaken DEF NextByte
<1>2. /\ b.f = sending'.f /\ b.i = sending'.i /\ b.v \in ValuesAt(b.i, sending'.len)
      /\ sending'.f \in 1..MaxFrames /\ sending'.i \in Nat /\ sending'.len \in Nat
      /\ sending'.i >= 1 /\ sending'.i <= sending'.len + MinFrame
  BY DEF NextByte
<1>3. \/ /\ sending'.f = sending.f /\ sending'.len = sending.len
         /\ sending'.i = sending.i + 1
      \/ sending'.f = sending.f + 1
  BY DEF NextByte, RxTyped
<1>4. SentInv'
  <2> SUFFICES ASSUME NEW p \in DOMAIN buf', buf'[p].f # 0
               PROVE  /\ buf'[p].f >= 1 /\ buf'[p].i >= 1
                      /\ \/ buf'[p].f < sending'.f
                         \/ /\ buf'[p].f = sending'.f /\ buf'[p].i <= sending'.i
                            /\ buf'[p].v \in ValuesAt(buf'[p].i, sending'.len)
    BY DEF SentInv
  <2>1. CASE buf'[p] = b
    BY <1>2, <2>1
  <2>2. CASE p \in DOMAIN buf /\ buf'[p] = buf[p]
    <3>1. buf[p].f \in Nat /\ buf[p].i \in Nat /\ sending.f \in Nat /\ sending.i \in Nat
      BY <2>2, BufFacts
    <3>2. /\ buf[p].f >= 1 /\ buf[p].i >= 1
          /\ \/ buf[p].f < sending.f
             \/ /\ buf[p].f = sending.f /\ buf[p].i <= sending.i
                /\ buf[p].v \in ValuesAt(buf[p].i, sending.len)
      BY <2>2 DEF SentInv
    <3>3. QED
      BY <1>3, <2>2, <3>1, <3>2
  <2>3. QED
    BY <1>1, <2>1, <2>2
<1>5. FitInv'
  <2> SUFFICES ASSUME NEW p \in DOMAIN buf', NEW q \in DOMAIN buf',
                      buf'[p].f # 0, buf'[p].f = buf'[q].f, buf'[p].i = 4
               PROVE  buf'[q].i <= buf'[p].v + MinFrame
    BY DEF FitInv
  <2>1. CASE buf'[p].f = sending'.f
    <3>0. ~(sending'.f < sending'.f)
      BY <1>2
    <3>1. buf'[p].v \in ValuesAt(4, sending'.len)
      BY <1>4, <2>1, <3>0 DEF SentInv
    <3>2. buf'[p].v = sending'.len
      BY <3>1 DEF ValuesAt
    <3>3. buf'[q].i <= sending'.i
      BY <1>4, <2>1, <3>0 DEF SentInv
    <3>4. buf'[q].i \in Nat
      BY <1>1, BufFacts DEF Bytes
    <3>5. QED
      BY <1>2, <3>2, <3>3, <3>4 DEF MinFrame
  <2>2. CASE buf'[p].f # sending'.f
    <3>1. /\ p \in DOMAIN buf /\ buf'[p] = buf[p]
          /\ q \in DOMAIN buf /\ buf'[q] = buf[q]
      BY <1>1, <1>2, <2>2
    <3>2. QED
      BY <3>1 DEF FitInv
  <2>3. QED
    BY <2>1, <2>2
<1>6. QED
  BY <1>4, <1>5

LEMMA SentStep ==
    ASSUME RxTyped, LineInv, DropInv, SentInv, FitInv, [RxNext]_rxVars
    PROVE  SentInv' /\ FitInv'
<1>1. ASSUME NEW v \in NoiseValues, NoiseByte(v)
      PROVE  SentInv' /\ FitInv'
  <2>1. Noise(v) \in Bytes /\ Noise(v).f = 0
    BY DEF Bytes, Noise
  <2>2. \A p \in DOMAIN buf' :
          buf'[p] = Noise(v) \/ (p \in DOMAIN buf /\ buf'[p] = buf[p])
    BY <1>1, <2>1, ReceiveDoes, ArrivalTaken DEF NoiseByte
  <2>3. Taken
    BY <2>1, <2>2 DEF Taken
  <2>4. QED
    BY <1>1, <2>3, TakenStep DEF NoiseByte
<1>2. CASE clear_rx_buf
  <2>1. DOMAIN buf' = {}
    BY <1>2 DEF clear_rx_buf
  <2>2. QED
    BY <2>1 DEF SentInv, FitInv
<1>3. ASSUME UNCHANGED <<buf, line>>
      PROVE  SentInv' /\ FitInv'
  BY <1>3 DEF line, SentInv, FitInv
<1>4. CASE Strolls \/ find_no_sync \/ Skips \/ bad_header \/ bad_crc \/ dispatch
           \/ drop_test \/ UNCHANGED rxVars
  <2>1. UNCHANGED <<buf, line>>
    BY <1>4 DEF Strolls, find_no_sync, Skips, Drops, bad_header, bad_crc, dispatch,
                Drop, drop_test, rxVars
  <2>2. QED
    BY <1>3, <2>1
<1>5. CASE zero
  BY <1>5, ZeroTaken, TakenStep DEF zero, line
<1>6. CASE move
  BY <1>6, MovedTaken, TakenStep DEF move, line
<1>7. QED
  BY <1>1, <1>2, <1>4, <1>5, <1>6, SentArrival, Kinds

\* What arrives was sent later than all that is in the buffer.
LEMMA LaterThanAll ==
    ASSUME RxTyped, SentInv, NEW b \in Bytes, NextByte(b)
    PROVE  \A p \in DOMAIN buf : Earlier(buf[p], b)
<1>1. \/ b.f = sending.f /\ b.i = sending.i + 1 /\ b.f >= 1
      \/ b.f = sending.f + 1
  BY DEF NextByte, RxTyped
<1> TAKE p \in DOMAIN buf
<1>2. buf[p].f \in Nat /\ buf[p].i \in Nat /\ sending.f \in Nat /\ sending.i \in Nat
  BY BufFacts
<1>3. \/ buf[p].f = 0 \/ buf[p].f < sending.f
      \/ buf[p].f = sending.f /\ buf[p].i <= sending.i
  BY DEF SentInv
<1>4. QED
  BY <1>1, <1>2, <1>3 DEF Earlier

LEMMA OrderStep ==
    ASSUME RxTyped, LineInv, DropInv, SentInv, OrderInv, [RxNext]_rxVars
    PROVE  OrderInv'
<1>1. ASSUME NEW b \in Bytes, buf' \in Seq(Bytes), Appended(b) \/ StartedWith(b),
             Own(b) => \A p \in DOMAIN buf : Earlier(buf[p], b)
      PROVE  OrderInv'
  <2>1. DOMAIN buf = 1..Len(buf) /\ Len(buf) \in Nat /\ DOMAIN buf' = 1..Len(buf')
    BY <1>1, BufFacts
  <2>2. CASE Appended(b)
    <3> SUFFICES ASSUME NEW p \in DOMAIN buf', NEW q \in DOMAIN buf',
                        p < q, Own(buf'[q])
                 PROVE  Earlier(buf'[p], buf'[q])
      BY DEF OrderInv
    <3>1. p \in DOMAIN buf /\ buf'[p] = buf[p]
      BY <2>1, <2>2 DEF Appended
    <3>2. CASE q \in DOMAIN buf
      <4>1. buf'[q] = buf[q]
        BY <2>1, <2>2, <3>2 DEF Appended
      <4>2. QED
        BY <3>1, <3>2, <4>1 DEF OrderInv
    <3>3. CASE q \notin DOMAIN buf
      <4>1. buf'[q] = b
        BY <2>1, <2>2, <3>3 DEF Appended
      <4>2. QED
        BY <1>1, <3>1, <4>1
    <3>4. QED
      BY <3>2, <3>3
  <2>3. CASE StartedWith(b)
    <3>1. Len(buf') \in {0, 1}
      BY <2>3 DEF StartedWith
    <3>2. QED
      BY <2>1, <3>1 DEF OrderInv
  <2>4. QED
    BY <1>1, <2>2, <2>3
<1>2. ASSUME NEW b \in Bytes, NextByte(b)
      PROVE  OrderInv'
  BY <1>1, <1>2, ReceiveDoes, LaterThanAll DEF NextByte
<1>3. ASSUME NEW v \in NoiseValues, NoiseByte(v)
      PROVE  OrderInv'
  <2>1. Noise(v) \in Bytes /\ ~Own(Noise(v))
    BY DEF Bytes, Noise, Own
  <2>2. QED
    BY <1>1, <1>3, <2>1, ReceiveDoes DEF NoiseByte
<1>4. CASE clear_rx_buf
  <2>1. DOMAIN buf' = {}
    BY <1>4 DEF clear_rx_buf
  <2>2. QED
    BY <2>1 DEF OrderInv
<1>5. CASE Strolls \/ find_no_sync \/ Skips \/ bad_header \/ bad_crc \/ dispatch
           \/ drop_test \/ UNCHANGED rxVars
  <2>1. UNCHANGED buf
    BY <1>5 DEF Strolls, find_no_sync, Skips, Drops, bad_header, bad_crc, dispatch,
                Drop, drop_test, rxVars
  <2>2. QED
    BY <2>1 DEF OrderInv
<1>6. CASE zero
  <2>1. DOMAIN buf' = 1..Len(buf') /\ Len(buf') \in {0, 1}
    BY <1>6, ZeroDoes DEF Cleared
  <2>2. QED
    BY <2>1 DEF OrderInv
<1>7. CASE move
  <2> SUFFICES ASSUME NEW p \in DOMAIN buf', NEW q \in DOMAIN buf',
                      p < q, Own(buf'[q])
               PROVE  Earlier(buf'[p], buf'[q])
    BY DEF OrderInv
  <2>1. p \in Nat /\ q \in Nat /\ n \in Nat /\ mark \in Nat
    <3>1. buf' \in Seq(Bytes)
      BY <1>7, MoveDoes
    <3>2. p \in Nat /\ q \in Nat
      BY <3>1
    <3>3. QED
      BY <3>2, BufFacts
  <2>2. /\ Own(buf[Origin(q)]) /\ (q <= mark - n \/ q > mark)
        /\ Origin(p) \in DOMAIN buf /\ Origin(q) \in DOMAIN buf
    BY <1>7, MoveOrigins
  <2>3. Origin(p) < Origin(q)
    BY <2>1, <2>2 DEF Origin
  <2>4. Earlier(buf[Origin(p)], buf[Origin(q)])
    BY <2>2, <2>3 DEF OrderInv
  <2>5. /\ buf'[p].f = buf[Origin(p)].f /\ buf'[p].i = buf[Origin(p)].i
        /\ buf'[q].f = buf[Origin(q)].f /\ buf'[q].i = buf[Origin(q)].i
    BY <1>7, MoveOrigins
  <2>6. QED
    BY <2>4, <2>5 DEF Earlier
<1>8. QED
  BY <1>2, <1>3, <1>4, <1>5, <1>6, <1>7, Kinds

---------------------------------------------------------------------------
\* Frames handed over

\* A frame once handed over stays behind what is in the buffer.
LEMMA PassedStep ==
    ASSUME RxTyped, LineInv, DropInv, [RxNext]_rxVars,
           NEW d \in [f : 1..MaxFrames, copy : BOOLEAN], SentOut(d), Passed(d)
    PROVE  SentOut(d)' /\ Passed(d)'
<1>0. sending.f \in Nat /\ d.f \in Nat
  BY BufFacts
<1>1. ASSUME NEW b \in Bytes, buf' \in Seq(Bytes), Appended(b) \/ StartedWith(b),
             Own(b) => d.f < b.f, UNCHANGED <<pc, n>>
      PROVE  Passed(d)'
  <2> SUFFICES ASSUME ~d.copy, NEW p \in DOMAIN buf', Own(buf'[p]), ~Leaving(p)'
               PROVE  d.f < buf'[p].f
    BY DEF Passed
  <2>1. ~Leaving(p)
    BY <1>1 DEF Leaving
  <2>2. buf'[p] = b \/ (p \in DOMAIN buf /\ buf'[p] = buf[p])
    BY <1>1, ArrivalTaken
  <2>3. QED
    BY <1>1, <2>1, <2>2 DEF Passed
<1>2. ASSUME NEW b \in Bytes, NextByte(b)
      PROVE  SentOut(d)' /\ Passed(d)'
  <2>1. /\ b.f = sending'.f
        /\ \/ OnTheWay /\ sending'.f = sending.f
           \/ ~OnTheWay /\ sending'.f = sending.f + 1
    BY <1>2 DEF NextByte, RxTyped
  <2>2. d.f < b.f
    BY <1>0, <2>1 DEF SentOut
  <2>3. SentOut(d)'
    BY <2>1, <2>2 DEF SentOut
  <2>4. Passed(d)'
    BY <1>1, <1>2, <2>2, ReceiveDoes DEF NextByte
  <2>5. QED
    BY <2>3, <2>4
<1>3. ASSUME NEW v \in NoiseValues, NoiseByte(v)
      PROVE  SentOut(d)' /\ Passed(d)'
  <2>1. Noise(v) \in Bytes /\ ~Own(Noise(v))
    BY DEF Bytes, Noise, Own
  <2>2. Passed(d)'
    BY <1>1, <1>3, <2>1, ReceiveDoes DEF NoiseByte
  <2>3. QED
    BY <1>3, <2>2 DEF SentOut, NoiseByte, OnTheWay
<1>4. CASE clear_rx_buf
  <2>1. DOMAIN buf' = {}
    BY <1>4 DEF clear_rx_buf
  <2>2. sending'.f = sending.f /\ sending'.len = sending.len
        /\ sending'.i = sending.len + MinFrame
    BY <1>4 DEF clear_rx_buf, RxTyped
  <2>3. ~OnTheWay'
    BY <2>2, BufFacts DEF OnTheWay, MinFrame
  <2>4. QED
    BY <2>1, <2>2, <2>3 DEF SentOut, Passed
<1>5. ASSUME UNCHANGED sending PROVE SentOut(d)'
  BY <1>5 DEF SentOut, OnTheWay
<1>6. CASE Strolls \/ find_no_sync \/ Skips \/ bad_header \/ bad_crc \/ dispatch
  <2>1. UNCHANGED <<buf, sending>> /\ \A p \in DOMAIN buf : ~Leaving(p)
    BY <1>6 DEF Strolls, find_no_sync, Skips, Drops, bad_header, bad_crc, dispatch,
                Complete, Drop, line, Leaving
  <2>2. QED
    BY <1>5, <2>1 DEF Passed
<1>7. CASE drop_test
  <2>1. UNCHANGED <<buf, sending>> /\ \A p \in DOMAIN buf : Leaving(p) => Leaving(p)'
    BY <1>7 DEF drop_test, line, Leaving
  <2>2. QED
    BY <1>5, <2>1 DEF Passed
<1>8. CASE zero
  <2>1. UNCHANGED sending /\ pc = "zero"
    BY <1>8 DEF zero, line
  <2>2. ASSUME NEW p \in DOMAIN buf', Own(buf'[p])
        PROVE  n = 1 /\ mark \in DOMAIN buf /\ buf'[p] = buf[mark]
    <3>1. DOMAIN buf' = 1..Len(buf') /\ Cleared
      BY <1>8, ZeroDoes
    <3>2. n = 1 /\ buf'[p] = IF mark > 0 THEN buf[mark] ELSE Noise(S1)
      BY <2>2, <3>1 DEF Cleared
    <3>3. mark > 0
      BY <2>2, <3>2 DEF Own, Noise
    <3>4. mark \in DOMAIN buf
      BY <1>8, <3>3, BufFacts DEF DropInv, zero
    <3>5. QED
      BY <3>2, <3>3, <3>4
  <2>3. Passed(d)'
    BY <2>1, <2>2 DEF Passed, Leaving
  <2>4. QED
    BY <1>5, <2>1, <2>3
<1>9. CASE move
  <2>1. UNCHANGED sending /\ pc = "move"
    BY <1>9 DEF move, line
  <2>2. ASSUME NEW q \in DOMAIN buf', Own(buf'[q])
        PROVE  /\ Origin(q) \in DOMAIN buf /\ Own(buf[Origin(q)]) /\ Origin(q) > n
               /\ buf'[q].f = buf[Origin(q)].f
    <3>1. q \in Nat /\ q >= 1 /\ n \in Nat /\ mark \in Nat /\ n < mark
      BY <1>9, MoveDoes, BufFacts DEF DropInv, move
    <3>2. /\ Origin(q) \in DOMAIN buf /\ Own(buf[Origin(q)])
          /\ buf'[q].f = buf[Origin(q)].f /\ (q <= mark - n \/ q > mark)
      BY <1>9, <2>2, MoveOrigins
    <3>3. Origin(q) > n
      BY <3>1, <3>2 DEF Origin
    <3>4. QED
      BY <3>2, <3>3
  <2>3. \A p \in DOMAIN buf : p > n => ~Leaving(p)
    BY <2>1, BufFacts DEF Leaving
  <2>4. Passed(d)'
    BY <2>2, <2>3 DEF Passed
  <2>5. QED
    BY <1>5, <2>1, <2>4
<1>10. CASE UNCHANGED rxVars
  BY <1>10 DEF rxVars, line, SentOut, OnTheWay, Passed, Leaving
<1>11. QED
  BY <1>2, <1>3, <1>4, <1>6, <1>7, <1>8, <1>9, <1>10, Kinds

\* The frame being handed over was sent to its end, and what is its own in the
\* buffer behind it is of a later frame.
LEMMA HandOver ==
    ASSUME RxTyped, SentInv, FitInv, OrderInv, dispatch,
           NEW d \in [f : 1..MaxFrames, copy : BOOLEAN], d = HandedOver
    PROVE  SentOut(d)' /\ Passed(d)'
<1>1. /\ Drops(FrameLen) /\ crc_ok /\ d.f = buf[1].f
      /\ FrameLen \in 5..BufSize /\ FrameLen <= Len(buf) /\ FrameLen = buf[4].v + MinFrame
  BY DispatchDrops, HeadOfBuf
<1>2. /\ DOMAIN buf = 1..Len(buf) /\ Len(buf) \in Nat /\ sending.f \in Nat
      /\ sending.i \in Nat /\ sending.len \in Nat /\ d.f \in Nat
      /\ \A p \in DOMAIN buf : buf[p].f \in Nat /\ buf[p].i \in Nat
  <2>1. /\ DOMAIN buf = 1..Len(buf) /\ Len(buf) \in Nat
        /\ sending.f \in Nat /\ sending.i \in Nat /\ sending.len \in Nat
    BY BufFacts
  <2>2. \A p \in DOMAIN buf : buf[p].f \in Nat /\ buf[p].i \in Nat
    BY BufFacts
  <2>3. d.f \in Nat
    OBVIOUS
  <2>4. QED
    BY <2>1, <2>2, <2>3
<1>3. /\ 4 \in DOMAIN buf /\ FrameLen \in DOMAIN buf
      /\ buf[4].f = d.f /\ buf[4].i = 4 /\ d.f # 0
      /\ buf[FrameLen].f = d.f /\ buf[FrameLen].i = FrameLen
  <2>1. 4 \in 1..FrameLen /\ FrameLen \in 1..FrameLen
    BY <1>1
  <2>2. 4 \in 1..Len(buf) /\ FrameLen \in 1..Len(buf)
    BY <1>1, <1>2
  <2>3. /\ buf[1].f # 0
        /\ \A j \in 1..FrameLen : buf[j].f = buf[1].f /\ buf[j].i = j
    BY <1>1 DEF crc_ok
  <2>4. QED
    BY <1>1, <1>2, <2>1, <2>2, <2>3
<1>4. UNCHANGED <<buf, sending>> /\ pc' = "drop" /\ n' = FrameLen
  BY <1>1 DEF Drops, line
<1>5. SentOut(d)
  <2>1. d.f < sending.f \/ (d.f = sending.f /\ FrameLen <= sending.i
                            /\ buf[4].v \in ValuesAt(4, sending.len))
    BY <1>2, <1>3 DEF SentInv
  <2>2. CASE d.f = sending.f
    <3>1. buf[4].v = sending.len /\ FrameLen <= sending.i
      BY <1>2, <2>1, <2>2 DEF ValuesAt
    <3>2. QED
      BY <1>1, <1>2, <2>2, <3>1 DEF SentOut, OnTheWay, MinFrame
  <2>3. QED
    BY <2>1, <2>2 DEF SentOut
<1>6. ASSUME NEW q \in DOMAIN buf, Own(buf[q]), q > FrameLen
      PROVE  d.f < buf[q].f
  <2>1. Earlier(buf[FrameLen], buf[q])
    BY <1>3, <1>6 DEF OrderInv
  <2>2. d.f = buf[q].f => buf[q].i <= FrameLen
    BY <1>1, <1>3 DEF FitInv
  <2>3. QED
    BY <1>1, <1>2, <1>3, <2>1, <2>2 DEF Earlier
<1>7. \A p \in DOMAIN buf : p > FrameLen \/ p <= FrameLen
  BY <1>1, <1>2
<1>8. SentOut(d)'
  BY <1>4, <1>5 DEF SentOut, OnTheWay
<1>9. Passed(d)'
  <2>1. \A p \in DOMAIN buf : ~Leaving(p)' => p > FrameLen
    BY <1>4, <1>7 DEF Leaving
  <2> HIDE DEF Leaving
  <2>2. QED
    BY <1>4, <1>6, <2>1 DEF Passed
<1>10. QED
  BY <1>8, <1>9

\* With a byte of its own, it is later than all frames handed over so far.
LEMMA LaterThanHanded ==
    ASSUME RxTyped, HandedInv, dispatch, ~HandedOver.copy,
           NEW j \in DOMAIN dispatched, ~dispatched[j].copy
    PROVE  dispatched[j].f < HandedOver.f
<1>1. /\ crc_ok /\ HandedOver.f = buf[1].f /\ FrameLen \in 5..BufSize
      /\ FrameLen <= Len(buf) /\ pc = "header"
      /\ HandedOver.copy <=> \A k \in 1..FrameLen : buf[k].copy
  BY DispatchDrops, HeadOfBuf
<1>2. PICK p \in 1..FrameLen : ~buf[p].copy
  BY <1>1
<1>3. p \in DOMAIN buf
  BY <1>1, BufFacts
<1>4. Own(buf[p]) /\ buf[p].f = HandedOver.f
  BY <1>1, <1>2 DEF crc_ok, Own
<1>5. QED
  BY <1>1, <1>3, <1>4 DEF HandedInv, Passed, Leaving

LEMMA OnlyDispatch ==
    ASSUME RxTyped, LineInv, [RxNext]_rxVars
    PROVE  dispatch \/ UNCHANGED dispatched
  BY Kinds, BadDrops DEF NextByte, NoiseByte, clear_rx_buf, Strolls, find_no_sync,
     Skips, drop_test, zero, move, rxVars

LEMMA HandedStep ==
    ASSUME RxTyped, LineInv, DropInv, SentInv, FitInv, OrderInv, HandedInv, InOrderOnce,
           [RxNext]_rxVars
    PROVE  HandedInv' /\ InOrderOnce'
<1> DEFINE Report == [f : 1..MaxFrames, copy : BOOLEAN]
<1>0. /\ dispatched \in Seq(Report) /\ DOMAIN dispatched = 1..Len(dispatched)
      /\ Len(dispatched) \in Nat /\ \A j \in DOMAIN dispatched : dispatched[j] \in Report
  <2>1. dispatched \in Seq(Report)
    BY DEF RxTyped
  <2> HIDE DEF Report
  <2>2. QED
    BY <2>1
<1>1. ASSUME NEW d \in Report, SentOut(d), Passed(d)
      PROVE  SentOut(d)' /\ Passed(d)'
  BY <1>1, PassedStep
<1>2. CASE UNCHANGED dispatched
  <2>1. ASSUME NEW j \in DOMAIN dispatched'
        PROVE  SentOut(dispatched[j])' /\ Passed(dispatched[j])'
    <3>1. PICK d \in Report : d = dispatched[j] /\ d = dispatched'[j]
      <4>1. dispatched[j] \in Report /\ dispatched' = dispatched
        BY <1>0, <1>2, <2>1
      <4> HIDE DEF Report
      <4>2. QED
        BY <4>1
    <3>2. SentOut(d)' /\ Passed(d)'
      BY <1>1, <1>2, <3>1 DEF HandedInv
    <3>3. QED
      BY <3>1, <3>2 DEF SentOut, Passed
  <2>2. HandedInv'
    BY <2>1 DEF HandedInv
  <2>3. InOrderOnce'
    BY <1>2 DEF InOrderOnce
  <2>4. QED
    BY <2>2, <2>3
<1>3. CASE dispatch
  <2>1. dispatched' = Append(dispatched, HandedOver) /\ HandedOver \in Report
    BY <1>3, DispatchDrops
  <2> DEFINE last == Len(dispatched) + 1
  <2>2. /\ DOMAIN dispatched' = 1..last /\ dispatched'[last] = HandedOver
        /\ \A j \in DOMAIN dispatched : dispatched'[j] = dispatched[j]
    <3>1. /\ Len(dispatched') = last /\ dispatched' \in Seq(Report)
          /\ dispatched'[last] = HandedOver
          /\ \A j \in 1..Len(dispatched) : dispatched'[j] = dispatched[j]
      BY <1>0, <2>1, AppendProperties
    <3>2. QED
      BY <1>0, <3>1
  <2>3. \A j \in 1..last : j \in DOMAIN dispatched \/ j = last
    BY <1>0
  <2> HIDE DEF last
  <2>4. ASSUME NEW j \in DOMAIN dispatched'
        PROVE  SentOut(dispatched[j])' /\ Passed(dispatched[j])'
    <3>1. PICK d \in Report : d = dispatched'[j] /\ SentOut(d)' /\ Passed(d)'
      <4>1. CASE j = last
        BY <1>3, <2>1, <2>2, <4>1, HandOver
      <4>2. CASE j \in DOMAIN dispatched
        <5>1. dispatched[j] \in Report
          BY <1>0, <4>2
        <5>2. PICK d \in Report : d = dispatched[j]
          BY <5>1
        <5>3. SentOut(d) /\ Passed(d)
          BY <4>2, <5>2 DEF HandedInv
        <5>4. QED
          BY <1>1, <2>2, <4>2, <5>2, <5>3
      <4>3. QED
        BY <2>2, <2>3, <4>1, <4>2
    <3>2. QED
      BY <3>1 DEF SentOut, Passed
  <2>5. HandedInv'
    BY <2>4 DEF HandedInv
  <2>6. InOrderOnce'
    <3> SUFFICES ASSUME NEW j \in DOMAIN dispatched', NEW k \in DOMAIN dispatched',
                        j < k, ~dispatched'[j].copy, ~dispatched'[k].copy
                 PROVE  dispatched'[j].f < dispatched'[k].f
      BY DEF InOrderOnce
    <3>1. j \in DOMAIN dispatched
      BY <1>0, <2>2 DEF last
    <3>2. CASE k \in DOMAIN dispatched
      BY <2>2, <3>1, <3>2 DEF InOrderOnce
    <3>3. CASE k = last
      BY <1>3, <2>2, <3>1, <3>3, LaterThanHanded
    <3>4. QED
      BY <2>2, <2>3, <3>2, <3>3
  <2>7. QED
    BY <2>5, <2>6
<1>4. QED
  BY <1>2, <1>3, OnlyDispatch

LEMMA InvOfStart ==
    RxInit => RxTyped /\ LineInv /\ DropInv /\ SentInv /\ FitInv /\ OrderInv
                /\ HandedInv /\ InOrderOnce
<1> SUFFICES ASSUME RxInit
             PROVE  RxTyped /\ LineInv /\ DropInv /\ SentInv /\ FitInv /\ OrderInv
                      /\ HandedInv /\ InOrderOnce
  OBVIOUS
<1>1. /\ DOMAIN buf = {} /\ Len(buf) = 0 /\ buf \in Seq(Bytes)
      /\ DOMAIN dispatched = {} /\ dispatched \in Seq([f : 1..MaxFrames, copy : BOOLEAN])
  BY DEF RxInit
<1>2. RxTyped
  BY <1>1 DEF RxInit, RxTyped, MinFrame
<1>3. LineInv
  BY DEF RxInit, LineInv, OnTheWay, MinFrame
<1>4. QED
  BY <1>1, <1>2, <1>3 DEF RxInit, DropInv, SentInv, FitInv, OrderInv, HandedInv, InOrderOnce

---------------------------------------------------------------------------
\* Frames kept

\* A frame that is held begins with S1, and S2 follows unless it is still to come.
LEMMA HeldBegins ==
    ASSUME RxTyped, NEW f \in 1..sending.f, NEW p \in DOMAIN buf, NEW len \in Lengths,
           HeldAt(f, p, len)
    PROVE  /\ buf[p].f = f /\ buf[p].v = S1 /\ buf[p].i = 1 /\ ~buf[p].copy
           /\ \/ /\ p + 1 \in DOMAIN buf /\ buf[p + 1].f = f /\ buf[p + 1].v = S2
                 /\ p \in Syncs
              \/ p = Len(buf) /\ f = sending.f /\ sending.i = 1
<1>1. /\ DOMAIN buf = 1..Len(buf) /\ Len(buf) \in Nat /\ p \in Nat /\ p >= 1 /\ len \in Nat
      /\ sending.i \in Nat /\ sending.i >= 1 /\ sending.len \in Nat /\ f # 0
  <2>1. sending.i >= 1
    BY DEF RxTyped
  <2>2. /\ DOMAIN buf = 1..Len(buf) /\ Len(buf) \in Nat
        /\ sending.i \in Nat /\ sending.len \in Nat /\ sending.f \in Nat
    BY BufFacts
  <2>3. p \in 1..Len(buf)
    BY <2>2
  <2>4. f \in Nat /\ f >= 1
    BY <2>2
  <2>5. len \in Nat
    OBVIOUS
  <2>6. QED
    BY <2>1, <2>2, <2>3, <2>4, <2>5
<1>2. ASSUME NEW count \in Nat, count >= 1, Lies(p, f, len, count)
      PROVE  /\ buf[p].f = f /\ buf[p].v = S1 /\ buf[p].i = 1 /\ ~buf[p].copy
             /\ count >= 2 => /\ p + 1 \in DOMAIN buf /\ buf[p + 1].f = f
                              /\ buf[p + 1].v = S2 /\ p \in Syncs
  <2>1. p \in p..(p + count - 1) /\ p - p + 1 = 1
    BY <1>1, <1>2
  <2>2. buf[p].f = f /\ buf[p].v \in ValuesAt(1, len) /\ buf[p].i = 1 /\ ~buf[p].copy
    BY <1>2, <2>1 DEF Lies
  <2>3. buf[p].v = S1
    BY <2>2 DEF ValuesAt
  <2>4. CASE count >= 2
    <3>1. p + 1 \in p..(p + count - 1) /\ (p + 1) - p + 1 = 2 /\ p + 1 <= Len(buf)
      <4>1. p + count - 1 <= Len(buf)
        BY <1>2 DEF Lies
      <4>2. p \in Nat /\ Len(buf) \in Nat
        BY <1>1
      <4>3. QED
        BY <1>2, <2>4, <4>1, <4>2
    <3>2. buf[p + 1].f = f /\ buf[p + 1].v \in ValuesAt(2, len)
      BY <1>2, <3>1 DEF Lies
    <3>3. buf[p + 1].v = S2
      BY <3>2 DEF ValuesAt
    <3>4. p \in 1..(Len(buf) - 1) /\ p + 1 \in DOMAIN buf
      <4>1. p \in Nat /\ p >= 1 /\ Len(buf) \in Nat /\ p + 1 <= Len(buf)
        BY <1>1, <3>1
      <4>2. p \in 1..(Len(buf) - 1) /\ p + 1 \in 1..Len(buf)
        BY <4>1
      <4>3. QED
        BY <1>1, <4>2
    <3>5. QED
      BY <2>2, <2>3, <3>2, <3>3, <3>4 DEF Syncs, IsSync
  <2>5. QED
    BY <2>2, <2>3, <2>4
<1>3. CASE f < sending.f /\ Lies(p, f, len, len + MinFrame)
  BY <1>1, <1>2, <1>3 DEF MinFrame
<1>4. CASE /\ f = sending.f /\ len = sending.len /\ Lies(p, f, len, sending.i)
           /\ OnTheWay => p + sending.i - 1 = Len(buf)
  <2>1. CASE sending.i >= 2
    BY <1>1, <1>2, <1>4, <2>1
  <2>2. CASE sending.i = 1
    BY <1>1, <1>2, <1>4, <2>2 DEF OnTheWay, MinFrame
  <2>3. QED
    BY <1>1, <2>1, <2>2
<1>5. QED
  BY <1>3, <1>4 DEF HeldAt

\* It stays where it is while buffer and line stay, and no one drops it.
LEMMA HeldStays ==
    ASSUME UNCHANGED <<buf, sending>>, NEW f \in Nat, NEW p \in DOMAIN buf,
           NEW len \in Lengths, HeldAt(f, p, len), Safe(p)'
    PROVE  Held(f)'
  BY DEF Held, HeldAt, Lies, OnTheWay

LEMMA HeldWhenDropping ==
    ASSUME RxTyped, NEW count, Drops(count), NEW f \in Nat, NEW p \in DOMAIN buf,
           NEW len \in Lengths, HeldAt(f, p, len), p > count
    PROVE  Held(f)'
<1>1. UNCHANGED <<buf, sending>> /\ pc' = "drop" /\ n' = count
  BY DEF Drops, line
<1>2. Safe(p)'
  BY <1>1 DEF Safe
<1>3. QED
  BY <1>1, <1>2, HeldStays

\* With a byte behind it, it is still there.
LEMMA HeldWhenAppended ==
    ASSUME RxTyped, DropInv, NEW b \in Bytes, buf' \in Seq(Bytes), Appended(b),
           UNCHANGED <<pc, n>>, NEW p \in DOMAIN buf, Safe(p)
    PROVE  /\ p \in DOMAIN buf' /\ Safe(p)'
           /\ \A f, len, count : Lies(p, f, len, count) /\ count \in Nat => Lies(p, f, len, count)'
<1>1. /\ DOMAIN buf = 1..Len(buf) /\ Len(buf) \in Nat /\ DOMAIN buf' = 1..Len(buf')
      /\ Len(buf') = Len(buf) + 1 /\ mark' = mark
      /\ \A q \in 1..Len(buf) : buf'[q] = buf[q]
  BY BufFacts DEF Appended
<1>2. p \in DOMAIN buf' /\ Safe(p)'
  BY <1>1 DEF Safe
<1>3. ASSUME NEW f, NEW len, NEW count \in Nat, Lies(p, f, len, count)
      PROVE  Lies(p, f, len, count)'
  <2>1. p + count - 1 <= Len(buf') /\ \A q \in p..(p + count - 1) : q \in 1..Len(buf)
    BY <1>1, <1>3 DEF Lies
  <2>2. \A q \in p..(p + count - 1) : buf'[q] = buf[q]
    BY <1>1, <2>1
  <2>3. QED
    BY <1>3, <2>1, <2>2 DEF Lies
<1>4. QED
  BY <1>2, <1>3

\* A buffer that starts again costs all frames it held.
LEMMA HeldWhenStarted ==
    ASSUME RxTyped, NEW b \in Bytes, StartedWith(b), NEW f \in 1..sending.f, Held(f)
    PROVE  f \in hit'
<1>1. PICK p \in DOMAIN buf, len \in Lengths : HeldAt(f, p, len)
  BY DEF Held
<1>2. buf[p].f = f /\ f # 0
  <2>1. buf[p].f = f
    BY <1>1, HeldBegins
  <2>2. f # 0
    BY BufFacts
  <2>3. QED
    BY <2>1, <2>2
<1>3. f \in FramesOf(buf)
  BY <1>2, FramesOfBytes, BufFacts
<1>4. QED
  BY <1>3 DEF StartedWith

Kept(f) == f \in hit \/ Handed(f) \/ Held(f)

LEMMA KeptNextByte ==
    ASSUME RxTyped, LineInv, DropInv, NEW b \in Bytes, NextByte(b),
           NEW f \in 1..sending'.f, f <= sending.f => Kept(f)
    PROVE  Kept(f)'
<1>1. /\ buf' \in Seq(Bytes) /\ (Appended(b) \/ StartedWith(b))
      /\ UNCHANGED <<pc, n, dispatched>>
  BY ReceiveDoes DEF NextByte
<1>2. /\ DOMAIN buf = 1..Len(buf) /\ Len(buf) \in Nat /\ DOMAIN buf' = 1..Len(buf')
      /\ n \in Nat /\ mark \in Nat /\ sending.f \in Nat
  BY <1>1, BufFacts
<1>3. f \in Nat /\ f >= 1 /\ f <= sending'.f /\ sending'.f \in Nat
  BY DEF NextByte
<1>4. PICK k \in Nat, l \in Nat : /\ k = sending.i /\ l = sending.len
                                  /\ 1 <= k /\ k <= l + MinFrame
  BY DEF RxTyped
<1>5. \/ /\ OnTheWay /\ sending'.f = sending.f /\ sending'.len = l /\ sending'.i = k + 1
      \/ /\ ~OnTheWay /\ sending'.f = sending.f + 1 /\ sending'.i = 1
         /\ sending'.len \in Lengths
  BY <1>4 DEF NextByte, RxTyped
<1>6. /\ b.f = sending'.f /\ b.i = sending'.i /\ b.v \in ValuesAt(b.i, sending'.len)
      /\ ~b.copy
  BY DEF NextByte
<1>7. CASE f <= sending.f /\ (f \in hit \/ Handed(f))
  <2>1. hit \subseteq hit'
    BY <1>1 DEF Appended, StartedWith
  <2>2. QED
    BY <1>1, <1>7, <2>1 DEF Kept, Handed
<1>8. CASE f <= sending.f /\ Held(f) /\ StartedWith(b)
  BY <1>2, <1>3, <1>8, HeldWhenStarted DEF Kept
<1>9. CASE f <= sending.f /\ Held(f) /\ Appended(b)
  <2>1. PICK p \in DOMAIN buf, len \in Lengths : HeldAt(f, p, len)
    BY <1>9 DEF Held
  <2>2. /\ p \in DOMAIN buf' /\ Safe(p)' /\ len \in Nat /\ p \in Nat /\ p >= 1
        /\ \A count \in Nat : Lies(p, f, len, count) => Lies(p, f, len, count)'
    BY <1>1, <1>2, <1>9, <2>1, HeldWhenAppended DEF HeldAt
  <2>3. CASE f < sending.f /\ Lies(p, f, len, len + MinFrame)
    <3>1. f < sending'.f /\ Lies(p, f, len, len + MinFrame)'
      BY <1>2, <1>3, <1>5, <2>2, <2>3 DEF MinFrame
    <3>2. QED
      BY <2>2, <3>1 DEF Kept, Held, HeldAt
  <2>4. CASE f = sending.f /\ len = l /\ Lies(p, f, len, k) /\ ~OnTheWay
    <3>1. k = len + MinFrame /\ f < sending'.f
      BY <1>2, <1>3, <1>4, <1>5, <2>4 DEF OnTheWay, MinFrame
    <3>2. Lies(p, f, len, len + MinFrame)'
      BY <2>2, <2>4, <3>1
    <3>3. QED
      BY <2>2, <3>1, <3>2 DEF Kept, Held, HeldAt
  <2>5. CASE /\ f = sending.f /\ len = l /\ Lies(p, f, len, k)
             /\ OnTheWay /\ p + k - 1 = Len(buf)
    <3>1. /\ sending'.f = f /\ sending'.len = len /\ sending'.i = k + 1
          /\ Len(buf') = Len(buf) + 1 /\ buf'[Len(buf) + 1] = b
      BY <1>5, <1>9, <2>5 DEF Appended
    <3>2. Lies(p, f, len, k)'
      BY <2>2, <2>5
    <3>3. p + (k + 1) - 1 = Len(buf') /\ Len(buf) + 1 = p + k
      <4>1. Len(buf) = p + k - 1 /\ Len(buf') = Len(buf) + 1
        BY <2>5, <3>1
      <4>2. p \in Nat /\ k \in Nat
        BY <2>2
      <4>3. QED
        BY <4>1, <4>2
    <3>4. ASSUME NEW q \in p..(p + (k + 1) - 1)
          PROVE  /\ buf'[q].f = f /\ buf'[q].i = q - p + 1 /\ ~buf'[q].copy
                 /\ buf'[q].v \in ValuesAt(q - p + 1, len)
      <4>1. CASE q = p + k
        <5>1. q - p + 1 = k + 1 /\ buf'[q] = b
          BY <2>2, <3>1, <3>3, <4>1
        <5>2. QED
          BY <1>6, <3>1, <5>1
      <4>2. CASE q # p + k
        <5>1. q \in p..(p + k - 1)
          BY <2>2, <4>2
        <5>2. QED
          BY <3>2, <5>1 DEF Lies
      <4>3. QED
        BY <4>1, <4>2
    <3>5. Lies(p, f, len, k + 1)'
      BY <3>3, <3>4 DEF Lies
    <3>6. QED
      BY <2>2, <3>1, <3>3, <3>5 DEF Kept, Held, HeldAt, Lies
  <2>6. QED
    BY <1>4, <2>1, <2>3, <2>4, <2>5 DEF HeldAt
<1>10. CASE f > sending.f
  <2>1. f = sending'.f /\ sending'.i = 1 /\ sending'.len \in Lengths
    BY <1>2, <1>3, <1>5, <1>10
  <2>2. PICK len \in Lengths : len = sending'.len
    BY <2>1
  <2>3. b.f = f /\ b.i = 1 /\ b.v \in ValuesAt(1, len) /\ b.v = S1 /\ ~b.copy
    BY <1>6, <2>1, <2>2 DEF ValuesAt
  <2>4. PICK p \in Nat : /\ p = Len(buf') /\ p \in DOMAIN buf' /\ buf'[p] = b
                         /\ Safe(p)'
    <3>1. CASE Appended(b)
      <4>1. Len(buf') = Len(buf) + 1 /\ buf'[Len(buf) + 1] = b /\ mark' = mark
        BY <3>1 DEF Appended
      <4>2. PICK p \in Nat : p = Len(buf) + 1
        BY <1>2
      <4>3. Safe(p)'
        BY <1>1, <1>2, <4>1, <4>2 DEF Safe, DropInv
      <4>4. QED
        BY <1>2, <4>1, <4>2, <4>3
    <3>2. CASE StartedWith(b)
      <4>1. Len(buf') = 1 /\ buf'[1] = b /\ mark' = 0 /\ pc # "move"
        BY <2>3, <3>2 DEF StartedWith
      <4>2. PICK p \in Nat : p = 1
        OBVIOUS
      <4>3. Safe(p)'
        BY <1>1, <4>1, <4>2 DEF Safe
      <4>4. QED
        BY <1>2, <4>1, <4>2, <4>3
    <3>3. QED
      BY <1>1, <3>1, <3>2
  <2>5. Lies(p, f, len, 1)'
    <3>1. p + 1 - 1 = Len(buf') /\ p + 1 - 1 <= Len(buf')
      BY <1>2, <2>4
    <3>2. ASSUME NEW q \in p..(p + 1 - 1)
          PROVE  q = p /\ q - p + 1 = 1
      OBVIOUS
    <3>3. QED
      BY <2>3, <2>4, <3>1, <3>2 DEF Lies
  <2>6. p + 1 - 1 = Len(buf')
    BY <2>4
  <2>7. HeldAt(f, p, len)'
    <3>1. /\ f = sending'.f /\ len = sending'.len /\ Lies(p, f, len, sending.i)'
          /\ p + sending'.i - 1 = Len(buf')
      BY <2>1, <2>2, <2>5, <2>6
    <3>2. QED
      BY <2>4, <3>1 DEF HeldAt
  <2>8. Held(f)'
    BY <2>4, <2>7 DEF Held
  <2>9. QED
    BY <2>8 DEF Kept
<1>11. QED
  BY <1>1, <1>2, <1>3, <1>7, <1>8, <1>9, <1>10 DEF Kept

\* What is too short, or does not check, does not begin with a frame held.
LEMMA HeldIsGood ==
    ASSUME RxTyped, bad_header \/ bad_crc, NEW f \in 1..sending.f,
           NEW p \in DOMAIN buf, NEW len \in Lengths, HeldAt(f, p, len)
    PROVE  p > 1
<1>1. /\ DOMAIN buf = 1..Len(buf) /\ Len(buf) \in Nat /\ Len(buf) >= 5 /\ f # 0
      /\ len \in Nat /\ len <= MaxPayload /\ len + MinFrame <= BufSize
      /\ buf[4].v \in Nat
  <2>1. Len(buf) >= 5
    BY DEF bad_header, bad_crc, Complete, MinFrame
  <2>2. DOMAIN buf = 1..Len(buf) /\ Len(buf) \in Nat
    BY BufFacts
  <2>3. f # 0 /\ len \in Nat /\ len <= MaxPayload /\ MaxPayload + MinFrame <= BufSize
    BY BufFacts
  <2>4. len + MinFrame <= BufSize
    BY <2>3 DEF MinFrame
  <2>5. 4 \in DOMAIN buf
    BY <2>1, <2>2
  <2>6. buf[4].v \in Nat
    BY BufFacts, <2>5
  <2>7. QED
    BY <2>1, <2>2, <2>3, <2>4, <2>6
<1>2. SUFFICES ASSUME p = 1 PROVE FALSE
  BY <1>1
<1>3. PICK k \in Nat : k = sending.i /\ k <= sending.len + MinFrame
  BY DEF RxTyped
<1>4. PICK count \in Nat :
        /\ Lies(1, f, len, count) /\ count <= len + MinFrame
        /\ count < len + MinFrame => count = Len(buf)
  <2>1. CASE f < sending.f /\ Lies(p, f, len, len + MinFrame)
    <3>1. len + MinFrame \in Nat
      BY <1>1 DEF MinFrame
    <3>2. QED
      BY <1>2, <2>1, <3>1
  <2>2. CASE /\ f = sending.f /\ len = sending.len /\ Lies(p, f, len, sending.i)
             /\ OnTheWay => p + sending.i - 1 = Len(buf)
    <3>1. Lies(1, f, len, k) /\ k <= len + MinFrame
      BY <1>2, <1>3, <2>2
    <3>2. k < len + MinFrame => k = Len(buf)
      BY <1>1, <1>2, <1>3, <2>2 DEF OnTheWay
    <3>3. QED
      BY <3>1, <3>2
  <2>3. QED
    BY <2>1, <2>2 DEF HeldAt
<1> PICK room \in Nat : room = Len(buf) /\ room >= 5
  BY <1>1
<1>5. count >= 5
  <2>1. count <= len + 5 /\ (count < len + 5 => count = room)
    BY <1>4 DEF MinFrame
  <2>2. QED
    BY <1>1, <2>1
<1>6. \A q \in 1..count : /\ buf[q].f = f /\ buf[q].i = q
                          /\ buf[q].v \in ValuesAt(q, len)
  BY <1>1, <1>4 DEF Lies
<1>7. buf[3].v = Version /\ buf[4].v = len
  <2>1. 3 \in 1..count /\ 4 \in 1..count
    BY <1>5
  <2>2. buf[3].v \in ValuesAt(3, len) /\ buf[4].v \in ValuesAt(4, len)
    BY <1>6, <2>1
  <2>3. ValuesAt(3, len) = {Version} /\ ValuesAt(4, len) = {len}
    BY DEF ValuesAt
  <2>4. QED
    BY <2>2, <2>3
<1>8. HeaderOK /\ FrameLen = len + MinFrame
  BY <1>1, <1>7 DEF HeaderOK, FrameLen, PayloadLen
<1>9. Complete /\ ~crc_ok
  BY <1>8 DEF bad_header, bad_crc
<1>10. count = len + MinFrame
  <2>1. room >= len + 5
    BY <1>8, <1>9 DEF Complete, MinFrame
  <2>2. count <= len + 5 /\ (count < len + 5 => count = room)
    BY <1>4 DEF MinFrame
  <2>3. QED
    BY <1>1, <2>1, <2>2 DEF MinFrame
<1>11. crc_ok
  BY <1>1, <1>5, <1>6, <1>8, <1>10 DEF crc_ok
<1>12. QED
  BY <1>9, <1>11

LEMMA KeptDrops ==
    ASSUME RxTyped, NEW f \in 1..sending.f, Kept(f),
           Skips \/ bad_header \/ bad_crc \/ dispatch
    PROVE  Kept(f)'
<1>1. CASE f \in hit
  BY <1>1, BadDrops, DispatchDrops DEF Skips, Drops, Kept
<1>2. CASE Handed(f)
  <2>1. PICK j \in DOMAIN dispatched : dispatched[j].f = f
    BY <1>2 DEF Handed
  <2>2. CASE UNCHANGED dispatched
    BY <2>1, <2>2 DEF Kept, Handed
  <2>3. CASE dispatch
    <3>1. /\ dispatched' = Append(dispatched, HandedOver)
          /\ dispatched \in Seq([f : 1..MaxFrames, copy : BOOLEAN])
          /\ HandedOver \in [f : 1..MaxFrames, copy : BOOLEAN]
      BY <2>3, DispatchDrops DEF RxTyped
    <3>2. j \in DOMAIN dispatched' /\ dispatched'[j] = dispatched[j]
      BY <2>1, <3>1, AppendProperties
    <3>3. QED
      BY <2>1, <3>2 DEF Kept, Handed
  <2>4. QED
    BY <2>2, <2>3, BadDrops DEF Skips
<1>3. CASE Held(f)
  <2>1. PICK p \in DOMAIN buf, len \in Lengths : HeldAt(f, p, len)
    BY <1>3 DEF Held
  <2>2. /\ DOMAIN buf = 1..Len(buf) /\ Len(buf) \in Nat /\ p \in Nat
        /\ f \in Nat /\ buf[p].f = f
        /\ p \in Syncs \/ p = Len(buf)
    <3>1. buf[p].f = f /\ (p \in Syncs \/ p = Len(buf))
      BY <2>1, HeldBegins
    <3>2. DOMAIN buf = 1..Len(buf) /\ Len(buf) \in Nat /\ sending.f \in Nat
      BY BufFacts
    <3>3. p \in Nat /\ f \in Nat
      BY <3>2
    <3>4. QED
      BY <3>1, <3>2, <3>3
  <2>3. CASE Skips
    <3>1. PICK start \in Syncs : (\A j \in Syncs : start <= j) /\ Drops(start - 1)
      BY <2>3 DEF Skips
    <3>2. start \in 1..(Len(buf) - 1)
      BY DEF Syncs
    <3>3. p > start - 1
      BY <2>2, <3>1, <3>2
    <3>4. QED
      BY <2>1, <2>2, <3>1, <3>3, HeldWhenDropping DEF Kept
  <2>4. CASE bad_header \/ bad_crc
    BY <2>1, <2>2, <2>4, BadDrops, HeldIsGood, HeldWhenDropping DEF Kept
  <2>5. CASE dispatch
    <3>1. /\ Drops(FrameLen) /\ crc_ok /\ HandedOver.f = buf[1].f
          /\ dispatched' = Append(dispatched, HandedOver)
          /\ HandedOver \in [f : 1..MaxFrames, copy : BOOLEAN]
          /\ FrameLen \in Nat
      BY <2>5, DispatchDrops, HeadOfBuf
    <3>2. CASE p > FrameLen
      BY <2>1, <2>2, <3>1, <3>2, HeldWhenDropping DEF Kept
    <3>3. CASE ~(p > FrameLen)
      <4>1. p \in 1..FrameLen
        BY <2>2, <3>1, <3>3
      <4>2. HandedOver.f = f
        BY <2>2, <3>1, <4>1 DEF crc_ok
      <4>3. dispatched \in Seq([f : 1..MaxFrames, copy : BOOLEAN])
        BY DEF RxTyped
      <4>4. \E j \in DOMAIN dispatched' : dispatched'[j] = HandedOver
        <5>1. /\ Len(dispatched) + 1 \in 1..Len(dispatched')
              /\ dispatched'[Len(dispatched) + 1] = HandedOver
              /\ DOMAIN dispatched' = 1..Len(dispatched')
          BY <3>1, <4>3, AppendProperties
        <5>2. QED
          BY <5>1
      <4>5. PICK j \in DOMAIN dispatched' : dispatched'[j].f = f
        BY <4>2, <4>4
      <4>6. QED
        BY <4>5 DEF Kept, Handed
    <3>4. QED
      BY <3>2, <3>3
  <2>6. QED
    BY <2>3, <2>4, <2>5
<1>4. QED
  BY <1>1, <1>2, <1>3 DEF Kept

\* Without a header in sight no frame is held but for an S1 at the end.
LEMMA KeptNoSync ==
    ASSUME RxTyped, NEW f \in 1..sending.f, Held(f), find_no_sync
    PROVE  Held(f)'
<1>1. PICK p \in DOMAIN buf, len \in Lengths : HeldAt(f, p, len)
  BY DEF Held
<1>2. /\ Syncs = {} /\ pc' = "zero" /\ UNCHANGED <<buf, sending>> /\ mark' = Len(buf)
      /\ n' = IF buf[Len(buf)].v = S1 THEN 1 ELSE 0
  BY DEF find_no_sync, line
<1>3. p = Len(buf) /\ buf[p].v = S1
  BY <1>1, <1>2, HeldBegins
<1>4. Safe(p)'
  BY <1>2, <1>3 DEF Safe
<1>5. QED
  BY <1>1, <1>2, <1>4, HeldStays

LEMMA KeptDropTest ==
    ASSUME RxTyped, DropInv, NEW f \in 1..sending.f, Held(f), drop_test
    PROVE  f \in hit' \/ Held(f)'
<1>1. PICK p \in DOMAIN buf, len \in Lengths : HeldAt(f, p, len)
  BY DEF Held
<1>2. /\ buf \in Seq(Bytes) /\ p \in Nat /\ p >= 1 /\ p <= Len(buf) /\ Len(buf) \in Nat
      /\ buf[p].f = f /\ f # 0 /\ f \in Nat /\ n \in Nat /\ mark \in Nat
  <2>1. buf[p].f = f
    BY <1>1, HeldBegins
  <2>2. /\ buf \in Seq(Bytes) /\ DOMAIN buf = 1..Len(buf) /\ Len(buf) \in Nat
        /\ n \in Nat /\ mark \in Nat /\ sending.f \in Nat
    BY BufFacts
  <2>3. p \in 1..Len(buf)
    BY <2>2
  <2>4. f \in Nat /\ f # 0
    BY <2>2
  <2>5. QED
    BY <2>1, <2>2, <2>3, <2>4
<1>3. (mark = 0 \/ p > n) /\ UNCHANGED <<buf, sending>>
  BY <1>1 DEF HeldAt, Safe, drop_test, line
<1>4. CASE n >= Len(buf)
  <2>1. pc' = "zero" /\ mark' = mark /\ mark = 0
    BY <1>2, <1>3, <1>4 DEF drop_test
  <2>2. Safe(p)'
    BY <1>2, <2>1 DEF Safe
  <2>3. QED
    BY <1>1, <1>2, <1>3, <2>2, HeldStays
<1>5. CASE ~(n >= Len(buf))
  <2>1. /\ pc' = "move" /\ n' = n
        /\ hit' = hit \cup FramesOf(SubSeq(buf, mark + 1, n))
    BY <1>5 DEF drop_test
  <2>2. CASE p > n
    <3>1. Safe(p)'
      BY <2>1, <2>2 DEF Safe
    <3>2. QED
      BY <1>1, <1>2, <1>3, <3>1, HeldStays
  <2>3. CASE ~(p > n)
    <3>1. p \in (mark + 1)..n /\ mark + 1 >= 1 /\ mark + 1 \in Nat /\ n <= Len(buf)
      BY <1>2, <1>3, <1>5, <2>3
    <3>2. f \in FramesOf(SubSeq(buf, mark + 1, n))
      BY <1>2, <3>1, FramesOfPiece
    <3>3. QED
      BY <2>1, <3>2
  <2>4. QED
    BY <2>2, <2>3
<1>6. QED
  BY <1>4, <1>5

\* A frame that came late is hit; else all its bytes are among those the task saw.
LEMMA NotLate ==
    ASSUME RxTyped, NEW f \in 1..sending.f, NEW p \in DOMAIN buf, NEW len \in Lengths,
           NEW count \in Nat, count >= 1, Lies(p, f, len, count), f \notin hit',
           \A j \in (mark + 1)..Len(buf) : buf[j].f # 0 => buf[j].f \in hit'
    PROVE  p + count - 1 <= mark
<1>1. /\ DOMAIN buf = 1..Len(buf) /\ Len(buf) \in Nat /\ p \in Nat /\ p >= 1
      /\ mark \in Nat /\ f # 0
  BY BufFacts
<1>2. SUFFICES ASSUME p + count - 1 > mark PROVE FALSE
  BY <1>1
<1>3. PICK q \in Nat : q = p + count - 1
  BY <1>1
<1>4. q \in p..(p + count - 1) /\ q \in (mark + 1)..Len(buf)
  BY <1>1, <1>2, <1>3 DEF Lies
<1>5. buf[q].f = f
  BY <1>4 DEF Lies
<1>6. QED
  BY <1>1, <1>4, <1>5

LEMMA KeptZero ==
    ASSUME RxTyped, DropInv, NEW f \in 1..sending.f, Held(f), zero
    PROVE  f \in hit' \/ Held(f)'
<1> SUFFICES ASSUME f \notin hit' PROVE Held(f)'
  OBVIOUS
<1>1. PICK p \in DOMAIN buf, len \in Lengths : HeldAt(f, p, len)
  BY DEF Held
<1>2. /\ Cleared /\ buf' \in Seq(Bytes) /\ pc' \in {"header", "return"}
      /\ \A j \in (mark + 1)..Len(buf) : buf[j].f # 0 => buf[j].f \in hit'
      /\ UNCHANGED sending
  BY ZeroDoes DEF zero, line, RxTyped
<1>3. /\ DOMAIN buf = 1..Len(buf) /\ Len(buf) \in Nat /\ p \in Nat /\ p >= 1
      /\ mark \in Nat /\ n \in Nat /\ len \in Nat /\ DOMAIN buf' = 1..Len(buf')
  BY <1>2, BufFacts
<1>4. PICK k \in Nat : k = sending.i /\ k >= 1
  BY DEF RxTyped
<1>5. p > mark \/ (n = 1 /\ p = mark)
  BY <1>1 DEF HeldAt, Safe, zero
<1>6. CASE f < sending.f /\ Lies(p, f, len, len + MinFrame)
  <2>1. p + (len + MinFrame) - 1 <= mark
    BY <1>2, <1>3, <1>6, NotLate DEF MinFrame
  <2>2. QED
    BY <1>3, <1>5, <2>1 DEF MinFrame
<1>7. CASE /\ f = sending.f /\ len = sending.len /\ Lies(p, f, len, k)
           /\ OnTheWay => p + k - 1 = Len(buf)
  <2>1. p + k - 1 <= mark
    BY <1>2, <1>3, <1>4, <1>7, NotLate
  <2>2. k = 1 /\ p = mark /\ n = 1 /\ mark > 0
    <3>1. p \in Nat /\ p >= 1 /\ mark \in Nat
      BY <1>3
    <3>2. p <= mark
      BY <1>4, <2>1, <3>1
    <3>3. n = 1 /\ p = mark
      BY <1>5, <3>1, <3>2
    <3>4. QED
      BY <1>4, <2>1, <3>1, <3>3
  <2>3. Len(buf') = 1 /\ buf'[1] = buf[p]
    BY <1>2, <2>2 DEF Cleared
  <2>4. p \in p..(p + k - 1) /\ p - p + 1 = 1
    BY <1>3, <2>2
  <2>5. /\ buf[p].f = f /\ buf[p].i = 1 /\ buf[p].v \in ValuesAt(1, len)
        /\ ~buf[p].copy
    BY <1>7, <2>4 DEF Lies
  <2>6. Lies(1, f, len, 1)' /\ Safe(1)' /\ 1 \in DOMAIN buf'
    BY <1>2, <1>3, <2>3, <2>5 DEF Lies, Safe
  <2>7. sending.i = 1 /\ 1 + sending'.i - 1 = Len(buf') /\ len = sending'.len
    BY <1>2, <1>4, <1>7, <2>2, <2>3
  <2>8. HeldAt(f, 1, len)'
    BY <1>2, <1>7, <2>6, <2>7 DEF HeldAt
  <2>9. QED
    BY <2>6, <2>8 DEF Held
<1>8. QED
  BY <1>1, <1>4, <1>6, <1>7 DEF HeldAt

LEMMA KeptMove ==
    ASSUME RxTyped, DropInv, NEW f \in 1..sending.f, Held(f), move
    PROVE  f \in hit' \/ Held(f)'
<1> SUFFICES ASSUME f \notin hit' PROVE Held(f)'
  OBVIOUS
<1>1. PICK p \in DOMAIN buf, len \in Lengths : HeldAt(f, p, len)
  BY DEF Held
<1>2. PICK counted \in Nat : Moved(counted)
  BY MoveDoes
<1>3. /\ buf' \in Seq(Bytes) /\ pc' \in {"header", "return"} /\ UNCHANGED sending
      /\ \A j \in (mark + 1)..Len(buf) : buf[j].f # 0 => buf[j].f \in hit'
  BY MoveDoes DEF move, line, RxTyped
<1>4. /\ p \in Nat /\ mark \in Nat /\ n \in Nat /\ len \in Nat
      /\ n < mark /\ p > n
  <2>1. p \in Nat /\ mark \in Nat /\ n \in Nat /\ len \in Nat
    BY BufFacts
  <2>2. n < mark
    BY DEF DropInv, move
  <2>3. p > n
    BY <1>1 DEF HeldAt, Safe, move
  <2>4. QED
    BY <2>1, <2>2, <2>3
<1>11. DOMAIN buf' = 1..Len(buf')
  BY <1>3
<1>5. PICK k \in Nat : k = sending.i /\ k >= 1
  BY DEF RxTyped
<1>6. PICK r \in Nat : r = p - n /\ r >= 1
  BY <1>4
<1>7. ASSUME NEW count \in Nat, count >= 1, Lies(p, f, len, count)
      PROVE  /\ Lies(r, f, len, count)' /\ r \in DOMAIN buf' /\ Safe(r)'
             /\ p + count - 1 <= mark
  <2>1. p + count - 1 <= mark
    BY <1>3, <1>7, NotLate
  <2>2. Len(buf') = mark - n + counted /\ counted >= 0
    BY <1>2 DEF Moved
  <2>3. r + count - 1 <= Len(buf') /\ r + count - 1 <= mark - n
    <3>1. r + count - 1 <= mark - n
      BY <1>4, <1>6, <2>1
    <3>2. mark - n <= Len(buf')
      BY <1>4, <2>2
    <3>3. mark - n \in Int /\ Len(buf') \in Int
      BY <1>4, <2>2
    <3>4. QED
      BY <3>1, <3>2, <3>3
  <2>4. ASSUME NEW q \in r..(r + count - 1)
        PROVE  /\ buf'[q].f = f /\ buf'[q].i = q - r + 1 /\ ~buf'[q].copy
               /\ buf'[q].v \in ValuesAt(q - r + 1, len)
    <3>1. q \in 1..(mark - n) /\ n + q \in p..(p + count - 1)
          /\ (n + q) - p + 1 = q - r + 1
      <4>1. q \in Nat /\ r <= q /\ q <= r + count - 1 /\ q <= mark - n
        BY <1>4, <1>6, <2>3
      <4>2. n + q >= p /\ n + q <= p + count - 1 /\ (n + q) - p = q - r
        BY <1>4, <1>6, <4>1
      <4>3. QED
        BY <1>4, <1>6, <4>1, <4>2
    <3>2. buf'[q] = buf[n + q]
      BY <1>2, <3>1 DEF Moved
    <3>3. /\ buf[n + q].f = f /\ buf[n + q].i = (n + q) - p + 1
          /\ ~buf[n + q].copy
          /\ buf[n + q].v \in ValuesAt((n + q) - p + 1, len)
      BY <1>7, <3>1 DEF Lies
    <3>4. QED
      BY <3>1, <3>2, <3>3
  <2>5. Lies(r, f, len, count)'
    BY <2>3, <2>4 DEF Lies
  <2>6. r \in DOMAIN buf'
    <3>1. Len(buf') \in Nat
      BY <1>3
    <3>2. r <= Len(buf')
      BY <1>7, <2>3, <3>1
    <3>3. QED
      BY <1>6, <1>11, <3>1, <3>2
  <2>7. Safe(r)'
    BY <1>3 DEF Safe
  <2>8. QED
    BY <2>1, <2>5, <2>6, <2>7
<1>8. CASE f < sending.f /\ Lies(p, f, len, len + MinFrame)
  <2>1. Lies(r, f, len, len + MinFrame)' /\ r \in DOMAIN buf' /\ Safe(r)'
    BY <1>4, <1>7, <1>8 DEF MinFrame
  <2>2. QED
    BY <1>3, <1>8, <2>1 DEF Held, HeldAt
<1>9. CASE /\ f = sending.f /\ len = sending.len /\ Lies(p, f, len, k)
           /\ OnTheWay => p + k - 1 = Len(buf)
  <2>1. /\ Lies(r, f, len, k)' /\ r \in DOMAIN buf' /\ Safe(r)'
        /\ p + k - 1 <= mark
    BY <1>5, <1>7, <1>9
  <2>2. OnTheWay => r + k - 1 = Len(buf')
    <3>1. /\ Len(buf') = mark - n + counted /\ counted \in 0..(Len(buf) - mark)
          /\ mark <= Len(buf) /\ Len(buf) \in Nat
      BY <1>2, BufFacts DEF Moved, DropInv, move
    <3>2. ASSUME OnTheWay PROVE r + k - 1 = Len(buf')
      <4>1. Len(buf) = p + k - 1
        BY <1>9, <3>2
      <4>0. p + k - 1 <= mark
        BY <2>1
      <4>2. p \in Nat /\ mark \in Nat /\ n \in Nat
        BY <1>4
      <4>3. mark <= p + k - 1
        BY <3>1, <4>1
      <4>4. mark = p + k - 1
        BY <4>0, <4>2, <4>3
      <4>5. counted = 0
        BY <3>1, <4>1, <4>2, <4>4
      <4>6. Len(buf') = mark - n
        BY <3>1, <4>2, <4>5
      <4>7. r + k - 1 = mark - n
        BY <1>6, <4>2, <4>4
      <4>8. QED
        BY <4>6, <4>7
    <3>3. QED
      BY <3>2
  <2>3. /\ f = sending'.f /\ len = sending'.len /\ Lies(r, f, len, sending.i)'
        /\ OnTheWay' => r + sending'.i - 1 = Len(buf')
    BY <1>3, <1>5, <1>9, <2>1, <2>2 DEF OnTheWay
  <2>4. HeldAt(f, r, len)'
    BY <2>1, <2>3 DEF HeldAt
  <2>5. QED
    BY <2>1, <2>4 DEF Held
<1>10. QED
  BY <1>1, <1>5, <1>8, <1>9 DEF HeldAt

LEMMA KeptStep ==
    ASSUME RxTyped, LineInv, DropInv, KeptInv, [RxNext]_rxVars
    PROVE  KeptInv'
<1> SUFFICES ASSUME NEW f \in 1..sending'.f PROVE Kept(f)'
  BY DEF KeptInv, Kept
<1>1. sending.f \in Nat /\ f \in Nat /\ f >= 1
  BY BufFacts
<1>2. f <= sending.f => Kept(f)
  BY <1>1 DEF KeptInv, Kept
<1>3. ASSUME NEW b \in Bytes, NextByte(b) PROVE Kept(f)'
  BY <1>2, <1>3, KeptNextByte
<1>4. ASSUME sending'.f = sending.f PROVE f \in 1..sending.f /\ Kept(f)
  BY <1>1, <1>2, <1>4
<1>5. ASSUME sending' = sending, UNCHANGED dispatched, hit \subseteq hit',
             Held(f) => f \in hit' \/ Held(f)'
      PROVE  Kept(f)'
  BY <1>4, <1>5 DEF Kept, Handed
<1>6. ASSUME NEW v \in NoiseValues, NoiseByte(v) PROVE Kept(f)'
  <2>1. Noise(v) \in Bytes
    BY DEF Bytes, Noise
  <2>2. /\ buf' \in Seq(Bytes) /\ (Appended(Noise(v)) \/ StartedWith(Noise(v)))
        /\ UNCHANGED <<sending, pc, n, dispatched>> /\ ~OnTheWay
    BY <1>6, <2>1, ReceiveDoes DEF NoiseByte
  <2>3. hit \subseteq hit' /\ f \in 1..sending.f
    BY <1>4, <2>2 DEF Appended, StartedWith
  <2>4. ASSUME Held(f), Appended(Noise(v)) PROVE Held(f)'
    <3>1. PICK p \in DOMAIN buf, len \in Lengths : HeldAt(f, p, len)
      BY <2>4 DEF Held
    <3>2. PICK k \in Nat : k = sending.i
      BY BufFacts
    <3>3. /\ p \in DOMAIN buf' /\ Safe(p)' /\ len \in Nat
          /\ \A count \in Nat : Lies(p, f, len, count) => Lies(p, f, len, count)'
      BY <2>1, <2>2, <2>4, <3>1, HeldWhenAppended DEF HeldAt
    <3>4. CASE f < sending.f /\ Lies(p, f, len, len + MinFrame)
      <4>1. Lies(p, f, len, len + MinFrame)'
        BY <3>3, <3>4 DEF MinFrame
      <4>2. QED
        BY <2>2, <3>3, <3>4, <4>1 DEF Held, HeldAt
    <3>5. CASE f = sending.f /\ len = sending.len /\ Lies(p, f, len, k)
      <4>1. Lies(p, f, len, k)'
        BY <3>3, <3>5
      <4>2. Lies(p, f, len, sending.i)' /\ ~OnTheWay'
        BY <2>2, <3>2, <4>1 DEF Lies, OnTheWay
      <4>3. QED
        BY <2>2, <3>3, <3>5, <4>2 DEF Held, HeldAt
    <3>6. QED
      BY <3>1, <3>2, <3>4, <3>5 DEF HeldAt
  <2>5. Held(f) => f \in hit' \/ Held(f)'
    BY <2>1, <2>2, <2>3, <2>4, HeldWhenStarted
  <2>6. QED
    BY <1>5, <2>2, <2>3, <2>5
<1>7. CASE clear_rx_buf
  <2>1. /\ sending'.f = sending.f /\ UNCHANGED dispatched
        /\ hit \subseteq hit' /\ FramesOf(buf) \subseteq hit'
    BY <1>7 DEF clear_rx_buf, RxTyped
  <2>2. f \in 1..sending.f /\ Kept(f)
    BY <1>4, <2>1
  <2>3. Held(f) => f \in FramesOf(buf)
    <3> SUFFICES ASSUME Held(f) PROVE f \in FramesOf(buf)
      OBVIOUS
    <3>1. PICK p \in DOMAIN buf, len \in Lengths : HeldAt(f, p, len)
      BY DEF Held
    <3>2. buf[p].f = f /\ f # 0
      BY <2>2, <3>1, HeldBegins
    <3>3. QED
      BY <3>2, FramesOfBytes, BufFacts
  <2>4. QED
    BY <2>1, <2>2, <2>3 DEF Kept, Handed
<1>8. CASE Strolls
  <2>1. /\ UNCHANGED <<buf, sending, dispatched, hit>>
        /\ pc' \in {"idle", "parse", "header", "return"}
    BY <1>8 DEF Strolls, line
  <2>2. \A p \in DOMAIN buf : Safe(p)'
    BY <2>1 DEF Safe
  <2>3. Held(f) => Held(f)'
    BY <1>1, <2>1, <2>2, HeldStays DEF Held
  <2>4. QED
    BY <1>5, <2>1, <2>3
<1>9. CASE find_no_sync
  <2>1. UNCHANGED <<sending, dispatched, hit>>
    BY <1>9 DEF find_no_sync, line
  <2>2. QED
    BY <1>4, <1>5, <1>9, <2>1, KeptNoSync
<1>10. CASE Skips \/ bad_header \/ bad_crc \/ dispatch
  <2>1. UNCHANGED sending
    BY <1>10, BadDrops, DispatchDrops DEF Skips, Drops, line
  <2>2. QED
    BY <1>4, <1>10, <2>1, KeptDrops
<1>11. CASE drop_test
  <2>1. UNCHANGED <<sending, dispatched>> /\ hit \subseteq hit'
    BY <1>11 DEF drop_test, line
  <2>2. QED
    BY <1>4, <1>5, <1>11, <2>1, KeptDropTest
<1>12. CASE zero
  <2>1. UNCHANGED <<sending, dispatched>> /\ hit \subseteq hit'
    BY <1>12 DEF zero, line
  <2>2. QED
    BY <1>4, <1>5, <1>12, <2>1, KeptZero
<1>13. CASE move
  <2>1. UNCHANGED <<sending, dispatched>> /\ hit \subseteq hit'
    BY <1>13 DEF move, line
  <2>2. QED
    BY <1>4, <1>5, <1>13, <2>1, KeptMove
<1>14. CASE UNCHANGED rxVars
  BY <1>4, <1>14 DEF rxVars, line, Kept, Handed, Held, HeldAt, Safe, Lies, OnTheWay
<1>15. QED
  BY <1>3, <1>6, <1>7, <1>8, <1>9, <1>10, <1>11, <1>12, <1>13, <1>14, Kinds

\* A frame that has arrived and is held is whole.
LEMMA KeptIsWhole == RxTyped /\ KeptInv => IntactIsKept
<1> SUFFICES ASSUME RxTyped, KeptInv, NEW f \in Arrived, Held(f)
             PROVE  Whole(f)
  BY DEF IntactIsKept, KeptInv, Arrived, Handed
<1>1. PICK p \in DOMAIN buf, len \in Lengths : HeldAt(f, p, len)
  BY DEF Held
<1>2. /\ f \in 1..sending.f /\ (f < sending.f \/ ~OnTheWay) /\ p \in Nat /\ p >= 1
      /\ DOMAIN buf = 1..Len(buf) /\ Len(buf) \in Nat /\ len \in Nat
  BY BufFacts DEF Arrived
<1>3. Lies(p, f, len, len + MinFrame)
  <2>1. CASE f < sending.f
    BY <1>1, <1>2, <2>1, BufFacts DEF HeldAt
  <2>2. CASE f = sending.f /\ ~OnTheWay
    <3>1. sending.i = sending.len + MinFrame
      <4>1. sending.i \in 1..(sending.len + 5)
        BY DEF RxTyped, MinFrame
      <4>2. sending.len \in Nat
        BY BufFacts
      <4>3. ~(sending.i < sending.len + 5)
        BY <2>2 DEF OnTheWay, MinFrame
      <4>4. QED
        BY <4>1, <4>2, <4>3 DEF MinFrame
    <3>2. ~(f < sending.f)
      BY <2>2, BufFacts
    <3>3. QED
      BY <1>1, <3>1, <3>2 DEF HeldAt
  <2>3. QED
    BY <1>2, <2>1, <2>2, BufFacts
<1>4. p + (len + 5) - 1 <= Len(buf)
  BY <1>3 DEF Lies, MinFrame
<1>5. \A m \in 1..(len + 5) : /\ buf[p + m - 1].f = f /\ buf[p + m - 1].i = m
                              /\ buf[p + m - 1].v \in ValuesAt(m, len)
  <2> TAKE m \in 1..(len + 5)
  <2>1. p + m - 1 \in p..(p + (len + MinFrame) - 1) /\ (p + m - 1) - p + 1 = m
    BY <1>2 DEF MinFrame
  <2>2. QED
    BY <1>3, <2>1 DEF Lies
<1>6. buf[p + 3].v = len /\ buf[p].f = f /\ buf[p].i = 1
  <2>1. /\ 4 \in 1..(len + 5) /\ p + 4 - 1 = p + 3
        /\ 1 \in 1..(len + 5) /\ p + 1 - 1 = p
    BY <1>2
  <2>2. buf[p + 3].v \in ValuesAt(4, len) /\ buf[p].f = f /\ buf[p].i = 1
    BY <1>5, <2>1
  <2>3. QED
    BY <2>2 DEF ValuesAt
<1>7. p + 3 <= Len(buf) /\ p + len + 5 - 1 <= Len(buf)
  BY <1>2, <1>4
<1>8. QED
  BY <1>5, <1>6, <1>7 DEF Whole, MinFrame

---------------------------------------------------------------------------
\* A line that keeps the order

\* A piece of the buffer has bytes of frames that were sent, and of no others.
LEMMA SentFrames ==
    ASSUME RxTyped, SentInv
    PROVE  /\ FramesOf(buf) \subseteq 1..sending.f
           /\ \A a, b \in Nat : a >= 1 /\ b <= Len(buf)
                                => FramesOf(SubSeq(buf, a, b)) \subseteq 1..sending.f
<1>1. /\ buf \in Seq(Bytes) /\ DOMAIN buf = 1..Len(buf) /\ Len(buf) \in Nat
      /\ sending.f \in Nat /\ \A p \in DOMAIN buf : buf[p].f \in Nat
  BY BufFacts
<1>2. \A p \in DOMAIN buf : buf[p].f = 0 \/ buf[p].f \in 1..sending.f
  BY <1>1 DEF SentInv
<1>3. FramesOf(buf) \subseteq 1..sending.f
  BY <1>2 DEF FramesOf
<1>4. ASSUME NEW a \in Nat, NEW b \in Nat, a >= 1, b <= Len(buf)
      PROVE  FramesOf(SubSeq(buf, a, b)) \subseteq 1..sending.f
  <2> DEFINE s == SubSeq(buf, a, b)
  <2>1. CASE a <= b
    <3>1. s \in Seq(Bytes) /\ Len(s) = b - a + 1 /\ \A j \in 1..(b - a + 1) : s[j] = buf[a + j - 1]
      BY <1>1, <1>4, <2>1, SubSeqProperties
    <3>2. DOMAIN s = 1..(b - a + 1)
      BY <3>1
    <3> HIDE DEF s
    <3>3. \A j \in DOMAIN s : s[j] = buf[a + j - 1] /\ a + j - 1 \in DOMAIN buf
      BY <1>1, <1>4, <3>1, <3>2
    <3>4. \A j \in DOMAIN s : s[j].f = 0 \/ s[j].f \in 1..sending.f
      BY <1>2, <3>3
    <3>5. FramesOf(s) \subseteq 1..sending.f
      BY <3>4 DEF FramesOf
    <3>6. QED
      BY <3>5 DEF s
  <2>2. CASE b < a
    <3>1. s = <<>>
      BY <1>1, <1>4, <2>2, SubSeqProperties
    <3>2. QED
      BY <3>1 DEF FramesOf
  <2>3. QED
    BY <1>4, <2>1, <2>2
<1>5. QED
  BY <1>3, <1>4

\* What the step takes from an arriving byte and from the bytes that make room for it
LEMMA HitReceive ==
    ASSUME RxTyped, SentInv, HitInv, NEW b \in Bytes, Receive(b),
           NEW top \in Nat, sending.f <= top, b.f <= top
    PROVE  hit \subseteq hit' /\ hit' \subseteq 1..top
<1>1. hit \subseteq 1..top /\ FramesOf(buf) \subseteq 1..top
  <2>1. sending.f \in Nat
    BY BufFacts
  <2>2. 1..sending.f \subseteq 1..top
    BY <2>1
  <2>3. QED
    BY <2>2, SentFrames DEF HitInv
<1>2. FramesOf(<<b>>) \subseteq 1..top
  <2>1. DOMAIN <<b>> = {1} /\ <<b>>[1] = b
    OBVIOUS
  <2>2. FramesOf(<<b>>) \subseteq {b.f} \ {0}
    BY <2>1 DEF FramesOf
  <2>3. b.f \in Nat
    BY DEF Bytes
  <2>4. QED
    BY <2>2, <2>3
<1>3. QED
  BY <1>1, <1>2 DEF Receive

\* The line goes on by a frame at most, and frames are hit for good.
LEMMA HitStep ==
    ASSUME RxTyped, LineInv, DropInv, SentInv, HitInv, [RxNext]_rxVars
    PROVE  /\ sending'.f = sending.f \/ sending'.f = sending.f + 1
           /\ hit \subseteq hit' /\ HitInv'
<1>1. /\ sending.f \in Nat /\ Len(buf) \in Nat /\ mark \in Nat /\ n \in Nat
  BY BufFacts
<1>2. ASSUME NEW b \in Bytes, NextByte(b)
      PROVE  /\ sending'.f = sending.f \/ sending'.f = sending.f + 1
             /\ hit \subseteq hit' /\ HitInv'
  <2>1. /\ sending'.f = sending.f \/ sending'.f = sending.f + 1
        /\ b.f = sending'.f /\ Receive(b)
    BY <1>2 DEF NextByte, RxTyped
  <2>2. PICK top \in Nat : top = sending'.f /\ sending.f <= top /\ b.f <= top
    BY <1>1, <2>1
  <2>3. hit \subseteq hit' /\ hit' \subseteq 1..top
    BY <2>1, <2>2, HitReceive
  <2>4. QED
    BY <2>1, <2>2, <2>3 DEF HitInv
<1>3. ASSUME NEW v \in NoiseValues, NoiseByte(v)
      PROVE  UNCHANGED sending /\ hit \subseteq hit' /\ HitInv'
  <2>1. Noise(v) \in Bytes /\ Noise(v).f = 0
    BY DEF Bytes, Noise
  <2>2. hit \subseteq hit' /\ hit' \subseteq 1..sending.f
    BY <1>1, <1>3, <2>1, HitReceive DEF NoiseByte
  <2>3. QED
    BY <1>3, <2>2 DEF NoiseByte, HitInv
<1>4. CASE clear_rx_buf
  <2>1. sending'.f = sending.f
    BY <1>4 DEF clear_rx_buf, RxTyped
  <2>2. (IF OnTheWay THEN {sending.f} ELSE {}) \subseteq 1..sending.f
    <3>1. OnTheWay => sending.f >= 1
      BY <1>1 DEF LineInv
    <3>2. QED
      BY <1>1, <3>1
  <2>3. FramesOf(buf) \subseteq 1..sending.f
    BY SentFrames
  <2>4. QED
    BY <1>4, <2>1, <2>2, <2>3 DEF clear_rx_buf, HitInv
<1>5. ASSUME UNCHANGED <<sending, hit>>
      PROVE  hit \subseteq hit' /\ HitInv'
  BY <1>5 DEF HitInv
<1>6. CASE Strolls \/ find_no_sync \/ Skips \/ bad_header \/ bad_crc \/ dispatch \/ UNCHANGED rxVars
  <2>1. UNCHANGED <<sending, hit>>
    BY <1>6 DEF Strolls, find_no_sync, Skips, Drops, bad_header, bad_crc, dispatch, Drop,
                rxVars, line
  <2>2. QED
    BY <1>5, <2>1
<1>7. CASE drop_test
  <2>1. UNCHANGED sending
    BY <1>7 DEF drop_test, line
  <2>2. CASE n >= Len(buf)
    BY <1>5, <1>7, <2>1, <2>2 DEF drop_test
  <2>3. CASE ~(n >= Len(buf))
    <3>1. FramesOf(SubSeq(buf, mark + 1, n)) \subseteq 1..sending.f
      BY <1>1, <2>3, SentFrames
    <3>2. hit' = hit \cup FramesOf(SubSeq(buf, mark + 1, n))
      BY <1>7, <2>3 DEF drop_test
    <3>3. QED
      BY <2>1, <3>1, <3>2 DEF HitInv
  <2>4. QED
    BY <2>1, <2>2, <2>3
<1>8. CASE zero \/ move
  <2>1. UNCHANGED sending /\ hit' = hit \cup FramesOf(Late)
    BY <1>8 DEF zero, move, line
  <2>2. FramesOf(Late) \subseteq 1..sending.f
    BY <1>1, SentFrames DEF Late
  <2>3. QED
    BY <2>1, <2>2 DEF HitInv
<1>9. QED
  BY <1>2, <1>3, <1>4, <1>6, <1>7, <1>8, Kinds

\* A frame that is held lies behind the one being handed over, if that is earlier
\* or lies there in copies only.
LEMMA HeldIsLater ==
    ASSUME RxTyped, OrderInv, dispatch, NEW f \in 1..sending.f, Held(f)
    PROVE  buf[1].f < f \/ (buf[1].f = f /\ ~HandedOver.copy)
<1>1. PICK p \in DOMAIN buf, len \in Lengths : HeldAt(f, p, len)
  BY DEF Held
<1>2. /\ crc_ok /\ FrameLen \in 5..BufSize /\ FrameLen <= Len(buf)
      /\ HandedOver.copy <=> \A j \in 1..FrameLen : buf[j].copy
  BY DispatchDrops, HeadOfBuf
<1>3. /\ DOMAIN buf = 1..Len(buf) /\ Len(buf) \in Nat /\ p \in Nat /\ f \in Nat /\ f # 0
      /\ p >= 1 /\ buf[1].f \in Nat
  <2>1. DOMAIN buf = 1..Len(buf) /\ Len(buf) \in Nat /\ sending.f \in Nat
    BY BufFacts
  <2>2. buf[1] \in Bytes
    BY DispatchDrops, HeadOfBuf
  <2>3. buf[1].f \in Nat
    BY <2>2 DEF Bytes
  <2>4. f \in Nat /\ f # 0
    BY <2>1
  <2>5. p \in Nat /\ p >= 1
    BY <2>1
  <2>6. QED
    BY <2>1, <2>3, <2>4, <2>5, Zenon
<1>4. buf[p].f = f /\ buf[p].i = 1 /\ ~buf[p].copy
  BY <1>1, HeldBegins
<1>5. \A j \in 1..FrameLen : buf[j].f = buf[1].f /\ buf[j].i = j
  BY <1>2 DEF crc_ok
<1>6. CASE p <= FrameLen
  BY <1>2, <1>3, <1>4, <1>5, <1>6
<1>7. CASE p > FrameLen
  <2>1. FrameLen \in DOMAIN buf /\ FrameLen < p /\ Own(buf[p])
    BY <1>2, <1>3, <1>4, <1>7 DEF Own
  <2>2. Earlier(buf[FrameLen], buf[p])
    BY <2>1 DEF OrderInv
  <2>3. buf[FrameLen].f = buf[1].f /\ buf[FrameLen].i = FrameLen
    BY <1>2, <1>5
  <2>4. QED
    BY <1>2, <1>3, <1>4, <2>2, <2>3 DEF Earlier
<1>8. QED
  BY <1>2, <1>3, <1>6, <1>7

\* What is handed over overtakes no frame, and comes again only when it was handed
\* over before or is damaged.
LEMMA DispatchIsInOrder ==
    ASSUME RxTyped, SentInv, OrderInv, HandedInv, KeptInv, dispatch
    PROVE  \E f \in 1..sending.f : Line!InOrder(f) \/ Line!Again(f)
<1>1. /\ crc_ok /\ HandedOver.f = buf[1].f /\ dispatched' = Append(dispatched, HandedOver)
      /\ HandedOver \in [f : 1..MaxFrames, copy : BOOLEAN]
  BY DispatchDrops
<1>2. PICK f \in 1..sending.f : f = buf[1].f
  <2>1. 1 \in DOMAIN buf /\ sending.f \in Nat /\ buf[1].f \in Nat
    BY BufFacts, DispatchDrops, HeadOfBuf
  <2>2. QED
    BY <1>1, <2>1 DEF crc_ok, SentInv
<1>3. UNCHANGED <<sending, hit>>
  BY DispatchDrops DEF Drops, line
<1>4. f \in Nat /\ sending.f \in Nat
  BY BufFacts
<1>5. \A g \in 1..(f - 1) : Line!Settled(g)
  <2> TAKE g \in 1..(f - 1)
  <2>1. g \in 1..sending.f /\ ~(f < g) /\ f # g
    BY <1>4
  <2>2. g \in hit \/ Handed(g)
    BY <1>2, <2>1, HeldIsLater DEF KeptInv
  <2>3. QED
    BY <2>2 DEF Handed, Line!Settled
<1>6. HandedOver = [f |-> f, copy |-> HandedOver.copy]
  BY <1>1, <1>2
<1>7. CASE HandedOver.copy
  <2>1. Line!Settled(f)
    BY <1>2, <1>4, <1>7, HeldIsLater DEF KeptInv, Handed, Line!Settled
  <2>2. HandedOver = [f |-> f, copy |-> TRUE]
    BY <1>1, <1>2, <1>7
  <2>3. QED
    BY <1>1, <1>3, <1>5, <2>1, <2>2 DEF Line!Again, Line!HandOver
<1>8. CASE ~HandedOver.copy
  <2>1. \A j \in DOMAIN dispatched : dispatched[j].copy \/ dispatched[j].f < f
    BY <1>1, <1>2, <1>8, LaterThanHanded
  <2>2. HandedOver = [f |-> f, copy |-> FALSE]
    BY <1>1, <1>2, <1>8
  <2>3. QED
    BY <1>1, <1>3, <1>5, <2>1, <2>2 DEF Line!InOrder, Line!HandOver
<1>9. QED
  BY <1>7, <1>8

---------------------------------------------------------------------------
\* The receiver

RxInv == /\ RxTyped /\ LineInv /\ DropInv /\ SentInv /\ FitInv /\ OrderInv
         /\ HandedInv /\ InOrderOnce /\ KeptInv /\ HitInv

LEMMA RxInvStart == RxInit => RxInv
  BY InvOfStart, BufFacts DEF RxInv, RxInit, KeptInv, HitInv

LEMMA RxInvStep == RxInv /\ [RxNext]_rxVars => RxInv'
  BY RxTypeStep, SentStep, OrderStep, HandedStep, KeptStep, HitStep DEF RxInv

\* The inductive invariant of the receiver.
THEOREM RxInvariant == RxSpec => []RxInv
  BY RxInvStart, RxInvStep, PTL DEF RxSpec

\* The types: above all, no byte is stored beyond the end of the buffer
\* (app_uart.c:377-389) and nothing longer than it is dropped.
THEOREM RxIsTyped == RxSpec => []RxTyped
<1>1. RxInv => RxTyped
  BY DEF RxInv
<1>2. QED
  BY RxInvariant, <1>1, PTL

\* A frame that lost no byte is handed over or is still whole in the buffer,
\* whatever noise, false headers and damaged frames surround it and wherever the
\* interrupt comes in between (app_uart.c:36-51, 234-322).
THEOREM IntactFramesAreKept == RxSpec => []IntactIsKept
<1>1. RxInv => IntactIsKept
  BY KeptIsWhole DEF RxInv
<1>2. QED
  BY RxInvariant, <1>1, PTL

\* Of the frames that have a byte in the place where it was received each is
\* handed over once, in the order of sending (app_uart.c:36-51, 292-321).
THEOREM FramesComeInOrderOnce == RxSpec => []InOrderOnce
<1>1. RxInv => InOrderOnce
  BY DEF RxInv
<1>2. QED
  BY RxInvariant, <1>1, PTL

LEMMA LineStep == RxInv /\ [RxNext]_rxVars => [Line!Next]_(Line!vars)
<1> SUFFICES ASSUME RxInv, [RxNext]_rxVars PROVE [Line!Next]_(Line!vars)
  OBVIOUS
<1>1. /\ sending'.f = sending.f \/ sending'.f = sending.f + 1
      /\ hit \subseteq hit' /\ hit' \subseteq 1..sending'.f
  BY RxInvStep, HitStep DEF RxInv, HitInv
<1>2. CASE dispatch
  BY <1>2, DispatchIsInOrder DEF RxInv, Line!Next
<1>3. CASE UNCHANGED dispatched
  BY <1>1, <1>3 DEF Line!Next, Line!Send, Line!Spoil, Line!Spoils
<1>4. QED
  BY <1>2, <1>3, OnlyDispatch DEF RxInv

\* Parser, interrupt and moves of the buffer together behave as a line that
\* keeps the order: what reaches the handlers of app_ctrl.c overtakes no intact
\* frame, and what comes again was handed over before or is damaged
\* (app_uart.c:36-51, 234-322, 377-389).
THEOREM ReceiverIsOrderedLine == RxSpec => LineKeepsOrder
<1>1. RxInit => Line!Init
  BY DEF RxInit, Line!Init
<1>2. RxInv /\ [RxNext]_rxVars => [Line!Next]_(Line!vars)
  BY LineStep
<1>3. QED
  BY <1>1, <1>2, RxInvariant, PTL DEF RxSpec, LineKeepsOrder, Line!Spec

---------------------------------------------------------------------------
\* The request table

\* What a request in the table and an answer still possible have in common:
\* its number was drawn, its seq is that number on SeqMod values, and since
\* it was drawn no more numbers were drawn than its age allows.
DatedAt(e, k, b) == /\ e.id \in 0..(k - 1)
                    /\ e.seq = e.id % SeqMod
                    /\ k - e.id <= b + MaxBurst * e.age
Dated(e) == DatedAt(e, issued, burst)

Times == /\ \A s \in Slots : InUse(s) => /\ Dated(g_uart_pending[s])
                                         /\ g_uart_pending[s].age <= RspTimeout + loopAge
         /\ \A m \in wire : Dated(m) /\ m.age <= MaxLate
         /\ g_uart_seq = issued % SeqMod

\* A request is in one slot, or silent, or its callback was run: never two.
Apart == /\ \A s, t \in Slots :
              /\ InUse(s) /\ InUse(t)
              /\ g_uart_pending[s].id = g_uart_pending[t].id
              => s = t
         /\ \A k \in silent : k < issued
         /\ \A i \in DOMAIN calls : calls[i][1] < issued /\ calls[i][1] \notin silent
         /\ \A s \in Slots : InUse(s) =>
              /\ g_uart_pending[s].id \notin silent
              /\ \A i \in DOMAIN calls : calls[i][1] # g_uart_pending[s].id

IInv == TypeOK /\ Times /\ Apart /\ OwnAnswers

USE SizesAssumption, NoEntryAssumption

---------------------------------------------------------------------------
\* Arithmetic

\* Of SeqMod numbers in a row no two leave the same remainder: the reason
\* why an eight bit sequence number tells 256 consecutive requests apart.
LEMMA ModDistinct ==
    ASSUME NEW M \in Nat \ {0}, NEW a \in Nat, NEW b \in Nat,
           a < b, b - a < M
    PROVE  a % M # b % M
<1> DEFINE qa == a \div M  qb == b \div M
<1>1. /\ a = M * qa + (a % M) /\ b = M * qb + (b % M)
      /\ qa \in Nat /\ qb \in Nat /\ a % M \in Nat /\ b % M \in Nat
  BY SMT
<1> HIDE DEF qa, qb
<1>2. SUFFICES ASSUME a % M = b % M PROVE FALSE
  OBVIOUS
<1>3. b - a = M * (qb - qa)
  BY <1>1, <1>2, SMT
<1>4. CASE qb - qa <= 0
  <2>1. M * (qb - qa) <= 0
    BY <1>1, <1>4, SMT
  <2>2. QED BY <2>1, <1>3
<1>5. CASE qb - qa >= 1
  <2>1. M * (qb - qa) >= M
    BY <1>1, <1>5, SMT
  <2>2. QED BY <2>1, <1>3
<1>6. QED BY <1>1, <1>4, <1>5

\* Counting one further number keeps the counter and the number in step.
LEMMA ModSuccessor ==
    ASSUME NEW M \in Nat \ {0}, NEW a \in Nat
    PROVE  ((a % M) + 1) % M = (a + 1) % M
<1> DEFINE q == a \div M  r == a % M
<1>1. a = M * q + r /\ q \in Nat /\ r \in 0..(M - 1)
  BY SMT
<1> HIDE DEF q, r
<1>2. CASE r + 1 < M
  <2>1. a + 1 = M * q + (r + 1) /\ r + 1 \in 0..(M - 1)
    BY <1>1, <1>2
  <2>2. (a + 1) % M = r + 1
    BY <1>1, <2>1, SMT
  <2>3. (r + 1) % M = r + 1
    BY <2>1, SMT
  <2>4. QED BY <2>2, <2>3 DEF r
<1>3. CASE r + 1 = M
  <2>1. a + 1 = M * (q + 1) + 0
    BY <1>1, <1>3, SMT
  <2>2. (a + 1) % M = 0
    BY <1>1, <2>1, SMT
  <2>3. (r + 1) % M = 0
    BY <1>3, SMT
  <2>4. QED BY <2>2, <2>3 DEF r
<1>4. QED BY <1>1, <1>2, <1>3

---------------------------------------------------------------------------
\* Types

LEMMA NewEntryType ==
    ASSUME TypeOK, NEW cmd \in CmdIds
    PROVE  NewEntry(cmd) \in Entries
  BY DEF TypeOK, NewEntry, Entries

LEMMA OlderType ==
    ASSUME NEW e \in Entries
    PROVE  Older(e) = [cmdId |-> e.cmdId, seq |-> e.seq,
                       age |-> e.age + 1, id |-> e.id]
  BY DEF Older, Entries

LEMMA TypeStep == TypeOK /\ [Next]_vars => TypeOK'
<1> SUFFICES ASSUME TypeOK, [Next]_vars PROVE TypeOK'
  OBVIOUS
<1> USE DEF TypeOK
<1>1. ASSUME DrawSeq
      PROVE  g_uart_seq' \in Seqs /\ issued' \in 0..MaxIssued /\ burst' \in 0..MaxBurst
  <2>1. (g_uart_seq + 1) % SeqMod \in 0..(SeqMod - 1)
    BY SMT DEF Seqs
  <2>2. QED BY <1>1, <2>1 DEF DrawSeq, Seqs
<1>2. ASSUME NEW cmd \in CmdIds, send_cmd(cmd) PROVE TypeOK'
  BY <1>1, <1>2, NewEntryType DEF send_cmd
<1>3. ASSUME NEW cmd \in CmdIds, send_cmd_with_cb(cmd) PROVE TypeOK'
  BY <1>1, <1>3, NewEntryType DEF send_cmd_with_cb
<1>4. ASSUME NEW cmd \in CmdIds, send_cmd_frame_failed(cmd) PROVE TypeOK'
  <2>1. PICK s \in Slots, t \in Slots :
          g_uart_pending' = [[g_uart_pending EXCEPT ![s] = NewEntry(cmd)]
                             EXCEPT ![t] = NoEntry]
    BY <1>4 DEF send_cmd_frame_failed
  <2>2. g_uart_pending' \in [Slots -> Entries \cup {NoEntry}]
    BY <2>1, NewEntryType
  <2>3. silent' \in SUBSET Nat
    BY <1>4 DEF send_cmd_frame_failed
  <2>4. QED BY <1>1, <1>4, <2>2, <2>3 DEF send_cmd_frame_failed
<1>5. CASE send_cmd_table_full
  BY <1>1, <1>5 DEF send_cmd_table_full
<1>6. CASE cleanup_pending_timeout
  BY <1>6 DEF cleanup_pending_timeout
<1>7. CASE dispatch_rsp
  <2>1. PICK m \in wire, s \in Slots :
             /\ InUse(s)
             /\ g_uart_pending' = [g_uart_pending EXCEPT ![s] = NoEntry]
             /\ calls' = Append(calls, <<g_uart_pending[s].id, m.id>>)
    BY <1>7 DEF dispatch_rsp, FirstMatch, Matches
  <2>2. g_uart_pending[s].id \in Nat /\ m.id \in Nat
    BY <2>1 DEF InUse, Entries
  <2>3. calls' \in Seq(Nat \X Nat)
    BY <2>1, <2>2
  <2>4. QED BY <1>7, <2>1, <2>3 DEF dispatch_rsp
<1>8. CASE uart_task_returns
  BY <1>8 DEF uart_task_returns
<1>9. CASE Tick
  <2>1. \A e \in Entries : Older(e) \in Entries
    BY OlderType DEF Entries
  <2>2. g_uart_pending' \in [Slots -> Entries \cup {NoEntry}]
    BY <1>9, <2>1 DEF Tick, InUse
  <2>3. wire' \in SUBSET Entries
    BY <1>9, <2>1 DEF Tick
  <2>4. loopAge' \in 0..LoopTicks /\ burst' \in 0..MaxBurst
    BY <1>9 DEF Tick
  <2>5. UNCHANGED <<g_uart_seq, task, issued, silent, calls>>
    BY <1>9 DEF Tick
  <2>6. QED BY <2>2, <2>3, <2>4, <2>5
<1>10. CASE UNCHANGED vars
  BY <1>10 DEF vars
<1>11. QED
  BY <1>2, <1>3, <1>4, <1>5, <1>6, <1>7, <1>8, <1>9, <1>10 DEF Next, Send

LEMMA TypeInit == Init => TypeOK
  BY DEF Init, TypeOK, Seqs

\* The table, the counter, the answers under way and the history keep their
\* types whatever the table's size and the counter's width.
THEOREM TypeCorrect == Spec => []TypeOK
  BY TypeInit, TypeStep, PTL DEF Spec

---------------------------------------------------------------------------
\* Sequence numbers

\* Everything not too old was drawn within the last SeqMod numbers.
LEMMA Window ==
    ASSUME TypeOK, NEW e \in Entries, Dated(e), e.age <= Longest
    PROVE  /\ issued - e.id <= SeqMod
           /\ burst < MaxBurst => issued - e.id < SeqMod
<1> DEFINE L == Longest
<1>1. L \in Nat /\ e.age \in Nat /\ e.id \in Nat /\ burst \in 0..MaxBurst /\ issued \in Nat
  BY DEF Longest, Entries, TypeOK
<1>2. MaxBurst * (L + 1) <= SeqMod
  BY NoWrapAssumption
<1>3. issued - e.id <= burst + MaxBurst * e.age /\ e.age <= L
  BY DEF Dated, DatedAt
<1> HIDE DEF L
<1>4. MaxBurst * e.age <= MaxBurst * L
  BY <1>1, <1>3, SMT
<1>5. MaxBurst * (L + 1) = MaxBurst * L + MaxBurst
  BY <1>1, SMT
<1>6. MaxBurst * e.age \in Nat /\ MaxBurst * L \in Nat
  BY <1>1, SMT
<1>7. QED
  BY <1>1, <1>2, <1>3, <1>4, <1>5, <1>6, SMT

\* Equal sequence numbers mean the same request.
LEMMA SameSeqSameRequest ==
    ASSUME TypeOK, NEW e \in Entries, Dated(e), e.age <= Longest,
                   NEW f \in Entries, Dated(f), f.age <= Longest,
           e.seq = f.seq
    PROVE  e.id = f.id
<1>1. /\ e.id \in Nat /\ f.id \in Nat /\ issued \in Nat
      /\ e.id < issued /\ f.id < issued
      /\ e.id % SeqMod = f.id % SeqMod
  <2>1. e.id \in Nat /\ f.id \in Nat
    BY DEF Entries
  <2>2. issued \in Nat
    BY DEF TypeOK
  <2>3. e.id \in 0..(issued - 1) /\ f.id \in 0..(issued - 1)
    BY Zenon DEF Dated, DatedAt
  <2>4. e.id % SeqMod = f.id % SeqMod
    BY Zenon DEF Dated, DatedAt
  <2>5. e.id < issued /\ f.id < issued
    BY <2>1, <2>2, <2>3
  <2>. QED BY <2>1, <2>2, <2>4, <2>5, Zenon
<1>2. issued - e.id <= SeqMod /\ issued - f.id <= SeqMod
  BY Window
<1>3. CASE e.id < f.id
  BY <1>1, <1>2, <1>3, ModDistinct
<1>4. CASE f.id < e.id
  BY <1>1, <1>2, <1>4, ModDistinct
<1>5. QED BY <1>1, <1>3, <1>4

\* The number about to be drawn is not that of anything still about.
LEMMA NextSeqFresh ==
    ASSUME TypeOK, Times, burst < MaxBurst,
           NEW e \in Entries, Dated(e), e.age <= Longest
    PROVE  e.seq # g_uart_seq
<1>1. /\ e.id \in Nat /\ issued \in Nat /\ e.id < issued
      /\ e.seq = e.id % SeqMod /\ g_uart_seq = issued % SeqMod
  <2>1. e.id \in Nat /\ issued \in Nat
    BY DEF Entries, TypeOK
  <2>2. e.id \in 0..(issued - 1)
    BY Zenon DEF Dated, DatedAt
  <2>3. e.seq = e.id % SeqMod /\ g_uart_seq = issued % SeqMod
    BY Zenon DEF Dated, DatedAt, Times
  <2>4. e.id < issued
    BY <2>1, <2>2
  <2>. QED BY <2>1, <2>3, <2>4, Zenon
<1>2. issued - e.id < SeqMod
  BY Window
<1>3. QED BY <1>1, <1>2, ModDistinct

LEMMA SlotEntry ==
    ASSUME TypeOK, Times, NEW s \in Slots, InUse(s)
    PROVE  /\ g_uart_pending[s] \in Entries
           /\ Dated(g_uart_pending[s])
           /\ g_uart_pending[s].age <= Longest
<1>1. g_uart_pending[s] \in Entries
  BY DEF TypeOK, InUse
<1>2. Dated(g_uart_pending[s]) /\ g_uart_pending[s].age <= RspTimeout + loopAge
  BY DEF Times
<1>3. RspTimeout + loopAge <= Longest
  BY DEF TypeOK, Longest
<1>4. QED BY <1>1, <1>2, <1>3 DEF Entries, TypeOK, Longest

LEMMA WireEntry ==
    ASSUME TypeOK, Times, NEW m \in wire
    PROVE  m \in Entries /\ Dated(m) /\ m.age <= Longest
  BY DEF TypeOK, Times, Longest, Entries

\* The unique keys follow from the two facts above.
LEMMA KeysUnique == TypeOK /\ Times /\ Apart => UniqueKeys
<1> SUFFICES ASSUME TypeOK, Times, Apart, NEW s \in Slots, NEW t \in Slots,
                    InUse(s), InUse(t),
                    g_uart_pending[s].seq = g_uart_pending[t].seq
             PROVE  s = t
  BY DEF UniqueKeys
<1>1. g_uart_pending[s].id = g_uart_pending[t].id
  BY SlotEntry, SameSeqSameRequest
<1>2. QED BY <1>1 DEF Apart

---------------------------------------------------------------------------
\* The inductive step

\* Drawing a number leaves what is about dated, and dates the new entry.
LEMMA DatedDraw ==
    ASSUME TypeOK, Times, DrawSeq
    PROVE  /\ \A e \in Entries : Dated(e) => DatedAt(e, issued', burst')
           /\ \A cmd \in CmdIds : DatedAt(NewEntry(cmd), issued', burst')
           /\ g_uart_seq' = issued' % SeqMod
<1>1. /\ issued' = issued + 1 /\ burst' = burst + 1
      /\ issued \in Nat /\ burst \in Nat
      /\ g_uart_seq' = (g_uart_seq + 1) % SeqMod /\ g_uart_seq = issued % SeqMod
  BY DEF DrawSeq, TypeOK, Times
<1>2. \A e \in Entries : Dated(e) => DatedAt(e, issued', burst')
  <2> SUFFICES ASSUME NEW e \in Entries, Dated(e) PROVE DatedAt(e, issued', burst')
    OBVIOUS
  <2> DEFINE room == MaxBurst * e.age
  <2>1. room \in Nat
    BY SMT DEF Entries
  <2> HIDE DEF room
  <2>2. e.id \in 0..(issued - 1) /\ e.seq = e.id % SeqMod /\ issued - e.id <= burst + room
    BY DEF Dated, DatedAt, room
  <2>3. e.id \in 0..(issued' - 1) /\ issued' - e.id <= burst' + room
    BY <1>1, <2>1, <2>2
  <2>4. QED BY <2>2, <2>3 DEF DatedAt, room
<1>3. \A cmd \in CmdIds : DatedAt(NewEntry(cmd), issued', burst')
  <2>1. MaxBurst * 0 = 0
    OBVIOUS
  <2>2. QED BY <1>1, <2>1 DEF DatedAt, NewEntry
<1>4. g_uart_seq' = issued' % SeqMod
  BY <1>1, ModSuccessor
<1>5. QED BY <1>2, <1>3, <1>4

\* A tick leaves everything dated: the burst moves into the age.
LEMMA DatedTick ==
    ASSUME TypeOK, NEW e \in Entries, Dated(e)
    PROVE  DatedAt(Older(e), issued, 0)
<1>1. /\ e.age \in Nat /\ e.id \in Nat /\ burst \in 0..MaxBurst /\ issued \in Nat
      /\ Older(e).id = e.id /\ Older(e).seq = e.seq /\ Older(e).age = e.age + 1
  BY OlderType DEF Entries, TypeOK
<1>2. MaxBurst * (e.age + 1) = MaxBurst * e.age + MaxBurst /\ MaxBurst * e.age \in Nat
  BY <1>1, SMT
<1>3. issued - e.id <= burst + MaxBurst * e.age
  BY DEF Dated, DatedAt
<1>4. issued - e.id <= MaxBurst * (e.age + 1)
  BY <1>1, <1>2, <1>3
<1>5. QED BY <1>1, <1>4 DEF Dated, DatedAt

\* The four ways to send change the table and the wire alike.
LEMMA TimesSend ==
    ASSUME TypeOK, TypeOK', Times, DrawSeq, UNCHANGED loopAge,
           \A s \in Slots : \/ g_uart_pending'[s] = g_uart_pending[s]
                           \/ g_uart_pending'[s] = NoEntry
                           \/ \E cmd \in CmdIds : g_uart_pending'[s] = NewEntry(cmd),
           \A m \in wire' : m \in wire \/ \E cmd \in CmdIds : m = NewEntry(cmd)
    PROVE  Times'
<1>1. \A cmd \in CmdIds : NewEntry(cmd).age = 0 /\ NewEntry(cmd) \in Entries
  BY NewEntryType DEF NewEntry
<1>2. ASSUME NEW s \in Slots, InUse(s)'
      PROVE  /\ DatedAt(g_uart_pending'[s], issued', burst')
             /\ g_uart_pending'[s].age <= RspTimeout + loopAge'
  <2>1. CASE g_uart_pending'[s] = g_uart_pending[s]
    <3>1. InUse(s)
      BY <1>2, <2>1 DEF InUse
    <3>2. /\ g_uart_pending[s] \in Entries /\ Dated(g_uart_pending[s])
          /\ g_uart_pending[s].age <= RspTimeout + loopAge
      BY <3>1, SlotEntry DEF Times
    <3>3. QED BY <2>1, <3>2, DatedDraw
  <2>2. CASE \E cmd \in CmdIds : g_uart_pending'[s] = NewEntry(cmd)
    BY <1>1, <2>2, DatedDraw DEF TypeOK
  <2>3. g_uart_pending'[s] # NoEntry
    BY <1>2 DEF InUse
  <2>4. QED BY <2>1, <2>2, <2>3
<1>3. ASSUME NEW m \in wire' PROVE DatedAt(m, issued', burst') /\ m.age <= MaxLate
  <2>1. CASE m \in wire
    <3>1. m \in Entries /\ Dated(m) /\ m.age <= MaxLate
      BY <2>1, WireEntry DEF Times
    <3>2. QED BY <3>1, DatedDraw
  <2>2. CASE \E cmd \in CmdIds : m = NewEntry(cmd)
    BY <1>1, <2>2, DatedDraw
  <2>3. QED BY <1>3, <2>1, <2>2
<1>4. g_uart_seq' = issued' % SeqMod
  BY DatedDraw
<1>5. QED BY <1>2, <1>3, <1>4 DEF Times, Dated

LEMMA TimesStep == TypeOK /\ Times /\ [Next]_vars => Times'
<1> SUFFICES ASSUME TypeOK, Times, [Next]_vars PROVE Times'
  OBVIOUS
<1>0. TypeOK'
  BY TypeStep
<1>1. ASSUME NEW cmd \in CmdIds, send_cmd(cmd) PROVE Times'
  BY <1>0, <1>1, TimesSend DEF send_cmd
<1>2. ASSUME NEW cmd \in CmdIds, send_cmd_with_cb(cmd) PROVE Times'
  <2>1. \A s \in Slots : g_uart_pending'[s] \in {g_uart_pending[s], NewEntry(cmd)}
    BY <1>2 DEF send_cmd_with_cb, TypeOK
  <2>2. QED BY <1>0, <1>2, <2>1, TimesSend DEF send_cmd_with_cb
<1>3. ASSUME NEW cmd \in CmdIds, send_cmd_frame_failed(cmd) PROVE Times'
  <2>1. PICK s \in Slots, t \in Slots :
          g_uart_pending' = [[g_uart_pending EXCEPT ![s] = NewEntry(cmd)]
                             EXCEPT ![t] = NoEntry]
    BY <1>3 DEF send_cmd_frame_failed
  <2>2. \A u \in Slots : g_uart_pending'[u] \in {g_uart_pending[u], NewEntry(cmd), NoEntry}
    BY <2>1 DEF TypeOK
  <2>3. QED BY <1>0, <1>3, <2>2, TimesSend DEF send_cmd_frame_failed
<1>4. CASE send_cmd_table_full
  BY <1>0, <1>4, TimesSend DEF send_cmd_table_full
<1>5. CASE cleanup_pending_timeout
  <2>1. \A s \in Slots : InUse(s)' => /\ InUse(s)
                                     /\ g_uart_pending'[s] = g_uart_pending[s]
                                     /\ ~(g_uart_pending[s].age > RspTimeout)
    BY <1>5 DEF cleanup_pending_timeout, InUse, TimedOut
  <2>2. \A s \in Slots : InUse(s) => g_uart_pending[s].age \in Nat
    BY SlotEntry DEF Entries
  <2>3. QED
    BY <1>5, <2>1, <2>2 DEF cleanup_pending_timeout, Times, Dated
<1>6. CASE dispatch_rsp
  <2>1. PICK s \in Slots : g_uart_pending' = [g_uart_pending EXCEPT ![s] = NoEntry]
    BY <1>6 DEF dispatch_rsp
  <2>2. \A u \in Slots : InUse(u)' => InUse(u) /\ g_uart_pending'[u] = g_uart_pending[u]
    BY <2>1 DEF InUse, TypeOK
  <2>3. QED BY <1>6, <2>2 DEF dispatch_rsp, Times, Dated
<1>7. CASE uart_task_returns
  BY <1>7 DEF uart_task_returns, Times, Dated, InUse
<1>8. CASE Tick
  <2>1. ASSUME NEW s \in Slots, InUse(s)'
        PROVE  /\ DatedAt(g_uart_pending'[s], issued', burst')
               /\ g_uart_pending'[s].age <= RspTimeout + loopAge'
    <3>1. InUse(s) /\ g_uart_pending'[s] = Older(g_uart_pending[s])
      BY <1>8, <2>1 DEF Tick, InUse
    <3>2. /\ g_uart_pending[s] \in Entries /\ Dated(g_uart_pending[s])
          /\ g_uart_pending[s].age <= RspTimeout + loopAge
      BY <3>1, SlotEntry DEF Times
    <3>3. g_uart_pending'[s].age = g_uart_pending[s].age + 1
      BY <3>1, <3>2, OlderType
    <3>4. g_uart_pending'[s].age <= RspTimeout + loopAge'
      <4>1. loopAge' = loopAge + 1 /\ loopAge \in Nat /\ RspTimeout \in Nat
        BY <1>8 DEF Tick, TypeOK
      <4>2. g_uart_pending[s].age \in Nat
        BY <3>2 DEF Entries
      <4>3. QED
        BY <3>2, <3>3, <4>1, <4>2
    <3>5. QED BY <1>8, <3>1, <3>2, <3>4, DatedTick DEF Tick
  <2>2. ASSUME NEW m \in wire' PROVE DatedAt(m, issued', burst') /\ m.age <= MaxLate
    <3>1. PICK w \in wire : w.age < MaxLate /\ m = Older(w)
      BY <1>8, <2>2 DEF Tick
    <3>2. w \in Entries /\ Dated(w)
      BY WireEntry
    <3>3. m.age <= MaxLate
      BY <3>1, <3>2, OlderType DEF Entries
    <3>4. QED BY <1>8, <3>1, <3>2, <3>3, DatedTick DEF Tick
  <2>3. QED BY <1>8, <2>1, <2>2 DEF Tick, Times, Dated
<1>9. CASE UNCHANGED vars
  BY <1>9 DEF vars, Times, Dated, InUse
<1>10. QED
  BY <1>1, <1>2, <1>3, <1>4, <1>5, <1>6, <1>7, <1>8, <1>9 DEF Next, Send

\* When a frame cannot be sent the search by (cmdId, seq) finds the slot just
\* taken and no other, so that the table is as before.
LEMMA FrameFailedRestores ==
    ASSUME TypeOK, Times, NEW cmd \in CmdIds, send_cmd_frame_failed(cmd)
    PROVE  g_uart_pending' = g_uart_pending
<1> DEFINE taken(s) == [g_uart_pending EXCEPT ![s] = NewEntry(cmd)]
<1>1. PICK s \in Slots, t \in Slots :
        /\ ~InUse(s)
        /\ taken(s)[t] # NoEntry /\ taken(s)[t].seq = g_uart_seq
        /\ g_uart_pending' = [taken(s) EXCEPT ![t] = NoEntry]
  BY DEF send_cmd_frame_failed, FirstFree
<1>2. burst < MaxBurst
  BY DEF send_cmd_frame_failed, DrawSeq
<1>3. t = s
  <2> SUFFICES ASSUME t # s PROVE FALSE
    OBVIOUS
  <2>1. InUse(t) /\ g_uart_pending[t].seq = g_uart_seq
    BY <1>1 DEF TypeOK, InUse
  <2>2. QED BY <1>2, <2>1, SlotEntry, NextSeqFresh
<1>4. QED BY <1>1, <1>3 DEF InUse, TypeOK

LEMMA ApartStep == TypeOK /\ Times /\ Apart /\ [Next]_vars => Apart'
<1> SUFFICES ASSUME TypeOK, Times, Apart, [Next]_vars PROVE Apart'
  OBVIOUS
<1>0. \A s \in Slots : InUse(s) => g_uart_pending[s].id < issued /\ issued \in Nat
  BY SlotEntry DEF Dated, DatedAt, TypeOK
<1>1. ASSUME DrawSeq, UNCHANGED <<g_uart_pending, calls>>, silent' = silent \cup {issued}
      PROVE  Apart'
  <2>1. issued' = issued + 1 /\ issued \in Nat /\ silent \subseteq Nat
    BY <1>1 DEF DrawSeq, TypeOK
  <2>2. \A i \in DOMAIN calls : calls[i] \in Nat \X Nat
    BY DEF TypeOK
  <2>3. QED BY <1>0, <1>1, <2>1, <2>2 DEF Apart, InUse
<1>2. ASSUME NEW cmd \in CmdIds, send_cmd(cmd) PROVE Apart'
  BY <1>1, <1>2 DEF send_cmd
<1>3. ASSUME NEW cmd \in CmdIds, send_cmd_with_cb(cmd) PROVE Apart'
  <2>1. PICK s \in Slots : ~InUse(s) /\ g_uart_pending' = [g_uart_pending EXCEPT ![s] = NewEntry(cmd)]
    BY <1>3 DEF send_cmd_with_cb, FirstFree
  <2>2. /\ issued' = issued + 1 /\ issued \in Nat /\ silent' = silent /\ calls' = calls
        /\ silent \subseteq Nat /\ NewEntry(cmd).id = issued
    BY <1>3 DEF send_cmd_with_cb, DrawSeq, TypeOK, NewEntry
  <2>3. \A i \in DOMAIN calls : calls[i][1] \in Nat
    BY DEF TypeOK
  <2>4. \A t \in Slots : t # s => g_uart_pending'[t] = g_uart_pending[t]
    BY <2>1 DEF TypeOK
  <2>5. g_uart_pending'[s] = NewEntry(cmd)
    BY <2>1 DEF TypeOK
  <2>6. \A t \in Slots : InUse(t)' /\ t # s => InUse(t) /\ g_uart_pending'[t].id < issued
    BY <1>0, <2>4 DEF InUse
  <2>7. \A t, u \in Slots :
          (/\ InUse(t)' /\ InUse(u)'
           /\ g_uart_pending'[t].id = g_uart_pending'[u].id) => t = u
    <3> SUFFICES ASSUME NEW t \in Slots, NEW u \in Slots, InUse(t)', InUse(u)',
                        g_uart_pending'[t].id = g_uart_pending'[u].id
                 PROVE  t = u
      OBVIOUS
    <3>1. CASE t = s \/ u = s
      BY <2>2, <2>5, <2>6, <3>1
    <3>2. CASE t # s /\ u # s
      BY <2>4, <2>6, <3>2 DEF Apart
    <3>3. QED BY <3>1, <3>2
  <2>8. ASSUME NEW t \in Slots, InUse(t)'
        PROVE  /\ g_uart_pending'[t].id \notin silent
               /\ \A i \in DOMAIN calls : calls[i][1] # g_uart_pending'[t].id
    <3>1. CASE t = s
      BY <2>2, <2>3, <2>5, <3>1 DEF Apart
    <3>2. CASE t # s
      BY <2>4, <2>6, <2>8, <3>2 DEF Apart
    <3>3. QED BY <3>1, <3>2
  <2>9. /\ \A k \in silent : k < issued'
        /\ \A i \in DOMAIN calls : calls[i][1] < issued' /\ calls[i][1] \notin silent
    <3>1. \A k \in silent : k < issued
      BY DEF Apart
    <3>2. \A i \in DOMAIN calls : calls[i][1] < issued /\ calls[i][1] \notin silent
      BY DEF Apart
    <3>3. \A k \in silent : k < issued'
      BY <2>2, <3>1
    <3>4. \A i \in DOMAIN calls : calls[i][1] < issued'
      BY <2>2, <2>3, <3>2
    <3>. QED BY <3>2, <3>3, <3>4
  <2>10. QED BY <2>2, <2>7, <2>8, <2>9 DEF Apart
<1>4. ASSUME NEW cmd \in CmdIds, send_cmd_frame_failed(cmd) PROVE Apart'
  BY <1>1, <1>4, FrameFailedRestores DEF send_cmd_frame_failed
<1>5. CASE send_cmd_table_full
  BY <1>1, <1>5 DEF send_cmd_table_full
<1>6. CASE cleanup_pending_timeout
  <2>1. \A s \in Slots : InUse(s)' => InUse(s) /\ g_uart_pending'[s] = g_uart_pending[s]
    BY <1>6 DEF cleanup_pending_timeout, InUse
  <2>2. QED BY <1>6, <2>1 DEF cleanup_pending_timeout, Apart
<1>7. CASE dispatch_rsp
  <2>1. PICK m \in wire, s \in Slots :
          /\ InUse(s)
          /\ g_uart_pending' = [g_uart_pending EXCEPT ![s] = NoEntry]
          /\ calls' = Append(calls, <<g_uart_pending[s].id, m.id>>)
    BY <1>7 DEF dispatch_rsp, FirstMatch, Matches
  <2>2. \A t \in Slots : InUse(t)' => /\ InUse(t) /\ t # s
                                     /\ g_uart_pending'[t] = g_uart_pending[t]
    BY <2>1 DEF InUse, TypeOK
  <2>3. \A i \in DOMAIN calls' : \/ i \in DOMAIN calls /\ calls'[i] = calls[i]
                                \/ calls'[i] = <<g_uart_pending[s].id, m.id>>
    BY <2>1 DEF TypeOK
  <2>4. UNCHANGED <<issued, silent>>
    BY <1>7 DEF dispatch_rsp
  <2>5. \A i \in DOMAIN calls' : calls'[i][1] < issued /\ calls'[i][1] \notin silent
    BY <1>0, <2>1, <2>3 DEF Apart
  <2>6. \A t \in Slots : InUse(t)' =>
          \A i \in DOMAIN calls' : calls'[i][1] # g_uart_pending'[t].id
    BY <2>1, <2>2, <2>3 DEF Apart
  <2>7. QED BY <2>2, <2>4, <2>5, <2>6 DEF Apart
<1>8. CASE uart_task_returns
  BY <1>8 DEF uart_task_returns, Apart, InUse
<1>9. CASE Tick
  <2>1. \A s \in Slots : InUse(s)' => InUse(s) /\ g_uart_pending'[s] = Older(g_uart_pending[s])
    BY <1>9 DEF Tick, InUse
  <2>2. \A s \in Slots : InUse(s)' => g_uart_pending'[s].id = g_uart_pending[s].id
    BY <2>1, SlotEntry, OlderType
  <2>3. QED BY <1>9, <2>1, <2>2 DEF Tick, Apart
<1>10. CASE UNCHANGED vars
  BY <1>10 DEF vars, Apart, InUse
<1>11. QED
  BY <1>2, <1>3, <1>4, <1>5, <1>6, <1>7, <1>8, <1>9, <1>10 DEF Next, Send

\* The one step that runs a callback runs it with its own answer.
LEMMA OwnStep == TypeOK /\ Times /\ OwnAnswers /\ [Next]_vars => OwnAnswers'
<1> SUFFICES ASSUME TypeOK, Times, OwnAnswers, [Next]_vars PROVE OwnAnswers'
  OBVIOUS
<1>1. CASE dispatch_rsp
  <2>1. PICK m \in wire, s \in Slots :
          /\ InUse(s) /\ g_uart_pending[s].seq = m.seq
          /\ calls' = Append(calls, <<g_uart_pending[s].id, m.id>>)
    BY <1>1 DEF dispatch_rsp, FirstMatch, Matches
  <2>2. g_uart_pending[s].id = m.id
    BY <2>1, SlotEntry, WireEntry, SameSeqSameRequest
  <2>3. \A i \in DOMAIN calls' : \/ i \in DOMAIN calls /\ calls'[i] = calls[i]
                                \/ calls'[i] = <<m.id, m.id>>
    BY <2>1, <2>2 DEF TypeOK
  <2>4. QED BY <2>3 DEF OwnAnswers
<1>2. CASE UNCHANGED calls
  BY <1>2 DEF OwnAnswers
<1>3. dispatch_rsp \/ UNCHANGED calls
  BY DEF Next, Send, vars, send_cmd, send_cmd_with_cb, send_cmd_frame_failed,
         send_cmd_table_full, cleanup_pending_timeout, uart_task_returns, Tick
<1>4. QED BY <1>1, <1>2, <1>3

---------------------------------------------------------------------------
\* The invariants

LEMMA InvInit == Init => IInv
<1> SUFFICES ASSUME Init PROVE IInv
  OBVIOUS
<1>1. TypeOK
  BY TypeInit
<1>2. 0 % SeqMod = 0
  BY SMT
<1>3. \A s \in Slots : ~InUse(s)
  BY DEF Init, InUse
<1>4. QED BY <1>1, <1>2, <1>3 DEF Init, IInv, Times, Apart, OwnAnswers

\* The table is dated, apart and answered by its own, always: the conjunction
\* that is inductive, from which the properties follow.
THEOREM Invariant == Spec => []IInv
<1>1. IInv /\ [Next]_vars => IInv'
  BY TypeStep, TimesStep, ApartStep, OwnStep DEF IInv
<1>2. QED BY InvInit, <1>1, PTL DEF Spec

\* Two waiting requests never share (cmdId, seq): app_uart_dispatch_rsp has
\* one candidate, for any table size and any counter width that holds the
\* numbers drawn within the longest wait.
THEOREM KeysAreUnique == Spec => []UniqueKeys
<1>1. IInv => UniqueKeys
  BY KeysUnique DEF IInv
<1>2. QED BY <1>1, Invariant, PTL

\* A callback only gets the answer the SOC made for its own request.
THEOREM AnswersAreOwn == Spec => []OwnAnswers
<1>1. IInv => OwnAnswers
  BY DEF IInv
<1>2. QED BY <1>1, Invariant, PTL

\* Nothing waits longer than the timeout and one pass of the main loop.
THEOREM NothingOverdue == Spec => []NoOverdueRequest
<1>1. IInv => NoOverdueRequest
  BY DEF IInv, Times, NoOverdueRequest
<1>2. QED BY <1>1, Invariant, PTL

---------------------------------------------------------------------------
\* The table implements OneShotRequest

Shown == [k \in Numbers |-> StatusOf(k)]

\* Drawing a number without opening a request makes that number silent.
LEMMA SilentStep ==
    ASSUME IInv, DrawSeq, UNCHANGED <<g_uart_pending, calls>>,
           silent' = silent \cup {issued}
    PROVE  Abstract!Next
<1>1. issued \in Numbers /\ issued' = issued + 1 /\ issued \in Nat
  BY DEF DrawSeq, Numbers, IInv, TypeOK
<1>2. Shown[issued] = "unsent"
  BY <1>1 DEF Shown, StatusOf
<1>3. Shown' = [Shown EXCEPT ![issued] = "silent"]
  <2>1. ASSUME NEW k \in Numbers, k # issued PROVE StatusOf(k)' = StatusOf(k)
    <3>1. (k >= issued' <=> k >= issued) /\ (k \in silent' <=> k \in silent)
      BY <1>1, <2>1 DEF Numbers
    <3>2. Waiting(k)' = Waiting(k) /\ Called(k)' = Called(k)
      BY DEF Waiting, Called, InUse
    <3>3. QED BY <3>1, <3>2 DEF StatusOf
  <2>2. ~(issued >= issued') /\ issued \in silent'
    BY <1>1
  <2>3. Shown'[issued] = "silent"
    BY <1>1, <2>2 DEF Shown, StatusOf
  <2>4. QED BY <1>1, <2>1, <2>3 DEF Shown
<1>4. Abstract!Silence(issued)
  BY <1>2, <1>3 DEF Abstract!Silence, Shown
<1>5. QED BY <1>1, <1>4 DEF Abstract!Next, Shown

\* Sending with a free slot opens the request.
LEMMA OpenStep ==
    ASSUME IInv, NEW cmd \in CmdIds, send_cmd_with_cb(cmd)
    PROVE  Abstract!Next
<1>1. PICK s \in Slots : ~InUse(s) /\ g_uart_pending' = [g_uart_pending EXCEPT ![s] = NewEntry(cmd)]
  BY DEF send_cmd_with_cb, FirstFree
<1>2. /\ issued \in Numbers /\ issued' = issued + 1 /\ issued \in Nat
      /\ UNCHANGED <<silent, calls>> /\ \A k \in silent : k < issued
  BY DEF send_cmd_with_cb, DrawSeq, Numbers, IInv, TypeOK, Apart
<1>3. NewEntry(cmd).id = issued /\ NewEntry(cmd) # NoEntry
  BY NewEntryType DEF NewEntry, IInv
<1>4. /\ g_uart_pending'[s] = NewEntry(cmd)
      /\ \A t \in Slots : t # s => g_uart_pending'[t] = g_uart_pending[t]
  BY <1>1 DEF IInv, TypeOK
<1>5. Shown[issued] = "unsent"
  BY <1>2 DEF Shown, StatusOf
<1>6. Shown' = [Shown EXCEPT ![issued] = "open"]
  <2>1. ASSUME NEW k \in Numbers, k # issued PROVE StatusOf(k)' = StatusOf(k)
    <3>1. (k >= issued' <=> k >= issued) /\ Called(k)' = Called(k)
      BY <1>2, <2>1 DEF Numbers, Called
    <3>2. Waiting(k)' <=> Waiting(k)
      BY <1>1, <1>3, <1>4, <2>1 DEF Waiting, InUse
    <3>3. QED BY <1>2, <3>1, <3>2 DEF StatusOf
  <2>2. ~(issued >= issued') /\ issued \notin silent'
    BY <1>2
  <2>3. \A k \in Numbers : k = issued => Waiting(k)'
    BY <1>3, <1>4 DEF Waiting, InUse
  <2>4. Shown'[issued] = "open"
    BY <1>2, <2>2, <2>3 DEF Shown, StatusOf
  <2>5. QED BY <1>2, <2>1, <2>4 DEF Shown
<1>7. Abstract!Open(issued)
  BY <1>2, <1>5, <1>6 DEF Abstract!Open, Shown
<1>8. QED BY <1>2, <1>7 DEF Abstract!Next, Shown

\* An entry still in the table is shown open.
LEMMA SlotShownOpen ==
    ASSUME IInv, NEW s \in Slots, InUse(s)
    PROVE  /\ g_uart_pending[s].id \in Numbers
           /\ StatusOf(g_uart_pending[s].id) = "open"
<1>1. g_uart_pending[s].id \in 0..(issued - 1) /\ issued \in 0..MaxIssued
  BY SlotEntry DEF IInv, TypeOK, Dated, DatedAt
<1>2. g_uart_pending[s].id \notin silent
  BY DEF IInv, Apart
<1>3. Waiting(g_uart_pending[s].id)
  BY DEF Waiting
<1>4. QED BY <1>1, <1>2, <1>3 DEF Numbers, StatusOf

\* A sweep expires what it takes out of the table.
LEMMA ExpireStep ==
    ASSUME IInv, cleanup_pending_timeout
    PROVE  [Abstract!Next]_<<Shown, calls>>
<1> DEFINE S == {k \in Numbers : Shown[k] = "open" /\ Shown'[k] # "open"}
<1>1. UNCHANGED <<issued, silent, calls>>
  BY DEF cleanup_pending_timeout
<1>2. \A s \in Slots : InUse(s)' => InUse(s) /\ g_uart_pending'[s] = g_uart_pending[s]
  BY DEF cleanup_pending_timeout, InUse
<1>3. \A k \in Numbers : Waiting(k)' => Waiting(k)
  BY <1>2 DEF Waiting
<1>4. \A k \in Numbers : Waiting(k) => ~Called(k)
  BY DEF Waiting, Called, IInv, Apart
<1>5. \A k \in Numbers : Called(k)' <=> Called(k)
  BY <1>1 DEF Called
<1>6. \A k \in Numbers : \/ StatusOf(k)' = StatusOf(k)
                          \/ (StatusOf(k) = "open" /\ StatusOf(k)' = "expired")
  BY <1>1, <1>3, <1>4, <1>5 DEF StatusOf
<1>7. Shown' = [k \in DOMAIN Shown |-> IF k \in S THEN "expired" ELSE Shown[k]]
  BY <1>6 DEF Shown
<1>8. CASE S = {}
  BY <1>1, <1>7, <1>8 DEF Shown
<1>9. CASE S # {}
  <2>1. S \in SUBSET DOMAIN Shown /\ \A k \in S : Shown[k] = "open"
    BY DEF Shown
  <2>2. Abstract!Expire(S)
    BY <1>1, <1>7, <1>9, <2>1 DEF Abstract!Expire, Shown
  <2>3. QED BY <2>1, <2>2 DEF Abstract!Next, Shown
<1>10. QED BY <1>8, <1>9

\* A callback closes its request as answered, by its own answer.
LEMMA AnswerStep ==
    ASSUME IInv, dispatch_rsp
    PROVE  Abstract!Next
<1>1. PICK m \in wire, s \in Slots :
        /\ InUse(s) /\ g_uart_pending[s].seq = m.seq
        /\ g_uart_pending' = [g_uart_pending EXCEPT ![s] = NoEntry]
        /\ calls' = Append(calls, <<g_uart_pending[s].id, m.id>>)
  BY DEF dispatch_rsp, FirstMatch, Matches
<1> DEFINE id == g_uart_pending[s].id
<1>2. id = m.id
  BY <1>1, SlotEntry, WireEntry, SameSeqSameRequest DEF IInv
<1>3. id \in Numbers /\ Shown[id] = "open"
  BY <1>1, SlotShownOpen DEF Shown
<1>4. UNCHANGED <<issued, silent>>
  BY DEF dispatch_rsp
<1>5. /\ \A i \in DOMAIN calls : i \in DOMAIN calls' /\ calls'[i] = calls[i]
      /\ Len(calls) + 1 \in DOMAIN calls' /\ calls'[Len(calls) + 1] = <<id, m.id>>
      /\ \A i \in DOMAIN calls' : i \in DOMAIN calls \/ i = Len(calls) + 1
  BY <1>1 DEF IInv, TypeOK
<1>6. /\ ~InUse(s)'
      /\ \A t \in Slots : t # s => g_uart_pending'[t] = g_uart_pending[t]
  BY <1>1 DEF InUse, IInv, TypeOK
<1>7. ASSUME NEW k \in Numbers, k # id PROVE StatusOf(k)' = StatusOf(k)
  <2>1. Called(k)' <=> Called(k)
    BY <1>5, <1>7 DEF Called
  <2>2. Waiting(k)' <=> Waiting(k)
    BY <1>6, <1>7 DEF Waiting, InUse
  <2>3. QED BY <1>4, <2>1, <2>2 DEF StatusOf
<1>8. Shown'[id] = "answered"
  <2>1. ~(id >= issued) /\ id \notin silent
    BY <1>3 DEF Shown, StatusOf
  <2>2. \A k \in Numbers : k = id => ~Waiting(k)'
    BY <1>1, <1>6 DEF Waiting, InUse, IInv, Apart
  <2>3. \A k \in Numbers : k = id => Called(k)'
    BY <1>5 DEF Called
  <2>4. QED BY <1>3, <1>4, <2>1, <2>2, <2>3 DEF Shown, StatusOf
<1>9. Shown' = [Shown EXCEPT ![id] = "answered"]
  BY <1>3, <1>7, <1>8 DEF Shown
<1>10. Abstract!Answer(id)
  BY <1>1, <1>2, <1>3, <1>9 DEF Abstract!Answer, Shown
<1>11. QED BY <1>3, <1>10 DEF Abstract!Next, Shown

LEMMA StepRefines == IInv /\ [Next]_vars => [Abstract!Next]_<<Shown, calls>>
<1> SUFFICES ASSUME IInv, [Next]_vars PROVE [Abstract!Next]_<<Shown, calls>>
  OBVIOUS
<1>1. ASSUME NEW cmd \in CmdIds, send_cmd(cmd) PROVE Abstract!Next
  BY <1>1, SilentStep DEF send_cmd
<1>2. ASSUME NEW cmd \in CmdIds, send_cmd_with_cb(cmd) PROVE Abstract!Next
  BY <1>2, OpenStep
<1>3. ASSUME NEW cmd \in CmdIds, send_cmd_frame_failed(cmd) PROVE Abstract!Next
  BY <1>3, SilentStep, FrameFailedRestores DEF send_cmd_frame_failed, IInv
<1>4. CASE send_cmd_table_full
  BY <1>4, SilentStep DEF send_cmd_table_full
<1>5. CASE cleanup_pending_timeout
  BY <1>5, ExpireStep
<1>6. CASE dispatch_rsp
  BY <1>6, AnswerStep
<1>7. CASE uart_task_returns
  BY <1>7 DEF uart_task_returns, Shown, StatusOf, Waiting, Called, InUse
<1>8. CASE Tick
  <2>1. UNCHANGED <<issued, silent, calls>>
    BY <1>8 DEF Tick
  <2>2. \A s \in Slots :
          /\ InUse(s) => /\ g_uart_pending'[s] # NoEntry
                         /\ g_uart_pending'[s].id = g_uart_pending[s].id
          /\ ~InUse(s) => g_uart_pending'[s] = NoEntry
    <3> SUFFICES ASSUME NEW s \in Slots, InUse(s)
                 PROVE  /\ g_uart_pending'[s] # NoEntry
                        /\ g_uart_pending'[s].id = g_uart_pending[s].id
      BY <1>8 DEF Tick
    <3>1. g_uart_pending[s] \in Entries /\ g_uart_pending'[s] = Older(g_uart_pending[s])
      BY <1>8, SlotEntry DEF Tick, IInv
    <3>2. Older(g_uart_pending[s]) \in Entries
      BY <3>1, OlderType DEF Entries
    <3>3. QED BY <3>1, <3>2, OlderType
  <2>3. \A k \in Numbers : (Waiting(k)' <=> Waiting(k)) /\ (Called(k)' <=> Called(k))
    <3>1. \A s \in Slots : InUse(s)' <=> InUse(s)
      BY <2>2 DEF InUse
    <3>2. \A k \in Numbers : Waiting(k)' <=> Waiting(k)
      BY <2>2, <3>1 DEF Waiting
    <3>3. \A k \in Numbers : Called(k)' <=> Called(k)
      BY <2>1 DEF Called
    <3>4. QED BY <3>2, <3>3
  <2>4. \A k \in Numbers : StatusOf(k)' = StatusOf(k)
    BY <2>1, <2>3 DEF StatusOf
  <2>5. QED BY <2>1, <2>4 DEF Shown
<1>9. CASE UNCHANGED vars
  BY <1>9 DEF vars, Shown, StatusOf, Waiting, Called, InUse
<1>10. QED
  BY <1>1, <1>2, <1>3, <1>4, <1>5, <1>6, <1>7, <1>8, <1>9 DEF Next, Send

\* The slots, the eight bit counter and the clock together behave as one-shot
\* requests: each is opened or refused once, and closed once, by its own
\* answer or by the timeout.
THEOREM TableImplementsOneShot == Spec => OneShot
<1>1. Init => Abstract!Init
  <2> SUFFICES ASSUME Init PROVE Abstract!Init
    OBVIOUS
  <2>1. \A k \in Numbers : StatusOf(k) = "unsent"
    BY DEF Init, StatusOf, Numbers
  <2>2. QED BY <2>1 DEF Init, Abstract!Init
<1>2. IInv /\ [Next]_vars => [Abstract!Next]_(Abstract!vars)
  BY StepRefines DEF Shown, Abstract!vars
<1>3. QED
  BY <1>1, <1>2, Invariant, PTL DEF Spec, OneShot, Abstract!Spec

=============================================================================
