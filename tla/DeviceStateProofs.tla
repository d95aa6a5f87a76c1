-------------------------- MODULE DeviceStateProofs --------------------------
(***************************************************************************)
(* Theorems about g_ctrlState and the APP's view of it.                    *)
(*                                                                         *)
(* DeviceState: for every environment, whatever overlaps, is refused or    *)
(* lost.  The argument is one for every setting: a message with a new      *)
(* value is the SOC's last word on it unless another follows, and what the *)
(* MCU has heard is true unless such a message is still under way.         *)
(*                                                                         *)
(* StatusPush: between two looks the display is right about the snapshot   *)
(* or about the state; the look makes the one the other.                   *)
(***************************************************************************)
EXTENDS DeviceState, StatusPush, FiniteSetTheorems, SequenceTheorems, TLAPS

---------------------------------------------------------------------------
\* What travels on the two lines

PlainCommands == {"STATUS_GET", "VOLUME_GET", "CALM_MODE_GET", "REC_START", "REC_STOP",
          "REC_SAVE", "REC_DELETE", "REC_INFO_GET", "FACTORY_RESET",
          "REC_PLAY_STOP", "MUSIC_PLAY", "MUSIC_PLAY_STOP", "TIME_SET"}

Requests ==
    [cmd : PlainCommands, arg : {0}]
    \cup [cmd : {"VOLUME_SET"}, arg : Volumes]
    \cup [cmd : {"CALM_MODE_SET", "STRATEGY_GET"}, arg : Modes]
    \cup [cmd : {"POWER_CTRL", "REC_PLAY"}, arg : 0..1]
    \cup [cmd : {"MUSIC_SELECT"}, arg : Pieces \cup {Query}]
    \cup [cmd : {"STRATEGY_SET"}, arg : [mode : Modes, s : Strategies(Orders)]]
Notices == [cmd : {"LINK_NOTIFY"}, arg : 0..1, at : Nat]

Responses == {[kind |-> "rsp", cmd |-> r.cmd, arg |-> r.arg, st |-> st, soc |-> s] :
                r \in Requests, st \in {"ok", "short", "refused"}, s \in SocStates}
Events == [kind : {"work", "playing"}, soc : SocStates]
          \cup [kind : {"rec"}, soc : SocStates, st : {"ok", "short"}]
          \cup [kind : {"session"}]
Messages == Responses \cup Events

LinesTyped == /\ env \in Envs /\ cmds \in Nat
              /\ toSoc \in Seq(Requests \cup Notices)
              /\ fromSoc \in Seq(Messages)

OKs(commands) == {m \in Messages : IsRsp(m) /\ m.cmd \in commands /\ m.st = "ok"}
EventsOf(kind) == {m \in Messages : m.kind = kind}

\* No message of q is in Z.
NoneIn(q, Z) == \A k \in DOMAIN q : q[k] \notin Z

\* In q, whatever of W no message of Z follows is in G.
LastIn(q, W, Z, G) ==
    \A k \in DOMAIN q :
        q[k] \in W /\ (\A l \in DOMAIN q : k < l => q[l] \notin Z) => q[k] \in G

---------------------------------------------------------------------------
\* For each field: what brings a new value (..Set) or only the present one
\* (..Words, which the former belong to), and the invariant

VolumeSet == OKs({"VOLUME_SET"})
VolumeWords == OKs({"VOLUME_SET", "VOLUME_GET", "STATUS_GET"})
VolumeTrue == {m \in VolumeWords : m.soc.volume = soc.volume}
VolumeInv ==
    /\ LastIn(fromSoc, VolumeWords, VolumeSet, VolumeTrue)
    /\ "volume" \in known /\ NoneIn(fromSoc, VolumeSet) =>
         /\ g_ctrlState.volume = soc.volume
         /\ Told({"VOLUME_SET", "VOLUME_GET", "STATUS_GET"})
              => told.what.volume = soc.volume

\* The recordings of a SOC s, and what a copy may say of them
Sane(s) ==
    /\ s.unsaved => s.latest >= MinDuration /\ ~s.recording
    /\ ~s.recording /\ ~s.unsaved /\ s.latest >= MinDuration => s.saved = s.latest
Fits(s, rec) == ~s.recording => rec \in RecordingsOf(s)
ToldRecording == Told({"REC_STOP", "REC_SAVE", "REC_INFO_GET"})
RecSet == OKs({"REC_STOP", "REC_SAVE", "REC_DELETE", "FACTORY_RESET"})
          \cup {m \in Messages : IsRsp(m) /\ m.cmd = "REC_STOP" /\ m.st = "short"}
          \cup EventsOf("rec")
RecWords == RecSet \cup OKs({"REC_INFO_GET"})
\* The recording the copy will have after m
RecOf(m) ==
    IF ~IsRsp(m) THEN Rec(IF m.st = "ok" THEN m.soc.latest ELSE 0)
    ELSE IF m.cmd = "REC_STOP" /\ m.st = "ok" THEN Rec(m.soc.latest)
    ELSE IF m.cmd = "REC_SAVE" THEN [exist |-> 1, duration |-> m.soc.saved]
    ELSE IF m.cmd = "REC_INFO_GET" THEN Rec(m.soc.saved)
    ELSE Rec(0)
RecTrue == {m \in RecWords : Fits(soc, RecOf(m))}
RecInv ==
    /\ Sane(soc)
    /\ LastIn(fromSoc, RecWords, RecSet, RecTrue)
    /\ "rec" \in known /\ NoneIn(fromSoc, RecSet) => Fits(soc, g_ctrlState.rec)
    /\ ToldRecording => told.what = g_ctrlState.rec

WorkSet == EventsOf("work")
WorkWords == WorkSet \cup OKs({"STATUS_GET"})
WorkTrue == {m \in WorkWords : m.soc.work = soc.work}
\* A POWER_CTRL is under way, and the last one presumes the work state of the copy.
PowerSet == {r \in Requests : r.cmd = "POWER_CTRL"}
PowerTrue == {r \in PowerSet : Presumed(r.arg) = g_ctrlState.work}
WorkPresumed == /\ ~NoneIn(toSoc, PowerSet)
                /\ LastIn(toSoc, PowerSet, PowerSet, PowerTrue)
WorkInv ==
    /\ LastIn(fromSoc, WorkWords, WorkSet, WorkTrue)
    /\ "work" \in known /\ NoneIn(fromSoc, WorkSet)
         => g_ctrlState.work = soc.work \/ WorkPresumed

\* A notice no command came after tells the power; once the power is known,
\* nothing under way will change it.
PowerInv ==
    /\ \A k \in DOMAIN toSoc : ~IsRequest(toSoc[k]) =>
         /\ toSoc[k].at <= cmds
         /\ toSoc[k].at = cmds =>
              /\ toSoc[k].arg = g_ctrlState.power
              /\ \A l \in DOMAIN toSoc : k < l => ~IsRequest(toSoc[l])
         /\ \A l \in DOMAIN toSoc : ~IsRequest(toSoc[l]) => k = l
    /\ "power" \in known =>
         /\ g_ctrlState.power = 1 <=> soc.work # 0
         /\ \A k \in DOMAIN toSoc :
              /\ toSoc[k].cmd # "POWER_CTRL"
              /\ ~IsRequest(toSoc[k]) => toSoc[k].arg = g_ctrlState.power

MusicSet == OKs({"MUSIC_SELECT"})
MusicTrue == {m \in MusicSet : m.soc.music = soc.music}
MusicInv ==
    /\ LastIn(fromSoc, MusicSet, MusicSet, MusicTrue)
    /\ "music" \in known /\ NoneIn(fromSoc, MusicSet) => display.music = soc.music

PlayingSet == OKs({"MUSIC_PLAY", "MUSIC_PLAY_STOP"}) \cup EventsOf("playing")
              \cup {m \in OKs({"MUSIC_SELECT"}) : m.arg # Query}
PlayingTrue == {m \in PlayingSet :
                  soc.playing = (IsRsp(m) /\ m.cmd = "MUSIC_PLAY")}
PlayingInv ==
    /\ LastIn(fromSoc, PlayingSet, PlayingSet, PlayingTrue)
    /\ "playing" \in known /\ NoneIn(fromSoc, PlayingSet)
         => display.playing = soc.playing

Copied == [measures |-> g_ctrlState.measures, us |-> g_ctrlState.us]
ModeCommands == {"CALM_MODE_SET", "CALM_MODE_GET", "STATUS_GET", "STRATEGY_SET",
                 "STRATEGY_GET", "FACTORY_RESET"}
ModeSet == OKs({"CALM_MODE_SET", "STRATEGY_SET", "FACTORY_RESET"})
StrategySet == OKs({"STRATEGY_SET", "FACTORY_RESET"})
\* An APP that waits for each answer has one request under way.  The copy holds what
\* the request presumes, and then the SOC's values once the SOC has carried it out.
RequestPresumed(r) ==
    /\ r.cmd = "CALM_MODE_SET" => r.arg = g_ctrlState.mode
    /\ r.cmd = "STRATEGY_SET" =>
         /\ r.arg.mode = g_ctrlState.mode /\ r.arg.mode = shownMode
         /\ r.arg.s = Copied
ResponsePresumed(m) ==
    /\ m.soc.mode = soc.mode /\ m.soc.strategy = soc.strategy
    /\ m.cmd \in ModeCommands => m.st = "ok"
    /\ m.cmd \in {"CALM_MODE_SET", "STRATEGY_SET"} => g_ctrlState.mode = soc.mode
    /\ m.cmd = "STRATEGY_SET" => /\ m.arg.mode = soc.mode
                                 /\ Copied = soc.strategy[shownMode]
    /\ m.cmd = "FACTORY_RESET" =>
         soc.mode = 0 /\ soc.strategy = [x \in Modes |-> DefaultStrategy]
ModeInv ==
    /\ InFlight <= 1
    /\ NoneIn(toSoc, {r \in Requests : ~RequestPresumed(r)})
    /\ NoneIn(fromSoc, {m \in Responses : ~ResponsePresumed(m)})
    /\ "mode" \in known /\ NoneIn(fromSoc, ModeSet) =>
         /\ g_ctrlState.mode = soc.mode
         /\ Told({"CALM_MODE_SET", "CALM_MODE_GET", "STATUS_GET", "STRATEGY_SET"})
              => told.what.mode = soc.mode
    /\ "strategy" \in known /\ NoneIn(fromSoc, StrategySet) =>
         Copied = soc.strategy[shownMode]
ModesInv == ~env.refusals /\ ~env.pipelined => ModeInv

---------------------------------------------------------------------------
\* Lines of messages

\* The first message leaves the line.
LEMMA TailOfLine ==
    ASSUME NEW S, NEW q \in Seq(S), q # <<>>
    PROVE  /\ Tail(q) \in Seq(S) /\ Head(q) \in S /\ Head(q) = q[1]
           /\ 1 \in DOMAIN q /\ Len(Tail(q)) = Len(q) - 1
           /\ \A k \in DOMAIN Tail(q) : k + 1 \in DOMAIN q /\ Tail(q)[k] = q[k + 1]
           /\ \A k \in DOMAIN q : k # 1 => k - 1 \in DOMAIN Tail(q)
<1>1. Len(q) \in Nat \ {0} /\ DOMAIN q = 1..Len(q)
  BY EmptySeq, LenProperties
<1> QED BY <1>1, HeadTailProperties, ElementOfSeq

\* A message joins the line.
LEMMA AppendToLine ==
    ASSUME NEW S, NEW q \in Seq(S), NEW m \in S
    PROVE  /\ Append(q, m) \in Seq(S) /\ Append(q, m) # <<>>
           /\ DOMAIN Append(q, m) = (DOMAIN q) \cup {Len(q) + 1}
           /\ Append(q, m)[Len(q) + 1] = m
           /\ \A k \in DOMAIN q : k \in Nat /\ k <= Len(q) /\ Append(q, m)[k] = q[k]
           /\ q \o <<m>> = Append(q, m) /\ q \o <<>> = q
<1>1. Len(q) \in Nat /\ DOMAIN q = 1..Len(q)
  BY LenProperties
<1>2. Append(q, m) \in Seq(S) /\ Len(Append(q, m)) = Len(q) + 1
  BY AppendProperties
<1>3. DOMAIN Append(q, m) = 1..(Len(q) + 1)
  BY <1>2, LenProperties
<1>4. q \o <<m>> = Append(q, m)
  BY AppendIsConcat
<1>5. q \o <<>> = q
  BY ConcatEmptySeq
<1> QED BY <1>1, <1>2, <1>3, <1>4, <1>5, AppendProperties

LEMMA NoneInTail ==
    ASSUME NEW S, NEW q \in Seq(S), q # <<>>, NEW Z
    PROVE  NoneIn(q, Z) <=> Head(q) \notin Z /\ NoneIn(Tail(q), Z)
<1>1. ASSUME Head(q) \notin Z, NoneIn(Tail(q), Z), NEW k \in DOMAIN q PROVE q[k] \notin Z
  <2>1. CASE k = 1
    BY <1>1, <2>1, TailOfLine
  <2>2. CASE k # 1
    <3>1. k \in Int
      BY LenProperties
    <3>2. k - 1 \in DOMAIN Tail(q) /\ Tail(q)[k - 1] = q[(k - 1) + 1]
      BY <2>2, TailOfLine
    <3> QED BY <1>1, <3>1, <3>2 DEF NoneIn
  <2> QED BY <2>1, <2>2
<1>2. ASSUME NoneIn(q, Z) PROVE Head(q) \notin Z /\ NoneIn(Tail(q), Z)
  BY <1>2, TailOfLine DEF NoneIn
<1> QED BY <1>1, <1>2 DEF NoneIn

LEMMA NoneInAppend ==
    ASSUME NEW S, NEW q \in Seq(S), NEW m \in S, NEW Z
    PROVE  NoneIn(Append(q, m), Z) <=> NoneIn(q, Z) /\ m \notin Z
BY AppendToLine DEF NoneIn

\* What leaves the line is true if nothing in the line is newer.
LEMMA LastInTail ==
    ASSUME NEW S, NEW q \in Seq(S), q # <<>>, NEW W, NEW Z, NEW G, LastIn(q, W, Z, G)
    PROVE  /\ LastIn(Tail(q), W, Z, G)
           /\ Head(q) \in W /\ NoneIn(Tail(q), Z) => Head(q) \in G
<1>1. DOMAIN q = 1..Len(q) /\ Len(q) \in Nat
  BY LenProperties
<1>2. DOMAIN Tail(q) = 1..(Len(q) - 1) /\ Len(q) >= 1
  BY <1>1, TailOfLine, LenProperties
<1>3. ASSUME NEW k \in DOMAIN Tail(q), Tail(q)[k] \in W,
             \A l \in DOMAIN Tail(q) : k < l => Tail(q)[l] \notin Z
      PROVE  Tail(q)[k] \in G
  <2>1. ASSUME NEW l \in DOMAIN q, k + 1 < l PROVE q[l] \notin Z
    <3>1. l - 1 \in DOMAIN Tail(q) /\ k < l - 1 /\ Tail(q)[l - 1] = q[(l - 1) + 1]
      BY <1>1, <1>2, <2>1, TailOfLine
    <3> QED BY <1>1, <1>3, <3>1
  <2> QED BY <1>3, <2>1, TailOfLine DEF LastIn
<1>4. ASSUME Head(q) \in W, NoneIn(Tail(q), Z) PROVE Head(q) \in G
  <2>1. ASSUME NEW l \in DOMAIN q, 1 < l PROVE q[l] \notin Z
    <3>1. l - 1 \in DOMAIN Tail(q) /\ Tail(q)[l - 1] = q[(l - 1) + 1]
      BY <1>1, <1>2, <2>1, TailOfLine
    <3> QED BY <1>1, <1>4, <3>1 DEF NoneIn
  <2> QED BY <1>4, <2>1, TailOfLine DEF LastIn
<1> QED BY <1>3, <1>4 DEF LastIn

\* A message with a new value becomes the last word; another one leaves it.
LEMMA LastInAppend ==
    ASSUME NEW S, NEW q \in Seq(S), NEW m \in S, NEW W, NEW Z, NEW G, NEW H,
           m \in W => m \in H,
           m \in Z \/ (LastIn(q, W, Z, G) /\ \A x \in W : x \in G => x \in H)
    PROVE  LastIn(Append(q, m), W, Z, H)
<1> DEFINE r == Append(q, m)
<1>1. DOMAIN q = 1..Len(q) /\ Len(q) \in Nat
  BY LenProperties
<1> SUFFICES ASSUME NEW k \in DOMAIN r, r[k] \in W,
                    \A l \in DOMAIN r : k < l => r[l] \notin Z
             PROVE  r[k] \in H
  BY DEF LastIn
<1>2. CASE k = Len(q) + 1
  BY <1>2, AppendToLine
<1>3. CASE k \in DOMAIN q
  <2>1. k < Len(q) + 1 /\ Len(q) + 1 \in DOMAIN r /\ r[Len(q) + 1] = m
    BY <1>1, <1>3, AppendToLine
  <2>2. m \notin Z
    BY <2>1
  <2>3. \A l \in DOMAIN q : k < l => q[l] \notin Z
    BY AppendToLine
  <2> QED BY <1>3, <2>2, <2>3, AppendToLine DEF LastIn
<1> QED BY <1>2, <1>3, AppendToLine

\* Where messages of Z are in q, and how many there are
Places(q, Z) == {k \in DOMAIN q : q[k] \in Z}
Number(q, Z) == Cardinality(Places(q, Z))

LEMMA PlacesAreFinite ==
    ASSUME NEW S, NEW q \in Seq(S), NEW Z
    PROVE  IsFiniteSet(Places(q, Z)) /\ Number(q, Z) \in Nat
<1>1. IsFiniteSet(DOMAIN q)
  BY LenProperties, FS_Interval
<1> QED BY <1>1, FS_Subset, FS_CardinalityType DEF Number, Places

LEMMA NumberAppend ==
    ASSUME NEW S, NEW q \in Seq(S), NEW m \in S, NEW Z
    PROVE  Number(Append(q, m), Z) = Number(q, Z) + (IF m \in Z THEN 1 ELSE 0)
<1>1. Len(q) + 1 \notin Places(q, Z)
  BY LenProperties DEF Places
<1>2. m \in Z => Places(Append(q, m), Z) = Places(q, Z) \cup {Len(q) + 1}
  BY AppendToLine DEF Places
<1>3. m \notin Z => Places(Append(q, m), Z) = Places(q, Z)
  BY AppendToLine DEF Places
<1>4. CASE m \in Z
  BY <1>1, <1>2, <1>4, PlacesAreFinite, FS_AddElement DEF Number
<1>5. CASE m \notin Z
  BY <1>3, <1>5, PlacesAreFinite DEF Number
<1> QED BY <1>4, <1>5

LEMMA NumberOfNone ==
    ASSUME NEW S, NEW q \in Seq(S), NEW Z
    PROVE  Number(q, Z) = 0 <=> NoneIn(q, Z)
<1>1. Places(q, Z) = {} <=> NoneIn(q, Z)
  BY DEF Places, NoneIn
<1> QED BY <1>1, PlacesAreFinite, FS_EmptySet DEF Number

LEMMA NumberOfEmpty == \A S, Z : <<>> \in Seq(S) /\ Number(<<>>, Z) = 0
<1>1. \A S : <<>> \in Seq(S)
  BY EmptySeq
<1>2. ASSUME NEW Z PROVE Number(<<>>, Z) = 0
  <2>1. NoneIn(<<>>, Z)
    BY DEF NoneIn
  <2>2. <<>> \in Seq({})
    BY <1>1
  <2> QED BY <2>1, <2>2, NumberOfNone
<1> QED BY <1>1, <1>2

LEMMA NumberTail ==
    ASSUME NEW S, NEW q \in Seq(S), q # <<>>, NEW Z
    PROVE  Number(q, Z) = Number(Tail(q), Z) + (IF Head(q) \in Z THEN 1 ELSE 0)
<1> DEFINE A == Places(q, Z) \ {1}
           B == Places(Tail(q), Z)
           f == [k \in B |-> k + 1]
<1>1. DOMAIN q = 1..Len(q) /\ Len(q) \in Nat /\ Tail(q) \in Seq(S)
  BY LenProperties, TailOfLine
<1>2. DOMAIN Tail(q) = 1..(Len(q) - 1)
  BY <1>1, TailOfLine, LenProperties
<1>3. \A k \in B : k \in Nat /\ k + 1 \in A
  BY <1>2, TailOfLine DEF Places
<1>4. ASSUME NEW k \in A PROVE \E j \in B : k = j + 1
  <2>1. k \in Nat /\ k - 1 \in DOMAIN Tail(q) /\ Tail(q)[k - 1] = q[(k - 1) + 1]
    BY <1>1, TailOfLine DEF Places
  <2>2. k = (k - 1) + 1 /\ k - 1 \in B
    BY <2>1 DEF Places
  <2> QED BY <2>2
<1>5. f \in [B -> A] /\ \A j \in B : f[j] = j + 1
  BY <1>3
<1>6. f \in Bijection(B, A)
  <2> HIDE DEF f, A, B
  <2> QED BY <1>3, <1>4, <1>5 DEF Bijection, Injection, Surjection, IsInjective
<1>7. Cardinality(B) = Cardinality(A)
  <2>1. IsFiniteSet(B) /\ ExistsBijection(B, A)
    BY <1>1, <1>6, PlacesAreFinite DEF ExistsBijection
  <2> HIDE DEF A, B
  <2> QED BY <2>1, FS_Bijection
<1>8. 1 \in Places(q, Z) <=> Head(q) \in Z
  BY TailOfLine DEF Places
<1>9. Cardinality(A) = IF 1 \in Places(q, Z) THEN Number(q, Z) - 1 ELSE Number(q, Z)
  BY PlacesAreFinite, FS_RemoveElement DEF Number
<1>10. Number(Tail(q), Z) = Cardinality(A) /\ Number(q, Z) \in Nat
  BY <1>7, PlacesAreFinite DEF Number
<1> QED BY <1>8, <1>9, <1>10

---------------------------------------------------------------------------
\* What an accepted request leaves as it is, and what it changes
SameRecordings(s) == /\ s.recording = soc.recording /\ s.unsaved = soc.unsaved
                     /\ s.latest = soc.latest /\ s.saved = soc.saved
RecCommands == {"REC_START", "REC_STOP", "REC_SAVE", "REC_DELETE", "FACTORY_RESET"}
RecTook(r, s) ==
    /\ r.cmd \notin RecCommands => SameRecordings(s)
    /\ r.cmd = "REC_START" => s.recording /\ ~s.unsaved
    /\ r.cmd = "REC_STOP" =>
         \/ SameRecordings(s) /\ ~soc.recording
         \/ ~s.recording /\ (s.unsaved <=> s.latest >= MinDuration)
    /\ r.cmd = "REC_SAVE" =>
         /\ soc.unsaved /\ ~s.unsaved /\ s.recording = soc.recording
         /\ s.latest = soc.latest /\ s.saved = soc.latest
    /\ r.cmd \in {"REC_DELETE", "FACTORY_RESET"} =>
         ~s.recording /\ ~s.unsaved /\ s.latest = 0 /\ s.saved = 0
Took(r, s) ==
    /\ r.cmd # "VOLUME_SET" => s.volume = soc.volume
    /\ r.cmd \notin {"CALM_MODE_SET", "STRATEGY_SET", "FACTORY_RESET"}
         => s.mode = soc.mode
    /\ r.cmd \notin {"STRATEGY_SET", "FACTORY_RESET"} => s.strategy = soc.strategy
    /\ RecTook(r, s)
    /\ r.cmd \notin {"POWER_CTRL", "LINK_NOTIFY"} => s.work = soc.work
    /\ r.cmd # "MUSIC_SELECT" => s.music = soc.music
    /\ \/ r.cmd \in {"MUSIC_PLAY", "MUSIC_PLAY_STOP"}
       \/ r.cmd = "MUSIC_SELECT" /\ r.arg # Query
       \/ s.playing = soc.playing
    /\ r.cmd \in {"POWER_CTRL", "LINK_NOTIFY"} =>
         /\ r.arg = 0 <=> s.work = 0
         /\ s.work = Presumed(r.arg) \/ (r.arg = 1 /\ soc.work = Calming)
    /\ r.cmd = "CALM_MODE_SET" => s.mode = r.arg
    /\ r.cmd = "STRATEGY_SET" => s.mode = r.arg.mode /\ s.strategy[s.mode] = r.arg.s
    /\ r.cmd = "FACTORY_RESET" =>
         s.mode = 0 /\ s.strategy = [m \in Modes |-> DefaultStrategy]
    /\ r.cmd = "MUSIC_PLAY" => s.playing = TRUE
    /\ r.cmd = "MUSIC_PLAY_STOP" => s.playing = FALSE
    /\ r.cmd = "MUSIC_SELECT" /\ r.arg # Query => s.playing = FALSE

LEMMA RequestTyped ==
    ASSUME NEW r \in Requests \cup Notices
    PROVE  /\ r.cmd = "VOLUME_SET" => r.arg \in Volumes
           /\ r.cmd \in {"CALM_MODE_SET", "STRATEGY_GET"} => r.arg \in Modes
           /\ r.cmd \in {"POWER_CTRL", "LINK_NOTIFY", "REC_PLAY"} => r.arg \in 0..1
           /\ r.cmd = "MUSIC_SELECT" => r.arg \in Pieces \cup {Query}
           /\ r.cmd = "STRATEGY_SET" =>
                r.arg.mode \in Modes /\ r.arg.s \in Strategies(Orders)
           /\ r.cmd \in PlainCommands
                \cup {"VOLUME_SET", "CALM_MODE_SET", "STRATEGY_GET", "POWER_CTRL",
                      "REC_PLAY", "MUSIC_SELECT", "STRATEGY_SET", "LINK_NOTIFY"}
           /\ r.cmd = "LINK_NOTIFY" <=> r \notin Requests
           /\ IsRequest(r) <=> r \in Requests
           /\ ~IsRequest(r) => r \in Notices /\ r.at \in Nat /\ r.arg \in 0..1
BY DEF Requests, Notices, PlainCommands, IsRequest

LEMMA AcceptedTook ==
    ASSUME DeviceConstants, soc \in SocStates, NEW r \in Requests \cup Notices,
           NEW s \in Accepted(r)
    PROVE  s \in SocStates /\ Took(r, s)
<1> USE DEF RecTook, RecCommands, SameRecordings
<1> DefaultStrategy \in Strategies(Orders)
  BY DEF DeviceConstants, DefaultStrategy, Strategies, Default
<1>1. CASE r.cmd \in {"POWER_CTRL", "LINK_NOTIFY"}
  <2>1. s = [soc EXCEPT !.work = IF r.arg = 0 THEN 0
                                ELSE IF @ = 0 THEN Monitoring ELSE @]
    BY <1>1 DEF Accepted
  <2> QED BY <1>1, <2>1, RequestTyped DEF SocStates, Took, Monitoring, Calming, Presumed
<1>2. CASE r.cmd = "VOLUME_SET"
  <2>1. s = [soc EXCEPT !.volume = r.arg]
    BY <1>2 DEF Accepted
  <2> QED BY <1>2, <2>1, RequestTyped DEF SocStates, Took
<1>3. CASE r.cmd = "CALM_MODE_SET"
  <2>1. s = [soc EXCEPT !.mode = r.arg]
    BY <1>3 DEF Accepted
  <2> QED BY <1>3, <2>1, RequestTyped DEF SocStates, Took
<1>4. CASE r.cmd = "STRATEGY_SET"
  <2>1. s = [soc EXCEPT !.mode = r.arg.mode, !.strategy[r.arg.mode] = r.arg.s]
    BY <1>4 DEF Accepted
  <2> QED BY <1>4, <2>1, RequestTyped DEF SocStates, Took
<1>5. CASE r.cmd = "REC_START"
  <2>1. s = [soc EXCEPT !.recording = TRUE, !.unsaved = FALSE]
    BY <1>5 DEF Accepted
  <2> QED BY <1>5, <2>1, RequestTyped DEF SocStates, Took
<1>6. CASE r.cmd = "REC_STOP"
  <2>1. CASE soc.recording
    <3>1. PICK d \in Durations : s = Stopped(d)
      BY <1>6, <2>1 DEF Accepted
    <3>2. (d >= MinDuration) \in BOOLEAN
      OBVIOUS
    <3> QED BY <1>6, <3>1, <3>2 DEF Stopped, SocStates, Took, Recording
  <2>2. CASE ~soc.recording
    <3>1. s = soc
      BY <1>6, <2>2 DEF Accepted
    <3> QED BY <1>6, <2>2, <3>1 DEF Took
  <2> QED BY <2>1, <2>2
<1>7. CASE r.cmd = "REC_SAVE"
  <2>1. s = [soc EXCEPT !.saved = soc.latest, !.unsaved = FALSE] /\ soc.unsaved
    BY <1>7 DEF Accepted, Saved
  <2> QED BY <1>7, <2>1, RequestTyped DEF SocStates, Took, Recording
<1>8. CASE r.cmd = "REC_DELETE"
  <2>1. s = [soc EXCEPT !.recording = FALSE, !.unsaved = FALSE, !.latest = 0, !.saved = 0]
    BY <1>8 DEF Accepted, Deleted
  <2> QED BY <1>8, <2>1, RequestTyped DEF SocStates, Took, Recording
<1>9. CASE r.cmd = "REC_PLAY"
  <2>1. s = soc
    BY <1>9 DEF Accepted
  <2> QED BY <1>9, <2>1, RequestTyped DEF SocStates, Took
<1>10. CASE r.cmd = "MUSIC_PLAY"
  <2>1. s = [soc EXCEPT !.playing = TRUE]
    BY <1>10 DEF Accepted
  <2> QED BY <1>10, <2>1, RequestTyped DEF SocStates, Took
<1>11. CASE r.cmd = "MUSIC_PLAY_STOP"
  <2>1. s = [soc EXCEPT !.playing = FALSE]
    BY <1>11 DEF Accepted
  <2> QED BY <1>11, <2>1, RequestTyped DEF SocStates, Took
<1>12. CASE r.cmd = "MUSIC_SELECT" /\ r.arg # Query
  <2>1. s = [soc EXCEPT !.music = r.arg, !.playing = FALSE]
    BY <1>12 DEF Accepted
  <2> QED BY <1>12, <2>1, RequestTyped DEF SocStates, Took, Pieces
<1>13. CASE r.cmd = "MUSIC_SELECT" /\ r.arg = Query
  <2>1. s = soc
    BY <1>13 DEF Accepted
  <2> QED BY <1>13, <2>1, RequestTyped DEF SocStates, Took
<1>14. CASE r.cmd = "FACTORY_RESET"
  <2> DEFINE defaults == [m \in Modes |-> DefaultStrategy]
  <2>1. s = [Deleted EXCEPT !.mode = 0, !.strategy = defaults]
    BY <1>14 DEF Accepted
  <2>2. defaults \in [Modes -> Strategies(Orders)] /\ 0 \in Modes /\ 0 \in Recording
    BY DEF Modes, Recording
  <2>3. /\ s \in SocStates /\ s.mode = 0 /\ s.strategy = defaults
        /\ s.volume = soc.volume /\ s.work = soc.work /\ s.music = soc.music
        /\ s.playing = soc.playing /\ ~s.recording /\ ~s.unsaved /\ s.latest = 0
        /\ s.saved = 0
    <3> HIDE DEF defaults
    <3> QED BY <2>1, <2>2 DEF SocStates, Deleted
  <2> QED BY <1>14, <2>3 DEF Took
<1>15. CASE r.cmd \in {"STATUS_GET", "VOLUME_GET", "CALM_MODE_GET", "REC_INFO_GET",
                       "REC_PLAY_STOP", "TIME_SET", "STRATEGY_GET"}
  <2>1. s = soc
    BY <1>15 DEF Accepted
  <2> QED BY <1>15, <2>1, RequestTyped DEF SocStates, Took
<1> QED BY <1>1, <1>2, <1>3, <1>4, <1>5, <1>6, <1>7, <1>8, <1>9, <1>10, <1>11, <1>12, <1>13, <1>14, <1>15, RequestTyped DEF PlainCommands

\* What the answer to a request, accepted with status st, says of the recordings
LEMMA RecordingsTook ==
    ASSUME DeviceConstants, soc \in SocStates, NEW r, NEW s \in SocStates, RecTook(r, s)
    PROVE  /\ Sane(soc) => Sane(s)
           /\ \/ r.cmd \in RecCommands \ {"REC_START"}
              \/ \A rec : Fits(soc, rec) => Fits(s, rec)
           /\ Sane(soc) =>
                /\ r.cmd = "REC_STOP" => Fits(s, IF s.latest < MinDuration
                                                 THEN Rec(0) ELSE Rec(s.latest))
                /\ r.cmd = "REC_SAVE" => Fits(s, [exist |-> 1, duration |-> s.saved])
                /\ r.cmd \in {"REC_DELETE", "FACTORY_RESET"} => Fits(s, Rec(0))
                /\ Fits(s, Rec(s.saved))
<1>1. /\ MinDuration \in Nat \ {0} /\ soc.latest \in Nat /\ s.latest \in Nat
      /\ soc.recording \in BOOLEAN /\ s.recording \in BOOLEAN
      /\ soc.unsaved \in BOOLEAN /\ s.unsaved \in BOOLEAN
  <2>1. MinDuration \in Nat \ {0} /\ Recording \subseteq Nat
    BY DEF DeviceConstants, Recording
  <2> QED BY <2>1 DEF SocStates
<1>2. Sane(soc) => Sane(s)
  BY <1>1 DEF Sane, RecTook, RecCommands, SameRecordings
<1>3. r.cmd \in RecCommands \ {"REC_START"} \/ \A rec : Fits(soc, rec) => Fits(s, rec)
  BY <1>1 DEF Fits, RecTook, RecCommands, SameRecordings, RecordingsOf
<1>4. ASSUME Sane(s), r.cmd = "REC_STOP"
      PROVE  Fits(s, IF s.latest < MinDuration THEN Rec(0) ELSE Rec(s.latest))
  <2>1. CASE s.latest < MinDuration
    BY <2>1 DEF Fits, RecordingsOf
  <2>2. CASE s.latest >= MinDuration
    BY <1>1, <1>4, <2>2 DEF Fits, RecordingsOf, Sane
  <2> QED BY <1>1, <2>1, <2>2
<1>5. ASSUME Sane(soc), r.cmd = "REC_SAVE"
      PROVE  Fits(s, [exist |-> 1, duration |-> s.saved])
  <2>1. Rec(s.saved) = [exist |-> 1, duration |-> s.saved]
    BY <1>1, <1>5 DEF Rec, RecTook, Sane
  <2> QED BY <2>1 DEF Fits, RecordingsOf
<1>6. r.cmd \in {"REC_DELETE", "FACTORY_RESET"} => Fits(s, Rec(0))
  BY <1>1 DEF Fits, RecordingsOf, RecTook
<1>7. Fits(s, Rec(s.saved))
  BY DEF Fits, RecordingsOf
<1> QED BY <1>2, <1>3, <1>4, <1>5, <1>6, <1>7

---------------------------------------------------------------------------
\* The handlers

DeviceTyped == SettingsTyped /\ LinesTyped

\* What every handler leaves alone, and the request it sends, if any.  What it
\* stores before the SOC has answered is no longer known to be the SOC's.
RequestSent(r) ==
    /\ InFlight < PendingMax /\ toSoc' = Append(toSoc, r)
    /\ IF r.cmd = "POWER_CTRL"
       THEN "power" \notin known' /\ g_ctrlState'.work = Presumed(r.arg)
       ELSE g_ctrlState'.work = g_ctrlState.work
    /\ RequestPresumed(r)'
HandlerDoes ==
    /\ cmds' = cmds + 1
    /\ env.pipelined \/ (toSoc = <<>> /\ fromSoc = <<>>)
    /\ UNCHANGED <<fromSoc, soc, display, events, losses, env>>
    /\ g_ctrlState' \in CopyStates /\ shownMode' \in Modes /\ known' \subseteq known
    /\ told' = told \/ told'.st \in {"timeout", "param"}
    /\ g_ctrlState'.volume = g_ctrlState.volume /\ g_ctrlState'.rec = g_ctrlState.rec
    /\ "power" \in known' => g_ctrlState'.power = g_ctrlState.power
    /\ "mode" \in known' => g_ctrlState'.mode = g_ctrlState.mode
    /\ "strategy" \in known' => Copied' = Copied /\ shownMode' = shownMode
    /\ \/ /\ toSoc' = toSoc
          /\ "work" \in known' => g_ctrlState'.work = g_ctrlState.work
       \/ \E r \in Requests : RequestSent(r)

LEMMA HandlersDo ==
    ASSUME DeviceConstants, DeviceTyped, Handler
    PROVE  HandlerDoes
<1> /\ env \in Envs /\ env.volumes \subseteq Volumes /\ env.orders \subseteq Orders
    /\ g_ctrlState \in CopyStates /\ shownMode \in Modes
  BY DEF DeviceTyped, SettingsTyped, LinesTyped, DeviceConstants
<1> DEFINE Req(c, a) == [cmd |-> c, arg |-> a]
<1> USE DEF HandlerDoes, Command, SendToSoc, RequestSent, RequestPresumed, Copied, CopyStates
<1>1. ASSUME NEW c \in PlainCommands, Ask(c) PROVE HandlerDoes
  <2>1. Req(c, 0) \in Requests /\ Req(c, 0).cmd \notin {"POWER_CTRL", "CALM_MODE_SET", "STRATEGY_SET"}
    BY <1>1 DEF Requests, PlainCommands
  <2> QED BY <1>1, <2>1 DEF Ask
<1>2. ASSUME NEW source \in 0..1, handle_rec_play(source) PROVE HandlerDoes
  <2>1. Req("REC_PLAY", source) \in Requests
    BY DEF Requests
  <2> QED BY <1>2, <2>1 DEF handle_rec_play
<1>3. ASSUME NEW index \in Pieces \cup {Query}, handle_music_select(index) PROVE HandlerDoes
  <2>1. Req("MUSIC_SELECT", index) \in Requests
    BY DEF Requests
  <2> QED BY <1>3, <2>1 DEF handle_music_select
<1>4. ASSUME NEW v \in env.volumes, handle_volume_set(v) PROVE HandlerDoes
  <2>1. Req("VOLUME_SET", v) \in Requests
    BY DEF Requests
  <2> QED BY <1>4, <2>1 DEF handle_volume_set
<1>5. ASSUME NEW on \in 0..1, handle_power_ctrl(on) PROVE HandlerDoes
  <2>1. Req("POWER_CTRL", on) \in Requests
    BY DEF Requests
  <2>2. /\ g_ctrlState' \in CopyStates /\ g_ctrlState'.volume = g_ctrlState.volume
        /\ g_ctrlState'.rec = g_ctrlState.rec /\ g_ctrlState'.mode = g_ctrlState.mode
        /\ Copied' = Copied /\ g_ctrlState'.work = Presumed(on)
    BY <1>5 DEF handle_power_ctrl, Presumed, Monitoring, Calming
  <2>3. /\ UNCHANGED shownMode /\ known' \subseteq known /\ "power" \notin known'
        /\ \/ InFlight < PendingMax /\ toSoc' = Append(toSoc, Req("POWER_CTRL", on))
              /\ told' = told
           \/ toSoc' = toSoc /\ told'.st = "timeout" /\ "work" \notin known'
    BY <1>5 DEF handle_power_ctrl
  <2> HIDE DEF Copied, CopyStates
  <2> QED BY <1>5, <2>1, <2>2, <2>3 DEF handle_power_ctrl
<1>6. ASSUME NEW m \in Modes, handle_calm_mode_set(m) PROVE HandlerDoes
  <2>1. Req("CALM_MODE_SET", m) \in Requests
    BY DEF Requests
  <2> QED BY <1>6, <2>1 DEF handle_calm_mode_set
<1>7. ASSUME NEW m \in Modes, handle_calm_strategy_get(m) PROVE HandlerDoes
  <2>1. Req("STRATEGY_GET", m) \in Requests
    BY DEF Requests
  <2> QED BY <1>7, <2>1 DEF handle_calm_strategy_get
<1>8. ASSUME NEW m \in Modes, NEW s \in Strategies(env.orders),
             handle_calm_strategy_set(m, s)
      PROVE  HandlerDoes
  <2>1. Req("STRATEGY_SET", [mode |-> m, s |-> s]) \in Requests
    BY DEF Requests, Strategies
  <2>2. /\ g_ctrlState' \in CopyStates /\ g_ctrlState'.volume = g_ctrlState.volume
        /\ g_ctrlState'.rec = g_ctrlState.rec /\ g_ctrlState'.mode = m
        /\ g_ctrlState'.power = g_ctrlState.power
        /\ g_ctrlState'.work = g_ctrlState.work /\ Copied' = s
    BY <1>8 DEF handle_calm_strategy_set, Strategies
  <2>3. /\ shownMode' = m /\ known' = known \ {"mode", "strategy"}
        /\ \/ InFlight < PendingMax
              /\ toSoc' = Append(toSoc, Req("STRATEGY_SET", [mode |-> m, s |-> s]))
              /\ told' = told
           \/ toSoc' = toSoc /\ told'.st = "timeout"
    BY <1>8 DEF handle_calm_strategy_set
  <2> HIDE DEF Copied, CopyStates
  <2> QED BY <1>8, <2>1, <2>2, <2>3 DEF handle_calm_strategy_set
<1>9. ASSUME NEW m \in Modes, NEW s \in Strategies(env.orders),
             handle_calm_strategy_bad(m, s)
      PROVE  HandlerDoes
  BY <1>9 DEF handle_calm_strategy_bad, Strategies
<1> QED
  BY <1>1, <1>2, <1>3, <1>4, <1>5, <1>6, <1>7, <1>8, <1>9
  DEF Handler, PlainCommands, handle_status_get, handle_volume_get, handle_calm_mode_get,
      handle_rec_start, handle_rec_stop, handle_rec_save, handle_rec_delete,
      handle_rec_info_get, handle_factory_reset, handle_rec_play_stop, handle_time_set,
      handle_music_play, handle_music_play_stop

---------------------------------------------------------------------------
\* The callbacks

LEMMA MessageTyped ==
    ASSUME NEW m \in Messages
    PROVE  /\ m.kind \in {"rsp", "work", "playing", "rec", "session"}
           /\ IsRsp(m) <=> m \in Responses
           /\ m.kind # "session" => m.soc \in SocStates
           /\ m.kind = "rec" => m.st \in {"ok", "short"}
           /\ IsRsp(m) => /\ m.st \in {"ok", "short", "refused"}
                          /\ m.cmd # "LINK_NOTIFY"
                          /\ m.cmd = "STRATEGY_GET" => m.arg \in Modes
                          /\ m.cmd = "STRATEGY_SET" => m.arg.mode \in Modes
BY DEF Messages, Responses, Events, IsRsp, Requests, PlainCommands

VolumeHeard(m) ==
    /\ m \in VolumeWords => g_ctrlState'.volume = m.soc.volume
    /\ m \notin VolumeWords => /\ g_ctrlState'.volume = g_ctrlState.volume
                               /\ "volume" \in known' => "volume" \in known
    /\ IsRsp(m) /\ Told({"VOLUME_SET", "VOLUME_GET", "STATUS_GET"})'
         => told'.what.volume = g_ctrlState'.volume
ToldAs(cmd, st, what) ==
    told'.cmd = "none" \/ (told'.cmd = cmd /\ told'.st = st /\ told'.what = what)
RecHeard(m) ==
    /\ ToldRecording' => \/ told'.what = g_ctrlState'.rec
                         \/ told' = told /\ g_ctrlState'.rec = g_ctrlState.rec
    /\ m \in RecWords => g_ctrlState'.rec = RecOf(m)
    /\ m \notin RecWords => /\ g_ctrlState'.rec = g_ctrlState.rec
                            /\ "rec" \in known' => "rec" \in known
WorkHeard(m) ==
    /\ m \in WorkWords => g_ctrlState'.work = m.soc.work
    /\ m \notin WorkWords => /\ g_ctrlState'.work = g_ctrlState.work
                             /\ "work" \in known' => "work" \in known
PowerHeard ==
    g_ctrlState'.power = g_ctrlState.power /\ ("power" \in known' => "power" \in known)
MusicHeard(m) ==
    /\ m \in MusicSet => display'.music = m.soc.music \/ "music" \notin known'
    /\ m \notin MusicSet => /\ display'.music = display.music
                            /\ "music" \in known' => "music" \in known
PlayingHeard(m) ==
    /\ m \in PlayingSet =>
         \/ display'.playing = (IsRsp(m) /\ m.cmd = "MUSIC_PLAY")
         \/ "playing" \notin known'
    /\ m \notin PlayingSet => /\ display'.playing = display.playing
                              /\ "playing" \in known' => "playing" \in known
ModeHeard(m) ==
    /\ m \in OKs({"STATUS_GET", "CALM_MODE_GET"}) => g_ctrlState'.mode = m.soc.mode
    /\ m \in OKs({"FACTORY_RESET"}) => g_ctrlState'.mode = 0
    /\ m \notin OKs({"STATUS_GET", "CALM_MODE_GET", "FACTORY_RESET"}) =>
         /\ g_ctrlState'.mode = g_ctrlState.mode
         /\ \/ "mode" \in known' => "mode" \in known
            \/ IsRsp(m) /\ m.cmd \in {"CALM_MODE_SET", "STRATEGY_SET"}
    /\ IsRsp(m) /\ Told({"CALM_MODE_SET", "CALM_MODE_GET", "STATUS_GET", "STRATEGY_SET"})'
         => told'.what.mode = IF m.cmd = "STRATEGY_SET" THEN m.arg.mode
                                                       ELSE g_ctrlState'.mode
StrategyHeard(m) ==
    /\ m \in OKs({"STRATEGY_GET"}) =>
         Copied' = m.soc.strategy[m.arg] /\ shownMode' = m.arg
    /\ m \in OKs({"FACTORY_RESET"}) => Copied' = DefaultStrategy /\ shownMode' = 0
    /\ m \notin OKs({"STRATEGY_GET", "FACTORY_RESET"}) =>
         /\ Copied' = Copied /\ shownMode' = shownMode
         /\ \/ "strategy" \in known' => "strategy" \in known
            \/ IsRsp(m) /\ m.cmd = "STRATEGY_SET"
Fields == {"work", "power", "volume", "mode", "strategy", "rec", "music", "playing"}
TypedAfter == /\ g_ctrlState' \in CopyStates /\ shownMode' \in Modes
              /\ display' \in [music : Pieces, playing : BOOLEAN]
              /\ known' \subseteq Fields

\* What a callback does with its message
Heard(m) ==
    /\ fromSoc # <<>> /\ m = Head(fromSoc) /\ fromSoc' = Tail(fromSoc)
    /\ UNCHANGED <<toSoc, soc, cmds, events, losses, env>>
    /\ ~IsRsp(m) => told' = told \/ told'.cmd \in {"REC_STOP", "none"}
    /\ TypedAfter /\ VolumeHeard(m) /\ RecHeard(m) /\ WorkHeard(m) /\ PowerHeard
    /\ MusicHeard(m) /\ PlayingHeard(m) /\ ModeHeard(m) /\ StrategyHeard(m)

LEMMA RecTyped ==
    ASSUME DeviceConstants, NEW m \in Messages, m.kind # "session"
    PROVE  RecOf(m) \in [exist : 0..1, duration : Recording]
<1>1. m.soc.latest \in Recording /\ m.soc.saved \in Recording /\ 0 \in Recording
  BY MessageTyped DEF SocStates, Recording
<1>2. \A d \in Recording : Rec(d) \in [exist : 0..1, duration : Recording]
  BY DEF Rec, Recording, DeviceConstants
<1> QED BY <1>1, <1>2 DEF RecOf

\* What the APP is told: nothing if it is not there
LEMMA ToldIs ==
    /\ \A m, st, what : Tell(m, st, what) => ToldAs(m.cmd, st, what)
    /\ \A cmd, st, what : Telling(cmd, st, what) \/ NotTold => ToldAs(cmd, st, what)
BY DEF Tell, Telling, NotTold, ToldAs

LEMMA CallbacksHear ==
    ASSUME DeviceConstants, DeviceTyped, SocCallback
    PROVE  Heard(Head(fromSoc)) /\ Head(fromSoc) \in Messages
<1> DEFINE m == Head(fromSoc)
<1>1. /\ fromSoc # <<>> /\ m \in Messages /\ g_ctrlState \in CopyStates
      /\ shownMode \in Modes /\ display \in [music : Pieces, playing : BOOLEAN]
      /\ known \subseteq Fields
  BY TailOfLine DEF DeviceTyped, SettingsTyped, LinesTyped, SocCallback, Fields
<1> HIDE DEF m
<1>19. CASE rsp_music_play(m)
  <2>1. \/ /\ told'.cmd = "MUSIC_PLAY" /\ display' = IF m.st = "ok" THEN [display EXCEPT !.playing = TRUE] ELSE display
           /\ known' = IF m.st = "ok" THEN known \cup {"playing"} ELSE known
        \/ /\ told'.cmd = "none" /\ display' = display
           /\ known' = IF m.st = "ok" THEN known \ {"playing"} ELSE known
    BY <1>19 DEF rsp_music_play, Shows, Telling, NotTold, Responds, Doubt
  <2>2. /\ Receives(m) /\ m.kind = "rsp" /\ m.cmd = "MUSIC_PLAY" /\ m.soc \in SocStates
        /\ UNCHANGED <<g_ctrlState, shownMode>>
    BY <1>19, <1>1, MessageTyped DEF rsp_music_play, Shows, Responds
  <2>3. TypedAfter
    BY <1>1, <2>1, <2>2 DEF TypedAfter, Fields, SocStates
  <2>4. MusicHeard(m) /\ PlayingHeard(m)
    BY <1>1, <2>1, <2>2 DEF MusicHeard, PlayingHeard, MusicSet, PlayingSet, OKs, EventsOf, IsRsp
  <2>5. \A f \in Fields : f \in known' /\ f \notin {"music", "playing"} => f \in known
    BY <2>1
  <2>6. told'.cmd \in {"none", "MUSIC_PLAY"}
    BY <2>1
  <2>7. VolumeHeard(m) /\ RecHeard(m) /\ WorkHeard(m)
    BY <2>2, <2>5, <2>6 DEF VolumeHeard, RecHeard, WorkHeard, VolumeWords, RecWords, RecSet,
       WorkWords, WorkSet, OKs, EventsOf, IsRsp, Told, ToldRecording, Fields
  <2>8. PowerHeard /\ ModeHeard(m) /\ StrategyHeard(m)
    BY <2>2, <2>5, <2>6 DEF PowerHeard, ModeHeard, StrategyHeard, OKs, IsRsp, Told, Copied, Fields
  <2> QED BY <1>1, <2>2, <2>3, <2>4, <2>7, <2>8 DEF Heard, Receives, IsRsp, m
<1>20. CASE rsp_music_play_stop(m)
  <2>1. \/ /\ told'.cmd = "MUSIC_PLAY_STOP" /\ display' = IF m.st = "ok" THEN [display EXCEPT !.playing = FALSE] ELSE display
           /\ known' = IF m.st = "ok" THEN known \cup {"playing"} ELSE known
        \/ /\ told'.cmd = "none" /\ display' = display
           /\ known' = IF m.st = "ok" THEN known \ {"playing"} ELSE known
    BY <1>20 DEF rsp_music_play_stop, Shows, Telling, NotTold, Responds, Doubt
  <2>2. /\ Receives(m) /\ m.kind = "rsp" /\ m.cmd = "MUSIC_PLAY_STOP" /\ m.soc \in SocStates
        /\ UNCHANGED <<g_ctrlState, shownMode>>
    BY <1>20, <1>1, MessageTyped DEF rsp_music_play_stop, Shows, Responds
  <2>3. TypedAfter
    BY <1>1, <2>1, <2>2 DEF TypedAfter, Fields, SocStates
  <2>4. MusicHeard(m) /\ PlayingHeard(m)
    BY <1>1, <2>1, <2>2 DEF MusicHeard, PlayingHeard, MusicSet, PlayingSet, OKs, EventsOf, IsRsp
  <2>5. \A f \in Fields : f \in known' /\ f \notin {"music", "playing"} => f \in known
    BY <2>1
  <2>6. told'.cmd \in {"none", "MUSIC_PLAY_STOP"}
    BY <2>1
  <2>7. VolumeHeard(m) /\ RecHeard(m) /\ WorkHeard(m)
    BY <2>2, <2>5, <2>6 DEF VolumeHeard, RecHeard, WorkHeard, VolumeWords, RecWords, RecSet,
       WorkWords, WorkSet, OKs, EventsOf, IsRsp, Told, ToldRecording, Fields
  <2>8. PowerHeard /\ ModeHeard(m) /\ StrategyHeard(m)
    BY <2>2, <2>5, <2>6 DEF PowerHeard, ModeHeard, StrategyHeard, OKs, IsRsp, Told, Copied, Fields
  <2> QED BY <1>1, <2>2, <2>3, <2>4, <2>7, <2>8 DEF Heard, Receives, IsRsp, m
<1>21. CASE rsp_music_select(m)
  <2>1. \/ /\ told'.cmd = "MUSIC_SELECT" /\ display' = IF m.st = "ok" THEN [display EXCEPT !.music = m.soc.music,
                                                            !.playing = @ /\ m.arg = Query] ELSE display
           /\ known' = IF m.st = "ok" THEN known \cup {"music"} ELSE known
        \/ /\ told'.cmd = "none" /\ display' = display
           /\ known' = IF m.st = "ok" THEN known \ {"music", "playing"} ELSE known
    BY <1>21 DEF rsp_music_select, Shows, Telling, NotTold, Responds, Doubt
  <2>2. /\ Receives(m) /\ m.kind = "rsp" /\ m.cmd = "MUSIC_SELECT" /\ m.soc \in SocStates
        /\ UNCHANGED <<g_ctrlState, shownMode>>
    BY <1>21, <1>1, MessageTyped DEF rsp_music_select, Shows, Responds
  <2>3. TypedAfter
    BY <1>1, <2>1, <2>2 DEF TypedAfter, Fields, SocStates
  <2>4. MusicHeard(m) /\ PlayingHeard(m)
    BY <1>1, <2>1, <2>2 DEF MusicHeard, PlayingHeard, MusicSet, PlayingSet, OKs, EventsOf, IsRsp, Query
  <2>5. \A f \in Fields : f \in known' /\ f \notin {"music", "playing"} => f \in known
    BY <2>1
  <2>6. told'.cmd \in {"none", "MUSIC_SELECT"}
    BY <2>1
  <2>7. VolumeHeard(m) /\ RecHeard(m) /\ WorkHeard(m)
    BY <2>2, <2>5, <2>6 DEF VolumeHeard, RecHeard, WorkHeard, VolumeWords, RecWords, RecSet,
       WorkWords, WorkSet, OKs, EventsOf, IsRsp, Told, ToldRecording, Fields
  <2>8. PowerHeard /\ ModeHeard(m) /\ StrategyHeard(m)
    BY <2>2, <2>5, <2>6 DEF PowerHeard, ModeHeard, StrategyHeard, OKs, IsRsp, Told, Copied, Fields
  <2> QED BY <1>1, <2>2, <2>3, <2>4, <2>7, <2>8 DEF Heard, Receives, IsRsp, m
<1>23. CASE evt_owner_rec(m)
  <2>1. RecOf(m) \in [exist : 0..1, duration : Recording]
    BY <1>1, <1>23, RecTyped DEF evt_owner_rec
  <2>2. /\ g_ctrlState' = [g_ctrlState EXCEPT !.rec = RecOf(m)] /\ known' = known \cup {"rec"}
        /\ Receives(m) /\ m.kind = "rec" /\ UNCHANGED <<display, shownMode>>
    BY <1>1, <1>23, MessageTyped DEF evt_owner_rec, RecOf, IsRsp
  <2>3. ToldAs("REC_STOP", IF m.st = "ok" THEN "ok" ELSE "param", g_ctrlState'.rec)
    BY <1>23, ToldIs DEF evt_owner_rec
  <2>4. /\ g_ctrlState' \in CopyStates /\ Copied' = Copied /\ g_ctrlState'.rec = RecOf(m)
        /\ g_ctrlState'.power = g_ctrlState.power /\ g_ctrlState'.work = g_ctrlState.work
        /\ g_ctrlState'.volume = g_ctrlState.volume /\ g_ctrlState'.mode = g_ctrlState.mode
    BY <1>1, <2>1, <2>2 DEF CopyStates, Copied
  <2>5. TypedAfter
    BY <1>1, <2>2, <2>4 DEF TypedAfter, Fields
  <2>6. RecHeard(m)
    BY <1>1, <2>2, <2>3, <2>4 DEF RecHeard, RecWords, RecSet, EventsOf, ToldAs, Told, ToldRecording
  <2>7. VolumeHeard(m) /\ WorkHeard(m) /\ PowerHeard /\ MusicHeard(m) /\ PlayingHeard(m)
    BY <2>2, <2>4 DEF VolumeHeard, WorkHeard, PowerHeard, MusicHeard, PlayingHeard, VolumeWords,
       WorkWords, WorkSet, MusicSet, PlayingSet, OKs, EventsOf, IsRsp
  <2>8. ModeHeard(m) /\ StrategyHeard(m)
    BY <2>2, <2>4 DEF ModeHeard, StrategyHeard, OKs, IsRsp
  <2> QED BY <1>1, <2>2, <2>3, <2>5, <2>6, <2>7, <2>8 DEF Heard, Receives, ToldAs, IsRsp, m
<1>15. CASE rsp_factory_reset(m)
  <2>1. /\ Receives(m) /\ m.kind = "rsp" /\ m.cmd = "FACTORY_RESET" /\ display' = display
        /\ told'.cmd \in {"none", "FACTORY_RESET"}
    BY <1>15 DEF rsp_factory_reset, Answer, Responds, Tell, Telling, NotTold
  <2>2. CASE m.st # "ok"
    <3>1. UNCHANGED <<g_ctrlState, shownMode, known>>
      BY <1>15, <2>2 DEF rsp_factory_reset, Learn
    <3>2. TypedAfter
      BY <1>1, <2>1, <3>1 DEF TypedAfter, Fields
    <3>3. VolumeHeard(m) /\ RecHeard(m) /\ WorkHeard(m) /\ PowerHeard /\ MusicHeard(m)
          /\ PlayingHeard(m) /\ ModeHeard(m) /\ StrategyHeard(m)
      BY <2>1, <2>2, <3>1 DEF VolumeHeard, RecHeard, WorkHeard, PowerHeard, MusicHeard,
         PlayingHeard, ModeHeard, StrategyHeard, VolumeWords, RecWords, RecSet, WorkWords,
         WorkSet, MusicSet, PlayingSet, OKs, EventsOf, IsRsp, Told, ToldRecording, Copied
    <3> QED BY <1>1, <2>1, <3>2, <3>3 DEF Heard, Receives, IsRsp, m
  <2>3. CASE m.st = "ok"
    <3> DEFINE r == RecOf(m)
               d == Default
    <3>1. d \in Orders /\ DefaultStrategy = [measures |-> d, us |-> d]
      BY DEF DeviceConstants, Default, DefaultStrategy
    <3>2. r \in [exist : 0..1, duration : Recording]
      BY <1>1, <2>1, RecTyped
    <3>3. /\ known' = known \cup {"mode", "strategy", "rec"} /\ shownMode' = 0 /\ 0 \in Modes
          /\ g_ctrlState' = [g_ctrlState EXCEPT !.rec = r, !.mode = 0, !.us = d, !.measures = d]
      BY <1>15, <2>1, <2>3 DEF rsp_factory_reset, Learn, RecOf, IsRsp, Modes
    <3> HIDE DEF r, d
    <3>4. /\ g_ctrlState' \in CopyStates /\ Copied' = [measures |-> d, us |-> d]
          /\ g_ctrlState'.rec = r /\ g_ctrlState'.mode = 0
          /\ g_ctrlState'.volume = g_ctrlState.volume /\ g_ctrlState'.work = g_ctrlState.work
          /\ g_ctrlState'.power = g_ctrlState.power
      BY <1>1, <3>1, <3>2, <3>3 DEF CopyStates, Copied
    <3>5. TypedAfter
      BY <1>1, <2>1, <3>3, <3>4 DEF TypedAfter, Fields
    <3>6. VolumeHeard(m) /\ WorkHeard(m) /\ PowerHeard /\ MusicHeard(m) /\ PlayingHeard(m)
      BY <2>1, <3>3, <3>4 DEF VolumeHeard, WorkHeard, PowerHeard, MusicHeard, PlayingHeard,
         VolumeWords, WorkWords, WorkSet, MusicSet, PlayingSet, OKs, EventsOf, IsRsp, Told
    <3>7. RecHeard(m)
      BY <1>1, <2>1, <2>3, <3>4 DEF RecHeard, RecWords, RecSet, OKs, IsRsp, Told, ToldRecording, r
    <3>8. ModeHeard(m) /\ StrategyHeard(m)
      BY <1>1, <2>1, <2>3, <3>1, <3>3, <3>4 DEF ModeHeard, StrategyHeard, OKs, IsRsp, Told
    <3> QED BY <1>1, <2>1, <3>5, <3>6, <3>7, <3>8 DEF Heard, Receives, IsRsp, m
  <2> QED BY <2>2, <2>3
<1>24. CASE evt_music_done(m)
  <2>1. /\ Receives(m) /\ m.kind = "playing" /\ UNCHANGED <<g_ctrlState, shownMode, told>>
    BY <1>24 DEF evt_music_done
  <2>2. \/ /\ display' = [display EXCEPT !.playing = FALSE]
           /\ known' = known \cup {"playing"}
        \/ display' = display /\ known' = known \ {"playing"}
    BY <1>24 DEF evt_music_done
  <2>3. TypedAfter
    BY <1>1, <2>1, <2>2 DEF TypedAfter, Fields
  <2>4. \A f \in Fields : f \in known' /\ f # "playing" => f \in known
    BY <2>2
  <2>5. MusicHeard(m) /\ PlayingHeard(m)
    BY <1>1, <2>1, <2>2 DEF MusicHeard, PlayingHeard, MusicSet, PlayingSet, OKs, EventsOf, IsRsp
  <2>6. VolumeHeard(m) /\ RecHeard(m) /\ WorkHeard(m) /\ PowerHeard
    BY <2>1, <2>4 DEF VolumeHeard, RecHeard, WorkHeard, PowerHeard, VolumeWords, RecWords, RecSet,
       WorkWords, WorkSet, OKs, EventsOf, IsRsp, Fields, ToldRecording, Told
  <2>7. ModeHeard(m) /\ StrategyHeard(m)
    BY <2>1, <2>4 DEF ModeHeard, StrategyHeard, OKs, IsRsp, Fields, Copied
  <2> QED BY <1>1, <2>1, <2>3, <2>5, <2>6, <2>7 DEF Heard, Receives, IsRsp, m
<1> USE <1>1, MessageTyped, ToldIs
    DEF Heard, TypedAfter, VolumeHeard, RecHeard, WorkHeard, PowerHeard, MusicHeard,
        PlayingHeard, ModeHeard, StrategyHeard, Answer, Responds, Receives, ToldAs, IsRsp, OKs,
        EventsOf, Fields, Told, ToldRecording, Copied, CopyStates, SocStates, VolumeWords, RecWords, RecSet,
        WorkWords, WorkSet, MusicSet, PlayingSet
<1>2. CASE rsp_power_ctrl(m)
  BY <1>2 DEF rsp_power_ctrl, m
<1>3. CASE rsp_status_get(m)
  <2>1. ToldAs("STATUS_GET", "ok", g_ctrlState')
    BY <1>3 DEF rsp_status_get
  <2>2. CASE m.st # "ok"
    BY <1>3, <2>1, <2>2 DEF rsp_status_get, Learn, m
  <2>3. CASE m.st = "ok"
    <3>1. /\ m.soc \in SocStates /\ known' = known \cup {"work", "volume", "mode"}
          /\ g_ctrlState' = [g_ctrlState EXCEPT !.work = m.soc.work, !.mode = m.soc.mode,
                                               !.volume = m.soc.volume]
      BY <1>3, <2>3 DEF rsp_status_get, Learn
    <3>2. /\ g_ctrlState' \in CopyStates /\ Copied' = Copied
          /\ g_ctrlState'.work = m.soc.work /\ g_ctrlState'.mode = m.soc.mode
          /\ g_ctrlState'.volume = m.soc.volume /\ g_ctrlState'.rec = g_ctrlState.rec
          /\ g_ctrlState'.power = g_ctrlState.power
      BY <3>1
    <3> HIDE DEF Copied, CopyStates
    <3> QED BY <1>3, <2>1, <2>3, <3>1, <3>2 DEF rsp_status_get, m
  <2> QED BY <2>2, <2>3
<1>4. CASE rsp_volume_set(m)
  <2>1. ToldAs("VOLUME_SET", m.st, [volume |-> g_ctrlState'.volume])
    BY <1>4 DEF rsp_volume_set
  <2>2. CASE m.st # "ok"
    BY <1>4, <2>1, <2>2 DEF rsp_volume_set, Learn, m
  <2>3. CASE m.st = "ok"
    <3>1. /\ m.soc \in SocStates /\ known' = known \cup {"volume"}
          /\ g_ctrlState' = [g_ctrlState EXCEPT !.volume = m.soc.volume]
      BY <1>4, <2>3 DEF rsp_volume_set, Learn
    <3>2. /\ g_ctrlState' \in CopyStates /\ Copied' = Copied
          /\ g_ctrlState'.volume = m.soc.volume
          /\ g_ctrlState'.work = g_ctrlState.work /\ g_ctrlState'.mode = g_ctrlState.mode
          /\ g_ctrlState'.rec = g_ctrlState.rec /\ g_ctrlState'.power = g_ctrlState.power
      BY <3>1
    <3> HIDE DEF Copied, CopyStates
    <3> QED BY <1>4, <2>1, <2>3, <3>1, <3>2 DEF rsp_volume_set, m
  <2> QED BY <2>2, <2>3
<1>5. CASE rsp_volume_get(m)
  <2>1. ToldAs("VOLUME_GET", IF m.st = "ok" THEN "ok" ELSE "internal", [volume |-> g_ctrlState'.volume])
    BY <1>5 DEF rsp_volume_get
  <2>2. CASE m.st # "ok"
    BY <1>5, <2>1, <2>2 DEF rsp_volume_get, Learn, m
  <2>3. CASE m.st = "ok"
    <3>1. /\ m.soc \in SocStates /\ known' = known \cup {"volume"}
          /\ g_ctrlState' = [g_ctrlState EXCEPT !.volume = m.soc.volume]
      BY <1>5, <2>3 DEF rsp_volume_get, Learn
    <3>2. /\ g_ctrlState' \in CopyStates /\ Copied' = Copied
          /\ g_ctrlState'.volume = m.soc.volume
          /\ g_ctrlState'.work = g_ctrlState.work /\ g_ctrlState'.mode = g_ctrlState.mode
          /\ g_ctrlState'.rec = g_ctrlState.rec /\ g_ctrlState'.power = g_ctrlState.power
      BY <3>1
    <3> HIDE DEF Copied, CopyStates
    <3> QED BY <1>5, <2>1, <2>3, <3>1, <3>2 DEF rsp_volume_get, m
  <2> QED BY <2>2, <2>3
<1>6. CASE rsp_calm_mode_get(m)
  <2>1. ToldAs("CALM_MODE_GET", "ok", [mode |-> g_ctrlState'.mode, us |-> g_ctrlState.us])
    BY <1>6 DEF rsp_calm_mode_get
  <2>2. CASE m.st # "ok"
    BY <1>6, <2>1, <2>2 DEF rsp_calm_mode_get, Learn, m
  <2>3. CASE m.st = "ok"
    <3>1. /\ m.soc \in SocStates /\ known' = known \cup {"mode"}
          /\ g_ctrlState' = [g_ctrlState EXCEPT !.mode = m.soc.mode]
      BY <1>6, <2>3 DEF rsp_calm_mode_get, Learn
    <3>2. /\ g_ctrlState' \in CopyStates /\ Copied' = Copied
          /\ g_ctrlState'.mode = m.soc.mode
          /\ g_ctrlState'.work = g_ctrlState.work /\ g_ctrlState'.rec = g_ctrlState.rec
          /\ g_ctrlState'.volume = g_ctrlState.volume /\ g_ctrlState'.power = g_ctrlState.power
      BY <3>1
    <3> HIDE DEF Copied, CopyStates
    <3> QED BY <1>6, <2>1, <2>3, <3>1, <3>2 DEF rsp_calm_mode_get, m
  <2> QED BY <2>2, <2>3
<1>7. CASE rsp_calm_mode_set(m)
  BY <1>7 DEF rsp_calm_mode_set, m
<1>8. CASE rsp_calm_strategy_set(m)
  BY <1>8 DEF rsp_calm_strategy_set, m
<1>9. CASE rsp_calm_strategy_get(m)
  <2>1. CASE m.st # "ok"
    BY <1>9, <2>1 DEF rsp_calm_strategy_get, Learn, m
  <2>2. CASE m.st = "ok"
    <3> DEFINE s == m.soc.strategy[m.arg]
    <3>1. m.arg \in Modes /\ s \in [measures : Orders, us : Orders]
      BY <1>9 DEF rsp_calm_strategy_get, Strategies
    <3>2. /\ known' = known \cup {"strategy"} /\ shownMode' = m.arg
          /\ g_ctrlState' = [g_ctrlState EXCEPT !.measures = s.measures, !.us = s.us]
      BY <1>9, <2>2 DEF rsp_calm_strategy_get, Learn
    <3>3. /\ g_ctrlState' \in CopyStates /\ Copied' = s
          /\ g_ctrlState'.rec = g_ctrlState.rec /\ g_ctrlState'.mode = g_ctrlState.mode
          /\ g_ctrlState'.volume = g_ctrlState.volume /\ g_ctrlState'.work = g_ctrlState.work
          /\ g_ctrlState'.power = g_ctrlState.power
      <4> HIDE DEF s
      <4> QED BY <3>1, <3>2
    <3> HIDE DEF Copied, CopyStates
    <3> QED BY <1>9, <2>2, <3>1, <3>2, <3>3 DEF rsp_calm_strategy_get, m
  <2> QED BY <2>1, <2>2
<1>10. CASE rsp_rec_start(m)
  BY <1>10 DEF rsp_rec_start, m
<1>11. CASE rsp_rec_stop(m)
  <2>1. CASE m.st = "refused"
    BY <1>11, <2>1 DEF rsp_rec_stop, m
  <2>2. CASE m.st # "refused"
    <3>1. /\ m.st \in {"ok", "short"} /\ known' = known \cup {"rec"}
          /\ g_ctrlState' = [g_ctrlState EXCEPT !.rec = RecOf(m)]
      BY <1>11, <2>2 DEF rsp_rec_stop, RecOf
    <3>2. RecOf(m) \in [exist : 0..1, duration : Recording]
      BY <1>11, RecTyped DEF rsp_rec_stop
    <3> QED BY <1>11, <2>2, <3>1, <3>2 DEF rsp_rec_stop, m
  <2> QED BY <2>1, <2>2
<1>12. CASE rsp_rec_save(m)
  <2>1. CASE m.st # "ok"
    BY <1>12, <2>1 DEF rsp_rec_save, Learn, m
  <2>2. CASE m.st = "ok"
    <3>1. /\ known' = known \cup {"rec"} /\ g_ctrlState' = [g_ctrlState EXCEPT !.rec = RecOf(m)]
      BY <1>12, <2>2 DEF rsp_rec_save, Learn, RecOf
    <3>2. RecOf(m) \in [exist : 0..1, duration : Recording]
      BY <1>12, RecTyped DEF rsp_rec_save
    <3> QED BY <1>12, <2>2, <3>1, <3>2 DEF rsp_rec_save, Learn, m
  <2> QED BY <2>1, <2>2
<1>13. CASE rsp_rec_delete(m)
  <2>1. CASE m.st # "ok"
    BY <1>13, <2>1 DEF rsp_rec_delete, Learn, m
  <2>2. CASE m.st = "ok"
    <3>1. /\ known' = known \cup {"rec"} /\ g_ctrlState' = [g_ctrlState EXCEPT !.rec = RecOf(m)]
      BY <1>13, <2>2 DEF rsp_rec_delete, Learn, RecOf
    <3>2. RecOf(m) \in [exist : 0..1, duration : Recording]
      BY <1>13, RecTyped DEF rsp_rec_delete
    <3> QED BY <1>13, <2>2, <3>1, <3>2 DEF rsp_rec_delete, Learn, m
  <2> QED BY <2>1, <2>2
<1>14. CASE rsp_rec_info(m)
  <2>1. CASE m.st # "ok"
    BY <1>14, <2>1 DEF rsp_rec_info, Learn, m
  <2>2. CASE m.st = "ok"
    <3>1. /\ known' = known \cup {"rec"} /\ g_ctrlState' = [g_ctrlState EXCEPT !.rec = RecOf(m)]
      BY <1>14, <2>2 DEF rsp_rec_info, Learn, RecOf
    <3>2. RecOf(m) \in [exist : 0..1, duration : Recording]
      BY <1>14, RecTyped DEF rsp_rec_info
    <3>3. ToldAs("REC_INFO_GET", "ok", g_ctrlState'.rec)
      BY <1>14 DEF rsp_rec_info
    <3>4. /\ g_ctrlState' \in CopyStates /\ Copied' = Copied /\ g_ctrlState'.rec = RecOf(m)
          /\ g_ctrlState'.work = g_ctrlState.work /\ g_ctrlState'.mode = g_ctrlState.mode
          /\ g_ctrlState'.volume = g_ctrlState.volume /\ g_ctrlState'.power = g_ctrlState.power
      BY <3>1, <3>2
    <3> HIDE DEF Copied, CopyStates
    <3> QED BY <1>14, <2>2, <3>1, <3>3, <3>4 DEF rsp_rec_info, m
  <2> QED BY <2>1, <2>2
<1>16. CASE rsp_time_set(m)
  BY <1>16 DEF rsp_time_set, m
<1>17. CASE rsp_rec_play(m)
  BY <1>17 DEF rsp_rec_play, m
<1>18. CASE rsp_rec_play_stop(m)
  BY <1>18 DEF rsp_rec_play_stop, m
<1>22. CASE evt_work_state(m)
  BY <1>22 DEF evt_work_state, m
<1>25. CASE evt_session(m)
  BY <1>25 DEF evt_session, m
<1> QED
  BY <1>2, <1>3, <1>4, <1>5, <1>6, <1>7, <1>8, <1>9, <1>10, <1>11, <1>12, <1>13, <1>14, <1>15, <1>16, <1>17, <1>18, <1>19, <1>20, <1>21, <1>22, <1>23, <1>24, <1>25
  DEF SocCallback, m

---------------------------------------------------------------------------
\* The SOC

\* The messages of M join the line, at most two.
Joins(M) ==
    \/ M = {} /\ fromSoc' = fromSoc
    \/ \E a \in Messages : M = {a} /\ fromSoc' = Append(fromSoc, a)
    \/ \E a, b \in Messages : /\ a # b /\ M = {a, b}
                              /\ fromSoc' = Append(Append(fromSoc, a), b)

\* A step of the SOC: what it says is true of its new state, and of what it
\* changes it tells.
SocSays(M) ==
    /\ M \subseteq Messages /\ Joins(M) /\ soc' \in SocStates
    /\ UNCHANGED <<g_ctrlState, shownMode, told, display, cmds, losses, env>>
    /\ \A m \in M : m.kind # "session" => m.soc = soc'
    /\ \A m \in M \cap PlayingSet : soc'.playing = (IsRsp(m) /\ m.cmd = "MUSIC_PLAY")
    /\ M \cap VolumeSet # {} \/ soc'.volume = soc.volume
    /\ Sane(soc) => Sane(soc') /\ \A m \in M \cap RecWords : Fits(soc', RecOf(m))
    /\ M \cap RecSet # {} \/ \A rec : Fits(soc, rec) => Fits(soc', rec)
    /\ M \cap WorkSet # {} \/ soc'.work = soc.work
    /\ M \cap MusicSet # {} \/ soc'.music = soc.music
    /\ M \cap PlayingSet # {} \/ soc'.playing = soc.playing

ResponseTo(r, st, s) ==
    [kind |-> "rsp", cmd |-> r.cmd, arg |-> r.arg, st |-> st, soc |-> s]
WorkTold == IF soc'.work = soc.work THEN {} ELSE {[kind |-> "work", soc |-> soc']}

\* The SOC answers r with status st.
AnswersTo(r, st) ==
    /\ toSoc # <<>> /\ r = Head(toSoc) /\ toSoc' = Tail(toSoc)
    /\ known' \subseteq known /\ UNCHANGED events
    /\ \/ "work" \notin known' \/ r.cmd # "POWER_CTRL"
       \/ soc'.work = Presumed(r.arg)
    /\ SocSays({ResponseTo(r, st, soc')} \cup WorkTold)
    /\ \/ st = "refused" /\ soc' = soc /\ (env.refusals \/ Accepted(r) = {})
       \/ st \in {"ok", "short"} /\ Took(r, soc') /\ (st = "short" => r.cmd = "REC_STOP")

LEMMA ToldFields ==
    /\ \A r, st, s : LET a == ResponseTo(r, st, s) IN
         a.kind = "rsp" /\ a.cmd = r.cmd /\ a.arg = r.arg /\ a.st = st /\ a.soc = s
    /\ \A m \in WorkTold : m.kind = "work" /\ m.soc = soc'
    /\ soc'.work # soc.work => WorkTold # {}
<1>1. \A m \in WorkTold : m = [kind |-> "work", soc |-> soc']
  BY DEF WorkTold
<1>2. soc'.work # soc.work => WorkTold # {}
  BY DEF WorkTold
<1>3. ASSUME NEW m \in WorkTold PROVE m.kind = "work" /\ m.soc = soc'
  BY <1>1
<1> QED BY <1>2, <1>3 DEF ResponseTo

LEMMA AnswersAreTrue ==
    ASSUME DeviceConstants, DeviceTyped, SocCarriesOut
    PROVE  \E r \in Requests, st \in {"ok", "short", "refused"} : AnswersTo(r, st)
<1> DEFINE r == Head(toSoc)
<1>1. /\ toSoc # <<>> /\ r \in Requests /\ toSoc' = Tail(toSoc)
      /\ soc \in SocStates /\ fromSoc \in Seq(Messages)
      /\ UNCHANGED <<g_ctrlState, shownMode, told, display, cmds, events, losses, env>>
  BY TailOfLine, RequestTyped
  DEF SocCarriesOut, DeviceTyped, SettingsTyped, LinesTyped
<1> HIDE DEF r
<1>2. ASSUME NEW st \in {"ok", "short", "refused"}, soc' \in SocStates,
             fromSoc' = fromSoc \o AnswerTo(r, st, soc') \o WorkEvent(soc')
      PROVE  /\ ResponseTo(r, st, soc') \in Messages /\ WorkTold \subseteq Messages
             /\ Joins({ResponseTo(r, st, soc')} \cup WorkTold)
  <2> DEFINE a == ResponseTo(r, st, soc')
             w == [kind |-> "work", soc |-> soc']
  <2>1. a \in Messages
    BY <1>1, <1>2 DEF Messages, Responses, ResponseTo
  <2>2. w \in Messages
    BY <1>2 DEF Messages, Events
  <2>3. fromSoc \o AnswerTo(r, st, soc') = Append(fromSoc, a)
        /\ Append(fromSoc, a) \in Seq(Messages)
    BY <1>1, <2>1, AppendToLine DEF AnswerTo, ResponseTo
  <2>4. CASE soc'.work = soc.work
    <3>1. fromSoc' = Append(fromSoc, a)
      BY <1>2, <2>1, <2>3, <2>4, AppendToLine DEF WorkEvent
    <3>2. {a} \cup WorkTold = {a}
      BY <2>4 DEF WorkTold
    <3> QED BY <2>1, <2>2, <3>1, <3>2 DEF Joins, WorkTold
  <2>5. CASE soc'.work # soc.work
    <3>1. fromSoc' = Append(Append(fromSoc, a), w)
      BY <1>2, <2>2, <2>3, <2>5, AppendToLine DEF WorkEvent
    <3>2. {a} \cup WorkTold = {a, w} /\ WorkTold = {w} /\ a # w
      BY <2>5 DEF WorkTold, ResponseTo
    <3> QED BY <2>1, <2>2, <3>1, <3>2 DEF Joins
  <2> QED BY <2>4, <2>5
<1>3. ASSUME soc' \in Accepted(r), known' = known \ Misjudged(r, FALSE),
             fromSoc' = fromSoc \o AnswerTo(r, StatusOf(r, soc'), soc') \o WorkEvent(soc')
      PROVE  \E st \in {"ok", "short", "refused"} : AnswersTo(r, st)
  <2> DEFINE st == StatusOf(r, soc')
             a == ResponseTo(r, st, soc')
  <2>1. soc' \in SocStates /\ Took(r, soc')
    BY <1>1, <1>3, AcceptedTook
  <2>2. st \in {"ok", "short"} /\ (st = "short" => r.cmd = "REC_STOP")
    BY DEF StatusOf
  <2> HIDE DEF st
  <2>3. a \in Messages /\ WorkTold \subseteq Messages /\ Joins({a} \cup WorkTold)
    BY <1>2, <1>3, <2>1, <2>2 DEF st
  <2>4. /\ a.kind = "rsp" /\ a.cmd = r.cmd /\ a.arg = r.arg /\ a.st = st /\ a.soc = soc'
        /\ \A m \in WorkTold : m.kind = "work" /\ m.soc = soc'
        /\ soc'.work # soc.work => WorkTold # {}
    BY ToldFields
  <2> HIDE DEF a
  <2> DEFINE M == {a} \cup WorkTold
  <2>5. M \cap WorkSet # {} \/ soc'.work = soc.work
    BY <2>3, <2>4 DEF WorkSet, EventsOf
  <2>6. /\ M \cap VolumeSet # {} \/ soc'.volume = soc.volume
        /\ M \cap MusicSet # {} \/ soc'.music = soc.music
    BY <2>1, <2>2, <2>3, <2>4 DEF VolumeSet, MusicSet, OKs, IsRsp, Took
  <2>7. /\ Sane(soc) => Sane(soc') /\ \A m \in M \cap RecWords : Fits(soc', RecOf(m))
        /\ M \cap RecSet # {} \/ \A rec : Fits(soc, rec) => Fits(soc', rec)
    <3>1. RecTook(r, soc')
      BY <2>1 DEF Took
    <3>2. r.cmd \in RecCommands \ {"REC_START"} => a \in RecSet
      BY <2>2, <2>3, <2>4 DEF RecSet, OKs, IsRsp, RecCommands
    <3>3. M \cap RecWords \subseteq {a} /\ IsRsp(a)
      BY <2>4 DEF RecWords, RecSet, OKs, EventsOf, IsRsp
    <3>4. a \in RecWords => r.cmd \in {"REC_STOP", "REC_SAVE", "REC_DELETE", "FACTORY_RESET",
                                       "REC_INFO_GET"}
      BY <2>4 DEF RecWords, RecSet, OKs, EventsOf, IsRsp
    <3>5. r.cmd = "REC_STOP" => st = IF soc'.latest < MinDuration THEN "short" ELSE "ok"
      BY DEF st, StatusOf
    <3>6. ASSUME a \in RecWords, Sane(soc) PROVE Fits(soc', RecOf(a))
      BY <1>1, <2>1, <2>4, <3>1, <3>3, <3>4, <3>5, <3>6, RecordingsTook DEF RecOf
    <3>7. Sane(soc) => Sane(soc')
      BY <1>1, <2>1, <3>1, RecordingsTook
    <3>8. r.cmd \in RecCommands \ {"REC_START"} \/ \A rec : Fits(soc, rec) => Fits(soc', rec)
      BY <1>1, <2>1, <3>1, RecordingsTook
    <3> QED BY <3>2, <3>3, <3>6, <3>7, <3>8
  <2>8. M \cap PlayingSet # {} \/ soc'.playing = soc.playing
    BY <2>1, <2>2, <2>3, <2>4 DEF PlayingSet, OKs, IsRsp, Took
  <2>9. \A m \in M \cap PlayingSet : soc'.playing = (IsRsp(m) /\ m.cmd = "MUSIC_PLAY")
    BY <2>1, <2>2, <2>3, <2>4 DEF PlayingSet, OKs, EventsOf, IsRsp, Took
  <2>10. SocSays(M)
    BY <1>1, <2>1, <2>3, <2>4, <2>5, <2>6, <2>7, <2>8, <2>9 DEF SocSays
  <2>11. /\ known' \subseteq known
         /\ \/ "work" \notin known' \/ r.cmd # "POWER_CTRL"
            \/ soc'.work = Presumed(r.arg)
    BY <1>3, <2>1 DEF Took, Misjudged
  <2>12. AnswersTo(r, st)
    BY <1>1, <2>1, <2>2, <2>10, <2>11 DEF AnswersTo, a, r
  <2> QED BY <2>2, <2>12
<1>4. ASSUME env.refusals \/ Accepted(r) = {}, known' = known \ Misjudged(r, TRUE), soc' = soc,
             fromSoc' = fromSoc \o AnswerTo(r, "refused", soc)
      PROVE  AnswersTo(r, "refused")
  <2> DEFINE a == ResponseTo(r, "refused", soc')
  <2>1. fromSoc' = fromSoc \o AnswerTo(r, "refused", soc') \o WorkEvent(soc')
    <3>1. AnswerTo(r, "refused", soc) = <<a>> /\ a \in Messages
      BY <1>1, <1>4 DEF AnswerTo, ResponseTo, Messages, Responses
    <3>2. fromSoc' = Append(fromSoc, a) /\ fromSoc' \in Seq(Messages)
      <4> HIDE DEF a
      <4>1. fromSoc' = fromSoc \o <<a>>
        BY <1>4, <3>1
      <4> QED BY <1>1, <3>1, <4>1, AppendToLine
    <3> QED BY <1>4, <3>1, <3>2, AppendToLine DEF WorkEvent
  <2>2. a \in Messages /\ WorkTold = {} /\ Joins({a} \cup WorkTold)
    BY <1>1, <1>2, <1>4, <2>1 DEF WorkTold
  <2>3. a.kind = "rsp" /\ a.st = "refused" /\ a.soc = soc'
    BY ToldFields
  <2> HIDE DEF a
  <2>4. a \notin PlayingSet /\ a \notin RecWords
    BY <2>3 DEF PlayingSet, RecWords, RecSet, OKs, EventsOf, IsRsp
  <2>5. SocSays({a} \cup WorkTold)
    BY <1>1, <1>4, <2>2, <2>3, <2>4 DEF SocSays
  <2>6. known' \subseteq known /\ ("work" \notin known' \/ r.cmd # "POWER_CTRL")
    BY <1>4 DEF Misjudged
  <2> QED BY <1>1, <1>4, <2>5, <2>6 DEF AnswersTo, a, r
<1> QED BY <1>1, <1>3, <1>4 DEF SocCarriesOut, r

\* The recordings in the steps that leave them alone
LEMMA SameRecordingsFit ==
    ASSUME soc \in SocStates, soc' \in SocStates, SameRecordings(soc')
    PROVE  /\ Sane(soc) => Sane(soc')
           /\ \A rec : Fits(soc, rec) => Fits(soc', rec)
BY DEF Sane, Fits, RecordingsOf, SameRecordings

\* What the SOC does on its own, and when it hears a notice
OnItsOwn(M) ==
    /\ SocSays(M) /\ M \subseteq Events /\ UNCHANGED <<toSoc, known>>
    /\ soc'.mode = soc.mode /\ soc'.strategy = soc.strategy
    /\ soc'.work = 0 <=> soc.work = 0
HearsNotice(M) ==
    /\ SocSays(M) /\ M \subseteq Events /\ UNCHANGED events
    /\ soc'.mode = soc.mode /\ soc'.strategy = soc.strategy
    /\ toSoc # <<>> /\ Head(toSoc) \in Notices /\ toSoc' = Tail(toSoc)
    /\ soc'.work = 0 <=> Head(toSoc).arg = 0
    /\ known' = known \cup (IF Head(toSoc).at = cmds THEN {"power"} ELSE {})

\* The line with the event of a changed work state
LEMMA WorkEventJoins ==
    ASSUME LinesTyped, soc' \in SocStates
    PROVE  /\ WorkTold \subseteq Events /\ fromSoc \o WorkEvent(soc') \in Seq(Messages)
           /\ fromSoc' = fromSoc \o WorkEvent(soc') => Joins(WorkTold)
           /\ \A m \in Events : m.kind # "work" /\ fromSoc' = fromSoc \o WorkEvent(soc') \o <<m>>
                                  => Joins(WorkTold \cup {m})
<1> DEFINE w == [kind |-> "work", soc |-> soc']
<1>1. /\ w \in Events /\ Events \subseteq Messages /\ fromSoc \in Seq(Messages)
      /\ \A m : m.kind # "work" => m # w
  BY DEF Events, Messages, LinesTyped
<1>2. CASE soc'.work = soc.work
  <2>1. WorkTold = {} /\ fromSoc \o WorkEvent(soc') = fromSoc
    BY <1>1, <1>2, ConcatEmptySeq DEF WorkTold, WorkEvent
  <2> HIDE DEF w
  <2> QED BY <1>1, <2>1, AppendToLine DEF Joins
<1>3. CASE soc'.work # soc.work
  <2>1. WorkTold = {w} /\ WorkEvent(soc') = <<w>>
    BY <1>3 DEF WorkTold, WorkEvent
  <2> HIDE DEF w
  <2>2. fromSoc \o WorkEvent(soc') = Append(fromSoc, w) /\ Append(fromSoc, w) \in Seq(Messages)
    BY <1>1, <2>1, AppendToLine
  <2>3. \A m \in Events : Append(fromSoc, w) \o <<m>> = Append(Append(fromSoc, w), m)
    BY <1>1, <2>2, AppendToLine
  <2> QED BY <1>1, <2>1, <2>2, <2>3 DEF Joins
<1> QED BY <1>2, <1>3

LEMMA WorkIsTold ==
    ASSUME DeviceConstants, DeviceTyped, SocWorks
    PROVE  \E M : OnItsOwn(M)
<1> DEFINE e == [kind |-> "session"]
           M == WorkTold \cup {e}
<1>1. /\ soc \in SocStates /\ soc.work # 0
      /\ soc' = [soc EXCEPT !.work = IF @ = Calming THEN Monitoring ELSE Calming]
  BY DEF SocWorks, DeviceTyped, SettingsTyped
<1>2. /\ soc' \in SocStates /\ soc'.work # 0
      /\ soc'.volume = soc.volume /\ soc'.mode = soc.mode /\ soc'.strategy = soc.strategy
      /\ SameRecordings(soc') /\ soc'.music = soc.music /\ soc'.playing = soc.playing
  BY <1>1 DEF SocStates, Monitoring, Calming, SameRecordings
<1>3. e \in Events /\ e.kind = "session" /\ Events \subseteq Messages
  BY DEF Events, Messages
<1> HIDE DEF e
<1>4. Joins(M) /\ M \subseteq Events
  BY <1>2, <1>3, WorkEventJoins DEF SocWorks, DeviceTyped, e
<1>5. M \cap WorkSet # {} \/ soc'.work = soc.work
  BY <1>3, <1>4, ToldFields DEF WorkSet, EventsOf
<1>6. M \cap PlayingSet = {} /\ M \cap RecWords = {}
  BY <1>3, ToldFields DEF PlayingSet, RecWords, RecSet, OKs, EventsOf, IsRsp
<1>7. \A m \in M : m.kind # "session" => m.soc = soc'
  BY <1>3, ToldFields
<1>8. SocSays(M)
  BY <1>1, <1>2, <1>3, <1>4, <1>5, <1>6, <1>7, SameRecordingsFit DEF SocSays, SocWorks
<1> QED BY <1>1, <1>2, <1>4, <1>8 DEF OnItsOwn, SocWorks

LEMMA RecordingIsTold ==
    ASSUME DeviceConstants, DeviceTyped, SocAutoStops
    PROVE  \E M : OnItsOwn(M)
<1> DEFINE e == [kind |-> "rec", soc |-> soc',
                 st |-> IF soc'.latest < MinDuration THEN "short" ELSE "ok"]
<1>1. /\ soc \in SocStates /\ fromSoc \in Seq(Messages)
      /\ \E d \in Durations :
           soc' = [soc EXCEPT !.recording = FALSE, !.latest = d, !.unsaved = d >= MinDuration]
  BY DEF SocAutoStops, Stopped, DeviceTyped, SettingsTyped, LinesTyped
<1>2. /\ soc' \in SocStates /\ soc'.work = soc.work
      /\ soc'.volume = soc.volume /\ soc'.mode = soc.mode /\ soc'.strategy = soc.strategy
      /\ soc'.music = soc.music /\ soc'.playing = soc.playing
      /\ ~soc'.recording /\ (soc'.unsaved <=> soc'.latest >= MinDuration)
  <2>1. PICK d \in Durations : soc' = [soc EXCEPT !.recording = FALSE, !.latest = d,
                                                 !.unsaved = d >= MinDuration]
    BY <1>1
  <2>2. (d >= MinDuration) \in BOOLEAN
    OBVIOUS
  <2> QED BY <1>1, <2>1, <2>2 DEF SocStates, Recording
<1>3. /\ e \in Events /\ e.kind = "rec" /\ e.soc = soc' /\ Events \subseteq Messages
      /\ e.st = IF soc'.latest < MinDuration THEN "short" ELSE "ok"
  BY <1>2 DEF Events, Messages
<1>4. fromSoc' = Append(fromSoc, e)
  BY DEF SocAutoStops
<1> HIDE DEF e
<1>5. Joins({e}) /\ {e} \subseteq Events /\ e \in RecSet /\ e \notin PlayingSet
  BY <1>3, <1>4 DEF Joins, RecSet, EventsOf, PlayingSet, OKs, IsRsp
<1>6. Sane(soc') /\ Fits(soc', RecOf(e))
  <2>1. MinDuration \in Nat /\ Recording \subseteq Nat
    BY DEF DeviceConstants, Recording
  <2>2. soc'.latest \in Nat
    BY <1>2, <2>1 DEF SocStates
  <2> QED BY <1>2, <1>3, <2>1, <2>2 DEF Sane, Fits, RecordingsOf, RecOf, IsRsp
<1>7. SocSays({e})
  BY <1>2, <1>3, <1>5, <1>6 DEF SocSays, SocAutoStops
<1> QED BY <1>2, <1>5, <1>7 DEF OnItsOwn, SocAutoStops

LEMMA EndOfMusicIsTold ==
    ASSUME DeviceConstants, DeviceTyped, SocMusicEnds
    PROVE  \E M : OnItsOwn(M)
<1> DEFINE e == [kind |-> "playing", soc |-> soc']
<1>1. /\ soc \in SocStates /\ fromSoc \in Seq(Messages)
      /\ soc' = [soc EXCEPT !.playing = FALSE]
  BY DEF SocMusicEnds, DeviceTyped, SettingsTyped, LinesTyped
<1>2. /\ soc' \in SocStates /\ soc'.work = soc.work
      /\ soc'.volume = soc.volume /\ soc'.mode = soc.mode /\ soc'.strategy = soc.strategy
      /\ SameRecordings(soc') /\ soc'.music = soc.music /\ soc'.playing = FALSE
  BY <1>1 DEF SocStates, SameRecordings
<1>3. e \in Events /\ e.kind = "playing" /\ e.soc = soc' /\ Events \subseteq Messages
  BY <1>2 DEF Events, Messages
<1>4. fromSoc' = Append(fromSoc, e)
  BY DEF SocMusicEnds
<1> HIDE DEF e
<1>5. /\ Joins({e}) /\ {e} \subseteq Events /\ e \in PlayingSet /\ ~IsRsp(e)
      /\ e \notin RecWords
  BY <1>3, <1>4 DEF Joins, EventsOf, PlayingSet, IsRsp, RecWords, RecSet, OKs
<1>6. SocSays({e})
  BY <1>1, <1>2, <1>3, <1>5, SameRecordingsFit DEF SocSays, SocMusicEnds
<1> QED BY <1>2, <1>5, <1>6 DEF OnItsOwn, SocMusicEnds

LEMMA NoticeIsHeard ==
    ASSUME DeviceConstants, DeviceTyped, SocHearsNotice
    PROVE  HearsNotice(WorkTold)
<1> DEFINE r == Head(toSoc)
<1>1. /\ toSoc # <<>> /\ r \in Notices /\ r.cmd = "LINK_NOTIFY" /\ soc \in SocStates
      /\ soc' \in Accepted(r)
  BY TailOfLine, RequestTyped
  DEF SocHearsNotice, DeviceTyped, SettingsTyped, LinesTyped, IsRequest
<1>2. soc' \in SocStates /\ Took(r, soc')
  BY <1>1, AcceptedTook
<1>3. Joins(WorkTold) /\ WorkTold \subseteq Events /\ Events \subseteq Messages
  BY <1>2, WorkEventJoins DEF SocHearsNotice, DeviceTyped, Messages
<1>4. WorkTold \cap WorkSet # {} \/ soc'.work = soc.work
  BY <1>3, ToldFields DEF WorkSet, EventsOf
<1>5. WorkTold \cap PlayingSet = {} /\ WorkTold \cap RecWords = {}
  BY ToldFields DEF PlayingSet, RecWords, RecSet, OKs, EventsOf, IsRsp
<1>6. SameRecordings(soc')
  BY <1>1, <1>2 DEF Took, RecTook, RecCommands
<1>7. SocSays(WorkTold)
  BY <1>1, <1>2, <1>3, <1>4, <1>5, <1>6, SameRecordingsFit, ToldFields
  DEF SocSays, SocHearsNotice, Took
<1> QED BY <1>1, <1>2, <1>3, <1>7 DEF HearsNotice, SocHearsNotice, Took

---------------------------------------------------------------------------
\* A step of the SOC and the last words: what it says is true, and what it leaves
\* true unless it brings a newer word.
LEMMA LastInSpoke ==
    ASSUME LinesTyped, NEW M, Joins(M), NEW W, NEW Z, NEW G, NEW H,
           LastIn(fromSoc, W, Z, G), \A m \in M : m \in W => m \in H,
           M \cap Z # {} \/ \A x \in W : x \in G => x \in H
    PROVE  LastIn(fromSoc', W, Z, H)
<1>1. fromSoc \in Seq(Messages)
  BY DEF LinesTyped
<1>2. CASE M = {} /\ fromSoc' = fromSoc
  BY <1>1, <1>2 DEF LastIn
<1>3. ASSUME NEW a \in Messages, M = {a}, fromSoc' = Append(fromSoc, a)
      PROVE  LastIn(fromSoc', W, Z, H)
  BY <1>1, <1>3, LastInAppend
<1>4. ASSUME NEW a \in Messages, NEW b \in Messages, M = {a, b},
             fromSoc' = Append(Append(fromSoc, a), b)
      PROVE  LastIn(fromSoc', W, Z, H)
  <2> DEFINE q == Append(fromSoc, a)
  <2>1. q \in Seq(Messages) /\ fromSoc' = Append(q, b)
    BY <1>1, <1>4, AppendToLine
  <2> HIDE DEF q
  <2>2. CASE b \in Z
    <3>1. LastIn(Append(q, b), W, Z, H)
      BY <1>4, <2>1, <2>2, LastInAppend
    <3> QED BY <2>1, <3>1
  <2>3. CASE b \notin Z
    <3>1. LastIn(q, W, Z, H)
      BY <1>1, <1>4, <2>3, LastInAppend DEF q
    <3>2. LastIn(Append(q, b), W, Z, H)
      BY <1>4, <2>1, <3>1, LastInAppend
    <3> QED BY <2>1, <3>2
  <2> QED BY <2>2, <2>3
<1> QED BY <1>2, <1>3, <1>4 DEF Joins

\* The messages in the line
LEMMA JoinedLine ==
    ASSUME LinesTyped, NEW M, Joins(M), NEW Z
    PROVE  /\ fromSoc' \in Seq(Messages)
           /\ NoneIn(fromSoc', Z) <=> NoneIn(fromSoc, Z) /\ M \cap Z = {}
           /\ M \cap Z = {} => Number(fromSoc', Z) = Number(fromSoc, Z)
           /\ \A a : M \cap Z = {a} => Number(fromSoc', Z) = Number(fromSoc, Z) + 1
<1>1. fromSoc \in Seq(Messages) /\ Number(fromSoc, Z) \in Nat
  BY PlacesAreFinite DEF LinesTyped
<1>2. CASE M = {} /\ fromSoc' = fromSoc
  BY <1>1, <1>2
<1>3. ASSUME NEW a \in Messages, M = {a}, fromSoc' = Append(fromSoc, a)
      PROVE  /\ fromSoc' \in Seq(Messages)
             /\ NoneIn(fromSoc', Z) <=> NoneIn(fromSoc, Z) /\ a \notin Z
             /\ Number(fromSoc', Z) = Number(fromSoc, Z) + (IF a \in Z THEN 1 ELSE 0)
  <2>1. Append(fromSoc, a) \in Seq(Messages)
    BY <1>1, AppendToLine
  <2>2. NoneIn(Append(fromSoc, a), Z) <=> NoneIn(fromSoc, Z) /\ a \notin Z
    BY <1>1, NoneInAppend
  <2>3. Number(Append(fromSoc, a), Z) = Number(fromSoc, Z) + (IF a \in Z THEN 1 ELSE 0)
    BY <1>1, NumberAppend
  <2> QED BY <1>3, <2>1, <2>2, <2>3
<1>4. ASSUME NEW a \in Messages, NEW b \in Messages, a # b, M = {a, b},
             fromSoc' = Append(Append(fromSoc, a), b)
      PROVE  /\ fromSoc' \in Seq(Messages)
             /\ NoneIn(fromSoc', Z) <=> NoneIn(fromSoc, Z) /\ a \notin Z /\ b \notin Z
             /\ Number(fromSoc', Z) = (Number(fromSoc, Z) + (IF a \in Z THEN 1 ELSE 0))
                                      + (IF b \in Z THEN 1 ELSE 0)
  <2> DEFINE q == Append(fromSoc, a)
  <2>1. q \in Seq(Messages)
    BY <1>1, AppendToLine
  <2>2. NoneIn(q, Z) <=> NoneIn(fromSoc, Z) /\ a \notin Z
    BY <1>1, NoneInAppend
  <2>3. Number(q, Z) = Number(fromSoc, Z) + (IF a \in Z THEN 1 ELSE 0)
    BY <1>1, NumberAppend
  <2>4. fromSoc' = Append(q, b)
    BY <1>4
  <2> HIDE DEF q
  <2>5. Append(q, b) \in Seq(Messages)
    BY <2>1, AppendToLine
  <2>6. NoneIn(Append(q, b), Z) <=> NoneIn(q, Z) /\ b \notin Z
    BY <2>1, NoneInAppend
  <2>7. Number(Append(q, b), Z) = Number(q, Z) + (IF b \in Z THEN 1 ELSE 0)
    BY <2>1, NumberAppend
  <2> QED BY <2>2, <2>3, <2>4, <2>5, <2>6, <2>7
<1>5. CASE \E a \in Messages : M = {a} /\ fromSoc' = Append(fromSoc, a)
  BY <1>1, <1>3, <1>5
<1>6. CASE \E a, b \in Messages : a # b /\ M = {a, b} /\ fromSoc' = Append(Append(fromSoc, a), b)
  BY <1>1, <1>4, <1>6
<1> QED BY <1>2, <1>5, <1>6 DEF Joins

\* The steps of the SOC
SocSpeaks(M) ==
    /\ SocSays(M) /\ known' \subseteq known \cup {"power"}
    /\ \/ toSoc' = toSoc
       \/ /\ toSoc # <<>> /\ toSoc' = Tail(toSoc)
          /\ \/ "work" \notin known' \/ Head(toSoc) \notin PowerSet
             \/ soc'.work = Presumed(Head(toSoc).arg)

LEMMA SocStepsSpeak ==
    ASSUME DeviceConstants, DeviceTyped,
           SocCarriesOut \/ SocWorks \/ SocAutoStops \/ SocMusicEnds \/ SocHearsNotice
    PROVE  \E M : SocSpeaks(M)
<1>1. CASE SocCarriesOut
  BY <1>1, AnswersAreTrue DEF AnswersTo, SocSpeaks, PowerSet
<1>2. CASE SocWorks \/ SocAutoStops \/ SocMusicEnds
  BY <1>2, WorkIsTold, RecordingIsTold, EndOfMusicIsTold DEF OnItsOwn, SocSpeaks
<1>3. CASE SocHearsNotice
  BY <1>3, NoticeIsHeard DEF HearsNotice, SocSpeaks, PowerSet, Notices
<1> QED BY <1>1, <1>2, <1>3

\* The steps in which nobody says anything: a message is lost, or all are when the
\* SOC starts again, or the notice is sent.  What a lost message would have told
\* is known no longer, nor is what a restart changes.
Kept(field, Z) ==
    field \in known' => field \in known /\ (NoneIn(fromSoc', Z) => NoneIn(fromSoc, Z))
Silence ==
    /\ UNCHANGED <<g_ctrlState, shownMode, told, display, cmds, env>>
    /\ known' \subseteq known /\ soc' \in SocStates
    /\ \/ soc' = soc /\ fromSoc' = fromSoc
       \/ soc' = soc /\ fromSoc # <<>> /\ fromSoc' = Tail(fromSoc)
       \/ fromSoc' = <<>>
    /\ soc'.volume = soc.volume /\ soc'.mode = soc.mode
    /\ soc'.strategy = soc.strategy /\ soc'.music = soc.music
    /\ Sane(soc) => Sane(soc')
    /\ "rec" \in known' => soc' = soc
    /\ "work" \in known' => soc'.work = soc.work
    /\ "playing" \in known' => soc'.playing = soc.playing
    /\ Kept("volume", VolumeSet) /\ Kept("rec", RecSet) /\ Kept("work", WorkSet)
    /\ Kept("music", MusicSet) /\ Kept("playing", PlayingSet)
    /\ Kept("mode", ModeSet) /\ Kept("strategy", StrategySet)

LEMMA DoubtOfSet ==
    ASSUME NEW m \in Messages
    PROVE  /\ m \in VolumeSet => "volume" \in DoubtOfAnswer(m)
           /\ m \in RecSet => "rec" \in DoubtOfAnswer(m)
           /\ m \in WorkSet => "work" \in DoubtOfAnswer(m)
           /\ m \in MusicSet => "music" \in DoubtOfAnswer(m)
           /\ m \in PlayingSet => "playing" \in DoubtOfAnswer(m)
           /\ m \in ModeSet => "mode" \in DoubtOfAnswer(m)
           /\ m \in StrategySet => "strategy" \in DoubtOfAnswer(m)
BY DEF DoubtOfAnswer, Doubt, VolumeSet, RecSet, WorkSet, MusicSet, PlayingSet, ModeSet,
       StrategySet, OKs, EventsOf, IsRsp

LEMMA SilentSteps ==
    ASSUME DeviceConstants, DeviceTyped,
           \/ SocStartsAgain \/ LineLoses \/ link_notify_power \/ UNCHANGED deviceVars
    PROVE  Silence
<1>1. fromSoc \in Seq(Messages) /\ soc \in SocStates
  BY DEF DeviceTyped, SettingsTyped, LinesTyped
<1>2. CASE UNCHANGED fromSoc /\ UNCHANGED soc /\ known' \subseteq known
           /\ UNCHANGED <<g_ctrlState, shownMode, told, display, cmds, env>>
  BY <1>1, <1>2 DEF Silence, Kept
<1>3. ASSUME fromSoc # <<>>, fromSoc' = Tail(fromSoc),
             known' = known \ DoubtOfAnswer(Head(fromSoc)), UNCHANGED soc,
             UNCHANGED <<g_ctrlState, shownMode, told, display, cmds, env>>
      PROVE  Silence
  <2>1. Head(fromSoc) \in Messages /\ \A Z : NoneIn(fromSoc', Z) /\ Head(fromSoc) \notin Z
                                               => NoneIn(fromSoc, Z)
    BY <1>1, <1>3, TailOfLine, NoneInTail
  <2>2. known' \subseteq known /\ \A f \in DoubtOfAnswer(Head(fromSoc)) : f \notin known'
    BY <1>3
  <2> QED BY <1>1, <1>3, <2>1, <2>2, DoubtOfSet DEF Silence, Kept
<1>4. CASE SocStartsAgain
  <2> DEFINE D == UNION {DoubtOfAnswer(fromSoc[k]) : k \in DOMAIN fromSoc}
  <2>1. /\ known' \subseteq known \ {"work", "power", "rec", "playing"}
        /\ \A f \in D : f \notin known'
        /\ fromSoc' = <<>> /\ UNCHANGED <<g_ctrlState, shownMode, told, display, cmds, env>>
        /\ soc' = [soc EXCEPT !.work = 0, !.recording = FALSE, !.unsaved = FALSE,
                              !.latest = 0, !.playing = FALSE]
    BY <1>4 DEF SocStartsAgain
  <2>2. \A k \in DOMAIN fromSoc : fromSoc[k] \in Messages
    BY <1>1, ElementOfSeq, LenProperties
  <2>3. \A Z : \A f : (\A m \in Messages : m \in Z => f \in DoubtOfAnswer(m)) /\ f \in known'
                        => NoneIn(fromSoc, Z)
    BY <2>1, <2>2 DEF NoneIn
  <2>4. /\ Kept("volume", VolumeSet) /\ Kept("music", MusicSet)
        /\ Kept("mode", ModeSet) /\ Kept("strategy", StrategySet)
        /\ Kept("rec", RecSet) /\ Kept("work", WorkSet) /\ Kept("playing", PlayingSet)
    <3> HIDE DEF D
    <3> QED BY <2>1, <2>3, DoubtOfSet DEF Kept
  <2>5. /\ soc' \in SocStates /\ soc'.volume = soc.volume /\ soc'.mode = soc.mode
        /\ soc'.strategy = soc.strategy /\ soc'.music = soc.music
        /\ ~soc'.unsaved /\ soc'.latest = 0
    BY <1>1, <2>1 DEF SocStates, Recording
  <2>6. Sane(soc')
    BY <2>5 DEF Sane, DeviceConstants
  <2> QED BY <2>1, <2>4, <2>5, <2>6 DEF Silence
<1> QED BY <1>2, <1>3, <1>4 DEF LineLoses, link_notify_power, deviceVars

\* The last words on a quiet line
LEMMA LastInSilence ==
    ASSUME DeviceTyped, Silence, NEW W, NEW Z, NEW G, NEW H, LastIn(fromSoc, W, Z, G),
           soc' = soc => G = H
    PROVE  LastIn(fromSoc', W, Z, H)
<1>1. fromSoc \in Seq(Messages)
  BY DEF DeviceTyped, LinesTyped
<1>2. CASE soc' = soc /\ fromSoc' = fromSoc
  BY <1>2
<1>3. CASE soc' = soc /\ fromSoc # <<>> /\ fromSoc' = Tail(fromSoc)
  BY <1>1, <1>3, LastInTail
<1>4. CASE fromSoc' = <<>>
  BY <1>4 DEF LastIn
<1> QED BY <1>2, <1>3, <1>4 DEF Silence

\* What becomes of the line to the SOC in the steps in which nobody speaks
SilenceToSoc ==
    \/ toSoc' = toSoc /\ soc' = soc
    \/ toSoc' = <<>> /\ "power" \notin known' /\ "work" \notin known'
    \/ /\ toSoc # <<>> /\ toSoc' = Tail(toSoc) /\ soc' = soc
       /\ "work" \notin known' \/ Head(toSoc) \notin PowerSet
    \/ /\ soc' = soc /\ NoneIn(toSoc, Notices)
       /\ \E r \in Notices : /\ toSoc' = Append(toSoc, r)
                             /\ r.at = cmds /\ r.arg = g_ctrlState.power

LEMMA SilentToSoc ==
    ASSUME DeviceTyped,
           SocStartsAgain \/ LineLoses \/ link_notify_power \/ UNCHANGED deviceVars
    PROVE  SilenceToSoc
<1>1. CASE link_notify_power
  <2> DEFINE r == [cmd |-> "LINK_NOTIFY", arg |-> g_ctrlState.power, at |-> cmds]
  <2>1. r \in Notices /\ toSoc' = Append(toSoc, r)
        /\ r.at = cmds /\ r.arg = g_ctrlState.power /\ UNCHANGED soc
    BY <1>1 DEF link_notify_power, Notices, DeviceTyped, SettingsTyped, LinesTyped, CopyStates
  <2>2. NoneIn(toSoc, Notices)
    BY <1>1 DEF link_notify_power, NoneIn, Notices, IsRequest
  <2> HIDE DEF r
  <2> QED BY <2>1, <2>2 DEF SilenceToSoc
<1>2. CASE SocStartsAgain
  BY <1>2 DEF SocStartsAgain, SilenceToSoc
<1>3. CASE LineLoses \/ UNCHANGED deviceVars
  BY <1>3 DEF LineLoses, deviceVars, SilenceToSoc, Doubt, PowerSet
<1> QED BY <1>1, <1>2, <1>3

---------------------------------------------------------------------------
\* One step and each setting.  A handler touches neither the SOC nor what it said.  A
\* callback makes the copy what its message says, which is true if no newer word is
\* under way.  The SOC's steps add true words, and a new one if they change it.

LEMMA VolumeStep ==
    ASSUME DeviceConstants, DeviceTyped, VolumeInv, [DeviceNext]_deviceVars
    PROVE  VolumeInv'
<1>1. fromSoc \in Seq(Messages)
  BY DEF DeviceTyped, LinesTyped
<1>2. CASE Handler
  BY <1>2, HandlersDo DEF HandlerDoes, VolumeInv, VolumeTrue, Told
<1>3. CASE SocCallback
  <2> DEFINE m == Head(fromSoc)
  <2>1. Heard(m) /\ VolumeHeard(m) /\ m \in Messages
    BY <1>3, CallbacksHear DEF Heard
  <2>2. /\ fromSoc # <<>> /\ fromSoc' = Tail(fromSoc) /\ soc' = soc
        /\ ~IsRsp(m) => told' = told \/ told'.cmd \in {"REC_STOP", "none"}
    BY <2>1 DEF Heard
  <2>3. /\ LastIn(fromSoc', VolumeWords, VolumeSet, VolumeTrue)
        /\ m \in VolumeWords /\ NoneIn(fromSoc', VolumeSet) => m \in VolumeTrue
        /\ NoneIn(fromSoc, VolumeSet) <=> m \notin VolumeSet /\ NoneIn(fromSoc', VolumeSet)
    BY <1>1, <2>2, LastInTail, NoneInTail DEF VolumeInv
  <2>4. VolumeTrue' = VolumeTrue
    BY <2>2 DEF VolumeTrue, Told
  <2> HIDE DEF m
  <2>5. CASE m \in VolumeWords
    BY <2>1, <2>2, <2>3, <2>4, <2>5 DEF VolumeInv, VolumeHeard, VolumeTrue, VolumeWords, OKs
  <2>6. CASE m \notin VolumeWords
    <3>1. m \notin VolumeSet
      BY <2>6 DEF VolumeWords, VolumeSet, OKs
    <3>2. ~IsRsp(m) /\ Told({"VOLUME_SET", "VOLUME_GET", "STATUS_GET"})' =>
            told' = told /\ Told({"VOLUME_SET", "VOLUME_GET", "STATUS_GET"})
      BY <2>2 DEF Told
    <3> QED BY <2>1, <2>2, <2>3, <2>4, <2>6, <3>1, <3>2 DEF VolumeInv, VolumeHeard
  <2> QED BY <2>5, <2>6
<1>4. CASE SocCarriesOut \/ SocWorks \/ SocAutoStops \/ SocMusicEnds \/ SocHearsNotice
  <2> PICK M : SocSpeaks(M)
    BY <1>4, SocStepsSpeak
  <2>1. /\ Joins(M) /\ M \subseteq Messages /\ known' \subseteq known \cup {"power"}
        /\ UNCHANGED <<g_ctrlState, display, told>>
    BY DEF SocSpeaks, SocSays
  <2>2. \A m \in M : m \in VolumeWords => m \in VolumeTrue'
    BY DEF SocSpeaks, SocSays, VolumeTrue, VolumeWords, OKs, IsRsp
  <2>3. M \cap VolumeSet # {} \/ \A x \in VolumeWords : x \in VolumeTrue => x \in VolumeTrue'
    BY DEF SocSpeaks, SocSays, VolumeTrue, Told
  <2>4. LastIn(fromSoc', VolumeWords, VolumeSet, VolumeTrue')
    <3>1. LinesTyped /\ Joins(M) /\ LastIn(fromSoc, VolumeWords, VolumeSet, VolumeTrue)
      BY <2>1 DEF VolumeInv, DeviceTyped
    <3> QED BY <2>2, <2>3, <3>1, LastInSpoke
  <2>5. NoneIn(fromSoc', VolumeSet) <=> NoneIn(fromSoc, VolumeSet) /\ M \cap VolumeSet = {}
    BY <2>1, JoinedLine DEF DeviceTyped
  <2>6. M \cap VolumeSet = {} => soc'.volume = soc.volume
    BY DEF SocSpeaks, SocSays
  <2> QED BY <2>1, <2>4, <2>5, <2>6 DEF VolumeInv, Told
<1>5. CASE SocStartsAgain \/ LineLoses \/ link_notify_power \/ UNCHANGED deviceVars
  <2>1. Silence
    BY <1>5, SilentSteps
  <2>2. soc' = soc => VolumeTrue' = VolumeTrue
    BY DEF VolumeTrue, Told
  <2>3. LastIn(fromSoc', VolumeWords, VolumeSet, VolumeTrue')
    BY <2>1, <2>2, LastInSilence DEF VolumeInv
  <2> QED BY <2>1, <2>3 DEF Silence, Kept, VolumeInv, Told
<1> QED BY <1>2, <1>3, <1>4, <1>5 DEF DeviceNext

\* The presumed work state through the steps of the line to the SOC: one more
\* request or notice, and one less
LEMMA PresumedSent ==
    ASSUME LinesTyped, NEW r \in Requests \cup Notices, toSoc' = Append(toSoc, r),
           \/ r \in PowerSet /\ g_ctrlState'.work = Presumed(r.arg)
           \/ /\ r \notin PowerSet /\ WorkPresumed
              /\ g_ctrlState'.work = g_ctrlState.work
    PROVE  WorkPresumed'
<1>1. toSoc \in Seq(Requests \cup Notices)
  BY DEF LinesTyped
<1>2. ~NoneIn(Append(toSoc, r), PowerSet)
  BY <1>1, NoneInAppend DEF WorkPresumed
<1>3. r \notin PowerSet => PowerTrue' = PowerTrue
  BY DEF PowerTrue
<1>4. r \in PowerSet => r \in PowerTrue'
  BY DEF PowerTrue
<1>5. r \notin PowerSet => LastIn(toSoc, PowerSet, PowerSet, PowerTrue)
  BY DEF WorkPresumed
<1> DEFINE H == PowerTrue'
<1>6. LastIn(Append(toSoc, r), PowerSet, PowerSet, H)
  <2>1. r \notin PowerSet => H = PowerTrue
    BY <1>3
  <2>2. r \in PowerSet => r \in H
    BY <1>4
  <2> HIDE DEF H
  <2> QED BY <1>1, <1>5, <2>1, <2>2, LastInAppend
<1> QED BY <1>2, <1>6 DEF WorkPresumed

LEMMA PresumedTaken ==
    ASSUME LinesTyped, WorkPresumed, toSoc # <<>>, toSoc' = Tail(toSoc),
           g_ctrlState' = g_ctrlState
    PROVE  \/ WorkPresumed'
           \/ Head(toSoc) \in PowerSet /\ Presumed(Head(toSoc).arg) = g_ctrlState.work
<1>1. toSoc \in Seq(Requests \cup Notices) /\ PowerTrue' = PowerTrue
  BY DEF LinesTyped, PowerTrue
<1>2. /\ LastIn(toSoc', PowerSet, PowerSet, PowerTrue)
      /\ Head(toSoc) \in PowerSet /\ NoneIn(toSoc', PowerSet) => Head(toSoc) \in PowerTrue
      /\ Head(toSoc) \in PowerSet \/ ~NoneIn(toSoc', PowerSet)
  BY <1>1, LastInTail, NoneInTail DEF WorkPresumed
<1> QED BY <1>1, <1>2 DEF WorkPresumed, PowerTrue

LEMMA WorkStep ==
    ASSUME DeviceConstants, DeviceTyped, WorkInv, [DeviceNext]_deviceVars
    PROVE  WorkInv'
<1>1. fromSoc \in Seq(Messages)
  BY DEF DeviceTyped, LinesTyped
<1>2. CASE Handler
  <2>1. HandlerDoes
    BY <1>2, HandlersDo
  <2>2. ASSUME "work" \in known', NoneIn(fromSoc, WorkSet)
        PROVE  g_ctrlState'.work = soc.work \/ WorkPresumed'
    <3>1. g_ctrlState.work = soc.work \/ WorkPresumed
      BY <2>1, <2>2 DEF HandlerDoes, WorkInv
    <3>2. CASE toSoc' = toSoc /\ g_ctrlState'.work = g_ctrlState.work
      BY <3>1, <3>2 DEF WorkPresumed, PowerTrue
    <3>3. ASSUME NEW r \in Requests, RequestSent(r)
          PROVE  g_ctrlState'.work = soc.work \/ WorkPresumed'
      <4>1. toSoc' = Append(toSoc, r) /\ LinesTyped
        BY <3>3 DEF RequestSent, DeviceTyped
      <4>2. \/ r \in PowerSet /\ g_ctrlState'.work = Presumed(r.arg)
            \/ r \notin PowerSet /\ g_ctrlState'.work = g_ctrlState.work
        BY <3>3 DEF RequestSent, PowerSet
      <4> QED BY <3>1, <4>1, <4>2, PresumedSent
    <3> QED BY <2>1, <2>2, <3>2, <3>3 DEF HandlerDoes
  <2> QED BY <2>1, <2>2 DEF HandlerDoes, WorkInv, WorkTrue
<1>3. CASE SocCallback
  <2> DEFINE m == Head(fromSoc)
  <2>1. Heard(m) /\ WorkHeard(m) /\ m \in Messages
    BY <1>3, CallbacksHear DEF Heard
  <2>2. fromSoc # <<>> /\ fromSoc' = Tail(fromSoc) /\ soc' = soc /\ toSoc' = toSoc
    BY <2>1 DEF Heard
  <2>3. /\ LastIn(fromSoc', WorkWords, WorkSet, WorkTrue)
        /\ m \in WorkWords /\ NoneIn(fromSoc', WorkSet) => m \in WorkTrue
        /\ NoneIn(fromSoc, WorkSet) <=> m \notin WorkSet /\ NoneIn(fromSoc', WorkSet)
    BY <1>1, <2>2, LastInTail, NoneInTail DEF WorkInv
  <2>4. WorkTrue' = WorkTrue
    BY <2>2 DEF WorkTrue
  <2> HIDE DEF m
  <2>5. CASE m \in WorkWords
    BY <2>1, <2>2, <2>3, <2>4, <2>5 DEF WorkInv, WorkHeard, WorkTrue
  <2>6. CASE m \notin WorkWords
    BY <2>1, <2>2, <2>3, <2>4, <2>6 DEF WorkInv, WorkHeard, WorkWords, WorkPresumed, PowerTrue
  <2> QED BY <2>5, <2>6
<1>4. CASE SocCarriesOut \/ SocWorks \/ SocAutoStops \/ SocMusicEnds \/ SocHearsNotice
  <2> PICK M : SocSpeaks(M)
    BY <1>4, SocStepsSpeak
  <2>1. /\ Joins(M) /\ M \subseteq Messages /\ known' \subseteq known \cup {"power"}
        /\ UNCHANGED <<g_ctrlState, display, told>>
    BY DEF SocSpeaks, SocSays
  <2>2. \A m \in M : m \in WorkWords => m \in WorkTrue'
    BY DEF SocSpeaks, SocSays, WorkTrue, WorkWords, WorkSet, OKs, EventsOf, IsRsp
  <2>3. M \cap WorkSet # {} \/ \A x \in WorkWords : x \in WorkTrue => x \in WorkTrue'
    BY DEF SocSpeaks, SocSays, WorkTrue
  <2>4. LastIn(fromSoc', WorkWords, WorkSet, WorkTrue')
    <3>1. LinesTyped /\ Joins(M) /\ LastIn(fromSoc, WorkWords, WorkSet, WorkTrue)
      BY <2>1 DEF WorkInv, DeviceTyped
    <3> QED BY <2>2, <2>3, <3>1, LastInSpoke
  <2>5. NoneIn(fromSoc', WorkSet) <=> NoneIn(fromSoc, WorkSet) /\ M \cap WorkSet = {}
    BY <2>1, JoinedLine DEF DeviceTyped
  <2>6. M \cap WorkSet = {} => soc'.work = soc.work
    BY DEF SocSpeaks, SocSays
  <2>7. ASSUME "work" \in known', NoneIn(fromSoc', WorkSet)
        PROVE  g_ctrlState'.work = soc'.work \/ WorkPresumed'
    <3>1. /\ g_ctrlState.work = soc.work \/ WorkPresumed
          /\ soc'.work = soc.work
      BY <2>1, <2>5, <2>6, <2>7 DEF WorkInv
    <3>2. CASE toSoc' = toSoc
      BY <2>1, <3>1, <3>2 DEF WorkPresumed, PowerTrue
    <3>3. CASE toSoc # <<>> /\ toSoc' = Tail(toSoc)
      <4>1. Head(toSoc) \in PowerSet => soc'.work = Presumed(Head(toSoc).arg) \/ toSoc' = toSoc
        BY <2>7 DEF SocSpeaks
      <4>2. WorkPresumed => \/ WorkPresumed'
                            \/ /\ Head(toSoc) \in PowerSet
                               /\ Presumed(Head(toSoc).arg) = g_ctrlState.work
        BY <2>1, <3>3, PresumedTaken DEF DeviceTyped
      <4> QED BY <2>1, <3>1, <3>2, <4>1, <4>2
    <3> QED BY <3>2, <3>3 DEF SocSpeaks
  <2> QED BY <2>4, <2>7 DEF WorkInv
<1>5. CASE SocStartsAgain \/ LineLoses \/ link_notify_power \/ UNCHANGED deviceVars
  <2>1. Silence
    BY <1>5, SilentSteps
  <2>2. soc' = soc => WorkTrue' = WorkTrue
    BY DEF WorkTrue
  <2>3. LastIn(fromSoc', WorkWords, WorkSet, WorkTrue')
    BY <2>1, <2>2, LastInSilence DEF WorkInv
  <2>4. ASSUME "work" \in known', NoneIn(fromSoc', WorkSet)
        PROVE  g_ctrlState'.work = soc'.work \/ WorkPresumed'
    <3>1. /\ g_ctrlState.work = soc.work \/ WorkPresumed
          /\ soc'.work = soc.work /\ g_ctrlState' = g_ctrlState /\ LinesTyped
      BY <2>1, <2>4 DEF Silence, Kept, WorkInv, DeviceTyped
    <3>2. CASE toSoc' = toSoc
      BY <3>1, <3>2 DEF WorkPresumed, PowerTrue
    <3>3. CASE toSoc # <<>> /\ toSoc' = Tail(toSoc) /\ Head(toSoc) \notin PowerSet
      BY <3>1, <3>3, PresumedTaken
    <3>4. ASSUME NEW r \in Notices, toSoc' = Append(toSoc, r)
          PROVE  g_ctrlState'.work = soc'.work \/ WorkPresumed'
      <4>1. r \in Requests \cup Notices /\ r \notin PowerSet
        BY DEF Notices, PowerSet
      <4> QED BY <3>1, <3>4, <4>1, PresumedSent
    <3> QED BY <2>4, <3>2, <3>3, <3>4, <1>5, SilentToSoc DEF SilenceToSoc
  <2> QED BY <2>3, <2>4 DEF WorkInv
<1> QED BY <1>2, <1>3, <1>4, <1>5 DEF DeviceNext

LEMMA RecStep ==
    ASSUME DeviceConstants, DeviceTyped, RecInv, [DeviceNext]_deviceVars
    PROVE  RecInv'
<1>1. fromSoc \in Seq(Messages)
  BY DEF DeviceTyped, LinesTyped
<1>2. CASE Handler
  BY <1>2, HandlersDo DEF HandlerDoes, RecInv, RecTrue, ToldRecording, Told
<1>3. CASE SocCallback
  <2> DEFINE m == Head(fromSoc)
  <2>1. Heard(m) /\ RecHeard(m) /\ m \in Messages
    BY <1>3, CallbacksHear DEF Heard
  <2>2. fromSoc # <<>> /\ fromSoc' = Tail(fromSoc) /\ soc' = soc /\ toSoc' = toSoc
    BY <2>1 DEF Heard
  <2>3. /\ LastIn(fromSoc', RecWords, RecSet, RecTrue)
        /\ m \in RecWords /\ NoneIn(fromSoc', RecSet) => m \in RecTrue
        /\ NoneIn(fromSoc, RecSet) <=> m \notin RecSet /\ NoneIn(fromSoc', RecSet)
    BY <1>1, <2>2, LastInTail, NoneInTail DEF RecInv
  <2>4. RecTrue' = RecTrue
    BY <2>2 DEF RecTrue
  <2>0. Sane(soc)' /\ (ToldRecording' => told'.what = g_ctrlState'.rec)
    BY <2>1, <2>2 DEF RecInv, RecHeard, ToldRecording, Told
  <2> HIDE DEF m
  <2>5. CASE m \in RecWords
    BY <2>1, <2>2, <2>3, <2>4, <2>5, <2>0 DEF RecInv, RecHeard, RecTrue
  <2>6. CASE m \notin RecWords
    BY <2>1, <2>2, <2>3, <2>4, <2>6, <2>0 DEF RecInv, RecHeard, RecWords
  <2> QED BY <2>5, <2>6
<1>4. CASE SocCarriesOut \/ SocWorks \/ SocAutoStops \/ SocMusicEnds \/ SocHearsNotice
  <2> PICK M : SocSpeaks(M)
    BY <1>4, SocStepsSpeak
  <2>1. /\ Joins(M) /\ M \subseteq Messages /\ known' \subseteq known \cup {"power"}
        /\ UNCHANGED <<g_ctrlState, display, told>>
    BY DEF SocSpeaks, SocSays
  <2>2. \A m \in M : m \in RecWords => m \in RecTrue'
    BY DEF SocSpeaks, SocSays, RecTrue, RecInv
  <2>3. M \cap RecSet # {} \/ \A x \in RecWords : x \in RecTrue => x \in RecTrue'
    BY DEF SocSpeaks, SocSays, RecTrue
  <2>4. LastIn(fromSoc', RecWords, RecSet, RecTrue')
    <3>1. LinesTyped /\ Joins(M) /\ LastIn(fromSoc, RecWords, RecSet, RecTrue)
      BY <2>1 DEF RecInv, DeviceTyped
    <3> QED BY <2>2, <2>3, <3>1, LastInSpoke
  <2>5. NoneIn(fromSoc', RecSet) <=> NoneIn(fromSoc, RecSet) /\ M \cap RecSet = {}
    BY <2>1, JoinedLine DEF DeviceTyped
  <2>6. /\ Sane(soc)' /\ (ToldRecording' => told'.what = g_ctrlState'.rec)
        /\ M \cap RecSet = {} => \A rec : Fits(soc, rec) => Fits(soc', rec)
    BY <2>1 DEF SocSpeaks, SocSays, RecInv, ToldRecording, Told
  <2> QED BY <2>1, <2>4, <2>5, <2>6 DEF RecInv
<1>5. CASE SocStartsAgain \/ LineLoses \/ link_notify_power \/ UNCHANGED deviceVars
  <2>1. Silence
    BY <1>5, SilentSteps
  <2>2. soc' = soc => RecTrue' = RecTrue
    BY DEF RecTrue
  <2>3. LastIn(fromSoc', RecWords, RecSet, RecTrue')
    BY <2>1, <2>2, LastInSilence DEF RecInv
  <2> QED BY <2>1, <2>3 DEF Silence, Kept, RecInv, ToldRecording, Told
<1> QED BY <1>2, <1>3, <1>4, <1>5 DEF DeviceNext

LEMMA MusicStep ==
    ASSUME DeviceConstants, DeviceTyped, MusicInv, [DeviceNext]_deviceVars
    PROVE  MusicInv'
<1>1. fromSoc \in Seq(Messages)
  BY DEF DeviceTyped, LinesTyped
<1>2. CASE Handler
  BY <1>2, HandlersDo DEF HandlerDoes, MusicInv, MusicTrue
<1>3. CASE SocCallback
  <2> DEFINE m == Head(fromSoc)
  <2>1. Heard(m) /\ MusicHeard(m) /\ m \in Messages
    BY <1>3, CallbacksHear DEF Heard
  <2>2. fromSoc # <<>> /\ fromSoc' = Tail(fromSoc) /\ soc' = soc /\ toSoc' = toSoc
    BY <2>1 DEF Heard
  <2>3. /\ LastIn(fromSoc', MusicSet, MusicSet, MusicTrue)
        /\ m \in MusicSet /\ NoneIn(fromSoc', MusicSet) => m \in MusicTrue
        /\ NoneIn(fromSoc, MusicSet) <=> m \notin MusicSet /\ NoneIn(fromSoc', MusicSet)
    BY <1>1, <2>2, LastInTail, NoneInTail DEF MusicInv
  <2>4. MusicTrue' = MusicTrue
    BY <2>2 DEF MusicTrue
  <2> HIDE DEF m
  <2>5. CASE m \in MusicSet
    BY <2>1, <2>2, <2>3, <2>4, <2>5 DEF MusicInv, MusicHeard, MusicTrue
  <2>6. CASE m \notin MusicSet
    BY <2>1, <2>2, <2>3, <2>4, <2>6 DEF MusicInv, MusicHeard
  <2> QED BY <2>5, <2>6
<1>4. CASE SocCarriesOut \/ SocWorks \/ SocAutoStops \/ SocMusicEnds \/ SocHearsNotice
  <2> PICK M : SocSpeaks(M)
    BY <1>4, SocStepsSpeak
  <2>1. /\ Joins(M) /\ M \subseteq Messages /\ known' \subseteq known \cup {"power"}
        /\ UNCHANGED <<g_ctrlState, display, told>>
    BY DEF SocSpeaks, SocSays
  <2>2. \A m \in M : m \in MusicSet => m \in MusicTrue'
    BY DEF SocSpeaks, SocSays, MusicTrue, MusicSet, OKs, IsRsp
  <2>3. M \cap MusicSet # {} \/ \A x \in MusicSet : x \in MusicTrue => x \in MusicTrue'
    BY DEF SocSpeaks, SocSays, MusicTrue
  <2>4. LastIn(fromSoc', MusicSet, MusicSet, MusicTrue')
    <3>1. LinesTyped /\ Joins(M) /\ LastIn(fromSoc, MusicSet, MusicSet, MusicTrue)
      BY <2>1 DEF MusicInv, DeviceTyped
    <3> QED BY <2>2, <2>3, <3>1, LastInSpoke
  <2>5. NoneIn(fromSoc', MusicSet) <=> NoneIn(fromSoc, MusicSet) /\ M \cap MusicSet = {}
    BY <2>1, JoinedLine DEF DeviceTyped
  <2>6. M \cap MusicSet = {} => soc'.music = soc.music
    BY DEF SocSpeaks, SocSays
  <2> QED BY <2>1, <2>4, <2>5, <2>6 DEF MusicInv
<1>5. CASE SocStartsAgain \/ LineLoses \/ link_notify_power \/ UNCHANGED deviceVars
  <2>1. Silence
    BY <1>5, SilentSteps
  <2>2. soc' = soc => MusicTrue' = MusicTrue
    BY DEF MusicTrue
  <2>3. LastIn(fromSoc', MusicSet, MusicSet, MusicTrue')
    BY <2>1, <2>2, LastInSilence DEF MusicInv
  <2> QED BY <2>1, <2>3 DEF Silence, Kept, MusicInv
<1> QED BY <1>2, <1>3, <1>4, <1>5 DEF DeviceNext

LEMMA PlayingStep ==
    ASSUME DeviceConstants, DeviceTyped, PlayingInv, [DeviceNext]_deviceVars
    PROVE  PlayingInv'
<1>1. fromSoc \in Seq(Messages)
  BY DEF DeviceTyped, LinesTyped
<1>2. CASE Handler
  BY <1>2, HandlersDo DEF HandlerDoes, PlayingInv, PlayingTrue
<1>3. CASE SocCallback
  <2> DEFINE m == Head(fromSoc)
  <2>1. Heard(m) /\ PlayingHeard(m) /\ m \in Messages
    BY <1>3, CallbacksHear DEF Heard
  <2>2. fromSoc # <<>> /\ fromSoc' = Tail(fromSoc) /\ soc' = soc /\ toSoc' = toSoc
    BY <2>1 DEF Heard
  <2>3. /\ LastIn(fromSoc', PlayingSet, PlayingSet, PlayingTrue)
        /\ m \in PlayingSet /\ NoneIn(fromSoc', PlayingSet) => m \in PlayingTrue
        /\ NoneIn(fromSoc, PlayingSet) <=> m \notin PlayingSet /\ NoneIn(fromSoc', PlayingSet)
    BY <1>1, <2>2, LastInTail, NoneInTail DEF PlayingInv
  <2>4. PlayingTrue' = PlayingTrue
    BY <2>2 DEF PlayingTrue
  <2> HIDE DEF m
  <2>5. CASE m \in PlayingSet
    BY <2>1, <2>2, <2>3, <2>4, <2>5 DEF PlayingInv, PlayingHeard, PlayingTrue
  <2>6. CASE m \notin PlayingSet
    BY <2>1, <2>2, <2>3, <2>4, <2>6 DEF PlayingInv, PlayingHeard
  <2> QED BY <2>5, <2>6
<1>4. CASE SocCarriesOut \/ SocWorks \/ SocAutoStops \/ SocMusicEnds \/ SocHearsNotice
  <2> PICK M : SocSpeaks(M)
    BY <1>4, SocStepsSpeak
  <2>1. /\ Joins(M) /\ M \subseteq Messages /\ known' \subseteq known \cup {"power"}
        /\ UNCHANGED <<g_ctrlState, display, told>>
    BY DEF SocSpeaks, SocSays
  <2>2. \A m \in M : m \in PlayingSet => m \in PlayingTrue'
    BY DEF SocSpeaks, SocSays, PlayingTrue
  <2>3. M \cap PlayingSet # {} \/ \A x \in PlayingSet : x \in PlayingTrue => x \in PlayingTrue'
    BY DEF SocSpeaks, SocSays, PlayingTrue
  <2>4. LastIn(fromSoc', PlayingSet, PlayingSet, PlayingTrue')
    <3>1. LinesTyped /\ Joins(M) /\ LastIn(fromSoc, PlayingSet, PlayingSet, PlayingTrue)
      BY <2>1 DEF PlayingInv, DeviceTyped
    <3> QED BY <2>2, <2>3, <3>1, LastInSpoke
  <2>5. NoneIn(fromSoc', PlayingSet) <=> NoneIn(fromSoc, PlayingSet) /\ M \cap PlayingSet = {}
    BY <2>1, JoinedLine DEF DeviceTyped
  <2>6. M \cap PlayingSet = {} => soc'.playing = soc.playing
    BY DEF SocSpeaks, SocSays
  <2> QED BY <2>1, <2>4, <2>5, <2>6 DEF PlayingInv
<1>5. CASE SocStartsAgain \/ LineLoses \/ link_notify_power \/ UNCHANGED deviceVars
  <2>1. Silence
    BY <1>5, SilentSteps
  <2>2. soc' = soc => PlayingTrue' = PlayingTrue
    BY DEF PlayingTrue
  <2>3. LastIn(fromSoc', PlayingSet, PlayingSet, PlayingTrue')
    BY <2>1, <2>2, LastInSilence DEF PlayingInv
  <2> QED BY <2>1, <2>3 DEF Silence, Kept, PlayingInv
<1> QED BY <1>2, <1>3, <1>4, <1>5 DEF DeviceNext

---------------------------------------------------------------------------
\* How many requests and answers are under way
UnderWay == /\ InFlight = Number(toSoc, Requests) + Number(fromSoc, Responses)
            /\ Number(toSoc, Requests) \in Nat /\ Number(fromSoc, Responses) \in Nat
LEMMA InFlightIs == (LinesTyped => UnderWay) /\ (LinesTyped' => UnderWay')
<1>1. ASSUME NEW q \in Seq(Requests \cup Notices)
      PROVE  {k \in DOMAIN q : IsRequest(q[k])} = Places(q, Requests)
  BY RequestTyped, ElementOfSeq, LenProperties DEF Places
<1>2. ASSUME NEW q \in Seq(Messages)
      PROVE  {k \in DOMAIN q : IsRsp(q[k])} = Places(q, Responses)
  BY MessageTyped, ElementOfSeq, LenProperties DEF Places
<1>3. \A S : \A q \in Seq(S) : \A Z : Number(q, Z) \in Nat
  BY PlacesAreFinite
<1> QED BY <1>1, <1>2, <1>3 DEF InFlight, Number, LinesTyped, UnderWay

\* The lines and the number under way after each kind of step
LEMMA HandlerSends ==
    ASSUME DeviceTyped, HandlerDoes
    PROVE  /\ LinesTyped'
           /\ \/ toSoc' = toSoc /\ InFlight' = InFlight
              \/ \E r \in Requests : RequestSent(r) /\ InFlight' = InFlight + 1
<1>1. /\ toSoc \in Seq(Requests \cup Notices) /\ fromSoc \in Seq(Messages)
      /\ UNCHANGED <<fromSoc, env>> /\ env \in Envs /\ cmds' \in Nat
  BY DEF DeviceTyped, LinesTyped, HandlerDoes
<1>2. CASE toSoc' = toSoc
  BY <1>1, <1>2 DEF LinesTyped, InFlight
<1>3. ASSUME NEW r \in Requests, RequestSent(r)
      PROVE  LinesTyped' /\ InFlight' = InFlight + 1
  <2>1. toSoc' = Append(toSoc, r) /\ r \in Requests \cup Notices
    BY <1>3 DEF RequestSent
  <2>2. LinesTyped'
    BY <1>1, <2>1, AppendToLine DEF LinesTyped
  <2>3. Number(toSoc', Requests) = Number(toSoc, Requests) + 1
    BY <1>1, <2>1, NumberAppend
  <2>4. InFlight' = Number(toSoc', Requests) + Number(fromSoc', Responses)
    BY <2>2, InFlightIs DEF UnderWay
  <2> QED BY <1>1, <2>2, <2>3, <2>4, InFlightIs DEF DeviceTyped, UnderWay
<1> QED BY <1>2, <1>3 DEF HandlerDoes

\* A line with one message less
LEMMA FewerUnderWay ==
    ASSUME DeviceTyped, env' = env, cmds' = cmds,
           \/ toSoc' = toSoc
           \/ toSoc' = <<>>
           \/ toSoc # <<>> /\ toSoc' = Tail(toSoc)
           \/ \E r \in Notices : toSoc' = Append(toSoc, r),
           \/ fromSoc' = fromSoc
           \/ fromSoc' = <<>>
           \/ fromSoc # <<>> /\ fromSoc' = Tail(fromSoc)
    PROVE  LinesTyped' /\ InFlight' <= InFlight
<1>1. LinesTyped /\ toSoc \in Seq(Requests \cup Notices) /\ fromSoc \in Seq(Messages)
  BY DEF DeviceTyped, LinesTyped
<1>2. toSoc' \in Seq(Requests \cup Notices) /\ Number(toSoc', Requests) <= Number(toSoc, Requests)
  <2>1. CASE toSoc' = toSoc
    BY <1>1, <2>1, InFlightIs DEF UnderWay
  <2>2. CASE toSoc' = <<>>
    BY <1>1, <2>2, InFlightIs, NumberOfEmpty DEF UnderWay
  <2>3. CASE toSoc # <<>> /\ toSoc' = Tail(toSoc)
    <3>1. Tail(toSoc) \in Seq(Requests \cup Notices) /\ Number(Tail(toSoc), Requests) \in Nat
      BY <1>1, <2>3, TailOfLine, PlacesAreFinite
    <3> QED BY <1>1, <2>3, <3>1, NumberTail
  <2>4. ASSUME NEW r \in Notices, toSoc' = Append(toSoc, r)
        PROVE  toSoc' \in Seq(Requests \cup Notices)
               /\ Number(toSoc', Requests) <= Number(toSoc, Requests)
    <3>1. r \notin Requests
      BY RequestTyped DEF Notices
    <3>2. Append(toSoc, r) \in Seq(Requests \cup Notices)
      BY <1>1, AppendToLine
    <3>3. Number(Append(toSoc, r), Requests) = Number(toSoc, Requests) + 0
      BY <1>1, <3>1, NumberAppend
    <3> QED BY <1>1, <2>4, <3>2, <3>3, InFlightIs DEF UnderWay
  <2> QED BY <2>1, <2>2, <2>3, <2>4
<1>3. fromSoc' \in Seq(Messages) /\ Number(fromSoc', Responses) <= Number(fromSoc, Responses)
  <2>1. CASE fromSoc' = fromSoc
    BY <1>1, <2>1, InFlightIs DEF UnderWay
  <2>2. CASE fromSoc' = <<>>
    BY <1>1, <2>2, InFlightIs, NumberOfEmpty DEF UnderWay
  <2>3. CASE fromSoc # <<>> /\ fromSoc' = Tail(fromSoc)
    <3>1. Tail(fromSoc) \in Seq(Messages) /\ Number(Tail(fromSoc), Responses) \in Nat
      BY <1>1, <2>3, TailOfLine, PlacesAreFinite
    <3> QED BY <1>1, <2>3, <3>1, NumberTail
  <2> QED BY <2>1, <2>2, <2>3
<1>4. LinesTyped'
  BY <1>1, <1>2, <1>3 DEF LinesTyped
<1>5. /\ InFlight' = Number(toSoc', Requests) + Number(fromSoc', Responses)
      /\ Number(toSoc', Requests) \in Nat /\ Number(fromSoc', Responses) \in Nat
  BY <1>4, InFlightIs DEF UnderWay
<1> QED BY <1>1, <1>2, <1>3, <1>4, <1>5, InFlightIs DEF UnderWay

\* The steps of the SOC: an answer takes the place of its request.
LEMMA SocStepsType ==
    ASSUME DeviceTyped, NEW M, SocSays(M),
           \/ \E r \in Requests, st \in {"ok", "short", "refused"} : 
                AnswersTo(r, st) /\ M = {ResponseTo(r, st, soc')} \cup WorkTold
           \/ OnItsOwn(M) \/ HearsNotice(M)
    PROVE  LinesTyped' /\ InFlight' <= InFlight
<1>1. LinesTyped /\ toSoc \in Seq(Requests \cup Notices) /\ fromSoc \in Seq(Messages)
  BY DEF DeviceTyped, LinesTyped
<1>2. fromSoc' \in Seq(Messages)
  BY <1>1, JoinedLine DEF SocSays
<1>3. UNCHANGED <<cmds, env>>
  BY DEF SocSays
<1>4. CASE OnItsOwn(M)
  <2>1. M \cap Responses = {} /\ toSoc' = toSoc
    BY <1>4, MessageTyped DEF OnItsOwn, Events, Messages, Responses
  <2>2. LinesTyped' /\ Number(fromSoc', Responses) = Number(fromSoc, Responses)
    BY <1>1, <1>2, <1>3, <2>1, JoinedLine DEF SocSays, LinesTyped
  <2>3. InFlight' = Number(toSoc', Requests) + Number(fromSoc', Responses)
    BY <2>2, InFlightIs DEF UnderWay
  <2> QED BY <1>1, <2>1, <2>2, <2>3, InFlightIs DEF UnderWay
<1>5. CASE HearsNotice(M)
  <2>1. /\ M \cap Responses = {} /\ toSoc # <<>> /\ toSoc' = Tail(toSoc)
        /\ Head(toSoc) \notin Requests
    BY <1>5, RequestTyped DEF HearsNotice, Events, Messages, Responses, Notices
  <2>2. toSoc' \in Seq(Requests \cup Notices)
        /\ Number(toSoc, Requests) = Number(toSoc', Requests) + 0
    BY <1>1, <2>1, TailOfLine, NumberTail
  <2>3. LinesTyped' /\ Number(fromSoc', Responses) = Number(fromSoc, Responses)
    BY <1>1, <1>2, <1>3, <2>1, <2>2, JoinedLine DEF SocSays, LinesTyped
  <2>4. /\ InFlight' = Number(toSoc', Requests) + Number(fromSoc', Responses)
        /\ Number(toSoc', Requests) \in Nat /\ Number(fromSoc', Responses) \in Nat
    BY <2>3, InFlightIs DEF UnderWay
  <2> QED BY <1>1, <2>1, <2>2, <2>3, <2>4, InFlightIs DEF UnderWay
<1>6. ASSUME NEW r \in Requests, NEW st \in {"ok", "short", "refused"}, AnswersTo(r, st),
             M = {ResponseTo(r, st, soc')} \cup WorkTold
      PROVE  LinesTyped' /\ InFlight' = InFlight
  <2>1. ResponseTo(r, st, soc') \in Responses /\ WorkTold \cap Responses = {}
    BY ToldFields, MessageTyped DEF Responses, ResponseTo, SocSays
  <2>2. M \cap Responses = {ResponseTo(r, st, soc')}
    BY <1>6, <2>1
  <2>3. toSoc' \in Seq(Requests \cup Notices)
        /\ Number(toSoc, Requests) = Number(toSoc', Requests) + 1
    BY <1>1, <1>6, TailOfLine, NumberTail DEF AnswersTo
  <2>4. LinesTyped' /\ Number(fromSoc', Responses) = Number(fromSoc, Responses) + 1
    <3>1. Joins(M)
      BY DEF SocSays
    <3>2. Number(fromSoc', Responses) = Number(fromSoc, Responses) + 1
      BY <1>1, <2>2, <3>1, JoinedLine
    <3>3. LinesTyped'
      BY <1>1, <1>2, <1>3, <2>3 DEF LinesTyped
    <3> QED BY <3>2, <3>3
  <2>5. /\ InFlight' = Number(toSoc', Requests) + Number(fromSoc', Responses)
        /\ Number(toSoc', Requests) \in Nat /\ Number(fromSoc', Responses) \in Nat
    BY <2>4, InFlightIs DEF UnderWay
  <2> QED BY <1>1, <2>3, <2>4, <2>5, InFlightIs DEF UnderWay
<1>7. InFlight \in Nat
  BY <1>1, InFlightIs DEF UnderWay
<1> QED BY <1>4, <1>5, <1>6, <1>7

LEMMA TypedStep ==
    ASSUME DeviceConstants, DeviceTyped, [DeviceNext]_deviceVars
    PROVE  DeviceTyped'
<1>1. InFlight <= PendingMax /\ InFlight \in Nat /\ PendingMax \in Nat
  BY InFlightIs DEF DeviceTyped, SettingsTyped, DeviceConstants, UnderWay
<1>2. LinesTyped' => InFlight' \in Nat
  BY InFlightIs DEF UnderWay
<1>3. CASE Handler
  <2>1. HandlerDoes
    BY <1>3, HandlersDo
  <2>2. LinesTyped' /\ InFlight' <= PendingMax
    BY <1>1, <2>1, HandlerSends DEF RequestSent
  <2> QED BY <2>1, <2>2 DEF HandlerDoes, DeviceTyped, SettingsTyped
<1>4. CASE SocCallback
  <2>1. Heard(Head(fromSoc))
    BY <1>4, CallbacksHear
  <2>2. LinesTyped' /\ InFlight' <= InFlight
    BY <2>1, FewerUnderWay DEF Heard
  <2>3. InFlight' <= PendingMax
    BY <1>1, <1>2, <2>2
  <2> QED BY <2>1, <2>2, <2>3 DEF Heard, TypedAfter, Fields, DeviceTyped, SettingsTyped
<1>5. CASE SocCarriesOut \/ SocWorks \/ SocAutoStops \/ SocMusicEnds \/ SocHearsNotice
  <2>1. LinesTyped' /\ InFlight' <= InFlight
    <3>1. CASE SocCarriesOut
      BY <3>1, AnswersAreTrue, SocStepsType DEF AnswersTo
    <3>2. CASE SocWorks \/ SocAutoStops \/ SocMusicEnds
      BY <3>2, WorkIsTold, RecordingIsTold, EndOfMusicIsTold, SocStepsType DEF OnItsOwn
    <3>3. CASE SocHearsNotice
      BY <3>3, NoticeIsHeard, SocStepsType DEF HearsNotice
    <3> QED BY <1>5, <3>1, <3>2, <3>3
  <2>2. InFlight' <= PendingMax
    BY <1>1, <1>2, <2>1
  <2> PICK M : SocSpeaks(M)
    BY <1>5, SocStepsSpeak
  <2> QED BY <2>1, <2>2 DEF SocSpeaks, SocSays, DeviceTyped, SettingsTyped
<1>6. CASE SocStartsAgain \/ LineLoses \/ link_notify_power \/ UNCHANGED deviceVars
  <2>1. Silence /\ SilenceToSoc
    BY <1>6, SilentSteps, SilentToSoc
  <2>2. LinesTyped' /\ InFlight' <= InFlight
    BY <2>1, FewerUnderWay DEF Silence, SilenceToSoc
  <2>3. InFlight' <= PendingMax
    BY <1>1, <1>2, <2>2
  <2> QED BY <2>1, <2>2, <2>3 DEF Silence, DeviceTyped, SettingsTyped
<1> QED BY <1>3, <1>4, <1>5, <1>6 DEF DeviceNext

LEMMA PowerStep ==
    ASSUME DeviceConstants, DeviceTyped, PowerInv, [DeviceNext]_deviceVars
    PROVE  PowerInv'
<1> DEFINE N(q) == \A k \in DOMAIN q : ~IsRequest(q[k]) =>
                     /\ q[k].at <= cmds
                     /\ q[k].at = cmds =>
                          /\ q[k].arg = g_ctrlState.power
                          /\ \A l \in DOMAIN q : k < l => ~IsRequest(q[l])
                     /\ \A l \in DOMAIN q : ~IsRequest(q[l]) => k = l
           P(q) == \A k \in DOMAIN q :
                     /\ q[k].cmd # "POWER_CTRL"
                     /\ ~IsRequest(q[k]) => q[k].arg = g_ctrlState.power
<1>1. /\ toSoc \in Seq(Requests \cup Notices) /\ cmds \in Nat
      /\ g_ctrlState.power \in 0..1 /\ N(toSoc)
      /\ "power" \in known => (g_ctrlState.power = 1 <=> soc.work # 0) /\ P(toSoc)
  BY DEF DeviceTyped, SettingsTyped, LinesTyped, CopyStates, PowerInv
<1>2. toSoc # <<>> => /\ N(Tail(toSoc)) /\ (P(toSoc) => P(Tail(toSoc)))
                      /\ Head(toSoc) = toSoc[1] /\ 1 \in DOMAIN toSoc
  <2> SUFFICES ASSUME toSoc # <<>>
               PROVE  N(Tail(toSoc)) /\ (P(toSoc) => P(Tail(toSoc)))
    BY <1>1, TailOfLine
  <2>1. /\ DOMAIN Tail(toSoc) \subseteq Int
        /\ \A k \in DOMAIN Tail(toSoc) : k + 1 \in DOMAIN toSoc /\ Tail(toSoc)[k] = toSoc[k + 1]
    <3>1. Tail(toSoc) \in Seq(Requests \cup Notices)
      BY <1>1, TailOfLine
    <3> QED BY <1>1, <3>1, TailOfLine, LenProperties
  <2> DEFINE q == Tail(toSoc)
  <2> HIDE DEF q
  <2>2. \A k, l \in DOMAIN q : (k < l => k + 1 < l + 1) /\ (k + 1 = l + 1 => k = l)
    BY <2>1 DEF q
  <2>3. N(q)
    BY <1>1, <2>1, <2>2 DEF q
  <2>4. P(toSoc) => P(q)
    BY <2>1 DEF q
  <2> QED BY <2>3, <2>4 DEF q
<1>3. CASE Handler
  <2>1. HandlerDoes
    BY <1>3, HandlersDo
  <2>2. \A k \in DOMAIN toSoc : ~IsRequest(toSoc[k]) => toSoc[k].at \in Nat
    BY <1>1, RequestTyped, ElementOfSeq, LenProperties
  <2>3. CASE toSoc' = toSoc
    <3>1. N(toSoc)'
      BY <1>1, <2>1, <2>2, <2>3 DEF HandlerDoes
    <3> QED BY <1>1, <2>1, <2>3, <3>1 DEF HandlerDoes, PowerInv
  <2>4. ASSUME NEW r \in Requests, RequestSent(r) PROVE PowerInv'
    <3>1. /\ toSoc' = Append(toSoc, r) /\ IsRequest(r)
          /\ DOMAIN toSoc' = (DOMAIN toSoc) \cup {Len(toSoc) + 1} /\ toSoc'[Len(toSoc) + 1] = r
          /\ \A k \in DOMAIN toSoc : toSoc'[k] = toSoc[k]
      <4>1. r \in Requests \cup Notices /\ IsRequest(r) /\ toSoc' = Append(toSoc, r)
        BY <2>4, RequestTyped DEF RequestSent
      <4> QED BY <1>1, <4>1, AppendToLine
    <3>2. N(toSoc)'
      BY <1>1, <2>1, <2>2, <3>1 DEF HandlerDoes
    <3>3. ASSUME "power" \in known'
          PROVE  P(toSoc)' /\ (g_ctrlState'.power = 1 <=> soc'.work # 0)
      <4>1. /\ "power" \in known /\ UNCHANGED soc
            /\ g_ctrlState'.power = g_ctrlState.power /\ r.cmd # "POWER_CTRL"
        BY <2>1, <2>4, <3>3 DEF HandlerDoes, RequestSent
      <4>2. P(toSoc) /\ (g_ctrlState.power = 1 <=> soc.work # 0)
        BY <1>1, <4>1
      <4> QED BY <3>1, <4>1, <4>2
    <3> QED BY <3>2, <3>3 DEF PowerInv
  <2> QED BY <2>1, <2>3, <2>4 DEF HandlerDoes
<1>4. CASE SocCallback
  <2>1. Heard(Head(fromSoc))
    BY <1>4, CallbacksHear
  <2> QED BY <1>1, <2>1 DEF Heard, PowerHeard, PowerInv
<1>5. CASE SocCarriesOut
  <2> PICK r \in Requests, st \in {"ok", "short", "refused"} : AnswersTo(r, st)
    BY <1>5, AnswersAreTrue
  <2>1. /\ toSoc # <<>> /\ toSoc' = Tail(toSoc) /\ r = Head(toSoc)
        /\ known' \subseteq known /\ UNCHANGED <<cmds, g_ctrlState>>
        /\ r.cmd \notin {"POWER_CTRL", "LINK_NOTIFY"} => soc'.work = soc.work
    BY DEF AnswersTo, SocSays, Took
  <2>2. r.cmd # "LINK_NOTIFY"
    BY RequestTyped
  <2> QED BY <1>1, <1>2, <2>1, <2>2 DEF PowerInv
<1>6. CASE SocWorks \/ SocAutoStops \/ SocMusicEnds
  <2> PICK M : OnItsOwn(M)
    BY <1>6, WorkIsTold, RecordingIsTold, EndOfMusicIsTold
  <2>1. UNCHANGED <<toSoc, known, cmds, g_ctrlState>> /\ (soc'.work = 0 <=> soc.work = 0)
    BY DEF OnItsOwn, SocSays
  <2> QED BY <1>1, <2>1 DEF PowerInv
<1>7. CASE SocHearsNotice
  <2> DEFINE r == Head(toSoc)
  <2>1. /\ toSoc # <<>> /\ toSoc' = Tail(toSoc) /\ r \in Notices
        /\ UNCHANGED <<cmds, g_ctrlState>> /\ (soc'.work = 0 <=> r.arg = 0)
        /\ known' = known \cup (IF r.at = cmds THEN {"power"} ELSE {})
    BY <1>7, NoticeIsHeard DEF HearsNotice, SocSays
  <2>2. r = toSoc[1] /\ 1 \in DOMAIN toSoc /\ ~IsRequest(r) /\ r.arg \in 0..1
    BY <1>2, <2>1 DEF Notices, IsRequest
  <2>3. "power" \in known' => r.arg = g_ctrlState.power
    BY <1>1, <2>1, <2>2
  <2>4. r.at = cmds => Tail(toSoc) = <<>>
    <3>1. ASSUME r.at = cmds, NEW l \in DOMAIN toSoc, l # 1 PROVE FALSE
      <4>1. 1 < l
        BY <1>1, <3>1, LenProperties
      <4>2. IsRequest(toSoc[l]) /\ ~IsRequest(toSoc[l])
        BY <1>1, <2>2, <3>1, <4>1
      <4> QED BY <4>2
    <3>2. ASSUME r.at = cmds, Tail(toSoc) # <<>> PROVE FALSE
      <4>1. Tail(toSoc) \in Seq(Requests \cup Notices)
        BY <1>1, <2>1, TailOfLine
      <4>2. 1 \in DOMAIN Tail(toSoc)
        BY <3>2, <4>1, TailOfLine
      <4>3. 1 + 1 \in DOMAIN toSoc
        BY <1>1, <2>1, <4>2, TailOfLine
      <4> QED BY <3>1, <3>2, <4>3
    <3> QED BY <3>2
  <2>5. "power" \in known' => P(Tail(toSoc))
    <3>1. Tail(toSoc) = <<>> => P(Tail(toSoc))
      OBVIOUS
    <3> QED BY <1>1, <1>2, <2>1, <2>4, <3>1
  <2> HIDE DEF r
  <2> QED BY <1>1, <1>2, <2>1, <2>2, <2>3, <2>5 DEF PowerInv
<1>8. CASE SocStartsAgain \/ LineLoses \/ link_notify_power \/ UNCHANGED deviceVars
  <2>1. Silence /\ SilenceToSoc
    BY <1>8, SilentSteps, SilentToSoc
  <2>2. UNCHANGED <<g_ctrlState, cmds>> /\ known' \subseteq known
    BY <2>1 DEF Silence
  <2>3. CASE toSoc' = toSoc /\ soc' = soc
    BY <1>1, <2>2, <2>3 DEF PowerInv
  <2>4. CASE toSoc' = <<>> /\ "power" \notin known'
    BY <2>4 DEF PowerInv
  <2>5. CASE toSoc # <<>> /\ toSoc' = Tail(toSoc) /\ soc' = soc
    BY <1>1, <1>2, <2>2, <2>5 DEF PowerInv
  <2>6. ASSUME soc' = soc, NoneIn(toSoc, Notices), NEW r \in Notices,
               toSoc' = Append(toSoc, r), r.at = cmds, r.arg = g_ctrlState.power
        PROVE  PowerInv'
    <3>1. /\ DOMAIN toSoc' = (DOMAIN toSoc) \cup {Len(toSoc) + 1} /\ toSoc'[Len(toSoc) + 1] = r
          /\ \A k \in DOMAIN toSoc : /\ toSoc'[k] = toSoc[k] /\ IsRequest(toSoc[k])
                                     /\ k \in Nat /\ k <= Len(toSoc)
      <4>1. r \in Requests \cup Notices
        OBVIOUS
      <4>2. \A k \in DOMAIN toSoc : IsRequest(toSoc[k])
        BY <1>1, <2>6, RequestTyped, ElementOfSeq, LenProperties DEF NoneIn
      <4> QED BY <1>1, <2>6, <4>1, <4>2, AppendToLine
    <3>2. ~IsRequest(r) /\ r.cmd # "POWER_CTRL" /\ Len(toSoc) \in Nat
      BY <1>1, LenProperties DEF Notices, IsRequest
    <3>3. N(toSoc)'
      BY <1>1, <2>2, <2>6, <3>1, <3>2
    <3>4. "power" \in known' => P(toSoc)' /\ (g_ctrlState'.power = 1 <=> soc'.work # 0)
      BY <1>1, <2>2, <2>6, <3>1, <3>2
    <3> QED BY <3>3, <3>4 DEF PowerInv
  <2> QED BY <2>1, <2>3, <2>4, <2>5, <2>6 DEF SilenceToSoc
<1> QED BY <1>3, <1>4, <1>5, <1>6, <1>7, <1>8 DEF DeviceNext

\* A SOC that refuses nothing accepts every request about the mode.
LEMMA ModeAccepted ==
    ASSUME NEW r \in Requests, r.cmd \in ModeCommands
    PROVE  Accepted(r) # {}
<1>1. CASE r.cmd = "CALM_MODE_SET"
  BY <1>1 DEF Accepted
<1>2. CASE r.cmd = "STRATEGY_SET"
  BY <1>2 DEF Accepted
<1>3. CASE r.cmd = "FACTORY_RESET"
  BY <1>3 DEF Accepted
<1>4. CASE r.cmd \in {"CALM_MODE_GET", "STATUS_GET", "STRATEGY_GET"}
  BY <1>4 DEF Accepted
<1> QED BY <1>1, <1>2, <1>3, <1>4 DEF ModeCommands

ModeTold == Told({"CALM_MODE_SET", "CALM_MODE_GET", "STATUS_GET", "STRATEGY_SET"})

\* The callbacks
LEMMA ModeCallback ==
    ASSUME DeviceTyped, ModeInv, Heard(Head(fromSoc)), Head(fromSoc) \in Messages,
           LinesTyped', InFlight' <= InFlight
    PROVE  ModeInv'
<1> DEFINE m == Head(fromSoc)
<1>1. /\ LinesTyped /\ fromSoc \in Seq(Messages) /\ toSoc \in Seq(Requests \cup Notices)
      /\ fromSoc # <<>> /\ fromSoc' = Tail(fromSoc) /\ m \in Messages
      /\ UNCHANGED <<toSoc, soc>> /\ ModeHeard(m) /\ StrategyHeard(m)
      /\ ~IsRsp(m) => told' = told \/ told'.cmd \in {"REC_STOP", "none"}
  BY DEF DeviceTyped, LinesTyped, Heard
<1>2. \A Z : NoneIn(fromSoc, Z) <=> m \notin Z /\ NoneIn(fromSoc', Z)
  BY <1>1, NoneInTail
<1>3. IsRsp(m) => NoneIn(toSoc, Requests) /\ NoneIn(fromSoc', Responses)
  <2> SUFFICES ASSUME IsRsp(m) PROVE NoneIn(toSoc, Requests) /\ NoneIn(fromSoc', Responses)
    OBVIOUS
  <2>1. m \in Responses
    BY <1>1, MessageTyped
  <2>2. Number(fromSoc, Responses) = Number(fromSoc', Responses) + 1
    BY <1>1, <2>1, NumberTail
  <2>3. /\ Number(toSoc, Requests) + Number(fromSoc, Responses) <= 1
        /\ Number(toSoc, Requests) \in Nat
        /\ Number(fromSoc', Responses) \in Nat
    BY <1>1, InFlightIs DEF UnderWay, ModeInv
  <2>4. Number(toSoc, Requests) = 0 /\ Number(fromSoc', Responses) = 0
    BY <2>2, <2>3
  <2>5. fromSoc' \in Seq(Messages)
    BY DEF LinesTyped
  <2> QED BY <1>1, <2>4, <2>5, NumberOfNone
<1>4. IsRsp(m) => ResponsePresumed(m)
  BY <1>1, <1>2, MessageTyped DEF ModeInv
<1>5. InFlight' <= 1
  BY <1>1, InFlightIs DEF UnderWay, ModeInv
<1> HIDE DEF m
<1>6. CASE ~IsRsp(m)
  <2>1. /\ g_ctrlState'.mode = g_ctrlState.mode /\ Copied' = Copied
        /\ shownMode' = shownMode
        /\ "mode" \in known' => "mode" \in known
        /\ "strategy" \in known' => "strategy" \in known
        /\ ModeTold' => ModeTold /\ told' = told
    BY <1>1, <1>6 DEF ModeHeard, StrategyHeard, OKs, ModeTold, Told
  <2>2. \A r : RequestPresumed(r)' <=> RequestPresumed(r)
    BY <2>1 DEF RequestPresumed
  <2>3. \A x : ResponsePresumed(x)' <=> ResponsePresumed(x)
    BY <1>1, <2>1 DEF ResponsePresumed
  <2>4. m \notin ModeSet /\ m \notin StrategySet
    BY <1>6 DEF ModeSet, StrategySet, OKs
  <2>5. NoneIn(toSoc', {r \in Requests : ~RequestPresumed(r)'})
    BY <1>1, <2>2 DEF ModeInv, NoneIn
  <2>6. NoneIn(fromSoc', {x \in Responses : ~ResponsePresumed(x)'})
    <3>1. NoneIn(fromSoc', {x \in Responses : ~ResponsePresumed(x)})
      BY <1>2 DEF ModeInv
    <3> QED BY <2>3, <3>1 DEF NoneIn
  <2> QED BY <1>1, <1>2, <1>5, <2>1, <2>4, <2>5, <2>6 DEF ModeInv, ModeTold
<1>7. CASE IsRsp(m)
  <2>1. NoneIn(toSoc', {r \in Requests : ~RequestPresumed(r)'})
    BY <1>1, <1>3, <1>7 DEF NoneIn
  <2>2. NoneIn(fromSoc', {x \in Responses : ~ResponsePresumed(x)'})
    BY <1>3, <1>7 DEF NoneIn
  <2>3. ASSUME "mode" \in known', NoneIn(fromSoc', ModeSet)
        PROVE  /\ g_ctrlState'.mode = soc.mode
               /\ ModeTold' => told'.what.mode = soc.mode
    <3>1. g_ctrlState'.mode = soc.mode
      <4>1. CASE m \in OKs({"STATUS_GET", "CALM_MODE_GET"})
        BY <1>1, <1>4, <1>7, <4>1 DEF ModeHeard, ResponsePresumed
      <4>2. CASE m \in OKs({"FACTORY_RESET"})
        BY <1>1, <1>4, <1>7, <4>2 DEF ModeHeard, ResponsePresumed, OKs
      <4>3. CASE m \notin OKs({"STATUS_GET", "CALM_MODE_GET", "FACTORY_RESET"})
        <5>1. CASE m.cmd \in {"CALM_MODE_SET", "STRATEGY_SET"}
          BY <1>1, <1>4, <1>7, <4>3, <5>1 DEF ModeHeard, ResponsePresumed
        <5>2. CASE m.cmd \notin {"CALM_MODE_SET", "STRATEGY_SET"}
          <6>1. m \notin ModeSet /\ "mode" \in known /\ g_ctrlState'.mode = g_ctrlState.mode
            BY <1>1, <2>3, <4>3, <5>2 DEF ModeHeard, ModeSet, OKs
          <6> QED BY <1>2, <2>3, <6>1 DEF ModeInv
        <5> QED BY <5>1, <5>2
      <4> QED BY <4>1, <4>2, <4>3 DEF OKs
    <3>2. ModeTold' => told'.what.mode = IF m.cmd = "STRATEGY_SET" THEN m.arg.mode
                                                                  ELSE g_ctrlState'.mode
      BY <1>1, <1>7 DEF ModeHeard, ModeTold
    <3>3. m.cmd = "STRATEGY_SET" => m.arg.mode = soc.mode
      BY <1>4, <1>7 DEF ResponsePresumed
    <3> QED BY <3>1, <3>2, <3>3
  <2>4. ASSUME "strategy" \in known', NoneIn(fromSoc', StrategySet)
        PROVE  Copied' = soc.strategy[shownMode']
    <3>1. CASE m \in OKs({"STRATEGY_GET"})
      BY <1>1, <1>4, <1>7, <3>1 DEF StrategyHeard, ResponsePresumed
    <3>2. CASE m \in OKs({"FACTORY_RESET"})
      <4>1. soc.strategy[0] = DefaultStrategy
        BY <1>4, <1>7, <3>2 DEF ResponsePresumed, OKs, Modes
      <4> QED BY <1>1, <3>2, <4>1 DEF StrategyHeard
    <3>3. CASE m \notin OKs({"STRATEGY_GET", "FACTORY_RESET"})
      <4>1. CASE m.cmd = "STRATEGY_SET"
        BY <1>1, <1>4, <1>7, <3>3, <4>1 DEF StrategyHeard, ResponsePresumed
      <4>2. CASE m.cmd # "STRATEGY_SET"
        <5>1. /\ m \notin StrategySet /\ "strategy" \in known
              /\ Copied' = Copied /\ shownMode' = shownMode
          BY <1>1, <2>4, <3>3, <4>2 DEF StrategyHeard, StrategySet, OKs
        <5> QED BY <1>2, <2>4, <5>1 DEF ModeInv
      <4> QED BY <4>1, <4>2
    <3> QED BY <3>1, <3>2, <3>3 DEF OKs
  <2> QED BY <1>1, <1>5, <2>1, <2>2, <2>3, <2>4 DEF ModeInv, ModeTold
<1> QED BY <1>6, <1>7

\* The answers of a SOC that refuses nothing
LEMMA ModeAnswer ==
    ASSUME DeviceTyped, ModeInv, ~env.refusals, LinesTyped', InFlight' <= InFlight,
           NEW r \in Requests, NEW st \in {"ok", "short", "refused"}, AnswersTo(r, st)
    PROVE  ModeInv'
<1> PICK a : a = ResponseTo(r, st, soc')
  OBVIOUS
<1> DEFINE M == {a} \cup WorkTold
<1>1. /\ LinesTyped /\ toSoc \in Seq(Requests \cup Notices) /\ fromSoc \in Seq(Messages)
      /\ toSoc # <<>> /\ r = Head(toSoc) /\ toSoc' = Tail(toSoc)
      /\ known' \subseteq known /\ UNCHANGED <<g_ctrlState, shownMode, told>>
      /\ M \subseteq Messages /\ Joins(M)
  BY DEF DeviceTyped, LinesTyped, AnswersTo, SocSays
<1>2. /\ st = "refused" => soc' = soc /\ Accepted(r) = {}
      /\ st # "refused" => Took(r, soc') /\ (st = "short" => r.cmd = "REC_STOP")
  BY DEF AnswersTo
<1>3. /\ a.kind = "rsp" /\ a.cmd = r.cmd /\ a.arg = r.arg /\ a.st = st /\ a.soc = soc'
      /\ \A m \in WorkTold : m.kind = "work"
  BY ToldFields
<1>4. r.cmd \in ModeCommands => st = "ok" /\ Took(r, soc')
  BY <1>2, ModeAccepted DEF ModeCommands
<1>5. NoneIn(toSoc', Requests) /\ NoneIn(fromSoc, Responses)
  <2>1. Number(toSoc, Requests) = Number(toSoc', Requests) + 1
    BY <1>1, NumberTail
  <2>2. /\ Number(toSoc, Requests) + Number(fromSoc, Responses) <= 1
        /\ Number(fromSoc, Responses) \in Nat
        /\ Number(toSoc', Requests) \in Nat
    BY <1>1, InFlightIs DEF UnderWay, ModeInv
  <2>3. Number(toSoc', Requests) = 0 /\ Number(fromSoc, Responses) = 0
    BY <2>1, <2>2
  <2>4. toSoc' \in Seq(Requests \cup Notices)
    BY DEF LinesTyped
  <2> QED BY <1>1, <2>3, <2>4, NumberOfNone
<1>6. InFlight' <= 1
  BY <1>1, InFlightIs DEF UnderWay, ModeInv
<1>7. RequestPresumed(r)
  BY <1>1, TailOfLine DEF ModeInv, NoneIn
<1>8. ResponsePresumed(a)'
  <2>1. r.cmd = "CALM_MODE_SET" => g_ctrlState'.mode = soc'.mode
    BY <1>1, <1>4, <1>7 DEF RequestPresumed, Took, ModeCommands
  <2>2. r.cmd = "STRATEGY_SET" => /\ g_ctrlState'.mode = soc'.mode /\ r.arg.mode = soc'.mode
                                  /\ Copied' = soc'.strategy[shownMode']
    BY <1>1, <1>4, <1>7 DEF RequestPresumed, Took, ModeCommands, Copied
  <2>3. r.cmd = "FACTORY_RESET" =>
          soc'.mode = 0 /\ soc'.strategy = [x \in Modes |-> DefaultStrategy]
    BY <1>4 DEF Took, ModeCommands
  <2> QED BY <1>3, <1>4, <2>1, <2>2, <2>3 DEF ResponsePresumed
<1>9. NoneIn(toSoc', {x \in Requests : ~RequestPresumed(x)'})
  BY <1>5 DEF NoneIn
<1>10. NoneIn(fromSoc', {m \in Responses : ~ResponsePresumed(m)'})
  <2> DEFINE Z == {m \in Responses : ~ResponsePresumed(m)'}
  <2>1. NoneIn(fromSoc, Z)
    BY <1>5 DEF NoneIn
  <2>2. M \cap Z = {}
    BY <1>1, <1>3, <1>8, MessageTyped DEF IsRsp
  <2> HIDE DEF Z
  <2>3. NoneIn(fromSoc', Z)
    BY <1>1, <2>1, <2>2, JoinedLine
  <2> QED BY <2>3 DEF Z
<1>11. ASSUME "mode" \in known', NoneIn(fromSoc', ModeSet)
       PROVE  soc'.mode = soc.mode /\ NoneIn(fromSoc, ModeSet)
  <2>1. NoneIn(fromSoc, ModeSet) /\ a \notin ModeSet
    BY <1>1, <1>11, JoinedLine
  <2>2. r.cmd \notin {"CALM_MODE_SET", "STRATEGY_SET", "FACTORY_RESET"}
    BY <1>1, <1>3, <1>4, <2>1 DEF ModeSet, OKs, ModeCommands, IsRsp
  <2> QED BY <1>2, <2>1, <2>2 DEF Took
<1>12. ASSUME "strategy" \in known', NoneIn(fromSoc', StrategySet)
       PROVE  soc'.strategy = soc.strategy /\ NoneIn(fromSoc, StrategySet)
  <2>1. NoneIn(fromSoc, StrategySet) /\ a \notin StrategySet
    BY <1>1, <1>12, JoinedLine
  <2>2. r.cmd \notin {"STRATEGY_SET", "FACTORY_RESET"}
    BY <1>1, <1>3, <1>4, <2>1 DEF StrategySet, OKs, ModeCommands, IsRsp
  <2> QED BY <1>2, <2>1, <2>2 DEF Took
<1> QED BY <1>1, <1>6, <1>9, <1>10, <1>11, <1>12 DEF ModeInv, Told, Copied

\* The steps that leave the mode and the copy alone: the SOC's events, a notice sent
\* or heard, a loss
LEMMA ModeStays ==
    ASSUME DeviceTyped, ModeInv, LinesTyped', InFlight' <= InFlight,
           UNCHANGED <<g_ctrlState, shownMode, told>>,
           soc'.mode = soc.mode, soc'.strategy = soc.strategy,
           NoneIn(toSoc', {x \in Requests : ~RequestPresumed(x)}),
           NoneIn(fromSoc', {m \in Responses : ~ResponsePresumed(m)}),
           Kept("mode", ModeSet), Kept("strategy", StrategySet)
    PROVE  ModeInv'
<1>1. InFlight' <= 1
  BY InFlightIs DEF UnderWay, ModeInv, DeviceTyped
<1>2. \A x : RequestPresumed(x)' <=> RequestPresumed(x)
  BY DEF RequestPresumed, Copied
<1>3. \A m : ResponsePresumed(m)' <=> ResponsePresumed(m)
  BY DEF ResponsePresumed, Copied
<1>4. NoneIn(toSoc', {x \in Requests : ~RequestPresumed(x)'})
  BY <1>2 DEF NoneIn
<1>5. NoneIn(fromSoc', {m \in Responses : ~ResponsePresumed(m)'})
  BY <1>3 DEF NoneIn
<1> QED BY <1>1, <1>4, <1>5 DEF ModeInv, Kept, Told, Copied

LEMMA ModesStep ==
    ASSUME DeviceConstants, DeviceTyped, ModesInv, [DeviceNext]_deviceVars
    PROVE  ModesInv'
<1>1. LinesTyped' /\ LinesTyped
  BY TypedStep DEF DeviceTyped
<1>2. /\ toSoc \in Seq(Requests \cup Notices) /\ fromSoc \in Seq(Messages)
      /\ InFlight \in Nat /\ InFlight' \in Nat
  BY <1>1, InFlightIs DEF LinesTyped, UnderWay
<1>3. CASE Handler
  <2>1. HandlerDoes /\ env' = env
    BY <1>3, HandlersDo DEF HandlerDoes
  <2> SUFFICES ASSUME ~env.refusals, ~env.pipelined, ModeInv PROVE ModeInv'
    BY <2>1 DEF ModesInv
  <2>2. toSoc = <<>> /\ fromSoc = <<>> /\ fromSoc' = <<>> /\ soc' = soc
    BY <2>1 DEF HandlerDoes
  <2>3. InFlight = 0
    BY <1>1, <2>2, InFlightIs, NumberOfEmpty DEF UnderWay
  <2>4. InFlight' <= 1
    BY <2>1, <2>3, HandlerSends
  <2>5. NoneIn(toSoc', {x \in Requests : ~RequestPresumed(x)'})
    <3>1. CASE toSoc' = toSoc
      BY <2>2, <3>1 DEF NoneIn
    <3>2. ASSUME NEW r \in Requests, RequestSent(r)
          PROVE  NoneIn(toSoc', {x \in Requests : ~RequestPresumed(x)'})
      <4> DEFINE Z == {x \in Requests : ~RequestPresumed(x)'}
      <4>1. toSoc' = Append(toSoc, r) /\ r \notin Z /\ NoneIn(toSoc, Z)
        BY <2>2, <3>2 DEF RequestSent, NoneIn
      <4>2. r \in Requests \cup Notices
        OBVIOUS
      <4> HIDE DEF Z
      <4>3. NoneIn(Append(toSoc, r), Z)
        BY <1>2, <4>1, <4>2, NoneInAppend
      <4> QED BY <4>1, <4>3 DEF Z
    <3> QED BY <2>1, <3>1, <3>2 DEF HandlerDoes
  <2>6. NoneIn(fromSoc', {m \in Responses : ~ResponsePresumed(m)'})
    BY <2>2 DEF NoneIn
  <2>7. \A Z : NoneIn(fromSoc, Z)
    BY <2>2 DEF NoneIn
  <2> QED BY <2>1, <2>2, <2>4, <2>5, <2>6, <2>7 DEF ModeInv, HandlerDoes, Told
<1>4. CASE SocCallback
  <2>1. /\ Heard(Head(fromSoc)) /\ Head(fromSoc) \in Messages /\ env' = env
        /\ InFlight' <= InFlight
    BY <1>4, CallbacksHear, FewerUnderWay DEF Heard
  <2> QED BY <1>1, <2>1, ModeCallback DEF ModesInv
<1>5. CASE SocCarriesOut
  <2> PICK r \in Requests, st \in {"ok", "short", "refused"} : AnswersTo(r, st)
    BY <1>5, AnswersAreTrue
  <2>0. SocSays({ResponseTo(r, st, soc')} \cup WorkTold)
    BY DEF AnswersTo
  <2>1. env' = env /\ InFlight' <= InFlight
    BY <2>0, SocStepsType DEF SocSays
  <2> QED BY <1>1, <2>1, ModeAnswer DEF ModesInv
<1>6. CASE SocWorks \/ SocAutoStops \/ SocMusicEnds \/ SocHearsNotice
  <2> PICK M : OnItsOwn(M) \/ HearsNotice(M)
    BY <1>6, WorkIsTold, RecordingIsTold, EndOfMusicIsTold, NoticeIsHeard
  <2>1. /\ SocSays(M) /\ M \subseteq Events /\ soc'.mode = soc.mode
        /\ soc'.strategy = soc.strategy /\ Joins(M)
        /\ known' \subseteq known \cup {"power"}
        /\ UNCHANGED <<env, g_ctrlState, shownMode, told>>
        /\ toSoc' = toSoc \/ (toSoc # <<>> /\ toSoc' = Tail(toSoc))
    BY DEF OnItsOwn, HearsNotice, SocSays
  <2>2. InFlight' <= InFlight
    BY <2>1, SocStepsType
  <2>3. M \cap Responses = {} /\ M \cap ModeSet = {} /\ M \cap StrategySet = {}
    BY <2>1, MessageTyped DEF Events, Messages, Responses, ModeSet, StrategySet, OKs, IsRsp
  <2>4. Kept("mode", ModeSet) /\ Kept("strategy", StrategySet)
    BY <1>1, <2>1, JoinedLine DEF Kept
  <2>5. ASSUME NEW Z, NoneIn(toSoc, Z) PROVE NoneIn(toSoc', Z)
    BY <1>2, <2>1, <2>5, NoneInTail
  <2>6. ASSUME NEW Z, Z \subseteq Responses, NoneIn(fromSoc, Z) PROVE NoneIn(fromSoc', Z)
    <3>1. M \cap Z = {}
      BY <2>3, <2>6
    <3> QED BY <1>1, <2>1, <2>6, <3>1, JoinedLine
  <2>7. ASSUME ModeInv PROVE ModeInv'
    <3>1. NoneIn(toSoc', {x \in Requests : ~RequestPresumed(x)})
      BY <2>5, <2>7 DEF ModeInv
    <3>2. NoneIn(fromSoc', {m \in Responses : ~ResponsePresumed(m)})
      BY <2>6, <2>7 DEF ModeInv
    <3> QED BY <1>1, <2>1, <2>2, <2>4, <2>7, <3>1, <3>2, ModeStays
  <2> QED BY <2>1, <2>7 DEF ModesInv
<1>7. CASE SocStartsAgain \/ LineLoses \/ link_notify_power \/ UNCHANGED deviceVars
  <2>1. Silence /\ SilenceToSoc
    BY <1>7, SilentSteps, SilentToSoc
  <2>2. InFlight' <= InFlight
    BY <2>1, FewerUnderWay DEF Silence, SilenceToSoc
  <2>3. ASSUME NEW Z, Z \subseteq Requests, NoneIn(toSoc, Z) PROVE NoneIn(toSoc', Z)
    <3>1. CASE toSoc' = toSoc
      BY <2>3, <3>1
    <3>2. CASE toSoc' = <<>>
      BY <3>2 DEF NoneIn
    <3>3. CASE toSoc # <<>> /\ toSoc' = Tail(toSoc)
      BY <1>2, <2>3, <3>3, NoneInTail
    <3>4. ASSUME NEW r \in Notices, toSoc' = Append(toSoc, r) PROVE NoneIn(toSoc', Z)
      <4>1. r \in Requests \cup Notices /\ r \notin Z
        BY <2>3, RequestTyped DEF Notices
      <4>2. NoneIn(Append(toSoc, r), Z)
        BY <1>2, <2>3, <4>1, NoneInAppend
      <4> QED BY <3>4, <4>2
    <3> QED BY <2>1, <3>1, <3>2, <3>3, <3>4 DEF SilenceToSoc
  <2>4. ASSUME NEW Z, NoneIn(fromSoc, Z) PROVE NoneIn(fromSoc', Z)
    <3>1. CASE fromSoc' = <<>>
      BY <3>1 DEF NoneIn
    <3>2. CASE fromSoc # <<>> /\ fromSoc' = Tail(fromSoc)
      BY <1>2, <2>4, <3>2, NoneInTail
    <3> QED BY <2>1, <2>4, <3>1, <3>2 DEF Silence
  <2>5. ASSUME ModeInv PROVE ModeInv'
    <3>1. NoneIn(toSoc', {x \in Requests : ~RequestPresumed(x)})
      BY <2>3, <2>5 DEF ModeInv
    <3>2. NoneIn(fromSoc', {m \in Responses : ~ResponsePresumed(m)})
      BY <2>4, <2>5 DEF ModeInv
    <3> QED BY <1>1, <2>1, <2>2, <2>5, <3>1, <3>2, ModeStays DEF Silence
  <2> QED BY <2>1, <2>5 DEF ModesInv, Silence
<1> QED BY <1>3, <1>4, <1>5, <1>6, <1>7 DEF DeviceNext

---------------------------------------------------------------------------
\* All together
DeviceInv == /\ DeviceTyped /\ VolumeInv /\ RecInv /\ WorkInv /\ PowerInv
             /\ MusicInv /\ PlayingInv /\ ModesInv

LEMMA DeviceStarts ==
    ASSUME DeviceConstants, DeviceInit
    PROVE  DeviceInv
<1>1. /\ env \in Envs /\ env.volumes \subseteq Volumes /\ toSoc = <<>> /\ fromSoc = <<>>
      /\ known = {} /\ cmds = 0 /\ shownMode = 0
      /\ display = [music |-> 0, playing |-> FALSE]
  BY DEF DeviceInit, DeviceConstants
<1>2. Default \in Orders /\ 0 \in Recording /\ Rec(0) = [exist |-> 0, duration |-> 0]
  BY DEF DeviceConstants, Default, Recording, Rec
<1>3. g_ctrlState \in CopyStates
  <2> PICK v \in env.volumes :
        g_ctrlState = [power |-> 0, work |-> 0, volume |-> v, mode |-> 0,
                       measures |-> Default, us |-> Default, rec |-> Rec(0)]
    BY DEF DeviceInit
  <2> QED BY <1>1, <1>2 DEF CopyStates, Modes
<1>4. soc \in SocStates
  <2> DEFINE s == [m \in Modes |-> DefaultStrategy]
           p == IF "MUSIC_SELECT" \in env.used THEN Pieces ELSE {0}
  <2>1. s \in [Modes -> Strategies(Orders)]
    BY <1>2 DEF DefaultStrategy, Strategies
  <2>2. soc \in [work : {0}, volume : env.volumes, mode : Modes, strategy : {s},
                 recording : {FALSE}, unsaved : {FALSE}, latest : {0}, saved : {0},
                 music : p, playing : {FALSE}]
    BY DEF DeviceInit
  <2>3. p \subseteq Pieces
    BY DEF Pieces
  <2> HIDE DEF s, p
  <2> QED BY <1>1, <1>2, <2>1, <2>2, <2>3 DEF SocStates
<1>5. LinesTyped
  BY <1>1, EmptySeq DEF LinesTyped
<1>6. InFlight = 0
  BY <1>1, <1>5, InFlightIs, NumberOfEmpty DEF UnderWay
<1>7. DeviceTyped
  BY <1>1, <1>3, <1>4, <1>5, <1>6 DEF DeviceTyped, SettingsTyped, DeviceConstants, Modes, Pieces
<1>8. Sane(soc) /\ told.cmd = "none"
  BY DEF DeviceInit, Sane, DeviceConstants
<1>9. VolumeInv /\ RecInv /\ WorkInv /\ PowerInv /\ MusicInv /\ PlayingInv
  BY <1>1, <1>8
  DEF VolumeInv, RecInv, WorkInv, PowerInv, MusicInv, PlayingInv, LastIn, ToldRecording, Told
<1>10. ModesInv
  BY <1>1, <1>6 DEF ModesInv, ModeInv, NoneIn
<1> QED BY <1>7, <1>9, <1>10 DEF DeviceInv

LEMMA DeviceInductive ==
    ASSUME DeviceConstants
    PROVE  DeviceSpec => []DeviceInv
<1>1. DeviceInit => DeviceInv
  BY DeviceStarts
<1>2. DeviceInv /\ [DeviceNext]_deviceVars => DeviceInv'
  BY TypedStep, VolumeStep, RecStep, WorkStep, PowerStep, MusicStep, PlayingStep, ModesStep
  DEF DeviceInv
<1> QED BY <1>1, <1>2, PTL DEF DeviceSpec

\* The copy, the SOC's state and what the APP shows have their types, and the number
\* of requests and answers under way never passes APP_UART_PENDING_MAX.
THEOREM SettingsAreTyped ==
    ASSUME DeviceConstants
    PROVE  DeviceSpec => []SettingsTyped
<1>1. DeviceInv => SettingsTyped
  BY DEF DeviceInv, DeviceTyped
<1> QED BY <1>1, DeviceInductive, PTL

\* On a quiet line no newer word is under way.
LEMMA QuietLine == ASSUME NEW Z, Quiet PROVE NoneIn(fromSoc, Z)
BY DEF Quiet, NoneIn

\* The volume of the copy, and the one the APP was told last, are the SOC's on a quiet
\* line, however commands overlap, are refused or lost (app_ctrl.c:346, 450, 1550).
THEOREM VolumeIsTheSocs ==
    ASSUME DeviceConstants
    PROVE  DeviceSpec => []VolumeFollows
<1>1. DeviceInv => VolumeFollows
  BY QuietLine DEF DeviceInv, VolumeInv, VolumeFollows, Agreed
<1> QED BY <1>1, DeviceInductive, PTL

\* On a quiet line, while the SOC records nothing, the recording of the copy and the one
\* the APP was told last are the SOC's: one deleted, reset, replaced or lost by a restart
\* is not named any more (app_ctrl.c:398, 409, 505, 513, 893, 1169, 1203).
THEOREM RecordingIsTheSocs ==
    ASSUME DeviceConstants
    PROVE  DeviceSpec => []RecordingIsThere
<1>1. DeviceInv => RecordingIsThere
  BY QuietLine DEF DeviceInv, RecInv, RecordingIsThere, Agreed, Fits, ToldRecording
<1> QED BY <1>1, DeviceInductive, PTL

\* The work state in the copy is the SOC's on a quiet line, however POWER_CTRLs, sessions
\* and their events cross, but after a POWER_CTRL that was not sent, refused, lost or that
\* switched the SOC on in a session, until the next event or STATUS_GET; and a notice no
\* command came after makes the SOC work as the APP has switched (app_ctrl.c:342, 648,
\* 1403, 2380-2389).
THEOREM WorkIsTheSocs ==
    ASSUME DeviceConstants
    PROVE  DeviceSpec => []WorkFollows
<1>1. ASSUME Quiet PROVE NoneIn(toSoc, PowerSet)
  BY <1>1 DEF Quiet, NoneIn
<1>2. DeviceInv => WorkFollows
  BY <1>1, QuietLine DEF DeviceInv, WorkInv, WorkPresumed, PowerInv, WorkFollows, Agreed
<1> QED BY <1>2, DeviceInductive, PTL

\* The mode stored before the SOC has it ends as the SOC's, if the APP waits for each
\* answer and the SOC refuses nothing (app_ctrl.c:349, 426, 948, 1811, 1900).
THEOREM ModeIsTheSocs ==
    ASSUME DeviceConstants
    PROVE  DeviceSpec => []ModeFollows
<1>1. DeviceInv => ModeFollows
  BY QuietLine DEF DeviceInv, ModesInv, ModeInv, ModeFollows, Agreed
<1> QED BY <1>1, DeviceInductive, PTL

\* And the orders in the copy are the SOC's for the mode whose strategy was set or
\* read last (app_ctrl.c:1001-1027, 1901).
THEOREM StrategyIsTheSocs ==
    ASSUME DeviceConstants
    PROVE  DeviceSpec => []StrategyIsOfShownMode
<1>1. DeviceInv => StrategyIsOfShownMode
  BY QuietLine DEF DeviceInv, ModesInv, ModeInv, StrategyIsOfShownMode, Agreed, Copied
<1> QED BY <1>1, DeviceInductive, PTL

\* What the APP shows of the music is the SOC's on a quiet line, but after an OK or an
\* event that came while no APP was connected (app_ctrl.c:861, 1290, 2131, 2186, 2240).
THEOREM MusicIsTheSocs ==
    ASSUME DeviceConstants
    PROVE  DeviceSpec => []MusicFollows
<1>1. DeviceInv => MusicFollows
  BY QuietLine DEF DeviceInv, MusicInv, PlayingInv, MusicFollows, Agreed
<1> QED BY <1>1, DeviceInductive, PTL

---------------------------------------------------------------------------
\* The push

\* After a look the snapshot is the state's, but for the bit during execution.
SnapshotFollows ==
    moved = 0 => /\ s_pushed_status.work = work
                 /\ s_pushed_status.settings = settings
                 /\ work # Executing => s_pushed_status.charging = charge

ShowsSnapshot ==
    /\ view.work = s_pushed_status.work
    /\ view.settings = s_pushed_status.settings
    /\ s_pushed_status.work # Executing => view.charging = s_pushed_status.charging

ShowsState ==
    /\ view.work = work /\ view.settings = settings
    /\ work # Executing => view.charging = charge

DisplayInv ==
    /\ SnapshotFollows
    /\ listening = 1 /\ informed = 1 => ShowsSnapshot \/ ShowsState

\* Types, for every value of the constants.
THEOREM PushIsTyped == ASSUME PushConstants PROVE Spec => []TypeOK
<1> USE DEF PushConstants
<1>1. Init => TypeOK
  BY DEF Init, TypeOK, Snapshot
<1>2. TypeOK /\ [Next]_vars => TypeOK'
  <2> SUFFICES ASSUME TypeOK, [Next]_vars PROVE TypeOK'
    OBVIOUS
  <2>1. ASSUME NEW w \in Works, NEW s \in Settings, state_changes(w, s) PROVE TypeOK'
    BY <2>1 DEF TypeOK, state_changes, Change
  <2>2. CASE charge_changes
    BY <2>2 DEF TypeOK, charge_changes, Change
  <2>3. CASE status_get_answer
    BY <2>3 DEF TypeOK, status_get_answer, Snapshot, is_charging, state
  <2>4. CASE try_push_event
    <3>1. current \in [work : Works, settings : Settings \cup {Blank}, charging : 0..1]
      BY DEF TypeOK, current, Snapshot, is_charging
    <3> QED BY <2>4, <3>1 DEF TypeOK, try_push_event, state
  <2>5. CASE Listens
    BY <2>5 DEF TypeOK, Listens, state
  <2>6. CASE UNCHANGED vars
    BY <2>6 DEF TypeOK, vars, state
  <2> QED BY <2>1, <2>2, <2>3, <2>4, <2>5, <2>6 DEF Next
<1> QED BY <1>1, <1>2, PTL DEF Spec

\* If the state changes at most once between two looks, a listening APP that
\* was told it displays it after every look.
THEOREM DisplayIsRight == ASSUME PushConstants, Slow = TRUE PROVE Spec => []DisplayFollows
<1> USE DEF PushConstants
<1>1. Init => DisplayInv
  BY DEF Init, DisplayInv, SnapshotFollows
<1>2. TypeOK /\ DisplayInv /\ [Next]_vars => DisplayInv'
  <2> SUFFICES ASSUME TypeOK, DisplayInv, [Next]_vars PROVE DisplayInv'
    OBVIOUS
  <2>1. ASSUME NEW w \in Works, NEW s \in Settings, state_changes(w, s) PROVE DisplayInv'
    BY <2>1, Slow = TRUE
    DEF TypeOK, DisplayInv, SnapshotFollows, ShowsSnapshot, ShowsState, state_changes, Change
  <2>2. CASE charge_changes
    BY <2>2, Slow = TRUE
    DEF TypeOK, DisplayInv, SnapshotFollows, ShowsSnapshot, ShowsState, charge_changes, Change
  <2>3. CASE status_get_answer
    BY <2>3
    DEF TypeOK, DisplayInv, SnapshotFollows, ShowsState, status_get_answer, Snapshot,
        is_charging, state
  <2>4. CASE try_push_event
    <3>1. CASE differs
      BY <2>4, <3>1
      DEF TypeOK, DisplayInv, SnapshotFollows, ShowsSnapshot, ShowsState,
          try_push_event, differs, current, Snapshot, is_charging, state
    <3>2. CASE ~differs
      BY <2>4, <3>2
      DEF TypeOK, DisplayInv, SnapshotFollows, ShowsSnapshot, ShowsState,
          try_push_event, differs, current, Snapshot, is_charging, state
    <3> QED BY <3>1, <3>2
  <2>5. CASE Listens
    BY <2>5 DEF DisplayInv, SnapshotFollows, Listens, state
  <2>6. CASE UNCHANGED vars
    BY <2>6 DEF DisplayInv, SnapshotFollows, ShowsSnapshot, ShowsState, vars, state
  <2> QED BY <2>1, <2>2, <2>3, <2>4, <2>5, <2>6 DEF Next
<1>3. DisplayInv => DisplayFollows
  BY DEF DisplayInv, SnapshotFollows, ShowsSnapshot, ShowsState, DisplayFollows
<1> QED BY <1>1, <1>2, <1>3, PushIsTyped, PTL DEF Spec
=============================================================================
