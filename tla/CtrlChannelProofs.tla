------------------------- MODULE CtrlChannelProofs -------------------------
(***************************************************************************)
(* What the command channel promises for every APP, every ring, table,     *)
(* counter and timeout.                                                    *)
(***************************************************************************)
EXTENDS CtrlChannel, SequenceTheorems, FiniteSetTheorems, TLAPS

---------------------------------------------------------------------------
\* Responses: if the frames sent, kept and new are all of one kind, so are those
\* sent and kept afterwards.

Ring(S) == [0..(CacheSize - 1) -> S \cup {NoFrame}]

LEMMA DeliveryKeeps ==
    ASSUME NEW S, sent \in Seq(S), NEW frames \in Seq(S), Deliver(frames)
    PROVE  sent' \in Seq(S)
  BY ConcatProperties DEF Deliver

LEMMA CacheKeeps ==
    ASSUME NEW S, g_resp_cache \in Ring(S), NEW frames \in Seq(S), CacheSave(frames)
    PROVE  g_resp_cache' \in Ring(S)
<1> DEFINE LandsOn(k, i) == (g_resp_cache_idx + k - 1) % CacheSize = i
           Last(i) == {k \in DOMAIN frames :
                         /\ LandsOn(k, i)
                         /\ \A l \in (k + 1)..Len(frames) : ~LandsOn(l, i)}
           Slot(i) == IF Last(i) = {} THEN g_resp_cache[i]
                      ELSE frames[CHOOSE k \in Last(i) : TRUE]
<1>1. g_resp_cache' = [i \in DOMAIN g_resp_cache |-> Slot(i)]
  BY DEF CacheSave
<1>2. ASSUME NEW i \in DOMAIN g_resp_cache PROVE Slot(i) \in S \cup {NoFrame}
  <2>1. CASE Last(i) = {}
    BY <1>2, <2>1 DEF Ring
  <2>2. CASE Last(i) # {}
    <3>1. (CHOOSE k \in Last(i) : TRUE) \in Last(i)
      BY <2>2
    <3>2. (CHOOSE k \in Last(i) : TRUE) \in DOMAIN frames
      BY <3>1
    <3>3. frames[CHOOSE k \in Last(i) : TRUE] \in S
      BY <3>2, ElementOfSeq, LenProperties
    <3>. QED
      BY <2>2, <3>3
  <2>. QED
    BY <2>1, <2>2
<1>. QED
  BY <1>1, <1>2 DEF Ring

LEMMA CacheIndex ==
    ASSUME g_resp_cache_idx \in 0..(CacheSize - 1), NEW S, NEW frames \in Seq(S),
           CacheSave(frames)
    PROVE  g_resp_cache_idx' \in 0..(CacheSize - 1)
<1>1. g_resp_cache_idx' = (g_resp_cache_idx + Len(frames)) % CacheSize
  BY DEF CacheSave
<1>2. Len(frames) \in Nat /\ CacheSize \in Nat \ {0}
  BY LenProperties, ChannelAssumption
<1>. QED
  BY <1>1, <1>2

LEMMA RespondKeeps ==
    ASSUME NEW S, sent \in Seq(S), g_resp_cache \in Ring(S), NEW frames \in Seq(S),
           Respond(frames)
    PROVE  sent' \in Seq(S) /\ g_resp_cache' \in Ring(S)
  BY DeliveryKeeps, CacheKeeps DEF Respond

LEMMA ReplyKeeps ==
    ASSUME NEW S, sent \in Seq(S), g_resp_cache \in Ring(S), NEW m, NEW st,
           Frame(m.cmd, m.seq, st, m.of, 0) \in S, Reply(m, st)
    PROVE  sent' \in Seq(S) /\ g_resp_cache' \in Ring(S)
<1>1. <<Frame(m.cmd, m.seq, st, m.of, 0)>> \in Seq(S)
  OBVIOUS
<1>. QED
  BY <1>1, RespondKeeps DEF Reply

LEMMA ResendKeeps ==
    ASSUME NEW S, sent \in Seq(S), g_resp_cache \in Ring(S),
           NEW i \in DOMAIN g_resp_cache, g_resp_cache[i] # NoFrame,
           Deliver(<<g_resp_cache[i]>>)
    PROVE  sent' \in Seq(S)
<1>1. <<g_resp_cache[i]>> \in Seq(S)
  BY DEF Ring
<1>. QED
  BY <1>1, DeliveryKeeps

---------------------------------------------------------------------------
\* Types

Now == /\ sent \in Seq(Frames) /\ g_resp_cache \in Ring(Frames)
       /\ g_resp_cache_idx \in 0..(CacheSize - 1)

\* A frame of the APP, as its handler gets it
Sound(m) == /\ m.cmd \in Commands /\ m.seq \in Seqs /\ m.good \in BOOLEAN
            /\ m.of \in 1..Len(reqs')

LEMMA LaterFrames ==
    ASSUME reqs \in Seq(Requests), reqs' \in Seq(Requests'), Len(reqs') >= Len(reqs)
    PROVE  Frames \subseteq Frames' /\ SocRequests \subseteq SocRequests'
<1>1. 0..Len(reqs) \subseteq 0..Len(reqs') /\ 1..Len(reqs) \subseteq 1..Len(reqs')
  BY LenProperties
<1>. QED
  BY <1>1 DEF Frames, SocRequests

LEMMA FrameType ==
    ASSUME NEW cmd \in Commands, NEW seq \in Seqs, NEW st \in Statuses,
           NEW of \in 0..Len(reqs), NEW part \in 0..(RecordEntries + 1)
    PROVE  Frame(cmd, seq, st, of, part) \in Frames
  BY DEF Frame, Frames

\* Whatever answers a command, it is one or two frames.
LEMMA HandlerTypes ==
    ASSUME TypeOK, NEW m, Sound(m), onRx(m), UNCHANGED env,
           reqs' \in Seq(Requests'), Len(reqs') >= Len(reqs)
    PROVE  /\ Now' /\ UNCHANGED connected
           /\ s_last_seq' \in Seqs
           /\ bleSeq' \in [Forwarded -> Seqs]
           /\ record' \in [busy : BOOLEAN, seq : Seqs, age : 0..Overlong]
           /\ uart' \in Seq(SocRequests')
<1>. DEFINE F == Frames'
<1>1. sent \in Seq(F) /\ g_resp_cache \in Ring(F) /\ uart \in Seq(SocRequests')
  BY LaterFrames, SeqMonotonic DEF TypeOK, Ring
<1>2. ASSUME NEW st \in Statuses PROVE Frame(m.cmd, m.seq, st, m.of, 0) \in F
  BY ChannelAssumption DEF Frame, Frames, Sound
<1>3. ASSUME NEW st \in Statuses, Reply(m, st) PROVE Now' /\ UNCHANGED connected
  <2>1. <<Frame(m.cmd, m.seq, st, m.of, 0)>> \in Seq(F)
    BY <1>2
  <2>2. sent' \in Seq(F) /\ g_resp_cache' \in Ring(F)
    BY <1>1, <1>2, <1>3, ReplyKeeps
  <2>3. g_resp_cache_idx' \in 0..(CacheSize - 1)
    BY <1>3, <2>1, CacheIndex DEF Reply, Respond, TypeOK
  <2>. QED
    BY <1>3, <2>2, <2>3 DEF Now, Reply, Respond
<1>4. ASSUME UNCHANGED link PROVE Now' /\ UNCHANGED connected
  BY <1>1, <1>4 DEF link, Now, TypeOK
<1>5. ASSUME UNCHANGED <<bleSeq, record, uart>>
      PROVE  /\ bleSeq' \in [Forwarded -> Seqs]
             /\ record' \in [busy : BOOLEAN, seq : Seqs, age : 0..Overlong]
             /\ uart' \in Seq(SocRequests')
  BY <1>1, <1>5 DEF TypeOK
<1>6. ASSUME SendToSoc(m), m.cmd \in Forwarded \cup {RecordGet}
      PROVE  uart' \in Seq(SocRequests')
  <2>1. [cmd |-> m.cmd, of |-> m.of, soc |-> "open", waiting |-> TRUE, age |-> 0]
          \in SocRequests'
    BY <1>6 DEF SocRequests, Sound
  <2>. QED
    BY <1>1, <1>6, <2>1 DEF SendToSoc
<1>. DEFINE Goal == /\ Now' /\ UNCHANGED connected
                    /\ bleSeq' \in [Forwarded -> Seqs]
                    /\ record' \in [busy : BOOLEAN, seq : Seqs, age : 0..Overlong]
                    /\ uart' \in Seq(SocRequests')
<1>7. CASE rx_repeated(m)
  <2>1. UNCHANGED <<s_last_seq, bleSeq, record, uart>>
    BY <1>7 DEF rx_repeated
  <2>2. Now' /\ UNCHANGED connected
    <3>1. CASE Reply(m, "OK")
      BY <1>3, <3>1 DEF Statuses
    <3>2. ASSUME NEW i \in DOMAIN g_resp_cache, FirstCached(i, m.cmd, m.seq),
                 Deliver(<<g_resp_cache[i]>>),
                 UNCHANGED <<connected, g_resp_cache, g_resp_cache_idx>>
          PROVE  Now' /\ UNCHANGED connected
      BY <1>1, <3>2, ResendKeeps DEF FirstCached, Cached, Now, TypeOK
    <3>. QED
      BY <1>7, <3>1, <3>2 DEF rx_repeated
  <2>. QED
    BY <1>5, <2>1, <2>2 DEF TypeOK
<1>8. ASSUME volume_set(m) PROVE Goal
  <2>1. UNCHANGED record
    BY <1>8 DEF volume_set
  <2>2. Now' /\ UNCHANGED connected
    BY <1>3, <1>4, <1>8 DEF volume_set, Statuses
  <2>3. bleSeq' \in [Forwarded -> Seqs]
    BY <1>8 DEF volume_set, TypeOK, Sound
  <2>4. uart' \in Seq(SocRequests')
    BY <1>1, <1>6, <1>8 DEF volume_set
  <2>. QED
    BY <2>1, <2>2, <2>3, <2>4 DEF TypeOK, Overlong, Longest
<1>9. ASSUME reward_flag_get(m) PROVE Goal
  <2>1. Now' /\ UNCHANGED connected
    BY <1>3, <1>9 DEF reward_flag_get, Statuses
  <2>. QED
    BY <1>5, <1>9, <2>1 DEF reward_flag_get
<1>10. ASSUME uid_get(m) PROVE Goal
  <2>. DEFINE two == [k \in 1..2 |-> Frame(UidGet, m.seq, "OK", m.of, k - 1)]
  <2>1. CASE Reply(m, "PARAM_ERROR")
    BY <1>3, <1>5, <1>10, <2>1 DEF uid_get, Statuses
  <2>2. CASE Respond(two)
    <3>1. ASSUME NEW k \in 1..2 PROVE two[k] \in F
      <4>1. k - 1 \in 0..(RecordEntries + 1) /\ m.of \in 0..Len(reqs')
        BY ChannelAssumption DEF Sound
      <4>2. two[k] = Frame(UidGet, m.seq, "OK", m.of, k - 1) /\ UidGet \in Commands
        BY DEF Commands
      <4>. QED
        BY <4>1, <4>2 DEF Frame, Frames, Sound, Statuses
    <3>2. two \in Seq(F)
      BY <3>1, IsASeq
    <3>3. sent' \in Seq(F) /\ g_resp_cache' \in Ring(F)
      BY <1>1, <2>2, <3>2, RespondKeeps
    <3>4. g_resp_cache_idx' \in 0..(CacheSize - 1)
      BY <2>2, <3>2, CacheIndex DEF Respond, TypeOK
    <3>. QED
      BY <1>5, <1>10, <2>2, <3>3, <3>4 DEF uid_get, Respond, Now
  <2>. QED
    BY <1>10, <2>1, <2>2 DEF uid_get
<1>11. ASSUME calm_record_get(m) PROVE Goal
  <2>1. UNCHANGED bleSeq
    BY <1>11 DEF calm_record_get
  <2>2. Now' /\ UNCHANGED connected
    BY <1>3, <1>4, <1>11 DEF calm_record_get, Statuses
  <2>3. record' \in [busy : BOOLEAN, seq : Seqs, age : 0..Overlong]
    <3>1. record' = record
          \/ \E b \in BOOLEAN : record' = [busy |-> b, seq |-> m.seq, age |-> 0]
      BY <1>11 DEF calm_record_get
    <3>2. 0 \in 0..Overlong /\ m.seq \in Seqs
      <4>1. env.loopTicks \in Nat /\ RspTimeout \in Nat
        BY ChannelAssumption DEF TypeOK
      <4>. QED
        BY <4>1 DEF Overlong, Longest, Sound
    <3>3. Overlong' = Overlong
      BY DEF Overlong, Longest
    <3>. QED
      BY <3>1, <3>2, <3>3 DEF TypeOK
  <2>4. uart' \in Seq(SocRequests')
    BY <1>1, <1>6, <1>11 DEF calm_record_get
  <2>. QED
    BY <2>1, <2>2, <2>3, <2>4 DEF TypeOK
<1>12. ASSUME unsupported(m) PROVE Goal
  <2>1. Now' /\ UNCHANGED connected
    BY <1>3, <1>12 DEF unsupported, Statuses
  <2>. QED
    BY <1>5, <1>12, <2>1 DEF unsupported
<1>13. CASE rx_command(m)
  <2>1. s_last_seq' \in Seqs
    BY <1>13 DEF rx_command, Sound
  <2>. QED
    BY <1>8, <1>9, <1>10, <1>11, <1>12, <1>13, <2>1 DEF rx_command, Handle
<1>. QED
  BY <1>7, <1>13 DEF onRx

\* The numbers an APP is made of
LEMMA Numbers ==
    ASSUME env \in Apps
    PROVE  /\ env.patience \in Nat /\ env.retryDepth \in Nat /\ env.maxReqs \in Nat
           /\ env.maxSends \in Nat /\ env.maxBads \in Nat /\ env.maxLinks \in Nat
           /\ env.loopTicks \in Nat
           /\ \A c \in env.used : c \in Commands
           /\ \A p \in env.payloads : p \in BOOLEAN
           /\ Overlong \in Nat /\ Longest \in Nat
           /\ RspTimeout \in Nat /\ HbTimeout \in Nat /\ RecordEntries \in Nat
<1>1. env.loopTicks \in Nat /\ RspTimeout \in Nat
  BY ChannelAssumption
<1>. QED
  BY <1>1, ChannelAssumption DEF Overlong, Longest

\* While the APP is silent the sets of frames and requests stay what they are.
LEMMA SameTypes ==
    ASSUME UNCHANGED env, Len(reqs') = Len(reqs)
    PROVE  /\ Frames' = Frames /\ SocRequests' = SocRequests
           /\ Requests' = Requests /\ Overlong' = Overlong
  BY DEF Frames, SocRequests, Requests, Overlong, Longest

LEMMA ResponseTypes ==
    ASSUME TypeOK, NEW frames \in Seq(Frames), Respond(frames),
           UNCHANGED env, Len(reqs') = Len(reqs)
    PROVE  Now' /\ UNCHANGED connected
<1>1. sent' \in Seq(Frames) /\ g_resp_cache' \in Ring(Frames)
  BY RespondKeeps DEF TypeOK, Ring
<1>2. g_resp_cache_idx' \in 0..(CacheSize - 1)
  BY CacheIndex DEF Respond, TypeOK
<1>. QED
  BY <1>1, <1>2, SameTypes DEF Now, Respond

LEMMA TypeInit == Init => TypeOK
<1>. SUFFICES ASSUME Init PROVE TypeOK
  OBVIOUS
<1>1. /\ SeqMod - 1 \in Seqs /\ 0 \in Seqs /\ 0 \in 0..(CacheSize - 1)
  BY ChannelAssumption DEF Seqs
<1>2. /\ 0 \in 0..Overlong /\ 0 \in 0..(HbTimeout + 1) /\ 0 \in 0..env.loopTicks
      /\ 0 \in 0..env.maxSends /\ 0 \in 0..env.maxBads /\ 0 \in 0..env.maxLinks
      /\ 0 <= env.maxReqs
  BY Numbers, SMTT(30) DEF Init
<1>3. /\ g_resp_cache \in [0..(CacheSize - 1) -> Frames \cup {NoFrame}]
      /\ bleSeq \in [Forwarded -> Seqs]
  BY <1>1 DEF Init
<1>4. record \in [busy : BOOLEAN, seq : Seqs, age : 0..Overlong]
  BY <1>1, <1>2 DEF Init
<1>5. sent \in Seq(Frames) /\ uart \in Seq(SocRequests) /\ reqs \in Seq(Requests)
      /\ Len(reqs) <= env.maxReqs
  BY <1>2, EmptySeq DEF Init
<1>. QED
  BY <1>1, <1>2, <1>3, <1>4, <1>5 DEF Init, TypeOK

LEMMA TypeAppCommand == TypeOK /\ AppCommand => TypeOK'
<1>. SUFFICES ASSUME TypeOK, AppCommand PROVE TypeOK'
  OBVIOUS
<1>0. env \in Apps
  BY DEF TypeOK
<1>. DEFINE n == Len(reqs) + 1
<1>1. PICK cmd \in env.used, seq \in Seqs, good \in env.payloads :
        /\ reqs' = Append(reqs, [cmd |-> cmd, seq |-> seq, good |-> good,
                                 age |-> 0, mark |-> Len(sent)])
        /\ onRx(Command(n))
  BY DEF AppCommand
<1>2. /\ UNCHANGED <<bads, links, heart, loop, env>>
      /\ sends' = sends + 1 /\ sends < env.maxSends /\ Len(reqs) < env.maxReqs
  BY DEF AppCommand, Writes
<1>3. [cmd |-> cmd, seq |-> seq, good |-> good, age |-> 0, mark |-> Len(sent)]
        \in Requests
  <2>1. cmd \in Commands /\ good \in BOOLEAN /\ 0 \in 0..env.patience
    BY <1>0, Numbers
  <2>2. Len(sent) \in Nat
    BY LenProperties DEF TypeOK
  <2>. QED
    BY <2>1, <2>2 DEF Requests
<1>4. Requests' = Requests
  BY <1>2 DEF Requests
<1>5. /\ reqs' \in Seq(Requests') /\ Len(reqs') = Len(reqs) + 1 /\ Len(reqs) \in Nat
      /\ reqs'[n] = [cmd |-> cmd, seq |-> seq, good |-> good, age |-> 0,
                     mark |-> Len(sent)]
  BY <1>1, <1>3, <1>4, AppendProperties, LenProperties DEF TypeOK
<1>6. Sound(Command(n))
  BY <1>3, <1>5 DEF Sound, Command, Requests
<1>7. /\ Now' /\ UNCHANGED connected
      /\ s_last_seq' \in Seqs
      /\ bleSeq' \in [Forwarded -> Seqs]
      /\ record' \in [busy : BOOLEAN, seq : Seqs, age : 0..Overlong]
      /\ uart' \in Seq(SocRequests')
  <2>1. Len(reqs') >= Len(reqs)
    BY <1>5
  <2>. QED
    BY <1>1, <1>2, <1>5, <1>6, <2>1, HandlerTypes
<1>8. sends' \in 0..env.maxSends /\ Len(reqs') <= env.maxReqs /\ Overlong' = Overlong
  <2>1. Overlong' = Overlong
    BY <1>2 DEF Overlong, Longest
  <2>2. sends \in 0..env.maxSends /\ env.maxSends \in Nat /\ env.maxReqs \in Nat
    BY <1>0, Numbers DEF TypeOK
  <2>. QED
    BY <1>2, <1>5, <2>1, <2>2
<1>. QED
  BY <1>2, <1>5, <1>7, <1>8 DEF TypeOK, Now, Ring, heart, loop

LEMMA TypeAppRepeat == TypeOK /\ AppRepeat => TypeOK'
<1>. SUFFICES ASSUME TypeOK, AppRepeat PROVE TypeOK'
  OBVIOUS
<1>0. env \in Apps
  BY DEF TypeOK
<1>1. PICK n \in DOMAIN reqs :
        /\ reqs' = [reqs EXCEPT ![n].age = 0, ![n].mark = Len(sent)]
        /\ onRx(Command(n))
  BY DEF AppRepeat
<1>2. /\ UNCHANGED <<bads, links, heart, loop, env>>
      /\ sends' = sends + 1 /\ sends < env.maxSends
  BY DEF AppRepeat, Writes
<1>3. reqs' \in Seq(Requests) /\ Len(reqs') = Len(reqs)
  <2>1. 0 \in 0..env.patience /\ Len(sent) \in Nat
    <3>1. sent \in Seq(Frames)
      BY DEF TypeOK
    <3>. QED
      BY <1>0, <3>1, Numbers, LenProperties
  <2>2. reqs[n] \in Requests
    BY ElementOfSeq, LenProperties DEF TypeOK
  <2>3. [reqs[n] EXCEPT !.age = 0, !.mark = Len(sent)] \in Requests
    BY <2>1, <2>2 DEF Requests
  <2>4. reqs' = [reqs EXCEPT ![n] = [reqs[n] EXCEPT !.age = 0, !.mark = Len(sent)]]
    BY <1>1
  <2>. QED
    BY <2>3, <2>4, ExceptSeq DEF TypeOK
<1>4. /\ Requests' = Requests /\ Overlong' = Overlong
  BY <1>2, <1>3, SameTypes
<1>5. Sound(Command(n))
  <2>1. reqs'[n] \in Requests /\ n \in 1..Len(reqs')
    BY <1>3, ElementOfSeq, LenProperties DEF TypeOK
  <2>. QED
    BY <2>1 DEF Sound, Command, Requests
<1>6. /\ Now' /\ UNCHANGED connected
      /\ s_last_seq' \in Seqs
      /\ bleSeq' \in [Forwarded -> Seqs]
      /\ record' \in [busy : BOOLEAN, seq : Seqs, age : 0..Overlong]
      /\ uart' \in Seq(SocRequests')
  <2>1. Len(reqs') >= Len(reqs)
    BY <1>3, LenProperties DEF TypeOK
  <2>. QED
    BY <1>1, <1>2, <1>3, <1>4, <1>5, <2>1, HandlerTypes
<1>7. sends' \in 0..env.maxSends
  <2>1. sends \in 0..env.maxSends /\ env.maxSends \in Nat
    BY <1>0, Numbers DEF TypeOK
  <2>. QED
    BY <1>2, <2>1
<1>. QED
  BY <1>2, <1>3, <1>4, <1>6, <1>7 DEF TypeOK, Now, Ring, heart, loop

\* The entry of uart at t becomes e.
LEMMA EntryTypes ==
    ASSUME uart \in Seq(SocRequests), NEW t \in DOMAIN uart, NEW e \in SocRequests,
           uart' = [uart EXCEPT ![t] = e]
    PROVE  uart' \in Seq(SocRequests)
  BY ExceptSeq

\* An answer of the SOC closes its entry.
LEMMA AnswerTypes ==
    ASSUME TypeOK, NEW t \in DOMAIN uart, Answers(t)
    PROVE  /\ uart' \in Seq(SocRequests) /\ uart[t].of \in 0..Len(reqs)
           /\ uart[t].cmd \in Commands
<1>1. uart \in Seq(SocRequests) /\ uart[t] \in SocRequests
  BY ElementOfSeq, LenProperties DEF TypeOK
<1>2. Closed(uart[t]) \in SocRequests
  BY <1>1 DEF Closed, SocRequests
<1>3. uart' = [uart EXCEPT ![t] = Closed(uart[t])]
  BY DEF Answers
<1>4. uart[t].of \in 0..Len(reqs) /\ uart[t].cmd \in Commands
  BY <1>1 DEF SocRequests, Commands
<1>. QED
  BY <1>1, <1>2, <1>3, <1>4, EntryTypes

\* What goes out for an answer of the SOC: frames of one request, of a record only
\* under the number the context holds while it is busy.
SocFrames(t) == {f \in Frames :
                   /\ f.status \in {"OK", "SOC_ERROR", "INTERNAL_ERROR"}
                   /\ f.of = uart[t].of /\ f.cmd = uart[t].cmd
                   /\ f.cmd = RecordGet => record.busy /\ f.seq = record.seq
                   /\ f.cmd # RecordGet => f.cmd \in Forwarded /\ f.seq = bleSeq[f.cmd]}

LEMMA AnswerFrames ==
    ASSUME TypeOK, rsp_volume_set \/ rsp_calm_record_get
    PROVE  \E t \in DOMAIN uart : \E frames \in Seq(SocFrames(t)) :
             Answers(t) /\ Respond(frames)
<1>1. CASE rsp_volume_set
  <2>. DEFINE st(t) == IF uart[t].soc = "done" THEN "OK" ELSE "SOC_ERROR"
              f(t) == Frame(uart[t].cmd, bleSeq[uart[t].cmd], st(t), uart[t].of, 0)
  <2>1. PICK t \in DOMAIN uart :
          Answers(t) /\ uart[t].cmd \in Forwarded /\ Respond(<<f(t)>>)
    BY <1>1 DEF rsp_volume_set
  <2>2. bleSeq[uart[t].cmd] \in Seqs
    BY <2>1 DEF TypeOK
  <2>3. /\ st(t) \in {"OK", "SOC_ERROR", "INTERNAL_ERROR"} /\ st(t) \in Statuses
        /\ 0 \in 0..(RecordEntries + 1) /\ uart[t].cmd # RecordGet
    BY <2>1, ChannelAssumption DEF Statuses
  <2>4. f(t) \in Frames
    BY <2>1, <2>2, <2>3, AnswerTypes, FrameType
  <2>5. /\ f(t).status = st(t) /\ f(t).of = uart[t].of /\ f(t).cmd = uart[t].cmd
        /\ f(t).seq = bleSeq[uart[t].cmd]
    BY DEF Frame
  <2>6. f(t) \in SocFrames(t)
    BY <2>1, <2>3, <2>4, <2>5 DEF SocFrames
  <2>7. <<f(t)>> \in Seq(SocFrames(t))
    BY <2>6
  <2>. QED
    BY <2>1, <2>7
<1>2. CASE rsp_calm_record_get
  <2>1. PICK t \in DOMAIN uart, entries \in 0..RecordEntries :
          Answers(t) /\ uart[t].cmd = RecordGet /\ Respond(RecordFrames(t, entries))
    BY <1>2 DEF rsp_calm_record_get
  <2>2. uart[t].of \in 0..Len(reqs) /\ RecordGet \in Commands /\ record.seq \in Seqs
    BY <2>1, AnswerTypes DEF Commands, TypeOK
  <2>3. 0 \in 0..(RecordEntries + 1) /\ entries \in Nat
        /\ \A k \in 1..entries : k - 1 \in 0..(RecordEntries + 1)
    BY ChannelAssumption
  <2>. DEFINE g(st, p) == Frame(RecordGet, record.seq, st, uart[t].of, p)
  <2>4. ASSUME NEW st \in {"OK", "INTERNAL_ERROR"}, NEW p \in 0..(RecordEntries + 1),
               record.busy
        PROVE  g(st, p) \in SocFrames(t)
    <3>1. g(st, p) \in Frames
      BY <2>2, FrameType DEF Statuses
    <3>2. /\ g(st, p).status = st /\ g(st, p).of = uart[t].of
          /\ g(st, p).cmd = uart[t].cmd /\ g(st, p).seq = record.seq
      BY <2>1 DEF Frame
    <3>. QED
      BY <2>1, <2>4, <3>1, <3>2 DEF SocFrames
  <2>5. ASSUME record.busy
        PROVE  [k \in 1..entries |-> g("OK", k - 1)] \in Seq(SocFrames(t))
    <3>1. \A k \in 1..entries : g("OK", k - 1) \in SocFrames(t)
      BY <2>3, <2>4, <2>5
    <3>. QED
      BY <2>3, <3>1, IsASeq
  <2>6. ASSUME record.busy PROVE <<g("INTERNAL_ERROR", 0)>> \in Seq(SocFrames(t))
    <3>1. g("INTERNAL_ERROR", 0) \in SocFrames(t)
      BY <2>3, <2>4, <2>6
    <3>. QED
      BY <3>1
  <2>7. RecordFrames(t, entries) \in Seq(SocFrames(t))
    BY <2>5, <2>6, EmptySeq DEF RecordFrames
  <2>. QED
    BY <2>1, <2>7
<1>. QED
  BY <1>1, <1>2

LEMMA TypeRsp == TypeOK /\ (rsp_volume_set \/ rsp_calm_record_get) => TypeOK'
<1>. SUFFICES ASSUME TypeOK, rsp_volume_set \/ rsp_calm_record_get PROVE TypeOK'
  OBVIOUS
<1>1. UNCHANGED <<s_last_seq, bleSeq, heart, loop, app>>
  BY DEF rsp_volume_set, rsp_calm_record_get
<1>2. /\ Frames' = Frames /\ SocRequests' = SocRequests
      /\ Requests' = Requests /\ Overlong' = Overlong
  BY <1>1, SameTypes DEF app
<1>3. record' \in [busy : BOOLEAN, seq : Seqs, age : 0..Overlong]
  BY DEF rsp_volume_set, rsp_calm_record_get, TypeOK
<1>4. PICK t \in DOMAIN uart : \E frames \in Seq(SocFrames(t)) :
        Answers(t) /\ Respond(frames)
  BY AnswerFrames
<1>5. PICK frames \in Seq(Frames) : Respond(frames)
  BY <1>4, SeqMonotonic DEF SocFrames
<1>6. Now' /\ UNCHANGED connected /\ uart' \in Seq(SocRequests)
  BY <1>1, <1>4, <1>5, AnswerTypes, ResponseTypes DEF app
<1>. QED
  BY <1>1, <1>2, <1>3, <1>6 DEF TypeOK, Now, Ring, heart, loop, app

LEMMA TypeTick == TypeOK /\ Tick => TypeOK'
<1>. SUFFICES ASSUME TypeOK, Tick PROVE TypeOK'
  OBVIOUS
<1>1. /\ UNCHANGED <<link, s_last_seq, bleSeq, g_soc_online, place, sends, bads,
                     links, env>>
      /\ loopAge' = loopAge + 1 /\ loopAge < env.loopTicks
  BY DEF Tick
<1>2. env \in Apps
  BY DEF TypeOK
<1>3. ASSUME NEW most \in Nat, NEW age \in 0..most PROVE Older(age, most) \in 0..most
  BY <1>3 DEF Older
<1>4. uart' \in Seq(SocRequests)
  <2>. DEFINE f(t) == IF uart[t].waiting THEN [uart[t] EXCEPT !.age = @ + 1]
                      ELSE uart[t]
  <2>1. uart \in Seq(SocRequests) /\ uart' = [t \in DOMAIN uart |-> f(t)]
    BY DEF TypeOK, Tick
  <2>2. ASSUME NEW t \in DOMAIN uart PROVE f(t) \in SocRequests
    <3>1. uart[t] \in SocRequests
      BY <2>1, ElementOfSeq, LenProperties
    <3>. QED
      BY <3>1 DEF SocRequests
  <2>. QED
    BY <2>1, <2>2, LenProperties, IsASeq
<1>5. reqs' \in Seq(Requests) /\ Len(reqs') = Len(reqs)
  <2>. DEFINE f(n) == [reqs[n] EXCEPT !.age = Older(@, env.patience)]
  <2>1. reqs \in Seq(Requests) /\ reqs' = [n \in DOMAIN reqs |-> f(n)]
    BY DEF TypeOK, Tick
  <2>2. ASSUME NEW n \in DOMAIN reqs PROVE f(n) \in Requests
    <3>1. reqs[n] \in Requests /\ env.patience \in Nat
      BY <1>2, <2>1, Numbers, ElementOfSeq, LenProperties
    <3>2. Older(reqs[n].age, env.patience) \in 0..env.patience
      BY <1>3, <3>1 DEF Requests
    <3>. QED
      BY <3>1, <3>2 DEF Requests
  <2>3. DOMAIN reqs' = DOMAIN reqs
    BY <2>1
  <2>4. reqs' \in Seq(Requests)
    BY <2>1, <2>2, LenProperties, IsASeq
  <2>. QED
    BY <2>1, <2>3, <2>4, LenProperties
<1>6. record' \in [busy : BOOLEAN, seq : Seqs, age : 0..Overlong]
  <2>1. record \in [busy : BOOLEAN, seq : Seqs, age : 0..Overlong] /\ Overlong \in Nat
    BY <1>2, Numbers DEF TypeOK
  <2>2. Older(record.age, Overlong) \in 0..Overlong
    BY <1>3, <2>1
  <2>. QED
    BY <2>1, <2>2 DEF Tick
<1>7. hbAge' \in 0..(HbTimeout + 1)
  <2>1. hbAge \in 0..(HbTimeout + 1) /\ HbTimeout + 1 \in Nat
    BY ChannelAssumption DEF TypeOK
  <2>. QED
    BY <1>3, <2>1 DEF Tick
<1>8. loopAge' \in 0..env.loopTicks
  <2>1. loopAge \in 0..env.loopTicks /\ env.loopTicks \in Nat
    BY <1>2, Numbers DEF TypeOK
  <2>. QED
    BY <1>1, <2>1
<1>9. /\ Frames' = Frames /\ SocRequests' = SocRequests
      /\ Requests' = Requests /\ Overlong' = Overlong
  BY <1>1, <1>5, SameTypes
<1>. QED
  BY <1>1, <1>4, <1>5, <1>6, <1>7, <1>8, <1>9 DEF TypeOK, link

LEMMA TypeOthers ==
    TypeOK /\ (\/ AppBadFrame \/ ConnectionChange \/ SocWorks \/ cleanup \/ heartbeat
               \/ uart_task_returns \/ time_task \/ UNCHANGED vars) => TypeOK'
<1>. SUFFICES ASSUME TypeOK PROVE
       (\/ AppBadFrame \/ ConnectionChange \/ SocWorks \/ cleanup \/ heartbeat
        \/ uart_task_returns \/ time_task \/ UNCHANGED vars) => TypeOK'
  OBVIOUS
<1>1. env \in Apps
  BY DEF TypeOK
<1>2. ASSUME UNCHANGED <<reqs, env>>
      PROVE  /\ Frames' = Frames /\ SocRequests' = SocRequests
             /\ Requests' = Requests /\ Overlong' = Overlong
  BY <1>2, SameTypes
<1>3. CASE AppBadFrame
  <2>1. PICK cmd \in env.used, seq \in Seqs, e \in {"INTERNAL_ERROR", "LEN_ERROR"} :
          Respond(<<Frame(cmd, seq, e, 0, 0)>>)
    BY <1>3 DEF AppBadFrame
  <2>2. /\ bads' = bads + 1 /\ bads < env.maxBads
        /\ UNCHANGED <<s_last_seq, bleSeq, record, uart, heart, loop, reqs, sends,
                       links, env>>
    BY <1>3 DEF AppBadFrame
  <2>3. Frame(cmd, seq, e, 0, 0) \in Frames
    <3>1. cmd \in Commands /\ e \in Statuses
      BY <1>1, Numbers DEF Statuses
    <3>2. 0 \in 0..Len(reqs) /\ 0 \in 0..(RecordEntries + 1)
      BY ChannelAssumption, LenProperties DEF TypeOK
    <3>. QED
      BY <3>1, <3>2, FrameType
  <2>4. <<Frame(cmd, seq, e, 0, 0)>> \in Seq(Frames)
    BY <2>3
  <2>5. Now' /\ UNCHANGED connected
    BY <2>1, <2>2, <2>4, ResponseTypes
  <2>6. bads' \in 0..env.maxBads
    <3>1. bads \in 0..env.maxBads /\ env.maxBads \in Nat
      BY <1>1, Numbers DEF TypeOK
    <3>. QED
      BY <2>2, <3>1
  <2>. QED
    BY <1>2, <2>2, <2>5, <2>6 DEF TypeOK, Now, Ring, heart, loop
<1>4. CASE ConnectionChange
  <2>1. /\ links' = links + 1 /\ links < env.maxLinks /\ connected' \in BOOLEAN
        /\ UNCHANGED <<sent, g_resp_cache, g_resp_cache_idx, s_last_seq, bleSeq,
                       record, uart, heart, loop, reqs, sends, bads, env>>
    BY <1>4 DEF ConnectionChange
  <2>2. links' \in 0..env.maxLinks
    <3>1. links \in 0..env.maxLinks /\ env.maxLinks \in Nat
      BY <1>1, Numbers DEF TypeOK
    <3>. QED
      BY <2>1, <3>1
  <2>. QED
    BY <1>2, <2>1, <2>2 DEF TypeOK, heart, loop
<1>5. CASE SocWorks
  <2>1. PICK t \in DOMAIN uart, r \in {"done", "refused"} :
          uart' = [uart EXCEPT ![t].soc = r]
    BY <1>5 DEF SocWorks
  <2>2. uart \in Seq(SocRequests) /\ uart[t] \in SocRequests
    BY ElementOfSeq, LenProperties DEF TypeOK
  <2>3. [uart[t] EXCEPT !.soc = r] \in SocRequests
    BY <2>2 DEF SocRequests
  <2>4. uart' = [uart EXCEPT ![t] = [uart[t] EXCEPT !.soc = r]]
    BY <2>1
  <2>5. uart' \in Seq(SocRequests)
    BY <2>2, <2>3, <2>4, EntryTypes
  <2>. QED
    BY <1>2, <1>5, <2>5 DEF SocWorks, TypeOK, link, heart, loop, app
<1>6. CASE cleanup
  <2>. DEFINE f(t) == IF TimedOut(uart[t]) THEN Closed(uart[t]) ELSE uart[t]
  <2>1. uart \in Seq(SocRequests) /\ uart' = [t \in DOMAIN uart |-> f(t)]
    BY <1>6 DEF TypeOK, cleanup
  <2>2. ASSUME NEW t \in DOMAIN uart PROVE f(t) \in SocRequests
    <3>1. uart[t] \in SocRequests
      BY <2>1, ElementOfSeq, LenProperties
    <3>. QED
      BY <3>1 DEF SocRequests, Closed
  <2>3. uart' \in Seq(SocRequests)
    BY <2>1, <2>2, LenProperties, IsASeq
  <2>4. 0 \in 0..env.loopTicks
    BY <1>1, Numbers
  <2>. QED
    BY <1>2, <1>6, <2>3, <2>4 DEF cleanup, TypeOK, link, heart, app
<1>7. CASE heartbeat
  <2>1. 0 \in 0..(HbTimeout + 1)
    BY ChannelAssumption
  <2>. QED
    BY <1>2, <1>7, <2>1 DEF heartbeat, TypeOK, link, loop, app
<1>8. CASE uart_task_returns
  BY <1>2, <1>8 DEF uart_task_returns, TypeOK, link, heart, app
<1>9. CASE time_task
  <2>1. record \in [busy : BOOLEAN, seq : Seqs, age : 0..Overlong]
        /\ hbAge \in 0..(HbTimeout + 1) /\ 0 \in 0..(HbTimeout + 1)
    BY ChannelAssumption DEF TypeOK
  <2>2. record' \in [busy : BOOLEAN, seq : Seqs, age : 0..Overlong]
    BY <1>9, <2>1 DEF time_task
  <2>3. hbAge' \in 0..(HbTimeout + 1) /\ g_soc_online' \in BOOLEAN
    BY <1>9, <2>1 DEF time_task
  <2>4. /\ UNCHANGED <<link, s_last_seq, bleSeq, uart, loopAge, app>>
        /\ place' = "ble"
    BY <1>9 DEF time_task
  <2>. QED
    BY <1>2, <2>2, <2>3, <2>4 DEF TypeOK, link, app
<1>10. CASE UNCHANGED vars
  BY <1>2, <1>10 DEF vars, TypeOK, link, heart, loop, app
<1>. QED
  BY <1>3, <1>4, <1>5, <1>6, <1>7, <1>8, <1>9, <1>10

\* The channel keeps its types, whatever the APP writes and the SOC answers: what
\* is sent and what is kept are frames with numbers of one byte, about commands
\* the APP has sent (app_ctrl.c:1228-1235, 2443-2473).
THEOREM TypeCorrect == Spec => []TypeOK
<1>1. TypeOK /\ [Next]_vars => TypeOK'
  BY TypeAppCommand, TypeAppRepeat, TypeRsp, TypeTick, TypeOthers DEF Next, Loop
<1>. QED
  BY <1>1, TypeInit, PTL DEF Spec

---------------------------------------------------------------------------
\* BUSY passes.  The busy flag is only looked at once a pass, so its age is
\* bounded through the place where the main loop is.

\* Before the cleanup, a flag that survived time_task is no older than the
\* timeout and the pass so far; after it, the last pass adds to that.
Aged == record.busy =>
    /\ place = "ble" => record.age <= RspTimeout + loopAge
    /\ place # "ble" => record.age <= RspTimeout + env.loopTicks + loopAge

\* A handler leaves the flag alone or sets the context anew.
LEMMA HandlersResetAge ==
    ASSUME NEW m, onRx(m)
    PROVE  record' = record
           \/ \E b \in BOOLEAN : record' = [busy |-> b, seq |-> m.seq, age |-> 0]
  BY DEF onRx, rx_repeated, rx_command, Handle, volume_set, reward_flag_get,
         uid_get, calm_record_get, unsupported

LEMMA AgedHolds == Spec => []Aged
<1>1. Init => Aged
  BY DEF Init, Aged
<1>2. TypeOK /\ Aged /\ [Next]_vars => Aged'
  <2>. SUFFICES ASSUME TypeOK, Aged, [Next]_vars PROVE Aged'
    OBVIOUS
  <2>. USE DEF Aged
  <2>0. /\ env.loopTicks \in Nat /\ RspTimeout \in Nat
        /\ loopAge \in 0..env.loopTicks /\ place \in {"ble", "parse", "timer"}
        /\ record \in [busy : BOOLEAN, seq : Seqs, age : 0..Overlong]
        /\ record.age \in Nat
    <3>1. env \in Apps
      BY DEF TypeOK
    <3>2. env.loopTicks \in Nat /\ RspTimeout \in Nat /\ Overlong \in Nat
      BY <3>1, Numbers
    <3>. QED
      BY <3>2 DEF TypeOK
  <2>1. ASSUME NEW m, onRx(m), UNCHANGED <<place, loopAge, env>> PROVE Aged'
    <3>1. CASE record' = record
      BY <2>0, <2>1, <3>1
    <3>2. CASE \E b \in BOOLEAN : record' = [busy |-> b, seq |-> m.seq, age |-> 0]
      BY <2>0, <2>1, <3>2
    <3>. QED
      BY <2>1, <3>1, <3>2, HandlersResetAge
  <2>2. CASE AppCommand
    <3>1. PICK m : onRx(m)
      BY <2>2 DEF AppCommand
    <3>. QED
      BY <2>1, <2>2, <3>1 DEF AppCommand, Writes, loop
  <2>3. CASE AppRepeat
    <3>1. PICK m : onRx(m)
      BY <2>3 DEF AppRepeat
    <3>. QED
      BY <2>1, <2>3, <3>1 DEF AppRepeat, Writes, loop
  <2>4. ASSUME UNCHANGED <<record, place, loopAge, env>> PROVE Aged'
    BY <2>4
  <2>5. CASE AppBadFrame \/ ConnectionChange
    BY <2>4, <2>5 DEF AppBadFrame, ConnectionChange, loop
  <2>6. CASE SocWorks \/ heartbeat \/ rsp_volume_set
    BY <2>4, <2>6 DEF SocWorks, heartbeat, rsp_volume_set, loop, app
  <2>7. CASE cleanup
    BY <2>0, <2>7 DEF cleanup, app
  <2>8. CASE rsp_calm_record_get
    BY <2>0, <2>8 DEF rsp_calm_record_get, loop, app
  <2>9. CASE uart_task_returns
    BY <2>9 DEF uart_task_returns, app
  <2>10. CASE time_task
    <3>1. /\ record' = [record EXCEPT !.busy = record.busy /\ ~RecordStuck]
          /\ place' = "ble" /\ UNCHANGED <<loopAge, env>>
      BY <2>10 DEF time_task, app
    <3>2. record'.busy = (record.busy /\ ~RecordStuck) /\ record'.age = record.age
      BY <2>0, <3>1, Zenon
    <3>3. record'.busy => record.busy /\ ~(record.age > RspTimeout)
      BY <3>2, Zenon DEF RecordStuck
    <3>. QED
      BY <2>0, <3>1, <3>2, <3>3
  <2>11. CASE Tick
    <3>1. /\ record'.busy => record.busy
          /\ record.busy => record'.age = Older(record.age, Overlong)
      BY <2>0, <2>11 DEF Tick
    <3>2. Older(record.age, Overlong) \in 0..(record.age + 1)
      BY <2>0 DEF Older
    <3>3. loopAge' = loopAge + 1 /\ UNCHANGED <<place, env>>
      BY <2>11 DEF Tick
    <3>. QED
      BY <2>0, <3>1, <3>2, <3>3
  <2>12. CASE UNCHANGED vars
    BY <2>4, <2>12 DEF vars, loop, app
  <2>. QED
    BY <2>2, <2>3, <2>5, <2>6, <2>7, <2>8, <2>9, <2>10, <2>11, <2>12 DEF Next, Loop
<1>. QED
  BY <1>1, <1>2, TypeCorrect, PTL DEF Spec

\* The busy flag of CALM_RECORD_GET never outlives its timeout by more than two
\* passes of the main loop, whatever APP and SOC do (app_ctrl.c:2412-2418).
THEOREM BusyPasses == Spec => []BusyIsBrief
<1>1. TypeOK /\ Aged => BusyIsBrief
  <2>. SUFFICES ASSUME TypeOK, Aged, record.busy PROVE record.age <= Longest
    BY DEF BusyIsBrief
  <2>1. env.loopTicks \in Nat /\ RspTimeout \in Nat /\ Overlong \in Nat
    BY Numbers DEF TypeOK
  <2>2. record.age \in 0..Overlong /\ loopAge \in 0..env.loopTicks
    BY DEF TypeOK
  <2>. QED
    BY <2>1, <2>2 DEF Aged, Longest
<1>. QED
  BY <1>1, AgedHolds, TypeCorrect, PTL

---------------------------------------------------------------------------
\* The history of requests only grows: a request keeps its number, an entry of
\* uart keeps the request it came from.

LEMMA Domains ==
    ASSUME TypeOK
    PROVE  /\ DOMAIN reqs = 1..Len(reqs) /\ Len(reqs) \in Nat
           /\ DOMAIN uart = 1..Len(uart) /\ Len(uart) \in Nat
           /\ \A t \in DOMAIN uart : uart[t] \in SocRequests /\ uart[t].of \in 1..Len(reqs)
           /\ \A n \in DOMAIN reqs : reqs[n] \in Requests
<1>1. uart \in Seq(SocRequests) /\ reqs \in Seq(Requests)
  BY DEF TypeOK
<1>2. \A t \in DOMAIN uart : uart[t] \in SocRequests
  BY <1>1, ElementOfSeq, LenProperties
<1>3. \A n \in DOMAIN reqs : reqs[n] \in Requests
  BY <1>1, ElementOfSeq, LenProperties
<1>4. \A t \in DOMAIN uart : uart[t].of \in 1..Len(reqs)
  BY <1>2 DEF SocRequests
<1>. QED
  BY <1>1, <1>2, <1>3, <1>4, LenProperties

\* A new command is the last request, under its own number.
LEMMA CommandSteps ==
    ASSUME TypeOK, AppCommand
    PROVE  \E m :
             /\ onRx(m) /\ Sound(m) /\ UNCHANGED env
             /\ Len(reqs') = Len(reqs) + 1 /\ m.of = Len(reqs')
             /\ m.seq = reqs'[m.of].seq
             /\ \A n \in DOMAIN reqs : reqs'[n] = reqs[n]
<1>1. PICK r : reqs' = Append(reqs, r)
  BY DEF AppCommand
<1>2. onRx(Command(Len(reqs) + 1)) /\ UNCHANGED env
  BY DEF AppCommand, Writes
<1>3. Len(reqs') = Len(reqs) + 1 /\ \A n \in DOMAIN reqs : reqs'[n] = reqs[n]
  BY <1>1, Domains
<1>4. Sound(Command(Len(reqs) + 1))
  <2>1. reqs'[Len(reqs) + 1] \in Requests'
    BY <1>3, Domains, TypeAppCommand, ElementOfSeq DEF TypeOK
  <2>. QED
    BY <1>3, <2>1, Domains DEF Sound, Command, Requests
<1>. QED
  BY <1>2, <1>3, <1>4 DEF Command

\* A repeated command is an earlier request, under its number.
LEMMA RepeatSteps ==
    ASSUME TypeOK, AppRepeat
    PROVE  \E m :
             /\ onRx(m) /\ Sound(m) /\ UNCHANGED env
             /\ m.of \in DOMAIN reqs /\ m.of + env.retryDepth > Len(reqs)
             /\ m.seq = reqs[m.of].seq
             /\ Len(reqs') = Len(reqs) /\ \A n \in DOMAIN reqs : reqs'[n].seq = reqs[n].seq
<1>1. PICK n \in DOMAIN reqs :
        /\ n + env.retryDepth > Len(reqs)
        /\ reqs' = [reqs EXCEPT ![n].age = 0, ![n].mark = Len(sent)]
        /\ onRx(Command(n))
  BY DEF AppRepeat
<1>2. UNCHANGED env
  BY DEF AppRepeat, Writes
<1>3. DOMAIN reqs' = DOMAIN reqs /\ \A k \in DOMAIN reqs : reqs'[k].seq = reqs[k].seq
  <2>1. \A k \in DOMAIN reqs : reqs[k] \in Requests
    BY Domains
  <2>. QED
    BY <1>1, <2>1 DEF Requests
<1>4. Len(reqs') = Len(reqs)
  <2>1. reqs' \in Seq(Requests')
    BY TypeAppRepeat DEF TypeOK
  <2>. QED
    BY <1>3, <2>1, Domains, LenProperties
<1>5. Sound(Command(n))
  <2>1. reqs'[n] \in Requests'
    BY <1>3, <1>4, Domains, TypeAppRepeat, ElementOfSeq DEF TypeOK
  <2>. QED
    BY <1>4, <2>1, Domains DEF Sound, Command, Requests
<1>. QED
  BY <1>1, <1>2, <1>3, <1>4, <1>5 DEF Command

\* All other steps leave the numbers and the origins of the entries alone.
Kept == /\ DOMAIN uart' = DOMAIN uart
        /\ \A t \in DOMAIN uart : uart'[t].of = uart[t].of /\ uart'[t].cmd = uart[t].cmd

LEMMA OtherSteps ==
    ASSUME TypeOK, [Next]_vars, ~AppCommand, ~AppRepeat
    PROVE  /\ Kept /\ UNCHANGED <<s_last_seq, env>>
           /\ Len(reqs') = Len(reqs) /\ \A n \in DOMAIN reqs : reqs'[n].seq = reqs[n].seq
<1>1. CASE UNCHANGED <<uart, s_last_seq, reqs, env>>
  BY <1>1 DEF Kept
<1>2. CASE Tick
  <2>1. Len(reqs') = Len(reqs)
    <3>1. reqs' \in Seq(Requests') /\ DOMAIN reqs' = DOMAIN reqs
      BY <1>2, TypeTick DEF TypeOK, Tick
    <3>. QED
      BY <3>1, Domains, LenProperties
  <2>2. \A n \in DOMAIN reqs : reqs'[n].seq = reqs[n].seq
    <3>1. \A n \in DOMAIN reqs : reqs[n] \in Requests
      BY Domains
    <3>. QED
      BY <1>2, <3>1 DEF Tick, Requests
  <2>3. Kept
    <3>1. \A t \in DOMAIN uart : uart[t] \in SocRequests
      BY Domains
    <3>. QED
      BY <1>2, <3>1 DEF Tick, Kept, SocRequests
  <2>. QED
    BY <1>2, <2>1, <2>2, <2>3 DEF Tick
<1>3. CASE SocWorks \/ cleanup \/ rsp_volume_set \/ rsp_calm_record_get
  <2>1. \A t \in DOMAIN uart : uart[t] \in SocRequests
    BY Domains
  <2>2. UNCHANGED <<s_last_seq, reqs, env>>
    BY <1>3 DEF SocWorks, cleanup, rsp_volume_set, rsp_calm_record_get, app
  <2>3. ASSUME SocWorks PROVE Kept
    BY <2>1, <2>3 DEF SocWorks, Kept, SocRequests
  <2>4. ASSUME cleanup PROVE Kept
    BY <2>1, <2>4 DEF cleanup, Closed, Kept, SocRequests
  <2>5. ASSUME rsp_volume_set \/ rsp_calm_record_get PROVE Kept
    <3>1. PICK t \in DOMAIN uart : Answers(t)
      BY <2>5 DEF rsp_volume_set, rsp_calm_record_get
    <3>. QED
      BY <2>1, <3>1 DEF Answers, Closed, Kept, SocRequests
  <2>. QED
    BY <1>3, <2>2, <2>3, <2>4, <2>5
<1>4. CASE AppBadFrame \/ ConnectionChange \/ heartbeat \/ uart_task_returns \/ time_task
  BY <1>1, <1>4 DEF AppBadFrame, ConnectionChange, heartbeat, uart_task_returns,
                    time_task, app
<1>5. CASE UNCHANGED vars
  BY <1>1, <1>5 DEF vars, app
<1>. QED
  BY <1>2, <1>3, <1>4, <1>5 DEF Next, Loop

\* A handler sends at most one request to the SOC, and then answers nothing.
LEMMA HandlersAppend ==
    ASSUME NEW m, onRx(m)
    PROVE  \/ UNCHANGED uart
           \/ ~Repeated(m) /\ SendToSoc(m) /\ UNCHANGED link
  BY DEF onRx, rx_repeated, rx_command, Handle, volume_set, reward_flag_get,
         uid_get, calm_record_get, unsupported

---------------------------------------------------------------------------
\* An APP that repeats its last command only: the filter knows its number.

LastRemembered ==
    env.retryDepth <= 1 /\ reqs # << >> => s_last_seq = reqs[Len(reqs)].seq

LEMMA RxRemembers ==
    ASSUME NEW m, onRx(m)
    PROVE  s_last_seq' = m.seq
  BY DEF onRx, rx_repeated, rx_command, Repeated

LEMMA LastHolds == Spec => []LastRemembered
<1>1. Init => LastRemembered
  BY DEF Init, LastRemembered
<1>2. TypeOK /\ LastRemembered /\ [Next]_vars => LastRemembered'
  <2>. SUFFICES ASSUME TypeOK, LastRemembered, [Next]_vars, env'.retryDepth <= 1,
                       reqs' # << >>
                PROVE  s_last_seq' = reqs'[Len(reqs')].seq
    BY DEF LastRemembered
  <2>1. CASE AppCommand
    BY <2>1, CommandSteps, RxRemembers
  <2>2. CASE AppRepeat
    <3>1. PICK m :
            /\ onRx(m) /\ UNCHANGED env
            /\ m.of \in DOMAIN reqs /\ m.of + env.retryDepth > Len(reqs)
            /\ m.seq = reqs[m.of].seq
            /\ Len(reqs') = Len(reqs)
            /\ \A n \in DOMAIN reqs : reqs'[n].seq = reqs[n].seq
      BY <2>2, RepeatSteps
    <3>2. env.retryDepth \in Nat /\ env.retryDepth <= 1
      BY <3>1, Numbers DEF TypeOK
    <3>3. m.of = Len(reqs)
      BY <3>1, <3>2, Domains
    <3>. QED
      BY <3>1, <3>3, RxRemembers
  <2>3. CASE ~AppCommand /\ ~AppRepeat
    <3>1. /\ UNCHANGED <<s_last_seq, env>> /\ Len(reqs') = Len(reqs)
          /\ \A n \in DOMAIN reqs : reqs'[n].seq = reqs[n].seq
      BY <2>3, OtherSteps
    <3>2. reqs # << >>
      <4>1. reqs' \in Seq(Requests') \/ reqs' = reqs
        BY TypeTick, <2>3 DEF TypeOK, Next, Loop, vars, app, AppBadFrame,
           ConnectionChange, SocWorks, cleanup, heartbeat, rsp_volume_set,
           rsp_calm_record_get, uart_task_returns, time_task
      <4>. QED
        BY <3>1, <4>1, EmptySeq, LenProperties
    <3>3. Len(reqs) \in DOMAIN reqs
      BY <3>2, EmptySeq DEF TypeOK
    <3>. QED
      BY <3>1, <3>2, <3>3 DEF LastRemembered
  <2>. QED
    BY <2>1, <2>2, <2>3
<1>. QED
  BY <1>1, <1>2, TypeCorrect, PTL DEF Spec

\* No request has two entries.
OneEntry ==
    env.retryDepth <= 1 =>
    \A t, u \in DOMAIN uart : uart[t].of = uart[u].of => t = u

\* A step that leaves uart and its APP as they are, or one that adds an entry for a
\* request of which there is none yet.
LEMMA EntrySteps ==
    ASSUME TypeOK, LastRemembered, [Next]_vars, env.retryDepth <= 1
    PROVE  \/ Kept
           \/ \E m : /\ SendToSoc(m) /\ m.of = Len(reqs) + 1
<1>1. CASE AppCommand
  <2>1. PICK m : onRx(m) /\ m.of = Len(reqs) + 1
    BY <1>1, CommandSteps
  <2>. QED
    BY <2>1, HandlersAppend DEF Kept
<1>2. CASE AppRepeat
  <2>1. PICK m :
          /\ onRx(m) /\ m.of \in DOMAIN reqs /\ m.of + env.retryDepth > Len(reqs)
          /\ m.seq = reqs[m.of].seq
    BY <1>2, RepeatSteps
  <2>2. env.retryDepth \in Nat
    BY Numbers DEF TypeOK
  <2>3. m.of = Len(reqs) /\ reqs # << >>
    BY <2>1, <2>2, Domains
  <2>4. Repeated(m)
    BY <2>1, <2>3 DEF LastRemembered, Repeated
  <2>. QED
    BY <2>1, <2>4, HandlersAppend DEF Kept
<1>. QED
  BY <1>1, <1>2, OtherSteps

LEMMA NewEntry ==
    ASSUME TypeOK, NEW m, SendToSoc(m)
    PROVE  /\ DOMAIN uart' = 1..(Len(uart) + 1) /\ Len(uart) \in Nat
           /\ DOMAIN uart = 1..Len(uart)
           /\ uart'[Len(uart) + 1].of = m.of /\ uart'[Len(uart) + 1].cmd = m.cmd
           /\ uart'[Len(uart) + 1].age = 0
           /\ \A t \in DOMAIN uart : uart'[t] = uart[t]
  BY Domains, AppendProperties DEF SendToSoc, TypeOK

LEMMA EnvStays ==
    ASSUME TypeOK, [Next]_vars
    PROVE  UNCHANGED env
  BY CommandSteps, RepeatSteps, OtherSteps

LEMMA OneEntryHolds == Spec => []OneEntry
<1>1. Init => OneEntry
  BY DEF Init, OneEntry
<1>2. TypeOK /\ LastRemembered /\ OneEntry /\ [Next]_vars => OneEntry'
  <2>. SUFFICES ASSUME TypeOK, LastRemembered, OneEntry, [Next]_vars,
                       env.retryDepth <= 1,
                       NEW t \in DOMAIN uart', NEW u \in DOMAIN uart',
                       uart'[t].of = uart'[u].of
                PROVE  t = u
    BY EnvStays DEF OneEntry
  <2>1. CASE Kept
    BY <2>1 DEF Kept, OneEntry
  <2>2. ASSUME NEW m, SendToSoc(m), m.of = Len(reqs) + 1 PROVE t = u
    <3>1. \A k \in DOMAIN uart : uart[k].of < m.of
      BY <2>2, Domains
    <3>. QED
      BY <2>2, <3>1, NewEntry DEF OneEntry
  <2>. QED
    BY <2>1, <2>2, EntrySteps
<1>. QED
  BY <1>1, <1>2, TypeCorrect, LastHolds, PTL DEF Spec

\* An APP that repeats only its last command has nothing carried out twice,
\* whatever is lost, evicted or disconnected in between (app_ctrl.c:2456-2473).
THEOREM CarriedOutOnce == Spec => []AtMostOnce
<1>1. OneEntry => AtMostOnce
  <2>. SUFFICES ASSUME OneEntry, env.retryDepth <= 1, NEW n \in DOMAIN reqs
                PROVE  Cardinality({t \in DOMAIN uart : /\ uart[t].of = n
                                                        /\ uart[t].soc = "done"}) <= 1
    BY DEF AtMostOnce
  <2>. DEFINE D == {t \in DOMAIN uart : uart[t].of = n /\ uart[t].soc = "done"}
  <2>0. Cardinality({}) = 0
    BY FS_EmptySet
  <2>1. ASSUME D = {} PROVE Cardinality(D) = 0
    BY <2>0, <2>1
  <2>2. ASSUME NEW t \in D PROVE Cardinality(D) = 1
    <3>1. D = {t}
      BY <2>2 DEF OneEntry
    <3>. QED
      BY <3>1, FS_Singleton
  <2>3. Cardinality(D) \in {0, 1}
    BY <2>1, <2>2
  <2>. HIDE DEF D
  <2>4. Cardinality(D) <= 1
    BY <2>3
  <2>. QED
    BY <2>4 DEF D
<1>. QED
  BY <1>1, OneEntryHolds, PTL

---------------------------------------------------------------------------
\* Which frames an APP's command puts into the log and the ring

LEMMA RepeatedKeeps ==
    ASSUME NEW S, sent \in Seq(S), g_resp_cache \in Ring(S), NEW m, rx_repeated(m),
           Frame(m.cmd, m.seq, "OK", m.of, 0) \in S
    PROVE  sent' \in Seq(S) /\ g_resp_cache' \in Ring(S)
<1>1. CASE Reply(m, "OK")
  BY <1>1, ReplyKeeps
<1>2. ASSUME NEW i \in DOMAIN g_resp_cache, FirstCached(i, m.cmd, m.seq),
             Deliver(<<g_resp_cache[i]>>), UNCHANGED g_resp_cache
      PROVE  sent' \in Seq(S) /\ g_resp_cache' \in Ring(S)
  BY <1>2, ResendKeeps DEF FirstCached, Cached
<1>. QED
  BY <1>1, <1>2 DEF rx_repeated

LEMMA CommandKeeps ==
    ASSUME NEW S, sent \in Seq(S), g_resp_cache \in Ring(S), NEW m, Handle(m),
           \A st \in Statuses, p \in {0, 1} : Frame(m.cmd, m.seq, st, m.of, p) \in S
    PROVE  sent' \in Seq(S) /\ g_resp_cache' \in Ring(S)
<1>1. ASSUME NEW st \in Statuses, Reply(m, st)
      PROVE  sent' \in Seq(S) /\ g_resp_cache' \in Ring(S)
  BY <1>1, ReplyKeeps
<1>2. ASSUME UNCHANGED link PROVE sent' \in Seq(S) /\ g_resp_cache' \in Ring(S)
  BY <1>2 DEF link
<1>. DEFINE two == [k \in 1..2 |-> Frame(UidGet, m.seq, "OK", m.of, k - 1)]
<1>3. ASSUME m.cmd = UidGet, Respond(two)
      PROVE  sent' \in Seq(S) /\ g_resp_cache' \in Ring(S)
  <2>1. \A k \in 1..2 : k - 1 \in {0, 1}
    OBVIOUS
  <2>2. \A k \in 1..2 : Frame(UidGet, m.seq, "OK", m.of, k - 1) \in S
    BY <1>3, <2>1 DEF Statuses
  <2>3. two \in Seq(S)
    BY <2>2, IsASeq
  <2>. QED
    BY <1>3, <2>3, RespondKeeps
<1>4. CASE volume_set(m)
  BY <1>1, <1>2, <1>4 DEF volume_set, Statuses
<1>5. CASE reward_flag_get(m)
  BY <1>1, <1>5 DEF reward_flag_get, Statuses
<1>6. CASE uid_get(m)
  BY <1>1, <1>3, <1>6 DEF uid_get, Statuses
<1>7. CASE calm_record_get(m)
  BY <1>1, <1>2, <1>7 DEF calm_record_get, Statuses
<1>8. CASE unsupported(m)
  BY <1>1, <1>8 DEF unsupported, Statuses
<1>. QED
  BY <1>4, <1>5, <1>6, <1>7, <1>8 DEF Handle

\* The frames about m are well typed once m is a request.
LEMMA SoundFrames ==
    ASSUME TypeOK, NEW m, Sound(m), NEW st \in Statuses, NEW p \in {0, 1}
    PROVE  Frame(m.cmd, m.seq, st, m.of, p) \in Frames'
<1>1. p \in 0..(RecordEntries + 1) /\ m.of \in 0..Len(reqs')
  BY ChannelAssumption DEF Sound
<1>. QED
  BY <1>1 DEF Frame, Frames, Sound

\* All other steps write into the log and the ring either nothing, the answer to
\* a bad frame, or what the SOC has answered.
LEMMA QuietSteps ==
    ASSUME TypeOK, [Next]_vars, ~AppCommand, ~AppRepeat
    PROVE  \/ UNCHANGED <<sent, g_resp_cache>>
           \/ \E cmd \in Commands, seq \in Seqs, e \in {"INTERNAL_ERROR", "LEN_ERROR"} :
                Respond(<<Frame(cmd, seq, e, 0, 0)>>)
           \/ rsp_volume_set \/ rsp_calm_record_get
<1>1. CASE AppBadFrame
  <2>1. \A c \in env.used : c \in Commands
    BY Numbers DEF TypeOK
  <2>. QED
    BY <1>1, <2>1 DEF AppBadFrame
<1>2. CASE \/ ConnectionChange \/ SocWorks \/ cleanup \/ heartbeat \/ uart_task_returns
           \/ time_task \/ Tick \/ UNCHANGED vars
  BY <1>2 DEF ConnectionChange, SocWorks, cleanup, heartbeat, uart_task_returns,
              time_task, Tick, vars, link
<1>. QED
  BY <1>1, <1>2 DEF Next, Loop

\* The history of requests never shrinks.
LEMMA ReqsGrow ==
    ASSUME TypeOK, [Next]_vars
    PROVE  /\ Len(reqs) \in Nat /\ Len(reqs') \in Nat /\ Len(reqs') >= Len(reqs)
           /\ \A n \in 1..Len(reqs) : reqs'[n].seq = reqs[n].seq
<1>1. CASE AppCommand
  BY <1>1, CommandSteps, Domains
<1>2. CASE AppRepeat
  BY <1>2, RepeatSteps, Domains
<1>3. CASE ~AppCommand /\ ~AppRepeat
  BY <1>3, OtherSteps, Domains
<1>. QED
  BY <1>1, <1>2, <1>3

LEMMA RingGrows ==
    ASSUME NEW S, NEW T, S \subseteq T
    PROVE  Seq(S) \subseteq Seq(T) /\ Ring(S) \subseteq Ring(T)
  BY SeqMonotonic DEF Ring

---------------------------------------------------------------------------
\* What was refused stays refused: of the requests the MCU turned down, none has
\* an entry.

Refusals == {"PARAM_ERROR", "BUSY", "SOC_TIMEOUT"}

Honest == {f \in Frames : f.status \in Refusals
                          => \A t \in DOMAIN uart : uart[t].of # f.of}

AllHonest == env.retryDepth <= 1 => sent \in Seq(Honest) /\ g_resp_cache \in Ring(Honest)

LEMMA HonestGrows ==
    ASSUME TypeOK, LastRemembered, [Next]_vars, env.retryDepth <= 1
    PROVE  Honest \subseteq Honest'
<1>. SUFFICES ASSUME NEW f \in Honest PROVE f \in Honest'
  OBVIOUS
<1>1. f \in Frames /\ f.of \in 0..Len(reqs)
  BY DEF Honest, Frames
<1>2. f \in Frames'
  BY <1>1, ReqsGrow DEF Frames
<1>3. CASE Kept
  BY <1>2, <1>3 DEF Honest, Kept
<1>4. ASSUME NEW m, SendToSoc(m), m.of = Len(reqs) + 1 PROVE f \in Honest'
  <2>1. m.of # f.of
    BY <1>1, <1>4, Domains
  <2>2. \A t \in DOMAIN uart' : t \in DOMAIN uart \/ t = Len(uart) + 1
    BY <1>4, NewEntry
  <2>. QED
    BY <1>2, <1>4, <2>1, <2>2, NewEntry DEF Honest
<1>. QED
  BY <1>3, <1>4, EntrySteps

LEMMA HonestHolds == Spec => []AllHonest
<1>1. Init => AllHonest
  BY EmptySeq DEF Init, AllHonest, Ring
<1>2. TypeOK /\ LastRemembered /\ AllHonest /\ [Next]_vars => AllHonest'
  <2>. SUFFICES ASSUME TypeOK, LastRemembered, AllHonest, [Next]_vars,
                       env.retryDepth <= 1
                PROVE  sent' \in Seq(Honest') /\ g_resp_cache' \in Ring(Honest')
    BY EnvStays DEF AllHonest, Ring
  <2>. DEFINE S == Honest'
  <2>1. sent \in Seq(S) /\ g_resp_cache \in Ring(S)
    BY HonestGrows, RingGrows DEF AllHonest
  <2>2. CASE AppCommand
    <3>1. PICK m : onRx(m) /\ Sound(m) /\ m.of = Len(reqs) + 1
      BY <2>2, CommandSteps
    <3>2. CASE UNCHANGED link
      BY <2>1, <3>2 DEF link
    <3>3. CASE UNCHANGED uart
      <4>1. ASSUME NEW st \in Statuses, NEW p \in {0, 1}
            PROVE  Frame(m.cmd, m.seq, st, m.of, p) \in S
        <5>1. \A t \in DOMAIN uart : uart[t].of # m.of
          BY <3>1, Domains
        <5>. QED
          BY <3>1, <3>3, <5>1, SoundFrames DEF Honest, Frame
      <4>2. CASE rx_repeated(m)
        BY <2>1, <4>1, <4>2, RepeatedKeeps DEF Statuses
      <4>3. CASE rx_command(m)
        <5>1. Handle(m)
          BY <4>3 DEF rx_command
        <5>. QED
          BY <2>1, <4>1, <5>1, CommandKeeps
      <4>. QED
        BY <3>1, <4>2, <4>3 DEF onRx
    <3>. QED
      BY <3>1, <3>2, <3>3, HandlersAppend
  <2>3. CASE AppRepeat
    <3>1. PICK m : /\ onRx(m) /\ Sound(m)
                   /\ m.of \in DOMAIN reqs /\ m.of + env.retryDepth > Len(reqs)
                   /\ m.seq = reqs[m.of].seq
      BY <2>3, RepeatSteps
    <3>2. env.retryDepth \in Nat
      BY Numbers DEF TypeOK
    <3>3. m.of = Len(reqs) /\ reqs # << >>
      BY <3>1, <3>2, Domains
    <3>4. rx_repeated(m)
      BY <3>1, <3>3 DEF LastRemembered, onRx, rx_command, Repeated
    <3>5. Frame(m.cmd, m.seq, "OK", m.of, 0) \in S
      BY <3>1, SoundFrames DEF Honest, Frame, Statuses, Refusals
    <3>. QED
      BY <2>1, <3>4, <3>5, RepeatedKeeps
  <2>4. ASSUME NEW cmd \in Commands, NEW seq \in Seqs,
               NEW e \in {"INTERNAL_ERROR", "LEN_ERROR"},
               Respond(<<Frame(cmd, seq, e, 0, 0)>>)
        PROVE  sent' \in Seq(S) /\ g_resp_cache' \in Ring(S)
    <3>1. 0 \in 0..Len(reqs') /\ 0 \in 0..(RecordEntries + 1)
      BY ReqsGrow, ChannelAssumption
    <3>2. Frame(cmd, seq, e, 0, 0) \in S
      BY <3>1 DEF Honest, Frame, Frames, Statuses, Refusals
    <3>3. <<Frame(cmd, seq, e, 0, 0)>> \in Seq(S)
      BY <3>2
    <3>. QED
      BY <2>1, <2>4, <3>3, RespondKeeps
  <2>5. CASE rsp_volume_set \/ rsp_calm_record_get
    <3>1. PICK t \in DOMAIN uart : \E frames \in Seq(SocFrames(t)) : Respond(frames)
      BY <2>5, AnswerFrames
    <3>2. SocFrames(t) \subseteq S
      BY HonestGrows DEF SocFrames, Honest, Refusals
    <3>3. PICK frames \in Seq(S) : Respond(frames)
      BY <3>1, <3>2, SeqMonotonic
    <3>. QED
      BY <2>1, <3>3, RespondKeeps
  <2>6. CASE UNCHANGED <<sent, g_resp_cache>>
    BY <2>1, <2>6
  <2>. QED
    BY <2>2, <2>3, <2>4, <2>5, <2>6, QuietSteps
<1>. QED
  BY <1>1, <1>2, TypeCorrect, LastHolds, PTL DEF Spec

\* What the MCU turned down (SOC offline, no slot, BUSY, a bad payload) it does not
\* pass on to the SOC when the APP repeats its last frame (app_ctrl.c:2456-2473).
THEOREM NotDoneAfterAll == Spec => []RefusedStaysRefused
<1>1. AllHonest => RefusedStaysRefused
  <2>. SUFFICES ASSUME sent \in Seq(Honest), NEW k \in DOMAIN sent, NEW t \in DOMAIN uart,
                       sent[k].status \in Refusals
                PROVE  uart[t].of # sent[k].of
    BY DEF AllHonest, RefusedStaysRefused, Refusals
  <2>1. sent[k] \in Honest
    BY ElementOfSeq, LenProperties
  <2>. QED
    BY <2>1 DEF Honest
<1>. QED
  BY <1>1, HonestHolds, PTL

---------------------------------------------------------------------------
\* The context of CALM_RECORD_GET.  A waiting request is as good as lost once it
\* is overdue and the cleanup comes next; of the others there is at most one, and
\* the context is its own for as long as it may be answered.

Live(t) == /\ uart[t].waiting /\ uart[t].cmd = RecordGet
           /\ ~(place = "ble" /\ uart[t].age > RspTimeout)

Owns(t) == /\ record.busy /\ record.seq = reqs[uart[t].of].seq
           /\ record.age <= uart[t].age

Context == \A t \in DOMAIN uart :
             Live(t) => Owns(t) /\ \A u \in DOMAIN uart : Live(u) => u = t

\* A handler touches the context only while the flag is down, and asks the SOC for
\* a record only after raising it.
LEMMA HandlersOwn ==
    ASSUME NEW m, onRx(m)
    PROVE  \/ UNCHANGED <<record, uart>>
           \/ UNCHANGED record /\ SendToSoc(m) /\ m.cmd # RecordGet
           \/ ~record.busy /\ UNCHANGED uart
           \/ /\ ~record.busy /\ SendToSoc(m) /\ m.cmd = RecordGet
              /\ record' = [busy |-> TRUE, seq |-> m.seq, age |-> 0]
  BY ChannelAssumption DEF onRx, rx_repeated, rx_command, Handle, volume_set,
     reward_flag_get, uid_get, calm_record_get, unsupported

\* A step after which every live entry was live before, and is owned if it was.
LEMMA NothingNew ==
    ASSUME Context, DOMAIN uart' = DOMAIN uart,
           \A t \in DOMAIN uart : Live(t)' => Live(t) /\ (Owns(t) => Owns(t)')
    PROVE  Context'
  BY DEF Context

LEMMA ContextOnRx ==
    ASSUME TypeOK, Context, [Next]_vars, NEW m, onRx(m), m.seq = reqs'[m.of].seq,
           place = "ble", UNCHANGED place
    PROVE  Context'
<1>1. \A t \in DOMAIN uart : /\ uart[t].of \in 1..Len(reqs)
                             /\ reqs'[uart[t].of].seq = reqs[uart[t].of].seq
  BY Domains, ReqsGrow
<1>2. CASE UNCHANGED <<record, uart>>
  BY <1>1, <1>2, NothingNew DEF Live, Owns
<1>3. CASE UNCHANGED record /\ SendToSoc(m) /\ m.cmd # RecordGet
  <2>1. /\ DOMAIN uart' = 1..(Len(uart) + 1) /\ DOMAIN uart = 1..Len(uart)
        /\ Len(uart) \in Nat /\ uart'[Len(uart) + 1].cmd # RecordGet
        /\ \A t \in DOMAIN uart : uart'[t] = uart[t]
    BY <1>3, NewEntry
  <2>2. \A t \in DOMAIN uart' : Live(t)' => t \in DOMAIN uart /\ Live(t)
    BY <1>3, <2>1 DEF Live
  <2>3. \A t \in DOMAIN uart : Owns(t) => Owns(t)'
    BY <1>1, <1>3, <2>1 DEF Owns
  <2>. QED
    BY <2>2, <2>3 DEF Context
<1>4. CASE ~record.busy /\ UNCHANGED uart
  <2>1. \A t \in DOMAIN uart : ~Live(t)
    BY <1>4 DEF Context, Owns
  <2>2. \A t \in DOMAIN uart' : ~Live(t)'
    BY <1>4, <2>1 DEF Live
  <2>. QED
    BY <2>2 DEF Context
<1>5. CASE /\ ~record.busy /\ SendToSoc(m) /\ m.cmd = RecordGet
           /\ record' = [busy |-> TRUE, seq |-> m.seq, age |-> 0]
  <2>1. /\ DOMAIN uart' = 1..(Len(uart) + 1) /\ DOMAIN uart = 1..Len(uart)
        /\ Len(uart) \in Nat
        /\ uart'[Len(uart) + 1].of = m.of /\ uart'[Len(uart) + 1].age = 0
        /\ \A t \in DOMAIN uart : uart'[t] = uart[t]
    BY <1>5, NewEntry
  <2>2. \A t \in DOMAIN uart : ~Live(t)
    BY <1>5 DEF Context, Owns
  <2>3. \A t \in DOMAIN uart' : Live(t)' => t = Len(uart) + 1
    BY <2>1, <2>2 DEF Live
  <2>4. ASSUME NEW t, t = Len(uart) + 1 PROVE Owns(t)'
    BY <1>5, <2>1, <2>4 DEF Owns
  <2>. QED
    BY <2>3, <2>4 DEF Context
<1>. QED
  BY <1>2, <1>3, <1>4, <1>5, HandlersOwn

LEMMA ContextTick ==
    ASSUME TypeOK, Context, Tick
    PROVE  Context'
<1>1. \A t \in DOMAIN uart : uart[t] \in SocRequests /\ uart[t].of \in 1..Len(reqs)
  BY Domains
<1>2. \A n \in 1..Len(reqs) : reqs'[n].seq = reqs[n].seq
  BY ReqsGrow DEF Next
<1>3. /\ DOMAIN uart' = DOMAIN uart /\ UNCHANGED place
      /\ \A t \in DOMAIN uart :
           uart'[t] = IF uart[t].waiting THEN [uart[t] EXCEPT !.age = @ + 1]
                      ELSE uart[t]
  BY DEF Tick
<1>4. \A t \in DOMAIN uart :
        /\ uart'[t].of = uart[t].of /\ uart'[t].cmd = uart[t].cmd
        /\ uart'[t].waiting = uart[t].waiting
        /\ uart[t].age \in Nat /\ RspTimeout \in Nat
        /\ uart[t].waiting => uart'[t].age = uart[t].age + 1
        /\ ~uart[t].waiting => uart'[t].age = uart[t].age
  BY <1>1, <1>3, ChannelAssumption DEF SocRequests
<1>5. record.busy =>
        /\ record'.busy /\ record'.seq = record.seq
        /\ record.age \in Nat /\ record'.age \in 0..(record.age + 1)
  <2>1. /\ record \in [busy : BOOLEAN, seq : Seqs, age : 0..Overlong]
        /\ Overlong \in Nat
    BY Numbers DEF TypeOK
  <2>2. Older(record.age, Overlong) \in 0..(record.age + 1)
    BY <2>1 DEF Older
  <2>. QED
    BY <2>1, <2>2 DEF Tick
<1>6. ASSUME NEW t \in DOMAIN uart, Live(t)' PROVE Live(t) /\ (Owns(t) => Owns(t)')
  <2>1. Live(t)
    BY <1>3, <1>4, <1>6 DEF Live
  <2>2. ASSUME Owns(t) PROVE Owns(t)'
    BY <1>1, <1>2, <1>4, <1>5, <2>1, <2>2 DEF Owns, Live
  <2>. QED
    BY <2>1, <2>2
<1>. QED
  BY <1>3, <1>6, NothingNew

LEMMA ContextHolds == Spec => []Context
<1>1. Init => Context
  BY DEF Init, Context
<1>2. TypeOK /\ Context /\ [Next]_vars => Context'
  <2>. SUFFICES ASSUME TypeOK, Context, [Next]_vars PROVE Context'
    OBVIOUS
  <2>1. \A t \in DOMAIN uart : uart[t] \in SocRequests /\ uart[t].of \in 1..Len(reqs)
    BY Domains
  <2>2. record \in [busy : BOOLEAN, seq : Seqs, age : 0..Overlong]
    BY DEF TypeOK
  <2>3. CASE AppCommand
    <3>1. place = "ble" /\ UNCHANGED place
      BY <2>3 DEF AppCommand, Writes, loop
    <3>2. PICK m : onRx(m) /\ m.seq = reqs'[m.of].seq
      BY <2>3, CommandSteps
    <3>. QED
      BY <3>1, <3>2, ContextOnRx
  <2>4. CASE AppRepeat
    <3>1. place = "ble" /\ UNCHANGED place
      BY <2>4 DEF AppRepeat, Writes, loop
    <3>2. PICK m : onRx(m) /\ m.seq = reqs'[m.of].seq
      BY <2>4, RepeatSteps
    <3>. QED
      BY <3>1, <3>2, ContextOnRx
  <2>5. CASE Tick
    BY <2>5, ContextTick
  <2>6. CASE SocWorks
    <3>1. /\ DOMAIN uart' = DOMAIN uart /\ UNCHANGED <<record, reqs, place>>
          /\ \A t \in DOMAIN uart :
               /\ uart'[t].waiting = uart[t].waiting /\ uart'[t].cmd = uart[t].cmd
               /\ uart'[t].of = uart[t].of /\ uart'[t].age = uart[t].age
      BY <2>1, <2>6 DEF SocWorks, SocRequests, app, loop
    <3>. QED
      BY <3>1, NothingNew DEF Live, Owns
  <2>7. CASE cleanup
    <3>1. /\ DOMAIN uart' = DOMAIN uart /\ UNCHANGED <<record, reqs>>
          /\ place = "ble"
          /\ \A t \in DOMAIN uart :
               uart'[t] = IF TimedOut(uart[t]) THEN Closed(uart[t]) ELSE uart[t]
      BY <2>7 DEF cleanup, app
    <3>2. \A t \in DOMAIN uart : Live(t)' => uart'[t] = uart[t] /\ ~TimedOut(uart[t])
      BY <2>1, <3>1 DEF Live, Closed, SocRequests
    <3>3. \A t \in DOMAIN uart : Live(t)' => Live(t) /\ (Owns(t) => Owns(t)')
      BY <3>1, <3>2 DEF Live, Owns, TimedOut
    <3>. QED
      BY <3>1, <3>3, NothingNew
  <2>8. CASE rsp_volume_set
    <3>1. PICK u \in DOMAIN uart : Answers(u)
      BY <2>8 DEF rsp_volume_set
    <3>2. UNCHANGED <<record, reqs, place>>
      BY <2>8 DEF rsp_volume_set, app, loop
    <3>3. /\ DOMAIN uart' = DOMAIN uart
          /\ \A t \in DOMAIN uart : uart'[t].waiting => uart'[t] = uart[t]
      BY <2>1, <3>1 DEF Answers, Closed, SocRequests
    <3>. QED
      BY <3>2, <3>3, NothingNew DEF Live, Owns
  <2>9. CASE rsp_calm_record_get
    <3>1. PICK u \in DOMAIN uart : Answers(u) /\ uart[u].cmd = RecordGet
      BY <2>9 DEF rsp_calm_record_get
    <3>2. UNCHANGED place /\ place = "parse"
      BY <2>9 DEF rsp_calm_record_get, loop, Answers
    <3>3. /\ DOMAIN uart' = DOMAIN uart /\ ~uart'[u].waiting
          /\ \A t \in DOMAIN uart : uart'[t].waiting => uart'[t] = uart[t]
      BY <2>1, <3>1 DEF Answers, Closed, SocRequests
    <3>4. Live(u)
      BY <3>1, <3>2 DEF Live, Answers, Waiting
    <3>5. \A t \in DOMAIN uart : ~Live(t)'
      <4>1. ASSUME NEW t \in DOMAIN uart, Live(t)' PROVE FALSE
        <5>1. Live(t)
          BY <3>2, <3>3, <4>1 DEF Live
        <5>2. t = u
          BY <3>4, <5>1 DEF Context
        <5>. QED
          BY <3>3, <4>1, <5>2 DEF Live
      <4>. QED
        BY <4>1
    <3>. QED
      BY <3>3, <3>5 DEF Context
  <2>10. CASE time_task
    <3>1. /\ UNCHANGED <<uart, reqs>> /\ place = "timer" /\ place' = "ble"
          /\ record' = [record EXCEPT !.busy = record.busy /\ ~RecordStuck]
      BY <2>10 DEF time_task, app
    <3>2. /\ record'.busy = (record.busy /\ ~RecordStuck)
          /\ record'.seq = record.seq /\ record'.age = record.age
      BY <2>2, <3>1, Zenon
    <3>3. ASSUME NEW t \in DOMAIN uart, Live(t)' PROVE Live(t) /\ (Owns(t) => Owns(t)')
      <4>1. Live(t) /\ ~(uart[t].age > RspTimeout)
        BY <3>1, <3>3 DEF Live
      <4>2. ASSUME Owns(t) PROVE Owns(t)'
        <5>1. uart[t].age \in Nat /\ record.age \in Nat /\ RspTimeout \in Nat
          BY <2>1, <2>2, Numbers DEF SocRequests, TypeOK
        <5>2. ~(record.age > RspTimeout)
          BY <4>1, <4>2, <5>1 DEF Owns
        <5>3. record'.busy
          BY <3>2, <4>2, <5>2, Zenon DEF Owns, RecordStuck
        <5>. QED
          BY <3>1, <3>2, <4>2, <5>3 DEF Owns
      <4>. QED
        BY <4>1, <4>2
    <3>. QED
      BY <3>1, <3>3, NothingNew
  <2>11. CASE uart_task_returns
    <3>1. UNCHANGED <<uart, record, reqs>> /\ place = "parse" /\ place' = "timer"
      BY <2>11 DEF uart_task_returns, app
    <3>. QED
      BY <3>1, NothingNew DEF Live, Owns
  <2>12. CASE AppBadFrame \/ ConnectionChange \/ heartbeat \/ UNCHANGED vars
    <3>1. UNCHANGED <<uart, record, reqs, place>>
      BY <2>12 DEF AppBadFrame, ConnectionChange, heartbeat, vars, app, loop
    <3>. QED
      BY <3>1, NothingNew DEF Live, Owns
  <2>. QED
    BY <2>3, <2>4, <2>5, <2>6, <2>7, <2>8, <2>9, <2>10, <2>11, <2>12 DEF Next, Loop
<1>. QED
  BY <1>1, <1>2, TypeCorrect, PTL DEF Spec

---------------------------------------------------------------------------
\* Hence the frames of a record carry the number of the request they answer.

Own == {f \in Frames : f.cmd = RecordGet => Echoes(f)}

AllOwn == sent \in Seq(Own) /\ g_resp_cache \in Ring(Own)

LEMMA OwnGrows ==
    ASSUME TypeOK, [Next]_vars
    PROVE  Own \subseteq Own'
<1>. SUFFICES ASSUME NEW f \in Own PROVE f \in Own'
  OBVIOUS
<1>1. f \in Frames /\ f.of \in 0..Len(reqs)
  BY DEF Own, Frames
<1>2. f \in Frames'
  BY <1>1, ReqsGrow DEF Frames
<1>3. f.of # 0 => reqs'[f.of].seq = reqs[f.of].seq
  BY <1>1, ReqsGrow
<1>. QED
  BY <1>2, <1>3 DEF Own, Echoes

LEMMA OwnHolds == Spec => []AllOwn
<1>1. Init => AllOwn
  BY EmptySeq DEF Init, AllOwn, Ring
<1>2. TypeOK /\ Context /\ AllOwn /\ [Next]_vars => AllOwn'
  <2>. SUFFICES ASSUME TypeOK, Context, AllOwn, [Next]_vars
                PROVE  sent' \in Seq(Own') /\ g_resp_cache' \in Ring(Own')
    BY DEF AllOwn, Ring
  <2>. DEFINE S == Own'
  <2>1. sent \in Seq(S) /\ g_resp_cache \in Ring(S)
    BY OwnGrows, RingGrows DEF AllOwn
  <2>2. ASSUME NEW m, onRx(m), Sound(m), m.seq = reqs'[m.of].seq
        PROVE  sent' \in Seq(S) /\ g_resp_cache' \in Ring(S)
    <3>1. ASSUME NEW st \in Statuses, NEW p \in {0, 1}
          PROVE  Frame(m.cmd, m.seq, st, m.of, p) \in S
      BY <2>2, SoundFrames DEF Own, Echoes, Frame
    <3>2. CASE rx_repeated(m)
      BY <2>1, <3>1, <3>2, RepeatedKeeps DEF Statuses
    <3>3. CASE rx_command(m)
      <4>1. Handle(m)
        BY <3>3 DEF rx_command
      <4>. QED
        BY <2>1, <3>1, <4>1, CommandKeeps
    <3>. QED
      BY <2>2, <3>2, <3>3 DEF onRx
  <2>3. CASE AppCommand \/ AppRepeat
    <3>1. PICK m : onRx(m) /\ Sound(m) /\ m.seq = reqs'[m.of].seq
      BY <2>3, CommandSteps, RepeatSteps
    <3>. QED
      BY <2>2, <3>1
  <2>4. ASSUME NEW cmd \in Commands, NEW seq \in Seqs,
               NEW e \in {"INTERNAL_ERROR", "LEN_ERROR"},
               Respond(<<Frame(cmd, seq, e, 0, 0)>>)
        PROVE  sent' \in Seq(S) /\ g_resp_cache' \in Ring(S)
    <3>1. 0 \in 0..Len(reqs') /\ 0 \in 0..(RecordEntries + 1)
      BY ReqsGrow, ChannelAssumption
    <3>2. Frame(cmd, seq, e, 0, 0) \in S
      BY <3>1 DEF Own, Echoes, Frame, Frames, Statuses
    <3>3. <<Frame(cmd, seq, e, 0, 0)>> \in Seq(S)
      BY <3>2
    <3>. QED
      BY <2>1, <2>4, <3>3, RespondKeeps
  <2>5. CASE rsp_volume_set \/ rsp_calm_record_get
    <3>1. PICK t \in DOMAIN uart :
            Answers(t) /\ \E frames \in Seq(SocFrames(t)) : Respond(frames)
      BY <2>5, AnswerFrames
    <3>2. uart[t].cmd = RecordGet => Owns(t)
      BY <3>1 DEF Context, Live, Answers, Waiting
    <3>3. SocFrames(t) \subseteq Own
      BY <3>2 DEF SocFrames, Own, Echoes, Owns
    <3>4. PICK frames \in Seq(S) : Respond(frames)
      BY <3>1, <3>3, OwnGrows, SeqMonotonic
    <3>. QED
      BY <2>1, <3>4, RespondKeeps
  <2>6. CASE UNCHANGED <<sent, g_resp_cache>>
    BY <2>1, <2>6
  <2>. QED
    BY <2>3, <2>4, <2>5, <2>6, QuietSteps
<1>. QED
  BY <1>1, <1>2, TypeCorrect, ContextHolds, PTL DEF Spec

\* The result of a CALM_RECORD_GET goes out under the number of the request it
\* answers, however fast the APP asks and however late the SOC answers: the busy
\* flag never outlives its request unless the request has lost its slot
\* (app_ctrl.c:1994-2007, 2412-2418).
THEOREM RecordIsForAsker == Spec => []RecordAnswersOwn
<1>1. AllOwn => RecordAnswersOwn
  <2>. SUFFICES ASSUME sent \in Seq(Own), NEW k \in DOMAIN sent, sent[k].cmd = RecordGet
                PROVE  Echoes(sent[k])
    BY DEF AllOwn, RecordAnswersOwn
  <2>1. sent[k] \in Own
    BY ElementOfSeq, LenProperties
  <2>. QED
    BY <2>1 DEF Own
<1>. QED
  BY <1>1, OwnHolds, PTL

---------------------------------------------------------------------------
\* The contexts of the forwarded commands.  An APP that is more patient than the
\* table asks for a command again only when the last one was answered or has lost
\* its slot, so of the waiting requests of a command all but one are overdue, and
\* the context is that one's own.

Patient == env.patience > RspTimeout

LiveOf(t, c) == /\ uart[t].waiting /\ uart[t].cmd = c
                /\ ~(place = "ble" /\ uart[t].age > RspTimeout)

Holds(t) == LET n == uart[t].of
            IN /\ bleSeq[uart[t].cmd] = reqs[n].seq
               /\ reqs[n].age <= uart[t].age
               /\ ~Answered(n)

Contexts == Patient =>
    \A c \in Forwarded : \A t \in DOMAIN uart :
        LiveOf(t, c) => Holds(t) /\ \A u \in DOMAIN uart : LiveOf(u, c) => u = t

\* An entry is of the kind of its request.
Kinds == \A t \in DOMAIN uart : uart[t].cmd = reqs[uart[t].of].cmd

\* A frame of the APP is one of its requests, written just now.
LEMMA AskSteps ==
    ASSUME TypeOK, AppCommand \/ AppRepeat
    PROVE  \E m :
             /\ onRx(m) /\ Sound(m) /\ MayAsk(m.cmd)
             /\ place = "ble" /\ UNCHANGED <<place, env>>
             /\ m.cmd = reqs'[m.of].cmd /\ m.seq = reqs'[m.of].seq
             /\ reqs'[m.of].age = 0 /\ reqs'[m.of].mark = Len(sent)
             /\ \A n \in DOMAIN reqs :
                  /\ reqs'[n].cmd = reqs[n].cmd
                  /\ reqs'[n].seq = reqs[n].seq
                  /\ n # m.of => reqs'[n] = reqs[n]
<1>1. place = "ble" /\ UNCHANGED <<place, env>>
  BY DEF AppCommand, AppRepeat, Writes, loop
<1>2. CASE AppCommand
  <2>. DEFINE k == Len(reqs) + 1
  <2>1. PICK cmd, seq, good :
          /\ MayAsk(cmd)
          /\ reqs' = Append(reqs, [cmd |-> cmd, seq |-> seq, good |-> good,
                                   age |-> 0, mark |-> Len(sent)])
          /\ onRx(Command(k))
    BY <1>2 DEF AppCommand
  <2>2. /\ Len(reqs') = k /\ \A n \in DOMAIN reqs : reqs'[n] = reqs[n]
        /\ reqs'[k] = [cmd |-> cmd, seq |-> seq, good |-> good,
                        age |-> 0, mark |-> Len(sent)]
    BY <2>1, Domains
  <2>3. /\ Command(k).cmd = reqs'[k].cmd /\ Command(k).seq = reqs'[k].seq
        /\ Command(k).good = reqs'[k].good /\ Command(k).of = k
    BY DEF Command
  <2>4. Sound(Command(k))
    <3>1. reqs'[k] \in Requests'
      BY <1>2, <2>2, Domains, TypeAppCommand, ElementOfSeq, SMTT(30) DEF TypeOK
    <3>. QED
      BY <2>2, <2>3, <3>1, Domains DEF Sound, Requests
  <2>. QED
    BY <1>1, <2>1, <2>2, <2>3, <2>4
<1>3. CASE AppRepeat
  <2>1. PICK k \in DOMAIN reqs :
          /\ MayAsk(reqs[k].cmd)
          /\ reqs' = [reqs EXCEPT ![k].age = 0, ![k].mark = Len(sent)]
          /\ onRx(Command(k))
    BY <1>3 DEF AppRepeat
  <2>2. \A n \in DOMAIN reqs : reqs[n] \in Requests
    BY Domains
  <2>3. /\ DOMAIN reqs' = DOMAIN reqs
        /\ \A n \in DOMAIN reqs :
             /\ reqs'[n].cmd = reqs[n].cmd
             /\ reqs'[n].seq = reqs[n].seq
             /\ n # k => reqs'[n] = reqs[n]
        /\ reqs'[k].age = 0 /\ reqs'[k].mark = Len(sent)
    BY <2>1, <2>2 DEF Requests
  <2>4. /\ Command(k).cmd = reqs'[k].cmd /\ Command(k).seq = reqs'[k].seq
        /\ Command(k).good = reqs'[k].good /\ Command(k).of = k
    BY DEF Command
  <2>5. Sound(Command(k))
    <3>1. reqs' \in Seq(Requests')
      BY <1>3, TypeAppRepeat DEF TypeOK
    <3>2. reqs'[k] \in Requests' /\ k \in 1..Len(reqs')
      BY <2>3, <3>1, ElementOfSeq, LenProperties
    <3>. QED
      BY <2>4, <3>2 DEF Sound, Requests
  <2>6. MayAsk(Command(k).cmd)
    <3>1. Command(k).cmd = reqs[k].cmd
      BY <2>3, <2>4
    <3>. QED
      BY <2>1, <3>1
  <2>7. ASSUME NEW m, m.of = k, m.cmd = reqs'[k].cmd, m.seq = reqs'[k].seq
        PROVE  /\ m.cmd = reqs'[m.of].cmd /\ m.seq = reqs'[m.of].seq
               /\ reqs'[m.of].age = 0 /\ reqs'[m.of].mark = Len(sent)
               /\ \A n \in DOMAIN reqs :
                    /\ reqs'[n].cmd = reqs[n].cmd
                    /\ reqs'[n].seq = reqs[n].seq
                    /\ n # m.of => reqs'[n] = reqs[n]
    BY <2>3, <2>7
  <2>8. onRx(Command(k))
    BY <2>1
  <2>. QED
    BY <1>1, <2>4, <2>5, <2>6, <2>7, <2>8, SMTT(30)
<1>. QED
  BY <1>2, <1>3

\* All other steps change nothing of a request but its age.
LEMMA QuietRequests ==
    ASSUME TypeOK, [Next]_vars, ~AppCommand, ~AppRepeat
    PROVE  \A n \in DOMAIN reqs :
             /\ reqs'[n].cmd = reqs[n].cmd /\ reqs'[n].mark = reqs[n].mark
             /\ ~Tick => reqs'[n].age = reqs[n].age
<1>1. CASE Tick
  <2>1. \A n \in DOMAIN reqs : reqs[n] \in Requests
    BY Domains
  <2>. QED
    BY <1>1, <2>1 DEF Tick, Requests
<1>2. CASE ~Tick
  BY <1>2 DEF Next, Loop, vars, app, AppBadFrame, ConnectionChange, SocWorks, cleanup,
              heartbeat, rsp_volume_set, rsp_calm_record_get, uart_task_returns, time_task
<1>. QED
  BY <1>1, <1>2

LEMMA KindsStay ==
    ASSUME TypeOK, [Next]_vars
    PROVE  \A n \in DOMAIN reqs : reqs'[n].cmd = reqs[n].cmd /\ reqs'[n].seq = reqs[n].seq
<1>1. CASE AppCommand \/ AppRepeat
  BY <1>1, AskSteps
<1>2. CASE ~AppCommand /\ ~AppRepeat
  BY <1>2, QuietRequests, OtherSteps
<1>. QED
  BY <1>1, <1>2

LEMMA KindsHold == Spec => []Kinds
<1>1. Init => Kinds
  BY DEF Init, Kinds
<1>2. TypeOK /\ Kinds /\ [Next]_vars => Kinds'
  <2>. SUFFICES ASSUME TypeOK, Kinds, [Next]_vars PROVE Kinds'
    OBVIOUS
  <2>1. CASE Kept
    BY <2>1, KindsStay, Domains DEF Kept, Kinds
  <2>2. CASE AppCommand \/ AppRepeat
    <3>1. PICK m : onRx(m) /\ m.cmd = reqs'[m.of].cmd
      BY <2>2, AskSteps
    <3>2. CASE SendToSoc(m)
      <4>1. \A t \in DOMAIN uart' : t \in DOMAIN uart \/ t = Len(uart) + 1
        BY <3>2, NewEntry
      <4>. QED
        BY <3>1, <3>2, <4>1, NewEntry, KindsStay, Domains DEF Kinds
    <3>. QED
      BY <2>1, <3>1, <3>2, HandlersAppend DEF Kept
  <2>. QED
    BY <2>1, <2>2, OtherSteps
<1>. QED
  BY <1>1, <1>2, TypeCorrect, PTL DEF Spec

\* What goes out for a frame m of the APP: frames about m and kept frames that fit.
LEMMA AnswersTo ==
    ASSUME TypeOK, NEW m, onRx(m), NEW T,
           \A st \in Statuses, p \in {0, 1} : Frame(m.cmd, m.seq, st, m.of, p) \in T,
           \A i \in DOMAIN g_resp_cache :
               Cached(i, m.cmd, m.seq) => g_resp_cache[i] \in T
    PROVE  UNCHANGED sent \/ \E frames \in Seq(T) : Deliver(frames)
<1>. DEFINE Goal == UNCHANGED sent \/ \E frames \in Seq(T) : Deliver(frames)
<1>1. ASSUME NEW st \in Statuses, Reply(m, st) PROVE Goal
  <2>1. <<Frame(m.cmd, m.seq, st, m.of, 0)>> \in Seq(T)
    OBVIOUS
  <2>. QED
    BY <1>1, <2>1 DEF Reply, Respond
<1>2. CASE UNCHANGED link
  BY <1>2 DEF link
<1>. DEFINE two == [k \in 1..2 |-> Frame(UidGet, m.seq, "OK", m.of, k - 1)]
<1>3. ASSUME m.cmd = UidGet, Respond(two) PROVE Goal
  <2>1. \A k \in 1..2 : k - 1 \in {0, 1}
    OBVIOUS
  <2>2. \A k \in 1..2 : Frame(UidGet, m.seq, "OK", m.of, k - 1) \in T
    BY <1>3, <2>1 DEF Statuses
  <2>3. two \in Seq(T)
    BY <2>2, IsASeq
  <2>. QED
    BY <1>3, <2>3 DEF Respond
<1>4. CASE rx_repeated(m)
  <2>1. ASSUME NEW i \in DOMAIN g_resp_cache, FirstCached(i, m.cmd, m.seq),
               Deliver(<<g_resp_cache[i]>>)
        PROVE  Goal
    <3>1. <<g_resp_cache[i]>> \in Seq(T)
      BY <2>1 DEF FirstCached
    <3>. QED
      BY <2>1, <3>1
  <2>. QED
    BY <1>1, <1>4, <2>1 DEF rx_repeated, Statuses
<1>5. CASE volume_set(m)
  BY <1>1, <1>2, <1>5 DEF volume_set, Statuses
<1>6. CASE reward_flag_get(m)
  BY <1>1, <1>6 DEF reward_flag_get, Statuses
<1>7. CASE uid_get(m)
  BY <1>1, <1>3, <1>7 DEF uid_get, Statuses
<1>8. CASE calm_record_get(m)
  BY <1>1, <1>2, <1>8 DEF calm_record_get, Statuses
<1>9. CASE unsupported(m)
  BY <1>1, <1>9 DEF unsupported, Statuses
<1>. QED
  BY <1>4, <1>5, <1>6, <1>7, <1>8, <1>9 DEF onRx, rx_command, Handle

\* A request stays unanswered while only other requests are answered.
LEMMA StaysOpen ==
    ASSUME sent \in Seq(Frames), NEW n, ~Answered(n), reqs'[n].mark = reqs[n].mark,
           reqs[n].mark \in Nat,
           UNCHANGED sent \/ \E frames \in Seq({f \in Frames' : f.of # n}) : Deliver(frames)
    PROVE  ~Answered(n)'
<1>1. CASE UNCHANGED sent
  BY <1>1 DEF Answered
<1>2. ASSUME NEW frames \in Seq({f \in Frames' : f.of # n}), sent' = sent \o frames
      PROVE  ~Answered(n)'
  <2>1. /\ Len(sent) \in Nat /\ Len(frames) \in Nat
        /\ Len(sent') = Len(sent) + Len(frames)
        /\ \A k \in 1..Len(sent') :
             sent'[k] = IF k <= Len(sent) THEN sent[k] ELSE frames[k - Len(sent)]
    BY <1>2, ConcatProperties, LenProperties
  <2>2. \A j \in 1..Len(frames) : frames[j].of # n
    BY <1>2, ElementOfSeq
  <2>3. ASSUME NEW k \in (reqs[n].mark + 1)..Len(sent') PROVE sent'[k].of # n
    <3>1. CASE k <= Len(sent)
      BY <2>1, <2>3, <3>1 DEF Answered
    <3>2. CASE ~(k <= Len(sent))
      <4>1. k - Len(sent) \in 1..Len(frames) /\ sent'[k] = frames[k - Len(sent)]
        BY <2>1, <2>3, <3>2
      <4>. QED
        BY <2>2, <4>1
    <3>. QED
      BY <3>1, <3>2
  <2>. QED
    BY <2>3 DEF Answered
<1>. QED
  BY <1>1, <1>2 DEF Deliver

\* The patience of the APP: no waiting request of the command it sends counts.
LEMMA NoneLive ==
    ASSUME TypeOK, Kinds, Contexts, Patient, NEW c \in Forwarded, MayAsk(c),
           place = "ble", NEW t \in DOMAIN uart
    PROVE  ~LiveOf(t, c)
<1>. SUFFICES ASSUME LiveOf(t, c) PROVE FALSE
  OBVIOUS
<1>. DEFINE n == uart[t].of
<1>1. n \in DOMAIN reqs /\ reqs[n].cmd = c
  BY Domains DEF Kinds, LiveOf
<1>2. ~Answered(n) /\ reqs[n].age <= uart[t].age
  BY DEF Contexts, Holds
<1>3. reqs[n].age >= env.patience
  BY <1>1, <1>2 DEF MayAsk
<1>4. /\ reqs[n].age \in Nat /\ uart[t].age \in Nat
      /\ env.patience \in Nat /\ RspTimeout \in Nat
  <2>1. env.patience \in Nat /\ RspTimeout \in Nat
    BY Numbers DEF TypeOK
  <2>2. reqs[n] \in Requests /\ uart[t] \in SocRequests
    BY <1>1, Domains
  <2>. QED
    BY <2>1, <2>2 DEF Requests, SocRequests
<1>. QED
  BY <1>2, <1>3, <1>4 DEF Patient, LiveOf

\* A handler touches the context of its own command only, and writes the number
\* into it before it asks the SOC.
LEMMA HandlersHold ==
    ASSUME TypeOK, NEW m, onRx(m)
    PROVE  /\ \A c \in Forwarded : c # m.cmd => bleSeq'[c] = bleSeq[c]
           /\ \/ UNCHANGED uart
              \/ /\ SendToSoc(m) /\ UNCHANGED link
                 /\ m.cmd \in Forwarded => bleSeq'[m.cmd] = m.seq
<1>1. bleSeq \in [Forwarded -> Seqs]
  BY DEF TypeOK
<1>. QED
  BY <1>1, ChannelAssumption DEF onRx, rx_repeated, rx_command, Handle, volume_set,
     reward_flag_get, uid_get, calm_record_get, unsupported

\* A step after which every live request was live before, and keeps its context if
\* it had it.
LEMMA NoneNew ==
    ASSUME Contexts, UNCHANGED env, DOMAIN uart' = DOMAIN uart,
           Patient => \A c \in Forwarded, t \in DOMAIN uart :
               LiveOf(t, c)' => LiveOf(t, c) /\ (Holds(t) => Holds(t)')
    PROVE  Contexts'
  BY DEF Contexts, Patient

\* The frames that tell the APP which request they answer
Telling == {f \in Frames :
              f.of # 0 => f.cmd = reqs[f.of].cmd /\ f.seq = reqs[f.of].seq}

AllTelling == Patient => sent \in Seq(Telling) /\ g_resp_cache \in Ring(Telling)

LEMMA ContextsOnRx ==
    ASSUME TypeOK, TypeOK', Kinds, Contexts, AllTelling, [Next]_vars,
           AppCommand \/ AppRepeat
    PROVE  Contexts'
<1>1. PICK m :
        /\ onRx(m) /\ Sound(m) /\ MayAsk(m.cmd)
        /\ place = "ble" /\ UNCHANGED <<place, env>>
        /\ m.cmd = reqs'[m.of].cmd /\ m.seq = reqs'[m.of].seq
        /\ reqs'[m.of].age = 0 /\ reqs'[m.of].mark = Len(sent)
        /\ \A n \in DOMAIN reqs :
             /\ reqs'[n].cmd = reqs[n].cmd
             /\ reqs'[n].seq = reqs[n].seq
             /\ n # m.of => reqs'[n] = reqs[n]
  BY AskSteps
<1>. SUFFICES ASSUME Patient,
                     NEW c \in Forwarded, NEW t \in DOMAIN uart', LiveOf(t, c)'
              PROVE  Holds(t)' /\ \A u \in DOMAIN uart' : LiveOf(u, c)' => u = t
  BY <1>1 DEF Contexts, Patient
<1>2. \A u \in DOMAIN uart : uart[u].of \in DOMAIN reqs
  BY Domains
<1>3. \/ UNCHANGED uart
      \/ /\ SendToSoc(m) /\ UNCHANGED link
         /\ m.cmd \in Forwarded => bleSeq'[m.cmd] = m.seq
  BY <1>1, HandlersHold
<1>4. /\ \A u \in DOMAIN uart : u \in DOMAIN uart' /\ uart'[u] = uart[u]
      /\ \A u \in DOMAIN uart' : u \notin DOMAIN uart =>
             /\ u = Len(uart) + 1 /\ UNCHANGED link
             /\ uart'[u].cmd = m.cmd /\ uart'[u].of = m.of /\ uart'[u].age = 0
             /\ m.cmd \in Forwarded => bleSeq'[m.cmd] = m.seq
  <2>1. CASE UNCHANGED uart
    BY <2>1
  <2>2. CASE SendToSoc(m)
    <3>1. \A u \in DOMAIN uart' : u \in DOMAIN uart \/ u = Len(uart) + 1
      BY <2>2, NewEntry
    <3>2. /\ uart'[Len(uart) + 1].cmd = m.cmd /\ uart'[Len(uart) + 1].of = m.of
          /\ uart'[Len(uart) + 1].age = 0 /\ Len(uart) + 1 \notin DOMAIN uart
          /\ \A u \in DOMAIN uart : u \in DOMAIN uart' /\ uart'[u] = uart[u]
      BY <2>2, NewEntry
    <3>3. UNCHANGED uart => FALSE
      BY <2>2, NewEntry
    <3>. QED
      BY <1>3, <3>1, <3>2, <3>3
  <2>. QED
    BY <1>3, <2>1, <2>2
<1>5. \A u \in DOMAIN uart : LiveOf(u, c)' => LiveOf(u, c) /\ c # m.cmd
  <2>. SUFFICES ASSUME NEW u \in DOMAIN uart, LiveOf(u, c)'
                PROVE  LiveOf(u, c) /\ c # m.cmd
    OBVIOUS
  <2>1. LiveOf(u, c)
    BY <1>1, <1>4 DEF LiveOf
  <2>. QED
    BY <1>1, <2>1, NoneLive
<1>6. CASE t \in DOMAIN uart
  <2>. PICK n : n = uart[t].of
    OBVIOUS
  <2>1. LiveOf(t, c) /\ c # m.cmd /\ uart[t].cmd = c /\ n \in DOMAIN reqs
    BY <1>2, <1>5, <1>6 DEF LiveOf
  <2>2. Holds(t) /\ \A u \in DOMAIN uart : LiveOf(u, c) => u = t
    BY <1>6, <2>1 DEF Contexts
  <2>3. n # m.of /\ reqs'[n] = reqs[n]
    BY <1>1, <1>6, <2>1 DEF Kinds
  <2>4. bleSeq'[c] = bleSeq[c] /\ uart'[t] = uart[t]
    BY <1>1, <1>4, <1>6, <2>1, HandlersHold
  <2>5. ~Answered(n)'
    <3>. DEFINE T == {f \in Frames' : f.of # n}
    <3>1. \A st \in Statuses, p \in {0, 1} : Frame(m.cmd, m.seq, st, m.of, p) \in T
      BY <1>1, <2>3, SoundFrames DEF Frame
    <3>2. ASSUME NEW i \in DOMAIN g_resp_cache, Cached(i, m.cmd, m.seq)
          PROVE  g_resp_cache[i] \in T
      <4>1. g_resp_cache[i] \in Telling /\ g_resp_cache[i].cmd = m.cmd
        BY <3>2 DEF AllTelling, Ring, Cached
      <4>2. g_resp_cache[i].of # n
        <5>1. n # 0 /\ reqs[n].cmd = c
          BY <1>6, <2>1, Domains DEF Kinds
        <5>. QED
          BY <2>1, <4>1, <5>1 DEF Telling
      <4>3. g_resp_cache[i] \in Frames'
        BY <4>1, ReqsGrow DEF Telling, Frames
      <4>. QED
        BY <4>2, <4>3
    <3>3. UNCHANGED sent \/ \E frames \in Seq(T) : Deliver(frames)
      BY <1>1, <3>1, <3>2, AnswersTo
    <3>4. reqs[n].mark \in Nat /\ sent \in Seq(Frames)
      BY <2>1, Domains DEF Requests, TypeOK
    <3>5. ~Answered(n)
      BY <2>2 DEF Holds
    <3>. QED
      BY <2>3, <3>3, <3>4, <3>5, StaysOpen
  <2>6. Holds(t)'
    BY <2>1, <2>2, <2>3, <2>4, <2>5 DEF Holds
  <2>7. ASSUME NEW u \in DOMAIN uart', LiveOf(u, c)' PROVE u = t
    <3>1. uart'[u].cmd = c
      BY <2>7 DEF LiveOf
    <3>2. u \in DOMAIN uart
      BY <1>4, <2>1, <2>7, <3>1
    <3>. QED
      BY <1>5, <2>2, <2>7, <3>2
  <2>. QED
    BY <2>6, <2>7
<1>7. CASE t \notin DOMAIN uart
  <2>1. /\ t = Len(uart) + 1 /\ uart'[t].cmd = m.cmd /\ uart'[t].of = m.of
        /\ uart'[t].age = 0 /\ UNCHANGED sent
    BY <1>4, <1>7 DEF link
  <2>2. c = m.cmd
    BY <2>1 DEF LiveOf
  <2>3. bleSeq'[c] = m.seq
    BY <1>4, <1>7, <2>2
  <2>4. ~Answered(m.of)'
    <3>1. Len(sent) \in Nat
      BY LenProperties DEF TypeOK
    <3>2. (Len(sent) + 1)..Len(sent) = {}
      BY <3>1
    <3>. QED
      BY <1>1, <2>1, <3>2 DEF Answered
  <2>5. Holds(t)'
    BY <1>1, <2>1, <2>2, <2>3, <2>4 DEF Holds
  <2>6. ASSUME NEW u \in DOMAIN uart', LiveOf(u, c)' PROVE u = t
    BY <1>4, <1>5, <2>1, <2>2, <2>6
  <2>. QED
    BY <2>5, <2>6
<1>. QED
  BY <1>6, <1>7

LEMMA ContextsTick ==
    ASSUME TypeOK, Contexts, Tick
    PROVE  Contexts'
<1>1. \A t \in DOMAIN uart : uart[t] \in SocRequests /\ uart[t].of \in DOMAIN reqs
  BY Domains
<1>2. /\ DOMAIN uart' = DOMAIN uart /\ UNCHANGED <<place, sent, bleSeq, env>>
      /\ \A t \in DOMAIN uart :
           uart'[t] = IF uart[t].waiting THEN [uart[t] EXCEPT !.age = @ + 1]
                      ELSE uart[t]
  BY DEF Tick, link
<1>3. \A t \in DOMAIN uart :
        /\ uart'[t].of = uart[t].of /\ uart'[t].cmd = uart[t].cmd
        /\ uart'[t].waiting = uart[t].waiting
        /\ uart[t].age \in Nat /\ RspTimeout \in Nat
        /\ uart[t].waiting => uart'[t].age = uart[t].age + 1
        /\ ~uart[t].waiting => uart'[t].age = uart[t].age
  BY <1>1, <1>2, ChannelAssumption DEF SocRequests
<1>4. \A n \in DOMAIN reqs :
        /\ reqs'[n].seq = reqs[n].seq /\ reqs'[n].mark = reqs[n].mark
        /\ reqs[n].age \in Nat /\ reqs'[n].age \in 0..(reqs[n].age + 1)
  <2>. SUFFICES ASSUME NEW n \in DOMAIN reqs
                PROVE  /\ reqs'[n].seq = reqs[n].seq /\ reqs'[n].mark = reqs[n].mark
                       /\ reqs[n].age \in Nat /\ reqs'[n].age \in 0..(reqs[n].age + 1)
    OBVIOUS
  <2>1. reqs[n] \in Requests /\ env.patience \in Nat
    BY Domains, Numbers DEF TypeOK
  <2>2. reqs'[n] = [reqs[n] EXCEPT !.age = Older(reqs[n].age, env.patience)]
    BY DEF Tick
  <2>3. reqs[n].age \in Nat
    BY <2>1 DEF Requests
  <2>4. Older(reqs[n].age, env.patience) \in 0..(reqs[n].age + 1)
    BY <2>1, <2>3 DEF Older
  <2>. QED
    BY <2>1, <2>2, <2>3, <2>4 DEF Requests
<1>5. ASSUME NEW c \in Forwarded, NEW t \in DOMAIN uart, LiveOf(t, c)'
      PROVE  LiveOf(t, c) /\ (Holds(t) => Holds(t)')
  <2>1. LiveOf(t, c)
    BY <1>2, <1>3, <1>5 DEF LiveOf
  <2>2. Answered(uart[t].of)' => Answered(uart[t].of)
    BY <1>1, <1>2, <1>3, <1>4 DEF Answered
  <2>3. ASSUME Holds(t) PROVE Holds(t)'
    BY <1>1, <1>2, <1>3, <1>4, <2>1, <2>2, <2>3 DEF Holds, LiveOf
  <2>. QED
    BY <2>1, <2>3
<1>. QED
  BY <1>2, <1>5, NoneNew

\* Frames of one request are not those of another that still waits for its own.
LEMMA ContextsAnswer ==
    ASSUME TypeOK, TypeOK', Kinds, Contexts, [Next]_vars,
           rsp_volume_set \/ rsp_calm_record_get
    PROVE  Contexts'
<1>1. PICK u \in DOMAIN uart : Answers(u) /\ \E frames \in Seq(SocFrames(u)) : Respond(frames)
  BY AnswerFrames
<1>2. UNCHANGED <<reqs, bleSeq, place, env>> /\ place = "parse"
  BY <1>1 DEF rsp_volume_set, rsp_calm_record_get, app, loop, Answers
<1>3. \A t \in DOMAIN uart : uart[t] \in SocRequests /\ uart[t].of \in DOMAIN reqs
  BY Domains
<1>4. /\ DOMAIN uart' = DOMAIN uart /\ ~uart'[u].waiting
      /\ \A t \in DOMAIN uart : uart'[t].waiting => uart'[t] = uart[t]
  BY <1>1, <1>3 DEF Answers, Closed, SocRequests
<1>5. ASSUME NEW c \in Forwarded, NEW t \in DOMAIN uart, LiveOf(t, c)', Patient
      PROVE  LiveOf(t, c) /\ (Holds(t) => Holds(t)')
  <2>. PICK n : n = uart[t].of
    OBVIOUS
  <2>1. LiveOf(t, c) /\ uart[t].cmd = c /\ t # u /\ uart'[t] = uart[t]
    BY <1>2, <1>4, <1>5 DEF LiveOf
  <2>2. uart[u].cmd # c
    <3>. SUFFICES ASSUME uart[u].cmd = c PROVE FALSE
      OBVIOUS
    <3>1. LiveOf(u, c)
      BY <1>1, <1>2 DEF LiveOf, Answers, Waiting
    <3>. QED
      BY <1>5, <2>1, <3>1 DEF Contexts
  <2>3. uart[u].of # n
    BY <2>1, <2>2 DEF Kinds
  <2>4. ASSUME Holds(t) PROVE ~Answered(n)'
    <3>. DEFINE T == {f \in Frames' : f.of # n}
    <3>1. Frames' = Frames
      BY <1>2 DEF Frames
    <3>2. SocFrames(u) \subseteq T
      BY <2>3, <3>1 DEF SocFrames
    <3>3. \E frames \in Seq(T) : Deliver(frames)
      BY <1>1, <3>2, SeqMonotonic DEF Respond
    <3>4. reqs[n].mark \in Nat /\ sent \in Seq(Frames)
      BY <1>3, Domains DEF Requests, TypeOK
    <3>5. ~Answered(n) /\ reqs'[n].mark = reqs[n].mark
      BY <1>2, <2>4 DEF Holds
    <3>. QED
      BY <3>3, <3>4, <3>5, StaysOpen
  <2>5. ASSUME Holds(t) PROVE Holds(t)'
    BY <1>2, <2>1, <2>4, <2>5 DEF Holds
  <2>. QED
    BY <2>1, <2>5
<1>. QED
  BY <1>2, <1>4, <1>5, NoneNew

\* What changes neither the requests nor their entries, or closes the overdue ones
LEMMA ContextsOthers ==
    ASSUME TypeOK, Contexts, [Next]_vars,
           ~AppCommand, ~AppRepeat, ~Tick, ~rsp_volume_set, ~rsp_calm_record_get
    PROVE  Contexts'
<1>1. \A t \in DOMAIN uart : uart[t] \in SocRequests /\ uart[t].of \in DOMAIN reqs
  BY Domains
<1>2. UNCHANGED <<reqs, bleSeq, env>>
  BY DEF Next, Loop, vars, app, AppBadFrame, ConnectionChange, SocWorks, cleanup,
         heartbeat, uart_task_returns, time_task
<1>3. ASSUME UNCHANGED sent, DOMAIN uart' = DOMAIN uart,
             \A c \in Forwarded, t \in DOMAIN uart : LiveOf(t, c)' =>
                 /\ LiveOf(t, c) /\ uart'[t].age = uart[t].age
                 /\ uart'[t].of = uart[t].of /\ uart'[t].cmd = uart[t].cmd
      PROVE  Contexts'
  <2>1. ASSUME NEW c \in Forwarded, NEW t \in DOMAIN uart, LiveOf(t, c)'
        PROVE  LiveOf(t, c) /\ (Holds(t) => Holds(t)')
    BY <1>2, <1>3, <2>1 DEF Holds, Answered
  <2>. QED
    BY <1>2, <1>3, <2>1, NoneNew
<1>4. CASE SocWorks
  <2>1. /\ DOMAIN uart' = DOMAIN uart /\ UNCHANGED <<place, sent>>
        /\ \A t \in DOMAIN uart :
             /\ uart'[t].waiting = uart[t].waiting /\ uart'[t].cmd = uart[t].cmd
             /\ uart'[t].of = uart[t].of /\ uart'[t].age = uart[t].age
    BY <1>1, <1>4 DEF SocWorks, SocRequests, link, loop
  <2>. QED
    BY <1>3, <2>1 DEF LiveOf
<1>5. CASE cleanup
  <2>1. /\ DOMAIN uart' = DOMAIN uart /\ UNCHANGED sent /\ place = "ble"
        /\ \A t \in DOMAIN uart :
             uart'[t] = IF TimedOut(uart[t]) THEN Closed(uart[t]) ELSE uart[t]
    BY <1>5 DEF cleanup, link
  <2>2. \A c \in Forwarded, t \in DOMAIN uart :
          LiveOf(t, c)' => uart'[t] = uart[t] /\ ~TimedOut(uart[t])
    BY <1>1, <2>1 DEF LiveOf, Closed, SocRequests
  <2>. QED
    BY <1>3, <2>1, <2>2 DEF LiveOf, TimedOut
<1>6. CASE uart_task_returns \/ time_task
  BY <1>3, <1>6 DEF uart_task_returns, time_task, link, LiveOf
<1>7. CASE heartbeat \/ ConnectionChange \/ UNCHANGED vars
  BY <1>3, <1>7 DEF heartbeat, ConnectionChange, vars, link, loop, LiveOf
<1>8. CASE AppBadFrame
  <2>1. UNCHANGED <<uart, place>>
    BY <1>8 DEF AppBadFrame, loop
  <2>2. PICK cmd \in Commands, seq \in Seqs, e \in {"INTERNAL_ERROR", "LEN_ERROR"} :
          Respond(<<Frame(cmd, seq, e, 0, 0)>>)
    <3>1. \A c \in env.used : c \in Commands
      BY Numbers DEF TypeOK
    <3>. QED
      BY <1>8, <3>1 DEF AppBadFrame
  <2>3. Frame(cmd, seq, e, 0, 0) \in Frames'
    <3>1. 0 \in 0..Len(reqs') /\ 0 \in 0..(RecordEntries + 1)
      BY ReqsGrow, ChannelAssumption
    <3>. QED
      BY <3>1 DEF Frame, Frames, Statuses
  <2>4. ASSUME NEW n \in DOMAIN reqs, ~Answered(n) PROVE ~Answered(n)'
    <3>1. n # 0 /\ reqs[n].mark \in Nat /\ sent \in Seq(Frames)
      BY <2>4, Domains, SMTT(30) DEF Requests, TypeOK
    <3>2. Frame(cmd, seq, e, 0, 0) \in {f \in Frames' : f.of # n}
      BY <2>3, <3>1 DEF Frame
    <3>3. <<Frame(cmd, seq, e, 0, 0)>> \in Seq({f \in Frames' : f.of # n})
      BY <3>2
    <3>. QED
      BY <1>2, <2>2, <2>4, <3>1, <3>3, StaysOpen DEF Respond
  <2>5. ASSUME NEW t \in DOMAIN uart, Holds(t) PROVE Holds(t)'
    <3>. PICK n \in DOMAIN reqs : n = uart[t].of
      BY <1>1
    <3>1. ~Answered(n)'
      BY <2>4, <2>5 DEF Holds
    <3>. QED
      BY <1>2, <2>1, <2>5, <3>1 DEF Holds
  <2>. QED
    BY <1>2, <2>1, <2>5, NoneNew DEF LiveOf
<1>. QED
  BY <1>4, <1>5, <1>6, <1>7, <1>8 DEF Next, Loop

LEMMA TellingGrows ==
    ASSUME TypeOK, [Next]_vars
    PROVE  Telling \subseteq Telling'
<1>. SUFFICES ASSUME NEW f \in Telling PROVE f \in Telling'
  OBVIOUS
<1>1. f \in Frames /\ f.of \in 0..Len(reqs)
  BY DEF Telling, Frames
<1>2. f \in Frames'
  BY <1>1, ReqsGrow DEF Frames
<1>3. f.of # 0 => reqs'[f.of].cmd = reqs[f.of].cmd /\ reqs'[f.of].seq = reqs[f.of].seq
  BY <1>1, KindsStay, Domains
<1>. QED
  BY <1>2, <1>3 DEF Telling

LEMMA TellingStep ==
    ASSUME TypeOK, TypeOK', Kinds, Context, Contexts, AllTelling, [Next]_vars, Patient
    PROVE  sent' \in Seq(Telling') /\ g_resp_cache' \in Ring(Telling')
<1>. DEFINE S == Telling'
<1>1. sent \in Seq(S) /\ g_resp_cache \in Ring(S)
  BY TellingGrows, RingGrows DEF AllTelling
<1>2. CASE AppCommand \/ AppRepeat
  <2>1. PICK m : /\ onRx(m) /\ Sound(m)
                 /\ m.cmd = reqs'[m.of].cmd /\ m.seq = reqs'[m.of].seq
    BY <1>2, AskSteps
  <2>2. ASSUME NEW st \in Statuses, NEW p \in {0, 1}
        PROVE  Frame(m.cmd, m.seq, st, m.of, p) \in S
    BY <2>1, SoundFrames DEF Telling, Frame
  <2>3. CASE rx_repeated(m)
    BY <1>1, <2>2, <2>3, RepeatedKeeps DEF Statuses
  <2>4. CASE rx_command(m)
    <3>1. Handle(m)
      BY <2>4 DEF rx_command
    <3>. QED
      BY <1>1, <2>2, <3>1, CommandKeeps
  <2>. QED
    BY <2>1, <2>3, <2>4 DEF onRx
<1>3. ASSUME NEW cmd \in Commands, NEW seq \in Seqs,
             NEW e \in {"INTERNAL_ERROR", "LEN_ERROR"},
             Respond(<<Frame(cmd, seq, e, 0, 0)>>)
      PROVE  sent' \in Seq(S) /\ g_resp_cache' \in Ring(S)
  <2>1. 0 \in 0..Len(reqs') /\ 0 \in 0..(RecordEntries + 1)
    BY ReqsGrow, ChannelAssumption
  <2>2. Frame(cmd, seq, e, 0, 0) \in S
    BY <2>1 DEF Telling, Frame, Frames, Statuses
  <2>3. <<Frame(cmd, seq, e, 0, 0)>> \in Seq(S)
    BY <2>2
  <2>. QED
    BY <1>1, <1>3, <2>3, RespondKeeps
<1>4. CASE rsp_volume_set \/ rsp_calm_record_get
  <2>1. PICK t \in DOMAIN uart :
          Answers(t) /\ \E frames \in Seq(SocFrames(t)) : Respond(frames)
    BY <1>4, AnswerFrames
  <2>2. uart[t].cmd = RecordGet => record.seq = reqs[uart[t].of].seq
    BY <2>1 DEF Context, Live, Owns, Answers, Waiting
  <2>3. uart[t].cmd \in Forwarded => bleSeq[uart[t].cmd] = reqs[uart[t].of].seq
    <3>. SUFFICES ASSUME uart[t].cmd \in Forwarded
                  PROVE  bleSeq[uart[t].cmd] = reqs[uart[t].of].seq
      OBVIOUS
    <3>1. LiveOf(t, uart[t].cmd)
      BY <2>1 DEF LiveOf, Answers, Waiting
    <3>. QED
      BY <3>1 DEF Contexts, Holds
  <2>4. SocFrames(t) \subseteq Telling
    BY <2>2, <2>3 DEF SocFrames, Telling, Kinds
  <2>5. PICK frames \in Seq(S) : Respond(frames)
    BY <2>1, <2>4, TellingGrows, SeqMonotonic
  <2>. QED
    BY <1>1, <2>5, RespondKeeps
<1>5. CASE UNCHANGED <<sent, g_resp_cache>>
  BY <1>1, <1>5
<1>. QED
  BY <1>2, <1>3, <1>4, <1>5, QuietSteps

\* A patient APP reads every response under the number of the command whose result
\* it carries, of every command, though all its requests share one context: when
\* it asks again, the last request has been answered or is overdue, and the cleanup
\* takes an overdue one before the parser could answer it (app_ctrl.c:282-315).
THEOREM EchoesItsAsker == Spec => []EchoOwn
<1>1. Init => Contexts /\ AllTelling
  BY EmptySeq DEF Init, Contexts, AllTelling, Ring
<1>2. /\ TypeOK /\ TypeOK' /\ Kinds /\ Context
      /\ Contexts /\ AllTelling /\ [Next]_vars
      => Contexts' /\ AllTelling'
  <2>. SUFFICES ASSUME TypeOK, TypeOK', Kinds, Context, Contexts, AllTelling, [Next]_vars
                PROVE  Contexts' /\ AllTelling'
    OBVIOUS
  <2>1. Contexts'
    BY ContextsOnRx, ContextsTick, ContextsAnswer, ContextsOthers
  <2>2. AllTelling'
    <3>1. Patient' => Patient
      BY EnvStays DEF Patient
    <3>. QED
      BY <3>1, TellingStep DEF AllTelling, Ring
  <2>. QED
    BY <2>1, <2>2
<1>3. AllTelling => EchoOwn
  <2>. SUFFICES ASSUME sent \in Seq(Telling), NEW k \in DOMAIN sent
                PROVE  Echoes(sent[k])
    BY DEF AllTelling, EchoOwn, Patient
  <2>1. sent[k] \in Telling
    BY ElementOfSeq, LenProperties
  <2>. QED
    BY <2>1 DEF Telling, Echoes
<1>. QED
  BY <1>1, <1>2, <1>3, TypeCorrect, KindsHold, ContextHolds, PTL DEF Spec
============================================================================
