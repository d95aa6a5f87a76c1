------------------------- MODULE CalmRecordsProofs -------------------------
(***************************************************************************)
(* DeletedWasRead for every number and length of records, every size of    *)
(* the cache and of a UART frame, and every scene: no order of requests,   *)
(* late answers, losses, restarts and connections makes the SOC delete a   *)
(* record of which an entry has not reached the APP.                       *)
(*                                                                         *)
(* Whatever is on its way is about a record that was made, and the numbers *)
(* of the records are their own; so what the APP gathers is of one record, *)
(* and a request to delete is only written for a record that was heard to  *)
(* the last entry.  Of an APP that goes by the last entry this needs more: *)
(* it hears a response as a whole, and never asks under an old number.     *)
(*                                                                         *)
(* And NoRecordsIsTrue: at most one request for a record is under way, the *)
(* busy mark stands as long as it is, and its answer has the number of the *)
(* request that was taken; so a plain OK is only read as the answer to the *)
(* question the SOC has answered.                                          *)
(***************************************************************************)
EXTENDS CalmRecords, TLAPS

Record == [id : Nat, entries : Nat \ {0}]
Request == [cmd : {"get", "delete"}, id : Nat]
Message == [cmd : {"new"}]
           \cup [cmd : {"get", "delete"}, status : {"ok", "refused"},
                 record : Record \cup {NoRecord}]
Frame == [cmd : {"get", "delete"},
          status : {"ok", "entry", "timeout", "busy", "internal", "soc_error"},
          seq : Nat, id : Nat, idx : Nat, total : Nat]
Reader == [seq : Nat, asked : {Idle, "get", "delete"}, wants : BOOLEAN,
           none : BOOLEAN, id : Nat, total : Nat, got : SUBSET Nat]

Types ==
    /\ scene \in Scenes /\ g_ble_connected \in BOOLEAN
    /\ s_last_seq \in Nat
    /\ g_ctx_calm_record_get \in [busy : BOOLEAN, bleSeq : Nat]
    /\ g_ctx_calm_record_delete \in [bleSeq : Nat]
    /\ g_resp_cache \in [0..(CacheSize - 1) -> Frame \cup {NoFrame}]
    /\ requests \in Seq(Request) /\ messages \in Seq(Message)
    /\ stored \in Seq(Record) /\ deleted \in Seq(Record)
    /\ reader \in Reader

---------------------------------------------------------------------------
\* The invariant

IsMade(r) == \/ \E k \in DOMAIN stored : stored[k] = r
             \/ \E k \in DOMAIN deleted : deleted[k] = r

OwnNumbers ==
    /\ \A r \in Record : IsMade(r) => r.id <= Len(stored) + Len(deleted)
    /\ \A r, s \in Record : IsMade(r) /\ IsMade(s) /\ r.id = s.id => r = s

\* There is a record with this number and so many entries.
Is(id, n) == [id |-> id, entries |-> n] \in Record /\ IsMade([id |-> id, entries |-> n])

\* The record of this number has reached the APP to the last entry.
Known(id) == \E n \in Nat : /\ Is(id, n)
                            /\ \A i \in 0..(n - 1) : <<id, i>> \in heard

\* An entry is one of a record.
Sound(f) == f.status = "entry" => f.cmd = "get" /\ Is(f.id, f.total)

CacheSound == \A i \in DOMAIN g_resp_cache :
                g_resp_cache[i] # NoFrame => Sound(g_resp_cache[i])

MessagesSound == \A k \in DOMAIN messages :
                   messages[k].cmd = "get" /\ messages[k].record # NoRecord =>
                      IsMade(messages[k].record)

\* It goes by the last entry, hears all that is sent and repeats nothing.
Careless == ~scene.careful /\ ~(scene.airLosses \/ scene.repeats)
Trusted == scene.careful \/ Careless

\* What the APP r has gathered is of one record.
Gathers(r) ==
    /\ \A i \in r.got : <<r.id, i>> \in heard
    /\ r.total # 0 => Is(r.id, r.total)
    /\ r.asked = "get" /\ r.got # {} => r.total # 0
    /\ Careless /\ r.total # 0 /\ (r.total - 1) \in r.got =>
         \A i \in 0..(r.total - 1) : i \in r.got
    /\ Trusted /\ r.asked = "delete" => Known(r.id)

RequestsKnown == \A k \in DOMAIN requests :
                   Trusted /\ requests[k].cmd = "delete" => Known(requests[k].id)

DeletedKnown == \A k \in DOMAIN deleted : Trusted => Known(deleted[k].id)

RecordsInv ==
    /\ Types /\ OwnNumbers /\ CacheSound /\ MessagesSound
    /\ s_last_seq <= reader.seq
    /\ Gathers(reader) /\ RequestsKnown /\ DeletedKnown

---------------------------------------------------------------------------
\* Lines

LEMMA EmptyIs == ASSUME NEW S PROVE <<>> \in Seq(S) /\ DOMAIN <<>> = {}
  OBVIOUS

LEMMA AppendIs ==
    ASSUME NEW S, NEW s \in Seq(S), NEW e \in S
    PROVE  /\ Append(s, e) \in Seq(S) /\ Len(Append(s, e)) = Len(s) + 1
           /\ Append(s, e)[Len(s) + 1] = e
           /\ \A k \in DOMAIN s : k \in DOMAIN Append(s, e) /\ Append(s, e)[k] = s[k]
           /\ \A k \in DOMAIN Append(s, e) :
                \/ k \in DOMAIN s /\ Append(s, e)[k] = s[k]
                \/ k = Len(s) + 1 /\ Append(s, e)[k] = e
  OBVIOUS

LEMMA TailIs ==
    ASSUME NEW S, NEW s \in Seq(S), s # <<>>
    PROVE  /\ Tail(s) \in Seq(S) /\ Head(s) \in S
           /\ 1 \in DOMAIN s /\ Head(s) = s[1]
           /\ \A k \in DOMAIN Tail(s) : k + 1 \in DOMAIN s /\ Tail(s)[k] = s[k + 1]
  OBVIOUS

---------------------------------------------------------------------------
\* What is made stays made, what is heard stays heard.

LEMMA KeepsMade ==
    ASSUME \A r \in Record : IsMade(r) => IsMade(r)', heard \subseteq heard'
    PROVE  /\ \A id, n : Is(id, n) => Is(id, n)'
           /\ \A id : Known(id) => Known(id)'
<1>1. \A id, n : Is(id, n) => Is(id, n)'
  BY DEF Is
<1>. QED
  BY <1>1 DEF Known

\* The records are left alone.
LEMMA SameMade ==
    ASSUME UNCHANGED <<stored, deleted>>
    PROVE  /\ \A r : IsMade(r)' <=> IsMade(r)
           /\ \A id, n : Is(id, n)' <=> Is(id, n)
           /\ OwnNumbers => OwnNumbers'
           /\ heard \subseteq heard' => \A id : Known(id) => Known(id)'
<1>1. \A r : IsMade(r)' <=> IsMade(r)
  BY DEF IsMade
<1>2. \A id, n : Is(id, n)' <=> Is(id, n)
  BY <1>1 DEF Is
<1>3. OwnNumbers => OwnNumbers'
  BY <1>1 DEF OwnNumbers
<1>. QED
  BY <1>1, <1>2, <1>3 DEF Known

\* The parts of the invariant that a step leaves alone as long as records and
\* entries are only added.
LEMMA Keeps ==
    ASSUME \A r \in Record : IsMade(r) => IsMade(r)', heard \subseteq heard',
           UNCHANGED scene
    PROVE  /\ \A f : Sound(f) => Sound(f)'
           /\ \A r : Gathers(r) => Gathers(r)'
           /\ CacheSound /\ UNCHANGED g_resp_cache => CacheSound'
           /\ RequestsKnown /\ UNCHANGED requests => RequestsKnown'
           /\ DeletedKnown /\ UNCHANGED deleted => DeletedKnown'
<1>1. /\ \A id, n : Is(id, n) => Is(id, n)'
      /\ \A id : Known(id) => Known(id)'
  BY KeepsMade
<1>2. (Careless' <=> Careless) /\ (Trusted' <=> Trusted)
  BY DEF Careless, Trusted
<1>3. \A f : Sound(f) => Sound(f)'
  BY <1>1 DEF Sound
<1>4. \A r : Gathers(r) => Gathers(r)'
  BY <1>1, <1>2 DEF Gathers
<1>5. CacheSound /\ UNCHANGED g_resp_cache => CacheSound'
  BY <1>3 DEF CacheSound
<1>6. RequestsKnown /\ UNCHANGED requests => RequestsKnown'
  BY <1>1, <1>2 DEF RequestsKnown
<1>7. DeletedKnown /\ UNCHANGED deleted => DeletedKnown'
  BY <1>1, <1>2 DEF DeletedKnown
<1>. QED
  BY <1>3, <1>4, <1>5, <1>6, <1>7

---------------------------------------------------------------------------
\* A response on its way to the APP

\* The frames of one response are about one record, and an APP that goes by the
\* last entry finds the others with it.
Response(frames) ==
    /\ frames \in Seq(Frame)
    /\ \A k \in DOMAIN frames : Sound(frames[k])
    /\ \A k, l \in DOMAIN frames :
         frames[k].status = "entry" /\ frames[l].status = "entry" =>
            frames[k].id = frames[l].id /\ frames[k].total = frames[l].total
    /\ Careless => \A k \in DOMAIN frames :
         frames[k].status = "entry" /\ frames[k].idx = frames[k].total - 1 =>
            \A i \in 0..(frames[k].total - 1) : \E l \in DOMAIN frames :
               /\ frames[l].status = "entry" /\ frames[l].idx = i
               /\ frames[l].cmd = frames[k].cmd /\ frames[l].seq = frames[k].seq

\* What the APP gathers of such a response is of one record.
LEMMA NotifyKeeps ==
    ASSUME Types, OwnNumbers, NEW r \in Reader, Gathers(r),
           NEW frames, Response(frames), Notify(r, frames),
           UNCHANGED <<stored, deleted, scene>>
    PROVE  /\ reader' \in Reader /\ reader'.seq = r.seq
           /\ heard \subseteq heard' /\ Gathers(reader)'
<1>1. PICK lost \in SUBSET DOMAIN frames :
         LET arrived == {frames[k] : k \in DOMAIN frames \ lost} IN
         /\ IF ~g_ble_connected THEN lost = DOMAIN frames /\ UNCHANGED faults
            ELSE IF lost = {} THEN UNCHANGED faults
            ELSE scene.airLosses /\ Fault
         /\ Reads(r, arrived)
         /\ heard' = heard \cup {<<f.id, f.idx>> :
                                    f \in {g \in arrived : g.status = "entry"}}
  BY DEF Notify
<1>. DEFINE arrived == {frames[k] : k \in DOMAIN frames \ lost}
            mine == {f \in arrived : f.cmd = r.asked /\ f.seq = r.seq}
            entries == {f \in mine : f.status = "entry"}
<1>2. /\ Reads(r, arrived)
      /\ heard' = heard \cup {<<f.id, f.idx>> : f \in {g \in arrived : g.status = "entry"}}
  BY <1>1
<1>3. heard \subseteq heard' /\ \A f \in entries : <<f.id, f.idx>> \in heard'
  BY <1>2
<1>4. /\ \A id, n : Is(id, n)' <=> Is(id, n)
      /\ \A id : Known(id) => Known(id)'
      /\ (Careless' <=> Careless) /\ (Trusted' <=> Trusted)
  BY <1>3, SameMade DEF Careless, Trusted
<1>5. Careless => arrived = {} \/ lost = {}
  BY <1>1 DEF Careless
<1>6. arrived \subseteq Frame /\ (\A f \in arrived : Sound(f))
  BY DEF Response
<1>7. \A f, g \in entries : f.id = g.id /\ f.total = g.total
  BY DEF Response
<1>8. Careless => \A f \in entries : f.idx = f.total - 1 =>
                    \A i \in 0..(f.total - 1) : \E g \in entries : g.idx = i
  BY <1>5 DEF Response
<1>9. \/ mine = {} /\ reader' = r
      \/ \E f \in entries :
           reader' = [r EXCEPT !.id = f.id, !.total = f.total,
                        !.got = {e.idx : e \in entries}
                                \cup (IF @ # {} /\ r.id = f.id THEN @ ELSE {}),
                        !.asked = IF \E e \in entries : e.idx = f.total - 1
                                  THEN Idle ELSE @]
      \/ \E f \in mine \ entries :
           reader' = [r EXCEPT !.asked = Idle,
                        !.none = f.cmd = "get" /\ f.status = "ok",
                        !.wants = ~(f.cmd = "get" /\ f.status = "ok"),
                        !.total = IF f.cmd = "delete" THEN 0 ELSE @]
  BY <1>2 DEF Reads
<1>10. CASE reader' = r
  BY <1>10, <1>3, <1>4 DEF Gathers
<1>11. ASSUME NEW f \in entries,
              reader' = [r EXCEPT !.id = f.id, !.total = f.total,
                           !.got = {e.idx : e \in entries}
                                   \cup (IF @ # {} /\ r.id = f.id THEN @ ELSE {}),
                           !.asked = IF \E e \in entries : e.idx = f.total - 1
                                     THEN Idle ELSE @]
       PROVE  reader' \in Reader /\ reader'.seq = r.seq /\ Gathers(reader)'
  <2>. DEFINE old == IF r.got # {} /\ r.id = f.id THEN r.got ELSE {}
  <2>1. /\ f \in Frame /\ Sound(f) /\ f.status = "entry"
        /\ f.cmd = r.asked /\ r.asked = "get"
    BY <1>6 DEF Sound
  <2>2. Is(f.id, f.total) /\ f.total \in Nat \ {0} /\ f.id \in Nat
    BY <2>1 DEF Sound, Is, Record, Frame
  <2>3. {e.idx : e \in entries} \subseteq Nat
    BY <1>6 DEF Frame
  <2>4. /\ reader'.id = f.id /\ reader'.total = f.total /\ reader'.seq = r.seq
        /\ reader'.got = {e.idx : e \in entries} \cup old
        /\ reader'.asked \in {Idle, "get"}
        /\ reader' \in Reader
    BY <1>11, <2>1, <2>2, <2>3 DEF Reader
  <2>5. \A i \in reader'.got : <<reader'.id, i>> \in heard'
    BY <1>3, <1>7, <2>4 DEF Gathers
  <2>6. Careless /\ (f.total - 1) \in reader'.got =>
          \A i \in 0..(f.total - 1) : i \in reader'.got
    <3>. SUFFICES ASSUME Careless, (f.total - 1) \in reader'.got,
                         NEW i \in 0..(f.total - 1)
                  PROVE  i \in reader'.got
      OBVIOUS
    <3>1. CASE \E e \in entries : e.idx = f.total - 1
      BY <3>1, <1>7, <1>8, <2>4
    <3>2. CASE (f.total - 1) \in old
      <4>1. r.got # {} /\ r.id = f.id /\ r.total # 0 /\ Is(r.id, r.total)
        BY <3>2, <2>1 DEF Gathers
      <4>2. r.total = f.total
        BY <4>1, <2>2 DEF OwnNumbers, Is
      <4>. QED
        BY <3>2, <4>1, <4>2, <2>4 DEF Gathers
    <3>. QED
      BY <3>1, <3>2, <2>4
  <2>7. Idle # "delete"
    BY DEF Idle
  <2>. QED
    BY <1>4, <2>2, <2>4, <2>5, <2>6, <2>7 DEF Gathers
<1>12. ASSUME NEW f \in mine \ entries,
              reader' = [r EXCEPT !.asked = Idle,
                           !.none = f.cmd = "get" /\ f.status = "ok",
                           !.wants = ~(f.cmd = "get" /\ f.status = "ok"),
                           !.total = IF f.cmd = "delete" THEN 0 ELSE @]
       PROVE  reader' \in Reader /\ reader'.seq = r.seq /\ Gathers(reader)'
  <2>1. /\ reader' \in Reader /\ reader'.seq = r.seq /\ reader'.asked = Idle
        /\ reader'.id = r.id /\ reader'.got = r.got /\ reader'.total \in {0, r.total}
    BY <1>12 DEF Reader
  <2>. QED
    BY <2>1, <1>3, <1>4 DEF Gathers, Idle
<1>. QED
  BY <1>3, <1>9, <1>10, <1>11, <1>12

\* A response that is no entry.
LEMMA PlainResponse ==
    ASSUME NEW cmd \in {"get", "delete"}, NEW seq \in Nat,
           NEW status \in {"ok", "timeout", "busy", "internal", "soc_error"}
    PROVE  Response(<<Plain(cmd, seq, status)>>)
<1>1. Plain(cmd, seq, status) \in Frame /\ Plain(cmd, seq, status).status # "entry"
  BY DEF Plain, Frame
<1>. DEFINE frames == <<Plain(cmd, seq, status)>>
<1>2. /\ frames \in Seq(Frame) /\ DOMAIN frames = {1}
      /\ frames[1].status # "entry"
  BY <1>1
<1>3. \A k \in DOMAIN frames : frames[k].status # "entry"
  BY <1>2
<1>. HIDE DEF frames
<1>4. Response(frames)
  BY <1>2, <1>3 DEF Response, Sound
<1>. QED
  BY <1>4 DEF frames

\* What is sent is also kept for repeats.
LEMMA CacheKeeps ==
    ASSUME RecordsConstants, Types, CacheSound, NEW frames, Response(frames),
           CacheSave(frames)
    PROVE  /\ g_resp_cache' \in [0..(CacheSize - 1) -> Frame \cup {NoFrame}]
           /\ \A i \in DOMAIN g_resp_cache' :
                g_resp_cache'[i] # NoFrame => Sound(g_resp_cache'[i])
<1>. DEFINE LandsOn(k, i) == (g_resp_cache_idx + k - 1) % CacheSize = i
            Last(i) == {k \in DOMAIN frames :
                          /\ LandsOn(k, i)
                          /\ \A l \in (k + 1)..Len(frames) : ~LandsOn(l, i)}
<1>1. g_resp_cache' = [i \in DOMAIN g_resp_cache |->
                         IF Last(i) = {} THEN g_resp_cache[i]
                         ELSE frames[CHOOSE k \in Last(i) : TRUE]]
  BY DEF CacheSave
<1>. HIDE DEF LandsOn
<1>2. ASSUME NEW i \in DOMAIN g_resp_cache
      PROVE  \/ g_resp_cache'[i] = g_resp_cache[i]
             \/ \E k \in DOMAIN frames : g_resp_cache'[i] = frames[k]
  <2>1. CASE Last(i) = {}
    BY <1>1, <2>1
  <2>2. CASE Last(i) # {}
    <3>1. (CHOOSE k \in Last(i) : TRUE) \in Last(i)
      BY <2>2
    <3>. QED
      BY <1>1, <2>2, <3>1
  <2>. QED
    BY <2>1, <2>2
<1>3. DOMAIN g_resp_cache' = DOMAIN g_resp_cache /\ DOMAIN g_resp_cache = 0..(CacheSize - 1)
  BY <1>1 DEF Types
<1>4. \A k \in DOMAIN frames : frames[k] \in Frame /\ Sound(frames[k])
  BY DEF Response
<1>5. \A i \in DOMAIN g_resp_cache : g_resp_cache'[i] \in Frame \cup {NoFrame}
  BY <1>2, <1>4 DEF Types
<1>6. \A i \in DOMAIN g_resp_cache : g_resp_cache'[i] # NoFrame => Sound(g_resp_cache'[i])
  BY <1>2, <1>4 DEF CacheSound
<1>7. g_resp_cache' = [i \in DOMAIN g_resp_cache |-> g_resp_cache'[i]]
  BY <1>1
<1>. QED
  BY <1>3, <1>5, <1>6, <1>7

\* The APP r goes on soundly, and so does what is kept for repeats.
Goes(r) == /\ reader' \in Reader /\ reader'.seq = r.seq
           /\ heard \subseteq heard' /\ Gathers(reader)'
           /\ g_resp_cache' \in [0..(CacheSize - 1) -> Frame \cup {NoFrame}]
           /\ CacheSound'

LEMMA RespondKeeps ==
    ASSUME RecordsConstants, RecordsInv, NEW r \in Reader, Gathers(r),
           NEW frames, Response(frames), Respond(r, frames),
           UNCHANGED <<stored, deleted, scene>>
    PROVE  Goes(r)
<1>1. /\ reader' \in Reader /\ reader'.seq = r.seq
      /\ heard \subseteq heard' /\ Gathers(reader)'
  BY NotifyKeeps DEF Respond, RecordsInv
<1>2. /\ g_resp_cache' \in [0..(CacheSize - 1) -> Frame \cup {NoFrame}]
      /\ \A i \in DOMAIN g_resp_cache' :
           g_resp_cache'[i] # NoFrame => Sound(g_resp_cache'[i])
  BY CacheKeeps DEF Respond, RecordsInv
<1>3. \A f : Sound(f) => Sound(f)'
  BY SameMade DEF Sound
<1>4. CacheSound'
  BY <1>2, <1>3 DEF CacheSound
<1>. QED
  BY <1>1, <1>2, <1>4 DEF Goes

\* Nothing is sent: the APP goes on as it is.
LEMMA SilentKeeps ==
    ASSUME RecordsInv, NEW r \in Reader, Gathers(r), Silent(r),
           UNCHANGED <<stored, deleted, scene>>
    PROVE  Goes(r)
<1>1. \A s \in Record : IsMade(s) => IsMade(s)'
  BY SameMade
<1>2. reader' = r /\ UNCHANGED <<heard, g_resp_cache>>
  BY DEF Silent
<1>3. Gathers(r)' /\ CacheSound'
  BY <1>1, <1>2, Keeps DEF RecordsInv
<1>4. Gathers(reader)'
  BY <1>2, <1>3 DEF Gathers
<1>. QED
  BY <1>2, <1>3, <1>4 DEF RecordsInv, Types, Goes

---------------------------------------------------------------------------
\* Steps

\* The request that a frame of the APP r becomes
RequestOf(r) == [cmd |-> r.asked, id |-> IF r.asked = "get" THEN 0 ELSE r.id]

\* A new number reaches a handler.
LEMMA CommandGoes ==
    ASSUME RecordsConstants, RecordsInv, NEW r \in Reader, Gathers(r),
           rx_command(r), UNCHANGED <<stored, deleted, scene>>
    PROVE  /\ Goes(r) /\ s_last_seq' = r.seq /\ r.asked \in {"get", "delete"}
           /\ g_ctx_calm_record_get' \in [busy : BOOLEAN, bleSeq : Nat]
           /\ g_ctx_calm_record_delete' \in [bleSeq : Nat]
           /\ UNCHANGED requests \/ requests' = Append(requests, RequestOf(r))
<1>1. r.seq \in Nat
  BY DEF Reader
<1>2. /\ g_ctx_calm_record_get \in [busy : BOOLEAN, bleSeq : Nat]
      /\ g_ctx_calm_record_delete \in [bleSeq : Nat]
  BY DEF RecordsInv, Types
<1>3. CASE r.asked = "get" /\ handle_calm_record_get(r)
  <2>1. Goes(r)
    <3>1. CASE Silent(r)
      BY <3>1, SilentKeeps
    <3>2. ASSUME NEW status \in {"timeout", "busy"},
                 Respond(r, <<Plain("get", r.seq, status)>>)
          PROVE  Goes(r)
      BY <1>1, <3>2, RespondKeeps, PlainResponse
    <3>. QED
      BY <1>3, <3>1, <3>2 DEF handle_calm_record_get
  <2>2. RequestOf(r) = [cmd |-> "get", id |-> 0]
    BY <1>3 DEF RequestOf
  <2>3. UNCHANGED requests \/ requests' = Append(requests, RequestOf(r))
    BY <1>3, <2>2 DEF handle_calm_record_get, Forward
  <2>4. UNCHANGED g_ctx_calm_record_delete
    BY <1>3 DEF handle_calm_record_get
  <2>8. g_ctx_calm_record_get' \in [busy : BOOLEAN, bleSeq : Nat]
    <3>1. g_ctx_calm_record_get' \in {g_ctx_calm_record_get, [busy |-> TRUE, bleSeq |-> r.seq],
                                      [busy |-> FALSE, bleSeq |-> r.seq]}
      BY <1>3, Zenon DEF handle_calm_record_get
    <3>2. /\ [busy |-> TRUE, bleSeq |-> r.seq] \in [busy : BOOLEAN, bleSeq : Nat]
          /\ [busy |-> FALSE, bleSeq |-> r.seq] \in [busy : BOOLEAN, bleSeq : Nat]
      BY <1>1
    <3>. QED
      BY <1>2, <3>1, <3>2
  <2>5. s_last_seq' = r.seq
    BY DEF rx_command
  <2>6. g_ctx_calm_record_delete' \in [bleSeq : Nat]
    BY <1>2, <2>4
  <2>7. r.asked \in {"get", "delete"}
    BY <1>3
  <2>. QED
    BY <2>1, <2>3, <2>4, <2>5, <2>6, <2>7, <2>8
<1>4. CASE r.asked = "delete" /\ handle_calm_record_delete(r)
  <2>1. Goes(r)
    <3>1. CASE Silent(r)
      BY <3>1, SilentKeeps
    <3>2. CASE Respond(r, <<Plain("delete", r.seq, "timeout")>>)
      BY <1>1, <3>2, RespondKeeps, PlainResponse
    <3>. QED
      BY <1>4, <3>1, <3>2 DEF handle_calm_record_delete
  <2>. QED
    BY <1>1, <1>2, <1>4, <2>1
    DEF rx_command, handle_calm_record_delete, Forward, RequestOf
<1>. QED
  BY <1>3, <1>4 DEF rx_command

\* An old number is answered from the cache, or with a plain OK.
LEMMA RepeatGoes ==
    ASSUME RecordsConstants, RecordsInv, NEW r \in Reader, Gathers(r),
           r.asked \in {"get", "delete"}, ~Careless,
           rx_repeated(r), UNCHANGED <<stored, deleted, scene>>
    PROVE  Goes(r)
<1>1. CASE Respond(r, <<Plain(r.asked, r.seq, "ok")>>)
  <2>1. r.seq \in Nat
    BY DEF Reader
  <2>. QED
    BY <1>1, <2>1, RespondKeeps, PlainResponse
<1>2. ASSUME NEW i \in DOMAIN g_resp_cache, g_resp_cache[i] # NoFrame,
             Notify(r, <<g_resp_cache[i]>>), UNCHANGED g_resp_cache
      PROVE  Goes(r)
  <2>. DEFINE frames == <<g_resp_cache[i]>>
  <2>1. g_resp_cache[i] \in Frame /\ Sound(g_resp_cache[i])
    BY <1>2 DEF RecordsInv, Types, CacheSound
  <2>2. /\ frames \in Seq(Frame) /\ DOMAIN frames = {1} /\ Sound(frames[1])
    BY <2>1
  <2>3. Notify(r, frames)
    BY <1>2
  <2>. HIDE DEF frames
  <2>4. Response(frames)
    BY <2>2 DEF Response
  <2>5. /\ reader' \in Reader /\ reader'.seq = r.seq
        /\ heard \subseteq heard' /\ Gathers(reader)'
    BY <2>3, <2>4, NotifyKeeps DEF RecordsInv
  <2>6. CacheSound'
    <3>1. \A s \in Record : IsMade(s) => IsMade(s)'
      BY SameMade
    <3>. QED
      BY <1>2, <2>5, <3>1, Keeps DEF RecordsInv
  <2>. QED
    BY <1>2, <2>5, <2>6 DEF Goes, RecordsInv, Types
<1>. QED
  BY <1>1, <1>2 DEF rx_repeated, FirstCached, Cached

\* A frame of an APP that has gathered soundly, under a number not older than
\* the last one.
LEMMA WriteKeeps ==
    ASSUME RecordsConstants, RecordsInv, NEW r \in Reader, Gathers(r),
           r.asked \in {"get", "delete"}, s_last_seq <= r.seq,
           Careless => s_last_seq # r.seq, Write(r)
    PROVE  RecordsInv'
<1>1. /\ UNCHANGED <<g_ble_connected, messages, stored, deleted, scene>>
      /\ rx_repeated(r) \/ rx_command(r)
  BY DEF Write
<1>2. /\ Goes(r) /\ s_last_seq' \in {s_last_seq, r.seq}
      /\ g_ctx_calm_record_get' \in [busy : BOOLEAN, bleSeq : Nat]
      /\ g_ctx_calm_record_delete' \in [bleSeq : Nat]
      /\ UNCHANGED requests \/ requests' = Append(requests, RequestOf(r))
  <2>1. CASE rx_command(r)
    BY <1>1, <2>1, CommandGoes
  <2>2. CASE rx_repeated(r)
    <3>1. Goes(r)
      BY <1>1, <2>2, RepeatGoes DEF rx_repeated
    <3>. QED
      BY <2>2, <3>1 DEF rx_repeated, RecordsInv, Types
  <2>. QED
    BY <1>1, <2>1, <2>2
<1>3. RequestOf(r) \in Request
  BY DEF RequestOf, Request, Reader
<1>4. s_last_seq' \in Nat /\ s_last_seq' <= reader'.seq
  <2>1. r.seq \in Nat /\ s_last_seq \in Nat
    BY DEF RecordsInv, Types, Reader
  <2>2. reader'.seq = r.seq
    BY <1>2 DEF Goes
  <2>. QED
    BY <1>2, <2>1, <2>2
<1>5. Types'
  <2>1. requests' \in Seq(Request)
    <3>1. requests \in Seq(Request)
      BY DEF RecordsInv, Types
    <3>2. Append(requests, RequestOf(r)) \in Seq(Request)
      BY <1>3, <3>1, AppendIs
    <3>. QED
      BY <1>2, <3>1, <3>2
  <2>2. reader' \in Reader /\ g_resp_cache' \in [0..(CacheSize - 1) -> Frame \cup {NoFrame}]
    BY <1>2 DEF Goes
  <2>3. scene' \in Scenes /\ g_ble_connected' \in BOOLEAN
    BY <1>1 DEF RecordsInv, Types
  <2>4. messages' \in Seq(Message) /\ stored' \in Seq(Record) /\ deleted' \in Seq(Record)
    BY <1>1 DEF RecordsInv, Types
  <2>. QED
    BY <1>2, <1>4, <2>1, <2>2, <2>3, <2>4 DEF Types
<1>6. \A s \in Record : IsMade(s) => IsMade(s)'
  BY <1>1, SameMade
<1>7. OwnNumbers'
  BY <1>1, SameMade DEF RecordsInv
<1>8. MessagesSound'
  BY <1>1, SameMade DEF RecordsInv, MessagesSound
<1>9. DeletedKnown'
  BY <1>1, <1>2, <1>6, Keeps DEF RecordsInv, Goes
<1>10. RequestsKnown'
  <2>1. (Trusted' <=> Trusted) /\ \A id : Known(id) => Known(id)'
    BY <1>1, <1>2, SameMade DEF Goes, Trusted, Careless
  <2>2. CASE UNCHANGED requests
    BY <2>1, <2>2 DEF RecordsInv, RequestsKnown
  <2>3. CASE requests' = Append(requests, RequestOf(r))
    <3>1. Trusted /\ RequestOf(r).cmd = "delete" => Known(RequestOf(r).id)
      BY DEF Gathers, RequestOf
    <3>2. ASSUME NEW k \in DOMAIN requests'
          PROVE  \/ k \in DOMAIN requests /\ requests'[k] = requests[k]
                 \/ requests'[k] = RequestOf(r)
      BY <1>3, <2>3, <3>2, AppendIs DEF RecordsInv, Types
    <3>. QED
      BY <2>1, <3>1, <3>2 DEF RecordsInv, RequestsKnown
  <2>. QED
    BY <1>2, <2>2, <2>3
<1>. QED
  BY <1>2, <1>4, <1>5, <1>7, <1>8, <1>9, <1>10 DEF RecordsInv, Goes

\* Lines that only get shorter, or carry an announcement more, carry nothing new.
LEMMA LinesKeep ==
    ASSUME RecordsInv, heard \subseteq heard', UNCHANGED <<stored, deleted, scene>>,
           \A k \in DOMAIN requests' : \E l \in DOMAIN requests : requests'[k] = requests[l],
           \A k \in DOMAIN messages' :
              messages'[k].cmd = "new" \/ \E l \in DOMAIN messages : messages'[k] = messages[l]
    PROVE  OwnNumbers' /\ MessagesSound' /\ RequestsKnown' /\ DeletedKnown'
<1>1. OwnNumbers'
  BY SameMade DEF RecordsInv
<1>2. \A r : IsMade(r)' <=> IsMade(r)
  BY SameMade
<1>3. MessagesSound'
  BY <1>2 DEF RecordsInv, MessagesSound
<1>4. (Trusted' <=> Trusted) /\ \A id : Known(id) => Known(id)'
  BY SameMade DEF Trusted, Careless
<1>5. RequestsKnown'
  BY <1>4 DEF RecordsInv, RequestsKnown
<1>6. DeletedKnown'
  BY <1>4 DEF RecordsInv, DeletedKnown
<1>. QED
  BY <1>1, <1>3, <1>5, <1>6

\* A step of the lines, of the connection or of the APP alone.
LEMMA QuietKeeps ==
    ASSUME RecordsInv, NEW r \in Reader, Gathers(r), r.seq = reader.seq, reader' = r,
           UNCHANGED <<s_last_seq, g_ctx_calm_record_delete, g_resp_cache, heard,
                       stored, deleted, scene>>,
           g_ble_connected' \in BOOLEAN,
           g_ctx_calm_record_get' \in [busy : BOOLEAN, bleSeq : Nat],
           requests' \in Seq(Request), messages' \in Seq(Message),
           \A k \in DOMAIN requests' : \E l \in DOMAIN requests : requests'[k] = requests[l],
           \A k \in DOMAIN messages' :
              messages'[k].cmd = "new" \/ \E l \in DOMAIN messages : messages'[k] = messages[l]
    PROVE  RecordsInv'
<1>1. \A s \in Record : IsMade(s) => IsMade(s)'
  BY SameMade
<1>2. Gathers(r)' /\ CacheSound'
  BY <1>1, Keeps DEF RecordsInv
<1>3. Gathers(reader)'
  BY <1>2 DEF Gathers
<1>4. OwnNumbers' /\ MessagesSound' /\ RequestsKnown' /\ DeletedKnown'
  BY LinesKeep
<1>5. Types'
  BY DEF RecordsInv, Types
<1>6. (s_last_seq <= reader.seq)'
  BY DEF RecordsInv
<1>. QED
  BY <1>2, <1>3, <1>4, <1>5, <1>6 DEF RecordsInv

\* The APP goes on: it asks, deletes, repeats, gives up, comes or goes.
LEMMA AppKeeps ==
    ASSUME RecordsConstants, RecordsInv,
           AppGet \/ AppDelete \/ AppRepeat \/ AppGivesUp \/ ConnectionChange
    PROVE  RecordsInv'
<1>. USE DEF Idle
<1>1. /\ reader \in Reader /\ reader.seq \in Nat /\ Gathers(reader)
      /\ s_last_seq \in Nat /\ s_last_seq <= reader.seq
  BY DEF RecordsInv, Types, Reader
<1>2. CASE AppGet
  <2>. DEFINE r == [NewReader(reader.seq + 1) EXCEPT !.asked = "get"]
  <2>1. /\ r \in Reader /\ r.seq = reader.seq + 1 /\ r.asked = "get"
        /\ r.got = {} /\ r.total = 0
    <3>. DEFINE new == NewReader(reader.seq + 1)
    <3>1. reader.seq + 1 \in Nat
      BY <1>1
    <3>2. /\ new \in Reader
          /\ new.seq = reader.seq + 1 /\ new.got = {} /\ new.total = 0
      BY <3>1 DEF NewReader, Reader
    <3>. QED
      BY <3>2 DEF Reader
  <2>2. Write(r)
    BY <1>2 DEF AppGet
  <2>. HIDE DEF r
  <2>3. Gathers(r)
    BY <2>1 DEF Gathers
  <2>. QED
    BY <1>1, <2>1, <2>2, <2>3, WriteKeeps
<1>3. CASE AppDelete
  <2>. DEFINE r == [reader EXCEPT !.asked = "delete", !.seq = @ + 1]
  <2>1. /\ r \in Reader /\ r.seq = reader.seq + 1 /\ r.asked = "delete"
        /\ r.got = reader.got /\ r.total = reader.total /\ r.id = reader.id
    <3>1. reader.seq + 1 \in Nat
      BY <1>1
    <3>2. r \in Reader
      BY <1>1, <3>1 DEF Reader
    <3>. QED
      BY <1>1, <3>2 DEF Reader
  <2>2. Write(r) /\ Complete
    BY <1>3 DEF AppDelete
  <2>3. reader.total \in Nat /\ reader.total # 0
    BY <1>1, <2>2 DEF Complete, Reader
  <2>4. Trusted => \A i \in 0..(reader.total - 1) : i \in reader.got
    BY <1>1, <2>2, <2>3 DEF Complete, Trusted, Gathers, Careless
  <2>5. Trusted => Known(reader.id)
    BY <1>1, <2>3, <2>4 DEF Gathers, Known
  <2>. HIDE DEF r
  <2>6. Gathers(r)
    BY <1>1, <2>1, <2>5 DEF Gathers
  <2>. QED
    BY <1>1, <2>1, <2>2, <2>6, WriteKeeps
<1>4. CASE AppRepeat
  <2>1. Write(reader) /\ reader.asked \in {"get", "delete"} /\ ~Careless
    BY <1>1, <1>4 DEF AppRepeat, Reader, Careless
  <2>. QED
    BY <1>1, <2>1, WriteKeeps
<1>5. CASE AppGivesUp
  <2>. DEFINE r == [reader EXCEPT !.asked = Idle, !.wants = TRUE, !.total = 0]
  <2>1. /\ r \in Reader /\ r.seq = reader.seq /\ r.asked = Idle
        /\ r.got = reader.got /\ r.total = 0 /\ r.id = reader.id
    BY <1>1 DEF Reader
  <2>2. reader' = r
    BY <1>5 DEF AppGivesUp
  <2>. HIDE DEF r
  <2>3. Gathers(r)
    BY <1>1, <2>1 DEF Gathers
  <2>. QED
    BY <1>5, <2>1, <2>2, <2>3, QuietKeeps
    DEF AppGivesUp, mcu, store, lines, bounds, RecordsInv, Types
<1>6. CASE ConnectionChange
  <2>. DEFINE r == NewReader(reader.seq)
  <2>1. r \in Reader /\ r.seq = reader.seq /\ r.asked = Idle /\ r.got = {} /\ r.total = 0
    BY <1>1 DEF NewReader, Reader
  <2>2. reader' = r
    BY <1>6 DEF ConnectionChange
  <2>. HIDE DEF r
  <2>3. Gathers(r)
    BY <2>1 DEF Gathers
  <2>. QED
    BY <1>6, <2>1, <2>2, <2>3, QuietKeeps
    DEF ConnectionChange, mcu, store, lines, RecordsInv, Types
<1>. QED
  BY <1>2, <1>3, <1>4, <1>5, <1>6

\* The answer to a request for a record becomes a sound response.
LEMMA RecordResponse ==
    ASSUME RecordsConstants, RecordsInv, NEW m \in Message, m.cmd = "get",
           m.record # NoRecord => IsMade(m.record)
    PROVE  Response(RecordFrames(m))
<1>. DEFINE seq == g_ctx_calm_record_get.bleSeq
            n == IF m.record.entries < Fits THEN m.record.entries ELSE Fits
            frames == [k \in 1..n |-> Entry(seq, m.record.id, k - 1, m.record.entries)]
<1>1. seq \in Nat
  BY DEF RecordsInv, Types
<1>2. m.record \in Record \cup {NoRecord}
  BY DEF Message
<1>3. CASE m.status # "ok" \/ m.record.entries = 0
  BY <1>1, <1>3, PlainResponse DEF RecordFrames
<1>4. CASE m.status = "ok" /\ m.record.entries # 0
  <2>1. m.record \in Record /\ IsMade(m.record)
    BY <1>2, <1>4 DEF NoRecord
  <2>2. /\ m.record.id \in Nat /\ m.record.entries \in Nat \ {0}
        /\ m.record = [id |-> m.record.id, entries |-> m.record.entries]
    BY <2>1 DEF Record
  <2>3. Is(m.record.id, m.record.entries)
    BY <2>1, <2>2 DEF Is
  <2>4. n \in Nat /\ n <= m.record.entries
    BY <2>2 DEF RecordsConstants
  <2>. HIDE DEF n, seq
  <2>5. \A k \in 1..n : /\ frames[k] \in Frame
                        /\ frames[k].status = "entry" /\ frames[k].cmd = "get"
                        /\ frames[k].seq = seq /\ frames[k].id = m.record.id
                        /\ frames[k].idx = k - 1 /\ frames[k].total = m.record.entries
    BY <1>1, <2>2, <2>4 DEF Entry, Frame
  <2>6. frames \in Seq(Frame) /\ DOMAIN frames = 1..n
    BY <2>4, <2>5
  <2>7. RecordFrames(m) = frames
    BY <1>4 DEF RecordFrames, n, seq
  <2>. HIDE DEF frames
  <2>8. \A k \in DOMAIN frames : Sound(frames[k])
    BY <2>3, <2>5, <2>6 DEF Sound
  <2>9. ASSUME NEW k \in DOMAIN frames, frames[k].idx = frames[k].total - 1,
               NEW i \in 0..(frames[k].total - 1)
        PROVE  \E l \in DOMAIN frames :
                  /\ frames[l].status = "entry" /\ frames[l].idx = i
                  /\ frames[l].cmd = frames[k].cmd /\ frames[l].seq = frames[k].seq
    <3>1. k \in 1..n /\ k - 1 = m.record.entries - 1 /\ i \in 0..(m.record.entries - 1)
      BY <2>5, <2>6, <2>9
    <3>2. i + 1 \in 1..n
      BY <2>2, <2>4, <3>1
    <3>3. (i + 1) - 1 = i
      BY <3>1
    <3>. QED
      BY <2>5, <2>6, <3>1, <3>2, <3>3
  <2>10. Response(frames)
    BY <2>5, <2>6, <2>8, <2>9 DEF Response
  <2>. QED
    BY <2>7, <2>10
<1>. QED
  BY <1>3, <1>4

\* The MCU hears the SOC.
LEMMA CallbackKeeps ==
    ASSUME RecordsConstants, RecordsInv, Callback PROVE RecordsInv'
<1>1. PICK m \in {messages[k] : k \in DOMAIN messages} :
         rsp_calm_record_get(m) \/ rsp_calm_record_delete(m) \/ evt_new_calm_record(m)
  BY DEF Callback
<1>2. /\ messages # <<>> /\ m = Head(messages) /\ messages' = Tail(messages)
      /\ UNCHANGED <<g_ble_connected, s_last_seq, stored, deleted, requests, scene>>
  BY <1>1 DEF rsp_calm_record_get, rsp_calm_record_delete, evt_new_calm_record, Takes,
              store, bounds
<1>3. /\ reader \in Reader /\ Gathers(reader) /\ messages \in Seq(Message)
      /\ g_ctx_calm_record_get \in [busy : BOOLEAN, bleSeq : Nat]
      /\ g_ctx_calm_record_delete \in [bleSeq : Nat]
  BY DEF RecordsInv, Types
<1>4. /\ messages' \in Seq(Message) /\ m \in Message
      /\ \A k \in DOMAIN messages' : \E l \in DOMAIN messages : messages'[k] = messages[l]
  BY <1>2, <1>3, TailIs
<1>5. m.cmd = "get" /\ m.record # NoRecord => IsMade(m.record)
  <2>1. \E k \in DOMAIN messages : m = messages[k]
    BY <1>1
  <2>. QED
    BY <2>1 DEF RecordsInv, MessagesSound
<1>6. \A k \in DOMAIN requests' : \E l \in DOMAIN requests : requests'[k] = requests[l]
  BY <1>2
<1>7. CASE rsp_calm_record_get(m) \/ rsp_calm_record_delete(m)
  <2>1. Goes(reader) /\ UNCHANGED g_ctx_calm_record_delete
    <3>1. CASE rsp_calm_record_get(m)
      <4>1. Response(RecordFrames(m))
        BY <1>4, <1>5, <3>1, RecordResponse DEF rsp_calm_record_get
      <4>. QED
        BY <1>2, <1>3, <3>1, <4>1, RespondKeeps, SilentKeeps DEF rsp_calm_record_get
    <3>2. CASE rsp_calm_record_delete(m)
      <4>1. ASSUME NEW status \in {"ok", "soc_error"},
                   Respond(reader, <<Plain("delete", g_ctx_calm_record_delete.bleSeq, status)>>)
            PROVE  Goes(reader)
        BY <1>2, <1>3, <4>1, RespondKeeps, PlainResponse
      <4>. QED
        BY <3>2, <4>1 DEF rsp_calm_record_delete
    <3>. QED
      BY <1>7, <3>1, <3>2
  <2>2. g_ctx_calm_record_get' \in [busy : BOOLEAN, bleSeq : Nat]
    BY <1>3, <1>7 DEF rsp_calm_record_get, rsp_calm_record_delete
  <2>3. OwnNumbers' /\ MessagesSound' /\ RequestsKnown' /\ DeletedKnown'
    BY <1>2, <1>4, <1>6, <2>1, LinesKeep DEF Goes
  <2>4. Types'
    BY <1>2, <1>4, <2>1, <2>2 DEF RecordsInv, Types, Goes
  <2>5. (s_last_seq <= reader.seq)'
    BY <1>2, <2>1 DEF RecordsInv, Goes
  <2>. QED
    BY <2>1, <2>3, <2>4, <2>5 DEF RecordsInv, Goes
<1>8. CASE evt_new_calm_record(m)
  <2>1. /\ reader' = reader \/ reader' = [reader EXCEPT !.wants = TRUE]
        /\ UNCHANGED <<heard, g_ctx_calm_record_get, g_ctx_calm_record_delete, g_resp_cache>>
    BY <1>8 DEF evt_new_calm_record
  <2>2. ASSUME NEW s \in {reader, [reader EXCEPT !.wants = TRUE]}
        PROVE  s \in Reader /\ s.seq = reader.seq /\ Gathers(s)
    <3>1. s \in Reader /\ s.seq = reader.seq
      BY <1>3 DEF Reader
    <3>2. s.got = reader.got /\ s.id = reader.id /\ s.total = reader.total /\ s.asked = reader.asked
      BY <1>3 DEF Reader
    <3>. QED
      BY <1>3, <3>1, <3>2 DEF Gathers
  <2>3. g_ble_connected' \in BOOLEAN /\ requests' \in Seq(Request)
    BY <1>2 DEF RecordsInv, Types
  <2>4. CASE reader' = reader
    BY <1>2, <1>3, <1>4, <1>6, <2>1, <2>2, <2>3, <2>4, QuietKeeps
  <2>5. CASE reader' = [reader EXCEPT !.wants = TRUE]
    BY <1>2, <1>3, <1>4, <1>6, <2>1, <2>2, <2>3, <2>5, QuietKeeps
  <2>. QED
    BY <2>1, <2>4, <2>5
<1>. QED
  BY <1>1, <1>7, <1>8

\* A new record has a number of its own.
LEMMA MakesKeeps ==
    ASSUME RecordsConstants, RecordsInv, SocMakesRecord PROVE RecordsInv'
<1>1. /\ scene \in Scenes /\ stored \in Seq(Record) /\ deleted \in Seq(Record)
      /\ OwnNumbers
  BY DEF RecordsInv, Types
<1>2. PICK n \in scene.lengths :
         stored' = Append(stored, [id |-> Len(Made) + 1, entries |-> n])
  BY DEF SocMakesRecord
<1>. DEFINE new == [id |-> Len(stored) + Len(deleted) + 1, entries |-> n]
<1>3. new \in Record /\ new.id = Len(stored) + Len(deleted) + 1
  <2>1. n \in Nat \ {0}
    BY <1>1, <1>2 DEF RecordsConstants
  <2>2. Len(stored) \in Nat /\ Len(deleted) \in Nat
    BY <1>1
  <2>. QED
    BY <2>1, <2>2 DEF Record
<1>4. stored' = Append(stored, new)
  <2>1. Len(Made) = Len(stored) + Len(deleted)
    BY <1>1 DEF Made
  <2>. QED
    BY <1>2, <2>1
<1>. HIDE DEF new
<1>5. /\ UNCHANGED <<deleted, scene, heard, requests, messages, g_resp_cache, reader,
                     s_last_seq, g_ble_connected, g_ctx_calm_record_get,
                     g_ctx_calm_record_delete>>
  BY DEF SocMakesRecord, mcu, lines, bounds
<1>6. /\ stored' \in Seq(Record) /\ Len(stored') = Len(stored) + 1
      /\ \A r : IsMade(r) => IsMade(r)'
      /\ \A r : IsMade(r)' => IsMade(r) \/ r = new
  <2>1. \A r : IsMade(r) => IsMade(r)'
    BY <1>1, <1>3, <1>4, <1>5, AppendIs DEF IsMade
  <2>2. \A r : IsMade(r)' => IsMade(r) \/ r = new
    BY <1>1, <1>3, <1>4, <1>5, AppendIs DEF IsMade
  <2>. QED
    BY <1>1, <1>3, <1>4, <2>1, <2>2, AppendIs
<1>7. Len(stored) \in Nat /\ Len(deleted) \in Nat
  BY <1>1
<1>8. OwnNumbers'
  <2>1. ASSUME NEW r \in Record, IsMade(r)'
        PROVE  r.id <= Len(stored') + Len(deleted')
    <3>1. r.id \in Nat
      BY DEF Record
    <3>. QED
      BY <1>1, <1>3, <1>5, <1>6, <1>7, <2>1, <3>1 DEF OwnNumbers
  <2>2. ASSUME NEW r \in Record, NEW s \in Record, IsMade(r)', IsMade(s)', r.id = s.id
        PROVE  r = s
    <3>1. \A t \in Record : IsMade(t) => t.id < new.id
      <4>. SUFFICES ASSUME NEW t \in Record, IsMade(t) PROVE t.id < new.id
        OBVIOUS
      <4>1. t.id \in Nat /\ t.id <= Len(stored) + Len(deleted)
        BY <1>1 DEF OwnNumbers, Record
      <4>. QED
        BY <1>3, <1>7, <4>1
    <3>2. r.id \in Nat /\ s.id \in Nat
      BY DEF Record
    <3>. QED
      BY <1>1, <1>6, <2>2, <3>1, <3>2 DEF OwnNumbers
  <2>. QED
    BY <2>1, <2>2 DEF OwnNumbers
<1>9. Gathers(reader)' /\ CacheSound' /\ RequestsKnown' /\ DeletedKnown'
  <2>1. /\ CacheSound' /\ RequestsKnown' /\ DeletedKnown'
        /\ \A r : Gathers(r) => Gathers(r)'
    BY <1>5, <1>6, Keeps DEF RecordsInv
  <2>. QED
    BY <1>5, <2>1 DEF RecordsInv, Gathers
<1>10. MessagesSound'
  BY <1>5, <1>6 DEF RecordsInv, MessagesSound
<1>11. Types' /\ (s_last_seq <= reader.seq)'
  BY <1>5, <1>6 DEF RecordsInv, Types
<1>. QED
  BY <1>8, <1>9, <1>10, <1>11 DEF RecordsInv

\* A deletion takes one record away, and keeps it among those that were made.
LEMMA DeletesMoves ==
    ASSUME stored \in Seq(Record), deleted \in Seq(Record), NEW id, Deletes(id)
    PROVE  /\ stored' \in Seq(Record) /\ deleted' \in Seq(Record)
           /\ Len(stored') + Len(deleted') = Len(stored) + Len(deleted)
           /\ \A r : IsMade(r)' <=> IsMade(r)
           /\ \A k \in DOMAIN deleted' :
                \/ k \in DOMAIN deleted /\ deleted'[k] = deleted[k]
                \/ deleted'[k].id = id
<1>1. PICK k \in DOMAIN stored :
        /\ stored[k].id = id
        /\ stored' = [j \in 1..(Len(stored) - 1) |-> stored[IF j < k THEN j ELSE j + 1]]
        /\ deleted' = Append(deleted, stored[k])
  BY DEF Deletes
<1>2. /\ k \in 1..Len(stored) /\ Len(stored) \in Nat /\ Len(deleted) \in Nat
      /\ stored[k] \in Record /\ Len(stored) - 1 \in Nat
  OBVIOUS
<1>3. \A j \in 1..(Len(stored) - 1) :
        /\ (IF j < k THEN j ELSE j + 1) \in DOMAIN stored
        /\ stored'[j] = stored[IF j < k THEN j ELSE j + 1]
  BY <1>1, <1>2
<1>4. stored' \in Seq(Record) /\ Len(stored') = Len(stored) - 1
  BY <1>1, <1>2, <1>3
<1>5. DOMAIN stored' = 1..(Len(stored) - 1)
  BY <1>1
<1>6. \A r : IsMade(r)' => IsMade(r)
  BY <1>1, <1>2, <1>3, <1>5, AppendIs DEF IsMade
<1>7. \A r : IsMade(r) => IsMade(r)'
  <2>. SUFFICES ASSUME NEW r, IsMade(r) PROVE IsMade(r)'
    OBVIOUS
  <2>1. CASE \E l \in DOMAIN deleted : deleted[l] = r
    BY <1>1, <1>2, <2>1, AppendIs DEF IsMade
  <2>2. ASSUME NEW l \in DOMAIN stored, stored[l] = r PROVE IsMade(r)'
    <3>1. CASE l = k
      <4>1. Len(deleted) + 1 \in DOMAIN deleted' /\ deleted'[Len(deleted) + 1] = r
        BY <1>1, <1>2, <2>2, <3>1
      <4>. QED
        BY <4>1 DEF IsMade
    <3>2. CASE l < k
      <4>1. l \in DOMAIN stored' /\ stored'[l] = r
        BY <1>2, <1>3, <1>5, <2>2, <3>2
      <4>. QED
        BY <4>1 DEF IsMade
    <3>3. CASE l > k
      <4>1. l - 1 \in 1..(Len(stored) - 1) /\ ~(l - 1 < k) /\ (l - 1) + 1 = l
        BY <1>2, <2>2, <3>3
      <4>2. l - 1 \in DOMAIN stored' /\ stored'[l - 1] = r
        BY <1>3, <1>5, <2>2, <4>1
      <4>. QED
        BY <4>2 DEF IsMade
    <3>. QED
      BY <1>2, <2>2, <3>1, <3>2, <3>3
  <2>. QED
    BY <2>1, <2>2 DEF IsMade
<1>8. /\ deleted' \in Seq(Record) /\ Len(deleted') = Len(deleted) + 1
      /\ \A l \in DOMAIN deleted' : \/ l \in DOMAIN deleted /\ deleted'[l] = deleted[l]
                                    \/ deleted'[l] = stored[k]
  BY <1>1, <1>2, AppendIs
<1>. QED
  BY <1>1, <1>2, <1>4, <1>6, <1>7, <1>8

\* The SOC answers the oldest request.
LEMMA AnswersKeeps ==
    ASSUME RecordsConstants, RecordsInv, SocAnswers PROVE RecordsInv'
<1>. DEFINE q == Head(requests)
<1>1. /\ stored \in Seq(Record) /\ deleted \in Seq(Record) /\ messages \in Seq(Message)
      /\ requests \in Seq(Request) /\ requests # <<>> /\ requests' = Tail(requests)
  BY DEF RecordsInv, Types, SocAnswers
<1>2. UNCHANGED <<scene, heard, g_resp_cache, reader, s_last_seq, g_ble_connected,
                  g_ctx_calm_record_get, g_ctx_calm_record_delete>>
  BY DEF SocAnswers, mcu, bounds
<1>3. /\ requests' \in Seq(Request) /\ q \in Request
      /\ \A k \in DOMAIN requests' : \E l \in DOMAIN requests : requests'[k] = requests[l]
  BY <1>1, TailIs
<1>4. Trusted /\ q.cmd = "delete" => Known(q.id)
  <2>1. 1 \in DOMAIN requests /\ q = requests[1]
    BY <1>1, TailIs
  <2>. QED
    BY <2>1 DEF RecordsInv, RequestsKnown
<1>5. PICK status \in {"ok", "refused"}, r \in Record \cup {NoRecord} :
        /\ messages' = Append(messages, [cmd |-> q.cmd, status |-> status, record |-> r])
        /\ r # NoRecord => IsMade(r)
        /\ UNCHANGED <<stored, deleted>> \/ (q.cmd = "delete" /\ Deletes(q.id))
  <2>1. CASE q.cmd = "get" /\ UNCHANGED store
             /\ Reply("get", "ok", IF stored = <<>> THEN NoRecord ELSE Head(stored))
    <3>1. CASE stored = <<>>
      BY <2>1, <3>1 DEF Reply, store
    <3>2. CASE stored # <<>>
      <4>1. Head(stored) \in Record /\ 1 \in DOMAIN stored /\ Head(stored) = stored[1]
        BY <1>1, <3>2, TailIs
      <4>2. IsMade(Head(stored))
        BY <4>1 DEF IsMade
      <4>. QED
        BY <2>1, <3>2, <4>1, <4>2 DEF Reply, store
    <3>. QED
      BY <3>1, <3>2
  <2>2. CASE q.cmd = "delete" /\ Deletes(q.id) /\ Reply("delete", "ok", NoRecord)
    BY <2>2 DEF Reply
  <2>3. CASE Reply(q.cmd, "refused", NoRecord) /\ UNCHANGED store
    BY <2>3 DEF Reply, store
  <2>. QED
    BY <2>1, <2>2, <2>3 DEF SocAnswers
<1>. DEFINE answer == [cmd |-> q.cmd, status |-> status, record |-> r]
<1>6. answer \in Message /\ answer.record = r
  BY <1>3 DEF Message, Request
<1>. HIDE DEF q, answer
<1>7. messages' = Append(messages, answer)
  BY <1>5 DEF answer
<1>8. /\ messages' \in Seq(Message)
      /\ \A k \in DOMAIN messages' :
           \/ k \in DOMAIN messages /\ messages'[k] = messages[k]
           \/ messages'[k] = answer
  BY <1>1, <1>6, <1>7, AppendIs
<1>9. /\ stored' \in Seq(Record) /\ deleted' \in Seq(Record)
      /\ Len(stored') + Len(deleted') = Len(stored) + Len(deleted)
      /\ \A s : IsMade(s)' <=> IsMade(s)
      /\ \A k \in DOMAIN deleted' :
           \/ k \in DOMAIN deleted /\ deleted'[k] = deleted[k]
           \/ q.cmd = "delete" /\ deleted'[k].id = q.id
  <2>1. CASE UNCHANGED <<stored, deleted>>
    BY <1>1, <2>1, SameMade
  <2>2. CASE q.cmd = "delete" /\ Deletes(q.id)
    BY <1>1, <2>2, DeletesMoves
  <2>. QED
    BY <1>5, <2>1, <2>2
<1>10. /\ (Trusted' <=> Trusted) /\ \A id : Known(id) => Known(id)'
  BY <1>2, <1>9, KeepsMade DEF Trusted, Careless
<1>11. OwnNumbers'
  BY <1>9 DEF RecordsInv, OwnNumbers
<1>12. MessagesSound'
  BY <1>5, <1>6, <1>8, <1>9 DEF RecordsInv, MessagesSound
<1>13. RequestsKnown'
  BY <1>3, <1>10 DEF RecordsInv, RequestsKnown
<1>14. DeletedKnown'
  BY <1>4, <1>9, <1>10 DEF RecordsInv, DeletedKnown
<1>15. Gathers(reader)' /\ CacheSound'
  <2>1. CacheSound' /\ \A s : Gathers(s) => Gathers(s)'
    BY <1>2, <1>9, Keeps DEF RecordsInv
  <2>. QED
    BY <1>2, <2>1 DEF RecordsInv, Gathers
<1>16. Types' /\ (s_last_seq <= reader.seq)'
  BY <1>2, <1>3, <1>8, <1>9 DEF RecordsInv, Types
<1>. QED
  BY <1>11, <1>12, <1>13, <1>14, <1>15, <1>16 DEF RecordsInv

\* Announcements, losses, a restart of the SOC, the busy mark and the notice.
LEMMA QuietSteps ==
    ASSUME RecordsInv,
           SocAnnounces \/ SocRestarts \/ Lose \/ busy_times_out \/ link_notify
             \/ UNCHANGED recordVars
    PROVE  RecordsInv'
<1>1. /\ reader \in Reader /\ Gathers(reader) /\ g_ble_connected \in BOOLEAN
      /\ g_ctx_calm_record_get \in [busy : BOOLEAN, bleSeq : Nat]
      /\ requests \in Seq(Request) /\ messages \in Seq(Message)
  BY DEF RecordsInv, Types
<1>2. /\ reader' = reader
      /\ UNCHANGED <<s_last_seq, g_ctx_calm_record_delete, g_resp_cache, heard,
                     stored, deleted, scene, g_ble_connected>>
  BY DEF SocAnnounces, SocRestarts, Lose, busy_times_out, link_notify, recordVars,
         mcu, store, lines, bounds
<1>3. g_ctx_calm_record_get' \in [busy : BOOLEAN, bleSeq : Nat]
  <2>1. CASE busy_times_out
    BY <1>1, <2>1 DEF busy_times_out
  <2>2. CASE UNCHANGED g_ctx_calm_record_get
    BY <1>1, <2>2
  <2>. QED
    BY <2>1, <2>2 DEF SocAnnounces, SocRestarts, Lose, link_notify, recordVars, mcu
<1>4. \/ UNCHANGED requests \/ requests' = <<>>
      \/ requests # <<>> /\ requests' = Tail(requests)
  BY DEF SocAnnounces, SocRestarts, Lose, busy_times_out, link_notify, recordVars, lines
<1>5. /\ requests' \in Seq(Request)
      /\ \A k \in DOMAIN requests' : \E l \in DOMAIN requests : requests'[k] = requests[l]
  <2>1. CASE UNCHANGED requests
    BY <1>1, <2>1
  <2>2. CASE requests' = <<>>
    BY <2>2, EmptyIs
  <2>3. CASE requests # <<>> /\ requests' = Tail(requests)
    BY <1>1, <2>3, TailIs
  <2>. QED
    BY <1>4, <2>1, <2>2, <2>3
<1>6. \/ UNCHANGED messages \/ messages' = <<>>
      \/ messages # <<>> /\ messages' = Tail(messages)
      \/ messages' = Append(messages, [cmd |-> "new"])
  BY DEF SocAnnounces, SocRestarts, Lose, busy_times_out, link_notify, recordVars, lines
<1>7. /\ messages' \in Seq(Message)
      /\ \A k \in DOMAIN messages' :
           messages'[k].cmd = "new" \/ \E l \in DOMAIN messages : messages'[k] = messages[l]
  <2>1. CASE messages' = Append(messages, [cmd |-> "new"])
    <3>. DEFINE m == [cmd |-> "new"]
    <3>1. m \in Message /\ m.cmd = "new"
      BY DEF Message
    <3>2. messages' = Append(messages, m)
      BY <2>1
    <3>. HIDE DEF m
    <3>. QED
      BY <1>1, <3>1, <3>2, AppendIs
  <2>2. CASE UNCHANGED messages
    BY <1>1, <2>2
  <2>3. CASE messages' = <<>>
    BY <2>3, EmptyIs
  <2>4. CASE messages # <<>> /\ messages' = Tail(messages)
    BY <1>1, <2>4, TailIs
  <2>. QED
    BY <1>6, <2>1, <2>2, <2>3, <2>4
<1>. QED
  BY <1>1, <1>2, <1>3, <1>5, <1>7, QuietKeeps

---------------------------------------------------------------------------
\* The theorems

LEMMA RecordsInductive == ASSUME RecordsConstants PROVE RecordsSpec => []RecordsInv
<1>1. RecordsInit => RecordsInv
  <2>. SUFFICES ASSUME RecordsInit PROVE RecordsInv
    OBVIOUS
  <2>1. Types
    <3>1. reader \in Reader
      BY DEF RecordsInit, NewReader, Reader, Idle
    <3>2. g_resp_cache \in [0..(CacheSize - 1) -> Frame \cup {NoFrame}]
      BY DEF RecordsInit
    <3>3. /\ g_ctx_calm_record_get \in [busy : BOOLEAN, bleSeq : Nat]
          /\ g_ctx_calm_record_delete \in [bleSeq : Nat]
      BY DEF RecordsInit
    <3>4. /\ requests \in Seq(Request) /\ messages \in Seq(Message)
          /\ stored \in Seq(Record) /\ deleted \in Seq(Record)
      BY EmptyIs DEF RecordsInit
    <3>. QED
      BY <3>1, <3>2, <3>3, <3>4 DEF RecordsInit, Types
  <2>2. OwnNumbers /\ CacheSound /\ MessagesSound /\ RequestsKnown /\ DeletedKnown
    BY EmptyIs
    DEF RecordsInit, OwnNumbers, IsMade, CacheSound, MessagesSound, RequestsKnown,
        DeletedKnown
  <2>3. s_last_seq <= reader.seq
    BY DEF RecordsInit, NewReader
  <2>4. Gathers(reader)
    BY DEF RecordsInit, NewReader, Gathers, Idle
  <2>. QED
    BY <2>1, <2>2, <2>3, <2>4 DEF RecordsInv
<1>2. RecordsInv /\ [RecordsNext]_recordVars => RecordsInv'
  BY AppKeeps, MakesKeeps, AnswersKeeps, CallbackKeeps, QuietSteps DEF RecordsNext
<1>. QED
  BY <1>1, <1>2, PTL DEF RecordsSpec

\* Types of the records' way, for every value of the constants.
THEOREM TypeCorrect == ASSUME RecordsConstants PROVE RecordsSpec => []Types
<1>1. RecordsInv => Types
  BY DEF RecordsInv
<1>. QED
  BY <1>1, RecordsInductive, PTL

\* No record is deleted of which an entry has not reached the APP.
THEOREM DeletedAreRead ==
    ASSUME RecordsConstants PROVE RecordsSpec => []DeletedWasRead
<1>1. RecordsInv => DeletedWasRead
  <2>. SUFFICES ASSUME RecordsInv, scene.careful \/ ~(scene.airLosses \/ scene.repeats),
                       NEW k \in DOMAIN deleted, NEW i \in 0..(deleted[k].entries - 1)
                PROVE  <<deleted[k].id, i>> \in heard
    BY DEF DeletedWasRead
  <2>1. Known(deleted[k].id)
    BY DEF RecordsInv, DeletedKnown, Trusted, Careless
  <2>2. PICK n \in Nat : /\ Is(deleted[k].id, n)
                         /\ \A j \in 0..(n - 1) : <<deleted[k].id, j>> \in heard
    BY <2>1 DEF Known
  <2>3. deleted[k] \in Record /\ IsMade(deleted[k])
    BY DEF RecordsInv, Types, IsMade
  <2>4. deleted[k] = [id |-> deleted[k].id, entries |-> n]
    BY <2>2, <2>3 DEF RecordsInv, OwnNumbers, Is
  <2>5. deleted[k].entries = n
    BY <2>4
  <2>. QED
    BY <2>2, <2>5
<1>. QED
  BY <1>1, RecordsInductive, PTL

---------------------------------------------------------------------------
\* An APP that repeats no frame is told the truth.

IsGet(line, k) == k \in DOMAIN line /\ line[k].cmd = "get"
OneIn(line) == \A k, l : IsGet(line, k) /\ IsGet(line, l) => k = l
NoneIn(line) == \A k : ~IsGet(line, k)

NoGet == NoneIn(requests) /\ NoneIn(messages)

EmptyInv ==
    /\ OneIn(requests) /\ OneIn(messages) /\ (NoneIn(requests) \/ NoneIn(messages))
    /\ NoGet \/ g_ctx_calm_record_get.busy = TRUE
    /\ g_ctx_calm_record_get.bleSeq <= reader.seq
    /\ g_ctx_calm_record_get.busy = TRUE /\ stored = <<>> => wasEmpty = TRUE
    /\ \A k : /\ IsGet(messages, k) /\ messages[k].status = "ok"
             /\ messages[k].record = NoRecord
             /\ g_ctx_calm_record_get.bleSeq = reader.seq
             => wasEmpty = TRUE
    /\ reader.none = TRUE => wasEmpty = TRUE

\* No request for a record enters the line.
Fewer(line, lineNext) ==
    /\ OneIn(line) => OneIn(lineNext)
    /\ \A k : IsGet(lineNext, k) => \E l : IsGet(line, l) /\ lineNext[k] = line[l]

LEMMA FewerLines ==
    ASSUME NEW S, NEW line \in Seq(S)
    PROVE  /\ Fewer(line, line) /\ Fewer(line, <<>>)
           /\ line # <<>> => Fewer(line, Tail(line))
           /\ \A e \in S : e.cmd # "get" => Fewer(line, Append(line, e))
<1>1. Fewer(line, line)
  BY DEF Fewer
<1>2. Fewer(line, <<>>)
  BY DEF Fewer, OneIn, IsGet
<1>3. ASSUME line # <<>> PROVE Fewer(line, Tail(line))
  <2>1. \A k \in DOMAIN Tail(line) : k + 1 \in DOMAIN line /\ Tail(line)[k] = line[k + 1]
    BY <1>3, TailIs
  <2>2. \A k \in DOMAIN Tail(line) : k \in Nat
    BY <1>3
  <2>3. \A k : IsGet(Tail(line), k) => /\ k \in Nat /\ IsGet(line, k + 1)
                                      /\ Tail(line)[k] = line[k + 1]
    BY <2>1, <2>2 DEF IsGet
  <2>4. OneIn(line) => OneIn(Tail(line))
    <3>. SUFFICES ASSUME OneIn(line), NEW k, NEW l, IsGet(Tail(line), k), IsGet(Tail(line), l)
                  PROVE  k = l
      BY DEF OneIn
    <3>1. k + 1 = l + 1 /\ k \in Nat /\ l \in Nat
      BY <2>3 DEF OneIn
    <3>. QED
      BY <3>1
  <2>. QED
    BY <2>3, <2>4 DEF Fewer
<1>4. ASSUME NEW e \in S, e.cmd # "get" PROVE Fewer(line, Append(line, e))
  <2>1. \A k \in DOMAIN Append(line, e) :
          \/ k \in DOMAIN line /\ Append(line, e)[k] = line[k]
          \/ Append(line, e)[k] = e
    BY AppendIs
  <2>2. \A k : IsGet(Append(line, e), k) => IsGet(line, k) /\ Append(line, e)[k] = line[k]
    BY <1>4, <2>1 DEF IsGet
  <2>. QED
    BY <2>2 DEF Fewer, OneIn
<1>. QED
  BY <1>1, <1>2, <1>3, <1>4

\* A line whose only request for a record is taken, or that gets the first.
LEMMA OneGetLines ==
    ASSUME NEW S, NEW line \in Seq(S)
    PROVE  /\ line # <<>> /\ Head(line).cmd = "get" /\ OneIn(line) => NoneIn(Tail(line))
           /\ \A e \in S : NoneIn(line) =>
                /\ OneIn(Append(line, e))
                /\ \A k : IsGet(Append(line, e), k) => Append(line, e)[k] = e
<1>1. ASSUME line # <<>>, Head(line).cmd = "get", OneIn(line), NEW k, IsGet(Tail(line), k)
      PROVE  FALSE
  <2>1. IsGet(line, 1)
    BY <1>1, TailIs DEF IsGet
  <2>2. k \in Nat \ {0} /\ IsGet(line, k + 1)
    BY <1>1, TailIs DEF IsGet
  <2>. QED
    BY <1>1, <2>1, <2>2 DEF OneIn
<1>2. ASSUME NEW e \in S, NoneIn(line)
      PROVE  /\ OneIn(Append(line, e))
             /\ \A k : IsGet(Append(line, e), k) => Append(line, e)[k] = e
  <2>1. \A k \in DOMAIN Append(line, e) :
          \/ k \in DOMAIN line /\ Append(line, e)[k] = line[k]
          \/ k = Len(line) + 1 /\ Append(line, e)[k] = e
    BY AppendIs
  <2>2. \A k : IsGet(Append(line, e), k) => k = Len(line) + 1 /\ Append(line, e)[k] = e
    BY <1>2, <2>1 DEF IsGet, NoneIn
  <2>. QED
    BY <2>2 DEF OneIn
<1>. QED
  BY <1>1, <1>2 DEF NoneIn

\* A response with a plain OK to a request for a record under this number
TellsNone(frames, seq) ==
    \E k \in DOMAIN frames :
       frames[k].cmd = "get" /\ frames[k].status = "ok" /\ frames[k].seq = seq

\* Nothing else tells the APP that there is no record.
LEMMA NoneIsTold ==
    ASSUME NEW r \in Reader, NEW frames, Notify(r, frames), ~TellsNone(frames, r.seq),
           reader'.none = TRUE
    PROVE  r.none = TRUE
<1>1. PICK lost \in SUBSET DOMAIN frames :
         Reads(r, {frames[k] : k \in DOMAIN frames \ lost})
  BY DEF Notify
<1>. DEFINE arrived == {frames[k] : k \in DOMAIN frames \ lost}
            mine == {f \in arrived : f.cmd = r.asked /\ f.seq = r.seq}
            entries == {f \in mine : f.status = "entry"}
<1>2. \/ mine = {} /\ reader' = r
      \/ \E f \in entries :
           reader' = [r EXCEPT !.id = f.id, !.total = f.total,
                        !.got = {e.idx : e \in entries}
                                \cup (IF @ # {} /\ r.id = f.id THEN @ ELSE {}),
                        !.asked = IF \E e \in entries : e.idx = f.total - 1
                                  THEN Idle ELSE @]
      \/ \E f \in mine \ entries :
           reader' = [r EXCEPT !.asked = Idle,
                        !.none = f.cmd = "get" /\ f.status = "ok",
                        !.wants = ~(f.cmd = "get" /\ f.status = "ok"),
                        !.total = IF f.cmd = "delete" THEN 0 ELSE @]
  BY <1>1 DEF Reads
<1>3. CASE reader' = r
  BY <1>3
<1>4. ASSUME NEW f \in entries,
             reader' = [r EXCEPT !.id = f.id, !.total = f.total,
                          !.got = {e.idx : e \in entries}
                                  \cup (IF @ # {} /\ r.id = f.id THEN @ ELSE {}),
                          !.asked = IF \E e \in entries : e.idx = f.total - 1
                                    THEN Idle ELSE @]
      PROVE  r.none = TRUE
  <2>1. reader'.none = r.none
    BY <1>4 DEF Reader
  <2>. QED
    BY <2>1
<1>5. ASSUME NEW f \in mine \ entries,
             reader' = [r EXCEPT !.asked = Idle,
                          !.none = f.cmd = "get" /\ f.status = "ok",
                          !.wants = ~(f.cmd = "get" /\ f.status = "ok"),
                          !.total = IF f.cmd = "delete" THEN 0 ELSE @]
      PROVE  FALSE
  <2>1. reader'.none = (f.cmd = "get" /\ f.status = "ok")
    BY <1>5 DEF Reader
  <2>2. f.cmd = "get" /\ f.status = "ok" /\ f.seq = r.seq
    BY <2>1
  <2>3. TellsNone(frames, r.seq)
    BY <2>2 DEF TellsNone
  <2>. QED
    BY <2>3
<1>. QED
  BY <1>2, <1>3, <1>4, <1>5

\* A response that is no plain OK to a request for a record leaves it be.
LEMMA NotTold ==
    ASSUME NEW r \in Reader, NEW cmd, NEW seq, NEW status, cmd # "get" \/ status # "ok",
           Respond(r, <<Plain(cmd, seq, status)>>) \/ Silent(r),
           reader'.none = TRUE
    PROVE  r.none = TRUE
<1>1. CASE Silent(r)
  BY <1>1 DEF Silent
<1>2. CASE Respond(r, <<Plain(cmd, seq, status)>>)
  <2>. DEFINE frames == <<Plain(cmd, seq, status)>>
  <2>1. Notify(r, frames)
    BY <1>2 DEF Respond
  <2>2. \A k \in DOMAIN frames : frames[k].cmd = cmd /\ frames[k].status = status
    BY DEF Plain
  <2>. HIDE DEF frames
  <2>3. ~TellsNone(frames, r.seq)
    BY <2>2 DEF TellsNone
  <2>. QED
    BY <2>1, <2>3, NoneIsTold
<1>. QED
  BY <1>1, <1>2

\* The APP counts on.
LEMMA SeqIsKept ==
    ASSUME NEW r \in Reader, NEW frames, Respond(r, frames) \/ Silent(r)
    PROVE  reader'.seq = r.seq
<1>1. CASE Silent(r)
  BY <1>1 DEF Silent
<1>2. CASE Respond(r, frames)
  <2>1. PICK arrived : Reads(r, arrived)
    BY <1>2 DEF Respond, Notify
  <2>. DEFINE mine == {f \in arrived : f.cmd = r.asked /\ f.seq = r.seq}
              entries == {f \in mine : f.status = "entry"}
  <2>2. CASE reader' = r
    BY <2>2
  <2>3. ASSUME NEW f \in entries,
               reader' = [r EXCEPT !.id = f.id, !.total = f.total,
                            !.got = {e.idx : e \in entries}
                                    \cup (IF @ # {} /\ r.id = f.id THEN @ ELSE {}),
                            !.asked = IF \E e \in entries : e.idx = f.total - 1
                                      THEN Idle ELSE @]
        PROVE  reader'.seq = r.seq
    BY <2>3 DEF Reader
  <2>4. ASSUME NEW f \in mine \ entries,
               reader' = [r EXCEPT !.asked = Idle,
                            !.none = f.cmd = "get" /\ f.status = "ok",
                            !.wants = ~(f.cmd = "get" /\ f.status = "ok"),
                            !.total = IF f.cmd = "delete" THEN 0 ELSE @]
        PROVE  reader'.seq = r.seq
    BY <2>4 DEF Reader
  <2>. QED
    BY <2>1, <2>2, <2>3, <2>4 DEF Reads
<1>. QED
  BY <1>1, <1>2

\* A step that puts no request for a record on its way and empties no store
\* without a mark.
LEMMA EmptyKept ==
    ASSUME RecordsInv, EmptyInv,
           Fewer(requests, requests'), Fewer(messages, messages'),
           stored' = <<>> => stored = <<>> \/ wasEmpty' = TRUE,
           wasEmpty = TRUE => wasEmpty' = TRUE,
           reader'.seq \in Nat, reader.seq <= reader'.seq,
           g_ctx_calm_record_get'.bleSeq = g_ctx_calm_record_get.bleSeq,
           \/ g_ctx_calm_record_get'.busy = g_ctx_calm_record_get.busy
           \/ g_ctx_calm_record_get'.busy = FALSE /\ NoGet',
           reader'.none = TRUE => wasEmpty = TRUE
    PROVE  EmptyInv'
<1>1. reader.seq \in Nat /\ g_ctx_calm_record_get.bleSeq \in Nat
  BY DEF RecordsInv, Types, Reader
<1>2. /\ NoneIn(requests) => NoneIn(requests')
      /\ NoneIn(messages) => NoneIn(messages')
  BY DEF Fewer, NoneIn
<1>3. OneIn(requests') /\ OneIn(messages') /\ (NoneIn(requests') \/ NoneIn(messages'))
  BY <1>2 DEF EmptyInv, Fewer
<1>4. NoGet' \/ g_ctx_calm_record_get'.busy = TRUE
  BY <1>2 DEF EmptyInv, NoGet
<1>5. g_ctx_calm_record_get'.bleSeq <= reader'.seq
  BY <1>1 DEF EmptyInv
<1>6. g_ctx_calm_record_get'.busy = TRUE /\ stored' = <<>> => wasEmpty' = TRUE
  BY DEF EmptyInv
<1>7. ASSUME NEW k, IsGet(messages', k), messages'[k].status = "ok",
             messages'[k].record = NoRecord,
             g_ctx_calm_record_get'.bleSeq = reader'.seq
      PROVE  wasEmpty' = TRUE
  <2>1. PICK l : IsGet(messages, l) /\ messages'[k] = messages[l]
    BY <1>7 DEF Fewer
  <2>2. g_ctx_calm_record_get.bleSeq = reader.seq
    BY <1>1, <1>7 DEF EmptyInv
  <2>. QED
    BY <1>7, <2>1, <2>2 DEF EmptyInv
<1>8. reader'.none = TRUE => wasEmpty' = TRUE
  OBVIOUS
<1>. QED
  BY <1>3, <1>4, <1>5, <1>6, <1>7, <1>8 DEF EmptyInv, IsGet, OneIn, NoneIn

\* A frame of an APP that repeats none: a request for a record, or to delete it.
LEMMA EmptyGet ==
    ASSUME RecordsInv, EmptyInv, AppGet PROVE EmptyInv'
<1>. DEFINE r == [NewReader(reader.seq + 1) EXCEPT !.asked = "get"]
<1>1. /\ reader.seq \in Nat /\ s_last_seq <= reader.seq /\ s_last_seq \in Nat
      /\ g_ctx_calm_record_get \in [busy : BOOLEAN, bleSeq : Nat]
      /\ requests \in Seq(Request)
  BY DEF RecordsInv, Types, Reader
<1>2. r \in Reader /\ r.seq = reader.seq + 1 /\ r.asked = "get" /\ r.none = FALSE
  <2>1. /\ NewReader(reader.seq + 1) \in Reader
        /\ NewReader(reader.seq + 1).seq = reader.seq + 1
        /\ NewReader(reader.seq + 1).none = FALSE
    BY <1>1 DEF NewReader, Reader, Idle
  <2>. QED
    BY <2>1 DEF Reader
<1>3. Write(r) /\ wasEmpty' = (stored = <<>>)
  BY DEF AppGet
<1>. HIDE DEF r
<1>4. handle_calm_record_get(r) /\ UNCHANGED <<messages, stored>>
  <2>1. ~rx_repeated(r)
    BY <1>1, <1>2 DEF rx_repeated
  <2>. QED
    BY <1>2, <1>3, <2>1 DEF Write, rx_command
<1>5. reader'.seq = r.seq
  BY <1>2, <1>4, SeqIsKept DEF handle_calm_record_get
<1>6. reader'.none # TRUE
  <2>1. \/ Silent(r)
        \/ \E status \in {"timeout", "busy"} : Respond(r, <<Plain("get", r.seq, status)>>)
    BY <1>4, Zenon DEF handle_calm_record_get
  <2>2. CASE Silent(r)
    BY <1>2, <2>2 DEF Silent
  <2>3. ASSUME NEW status \in {"timeout", "busy"},
               Respond(r, <<Plain("get", r.seq, status)>>), reader'.none = TRUE
        PROVE  FALSE
    <3>1. r.none = TRUE
      BY <1>2, <2>3, NotTold
    <3>. QED
      BY <1>2, <3>1
  <2>. QED
    BY <2>1, <2>2, <2>3
<1>7. stored' = <<>> => wasEmpty' = TRUE
  BY <1>3, <1>4
<1>8. CASE UNCHANGED <<g_ctx_calm_record_get, requests>>
  <2>1. /\ g_ctx_calm_record_get'.bleSeq <= reader'.seq
        /\ g_ctx_calm_record_get'.bleSeq # reader'.seq
    BY <1>1, <1>2, <1>5, <1>8 DEF EmptyInv
  <2>. QED
    BY <1>4, <1>6, <1>7, <1>8, <2>1 DEF EmptyInv, NoGet, NoneIn, OneIn, IsGet
<1>9. CASE /\ ~g_ctx_calm_record_get.busy
           /\ g_ctx_calm_record_get' = [busy |-> TRUE, bleSeq |-> r.seq]
           /\ Forward("get", 0)
  <2>1. NoneIn(requests) /\ NoneIn(messages)
    BY <1>9 DEF EmptyInv, NoGet
  <2>2. OneIn(requests')
    <3>. DEFINE q == [cmd |-> "get", id |-> 0]
    <3>1. q \in Request /\ requests' = Append(requests, q)
      BY <1>9 DEF Forward, Request
    <3>. HIDE DEF q
    <3>. QED
      BY <1>1, <2>1, <3>1, OneGetLines
  <2>3. NoneIn(messages') /\ OneIn(messages')
    BY <1>4, <2>1 DEF NoneIn, OneIn
  <2>4. g_ctx_calm_record_get'.busy = TRUE /\ g_ctx_calm_record_get'.bleSeq <= reader'.seq
    BY <1>1, <1>2, <1>5, <1>9
  <2>. QED
    BY <1>6, <1>7, <2>2, <2>3, <2>4 DEF EmptyInv, NoneIn, OneIn, IsGet
<1>10. CASE /\ ~g_ctx_calm_record_get.busy
            /\ g_ctx_calm_record_get' = [busy |-> FALSE, bleSeq |-> r.seq]
            /\ UNCHANGED requests
  <2>1. NoneIn(requests) /\ NoneIn(messages)
    BY <1>10 DEF EmptyInv, NoGet
  <2>2. /\ NoneIn(requests') /\ OneIn(requests')
        /\ NoneIn(messages') /\ OneIn(messages')
    BY <1>4, <1>10, <2>1 DEF NoneIn, OneIn
  <2>3. g_ctx_calm_record_get'.busy = FALSE /\ g_ctx_calm_record_get'.bleSeq <= reader'.seq
    BY <1>1, <1>2, <1>5, <1>10
  <2>. QED
    BY <1>6, <1>7, <2>2, <2>3 DEF EmptyInv, NoGet, NoneIn, OneIn, IsGet
<1>. QED
  BY <1>4, <1>8, <1>9, <1>10 DEF handle_calm_record_get

LEMMA EmptyDelete ==
    ASSUME RecordsInv, EmptyInv, AppDelete PROVE EmptyInv'
<1>. DEFINE r == [reader EXCEPT !.asked = "delete", !.seq = @ + 1]
<1>1. /\ reader \in Reader /\ reader.seq \in Nat
      /\ s_last_seq <= reader.seq /\ s_last_seq \in Nat
      /\ requests \in Seq(Request) /\ messages \in Seq(Message)
  BY DEF RecordsInv, Types, Reader
<1>2. /\ r \in Reader /\ r.seq = reader.seq + 1 /\ r.asked = "delete"
      /\ r.none = reader.none /\ r.id \in Nat
  <2>1. reader.seq + 1 \in Nat
    BY <1>1
  <2>2. r \in Reader
    BY <1>1, <2>1 DEF Reader
  <2>. QED
    BY <1>1, <2>2 DEF Reader
<1>3. Write(r) /\ UNCHANGED wasEmpty
  BY DEF AppDelete
<1>. HIDE DEF r
<1>4. handle_calm_record_delete(r) /\ UNCHANGED <<messages, stored>>
  <2>1. ~rx_repeated(r)
    BY <1>1, <1>2 DEF rx_repeated
  <2>. QED
    BY <1>2, <1>3, <2>1 DEF Write, rx_command
<1>5. reader'.seq = r.seq
  BY <1>2, <1>4, SeqIsKept DEF handle_calm_record_delete
<1>6. reader'.none = TRUE => reader.none = TRUE
  BY <1>2, <1>4, NotTold DEF handle_calm_record_delete
<1>7. Fewer(requests, requests')
  <2>1. CASE UNCHANGED requests
    BY <1>1, <2>1, FewerLines
  <2>2. CASE Forward("delete", r.id)
    <3>. DEFINE q == [cmd |-> "delete", id |-> r.id]
    <3>1. q \in Request /\ q.cmd # "get" /\ requests' = Append(requests, q)
      BY <1>2, <2>2 DEF Forward, Request
    <3>. HIDE DEF q
    <3>. QED
      BY <1>1, <3>1, FewerLines
  <2>. QED
    BY <1>4, <2>1, <2>2 DEF handle_calm_record_delete
<1>8. Fewer(messages, messages')
  BY <1>1, <1>4, FewerLines
<1>9. UNCHANGED <<g_ctx_calm_record_get, stored, wasEmpty>>
  BY <1>3, <1>4 DEF handle_calm_record_delete
<1>10. reader'.seq \in Nat /\ reader.seq <= reader'.seq
  BY <1>1, <1>2, <1>5
<1>11. reader'.none = TRUE => wasEmpty = TRUE
  BY <1>6 DEF EmptyInv
<1>. QED
  BY <1>7, <1>8, <1>9, <1>10, <1>11, EmptyKept

\* Steps of the APP, the connection, the lines and the SOC's store by themselves.
LEMMA EmptyQuiet ==
    ASSUME RecordsInv, EmptyInv,
           \/ AppGivesUp \/ ConnectionChange \/ SocMakesRecord \/ SocAnnounces
           \/ SocRestarts \/ Lose \/ busy_times_out \/ link_notify
           \/ UNCHANGED recordVars
    PROVE  EmptyInv'
<1>1. /\ reader \in Reader /\ reader.seq \in Nat
      /\ g_ctx_calm_record_get \in [busy : BOOLEAN, bleSeq : Nat]
      /\ requests \in Seq(Request) /\ messages \in Seq(Message)
      /\ stored \in Seq(Record)
  BY DEF RecordsInv, Types, Reader
<1>2. /\ reader'.seq = reader.seq
      /\ reader'.none = TRUE => reader.none = TRUE
  <2>1. CASE AppGivesUp
    BY <1>1, <2>1 DEF AppGivesUp, Reader
  <2>2. CASE ConnectionChange
    BY <2>2 DEF ConnectionChange, NewReader
  <2>3. CASE UNCHANGED reader
    BY <2>3
  <2>. QED
    BY <2>1, <2>2, <2>3
    DEF SocMakesRecord, SocAnnounces, SocRestarts, Lose, busy_times_out, link_notify,
        recordVars
<1>3. Fewer(requests, requests')
  <2>1. \/ UNCHANGED requests \/ requests' = <<>>
        \/ requests # <<>> /\ requests' = Tail(requests)
    BY DEF AppGivesUp, ConnectionChange, SocMakesRecord, SocAnnounces, SocRestarts,
           Lose, busy_times_out, link_notify, recordVars, lines
  <2>. QED
    BY <1>1, <2>1, FewerLines
<1>4. Fewer(messages, messages')
  <2>1. \/ UNCHANGED messages \/ messages' = <<>>
        \/ messages # <<>> /\ messages' = Tail(messages)
        \/ messages' = Append(messages, [cmd |-> "new"])
    BY DEF AppGivesUp, ConnectionChange, SocMakesRecord, SocAnnounces, SocRestarts,
           Lose, busy_times_out, link_notify, recordVars, lines
  <2>2. CASE messages' = Append(messages, [cmd |-> "new"])
    <3>. DEFINE m == [cmd |-> "new"]
    <3>1. m \in Message /\ m.cmd # "get" /\ messages' = Append(messages, m)
      BY <2>2 DEF Message
    <3>. HIDE DEF m
    <3>. QED
      BY <1>1, <3>1, FewerLines
  <2>. QED
    BY <1>1, <2>1, <2>2, FewerLines
<1>5. UNCHANGED wasEmpty /\ (stored' = <<>> => stored = <<>>)
  <2>1. CASE SocMakesRecord
    <3>1. UNCHANGED wasEmpty /\ \E e : stored' = Append(stored, e)
      BY <2>1 DEF SocMakesRecord
    <3>. QED
      BY <1>1, <3>1
  <2>2. CASE UNCHANGED <<stored, wasEmpty>>
    BY <2>2
  <2>. QED
    BY <2>1, <2>2
    DEF AppGivesUp, ConnectionChange, SocAnnounces, SocRestarts, Lose, busy_times_out,
        link_notify, recordVars, store
<1>6. /\ g_ctx_calm_record_get'.bleSeq = g_ctx_calm_record_get.bleSeq
      /\ \/ g_ctx_calm_record_get'.busy = g_ctx_calm_record_get.busy
         \/ g_ctx_calm_record_get'.busy = FALSE /\ NoGet'
  <2>1. CASE busy_times_out
    <3>1. NoGet'
      <4>1. UNCHANGED <<requests, messages>> /\ ~UnderWay("get")
        BY <2>1 DEF busy_times_out, lines
      <4>. QED
        BY <4>1 DEF UnderWay, NoGet, NoneIn, IsGet
    <3>. QED
      BY <1>1, <2>1, <3>1 DEF busy_times_out
  <2>2. CASE UNCHANGED g_ctx_calm_record_get
    BY <2>2
  <2>. QED
    BY <2>1, <2>2
    DEF AppGivesUp, ConnectionChange, SocMakesRecord, SocAnnounces, SocRestarts, Lose,
        link_notify, recordVars, mcu
<1>7. reader'.none = TRUE => wasEmpty = TRUE
  BY <1>2 DEF EmptyInv
<1>8. reader'.seq \in Nat /\ reader.seq <= reader'.seq
  BY <1>1, <1>2
<1>. QED
  BY <1>3, <1>4, <1>5, <1>6, <1>7, <1>8, EmptyKept

\* "No record" is answered only while there is none, and since the APP asked.
LEMMA EmptyAnswers ==
    ASSUME RecordsInv, EmptyInv, SocAnswers PROVE EmptyInv'
<1>. DEFINE q == Head(requests)
<1>1. /\ stored \in Seq(Record) /\ messages \in Seq(Message)
      /\ requests \in Seq(Request) /\ requests # <<>> /\ requests' = Tail(requests)
      /\ UNCHANGED <<reader, g_ctx_calm_record_get>> /\ reader.seq \in Nat
      /\ q \in Request
  <2>1. requests \in Seq(Request) /\ requests # <<>>
    BY DEF RecordsInv, Types, SocAnswers
  <2>. QED
    BY <2>1, TailIs DEF RecordsInv, Types, SocAnswers, mcu, Reader
<1>2. Fewer(requests, requests')
  BY <1>1, FewerLines
<1>3. PICK status \in {"ok", "refused"}, r \in Record \cup {NoRecord} :
        /\ messages' = Append(messages, [cmd |-> q.cmd, status |-> status, record |-> r])
        /\ q.cmd = "get" => /\ UNCHANGED <<stored, wasEmpty>>
                            /\ status = "ok" /\ r = NoRecord => stored = <<>>
        /\ UNCHANGED <<stored, wasEmpty>> \/ Deletes(q.id)
  <2>1. CASE q.cmd = "get" /\ UNCHANGED store
             /\ Reply("get", "ok", IF stored = <<>> THEN NoRecord ELSE Head(stored))
    <3>1. CASE stored = <<>>
      BY <2>1, <3>1 DEF Reply, store
    <3>2. CASE stored # <<>>
      <4>1. Head(stored) \in Record /\ Head(stored) # NoRecord
        <5>1. Head(stored) \in Record
          BY <1>1, <3>2, TailIs
        <5>. QED
          BY <5>1 DEF Record, NoRecord
      <4>. QED
        BY <2>1, <3>2, <4>1 DEF Reply, store
    <3>. QED
      BY <3>1, <3>2
  <2>2. CASE q.cmd = "delete" /\ Deletes(q.id) /\ Reply("delete", "ok", NoRecord)
    BY <2>2 DEF Reply
  <2>3. CASE Reply(q.cmd, "refused", NoRecord) /\ UNCHANGED store
    BY <2>3 DEF Reply, store
  <2>. QED
    BY <2>1, <2>2, <2>3 DEF SocAnswers
<1>. DEFINE answer == [cmd |-> q.cmd, status |-> status, record |-> r]
<1>4. /\ answer \in Message /\ answer.cmd = q.cmd
      /\ answer.status = status /\ answer.record = r
  BY <1>1 DEF Message, Request
<1>5. messages' = Append(messages, answer)
  BY <1>3
<1>. HIDE DEF answer
<1>6. CASE q.cmd = "get"
  <2>1. NoneIn(requests') /\ NoneIn(messages) /\ g_ctx_calm_record_get.busy = TRUE
    <3>1. IsGet(requests, 1)
      BY <1>1, <1>6, TailIs DEF IsGet
    <3>2. NoneIn(messages) /\ g_ctx_calm_record_get.busy = TRUE
      BY <3>1 DEF EmptyInv, NoGet, NoneIn
    <3>3. NoneIn(requests')
      BY <1>1, <1>6, OneGetLines DEF EmptyInv
    <3>. QED
      BY <3>2, <3>3
  <2>2. /\ OneIn(messages')
        /\ \A k : IsGet(messages', k) => messages'[k] = answer
    BY <1>1, <1>4, <1>5, <2>1, OneGetLines
  <2>3. UNCHANGED <<stored, wasEmpty>>
    BY <1>3, <1>6
  <2>4. ASSUME NEW k, IsGet(messages', k), messages'[k].status = "ok",
               messages'[k].record = NoRecord
        PROVE  wasEmpty' = TRUE
    <3>1. stored = <<>>
      BY <1>3, <1>4, <1>6, <2>2, <2>4
    <3>. QED
      BY <2>1, <2>3, <3>1 DEF EmptyInv
  <2>5. OneIn(requests')
    BY <2>1 DEF NoneIn, OneIn
  <2>. QED
    BY <1>1, <2>1, <2>2, <2>3, <2>4, <2>5 DEF EmptyInv, NoneIn, OneIn, IsGet
<1>7. CASE q.cmd # "get"
  <2>1. Fewer(messages, messages')
    BY <1>1, <1>4, <1>5, <1>7, FewerLines
  <2>2. /\ wasEmpty = TRUE => wasEmpty' = TRUE
        /\ stored' = <<>> => stored = <<>> \/ wasEmpty' = TRUE
    <3>1. CASE UNCHANGED <<stored, wasEmpty>>
      BY <3>1
    <3>2. CASE Deletes(q.id)
      <4>1. PICK k \in DOMAIN stored :
              /\ stored' = [j \in 1..(Len(stored) - 1) |->
                              stored[IF j < k THEN j ELSE j + 1]]
              /\ wasEmpty' = (wasEmpty \/ Len(stored) = 1)
        BY <3>2 DEF Deletes
      <4>2. wasEmpty = TRUE => wasEmpty' = TRUE
        BY <4>1
      <4>3. ASSUME stored' = <<>> PROVE Len(stored) = 1
        <5>1. DOMAIN stored' = 1..(Len(stored) - 1)
          BY <4>1
        <5>2. 1..(Len(stored) - 1) = {}
          BY <4>3, <5>1
        <5>3. Len(stored) \in Nat /\ Len(stored) >= 1
          BY <1>1, <4>1
        <5>4. ~(1 <= Len(stored) - 1)
          BY <5>2, <5>3
        <5>5. \A n \in Nat : n >= 1 /\ ~(1 <= n - 1) => n = 1
          OBVIOUS
        <5>. QED
          BY <5>3, <5>4, <5>5
      <4>4. Len(stored) = 1 => wasEmpty' = TRUE
        BY <4>1
      <4>. QED
        BY <4>2, <4>3, <4>4
    <3>. QED
      BY <1>3, <3>1, <3>2
  <2>3. reader'.none = TRUE => wasEmpty = TRUE
    BY <1>1 DEF EmptyInv
  <2>4. /\ reader'.seq \in Nat /\ reader.seq <= reader'.seq
        /\ g_ctx_calm_record_get'.bleSeq = g_ctx_calm_record_get.bleSeq
        /\ g_ctx_calm_record_get'.busy = g_ctx_calm_record_get.busy
    BY <1>1
  <2>. QED
    BY <1>2, <2>1, <2>2, <2>3, <2>4, EmptyKept
<1>. QED
  BY <1>6, <1>7

\* "There is no record" is what the SOC has answered.
LEMMA PlainOkIsNoRecord ==
    ASSUME NEW m \in Message, m.cmd = "get", NEW k \in DOMAIN RecordFrames(m),
           RecordFrames(m)[k].status = "ok"
    PROVE  /\ m.status = "ok" /\ m.record = NoRecord
           /\ RecordFrames(m)[k].seq = g_ctx_calm_record_get.bleSeq
<1>. DEFINE seq == g_ctx_calm_record_get.bleSeq
            n == IF m.record.entries < Fits THEN m.record.entries ELSE Fits
            entries == [j \in 1..n |-> Entry(seq, m.record.id, j - 1, m.record.entries)]
<1>1. m.record \in Record \cup {NoRecord}
  BY DEF Message
<1>2. CASE m.status # "ok"
  <2>1. RecordFrames(m) = <<Plain("get", seq, "internal")>>
    BY <1>2 DEF RecordFrames
  <2>2. RecordFrames(m)[k].status = "internal"
    BY <2>1 DEF Plain
  <2>. QED
    BY <2>2
<1>3. CASE m.status = "ok" /\ m.record.entries # 0
  <2>1. RecordFrames(m) = entries
    BY <1>3 DEF RecordFrames
  <2>2. k \in 1..n
    BY <2>1
  <2>3. RecordFrames(m)[k] = Entry(seq, m.record.id, k - 1, m.record.entries)
    BY <2>1, <2>2
  <2>. QED
    BY <2>3 DEF Entry
<1>4. CASE m.status = "ok" /\ m.record.entries = 0
  <2>1. RecordFrames(m) = <<Plain("get", seq, "ok")>>
    BY <1>4 DEF RecordFrames
  <2>2. RecordFrames(m)[k].seq = seq
    BY <2>1 DEF Plain
  <2>3. m.record = NoRecord
    BY <1>1, <1>4 DEF Record
  <2>. QED
    BY <1>4, <2>2, <2>3
<1>. QED
  BY <1>2, <1>3, <1>4

LEMMA EmptyCallback ==
    ASSUME RecordsInv, EmptyInv, Callback PROVE EmptyInv'
<1>1. PICK m \in {messages[k] : k \in DOMAIN messages} :
         rsp_calm_record_get(m) \/ rsp_calm_record_delete(m) \/ evt_new_calm_record(m)
  BY DEF Callback
<1>2. /\ messages # <<>> /\ m = Head(messages) /\ messages' = Tail(messages)
      /\ UNCHANGED <<stored, wasEmpty, requests>>
  BY <1>1 DEF rsp_calm_record_get, rsp_calm_record_delete, evt_new_calm_record, Takes, store
<1>3. /\ reader \in Reader /\ reader.seq \in Nat
      /\ messages \in Seq(Message) /\ requests \in Seq(Request)
      /\ g_ctx_calm_record_get \in [busy : BOOLEAN, bleSeq : Nat]
  BY DEF RecordsInv, Types, Reader
<1>4. m \in Message /\ 1 \in DOMAIN messages /\ m = messages[1]
  BY <1>2, <1>3, TailIs
<1>5. Fewer(requests, requests') /\ Fewer(messages, messages')
  BY <1>2, <1>3, FewerLines
<1>6. reader'.seq = reader.seq
  <2>1. CASE evt_new_calm_record(m)
    BY <1>3, <2>1 DEF evt_new_calm_record, Reader
  <2>. QED
    BY <1>1, <1>3, <2>1, SeqIsKept DEF rsp_calm_record_get, rsp_calm_record_delete
<1>7. /\ g_ctx_calm_record_get'.bleSeq = g_ctx_calm_record_get.bleSeq
      /\ \/ g_ctx_calm_record_get'.busy = g_ctx_calm_record_get.busy
         \/ g_ctx_calm_record_get'.busy = FALSE /\ NoGet'
  <2>1. CASE rsp_calm_record_get(m)
    <3>1. IsGet(messages, 1) /\ m.cmd = "get"
      BY <1>4, <2>1 DEF IsGet, rsp_calm_record_get
    <3>2. NoneIn(messages')
      BY <1>2, <1>3, <3>1, OneGetLines DEF EmptyInv
    <3>3. NoneIn(requests')
      BY <1>2, <3>1 DEF EmptyInv, NoneIn, IsGet
    <3>. QED
      BY <1>3, <2>1, <3>2, <3>3 DEF rsp_calm_record_get, NoGet, NoneIn, IsGet
  <2>2. CASE UNCHANGED g_ctx_calm_record_get
    BY <2>2
  <2>. QED
    BY <1>1, <2>1, <2>2 DEF rsp_calm_record_delete, evt_new_calm_record
<1>8. reader'.none = TRUE => wasEmpty = TRUE
  <2>. SUFFICES ASSUME reader'.none = TRUE PROVE reader.none = TRUE \/ wasEmpty = TRUE
    BY DEF EmptyInv
  <2>1. CASE rsp_calm_record_get(m)
    <3>1. CASE Silent(reader)
      BY <3>1 DEF Silent
    <3>2. CASE Notify(reader, RecordFrames(m)) /\ reader.none # TRUE
      <4>1. PICK k \in DOMAIN RecordFrames(m) :
              /\ RecordFrames(m)[k].status = "ok" /\ RecordFrames(m)[k].seq = reader.seq
        <5>1. TellsNone(RecordFrames(m), reader.seq)
          BY <1>3, <3>2, NoneIsTold
        <5>. QED
          BY <5>1 DEF TellsNone
      <4>2. m.cmd = "get"
        BY <2>1 DEF rsp_calm_record_get
      <4>3. /\ m.status = "ok" /\ m.record = NoRecord
            /\ g_ctx_calm_record_get.bleSeq = reader.seq
        BY <1>4, <4>1, <4>2, PlainOkIsNoRecord
      <4>. QED
        BY <1>4, <4>2, <4>3 DEF EmptyInv, IsGet
    <3>. QED
      BY <2>1, <3>1, <3>2 DEF rsp_calm_record_get, Respond
  <2>2. CASE rsp_calm_record_delete(m)
    <3>1. ASSUME NEW status,
                 Respond(reader, <<Plain("delete", g_ctx_calm_record_delete.bleSeq, status)>>)
          PROVE  reader.none = TRUE
      BY <1>3, <3>1, NotTold
    <3>. QED
      BY <2>2, <3>1 DEF rsp_calm_record_delete
  <2>3. CASE evt_new_calm_record(m)
    BY <1>3, <2>3 DEF evt_new_calm_record, Reader
  <2>. QED
    BY <1>1, <2>1, <2>2, <2>3
<1>9. reader'.seq \in Nat /\ reader.seq <= reader'.seq
  BY <1>3, <1>6
<1>. QED
  BY <1>2, <1>5, <1>7, <1>8, <1>9, EmptyKept

\* An APP that repeats no frame and is told that there is no record was told the
\* truth: there was none at some time since it asked.
THEOREM NoneIsTrue == ASSUME RecordsConstants PROVE RecordsSpec => []NoRecordsIsTrue
<1>. DEFINE Inv == RecordsInv /\ (~scene.repeats => EmptyInv)
<1>1. RecordsInit => EmptyInv
  BY EmptyIs DEF RecordsInit, NewReader, EmptyInv, OneIn, NoneIn, NoGet, IsGet
<1>2. Inv /\ [RecordsNext]_recordVars /\ RecordsInv' => Inv'
  <2>. SUFFICES ASSUME RecordsInv, [RecordsNext]_recordVars, ~scene'.repeats,
                       ~scene.repeats => EmptyInv
                PROVE  EmptyInv'
    OBVIOUS
  <2>1. scene' = scene
    BY DEF RecordsNext, recordVars, bounds, AppGet, AppDelete, AppRepeat, Write,
           AppGivesUp, ConnectionChange, SocMakesRecord, SocAnnounces, SocAnswers,
           SocRestarts, Lose, Callback, rsp_calm_record_get, rsp_calm_record_delete,
           evt_new_calm_record, Takes, busy_times_out, link_notify
  <2>2. EmptyInv /\ ~AppRepeat
    BY <2>1 DEF AppRepeat
  <2>. QED
    BY <2>2, EmptyGet, EmptyDelete, EmptyQuiet, EmptyAnswers, EmptyCallback
    DEF RecordsNext
<1>3. Inv => NoRecordsIsTrue
  <2>1. ASSUME RecordsInv, EmptyInv PROVE reader.none => wasEmpty
    BY <2>1 DEF EmptyInv, RecordsInv, Types, Reader
  <2>. QED
    BY <2>1 DEF NoRecordsIsTrue
<1>4. RecordsInit => Inv \/ ~RecordsInv
  BY <1>1
<1>. HIDE DEF Inv
<1>. QED
  BY <1>2, <1>3, <1>4, RecordsInductive, PTL DEF RecordsSpec
=============================================================================
