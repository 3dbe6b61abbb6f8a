--------------------------- MODULE FrameParserProofs ---------------------------
(***************************************************************************)
(* Proofs about FrameParser, for streams of any frames, of any number and  *)
(* layout, cut anywhere, and any sizes of the frames and of the buffer.    *)
(*                                                                         *)
(* All rests on Aligned: as the buffer begins where a frame or its payload *)
(* begins, the frame a turn of the loop takes off is the next one that was *)
(* sent.  What parse_frames holds is then the run of frames removed last,  *)
(* and the parser implements FrameDelivery.                                *)
(*                                                                         *)
(* The second half is about the wire (FrameWire): write_varint and         *)
(* read_varint agree on every number, and frames encode_frame wrote are    *)
(* ones parse_frames accepts.                                              *)
(***************************************************************************)
EXTENDS FrameWire, SequenceTheorems, TLAPS

\* What parse_frames holds are the frames removed last, and nothing between calls.
LastOf(b, frames, r) ==
  /\ Len(b) <= r
  /\ b = SubSeq(frames, r - Len(b) + 1, r)

BatchIsTheLast == LastOf(batch, Contents(sent), removed)

IInv == TypeOK /\ Aligned /\ BatchIsTheLast /\ NoGapWithoutError

-----------------------------------------------------------------------------
(* The layout of a stream. *)

\* Where the i-th frame ends, and the first begins.
EndOf(s, i) == IF i = 0 THEN 0 ELSE FrameEnd(s[i])

LEMMA FrameFacts ==
  ASSUME NEW f \in SentFrames
  PROVE  /\ f.type \in FrameType \cup {"Unknown"}
         /\ f.start \in Nat /\ f.len \in Nat
         /\ f.typeLen \in Nat \ {0} /\ f.lenLen \in Nat \ {0}
         /\ HeaderLen(f) \in Nat /\ HeaderLen(f) >= 2
         /\ PayloadStart(f) = f.start + HeaderLen(f) /\ PayloadStart(f) \in Nat
         /\ FrameEnd(f) = PayloadStart(f) + f.len /\ FrameEnd(f) \in Nat
         /\ f.start + 2 <= FrameEnd(f)
<1>1. /\ f.type \in FrameType \cup {"Unknown"}
      /\ f.start \in Nat /\ f.len \in Nat
      /\ f.typeLen \in Nat \ {0} /\ f.lenLen \in Nat \ {0}
  BY DEF SentFrames
<1>2. /\ HeaderLen(f) = f.typeLen + f.lenLen
      /\ PayloadStart(f) = f.start + f.typeLen + f.lenLen
      /\ FrameEnd(f) = PayloadStart(f) + f.len
  BY DEF HeaderLen, PayloadStart, FrameEnd
<1>3. PICK s, t, l, n : s = f.start /\ t = f.typeLen /\ l = f.lenLen /\ n = f.len
  OBVIOUS
<1>4. /\ HeaderLen(f) = t + l /\ PayloadStart(f) = s + t + l /\ FrameEnd(f) = PayloadStart(f) + n
      /\ s \in Nat /\ t \in Nat \ {0} /\ l \in Nat \ {0} /\ n \in Nat
  BY <1>1, <1>2, <1>3, Zenon
<1>5. /\ HeaderLen(f) \in Nat /\ HeaderLen(f) >= 2
      /\ PayloadStart(f) = s + HeaderLen(f) /\ PayloadStart(f) \in Nat
      /\ FrameEnd(f) \in Nat /\ s + 2 <= FrameEnd(f)
  BY <1>4
<1> QED
  BY <1>1, <1>2, <1>3, <1>5, Zenon

LEMMA StreamFacts ==
  ASSUME NEW s \in Streams
  PROVE  /\ s \in Seq(SentFrames) /\ Len(s) \in Nat \ {0} /\ DOMAIN s = 1 .. Len(s)
         /\ \A i \in DOMAIN s : s[i] \in SentFrames
         /\ \A i \in DOMAIN s : s[i].start = EndOf(s, i - 1)
         /\ \A i, j \in DOMAIN s : i < j => FrameEnd(s[i]) <= s[j].start
<1>1. s \in Seq(SentFrames) /\ s # <<>> /\ LaidOut(s)
  BY ParserArguments
<1>2. Len(s) \in Nat \ {0} /\ DOMAIN s = 1 .. Len(s) /\ \A i \in DOMAIN s : s[i] \in SentFrames
  BY <1>1
<1> QED
  BY <1>1, <1>2 DEF LaidOut, EndOf

\* A frame begins where r frames end only if it is the next one.
LEMMA NextFrame ==
  ASSUME NEW s \in Streams, NEW r \in 0 .. Len(s), NEW i \in DOMAIN s,
         s[i].start = EndOf(s, r)
  PROVE  i = r + 1
<1> USE StreamFacts
<1> DEFINE First(k) == s[k].start
           After(k) == FrameEnd(s[k])
<1>6. \A k \in DOMAIN s : First(k) \in Nat /\ After(k) \in Nat /\ First(k) + 2 <= After(k)
  BY FrameFacts
<1>1. /\ i \in Nat /\ r \in Nat /\ i >= 1 /\ DOMAIN s = 1 .. Len(s) /\ Len(s) \in Nat
      /\ \A j, k \in DOMAIN s : j < k => After(j) <= First(k)
      /\ \A k \in DOMAIN s : First(k) = EndOf(s, k - 1)
      /\ First(i) = EndOf(s, r)
  OBVIOUS
<1>4. \A k \in DOMAIN s : EndOf(s, k) = After(k)
  BY <1>1 DEF EndOf
<1>5. EndOf(s, 0) = 0
  BY DEF EndOf
<1> HIDE StreamFacts
<1> HIDE DEF First, After
<1>2. CASE r = 0
  <2>1. CASE i > 1
    <3>1. 1 \in DOMAIN s /\ After(1) <= First(i)
      BY <1>1, <2>1
    <3>2. First(i) = 0 /\ First(1) \in Nat /\ After(1) \in Nat /\ First(1) + 2 <= After(1)
      BY <1>6, <1>1, <1>2, <1>5, <3>1
    <3> QED
      BY <3>1, <3>2
  <2> QED
    BY <1>1, <1>2, <2>1
<1>3. CASE r # 0
  <2>1. r \in DOMAIN s /\ First(i) = After(r)
    BY <1>1, <1>3, <1>4
  <2>2. ~(i < r)
    BY <1>6, <1>1, <2>1
  <2>3. i # r
    BY <1>6, <1>1, <2>1
  <2>4. ~(i > r + 1)
    <3> SUFFICES ASSUME i > r + 1 PROVE FALSE
      OBVIOUS
    <3>1. r + 1 \in DOMAIN s /\ (r + 1) - 1 = r
      BY <1>1, <2>1
    <3>2. First(r + 1) = After(r)
      BY <1>1, <1>4, <2>1, <3>1
    <3>3. After(r + 1) <= First(i)
      BY <1>1, <3>1
    <3> QED
      BY <1>6, <2>1, <3>1, <3>2, <3>3
  <2> QED
    BY <1>1, <2>2, <2>3, <2>4
<1> QED
  BY <1>2, <1>3

\* The header at the front belongs to the next frame; after the last there is none.
LEMMA FrontFrame ==
  ASSUME sent \in Streams, NEW r \in 0 .. Len(sent), NEW p, p.head = EndOf(sent, r)
  PROVE  /\ r < Len(sent) => AtFront(p) = sent[r + 1]
         /\ r = Len(sent) => AtFront(p).type = "Unknown"
<1> USE StreamFacts
<1>1. \A f \in Sent : f.start = p.head => r < Len(sent) /\ f = sent[r + 1]
  <2> SUFFICES ASSUME NEW i \in DOMAIN sent, sent[i].start = p.head
               PROVE  r < Len(sent) /\ sent[i] = sent[r + 1]
    BY DEF Sent
  <2>1. i = r + 1
    BY NextFrame
  <2> QED
    BY <2>1
<1>2. ASSUME r < Len(sent) PROVE sent[r + 1] \in Sent /\ sent[r + 1].start = p.head
  <2>1. r + 1 \in DOMAIN sent /\ (r + 1) - 1 = r
    BY <1>2
  <2> QED
    BY <2>1 DEF Sent
<1>3. CASE r < Len(sent)
  BY <1>1, <1>2, <1>3 DEF AtFront
<1>4. CASE r = Len(sent)
  <2>1. ~ \E f \in Sent : f.start = p.head
    BY <1>1, <1>4
  <2> QED
    BY <1>4, <2>1 DEF AtFront
<1> QED
  BY <1>3, <1>4

-----------------------------------------------------------------------------
(* A turn of the parsing loop. *)

ParserStates ==
  {WaitingHeader} \cup {ReadingPayload(type, n) : type \in FrameType, n \in 0 .. MaxFrameSize}

Data(h, t, st) == [head |-> h, tail |-> t, state |-> st]

\* Aligned, said of any place in the stream.
AlignedAt(h, st, r) ==
  IF st = WaitingHeader
  THEN h = EndOf(sent, r)
  ELSE /\ r < Len(sent)
       /\ h = PayloadStart(sent[r + 1])
       /\ st = ReadingPayload(sent[r + 1].type, sent[r + 1].len)

LEMMA StateFacts ==
  ASSUME NEW h, NEW t, NEW st \in ParserStates
  PROVE  /\ Waiting(Data(h, t, st)) <=> st = WaitingHeader
         /\ st # WaitingHeader => \E type \in FrameType, n \in 0 .. MaxFrameSize :
              st = ReadingPayload(type, n) /\ st.type = type /\ st.length = n
BY DEF ParserStates, Waiting, Data, WaitingHeader, ReadingPayload

\* try_parse_header leaves everything as it is or reads the next frame's header.
LEMMA HeaderFacts ==
  ASSUME sent \in Streams, NEW h \in Nat, NEW t \in Nat, h <= t, NEW st \in ParserStates,
         NEW r \in 0 .. Len(sent), AlignedAt(h, st, r)
  PROVE  LET p == TryParseHeader(Data(h, t, st))
         IN \/ st = WaitingHeader /\ p = Data(h, t, st) /\ HeaderRead(p) # "ok"
            \/ \E hd \in Nat :
                 /\ h <= hd /\ hd <= t
                 /\ r < Len(sent) /\ hd = PayloadStart(sent[r + 1])
                 /\ p = Data(hd, t, ReadingPayload(sent[r + 1].type, sent[r + 1].len))
                 /\ sent[r + 1].type \in FrameType
                 /\ sent[r + 1].len \in 0 .. MaxFrameSize
<1> DEFINE d == Data(h, t, st)
           f == AtFront(d)
<1>1. d.head = h /\ d.tail = t /\ d.state = st /\ Buffered(d) = t - h
  BY DEF Data, Buffered
<1>2. CASE st # WaitingHeader
  <2>1. ~Waiting(d) /\ TryParseHeader(d) = d
    BY <1>2, StateFacts DEF TryParseHeader
  <2>2. /\ r < Len(sent) /\ h = PayloadStart(sent[r + 1])
        /\ st = ReadingPayload(sent[r + 1].type, sent[r + 1].len)
    BY <1>2 DEF AlignedAt
  <2>3. PICK type \in FrameType, n \in 0 .. MaxFrameSize : st = ReadingPayload(type, n)
    BY <1>2, StateFacts
  <2>4. sent[r + 1].type = type /\ sent[r + 1].len = n
    BY <2>2, <2>3 DEF ReadingPayload
  <2> QED
    BY <2>1, <2>2, <2>3, <2>4
<1>3. CASE st = WaitingHeader /\ HeaderRead(d) # "ok"
  BY <1>3, StateFacts DEF TryParseHeader
<1>4. CASE st = WaitingHeader /\ HeaderRead(d) = "ok"
  <2>1. h = EndOf(sent, r) /\ Waiting(d)
    BY <1>4, StateFacts DEF AlignedAt
  <2>2. f.type \in FrameType /\ Buffered(d) >= HeaderLen(f) /\ ~(f.len > MaxFrameSize)
    <3>1. f.type \in FrameType /\ ~(Buffered(d) < HeaderLen(f)) /\ ~(f.len > MaxFrameSize)
      BY <1>4 DEF HeaderRead
    <3>2. r < Len(sent) /\ f = sent[r + 1]
      <4>1. f.type # "Unknown"
        BY <3>1 DEF FrameType
      <4>2. Len(sent) \in Nat
        BY StreamFacts
      <4> QED
        BY <1>1, <2>1, <4>1, <4>2, FrontFrame
    <3>3. f \in SentFrames
      <4>1. r + 1 \in DOMAIN sent
        BY <3>2, StreamFacts
      <4> QED
        BY <3>2, <4>1, StreamFacts
    <3> QED
      BY <1>1, <3>1, <3>3, FrameFacts
  <2>3. r < Len(sent) /\ f = sent[r + 1] /\ f \in SentFrames /\ f.start = h
    <3>1. f.type # "Unknown"
      BY <2>2 DEF FrameType
    <3>2. r < Len(sent) /\ f = sent[r + 1]
      BY <1>1, <2>1, <3>1, FrontFrame, StreamFacts
    <3>3. r + 1 \in DOMAIN sent /\ (r + 1) - 1 = r
      BY <3>2, StreamFacts
    <3> QED
      BY <2>1, <3>2, <3>3, StreamFacts
  <2>4. /\ PayloadStart(f) = h + HeaderLen(f) /\ HeaderLen(f) \in Nat /\ PayloadStart(f) \in Nat
        /\ f.len \in Nat
    BY <2>3, FrameFacts
  <2>5. h <= PayloadStart(f) /\ PayloadStart(f) <= t /\ f.len \in 0 .. MaxFrameSize
    BY <1>1, <2>2, <2>4, ParserArguments
  <2>6. TryParseHeader(d) = Data(h + HeaderLen(f), t, ReadingPayload(f.type, f.len))
    BY <1>4, <2>1 DEF TryParseHeader, Data
  <2> HIDE DEF f
  <2> QED
    BY <2>2, <2>3, <2>4, <2>5, <2>6
<1> QED
  BY <1>2, <1>3, <1>4

\* A turn keeps the place, or moves it over the next frame, which it returns unless
\* its payload is refused.
LEMMA TurnFacts ==
  ASSUME sent \in Streams, NEW h \in Nat, NEW t \in Nat, h <= t, NEW st \in ParserStates,
         NEW r \in 0 .. Len(sent), AlignedAt(h, st, r)
  PROVE  LET u == Turn(Data(h, t, st))
         IN /\ u.p.head \in Nat /\ u.p.tail = t /\ h <= u.p.head /\ u.p.head <= t
            /\ u.p.state \in ParserStates
            /\ u.removed \in {0, 1} /\ r + u.removed \in 0 .. Len(sent)
            /\ AlignedAt(u.p.head, u.p.state, r + u.removed)
            /\ u.result \in {"none", "error", "frame"}
            /\ u.result = "frame" => u.removed = 1 /\ u.frame = Content(sent[r + 1])
            /\ u.result = "none" => u.removed = 0
<1> DEFINE d == Data(h, t, st)
           p == TryParseHeader(d)
           u == Turn(d)
<1>1. CASE st = WaitingHeader /\ p = d /\ HeaderRead(p) # "ok"
  <2>1. Waiting(p)
    BY <1>1, StateFacts
  <2>2. u.p = d /\ u.removed = 0 /\ u.result \in {"none", "error"}
    BY <1>1, <2>1 DEF Turn
  <2>3. d.head = h /\ d.tail = t /\ d.state = st
    BY DEF Data
  <2> QED
    BY <2>2, <2>3
<1>2. ASSUME NEW hd \in Nat, h <= hd, hd <= t, r < Len(sent), hd = PayloadStart(sent[r + 1]),
             p = Data(hd, t, ReadingPayload(sent[r + 1].type, sent[r + 1].len)),
             sent[r + 1].type \in FrameType, sent[r + 1].len \in 0 .. MaxFrameSize
      PROVE  /\ u.p.head \in Nat /\ u.p.tail = t /\ h <= u.p.head /\ u.p.head <= t
             /\ u.p.state \in ParserStates
             /\ u.removed \in {0, 1} /\ r + u.removed \in 0 .. Len(sent)
             /\ AlignedAt(u.p.head, u.p.state, r + u.removed)
             /\ u.result \in {"none", "error", "frame"}
             /\ u.result = "frame" => u.removed = 1 /\ u.frame = Content(sent[r + 1])
             /\ u.result = "none" => u.removed = 0
  <2> DEFINE g == sent[r + 1]
             reading == ReadingPayload(g.type, g.len)
  <2>1. /\ reading \in ParserStates /\ reading # WaitingHeader
        /\ reading.type = g.type /\ reading.length = g.len
    BY <1>2 DEF ParserStates, ReadingPayload, WaitingHeader
  <2>2. p.head = hd /\ p.tail = t /\ p.state = reading /\ Buffered(p) = t - hd /\ ~Waiting(p)
    BY <1>2, <2>1, StateFacts DEF Data, Buffered
  <2>3. /\ g \in SentFrames /\ g.len \in Nat
        /\ FrameEnd(g) = hd + g.len /\ EndOf(sent, r + 1) = FrameEnd(g)
        /\ r + 1 \in 0 .. Len(sent)
    <3>1. r + 1 \in DOMAIN sent /\ r \in Nat /\ Len(sent) \in Nat
      BY <1>2, StreamFacts
    <3>2. g \in SentFrames
      BY <3>1, StreamFacts
    <3>3. g.len \in Nat /\ FrameEnd(g) = PayloadStart(g) + g.len
      BY <3>2, FrameFacts
    <3>4. r + 1 \in 0 .. Len(sent) /\ r + 1 # 0
      BY <3>1, <1>2
    <3>5. EndOf(sent, r + 1) = FrameEnd(g)
      BY <3>4, Zenon DEF EndOf
    <3> QED
      BY <1>2, <3>2, <3>3, <3>4, <3>5, Zenon
  <2>4. CASE t - hd < g.len
    <3>1. u.p = p /\ u.removed = 0 /\ u.result = "none"
      BY <2>1, <2>2, <2>4 DEF Turn
    <3>2. AlignedAt(hd, reading, r)
      BY <1>2, <2>1 DEF AlignedAt
    <3> QED
      BY <1>2, <2>1, <2>2, <3>1, <3>2
  <2>5. CASE ~(t - hd < g.len)
    <3>1. /\ u.p = [p EXCEPT !.head = @ + p.state.length, !.state = WaitingHeader]
          /\ u.removed = 1 /\ u.result \in {"error", "frame"}
          /\ u.frame = Parsed(p)
      BY <2>1, <2>2, <2>5 DEF Turn
    <3>2. u.p.head = hd + g.len /\ u.p.tail = t /\ u.p.state = WaitingHeader
      BY <1>2, <2>1, <2>2, <3>1 DEF Data
    <3>3. AlignedAt(hd + g.len, WaitingHeader, r + 1)
      BY <2>3 DEF AlignedAt
    <3>4. Parsed(p) = Content(g)
      BY <1>2, <2>1, <2>2, <2>3 DEF Parsed, Content
    <3>5. WaitingHeader \in ParserStates
      BY DEF ParserStates
    <3>6. /\ hd + g.len \in Nat /\ h <= hd + g.len /\ hd + g.len <= t
          /\ r + u.removed = r + 1
      BY <1>2, <2>3, <2>5, <3>1
    <3>7. u.frame = Content(sent[r + 1])
      BY <3>1, <3>4
    <3> HIDE DEF u, p, d, g
    <3> QED
      BY <2>3, <3>1, <3>2, <3>3, <3>5, <3>6, <3>7
  <2> QED
    BY <2>4, <2>5
<1> QED
  BY <1>1, <1>2, HeaderFacts

-----------------------------------------------------------------------------
(* The frames as the application sees them. *)

LEMMA ContentsFacts ==
  ASSUME NEW s \in Streams
  PROVE  /\ Contents(s) \in Seq(Frames) /\ Len(Contents(s)) = Len(s) /\ Len(s) \in Nat
         /\ \A i \in 1 .. Len(s) : Contents(s)[i] = Content(s[i]) /\ Contents(s)[i] \in Frames
<1>1. s \in Seq(SentFrames) /\ Len(s) \in Nat /\ DOMAIN s = 1 .. Len(s)
  BY StreamFacts
<1>2. ASSUME NEW i \in 1 .. Len(s) PROVE Content(s[i]) \in Frames
  <2>1. s[i] \in SentFrames
    BY <1>1, StreamFacts
  <2> QED
    BY <2>1, FrameFacts DEF Content, Frames
<1>3. Contents(s) = [i \in 1 .. Len(s) |-> Content(s[i])]
  BY <1>1 DEF Contents
<1>4. Contents(s) \in [1 .. Len(s) -> Frames]
  BY <1>2, <1>3
<1>5. Contents(s) \in Seq(Frames)
  BY <1>1, <1>4
<1> QED
  BY <1>1, <1>2, <1>3, <1>4, <1>5

\* A run of a sequence and the element after it.
LEMMA RunGrows ==
  ASSUME NEW S, NEW q \in Seq(S), NEW r \in Nat, r < Len(q), NEW m \in 1 .. r + 1
  PROVE  SubSeq(q, m, r + 1) = Append(SubSeq(q, m, r), q[r + 1])
<1>1. r + 1 \in m .. Len(q) /\ m \in 1 .. Len(q) /\ (r + 1) - 1 = r
  OBVIOUS
<1>2. SubSeq(q, m, r + 1) = SubSeq(q, m, r) \o <<q[r + 1]>>
  BY <1>1, SubSeqRecursiveSecond
<1>3. q[r + 1] \in S /\ \A i \in m .. r : q[i] \in S
  BY <1>1
<1>4. SubSeq(q, m, r) \in Seq(S)
  BY <1>3, SubSeqProperties
<1> QED
  BY <1>2, <1>3, <1>4, AppendIsConcat

LEMMA AppendAssociative ==
  ASSUME NEW S, NEW a \in Seq(S), NEW b \in Seq(S), NEW x \in S
  PROVE  a \o Append(b, x) = Append(a \o b, x)
<1>1. <<x>> \in Seq(S) /\ a \o b \in Seq(S)
  BY ConcatProperties
<1>2. Append(b, x) = b \o <<x>> /\ Append(a \o b, x) = (a \o b) \o <<x>>
  BY <1>1, AppendIsConcat
<1>3. a \o (b \o <<x>>) = (a \o b) \o <<x>>
  BY <1>1, ConcatAssociative
<1> QED
  BY <1>2, <1>3

LEMMA NothingIsLast ==
  ASSUME NEW frames, NEW r \in Nat
  PROVE  LastOf(<<>>, frames, r)
<1>1. Len(<<>>) = 0
  OBVIOUS
<1>2. r - 0 + 1 = r + 1 /\ r < r + 1
  OBVIOUS
<1>3. SubSeq(frames, r + 1, r) = <<>>
  BY SubSeqEmpty
<1> QED
  BY <1>1, <1>2, <1>3 DEF LastOf

-----------------------------------------------------------------------------
(* The invariant. *)

LEMMA AlignedHere == Aligned <=> AlignedAt(head, state, removed)
BY DEF Aligned, AlignedAt, EndOf

\* What a turn of the loop does to the parser, with n more bytes.
LEMMA TakeStep ==
  ASSUME IInv, NEW n \in Nat, tail - head + n <= MaxBufferSize, UNCHANGED sent,
         NEW u, u = Turn(Data(head, tail + n, state)), Take(u)
  PROVE  /\ head' \in Nat /\ tail' \in Nat /\ head' <= tail' /\ tail' - head' <= MaxBufferSize
         /\ state' \in ParserStates
         /\ removed' \in 0 .. Len(sent) /\ removed' \in {removed, removed + 1}
         /\ Aligned'
         /\ result' = u.result /\ u.result \in {"none", "error", "frame"}
         /\ failed' = (failed \/ u.result = "error")
         /\ u.result = "frame" => /\ removed < Len(sent) /\ removed' = removed + 1
                                 /\ u.frame = Contents(sent)[removed + 1]
         /\ u.result = "none" => removed' = removed
<1>1. /\ sent \in Streams /\ head \in Nat /\ tail + n \in Nat /\ head <= tail + n
      /\ tail \in Nat /\ state \in ParserStates /\ removed \in 0 .. Len(sent)
      /\ removed \in Nat /\ Len(sent) \in Nat /\ MaxBufferSize \in Nat
  <2>1. sent \in Streams /\ removed \in 0 .. Len(sent) /\ state \in ParserStates
    BY DEF IInv, TypeOK, ParserStates
  <2>2. head \in Nat /\ tail \in Nat /\ head <= tail
    BY DEF IInv, TypeOK
  <2>3. Len(sent) \in Nat /\ MaxBufferSize \in Nat
    BY <2>1, ParserArguments, StreamFacts
  <2> QED
    BY <2>1, <2>2, <2>3
<1>2. AlignedAt(head, state, removed)
  BY AlignedHere DEF IInv
<1>3. /\ u.p.head \in Nat /\ u.p.tail = tail + n /\ head <= u.p.head /\ u.p.head <= tail + n
      /\ u.p.state \in ParserStates
      /\ u.removed \in {0, 1} /\ removed + u.removed \in 0 .. Len(sent)
      /\ AlignedAt(u.p.head, u.p.state, removed + u.removed)
      /\ u.result \in {"none", "error", "frame"}
      /\ u.result = "frame" => u.removed = 1 /\ u.frame = Content(sent[removed + 1])
      /\ u.result = "none" => u.removed = 0
  <2> DEFINE w == Turn(Data(head, tail + n, state))
  <2> HIDE DEF w
  <2>1. /\ w.p.head \in Nat /\ w.p.tail = tail + n /\ head <= w.p.head /\ w.p.head <= tail + n
        /\ w.p.state \in ParserStates
        /\ w.removed \in {0, 1} /\ removed + w.removed \in 0 .. Len(sent)
        /\ AlignedAt(w.p.head, w.p.state, removed + w.removed)
        /\ w.result \in {"none", "error", "frame"}
        /\ w.result = "frame" => w.removed = 1 /\ w.frame = Content(sent[removed + 1])
        /\ w.result = "none" => w.removed = 0
    BY <1>1, <1>2, TurnFacts DEF w
  <2> QED
    BY <2>1 DEF w
<1>4. /\ head' = u.p.head /\ tail' = tail + n /\ state' = u.p.state
      /\ removed' = removed + u.removed /\ result' = u.result
      /\ failed' = (failed \/ u.result = "error")
  BY <1>3 DEF Take
<1>5. Aligned'
  BY <1>3, <1>4 DEF Aligned, AlignedAt, EndOf
<1>6. head' \in Nat /\ tail' \in Nat /\ head' <= tail' /\ tail' - head' <= MaxBufferSize
  BY <1>1, <1>3, <1>4
<1>7. removed' \in 0 .. Len(sent) /\ removed' \in {removed, removed + 1}
  BY <1>1, <1>3, <1>4
<1>8. u.result = "none" => removed' = removed
  BY <1>1, <1>3, <1>4
<1>9. ASSUME u.result = "frame"
      PROVE  /\ removed < Len(sent) /\ removed' = removed + 1
             /\ u.frame = Contents(sent)[removed + 1]
  <2>1. removed < Len(sent) /\ removed' = removed + 1 /\ removed + 1 \in 1 .. Len(sent)
    BY <1>1, <1>3, <1>4, <1>9
  <2> QED
    BY <1>1, <1>3, <1>9, <2>1, ContentsFacts
<1> QED
  BY <1>3, <1>4, <1>5, <1>6, <1>7, <1>8, <1>9

LEMMA InitInvariant == Init => IInv
<1> SUFFICES ASSUME Init PROVE IInv
  OBVIOUS
<1>1. sent \in Streams /\ Len(sent) \in Nat /\ MaxBufferSize \in Nat
  BY ParserArguments, StreamFacts DEF Init
<1>2. <<>> \in Seq(Frames) /\ Len(<<>>) = 0
  OBVIOUS
<1>3. TypeOK
  <2>1. head = 0 /\ tail = 0 /\ removed = 0 /\ 0 \in 0 .. Len(sent)
    BY <1>1 DEF Init
  <2>2. batch \in Seq(Frames) /\ handed \in Seq(Frames)
    BY <1>2 DEF Init
  <2>3. state \in ParserStates
    BY DEF Init, ParserStates
  <2>4. head \in Nat /\ tail \in Nat /\ head <= tail /\ tail - head <= MaxBufferSize
    BY <1>1, <2>1
  <2>5. /\ call \in {"none", "parse_frames"} /\ failed \in BOOLEAN
        /\ result \in {"none", "frame", "error", "overflow"}
        /\ call = "none" => batch = <<>>
    BY DEF Init
  <2>6. removed \in 0 .. Len(sent)
    BY <2>1
  <2> QED
    BY <1>1, <2>2, <2>3, <2>4, <2>5, <2>6 DEF TypeOK, ParserStates
<1>4. Aligned
  BY DEF Init, Aligned
<1>5. SubSeq(Contents(sent), 1, 0) = <<>>
  BY SubSeqEmpty
<1>6. BatchIsTheLast
  BY NothingIsLast DEF Init, BatchIsTheLast
<1>7. NoGapWithoutError
  BY <1>5 DEF Init, NoGapWithoutError
<1> QED
  BY <1>3, <1>4, <1>6, <1>7 DEF IInv

LEMMA ParseFrameStep ==
  ASSUME IInv, NEW n \in Nat, ParseFrame(n)
  PROVE  IInv'
<1> DEFINE u == Turn([head |-> head, tail |-> tail + n, state |-> state])
           C == Contents(sent)
<1>1. /\ Take(u) /\ UNCHANGED <<sent, call, batch>>
      /\ handed' = IF u.result = "frame" THEN Append(handed, u.frame) ELSE handed
      /\ call = "none" /\ tail - head + n <= MaxBufferSize
  BY DEF ParseFrame, Offered, Fits
<1>2. u = Turn(Data(head, tail + n, state))
  BY DEF Data
<1> HIDE DEF u
<1>3. /\ head' \in Nat /\ tail' \in Nat /\ head' <= tail' /\ tail' - head' <= MaxBufferSize
      /\ state' \in ParserStates
      /\ removed' \in 0 .. Len(sent) /\ removed' \in {removed, removed + 1}
      /\ Aligned'
      /\ result' = u.result /\ u.result \in {"none", "error", "frame"}
      /\ failed' = (failed \/ u.result = "error")
      /\ u.result = "frame" => /\ removed < Len(sent) /\ removed' = removed + 1
                              /\ u.frame = C[removed + 1]
      /\ u.result = "none" => removed' = removed
  BY <1>1, <1>2, TakeStep
<1>4. /\ batch = <<>> /\ sent \in Streams /\ handed \in Seq(Frames) /\ removed \in Nat
      /\ C \in Seq(Frames) /\ Len(C) = Len(sent) /\ Len(sent) \in Nat
      /\ \A i \in 1 .. Len(sent) : C[i] \in Frames
  BY <1>1, ContentsFacts DEF IInv, TypeOK
<1>5. u.result = "frame" => u.frame \in Frames
  BY <1>3, <1>4
<1>6. handed' \in Seq(Frames)
  BY <1>1, <1>4, <1>5, AppendProperties
<1>7. TypeOK'
  BY <1>1, <1>3, <1>6 DEF IInv, TypeOK, ParserStates
<1>8. BatchIsTheLast'
  <2>1. batch' = <<>> /\ removed' \in Nat
    BY <1>1, <1>3, <1>4
  <2> QED
    BY <2>1, NothingIsLast DEF BatchIsTheLast
<1>9. NoGapWithoutError'
  <2> SUFFICES ASSUME ~failed' PROVE handed' \o batch' = SubSeq(C, 1, removed')
    BY <1>1 DEF NoGapWithoutError
  <2>1. ~failed /\ u.result \in {"none", "frame"}
    BY <1>3
  <2>2. handed = SubSeq(C, 1, removed)
    BY <1>4, <2>1, ConcatEmptySeq DEF IInv, NoGapWithoutError
  <2>3. handed' = SubSeq(C, 1, removed')
    <3>1. CASE u.result = "none"
      BY <1>1, <1>3, <2>2, <3>1
    <3>2. CASE u.result = "frame"
      <4>1. 1 \in 1 .. removed + 1 /\ removed < Len(C)
        BY <1>3, <1>4, <3>2
      <4>2. SubSeq(C, 1, removed + 1) = Append(SubSeq(C, 1, removed), C[removed + 1])
        BY <1>4, <4>1, RunGrows
      <4> QED
        BY <1>1, <1>3, <2>2, <3>2, <4>2
    <3> QED
      BY <2>1, <3>1, <3>2
  <2> QED
    BY <1>1, <1>4, <1>6, <2>3, ConcatEmptySeq
<1> QED
  BY <1>3, <1>7, <1>8, <1>9 DEF IInv

LEMMA LoopStep ==
  ASSUME IInv, Loop
  PROVE  IInv'
<1> DEFINE u == Turn([head |-> head, tail |-> tail, state |-> state])
           C == Contents(sent)
<1>1. Take(u) /\ Collect(u) /\ UNCHANGED sent
  BY DEF Loop
<1>2. tail + 0 = tail /\ tail - head + 0 <= MaxBufferSize
  BY DEF IInv, TypeOK
<1>3. u = Turn(Data(head, tail + 0, state))
  BY <1>2 DEF Data
<1> HIDE DEF u
<1>4. /\ head' \in Nat /\ tail' \in Nat /\ head' <= tail' /\ tail' - head' <= MaxBufferSize
      /\ state' \in ParserStates
      /\ removed' \in 0 .. Len(sent) /\ removed' \in {removed, removed + 1}
      /\ Aligned'
      /\ result' = u.result /\ u.result \in {"none", "error", "frame"}
      /\ failed' = (failed \/ u.result = "error")
      /\ u.result = "frame" => /\ removed < Len(sent) /\ removed' = removed + 1
                              /\ u.frame = C[removed + 1]
      /\ u.result = "none" => removed' = removed
  BY <1>1, <1>2, <1>3, TakeStep
<1>5. /\ sent \in Streams /\ handed \in Seq(Frames) /\ batch \in Seq(Frames) /\ removed \in Nat
      /\ failed \in BOOLEAN
      /\ C \in Seq(Frames) /\ Len(C) = Len(sent) /\ Len(sent) \in Nat
      /\ \A i \in 1 .. Len(sent) : C[i] \in Frames
  BY ContentsFacts DEF IInv, TypeOK
<1>6. C' = C /\ removed' \in Nat
  BY <1>1, <1>4, <1>5
<1>7. CASE u.result = "frame"
  <2>1. /\ call' = "parse_frames" /\ batch' = Append(batch, u.frame) /\ handed' = handed
        /\ removed' = removed + 1 /\ removed < Len(C) /\ u.frame = C[removed + 1]
        /\ u.frame \in Frames /\ failed' = failed
    <3>1. call' = "parse_frames" /\ batch' = Append(batch, u.frame) /\ handed' = handed
      BY <1>1, <1>7 DEF Collect
    <3>2. removed' = removed + 1 /\ removed < Len(C) /\ u.frame = C[removed + 1]
      BY <1>4, <1>5, <1>7
    <3>3. removed + 1 \in 1 .. Len(sent)
      BY <1>5, <3>2
    <3> QED
      BY <1>4, <1>5, <1>7, <3>1, <3>2, <3>3
  <2>2. batch' \in Seq(Frames) /\ Len(batch') = Len(batch) + 1
    BY <1>5, <2>1, AppendProperties
  <2>3. TypeOK'
    BY <1>1, <1>4, <1>5, <2>1, <2>2 DEF TypeOK, ParserStates
  <2>4. BatchIsTheLast'
    <3>1. Len(batch) \in Nat /\ Len(batch) <= removed
      BY <1>5, LenProperties DEF IInv, BatchIsTheLast, LastOf
    <3>2. batch = SubSeq(C, removed - Len(batch) + 1, removed)
      BY DEF IInv, BatchIsTheLast, LastOf
    <3>3. removed - Len(batch) + 1 \in 1 .. removed + 1
      BY <1>5, <3>1
    <3>4. SubSeq(C, removed - Len(batch) + 1, removed + 1)
            = Append(SubSeq(C, removed - Len(batch) + 1, removed), C[removed + 1])
      BY <1>5, <2>1, <3>3, RunGrows
    <3>5. removed' - Len(batch') + 1 = removed - Len(batch) + 1 /\ Len(batch') <= removed'
      BY <1>5, <2>1, <2>2, <3>1
    <3>6. batch' = SubSeq(C, removed - Len(batch) + 1, removed + 1)
      BY <2>1, <3>2, <3>4
    <3> QED
      BY <1>6, <2>1, <3>5, <3>6 DEF BatchIsTheLast, LastOf
  <2>5. NoGapWithoutError'
    <3> SUFFICES ASSUME ~failed PROVE handed \o batch' = SubSeq(C, 1, removed + 1)
      BY <1>6, <2>1 DEF NoGapWithoutError
    <3>1. handed \o batch = SubSeq(C, 1, removed)
      BY DEF IInv, NoGapWithoutError
    <3>2. handed \o Append(batch, u.frame) = Append(handed \o batch, u.frame)
      BY <1>5, <2>1, AppendAssociative
    <3>3. 1 \in 1 .. removed + 1
      BY <1>5
    <3>4. SubSeq(C, 1, removed + 1) = Append(SubSeq(C, 1, removed), C[removed + 1])
      BY <1>5, <2>1, <3>3, RunGrows
    <3> QED
      BY <2>1, <3>1, <3>2, <3>4
  <2> QED
    BY <1>4, <2>3, <2>4, <2>5 DEF IInv
<1>8. CASE u.result # "frame"
  <2>1. /\ call' = "none" /\ batch' = <<>>
        /\ handed' = IF u.result = "none" THEN handed \o batch ELSE handed
    BY <1>1, <1>8 DEF Collect
  <2>2. handed' \in Seq(Frames)
    BY <1>5, <2>1, ConcatProperties
  <2>3. <<>> \in Seq(Frames)
    OBVIOUS
  <2>4. TypeOK'
    BY <1>1, <1>4, <1>5, <2>1, <2>2, <2>3 DEF TypeOK, ParserStates
  <2>5. BatchIsTheLast'
    BY <1>6, <2>1, NothingIsLast DEF BatchIsTheLast
  <2>6. NoGapWithoutError'
    <3> SUFFICES ASSUME ~failed' PROVE handed' \o batch' = SubSeq(C, 1, removed')
      BY <1>6 DEF NoGapWithoutError
    <3>1. ~failed /\ u.result = "none" /\ removed' = removed
      BY <1>4, <1>8
    <3>2. handed' = handed \o batch /\ handed \o batch = SubSeq(C, 1, removed)
      BY <2>1, <3>1 DEF IInv, NoGapWithoutError
    <3>3. handed' \o <<>> = handed'
      BY <2>2, ConcatEmptySeq
    <3> QED
      BY <2>1, <3>1, <3>2, <3>3
  <2> QED
    BY <1>4, <2>4, <2>5, <2>6 DEF IInv
<1> QED
  BY <1>7, <1>8

\* The steps that move no frame.
LEMMA OverflowStep ==
  ASSUME IInv, NEW n \in Nat, Overflow(n)
  PROVE  IInv'
<1>1. UNCHANGED <<sent, head, tail, state, call, batch, handed, removed, failed>> /\ result' = "overflow"
  BY DEF Overflow
<1> QED
  BY <1>1 DEF IInv, TypeOK, Aligned, BatchIsTheLast, NoGapWithoutError

LEMMA ParseFramesStep ==
  ASSUME IInv, NEW n \in Nat, ParseFrames(n)
  PROVE  IInv'
<1>1. /\ tail' = tail + n /\ tail - head + n <= MaxBufferSize /\ call' = "parse_frames"
      /\ UNCHANGED <<sent, head, state, batch, result, handed, removed, failed>>
  BY DEF ParseFrames, Fits
<1>2. tail' \in Nat /\ head' <= tail' /\ tail' - head' <= MaxBufferSize
  BY <1>1, ParserArguments DEF IInv, TypeOK
<1>3. TypeOK'
  BY <1>1, <1>2 DEF IInv, TypeOK
<1> QED
  BY <1>1, <1>3 DEF IInv, Aligned, BatchIsTheLast, NoGapWithoutError

LEMMA ClearStep ==
  ASSUME IInv, Clear
  PROVE  IInv'
<1>1. /\ call = "none" /\ batch = <<>> /\ UNCHANGED <<call, batch>>
      /\ sent' \in Streams /\ head' = 0 /\ tail' = 0 /\ state' = WaitingHeader
      /\ handed' = <<>> /\ removed' = 0 /\ failed' = FALSE /\ result' = "none"
  BY DEF Clear, IInv, TypeOK
<1>2. Len(sent') \in Nat /\ MaxBufferSize \in Nat
  BY <1>1, StreamFacts, ParserArguments
<1>3. <<>> \in Seq(Frames) /\ <<>> \o <<>> = <<>>
  OBVIOUS
<1>4. TypeOK'
  <2>1. 0 \in 0 .. Len(sent') /\ 0 - 0 <= MaxBufferSize
    BY <1>2
  <2>2. head' \in Nat /\ tail' \in Nat /\ head' <= tail' /\ tail' - head' <= MaxBufferSize
    BY <1>1, <2>1
  <2>3. batch' \in Seq(Frames) /\ handed' \in Seq(Frames) /\ removed' \in 0 .. Len(sent')
    BY <1>1, <1>3, <2>1
  <2>4. state' \in ParserStates
    BY <1>1 DEF ParserStates
  <2>5. /\ call' \in {"none", "parse_frames"} /\ failed' \in BOOLEAN
        /\ result' \in {"none", "frame", "error", "overflow"}
        /\ call' = "none" => batch' = <<>>
    BY <1>1
  <2> QED
    BY <1>1, <2>2, <2>3, <2>4, <2>5 DEF TypeOK, ParserStates
<1>5. Aligned'
  BY <1>1 DEF Aligned
<1>6. BatchIsTheLast'
  BY <1>1, NothingIsLast DEF BatchIsTheLast
<1>7. NoGapWithoutError'
  <2>1. SubSeq(Contents(sent'), 1, 0) = <<>>
    BY SubSeqEmpty
  <2> QED
    BY <1>1, <1>3, <2>1 DEF NoGapWithoutError
<1> QED
  BY <1>4, <1>5, <1>6, <1>7 DEF IInv

LEMMA InvariantStep == IInv /\ [Next]_vars => IInv'
<1> SUFFICES ASSUME IInv, [Next]_vars PROVE IInv'
  OBVIOUS
<1>1. Chunks \subseteq Nat
  BY ParserArguments DEF Chunks
<1>2. CASE \E n \in Chunks : Overflow(n) \/ ParseFrame(n) \/ ParseFrames(n)
  BY <1>1, <1>2, OverflowStep, ParseFrameStep, ParseFramesStep
<1>3. CASE Loop
  BY <1>3, LoopStep
<1>4. CASE Clear
  BY <1>4, ClearStep
<1>5. CASE UNCHANGED vars
  BY <1>5 DEF vars, IInv, TypeOK, Aligned, BatchIsTheLast, NoGapWithoutError
<1> QED
  BY <1>2, <1>3, <1>4, <1>5 DEF Next

\* Every reachable state satisfies the invariant.
THEOREM InvariantHolds == Spec => []IInv
BY InitInvariant, InvariantStep, PTL DEF Spec

-----------------------------------------------------------------------------
(* The promises. *)

\* The parser's variables have their types; the buffer never exceeds its limit.
THEOREM ParserStaysTyped == Spec => []TypeOK
<1>1. IInv => TypeOK
  BY DEF IInv
<1> QED
  BY <1>1, InvariantHolds, PTL

\* However the bytes are cut and the calls are mixed, the buffer begins where a frame
\* or the payload of the header read last begins.
THEOREM ParserStaysAligned == Spec => []Aligned
<1>1. IInv => Aligned
  BY DEF IInv
<1> QED
  BY <1>1, InvariantHolds, PTL

\* As long as no error was returned, the application got every frame that left the
\* buffer, in order, or parse_frames holds it.
THEOREM NothingIsLostSilently == Spec => []NoGapWithoutError
<1>1. IInv => NoGapWithoutError
  BY DEF IInv
<1> QED
  BY <1>1, InvariantHolds, PTL

-----------------------------------------------------------------------------
(* A header that cannot be parsed blocks the parser. *)

StaysWedged == Wedged => Clear \/ (Wedged' /\ removed' = removed /\ handed' = handed)

\* The header at the front reads the same with more bytes behind it.
LEMMA MoreBytesSameError ==
  ASSUME sent \in Streams, NEW h \in Nat, NEW t \in Nat, NEW n \in Nat,
         HeaderRead([head |-> h, tail |-> t]) = "error"
  PROVE  HeaderRead([head |-> h, tail |-> t + n]) = "error"
<1> DEFINE p == [head |-> h, tail |-> t]
           q == [head |-> h, tail |-> t + n]
           f == AtFront(p)
<1>1. AtFront(q) = f
  BY DEF AtFront
<1>2. f.typeLen \in Nat /\ HeaderLen(f) \in Nat
  <2>1. CASE \E g \in Sent : g.start = h
    <3>1. f \in Sent
      BY <2>1 DEF AtFront
    <3>2. f \in SentFrames
      BY <3>1, StreamFacts DEF Sent
    <3> QED
      BY <3>2, FrameFacts
  <2>2. CASE ~ \E g \in Sent : g.start = h
    BY <2>2 DEF AtFront, HeaderLen
  <2> QED
    BY <2>1, <2>2
<1>3. Buffered(p) = t - h /\ Buffered(q) = t + n - h
  BY DEF Buffered
<1> HIDE DEF f
<1>4. HeaderRead(p) = "error" =>
        /\ ~(t - h < 2 \/ t - h < f.typeLen)
        /\ \/ f.type \notin FrameType
           \/ ~(t - h < HeaderLen(f)) /\ f.len > MaxFrameSize
  BY <1>3 DEF HeaderRead, f
<1>5. /\ ~(t + n - h < 2 \/ t + n - h < f.typeLen)
      /\ \/ f.type \notin FrameType
         \/ ~(t + n - h < HeaderLen(f)) /\ f.len > MaxFrameSize
  BY <1>2, <1>4
<1> QED
  BY <1>1, <1>3, <1>5 DEF HeaderRead, f

\* A turn on such a header returns the error and changes nothing.
LEMMA WedgedTurn ==
  ASSUME NEW h, NEW t, HeaderRead([head |-> h, tail |-> t]) = "error"
  PROVE  LET d == [head |-> h, tail |-> t, state |-> WaitingHeader]
         IN Turn(d).p = d /\ Turn(d).removed = 0 /\ Turn(d).result = "error"
<1> DEFINE d == [head |-> h, tail |-> t, state |-> WaitingHeader]
<1>1. HeaderRead(d) = HeaderRead([head |-> h, tail |-> t])
  BY DEF HeaderRead, AtFront, Buffered
<1>2. Waiting(d) /\ TryParseHeader(d) = d
  BY <1>1 DEF Waiting, WaitingHeader, TryParseHeader
<1> QED
  BY <1>1, <1>2 DEF Turn

LEMMA WedgedStep ==
  ASSUME IInv, [Next]_vars
  PROVE  StaysWedged
<1> SUFFICES ASSUME Wedged, ~Clear
             PROVE  Wedged' /\ removed' = removed /\ handed' = handed
  BY DEF StaysWedged
<1>1. /\ sent \in Streams /\ head \in Nat /\ tail \in Nat /\ removed \in Nat
      /\ state = WaitingHeader /\ Waiting([state |-> WaitingHeader])
      /\ HeaderRead([head |-> head, tail |-> tail]) = "error"
  <2>1. sent \in Streams /\ removed \in 0 .. Len(sent) /\ state \in ParserStates
    BY DEF IInv, TypeOK, ParserStates
  <2>2. head \in Nat /\ tail \in Nat
    BY DEF IInv, TypeOK
  <2>3. Waiting([state |-> state]) /\ HeaderRead([head |-> head, tail |-> tail]) = "error"
    BY DEF Wedged
  <2>4. state = WaitingHeader
    BY <2>1, <2>3 DEF ParserStates, Waiting, ReadingPayload
  <2> QED
    BY <2>1, <2>2, <2>3, <2>4
<1>2. ASSUME NEW n \in Nat, UNCHANGED <<sent, head, state>>, tail' = tail + n
      PROVE  Wedged'
  <2>1. HeaderRead([head |-> head, tail |-> tail + n]) = "error"
    BY <1>1, MoreBytesSameError
  <2>2. HeaderRead([head |-> head, tail |-> tail])' = HeaderRead([head |-> head, tail |-> tail + n])
    BY <1>2 DEF HeaderRead, AtFront, Buffered, Sent
  <2> QED
    BY <1>1, <1>2, <2>1, <2>2 DEF Wedged
<1>3. ASSUME NEW n \in Nat, UNCHANGED sent,
             Take(Turn([head |-> head, tail |-> tail + n, state |-> state]))
      PROVE  Wedged' /\ removed' = removed /\ result' = "error"
  <2> DEFINE d == [head |-> head, tail |-> tail + n, state |-> WaitingHeader]
  <2>1. HeaderRead([head |-> head, tail |-> tail + n]) = "error"
    BY <1>1, MoreBytesSameError
  <2>2. Turn(d).p = d /\ Turn(d).removed = 0 /\ Turn(d).result = "error"
    BY <2>1, WedgedTurn
  <2>3. Take(Turn(d))
    BY <1>1, <1>3
  <2>4. /\ head' = head /\ tail' = tail + n /\ state' = state
        /\ removed' = removed /\ result' = "error"
    BY <1>1, <2>2, <2>3 DEF Take
  <2> QED
    BY <1>2, <1>3, <2>4
<1>4. ASSUME NEW n \in Nat, ParseFrame(n) PROVE Wedged' /\ removed' = removed /\ handed' = handed
  <2> DEFINE u == Turn([head |-> head, tail |-> tail + n, state |-> state])
  <2>1. /\ Take(u) /\ UNCHANGED sent
        /\ handed' = IF u.result = "frame" THEN Append(handed, u.frame) ELSE handed
    BY <1>4 DEF ParseFrame
  <2>2. result' = u.result
    BY <2>1 DEF Take
  <2> HIDE DEF u
  <2>3. Wedged' /\ removed' = removed /\ result' = "error"
    BY <1>3, <2>1 DEF u
  <2> QED
    BY <2>1, <2>2, <2>3
<1>5. ASSUME Loop PROVE Wedged' /\ removed' = removed /\ handed' = handed
  <2> DEFINE u == Turn([head |-> head, tail |-> tail, state |-> state])
  <2>1. /\ Take(u) /\ UNCHANGED sent
        /\ handed' = IF u.result = "none" THEN handed \o batch ELSE handed
    BY <1>5 DEF Loop, Collect
  <2>2. result' = u.result
    BY <2>1 DEF Take
  <2>3. tail + 0 = tail
    BY <1>1
  <2> HIDE DEF u
  <2>4. Wedged' /\ removed' = removed /\ result' = "error"
    BY <1>3, <2>1, <2>3 DEF u
  <2> QED
    BY <2>1, <2>2, <2>4
<1>6. ASSUME NEW n \in Nat, Overflow(n) PROVE Wedged' /\ removed' = removed /\ handed' = handed
  BY <1>1, <1>2, <1>6 DEF Overflow
<1>7. ASSUME NEW n \in Nat, ParseFrames(n) PROVE Wedged' /\ removed' = removed /\ handed' = handed
  BY <1>2, <1>7 DEF ParseFrames
<1>8. CASE UNCHANGED vars
  BY <1>1, <1>2, <1>8 DEF vars
<1>9. Chunks \subseteq Nat
  BY ParserArguments DEF Chunks
<1> QED
  BY <1>4, <1>5, <1>6, <1>7, <1>8, <1>9 DEF Next

\* No bytes bring a parser past a header it cannot parse: until it is cleared, no
\* frame leaves the buffer and none is handed over.
THEOREM WedgedStays == Spec => WedgedUntilCleared
<1>1. IInv /\ [Next]_vars => StaysWedged
  BY WedgedStep
<1> QED
  BY <1>1, InvariantHolds, PTL DEF Spec, WedgedUntilCleared, StaysWedged

-----------------------------------------------------------------------------
(* The parser implements FrameDelivery. *)

\* FrameDelivery's next.
Given == removed - Len(batch) + 1

LEMMA GivenFacts ==
  ASSUME IInv
  PROVE  /\ sent \in Streams /\ removed \in Nat /\ Len(batch) \in Nat /\ Len(sent) \in Nat
         /\ removed <= Len(sent) /\ Len(batch) <= removed /\ Given \in 1 .. removed + 1
         /\ batch = SubSeq(Contents(sent), Given, removed)
         /\ handed \in Seq(Frames) /\ batch \in Seq(Frames) /\ failed \in BOOLEAN
         /\ Contents(sent) \in Seq(Frames) /\ Len(Contents(sent)) = Len(sent)
<1>1. /\ sent \in Streams /\ removed \in 0 .. Len(sent) /\ batch \in Seq(Frames)
      /\ handed \in Seq(Frames) /\ failed \in BOOLEAN
  BY DEF IInv, TypeOK
<1>2. Len(batch) \in Nat
  BY <1>1, LenProperties
<1>3. Len(batch) <= removed /\ batch = SubSeq(Contents(sent), Given, removed)
  BY DEF IInv, BatchIsTheLast, LastOf, Given
<1>4. Len(sent) \in Nat /\ Contents(sent) \in Seq(Frames) /\ Len(Contents(sent)) = Len(sent)
  BY <1>1, ContentsFacts
<1>5. Given \in 1 .. removed + 1
  BY <1>1, <1>2, <1>3, <1>4 DEF Given
<1> QED
  BY <1>1, <1>2, <1>3, <1>4, <1>5

LEMMA InitDelivers == Init => Delivery!Init
<1> SUFFICES ASSUME Init PROVE Delivery!Init
  OBVIOUS
<1>1. sent \in Streams /\ batch = <<>> /\ removed = 0 /\ handed = <<>> /\ failed = FALSE
  BY DEF Init
<1>2. Len(<<>>) = 0
  OBVIOUS
<1>3. removed - Len(batch) + 1 = 1
  BY <1>1, <1>2
<1> QED
  BY <1>1, <1>3 DEF Delivery!Init, Delivery!NewStream, ContentStreams

\* A step that changes nothing the application can see.
LEMMA Stutters ==
  ASSUME UNCHANGED <<sent, handed, failed>>, Given' = Given
  PROVE  [Delivery!Next]_Delivery!vars
BY DEF Delivery!vars, Given

\* Frames from the first that is not handed over up to last are handed over.
LEMMA HandsOver ==
  ASSUME UNCHANGED <<sent, failed>>, NEW last \in Nat, Given <= last, last <= Len(sent),
         IInv, handed' = handed \o SubSeq(Contents(sent), Given, last), Given' = last + 1
  PROVE  Delivery!Next
<1>1. last \in Given .. Len(Contents(sent))
  BY GivenFacts
<1>2. Delivery!HandOver
  BY <1>1 DEF Delivery!HandOver, Given
<1> QED
  BY <1>2 DEF Delivery!Next

\* An error is reported and frames up to last are given up.
LEMMA Reports ==
  ASSUME UNCHANGED <<sent, handed>>, failed' = TRUE, NEW last \in Nat, IInv,
         Given - 1 <= last, last <= Len(sent), Given' = last + 1
  PROVE  Delivery!Next
<1>1. last \in Given - 1 .. Len(Contents(sent))
  BY GivenFacts
<1>2. Delivery!ReportError
  BY <1>1 DEF Delivery!ReportError, Given
<1> QED
  BY <1>2 DEF Delivery!Next

LEMMA ParseFrameDelivers ==
  ASSUME IInv, NEW n \in Nat, ParseFrame(n)
  PROVE  [Delivery!Next]_Delivery!vars
<1> DEFINE u == Turn([head |-> head, tail |-> tail + n, state |-> state])
<1>1. /\ Take(u) /\ UNCHANGED <<sent, call, batch>>
      /\ handed' = IF u.result = "frame" THEN Append(handed, u.frame) ELSE handed
      /\ call = "none" /\ tail - head + n <= MaxBufferSize
  BY DEF ParseFrame, Offered, Fits
<1>2. u = Turn(Data(head, tail + n, state))
  BY DEF Data
<1> HIDE DEF u
<1>3. /\ removed' \in 0 .. Len(sent) /\ removed' \in {removed, removed + 1}
      /\ u.result \in {"none", "error", "frame"}
      /\ failed' = (failed \/ u.result = "error")
      /\ u.result = "frame" => /\ removed < Len(sent) /\ removed' = removed + 1
                              /\ u.frame = Contents(sent)[removed + 1]
      /\ u.result = "none" => removed' = removed
  BY <1>1, <1>2, TakeStep
<1>4. batch = <<>> /\ Len(batch) = 0
  BY <1>1 DEF IInv, TypeOK
<1>5. /\ Given = removed + 1 /\ Given' = removed' + 1
      /\ removed \in Nat /\ removed' \in Nat /\ Len(sent) \in Nat /\ removed' <= Len(sent)
  BY <1>1, <1>3, <1>4, GivenFacts DEF Given
<1>6. CASE u.result = "none"
  BY <1>1, <1>3, <1>5, <1>6, Stutters, GivenFacts
<1>7. CASE u.result = "error"
  <2>1. Given - 1 <= removed'
    BY <1>3, <1>5
  <2> QED
    BY <1>1, <1>3, <1>5, <1>7, <2>1, Reports
<1>8. CASE u.result = "frame"
  <2> DEFINE C == Contents(sent)
  <2>1. /\ handed' = Append(handed, C[removed + 1]) /\ removed' = removed + 1
        /\ removed < Len(C) /\ C \in Seq(Frames) /\ handed \in Seq(Frames)
    BY <1>1, <1>3, <1>8, GivenFacts
  <2>2. C[removed + 1] \in Frames
    BY <1>5, <2>1, ElementOfSeq
  <2>3. handed' = handed \o <<C[removed + 1]>>
    BY <2>1, <2>2, AppendIsConcat
  <2>4. SubSeq(C, removed + 1, removed + 1) = <<C[removed + 1]>>
    <3>1. SubSeq(C, removed + 1, removed) = <<>>
      BY <1>5, SubSeqEmpty
    <3>2. removed + 1 \in 1 .. removed + 1
      BY <1>5
    <3>3. SubSeq(C, removed + 1, removed + 1) = Append(<<>>, C[removed + 1])
      BY <1>5, <2>1, <3>1, <3>2, RunGrows
    <3>4. Append(<<>>, C[removed + 1]) = <<C[removed + 1]>>
      OBVIOUS
    <3> QED
      BY <3>3, <3>4
  <2>5. failed' = failed
    BY <1>3, <1>8, GivenFacts
  <2> HIDE DEF C
  <2>6. handed' = handed \o SubSeq(C, Given, removed')
    BY <1>5, <2>1, <2>3, <2>4
  <2> QED
    BY <1>1, <1>5, <2>1, <2>5, <2>6, HandsOver DEF C
<1> QED
  BY <1>3, <1>6, <1>7, <1>8

LEMMA LoopDelivers ==
  ASSUME IInv, Loop
  PROVE  [Delivery!Next]_Delivery!vars
<1> DEFINE u == Turn([head |-> head, tail |-> tail, state |-> state])
<1>1. Take(u) /\ Collect(u) /\ UNCHANGED sent
  BY DEF Loop
<1>2. tail + 0 = tail /\ tail - head + 0 <= MaxBufferSize
  BY DEF IInv, TypeOK
<1>3. u = Turn(Data(head, tail + 0, state))
  BY <1>2 DEF Data
<1> HIDE DEF u
<1>4. /\ removed' \in 0 .. Len(sent) /\ removed' \in {removed, removed + 1}
      /\ u.result \in {"none", "error", "frame"}
      /\ failed' = (failed \/ u.result = "error")
      /\ u.result = "frame" => /\ removed < Len(sent) /\ removed' = removed + 1
                              /\ u.frame = Contents(sent)[removed + 1]
      /\ u.result = "none" => removed' = removed
  BY <1>1, <1>2, <1>3, TakeStep
<1>5. /\ batch' = IF u.result = "frame" THEN Append(batch, u.frame) ELSE <<>>
      /\ handed' = IF u.result = "none" THEN handed \o batch ELSE handed
  BY <1>1 DEF Collect
<1>6. CASE u.result = "frame"
  <2>1. Contents(sent)[removed + 1] \in Frames
    BY <1>4, <1>6, GivenFacts, ElementOfSeq
  <2>2. Len(batch') = Len(batch) + 1
    BY <1>4, <1>5, <1>6, <2>1, GivenFacts, AppendProperties
  <2>3. Given' = Given
    BY <1>4, <1>6, <2>2, GivenFacts DEF Given
  <2> QED
    BY <1>1, <1>4, <1>5, <1>6, <2>3, Stutters, GivenFacts
<1>7. CASE u.result # "frame"
  <2>1. batch' = <<>> /\ Len(<<>>) = 0
    BY <1>5, <1>7
  <2>2. Given' = removed' + 1 /\ removed' \in Nat /\ removed' <= Len(sent)
    BY <1>4, <2>1, GivenFacts DEF Given
  <2>3. CASE u.result = "error"
    <3>1. Given - 1 <= removed'
      BY <1>4, GivenFacts
    <3> QED
      BY <1>1, <1>4, <1>5, <2>2, <2>3, <3>1, Reports
  <2>4. CASE u.result = "none"
    <3>1. handed' = handed \o SubSeq(Contents(sent), Given, removed)
      BY <1>5, <2>4, GivenFacts
    <3>2. removed' = removed /\ failed' = failed
      BY <1>4, <2>4, GivenFacts
    <3>3. CASE Given <= removed
      BY <1>1, <2>2, <3>1, <3>2, <3>3, HandsOver
    <3>4. CASE ~(Given <= removed)
      <4>1. Given = removed + 1
        BY <3>4, GivenFacts
      <4>2. Len(batch) = 0
        BY <4>1, GivenFacts DEF Given
      <4>3. handed' = handed
        BY <1>5, <2>4, <4>2, GivenFacts, ConcatEmptySeq, EmptySeq
      <4> QED
        BY <1>1, <2>2, <3>2, <4>1, <4>3, Stutters
    <3> QED
      BY <3>3, <3>4
  <2> QED
    BY <1>4, <1>7, <2>3, <2>4
<1> QED
  BY <1>6, <1>7

LEMMA ClearDelivers ==
  ASSUME IInv, Clear
  PROVE  [Delivery!Next]_Delivery!vars
<1>1. /\ batch = <<>> /\ batch' = <<>> /\ sent' \in Streams
      /\ handed' = <<>> /\ removed' = 0 /\ failed' = FALSE
  BY DEF Clear, IInv, TypeOK
<1>2. Len(<<>>) = 0
  OBVIOUS
<1>3. removed' - Len(batch') + 1 = 1
  BY <1>1, <1>2
<1>4. Contents(sent') \in ContentStreams
  BY <1>1 DEF ContentStreams
<1>5. Delivery!StartOver
  BY <1>1, <1>3, <1>4 DEF Delivery!StartOver
<1> QED
  BY <1>5 DEF Delivery!Next

LEMMA StepDelivers == IInv /\ [Next]_vars => [Delivery!Next]_Delivery!vars
<1> SUFFICES ASSUME IInv, [Next]_vars PROVE [Delivery!Next]_Delivery!vars
  OBVIOUS
<1>1. CASE UNCHANGED <<sent, removed, batch, handed, failed>>
  BY <1>1, Stutters DEF Given
<1>2. CASE \E n \in Chunks : Overflow(n) \/ ParseFrames(n)
  BY <1>1, <1>2 DEF Overflow, ParseFrames
<1>3. CASE \E n \in Chunks : ParseFrame(n)
  <2>1. Chunks \subseteq Nat
    BY ParserArguments DEF Chunks
  <2> QED
    BY <1>3, <2>1, ParseFrameDelivers
<1>4. CASE Loop
  BY <1>4, LoopDelivers
<1>5. CASE Clear
  BY <1>5, ClearDelivers
<1>6. CASE UNCHANGED vars
  BY <1>1, <1>6 DEF vars
<1> QED
  BY <1>2, <1>3, <1>4, <1>5, <1>6 DEF Next

\* The parser implements FrameDelivery: in every cut and mix of calls, frames reach
\* the application in order, none twice, and none is left out without an error.
THEOREM ParserDelivers == Spec => DeliverySpec
BY InitDelivers, StepDelivers, InvariantHolds, PTL DEF Spec, DeliverySpec, Delivery!Spec

-----------------------------------------------------------------------------
(* Numbers in mixed radix.  A number is cut into what is before and after  *)
(* the digits that make M; predicates carry such facts from lemma to lemma, *)
(* so that the provers need not match products.                            *)

LEMMA Products ==
  ASSUME NEW a \in Int, NEW b \in Int, NEW c \in Int
  PROVE  /\ a * b \in Int
         /\ a * b = b * a
         /\ (a * b) * c = a * (b * c)
         /\ (a + b) * c = a * c + b * c
  OBVIOUS

LEMMA NatProduct ==
  ASSUME NEW a \in Nat, NEW b \in Nat
  PROVE  a * b \in Nat /\ (a # 0 /\ b # 0 => a * b # 0)
  OBVIOUS

LEMMA Grow ==
  ASSUME NEW a \in Nat, NEW b \in Nat, NEW c \in Nat, a <= b
  PROVE  a * c <= b * c
  OBVIOUS

LEMMA Division ==
  ASSUME NEW v \in Nat, NEW m \in Nat \ {0}
  PROVE  /\ v \div m \in Nat
         /\ v % m \in 0 .. m - 1
         /\ v = (v \div m) * m + (v % m)
  OBVIOUS

LEMMA Unique ==
  ASSUME NEW q \in Nat, NEW m \in Nat \ {0}, NEW r \in 0 .. m - 1
  PROVE  /\ (q * m + r) \div m = q
         /\ (q * m + r) % m = r
  OBVIOUS

\* hi and lo are what is before and after the digits that make M.
Splits(v, hi, M, lo) ==
  /\ v \in Nat /\ hi \in Nat /\ lo \in Nat /\ M \in Nat \ {0}
  /\ lo < M /\ v = hi * M + lo

Wide(P, L, M) == L \in Nat \ {0} /\ M \in Nat \ {0} /\ P = L * M

\* Cutting a number to its low digits, and those before them away.
LEMMA CutTo ==
  ASSUME NEW v, NEW hi, NEW M, NEW lo, NEW P, NEW L,
         Splits(v, hi, M, lo), Wide(P, L, M)
  PROVE  (hi % L) * M + lo = v % P /\ v \div P = hi \div L
<1>0. /\ v \in Nat /\ hi \in Nat /\ lo \in Nat /\ M \in Nat \ {0} /\ L \in Nat \ {0}
      /\ lo < M /\ v = hi * M + lo /\ P = L * M
  BY DEF Splits, Wide
<1> DEFINE k == hi \div L
           t == hi % L
<1>1. k \in Nat /\ t \in 0 .. L - 1 /\ hi = k * L + t
  BY <1>0, Division
<1> HIDE DEF k, t
<1>2. L * M \in Nat \ {0} /\ k * L \in Int /\ t * M \in Nat
  BY <1>0, <1>1, NatProduct
<1>3. hi * M + lo = k * (L * M) + (t * M + lo)
  <2>1. hi * M = (k * L) * M + t * M
    BY <1>0, <1>1, <1>2, Products
  <2>2. (k * L) * M = k * (L * M) /\ k * (L * M) \in Int
    BY <1>0, <1>1, <1>2, Products
  <2> QED
    BY <1>0, <2>1, <2>2, <1>1, <1>2
<1>4. t * M + lo \in 0 .. L * M - 1
  <2>1. t + 1 <= L /\ t + 1 \in Nat
    BY <1>0, <1>1
  <2>2. (t + 1) * M <= L * M
    BY <1>0, <2>1, Grow
  <2>3. (t + 1) * M = t * M + M
    BY <1>0, <1>1, Products
  <2> QED
    BY <1>0, <1>1, <1>2, <2>2, <2>3
<1>5. hi * M + lo \in Nat
  BY <1>0, NatProduct
<1>6. (k * (L * M) + (t * M + lo)) % (L * M) = t * M + lo
  BY <1>1, <1>2, <1>4, Unique
<1>7. (k * (L * M) + (t * M + lo)) \div (L * M) = k
  BY <1>1, <1>2, <1>4, Unique
<1>8. v % P = t * M + lo /\ v \div P = k
  BY <1>0, <1>3, <1>6, <1>7, Zenon
<1> QED
  BY <1>8 DEF t, k

\* The two parts of a number are its quotient and its remainder.
LEMMA SplitAt ==
  ASSUME NEW v, NEW hi, NEW M, NEW lo, Splits(v, hi, M, lo)
  PROVE  v \div M = hi /\ v % M = lo
<1>1. lo \in 0 .. M - 1
  BY DEF Splits
<1> QED
  BY <1>1, Unique DEF Splits

LEMMA Splitting ==
  ASSUME NEW v \in Nat, NEW M \in Nat \ {0}
  PROVE  Splits(v, v \div M, M, v % M)
<1>1. v % M \in Nat /\ v % M < M
  BY Division
<1> QED
  BY <1>1, Division DEF Splits

\* The widths and limits of the four forms.
LEMMA Widths ==
  /\ Quarter \in Nat \ {0} /\ Byte \in Nat \ {0}
  /\ Byte2 \in Nat \ {0} /\ Byte4 \in Nat \ {0}
  /\ Limit1 \in Nat \ {0} /\ Limit2 \in Nat \ {0}
  /\ Limit4 \in Nat \ {0} /\ Limit8 \in Nat \ {0}
  /\ Byte = 4 * Quarter /\ Limit1 = Quarter
  /\ Byte2 = Byte * Byte /\ Byte4 = Byte2 * Byte2
  /\ Limit2 = Quarter * Byte /\ Limit4 = Limit2 * Byte2 /\ Limit8 = Limit4 * Byte4
  /\ Limit1 <= Limit2 /\ Limit2 <= Limit4 /\ Limit4 <= Limit8
<1>1. Quarter \in Nat \ {0} /\ Byte \in Nat \ {0} /\ Byte = 4 * Quarter
  BY VarintArguments DEF Byte
<1>2. Byte2 \in Nat \ {0} /\ Byte2 = Byte * Byte
  BY <1>1, NatProduct DEF Byte2
<1>3. Byte4 \in Nat \ {0} /\ Byte4 = Byte2 * Byte2
  BY <1>2, NatProduct DEF Byte4
<1>4. Limit1 = Quarter
  BY DEF Limit1
<1>5. Limit2 = Quarter * Byte /\ Limit2 \in Nat \ {0}
  BY <1>1, NatProduct DEF Limit2
<1>6. Limit4 = Limit2 * Byte2 /\ Limit4 \in Nat \ {0}
  <2>1. Limit4 = Limit2 * Byte2
    BY DEF Limit4, Limit2
  <2> QED
    BY <1>2, <1>5, <2>1, NatProduct
<1>7. Limit8 = Limit4 * Byte4 /\ Limit8 \in Nat \ {0}
  <2>1. Limit8 = Limit4 * Byte4
    BY DEF Limit8, Limit4
  <2> QED
    BY <1>3, <1>6, <2>1, NatProduct
<1>8. \A a, b \in Nat \ {0} : a <= a * b
  OBVIOUS
<1>9. Limit1 <= Limit2 /\ Limit2 <= Limit4 /\ Limit4 <= Limit8
  BY <1>1, <1>2, <1>3, <1>4, <1>5, <1>6, <1>7, <1>8
<1> QED
  BY <1>1, <1>2, <1>3, <1>4, <1>5, <1>6, <1>7, <1>9

LEMMA WideLimits ==
  /\ Wide(Byte2, Byte, Byte) /\ Wide(Byte4, Byte2, Byte2)
  /\ Wide(Limit2, Quarter, Byte) /\ Wide(Limit4, Limit2, Byte2) /\ Wide(Limit8, Limit4, Byte4)
  BY Widths DEF Wide

\* The bytes of a number from the low end: one,
LEMMA Shifts ==
  ASSUME NEW v \in Nat
  PROVE  /\ Splits(v, Shr(v), Byte, Low(v))
         /\ Low(v) % Quarter = v % Quarter
<1>1. Byte \in Nat \ {0} /\ Quarter \in Nat \ {0} /\ Byte = 4 * Quarter
  BY Widths
<1>2. Splits(v, Shr(v), Byte, Low(v))
  BY <1>1, Splitting DEF Shr, Low
<1>3. PICK h, l : h = Shr(v) /\ l = Low(v)
  OBVIOUS
<1>4. h \in Nat /\ l \in Nat /\ v = h * Byte + l
  BY <1>2, <1>3 DEF Splits
<1>5. PICK d, r : d = l \div Quarter /\ r = l % Quarter
  OBVIOUS
<1>6. d \in Nat /\ r \in 0 .. Quarter - 1 /\ l = d * Quarter + r
  BY <1>1, <1>4, <1>5, Division
<1>7. h * Byte = (h * 4) * Quarter
  BY <1>1, <1>4, Products
<1>8. (h * 4 + d) * Quarter = (h * 4) * Quarter + d * Quarter
  BY <1>1, <1>4, <1>6, Products
<1>9. v = (h * 4 + d) * Quarter + r
  <2>1. (h * 4) * Quarter \in Int /\ d * Quarter \in Int /\ r \in Int
    BY <1>1, <1>4, <1>6, Products
  <2> QED
    BY <1>4, <1>6, <1>7, <1>8, <2>1
<1>10. h * 4 + d \in Nat
  BY <1>4, <1>6
<1>11. v % Quarter = r
  BY <1>1, <1>6, <1>9, <1>10, Unique
<1> QED
  BY <1>2, <1>3, <1>5, <1>11

Shr2(v) == Shr(Shr(v))
Shr4(v) == Shr2(Shr2(v))
LowTwo(v)   == Low(Shr(v)) * Byte + Low(v)
LowFour(v)  == LowTwo(Shr2(v)) * Byte2 + LowTwo(v)
TopTwo(v)   == (Low(Shr(v)) % Quarter) * Byte + Low(v)
TopFour(v)  == TopTwo(Shr2(v)) * Byte2 + LowTwo(v)
TopEight(v) == TopFour(Shr4(v)) * Byte4 + LowFour(v)

\* two,
LEMMA TwoBytes ==
  ASSUME NEW v \in Nat
  PROVE  Splits(v, Shr2(v), Byte2, LowTwo(v)) /\ TopTwo(v) = v % Limit2
<1>1. Splits(v, Shr(v), Byte, Low(v))
  BY Shifts
<1>2. /\ (Shr(v) % Byte) * Byte + Low(v) = v % Byte2
      /\ v \div Byte2 = Shr(v) \div Byte
  BY <1>1, CutTo, WideLimits
<1>3. (Shr(v) % Quarter) * Byte + Low(v) = v % Limit2
  BY <1>1, CutTo, WideLimits
<1>4. LowTwo(v) = v % Byte2 /\ Shr2(v) = v \div Byte2
  BY <1>2 DEF LowTwo, Low, Shr2, Shr
<1>5. Splits(v, Shr2(v), Byte2, LowTwo(v))
  BY <1>4, Splitting, Widths
<1>6. Low(Shr(v)) % Quarter = Shr(v) % Quarter
  BY <1>1, Shifts DEF Splits
<1> QED
  BY <1>3, <1>5, <1>6 DEF TopTwo

\* four,
LEMMA FourBytes ==
  ASSUME NEW v \in Nat
  PROVE  Splits(v, Shr4(v), Byte4, LowFour(v)) /\ TopFour(v) = v % Limit4
<1>1. PICK w : w = Shr2(v)
  OBVIOUS
<1>2. Splits(v, w, Byte2, LowTwo(v)) /\ w \in Nat
  BY <1>1, TwoBytes DEF Splits
<1>3. /\ Splits(w, Shr2(w), Byte2, LowTwo(w)) /\ TopTwo(w) = w % Limit2
  BY <1>2, TwoBytes
<1>4. w % Byte2 = LowTwo(w) /\ w \div Byte2 = Shr2(w)
  BY <1>3, SplitAt
<1>5. /\ (w % Byte2) * Byte2 + LowTwo(v) = v % Byte4
      /\ v \div Byte4 = w \div Byte2
  BY <1>2, CutTo, WideLimits
<1>6. (w % Limit2) * Byte2 + LowTwo(v) = v % Limit4
  BY <1>2, CutTo, WideLimits
<1>7. LowFour(v) = v % Byte4 /\ Shr4(v) = v \div Byte4
  BY <1>1, <1>4, <1>5 DEF LowFour, Shr4
<1>8. TopFour(v) = v % Limit4
  BY <1>1, <1>3, <1>6 DEF TopFour
<1> QED
  BY <1>7, <1>8, Splitting, Widths

\* eight.
LEMMA EightBytes ==
  ASSUME NEW v \in Nat
  PROVE  TopEight(v) = v % Limit8
<1>1. PICK w : w = Shr4(v)
  OBVIOUS
<1>2. Splits(v, w, Byte4, LowFour(v)) /\ w \in Nat
  BY <1>1, FourBytes DEF Splits
<1>3. TopFour(w) = w % Limit4
  BY <1>2, FourBytes
<1>4. (w % Limit4) * Byte4 + LowFour(v) = v % Limit8
  BY <1>2, CutTo, WideLimits
<1> QED
  BY <1>1, <1>3, <1>4 DEF TopEight

-----------------------------------------------------------------------------
(* What is written. *)

LEMMA LowTyped ==
  ASSUME NEW v \in Nat
  PROVE  Shr(v) \in Nat /\ Low(v) \in Nat
  BY Shifts DEF Splits

LEMMA Digits2Facts ==
  ASSUME NEW v \in Nat
  PROVE  /\ Digits2(v) \in Seq(Nat) /\ Len(Digits2(v)) = 2
         /\ Digits2(v)[1] = Low(Shr(v)) /\ Digits2(v)[2] = Low(v)
  BY LowTyped DEF Digits2

LEMMA Digits4Facts ==
  ASSUME NEW v \in Nat
  PROVE  /\ Digits4(v) \in Seq(Nat) /\ Len(Digits4(v)) = 4
         /\ Digits4(v)[1] = Low(Shr(Shr2(v))) /\ Digits4(v)[2] = Low(Shr2(v))
         /\ Digits4(v)[3] = Low(Shr(v)) /\ Digits4(v)[4] = Low(v)
<1>1. PICK a, b : a = Digits2(Shr2(v)) /\ b = Digits2(v)
  OBVIOUS
<1>2. Shr2(v) \in Nat
  BY LowTyped DEF Shr2
<1>3. /\ a \in Seq(Nat) /\ b \in Seq(Nat) /\ Len(a) = 2 /\ Len(b) = 2
      /\ a[1] = Low(Shr(Shr2(v))) /\ a[2] = Low(Shr2(v))
      /\ b[1] = Low(Shr(v)) /\ b[2] = Low(v)
  BY <1>1, <1>2, Digits2Facts
<1>4. Digits4(v) = a \o b
  BY <1>1 DEF Digits4, Shr2
<1>5. PICK d : d = a \o b
  OBVIOUS
<1>6. /\ d \in Seq(Nat) /\ Len(d) = 4
      /\ \A i \in 1 .. 4 : d[i] = IF i <= 2 THEN a[i] ELSE b[i - 2]
  <2>1. /\ d \in Seq(Nat) /\ Len(d) = Len(a) + Len(b)
        /\ \A i \in 1 .. Len(a) + Len(b) : d[i] = IF i <= Len(a) THEN a[i] ELSE b[i - Len(a)]
    BY <1>3, <1>5, ConcatProperties, Zenon
  <2> QED
    BY <1>3, <2>1
<1>7. /\ d[1] = a[1] /\ d[2] = a[2]
      /\ d[3] = b[1] /\ d[4] = b[2]
  BY <1>6
<1> QED
  BY <1>3, <1>4, <1>5, <1>6, <1>7

LEMMA Digits8Facts ==
  ASSUME NEW v \in Nat, NEW w, w = Shr4(v)
  PROVE  /\ Digits8(v) \in Seq(Nat) /\ Len(Digits8(v)) = 8
         /\ Digits8(v)[1] = Low(Shr(Shr2(w))) /\ Digits8(v)[2] = Low(Shr2(w))
         /\ Digits8(v)[3] = Low(Shr(w)) /\ Digits8(v)[4] = Low(w)
         /\ Digits8(v)[5] = Low(Shr(Shr2(v))) /\ Digits8(v)[6] = Low(Shr2(v))
         /\ Digits8(v)[7] = Low(Shr(v)) /\ Digits8(v)[8] = Low(v)
<1>1. PICK a, b : a = Digits4(w) /\ b = Digits4(v)
  OBVIOUS
<1>2. w \in Nat
  BY LowTyped DEF Shr2, Shr4
<1>3. /\ a \in Seq(Nat) /\ b \in Seq(Nat) /\ Len(a) = 4 /\ Len(b) = 4
      /\ a[1] = Low(Shr(Shr2(w))) /\ a[2] = Low(Shr2(w))
      /\ a[3] = Low(Shr(w)) /\ a[4] = Low(w)
      /\ b[1] = Low(Shr(Shr2(v))) /\ b[2] = Low(Shr2(v))
      /\ b[3] = Low(Shr(v)) /\ b[4] = Low(v)
  BY <1>1, <1>2, Digits4Facts
<1>4. Digits8(v) = a \o b
  BY <1>1 DEF Digits8, Shr2, Shr4
<1>5. PICK d : d = a \o b
  OBVIOUS
<1>6. /\ d \in Seq(Nat) /\ Len(d) = 8
      /\ \A i \in 1 .. 8 : d[i] = IF i <= 4 THEN a[i] ELSE b[i - 4]
  <2>1. /\ d \in Seq(Nat) /\ Len(d) = Len(a) + Len(b)
        /\ \A i \in 1 .. Len(a) + Len(b) : d[i] = IF i <= Len(a) THEN a[i] ELSE b[i - Len(a)]
    BY <1>3, <1>5, ConcatProperties, Zenon
  <2> QED
    BY <1>3, <2>1
<1>7. /\ d[1] = a[1] /\ d[2] = a[2] /\ d[3] = a[3] /\ d[4] = a[4]
      /\ d[5] = b[1] /\ d[6] = b[2] /\ d[7] = b[3] /\ d[8] = b[4]
  BY <1>6
<1> QED
  BY <1>3, <1>4, <1>5, <1>6, <1>7

-----------------------------------------------------------------------------
(* What is read. *)

LengthOf(tag) == CASE tag = 0 -> 1 [] tag = 1 -> 2 [] tag = 2 -> 4 [] OTHER -> 8

\* A byte with a tag in front shows the tag and, below it, the value.
LEMMA TagFacts ==
  ASSUME NEW tag \in Nat, NEW x \in Nat
  PROVE  /\ tag * Quarter + (x % Quarter) \in Nat
         /\ (tag * Quarter + (x % Quarter)) \div Quarter = tag
         /\ (tag * Quarter + (x % Quarter)) % Quarter = x % Quarter
<1>1. Quarter \in Nat \ {0} /\ x % Quarter \in 0 .. Quarter - 1
  BY Widths, Division
<1>2. tag * Quarter \in Nat
  BY <1>1, NatProduct
<1>3. PICK r : r = x % Quarter
  OBVIOUS
<1>4. /\ (tag * Quarter + r) \div Quarter = tag
      /\ (tag * Quarter + r) % Quarter = r
  BY <1>1, <1>3, Unique
<1>5. tag * Quarter + r \in Nat
  BY <1>1, <1>2, <1>3
<1> QED
  BY <1>3, <1>4, <1>5

\* The tag replaces the top quarter of the first byte.
LEMMA TaggedFacts ==
  ASSUME NEW d \in Seq(Nat), d # <<>>, NEW tag \in Nat
  PROVE  /\ Tagged(tag, d) \in Seq(Nat) /\ Len(Tagged(tag, d)) = Len(d)
         /\ Tagged(tag, d)[1] \div Quarter = tag
         /\ Tagged(tag, d)[1] % Quarter = d[1] % Quarter
         /\ \A i \in 2 .. Len(d) : Tagged(tag, d)[i] = d[i]
<1>1. Len(d) \in Nat \ {0} /\ 1 \in 1 .. Len(d) /\ d[1] \in Nat
  BY EmptySeq, LenProperties
<1>2. PICK e : e = tag * Quarter + (d[1] % Quarter)
  OBVIOUS
<1>3. e \in Nat /\ e \div Quarter = tag /\ e % Quarter = d[1] % Quarter
  BY <1>1, <1>2, TagFacts
<1>4. Tagged(tag, d) = [d EXCEPT ![1] = e]
  BY <1>2 DEF Tagged
<1>5. /\ [d EXCEPT ![1] = e] \in Seq(Nat)
      /\ Len([d EXCEPT ![1] = e]) = Len(d)
      /\ \A j \in 1 .. Len(d) : [d EXCEPT ![1] = e][j] = IF j = 1 THEN e ELSE d[j]
  BY <1>1, <1>3, ExceptSeq
<1> QED
  BY <1>1, <1>3, <1>4, <1>5

ValueOf(tag, c) ==
  CASE tag = 0 -> c[1]
    [] tag = 1 -> Value2(c, 0)
    [] tag = 2 -> Value4(c, 0)
    [] OTHER   -> Value8(c)

\* The tag says how many bytes are read.
LEMMA ReadsTag ==
  ASSUME NEW b \in Seq(Nat), NEW tag \in 0 .. 3, b # <<>>, b[1] \div Quarter = tag
  PROVE  ReadVarint(b) =
           IF Len(b) < LengthOf(tag) THEN Incomplete
           ELSE [ok |-> TRUE, value |-> ValueOf(tag, [b EXCEPT ![1] = @ % Quarter]),
                 used |-> LengthOf(tag)]
  BY Zenon DEF ReadVarint, LengthOf, ValueOf

\* As long as a byte is missing.
LEMMA AsksForMore ==
  ASSUME NEW w \in Seq(Nat), w # <<>>, NEW tag \in 0 .. 3, w[1] \div Quarter = tag,
         Len(w) = LengthOf(tag), NEW n \in 0 .. LengthOf(tag) - 1
  PROVE  ReadVarint(SubSeq(w, 1, n)) = Incomplete
<1>1. LengthOf(tag) \in Nat
  BY DEF LengthOf
<1>2. CASE n = 0
  <2>1. SubSeq(w, 1, n) = <<>>
    BY <1>2, SubSeqEmpty
  <2> QED
    BY <2>1 DEF ReadVarint
<1>3. CASE n # 0
  <2>1. \A i \in 1 .. n : w[i] \in Nat
    BY <1>1, LenProperties
  <2>2. /\ SubSeq(w, 1, n) \in Seq(Nat) /\ Len(SubSeq(w, 1, n)) = n
        /\ SubSeq(w, 1, n)[1] = w[1]
    <3>1. /\ SubSeq(w, 1, n) \in Seq(Nat)
          /\ Len(SubSeq(w, 1, n)) = IF 1 <= n THEN n - 1 + 1 ELSE 0
          /\ \A i \in 1 .. n - 1 + 1 : SubSeq(w, 1, n)[i] = w[1 + i - 1]
      BY <1>1, <2>1, SubSeqProperties
    <3>2. 1 \in 1 .. n - 1 + 1 /\ n - 1 + 1 = n /\ 1 + 1 - 1 = 1
      BY <1>1, <1>3
    <3> QED
      BY <1>1, <1>3, <3>1, <3>2
  <2>3. SubSeq(w, 1, n) # <<>>
    BY <1>3, <2>2
  <2> QED
    <3>1. PICK b : b = SubSeq(w, 1, n)
      OBVIOUS
    <3>2. b \in Seq(Nat) /\ b # <<>> /\ b[1] \div Quarter = tag /\ Len(b) < LengthOf(tag)
      BY <1>1, <2>2, <2>3, <3>1
    <3>3. ReadVarint(b) = Incomplete
      BY <3>2, ReadsTag, Zenon
    <3> QED
      BY <3>1, <3>3
<1> QED
  BY <1>2, <1>3

\* The bytes whose value is computed.
Untagged(b) == [b EXCEPT ![1] = @ % Quarter]

\* With the tag away the digits are read.
LEMMA ReadsDigits ==
  ASSUME NEW d \in Seq(Nat), NEW tag \in 0 .. 3, Len(d) = LengthOf(tag), NEW next \in Nat
  PROVE  LET b == Append(Tagged(tag, d), next)
         IN /\ Untagged(b)[1] = d[1] % Quarter
            /\ \A i \in 2 .. LengthOf(tag) : Untagged(b)[i] = d[i]
            /\ ReadVarint(b) =
                 [ok |-> TRUE, value |-> ValueOf(tag, Untagged(b)), used |-> LengthOf(tag)]
<1> DEFINE w == Tagged(tag, d)
<1>0. PICK b, c : b = Append(w, next) /\ c = [b EXCEPT ![1] = @ % Quarter]
  OBVIOUS
<1>1. LengthOf(tag) \in Nat \ {0}
  BY DEF LengthOf
<1>2. d # <<>>
  BY <1>1
<1>3. /\ w \in Seq(Nat) /\ Len(w) = LengthOf(tag) /\ w[1] \div Quarter = tag
      /\ w[1] % Quarter = d[1] % Quarter
      /\ \A i \in 2 .. LengthOf(tag) : w[i] = d[i]
  BY <1>2, TaggedFacts
<1> HIDE DEF w
<1>4. /\ b \in Seq(Nat) /\ Len(b) = LengthOf(tag) + 1
      /\ \A i \in 1 .. LengthOf(tag) : b[i] = w[i]
  BY <1>0, <1>3, AppendProperties
<1>5. b # <<>> /\ 1 \in DOMAIN b /\ b[1] = w[1]
  BY <1>1, <1>4, LenProperties
<1>6. c[1] = d[1] % Quarter
  BY <1>0, <1>3, <1>5
<1>7. ASSUME NEW i \in 2 .. LengthOf(tag) PROVE c[i] = d[i]
  <2>1. i \in 1 .. LengthOf(tag) /\ i # 1 /\ i \in 1 .. Len(b)
    BY <1>1, <1>4
  <2>2. c[i] = b[i]
    BY <1>0, <1>4, <2>1, LenProperties
  <2> QED
    BY <1>3, <1>4, <2>1, <2>2
<1>8. ReadVarint(b) = [ok |-> TRUE, value |-> ValueOf(tag, c), used |-> LengthOf(tag)]
  <2>1. b[1] \div Quarter = tag /\ ~(Len(b) < LengthOf(tag))
    BY <1>1, <1>3, <1>4, <1>5
  <2> QED
    BY <1>0, <1>4, <1>5, <2>1, ReadsTag, Zenon
<1> QED
  BY <1>0, <1>6, <1>7, <1>8 DEF Untagged, w

-----------------------------------------------------------------------------
(* Every number. *)

\* The value the digits d, with the tag's bits cut off the first, are read as.
ReadAs(tag, d, value) ==
  \A c : c[1] = d[1] % Quarter /\ (\A i \in 2 .. LengthOf(tag) : c[i] = d[i])
           => ValueOf(tag, c) = value

\* What a form has to satisfy to be read back.
LEMMA FormRoundTrips ==
  ASSUME NEW v \in Nat, NEW tag \in 0 .. 3, NEW d \in Seq(Nat), Len(d) = LengthOf(tag),
         WriteVarint(v) = Tagged(tag, d), VarintSize(v) = LengthOf(tag),
         ReadAs(tag, d, v % Limit8)
  PROVE  RoundTrips(v)
<1>1. PICK w : w = Tagged(tag, d)
  OBVIOUS
<1>2. LengthOf(tag) \in Nat \ {0} /\ d # <<>>
  <2>1. LengthOf(tag) \in Nat \ {0}
    BY DEF LengthOf
  <2> QED
    BY <2>1
<1>3. w \in Seq(Nat) /\ Len(w) = LengthOf(tag) /\ w[1] \div Quarter = tag
  BY <1>1, <1>2, TaggedFacts
<1>4. w # <<>>
  BY <1>2, <1>3
<1>5. ASSUME NEW next \in Nat
      PROVE  ReadVarint(Append(w, next)) = [ok |-> TRUE, value |-> v % Limit8, used |-> LengthOf(tag)]
  <2>1. PICK c : c = Untagged(Append(w, next))
    OBVIOUS
  <2>2. /\ c[1] = d[1] % Quarter
        /\ \A i \in 2 .. LengthOf(tag) : c[i] = d[i]
        /\ ReadVarint(Append(w, next)) = [ok |-> TRUE, value |-> ValueOf(tag, c), used |-> LengthOf(tag)]
    BY <1>1, <2>1, ReadsDigits, Zenon
  <2>3. ValueOf(tag, c) = v % Limit8
    BY <2>2 DEF ReadAs
  <2> QED
    BY <2>2, <2>3
<1>6. \A n \in 0 .. LengthOf(tag) - 1 : ReadVarint(SubSeq(w, 1, n)) = Incomplete
  BY <1>3, <1>4, AsksForMore, Zenon
<1>7. {0, Byte - 1} \subseteq Nat
  BY Widths
<1> QED
  BY <1>1, <1>3, <1>5, <1>6, <1>7, Zenon DEF RoundTrips

LEMMA Remainder ==
  ASSUME NEW v \in Nat, NEW m \in Nat, v < m
  PROVE  v % m = v
  OBVIOUS

\* The form a number is written in, and its size.
LEMMA Forms ==
  ASSUME NEW v \in Nat
  PROVE  /\ v < Limit1 => VarintSize(v) = 1 /\ WriteVarint(v) = <<v>>
         /\ Limit1 <= v /\ v < Limit2 => VarintSize(v) = 2 /\ WriteVarint(v) = Tagged(1, Digits2(v))
         /\ Limit2 <= v /\ v < Limit4 => VarintSize(v) = 4 /\ WriteVarint(v) = Tagged(2, Digits4(v))
         /\ Limit4 <= v => VarintSize(v) = 8 /\ WriteVarint(v) = Tagged(3, Digits8(v))
<1>1. /\ Limit1 \in Nat /\ Limit2 \in Nat /\ Limit4 \in Nat
      /\ Limit1 <= Limit2 /\ Limit2 <= Limit4
  BY Widths
<1>2. v < Limit1 => VarintSize(v) = 1 /\ WriteVarint(v) = <<v>>
  <2>1. v < Limit1 => ~(v >= Limit1) /\ ~(v >= Limit2)
    BY <1>1
  <2> QED
    BY <2>1, Zenon DEF VarintSize, WriteVarint
<1>3. Limit1 <= v /\ v < Limit2 => VarintSize(v) = 2 /\ WriteVarint(v) = Tagged(1, Digits2(v))
  <2>1. Limit1 <= v /\ v < Limit2 => ~(v < Limit1) /\ v >= Limit1 /\ ~(v >= Limit2)
    BY <1>1
  <2> QED
    BY <2>1, Zenon DEF VarintSize, WriteVarint
<1>4. Limit2 <= v /\ v < Limit4 => VarintSize(v) = 4 /\ WriteVarint(v) = Tagged(2, Digits4(v))
  <2>1. Limit2 <= v /\ v < Limit4 => ~(v < Limit1) /\ ~(v < Limit2) /\ v >= Limit2
    BY <1>1
  <2> QED
    BY <2>1, Zenon DEF VarintSize, WriteVarint
<1>5. Limit4 <= v => VarintSize(v) = 8 /\ WriteVarint(v) = Tagged(3, Digits8(v))
  <2>1. Limit4 <= v => ~(v < Limit1) /\ ~(v < Limit2) /\ ~(v < Limit4)
    BY <1>1
  <2> QED
    BY <2>1, Zenon DEF VarintSize, WriteVarint
<1> QED
  BY <1>2, <1>3, <1>4, <1>5

\* The four forms, by the size of the number.
LEMMA OneByte ==
  ASSUME NEW v \in Nat, v < Limit1
  PROVE  RoundTrips(v)
<1>1. v < Quarter /\ Quarter \in Nat /\ v < Limit8 /\ Limit8 \in Nat
  BY Widths
<1>2. v % Quarter = v /\ v % Limit8 = v
  BY <1>1, Remainder
<1>3. PICK d : d = <<v>>
  OBVIOUS
<1>4. d \in Seq(Nat) /\ Len(d) = LengthOf(0) /\ d[1] = v
  BY <1>3 DEF LengthOf
<1>5. WriteVarint(v) = Tagged(0, d)
  <2>1. 0 * Quarter + (d[1] % Quarter) = v
    BY <1>1, <1>2, <1>4
  <2>2. Tagged(0, d) = [d EXCEPT ![1] = v]
    BY <2>1 DEF Tagged
  <2>3. [d EXCEPT ![1] = v] = d
    BY <1>3
  <2> QED
    BY <1>3, <2>2, <2>3, Forms
<1>6. VarintSize(v) = LengthOf(0)
  BY Forms DEF LengthOf
<1>7. ReadAs(0, d, v % Limit8)
  BY <1>2, <1>4 DEF ReadAs, ValueOf
<1> QED
  BY <1>4, <1>5, <1>6, <1>7, FormRoundTrips

LEMMA TwoByteForm ==
  ASSUME NEW v \in Nat, Limit1 <= v, v < Limit2
  PROVE  RoundTrips(v)
<1>1. PICK d : d = Digits2(v)
  OBVIOUS
<1>2. /\ d \in Seq(Nat) /\ Len(d) = 2
      /\ d[1] = Low(Shr(v)) /\ d[2] = Low(v)
  BY <1>1, Digits2Facts
<1>3. v % Limit2 = v /\ v % Limit8 = v
  BY Widths, Remainder
<1>4. ReadAs(1, d, v % Limit8)
  <2> SUFFICES ASSUME NEW c, c[1] = d[1] % Quarter, \A i \in 2 .. LengthOf(1) : c[i] = d[i]
               PROVE  ValueOf(1, c) = v
    BY <1>3 DEF ReadAs
  <2>1. c[2] = d[2]
    BY DEF LengthOf
  <2>2. ValueOf(1, c) = c[1] * Byte + c[2]
    BY DEF ValueOf, Value2
  <2>3. ValueOf(1, c) = TopTwo(v)
    BY <1>2, <2>1, <2>2, Zenon DEF TopTwo
  <2> QED
    BY <1>3, <2>3, TwoBytes
<1>5. WriteVarint(v) = Tagged(1, d) /\ VarintSize(v) = LengthOf(1) /\ Len(d) = LengthOf(1)
  BY <1>1, <1>2, Forms DEF LengthOf
<1> QED
  BY <1>2, <1>4, <1>5, FormRoundTrips

LEMMA FourByteForm ==
  ASSUME NEW v \in Nat, Limit2 <= v, v < Limit4
  PROVE  RoundTrips(v)
<1>1. PICK d : d = Digits4(v)
  OBVIOUS
<1>2. /\ d \in Seq(Nat) /\ Len(d) = 4
      /\ d[1] = Low(Shr(Shr2(v))) /\ d[2] = Low(Shr2(v))
      /\ d[3] = Low(Shr(v)) /\ d[4] = Low(v)
  BY <1>1, Digits4Facts
<1>3. v % Limit4 = v /\ v % Limit8 = v
  BY Widths, Remainder
<1>4. ReadAs(2, d, v % Limit8)
  <2> SUFFICES ASSUME NEW c, c[1] = d[1] % Quarter, \A i \in 2 .. LengthOf(2) : c[i] = d[i]
               PROVE  ValueOf(2, c) = v
    BY <1>3 DEF ReadAs
  <2>1. c[2] = d[2] /\ c[3] = d[3] /\ c[4] = d[4]
    BY DEF LengthOf
  <2>2. ValueOf(2, c) = (c[1] * Byte + c[2]) * Byte2 + (c[3] * Byte + c[4])
    BY DEF ValueOf, Value4, Value2
  <2>3. ValueOf(2, c) = TopFour(v)
    BY <1>2, <2>1, <2>2, Zenon DEF TopFour, TopTwo, LowTwo
  <2> QED
    BY <1>3, <2>3, FourBytes
<1>5. WriteVarint(v) = Tagged(2, d) /\ VarintSize(v) = LengthOf(2) /\ Len(d) = LengthOf(2)
  BY <1>1, <1>2, Forms DEF LengthOf
<1> QED
  BY <1>2, <1>4, <1>5, FormRoundTrips

\* Also a number that eight bytes cannot hold.
LEMMA EightByteForm ==
  ASSUME NEW v \in Nat, Limit4 <= v
  PROVE  RoundTrips(v)
<1>1. PICK d, w : d = Digits8(v) /\ w = Shr4(v)
  OBVIOUS
<1>2. /\ d \in Seq(Nat) /\ Len(d) = 8
      /\ d[1] = Low(Shr(Shr2(w))) /\ d[2] = Low(Shr2(w))
      /\ d[3] = Low(Shr(w)) /\ d[4] = Low(w)
      /\ d[5] = Low(Shr(Shr2(v))) /\ d[6] = Low(Shr2(v))
      /\ d[7] = Low(Shr(v)) /\ d[8] = Low(v)
  BY <1>1, Digits8Facts
<1>4. ReadAs(3, d, v % Limit8)
  <2> SUFFICES ASSUME NEW c, c[1] = d[1] % Quarter, \A i \in 2 .. LengthOf(3) : c[i] = d[i]
               PROVE  ValueOf(3, c) = v % Limit8
    BY DEF ReadAs
  <2>1. c[2] = d[2] /\ c[3] = d[3] /\ c[4] = d[4] /\ c[5] = d[5] /\ c[6] = d[6]
        /\ c[7] = d[7] /\ c[8] = d[8]
    BY DEF LengthOf
  <2>2. ValueOf(3, c) = ((c[1] * Byte + c[2]) * Byte2 + (c[3] * Byte + c[4])) * Byte4
                          + ((c[5] * Byte + c[6]) * Byte2 + (c[7] * Byte + c[8]))
    BY DEF ValueOf, Value8, Value4, Value2
  <2>3. (c[1] * Byte + c[2]) * Byte2 + (c[3] * Byte + c[4]) = TopFour(w)
    BY <1>2, <2>1, Zenon DEF TopFour, TopTwo, LowTwo
  <2>4. (c[5] * Byte + c[6]) * Byte2 + (c[7] * Byte + c[8]) = LowFour(v)
    BY <1>2, <2>1, Zenon DEF LowFour, LowTwo
  <2>5. ValueOf(3, c) = TopEight(v)
    BY <1>1, <2>2, <2>3, <2>4, Zenon DEF TopEight
  <2> QED
    BY <2>5, EightBytes
<1>5. WriteVarint(v) = Tagged(3, d) /\ VarintSize(v) = LengthOf(3) /\ Len(d) = LengthOf(3)
  BY <1>1, <1>2, Forms DEF LengthOf
<1> QED
  BY <1>2, <1>4, <1>5, FormRoundTrips

\* read_varint gives back what write_varint wrote of any number, without the upper two
\* bits of a u64 that has them; it takes the bytes that were written and no others, and
\* asks for more while one of them is missing.
THEOREM EveryNumberRoundTrips == \A v \in Nat : RoundTrips(v)
<1> SUFFICES ASSUME NEW v \in Nat PROVE RoundTrips(v)
  OBVIOUS
<1>1. v < Limit1 \/ (Limit1 <= v /\ v < Limit2) \/ (Limit2 <= v /\ v < Limit4) \/ Limit4 <= v
  BY Widths
<1> QED
  BY <1>1, OneByte, TwoByteForm, FourByteForm, EightByteForm

-----------------------------------------------------------------------------
(* The encoder and the parser. *)

\* Lengths and samples survive write_varint and read_varint on every stream.
THEOREM NumbersSurvive == Spec => []NumbersReadBack
<1>1. VarintsRoundTrip
  <2>1. \A v \in Samples : v \in Nat
    BY VarintArguments
  <2> QED
    BY <2>1, EveryNumberRoundTrips DEF VarintsRoundTrip
<1>2. ASSUME TypeOK PROVE \A f \in Sent : RoundTrips(f.len)
  <2> SUFFICES ASSUME NEW f \in Sent PROVE RoundTrips(f.len)
    OBVIOUS
  <2>1. f \in SentFrames
    BY <1>2, StreamFacts DEF TypeOK, Sent
  <2> QED
    BY <2>1, FrameFacts, EveryNumberRoundTrips
<1>3. TypeOK => NumbersReadBack
  BY <1>1, <1>2 DEF NumbersReadBack
<1> QED
  BY <1>3, ParserStaysTyped, PTL

\* The function SumOf is defined by.
Sums(f, sizes, top) == f = [i \in 0 .. top |-> IF i = 0 THEN 0 ELSE sizes[i] + f[i - 1]]

LEMMA SumOfOne ==
  ASSUME NEW n \in Nat
  PROVE  SumOf(<<n>>) = n
<1> DEFINE f == CHOOSE g : Sums(g, <<n>>, 1)
<1>1. \E g : Sums(g, <<n>>, 1)
  <2> DEFINE g == [i \in 0 .. 1 |-> IF i = 0 THEN 0 ELSE n]
  <2>1. \A i \in 0 .. 1 : g[i] = IF i = 0 THEN 0 ELSE <<n>>[i] + g[i - 1]
    OBVIOUS
  <2>2. g = [i \in 0 .. 1 |-> g[i]]
    OBVIOUS
  <2> HIDE DEF g
  <2>3. Sums(g, <<n>>, 1)
    BY <2>1, <2>2 DEF Sums
  <2> QED
    BY <2>3
<1>2. Sums(f, <<n>>, 1)
  BY <1>1
<1>3. SumOf(<<n>>) = f[1]
  <2>1. Len(<<n>>) = 1
    OBVIOUS
  <2>2. SumOf(<<n>>) = (CHOOSE g : Sums(g, <<n>>, Len(<<n>>)))[Len(<<n>>)]
    BY Zenon DEF SumOf, Sums
  <2> QED
    BY <2>1, <2>2, Zenon
<1> HIDE DEF f
<1>4. f[1] = <<n>>[1] + f[0] /\ f[0] = 0
  BY <1>2 DEF Sums
<1> QED
  BY <1>3, <1>4

\* The frames encode_frame can be given, settings in the order of the map.
Ids == {"CancelPush", "PushPromise", "Goaway", "MaxPushId"}
H3Frames ==
  [type : {"Data"}, data : Nat] \cup [type : {"Headers"}]
    \cup [type : Ids, id : Nat] \cup [type : {"Settings"}, settings : Seq(Nat \X Nat)]

LEMMA SizeTyped ==
  ASSUME NEW v \in Nat
  PROVE  VarintSize(v) \in Nat \ {0}
<1>1. v < Limit1 \/ (Limit1 <= v /\ v < Limit2) \/ (Limit2 <= v /\ v < Limit4) \/ Limit4 <= v
  BY Widths
<1> QED
  BY <1>1, Forms

\* What encode_frame writes has a known type and a payload the parser accepts.
LEMMA EncodedIsAccepted ==
  ASSUME NEW h \in H3Frames
  PROVE  LET e == EncodeFrame(h)
         IN e.type \in FrameType /\ PayloadOk(e.type, e.len, e.varints)
<1>1. CASE h \in [type : {"Data"}, data : Nat] \cup [type : {"Headers"}]
  <2>1. h.type \in {"Data", "Headers"}
    BY <1>1
  <2> QED
    BY <2>1, Zenon DEF EncodeFrame, PayloadOk, FrameType
<1>2. CASE h \in [type : Ids, id : Nat]
  <2>1. PICK n : n = VarintSize(h.id)
    OBVIOUS
  <2>2. n \in Nat /\ h.type \in Ids
    BY <1>2, <2>1, SizeTyped
  <2>3. h.type \notin {"Data", "Headers"} /\ h.type # "Settings" /\ h.type # "Data" /\ h.type \in FrameType
    BY <2>2 DEF Ids, FrameType
  <2>4. PayloadVarints(h) = <<n>>
    BY <2>1, <2>3, Zenon DEF PayloadVarints
  <2>5. EncodeFrame(h).type = h.type /\ EncodeFrame(h).len = n /\ EncodeFrame(h).varints = <<n>>
    BY <2>2, <2>3, <2>4, SumOfOne DEF EncodeFrame
  <2>6. <<n>> # <<>> /\ <<n>>[1] <= n
    BY <2>2
  <2>7. PayloadOk(h.type, n, <<n>>)
    BY <2>3, <2>6, Zenon DEF PayloadOk
  <2> QED
    BY <2>3, <2>5, <2>7
<1>3. CASE h \in [type : {"Settings"}, settings : Seq(Nat \X Nat)]
  <2>1. PICK k : k = 2 * Len(h.settings)
    OBVIOUS
  <2>2. h.type = "Settings" /\ h.type \notin {"Data", "Headers"} /\ h.type # "Data"
    BY <1>3
  <2>3. k \in Nat /\ k % 2 = 0
    <3>1. PICK q : q = Len(h.settings)
      OBVIOUS
    <3>2. q \in Nat
      BY <1>3, <3>1
    <3>3. (q * 2 + 0) % 2 = 0
      BY <3>2, Unique
    <3>4. k = q * 2 + 0
      BY <2>1, <3>1, <3>2
    <3> QED
      BY <3>2, <3>3, <3>4
  <2>4. PICK varints : varints = PayloadVarints(h)
    OBVIOUS
  <2>5. Len(varints) = k
    <3>1. varints = [i \in 1 .. k |-> VarintSize(h.settings[(i + 1) \div 2][IF i % 2 = 1 THEN 1 ELSE 2])]
      BY <2>1, <2>2, <2>4, Zenon DEF PayloadVarints
    <3> QED
      BY <2>3, <3>1
  <2>6. EncodeFrame(h).type = h.type /\ EncodeFrame(h).len = SumOf(varints) /\ EncodeFrame(h).varints = varints
    BY <2>2, <2>4, Zenon DEF EncodeFrame
  <2>7. k \in 0 .. Len(varints)
    BY <2>3, <2>5
  <2>8. PayloadOk(h.type, SumOf(varints), varints)
    BY <2>2, <2>3, <2>5, <2>7, Zenon DEF PayloadOk, SumOf
  <2> QED
    BY <2>2, <2>6, <2>8 DEF FrameType
<1> QED
  BY <1>1, <1>2, <1>3 DEF H3Frames

\* The frames are laid out from what encode_frame made.
Encoded(frames) ==
  \A i \in DOMAIN frames :
    \E h \in H3Frames :
      LET e == EncodeFrame(h)
      IN /\ frames[i].type = e.type /\ frames[i].len = e.len /\ frames[i].varints = e.varints
         /\ frames[i].typeLen = e.typeLen /\ frames[i].lenLen = e.lenLen

\* A stream of frames written by encode_frame, none larger than the parser's
\* max_frame_size, is one without faults: those are the streams of which FramesArrive
\* says that every frame reaches the application.
THEOREM EncodedIsFaultless ==
  \A frames : Encoded(frames) /\ (\A i \in DOMAIN frames : frames[i].len <= MaxFrameSize)
                => Faultless(frames)
<1> SUFFICES ASSUME NEW frames, Encoded(frames), \A i \in DOMAIN frames : frames[i].len <= MaxFrameSize,
                    NEW i \in DOMAIN frames
             PROVE  /\ frames[i].type \in FrameType /\ frames[i].len <= MaxFrameSize
                    /\ PayloadOk(frames[i].type, frames[i].len, frames[i].varints)
  BY DEF Faultless
<1>1. PICK h \in H3Frames : LET e == EncodeFrame(h)
                            IN frames[i].type = e.type /\ frames[i].len = e.len /\ frames[i].varints = e.varints
  BY DEF Encoded
<1> QED
  BY <1>1, EncodedIsAccepted
=============================================================================
