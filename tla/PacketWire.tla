----------------------------- MODULE PacketWire -----------------------------
(***************************************************************************)
(* How transport/packet.rs writes packet headers and ACK frames, and reads *)
(* them.  A header is a sequence of bytes.  Its first byte is the one the  *)
(* code writes; the others have Base values, 256 in the code, less where   *)
(* TLC is to reach the limit of a 32-bit number.  An ACK frame is its type *)
(* and a sequence of 64-bit words.                                         *)
(***************************************************************************)
EXTENDS Integers, Sequences

CONSTANTS Base,    \* values of a byte
          IdLen    \* bytes of a connection id, 16

ASSUME WireArguments == Base \in Nat \ {0, 1} /\ IdLen \in 1 .. Base - 1

NoId == <<>>

PacketTypes ==
  {"Initial", "ZeroRTT", "Handshake", "Retry", "OneRTT", "VersionNegotiation"}

LongTypes == {"Initial", "ZeroRTT", "Handshake", "Retry"}

\* packet_type as u8
TypeByte(type) ==
  CASE type = "Initial" -> 128    [] type = "ZeroRTT" -> 129  [] type = "Handshake" -> 130
    [] type = "Retry" -> 131      [] type = "OneRTT" -> 64    [] type = "VersionNegotiation" -> 0

\* Only the upper four bits are looked at.
FromByte(byte) ==
  LET high == byte \div 16
  IN CASE high = 8 -> "Initial"   [] high = 9 -> "ZeroRTT"
       [] high = 10 -> "Handshake" [] high = 11 -> "Retry"
       [] high \in 4 .. 7 -> "OneRTT"
       [] high = 0 -> "VersionNegotiation"
       [] OTHER -> "none"

Limit32 == Base * Base * Base * Base
Shr(n) == n \div Base   \* n >> 8
U32(n) == <<Shr(Shr(Shr(n))) % Base, Shr(Shr(n)) % Base, Shr(n) % Base, n % Base>>
FromU32(b) == ((b[1] * Base + b[2]) * Base + b[3]) * Base + b[4]

\* Faulty: writes nothing for a missing source id.
HeaderWithoutGap(h) ==
  <<TypeByte(h.type)>>
  \o (CASE h.type \in LongTypes ->
             U32(IF h.version = -1 THEN 1 ELSE h.version) \o <<IdLen>> \o h.id
             \o (IF h.source = NoId THEN <<>> ELSE <<IdLen>> \o h.source)
        [] h.type = "OneRTT" -> h.id
        [] h.type = "VersionNegotiation" -> U32(0) \o <<IdLen>> \o h.id)
  \o U32(h.number)

\* PacketHeader::encode: the number keeps its low 32 bits.
EncodeHeader(h) ==
  <<TypeByte(h.type)>>
  \o (CASE h.type \in LongTypes ->
             U32(IF h.version = -1 THEN 1 ELSE h.version) \o <<IdLen>> \o h.id
             \o (IF h.source = NoId THEN <<0>> ELSE <<IdLen>> \o h.source)
        [] h.type = "OneRTT" -> h.id
        [] h.type = "VersionNegotiation" -> U32(0) \o <<IdLen>> \o h.id)
  \o U32(h.number)

\* The n bytes after the first i, and whether they are there.
Part(data, i, n) == SubSeq(data, i + 1, i + n)
Has(data, i, n) == Len(data) >= i + n

\* An id read from n bytes: the rest of its IdLen bytes are zero.
IdFrom(bytes) == [i \in 1 .. IdLen |-> IF i <= Len(bytes) THEN bytes[i] ELSE 0]
ZeroId == IdFrom(<<>>)

Refused == [ok |-> FALSE]

\* A length and that many bytes.  A length above IdLen is skipped without its
\* bytes, which are then read as what follows.
ReadId(data, i, missing) ==
  IF ~Has(data, i, 1) THEN Refused
  ELSE LET n == data[i + 1]
       IN CASE n = 0 -> [ok |-> TRUE, id |-> missing, at |-> i + 1]
            [] n > 0 /\ ~Has(data, i + 1, n) -> Refused
            [] n > IdLen /\ Has(data, i + 1, n) -> [ok |-> TRUE, id |-> missing, at |-> i + 1]
            [] OTHER -> [ok |-> TRUE, id |-> IdFrom(Part(data, i + 1, n)), at |-> i + 1 + n]

\* The number is read if it is there; a header without one has number 0.
Numbered(data, i, type, version, id, source) ==
  LET there == Has(data, i, 4)
  IN [ok |-> TRUE, used |-> IF there THEN i + 4 ELSE i,
      header |-> [type |-> type, version |-> version, id |-> id, source |-> source,
                  number |-> IF there THEN FromU32(Part(data, i, 4)) ELSE 0]]

DecodeLong(data, type) ==
  LET id     == ReadId(data, 5, ZeroId)
      source == ReadId(data, id.at, NoId)
  IN IF ~Has(data, 1, 4) \/ ~id.ok \/ ~source.ok
     THEN Refused
     ELSE Numbered(data, source.at, type, FromU32(Part(data, 1, 4)), id.id, source.id)

DecodeShort(data, type) ==
  IF ~Has(data, 1, IdLen) THEN Refused
  ELSE Numbered(data, 1 + IdLen, type, -1, Part(data, 1, IdLen), NoId)

\* Here an id that is not all there is not an error.
DecodeNegotiation(data, type) ==
  LET id == ReadId(data, 5, ZeroId)
  IN CASE ~Has(data, 1, 5) -> Refused
       [] Has(data, 1, 5) /\ ~id.ok -> Numbered(data, 6, type, FromU32(Part(data, 1, 4)), ZeroId, NoId)
       [] OTHER -> Numbered(data, id.at, type, FromU32(Part(data, 1, 4)), id.id, NoId)

\* PacketHeader::decode
DecodeHeader(data) ==
  LET type == FromByte(data[1])
  IN IF data = <<>> \/ type = "none" THEN Refused
     ELSE CASE type \in LongTypes -> DecodeLong(data, type)
            [] type = "OneRTT" -> DecodeShort(data, type)
            [] type = "VersionNegotiation" -> DecodeNegotiation(data, type)

-----------------------------------------------------------------------------
AckFrameType == 2

\* AckFrame::encode: the delay in microseconds, then the ranges.
EncodeAck(ack) ==
  [type  |-> AckFrameType,
   words |-> <<ack.largest, ack.delay \div 1000, Len(ack.ranges)>>
             \o [i \in 1 .. 2 * Len(ack.ranges) |->
                   LET r == ack.ranges[(i + 1) \div 2]
                   IN IF i % 2 = 1 THEN r.first ELSE r.last]]

\* AckFrame::decode, without the allocation for as many ranges as the frame says,
\* which it makes before it sees whether they are there.
DecodeAck(frame) ==
  IF frame.type # AckFrameType \/ Len(frame.words) < 3 \/ Len(frame.words) < 3 + 2 * frame.words[3]
  THEN Refused
  ELSE [ok |-> TRUE, largest |-> frame.words[1], delay |-> frame.words[2] * 1000,
        ranges |-> [i \in 1 .. frame.words[3] |->
                      [first |-> frame.words[2 + 2 * i], last |-> frame.words[3 + 2 * i]]]]

-----------------------------------------------------------------------------
\* The types whose first byte from_byte tells apart.  Those of ZeroRTT, Handshake
\* and Retry differ from Initial's in bits it does not look at: a fault of the
\* code (packet.rs:36), which loses the type of such a header and nothing else.
TypesKept == {"Initial", "OneRTT", "VersionNegotiation"}

\* A long header without a version is written with version 1, a short one has
\* none, and version negotiation is version 0.
VersionRead(h) ==
  CASE h.type \in LongTypes -> IF h.version = -1 THEN 1 ELSE h.version
    [] h.type = "OneRTT" -> -1
    [] h.type = "VersionNegotiation" -> 0

\* What is written is read back whatever payload follows, and the payload begins
\* where the reader stops: the ids, the version, the number modulo 2^32, and the
\* type if it is one of TypesKept.  Cut anywhere, the bytes never read as a
\* header longer than they are.
HeaderReadsBack(h, payload) ==
  LET data == EncodeHeader(h) \o payload
      read == DecodeHeader(data)
  IN /\ read.ok
     /\ Part(data, read.used, Len(data) - read.used) = payload
     /\ h.type \in TypesKept => read.header.type = h.type
     /\ read.header.version = VersionRead(h)
     /\ read.header.id = h.id
     /\ read.header.number = h.number % Limit32
     /\ h.type \in LongTypes => read.header.source = h.source
     /\ \A n \in 1 .. Len(data) :
          LET cut == DecodeHeader(SubSeq(data, 1, n)) IN cut.ok => cut.used <= n

\* The ranges and the largest number are read back; the delay is cut to
\* microseconds.  An ACK frame that lost bytes is refused.
AckReadsBack(ack) ==
  LET frame == EncodeAck(ack)
      read  == DecodeAck(frame)
  IN /\ read.ok
     /\ read.largest = ack.largest /\ read.ranges = ack.ranges
     /\ read.delay = (ack.delay \div 1000) * 1000
     /\ \A n \in 0 .. Len(frame.words) - 1 :
          ~DecodeAck([frame EXCEPT !.words = SubSeq(@, 1, n)]).ok
=============================================================================
