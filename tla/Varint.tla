-------------------------------- MODULE Varint --------------------------------
(***************************************************************************)
(* The variable-length integers of protocol/frame.rs.  A byte has a tag    *)
(* of four values in front of Quarter values: 64 in the code, less where   *)
(* TLC is to reach the largest numbers.  Bytes are numbers, a buffer is a  *)
(* sequence of them, and a shift by eight bits divides by Byte.            *)
(***************************************************************************)
EXTENDS Integers, Sequences

CONSTANTS Quarter,   \* 64
          Samples    \* the numbers to be written and read

Byte  == 4 * Quarter
Bytes == 0 .. Byte - 1

Shr(v) == v \div Byte   \* v >> 8
Low(v) == v % Byte      \* v as u8

Byte2 == Byte * Byte
Byte4 == Byte2 * Byte2

\* The numbers below these take one, two, four and eight bytes.
Limit1 == Quarter
Limit2 == Quarter * Byte
Limit4 == Quarter * Byte * Byte2
Limit8 == Quarter * Byte * Byte2 * Byte4

\* A u64 may be four times as large as what eight bytes hold.
ASSUME VarintArguments ==
  /\ Quarter \in Nat \ {0}
  /\ Samples \subseteq 0 .. Byte4 * Byte4 - 1

VarintSize(v) ==
  CASE v < Limit1 -> 1
    [] v >= Limit1 /\ v < Limit2 -> 2
    [] v >= Limit2 /\ v < Limit4 -> 4
    [] OTHER -> 8

\* The low n bytes of v, the first the most significant.
Digits2(v) == <<Low(Shr(v)), Low(v)>>
Digits4(v) == Digits2(Shr(Shr(v))) \o Digits2(v)
Digits8(v) == Digits4(Shr(Shr(Shr(Shr(v))))) \o Digits4(v)

\* tag | byte: the tag's bits replace no others below Quarter, and win above it.
Tagged(tag, digits) == [digits EXCEPT ![1] = tag * Quarter + (@ % Quarter)]

\* Faulty: takes the two-byte form for one number too many.
WriteLongTwo(v) ==
  CASE v < Limit1 -> <<v>>
    [] v >= Limit1 /\ v <= Limit2 -> Tagged(1, Digits2(v))
    [] v > Limit2 /\ v < Limit4 -> Tagged(2, Digits4(v))
    [] OTHER -> Tagged(3, Digits8(v))

WriteVarint(v) ==
  CASE v < Limit1 -> <<v>>
    [] v >= Limit1 /\ v < Limit2 -> Tagged(1, Digits2(v))
    [] v >= Limit2 /\ v < Limit4 -> Tagged(2, Digits4(v))
    [] OTHER -> Tagged(3, Digits8(v))

Incomplete == [ok |-> FALSE]

\* What value = (value << 8) | byte makes of the bytes after the i-th.
Value2(b, i) == b[i + 1] * Byte + b[i + 2]
Value4(b, i) == Value2(b, i) * Byte2 + Value2(b, i + 2)
Value8(b)    == Value4(b, 0) * Byte4 + Value4(b, 4)

ReadVarint(buffer) ==
  LET tag    == buffer[1] \div Quarter
      length == CASE tag = 0 -> 1 [] tag = 1 -> 2 [] tag = 2 -> 4 [] OTHER -> 8
      b      == [buffer EXCEPT ![1] = @ % Quarter]
      value  == CASE tag = 0 -> b[1]
                  [] tag = 1 -> Value2(b, 0)
                  [] tag = 2 -> Value4(b, 0)
                  [] OTHER   -> Value8(b)
  IN IF buffer = <<>> \/ Len(buffer) < length
     THEN Incomplete
     ELSE [ok |-> TRUE, value |-> value, used |-> length]

-----------------------------------------------------------------------------
\* What is written is read back, and no byte after it is consumed; as long as a
\* byte of it is missing the reader asks for more; varint_size, from which the
\* serialized size is computed, is the number of bytes written.
RoundTrips(v) ==
  LET written == WriteVarint(v)
  IN /\ Len(written) = VarintSize(v)
     /\ \A next \in {0, Byte - 1} :
          ReadVarint(Append(written, next)) = [ok |-> TRUE, value |-> v % Limit8, used |-> VarintSize(v)]
     /\ \A n \in 0 .. VarintSize(v) - 1 : ReadVarint(SubSeq(written, 1, n)) = Incomplete

\* Every u64 survives write_varint and read_varint, except that a number eight
\* bytes cannot hold loses its upper two bits, without an error: write_varint has
\* neither a check nor a result.
VarintsRoundTrip == \A v \in Samples : RoundTrips(v)
=============================================================================
