----------------------------- MODULE FrameParser -----------------------------
(***************************************************************************)
(* The incremental frame parser of protocol/frame.rs, fed with the bytes   *)
(* of one stream after another, cut anywhere.                              *)
(*                                                                         *)
(* A byte is its position in the stream.  The buffer is always a run of    *)
(* consecutive bytes, those from head up to tail, so two numbers stand for *)
(* it: extend_from_slice moves tail, advance and split_to move head.  What *)
(* the parser reads at a position is what the peer's frames put there.     *)
(*                                                                         *)
(* parse_frames collects frames in a local vector while it loops, so it is *)
(* one step to enter it and one for each turn of the loop; &mut self keeps *)
(* every other call out until it returns.                                  *)
(***************************************************************************)
EXTENDS Integers, Sequences

CONSTANTS Streams,         \* the sequences of frames a peer may send
          MaxFrameSize,    \* FrameParser::max_frame_size
          MaxBufferSize,   \* FrameParser::max_buffer_size
          MaxChunk         \* bound on the bytes offered in one call

FrameType == {"Data", "Headers", "CancelPush", "Settings", "PushPromise",
              "Goaway", "MaxPushId"}

\* A frame as the peer sent it: where it starts, the bytes its type and its
\* length take, the bytes of its payload, and the sizes announced by the
\* varints one reads when one reads the payload as varints.  A type may be one
\* the parser does not know.
SentFrames ==
  [type : FrameType \cup {"Unknown"}, start : Nat, typeLen : Nat \ {0},
   lenLen : Nat \ {0}, len : Nat, varints : Seq(Nat \ {0})]

PayloadStart(f) == f.start + f.typeLen + f.lenLen
FrameEnd(f)     == PayloadStart(f) + f.len

\* The frames of a stream follow each other without a gap, so each lies before
\* all later ones.
LaidOut(frames) ==
  \A i \in DOMAIN frames :
    /\ frames[i].start = IF i = 1 THEN 0 ELSE FrameEnd(frames[i - 1])
    /\ \A j \in DOMAIN frames : i < j => FrameEnd(frames[i]) <= frames[j].start

ASSUME ParserArguments ==
  /\ Streams \subseteq Seq(SentFrames)
  /\ \A s \in Streams : s # <<>> /\ LaidOut(s)
  /\ MaxFrameSize \in Nat
  /\ MaxBufferSize \in Nat
  /\ MaxChunk \in Nat

VARIABLES
  sent,     \* the frames of the current stream
  head,     \* bytes removed from the buffer so far
  tail,     \* bytes appended to the buffer so far
  state,    \* ParserState
  call,     \* "parse_frames" while that loop runs
  batch,    \* its local vector
  result,   \* how the last call or turn of the loop ended
  handed,   \* the frames returned to the application
  removed,  \* history: payloads split off the buffer
  failed    \* history: an error was returned since the stream began

vars == <<sent, head, tail, state, call, batch, result, handed, removed, failed>>

Total(frames) == FrameEnd(frames[Len(frames)])
Sent == {sent[i] : i \in DOMAIN sent}

WaitingHeader == [name |-> "WaitingHeader"]
ReadingPayload(type, length) ==
  [name |-> "ReadingPayload", type |-> type, length |-> length]

Waiting(p) == p.state.name = "WaitingHeader"

Init ==
  /\ sent \in Streams
  /\ head = 0 /\ tail = 0
  /\ state = WaitingHeader
  /\ call = "none" /\ batch = <<>> /\ result = "none"
  /\ handed = <<>> /\ removed = 0 /\ failed = FALSE

-----------------------------------------------------------------------------
(* One turn of the parsing loop, on p = [head, tail, state].               *)

Buffered(p) == p.tail - p.head

\* The frame whose header is at the front.  Bytes that begin no frame of the
\* peer read as some header nobody sent; a type nobody knows stands for it.
AtFront(p) ==
  IF \E f \in Sent : f.start = p.head
  THEN CHOOSE f \in Sent : f.start = p.head
  ELSE [type |-> "Unknown", start |-> p.head, typeLen |-> 1, lenLen |-> 1,
        len |-> 0, varints |-> <<>>]

HeaderLen(f) == f.typeLen + f.lenLen

\* Faulty: waits for one more byte than a header may need.
HeaderReadLate(p) ==
  LET f == AtFront(p)
  IN IF Buffered(p) < 3 \/ Buffered(p) < f.typeLen THEN "more"
     ELSE IF f.type \notin FrameType THEN "error"
     ELSE IF Buffered(p) < HeaderLen(f) THEN "more"
     ELSE IF f.len > MaxFrameSize THEN "error"
     ELSE "ok"

\* The type is judged before the length has been read, and the length before
\* the header is removed.
HeaderRead(p) ==
  LET f == AtFront(p)
  IN IF Buffered(p) < 2 \/ Buffered(p) < f.typeLen THEN "more"
     ELSE IF f.type \notin FrameType THEN "error"
     ELSE IF Buffered(p) < HeaderLen(f) THEN "more"
     ELSE IF f.len > MaxFrameSize THEN "error"
     ELSE "ok"

\* Faulty: the header is read in place and stays in the buffer.
HeaderKept(p) ==
  IF Waiting(p) /\ HeaderRead(p) = "ok"
  THEN [p EXCEPT !.state = ReadingPayload(AtFront(p).type, AtFront(p).len)]
  ELSE p

\* Faulty: removes what it read of a header it then refuses.
HeaderDropped(p) ==
  IF Waiting(p) /\ HeaderRead(p) = "ok"
  THEN [p EXCEPT !.state = ReadingPayload(AtFront(p).type, AtFront(p).len),
                 !.head = @ + HeaderLen(AtFront(p))]
  ELSE IF Waiting(p) /\ HeaderRead(p) = "error"
       THEN [p EXCEPT !.head = @ + AtFront(p).typeLen]
       ELSE p

TryParseHeader(p) ==
  IF Waiting(p) /\ HeaderRead(p) = "ok"
  THEN [p EXCEPT !.state = ReadingPayload(AtFront(p).type, AtFront(p).len),
                 !.head = @ + HeaderLen(AtFront(p))]
  ELSE p

\* Settings are pairs of varints that must fill the payload exactly; the other
\* parsed types need their first varint and ignore what follows it.
PayloadOk(type, length, varints) ==
  CASE type \in {"Data", "Headers"} -> TRUE
    [] type = "Settings" ->
         \E k \in 0 .. Len(varints) :
           /\ k % 2 = 0
           /\ length = LET Sum[i \in 0 .. k] == IF i = 0 THEN 0 ELSE varints[i] + Sum[i - 1]
                       IN Sum[k]
    [] OTHER -> varints # <<>> /\ varints[1] <= length

VarintsAt(pos) ==
  IF \E f \in Sent : PayloadStart(f) = pos
  THEN (CHOOSE f \in Sent : PayloadStart(f) = pos).varints
  ELSE <<>>

\* What the application is given: the type, and the bytes of the payload.
Parsed(p) == [type |-> p.state.type, from |-> p.head, to |-> p.head + p.state.length]

\* One turn: at most a header and then its payload.  A payload that cannot be
\* parsed is gone from the buffer, a header that cannot be parsed is not.
Turn(data) ==
  LET p == TryParseHeader(data)
      bad == IF Waiting(p) THEN HeaderRead(p) = "error"
             ELSE ~PayloadOk(p.state.type, p.state.length, VarintsAt(p.head))
  IN IF Waiting(p) \/ Buffered(p) < p.state.length
     THEN [p |-> p, removed |-> 0, result |-> IF Waiting(p) /\ bad THEN "error" ELSE "none"]
     ELSE [p |-> [p EXCEPT !.head = @ + p.state.length, !.state = WaitingHeader],
           removed |-> 1, result |-> IF bad THEN "error" ELSE "frame", frame |-> Parsed(p)]

Take(t) ==
  /\ head' = t.p.head /\ tail' = t.p.tail /\ state' = t.p.state
  /\ removed' = removed + t.removed
  /\ result' = t.result
  /\ failed' = (failed \/ t.result = "error")

-----------------------------------------------------------------------------
Offered(n) == call = "none" /\ tail + n <= Total(sent)

\* Faulty: looks at the new bytes only.
FitsAlone(n) == n <= MaxBufferSize

Fits(n) == tail - head + n <= MaxBufferSize

\* parse_frame and parse_frames refuse the bytes, which stay with the caller.
Overflow(n) ==
  /\ Offered(n) /\ ~Fits(n)
  /\ result' = "overflow"
  /\ UNCHANGED <<sent, head, tail, state, call, batch, handed, removed, failed>>

ParseFrame(n) ==
  LET t == Turn([head |-> head, tail |-> tail + n, state |-> state])
  IN /\ Offered(n) /\ Fits(n)
     /\ Take(t)
     /\ handed' = IF t.result = "frame" THEN Append(handed, t.frame) ELSE handed
     /\ UNCHANGED <<sent, call, batch>>

ParseFrames(n) ==
  /\ Offered(n) /\ Fits(n)
  /\ tail' = tail + n
  /\ call' = "parse_frames"
  /\ UNCHANGED <<sent, head, state, batch, result, handed, removed, failed>>

\* Faulty: the vector holds the last frame only.
CollectLast(t) ==
  /\ call' = IF t.result = "frame" THEN "parse_frames" ELSE "none"
  /\ batch' = IF t.result = "frame" THEN <<t.frame>> ELSE <<>>
  /\ handed' = IF t.result = "none" THEN handed \o batch ELSE handed

\* Faulty: the frames collected so far are returned with each new one.
ReturnEarly(t) ==
  /\ call' = IF t.result = "frame" THEN "parse_frames" ELSE "none"
  /\ batch' = IF t.result = "frame" THEN Append(batch, t.frame) ELSE <<>>
  /\ handed' = handed \o batch

\* A turn of parse_frames: collect, or return what was collected, or drop it
\* and return the error.
Collect(t) ==
  /\ call' = IF t.result = "frame" THEN "parse_frames" ELSE "none"
  /\ batch' = IF t.result = "frame" THEN Append(batch, t.frame) ELSE <<>>
  /\ handed' = IF t.result = "none" THEN handed \o batch ELSE handed

Loop ==
  LET t == Turn([head |-> head, tail |-> tail, state |-> state])
  IN /\ call = "parse_frames"
     /\ Take(t)
     /\ Collect(t)
     /\ UNCHANGED sent

\* clear(), at any time between calls; the bytes after it are another stream's.
Clear ==
  /\ call = "none"
  /\ sent' \in Streams
  /\ head' = 0 /\ tail' = 0
  /\ state' = WaitingHeader
  /\ handed' = <<>> /\ removed' = 0 /\ failed' = FALSE /\ result' = "none"
  /\ UNCHANGED <<call, batch>>

Chunks == 0 .. MaxChunk

Next ==
  \/ \E n \in Chunks : Overflow(n) \/ ParseFrame(n) \/ ParseFrames(n)
  \/ Loop
  \/ Clear

Spec == Init /\ [][Next]_vars

\* The caller goes on: again and again it offers bytes it has in a piece that
\* fits, and calls with none while frames may be left in the buffer.  Strong
\* fairness, because no call can be made while a loop runs; a loop that has been
\* entered runs to its end.
Fairness ==
  /\ SF_vars(\E n \in Chunks \ {0} : ParseFrame(n) \/ ParseFrames(n))
  /\ SF_vars(ParseFrame(0) \/ ParseFrames(0))
  /\ WF_vars(Loop)

FairSpec == Spec /\ Fairness

-----------------------------------------------------------------------------
(* Properties. *)

Content(f) == [type |-> f.type, from |-> PayloadStart(f), to |-> FrameEnd(f)]
Contents(frames) == [i \in DOMAIN frames |-> Content(frames[i])]

Frames == [type : FrameType \cup {"Unknown"}, from : Nat, to : Nat]

\* The variables have their types.
TypeOK ==
  /\ sent \in Streams
  /\ head \in Nat /\ tail \in Nat /\ head <= tail
  /\ tail - head <= MaxBufferSize
  /\ state \in {WaitingHeader} \cup {ReadingPayload(type, n) : type \in FrameType, n \in 0 .. MaxFrameSize}
  /\ call \in {"none", "parse_frames"}
  /\ batch \in Seq(Frames) /\ handed \in Seq(Frames)
  /\ result \in {"none", "frame", "error", "overflow"}
  /\ removed \in 0 .. Len(sent)
  /\ failed \in BOOLEAN
  /\ call = "none" => batch = <<>>

\* Between calls the buffer begins exactly where the next frame does, or, when
\* the header has been read, where its payload does, with the type and length of
\* that very frame: the header is remembered and dropped once, however the bytes
\* were cut (frame.rs, ParserState).
Aligned ==
  IF state = WaitingHeader
  THEN head = IF removed = 0 THEN 0 ELSE FrameEnd(sent[removed])
  ELSE /\ removed < Len(sent)
       /\ head = PayloadStart(sent[removed + 1])
       /\ state = ReadingPayload(sent[removed + 1].type, sent[removed + 1].len)

\* A frame is missing only if an error was returned: as long as none was, what
\* the application got, and what parse_frames holds, is all that was removed from
\* the buffer, in the order it was sent (parse_frame and parse_frames mixed).
NoGapWithoutError ==
  ~failed => handed \o batch = SubSeq(Contents(sent), 1, removed)

\* A header that cannot be parsed stays at the front: whatever is offered from
\* then on, no frame comes out until the parser is cleared (try_parse_header
\* returns before it advances the buffer).  So one malformed header ends the
\* stream, where design.md:276 of the repository has malformed frames skipped.
Wedged == Waiting([state |-> state]) /\ HeaderRead([head |-> head, tail |-> tail]) = "error"

WedgedUntilCleared ==
  [][Wedged => Clear \/ (Wedged' /\ removed' = removed /\ handed' = handed)]_vars

\* Every frame of a stream without faults reaches the application, unless the
\* parser is cleared: once that stops, the last stream arrives whole.
Faultless(frames) ==
  \A i \in DOMAIN frames :
    LET f == frames[i]
    IN f.type \in FrameType /\ f.len <= MaxFrameSize /\ PayloadOk(f.type, f.len, f.varints)

FramesArrive ==
  <>[][~Clear]_vars => <>[](Faultless(sent) => handed = Contents(sent))

ContentStreams == {Contents(s) : s \in Streams}

\* The parser implements the promise of FrameDelivery: frames in order, none
\* twice, none left out without an error.
Delivery ==
  INSTANCE FrameDelivery
    WITH Streams <- ContentStreams,
         sent    <- Contents(sent),
         next    <- removed - Len(batch) + 1

DeliverySpec == Delivery!Spec
=============================================================================
