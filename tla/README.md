# A verification project for the h3 library

TLA+ models of this repository's HTTP/3 and QUIC library, TLC configurations
that check them on small instances, and proofs that TLAPS checks for every value
of the constants. Paths are relative to the repository; the library's sources
are in `src/` there and under `src/src/` in `PROJECT.json`.

The library is at two stages of maturity. The protocol layer (`flow_control.rs`,
`stream.rs`, `frame.rs`) and the packet layer (`packet.rs`) are written out and
unit-tested. The connection, endpoint, TLS, DNS, client and server are partly
placeholders. The project models the written-out part, and of the placeholders
what they do with state. `crypto/protection.rs:155` keeps the crate from building as
it stands (see 5); everything is modelled as it is written.

## 1. Inventory

### 1.1 Components

| Component | State it keeps | Operations | Correct when |
|---|---|---|---|
| **FlowController** `protocol/flow_control.rs` | send and receive window of the connection and of each stream (`HashMap`s), the two initial sizes, byte totals, pending updates | initialize/remove stream, can_send, reserve, process received data, update windows, resize, reset | windows stay in `0..=MAX_WINDOW_SIZE` (or below the configured size, which may be larger); credit is never lost or made by traffic; readings agree; a failed call does no damage |
| **Flow control between peers** (two FlowControllers) | both controllers, bytes and WINDOW_UPDATEs in flight | send, deliver, grant, close, reset | credit is conserved end to end; a peer that respects its windows is never refused; nobody starves |
| **StreamState** `protocol/stream.rs` | the stream's state, its own two windows, the end-of-stream flags, last activity | open, reset, send headers/data, process frame, update windows | legal transitions only; nothing sent after the end; half-closed means one end was seen |
| **StreamManager** `protocol/stream.rs` | the map of streams, id counters, `max_remote_stream_id`, limit, priority queue, dependency tree, a FlowController | create, accept, close, process frame, priorities, cleanups, flow-control delegates | ids rise; admitted streams have windows; queue, tree and windows agree with the map |
| **FrameParser** and encoding `protocol/frame.rs` | a buffer, Header/Payload state, the pending header | parse_frame(s), clear, encode, varints | any cut of a byte stream gives the same frames; encode and parse are inverse; an error does not wedge the parser silently |
| **AckTracker, LossDetector, RttEstimator** `transport/packet.rs` | unacknowledged packets, received numbers, last ACK time; smoothed RTT, RTO | track, process/generate ACK, lost packets, update RTT | an ACK covers only packets received; a packet is handed out as acknowledged at most once; RTO stays within bounds |
| **Packet encoding** `transport/packet.rs` | none | encode/decode header and packet | inverse on every packet the library builds |
| **QuicConnection** `transport/connection.rs` | Connecting/Connected/Closing/Closed, packet counter, timers, queues of streams, a StreamManager | connect, process packets, open/accept streams, send data, maintain, close | both ends agree on being connected; no data before the handshake or after close; timeout closes once |
| **Endpoint, listener** `transport/endpoint.rs` | address, configuration | constructors; `accept` is a placeholder that connects to a fixed address | - |
| **PacketProtection, keys** `crypto/` | sealing/opening keys, the nonce | protect, unprotect, header masks | a nonce is used once, and both ends derive the same one |
| **TLS session** `crypto/tls.rs` | rustls session, handshake flags | placeholders | - |
| **H3Client** `client/mod.rs` | request ids, active requests, a request channel, one shared response channel | connect, send_request, close, response streams | a request gets its own response; nothing is left after close |
| **H3Server** `server/mod.rs` | configuration | stubs | - |
| **Requests, responses, config, errors, sockets, DNS** | plain values, OS sockets | builders, I/O | - |

### 1.2 How they interact

* A `QuicConnection` owns a `StreamManager`; the manager owns the `StreamState`s
  and one `FlowController`, and passes calls through to it. `get_stream` hands
  out a mutable `StreamState`, so its methods are called without the manager.
* The two ends of a connection interact only by frames: DATA spends windows,
  WINDOW_UPDATE refills them. *Nothing in the library connects the
  `WindowUpdateNeeded` events to frames*; that is left to a driver. The code
  offers a driver two sources: the events returned by `process_received_data`,
  and the polled list `get_streams_needing_flow_control_updates`.
* `FrameParser` and `AckTracker` are used by callers, not by each other.
* `H3Client` hands requests to a spawned task through one channel and reads the
  answers from another one, which carries no request id.

### 1.3 What is hard

All methods take `&mut self`, so there are no data races; the difficulty is in
*sequences of legal calls*, in *two peers and a network*, and in calls that fail
halfway. `PROJECT.json` lists each hazard at its line. The main groups:

* **partial failure**: the connection's receive window is debited before the
  stream's is checked; resizing applies its first half before it validates its
  second; an end-of-stream flag is set before the transition that may fail;
* **two copies of one fact**: windows in `StreamState` and in `FlowController`;
  the id order in `max_remote_stream_id` and in the map; the queue and the
  dependency tree next to the map;
* **interleaving and liveness between peers**: grants, data of several streams,
  resets and closes cross on the way;
* **boundaries**: window 0 and `MAX_WINDOW_SIZE`, stream id 0, the stream limit;
* **cuts and errors**: frames cut at any byte, a header remembered across calls, a
  buffer that is full, errors that leave a parser stuck or drop what was parsed;
* **loss, repetition, late answers**: ACKs that are stale, packets acknowledged while
  they are sent again, handshake packets after a close, timers racing packets;
* **cancelled calls**: a future dropped at an await leaves an entry, a request and
  later a response behind, in channels of limited room.

## 2. The modules

| Module | Models | Kind |
|---|---|---|
| `FlowController` | `flow_control.rs`, every method | pure operators on a record |
| `FlowControl` | one controller, an arbitrary caller | state machine |
| `FlowLink` | two controllers, a network, two drivers | state machine with fairness |
| `StreamState` | `StreamState` of `stream.rs` | pure operators on a record |
| `StreamManager` | `StreamManager` with its streams and its controller | state machine |
| `FrameDelivery` | what a frame parser promises its caller | abstract specification |
| `FrameParser` | `FrameParser` of `frame.rs`, fed with bytes cut anywhere | state machine with fairness, refines `FrameDelivery` |
| `Varint`, `FrameEncoding` | the varints and `encode_frame` of `frame.rs` | pure operators |
| `FrameWire` | `FrameParser` over those encodings | composition |
| `AckTracker`, `RttEstimator` | the types of that name in `packet.rs` | pure operators |
| `AckLink` | a sender, a receiver and a lossy network around them | state machine with fairness |
| `PacketWire` | headers and ACK frames on the wire, `packet.rs` | pure operators |
| `AckWire` | `AckLink` over that wire format | composition |
| `ConnectionLifecycle` | what the two ends of a connection promise | abstract specification |
| `QuicConnection` | the two ends of `connection.rs` over a lossy network | state machine with fairness, refines `ConnectionLifecycle` |
| `H3Client` | `client/mod.rs`: calls, the spawned task, two channels | state machine with fairness |
| `FlowControllerProofs`, `FlowControlProofs`, `FlowLinkProofs`, `StreamManagerProofs`, `FrameParserProofs`, `AckLinkProofs`, `QuicConnectionProofs`, `H3ClientProofs` | theorems | TLAPS |
| `MCFlowControl`, `MCFlowLink`, `MCStreamManager`, `MCFrameParser`, `MCAckLink`, `MCQuicConnection`, `MCH3Client` | instances for TLC | constants |

`FlowController` and `StreamState` hold the translation; the machines choose
which operator is called when. A fallible method returns a record: what it
leaves behind (`fc`, `st`), whether it returned `Ok`, and its events. An `Err`
does not undo what was assigned before it, and neither do these operators.

### 2.1 FlowController and FlowControl

A `HashMap<u64, u32>` is a function; its keys are its domain, so a missing entry
(which several methods read as 0) and an entry 0 stay different. Windows are
naturals. The code adds in `u64` or `i64` and compares before it subtracts in
`u32`; the type invariant says that this suffices. `new` checks nothing, so the
initial sizes are any `u32`; one above `MAX_WINDOW_SIZE` bounds its windows in the
place of the limit (`Limit`), and a resize, which validates, is the way back below it.
`needs_window_update` halves in `f32`: `AsF32` rounds to the nearest multiple of
the spacing above 2^24 (`ExactF32`), ties to even, and `Threshold` is half of that. `total_bytes_*` are `u64` and
are bounded by `MaxTotal`. `pending_updates` is its length: nothing in the
library reads an entry back.

`FlowControl` is the most general caller: any method, any argument of the
instance, any order, including amounts 0, unknown streams and stream 0. `granted`
is a history variable: the connection credit given so far in each direction.

### 2.2 FlowLink

The sending half of one peer and the receiving half of the other. `wire` holds
the bytes in flight of each stream, `credit` the increments of WINDOW_UPDATEs in
flight; both also have an entry for the connection (id 0). Deliveries take any
number of bytes of any stream, so frames of different streams arrive in any
order and are cut anywhere. WINDOW_UPDATEs for one id merge; increments commute,
so their order is not lost information. Streams are opened, accepted when their
first bytes arrive, closed by either side while bytes and credit are in flight,
and cleaned up.

The network and the driver are not in the repository and are marked external.
`mode` selects the driver and whether the receiver resets streams whose bytes
are still in flight:

* `events`: increments announced by `process_received_data` are applied to the
  receive windows and sent, in the same step (the method returns them to one
  caller, which holds `&mut self`);
* `poll`: the driver asks `get_streams_needing_flow_control_updates` at any time;
  it also lists closed streams that have not been cleaned up, whose window reads 0,
  and it halves the initial size as an integer (`NeedsPolledUpdate`), not as an `f32`.
  Polling and granting are one step: a list that has gone stale is not modelled.
  It knows one initial size, so with this driver both sizes are the same
  (`LinkArguments`), as they are in every manager the library builds.

A `Send` that would be blocked changes nothing (`SendPathsAgree`), so it is a
stutter and the action requires that it is not blocked. Streams are non-zero
here: stream 0 has no windows of its own (see 6). The initial windows are within the
limits here, by the named assumption `LinkArguments`: above `MAX_WINDOW_SIZE` no update
of the receive window is ever accepted, and the two ends cannot work (see 5).

### 2.3 StreamState and StreamManager

The manager's caller is arbitrary: any manager method, or any method of a stream
reached through `get_stream`, in any order, and any frame at any time. `Local`
collects the stream's own methods; `FlowControl` the delegates.

*Abstractions.* Payloads are byte counts. Byte counters, statistics, the error
code of a reset and `headers_received` are left out, because nothing reads them
to decide anything. Time is two facts: `due` (30 s since `last_cleanup`) and, per
stream, `stale` (`last_activity` older than the idle timeout). `Wait` makes time
pass, by 30 s or by so long that every stream becomes stale. Priority values and
weights are numbers; `exclusive` is stored by the code and read by nothing.
`created`, `accepted` and `admitted` are history variables.

`role` is the kind of endpoint, with the ids that frames and calls name there; an
instance may hold several. `update_stream_priority` takes any id, as in the code, also of
streams that are gone or not yet created. `early`, a fourth history variable, holds the
ids that got a parent before they were created: these alone may hang below two parents
when `create_stream_with_priority` files them (see 5).

*Assumptions on the caller.* `update_state_on_end_stream_sent` is public, but is
called only by `send_headers` and `send_data`, as everywhere in the library; called
by itself on a stream that is not open it would mark an end that was not sent.
`Create` is called with a type of the manager's own role, as the wrong role is refused
without effect.

### 2.4 FrameParser, FrameDelivery and the encodings

A byte is its position in the stream, so the buffer is the run of positions from
`head` to `tail`: `extend_from_slice` moves `tail`, `advance` and `split_to` move
`head`. What is read at a position is what the peer's frames put there. `state` is
`ParserState`, with the type and length of the pending header.
`parse_frame` is one step: it returns after at most one frame. `parse_frames`
collects frames in a local vector, so entering it is a step and each turn of its
loop is one (`Loop`); `batch` is the vector, lost when a turn fails. Every error path
is there: overflow, unknown type, too large a frame, a malformed payload. An error
in the header leaves the header in the buffer; one in the payload removes the frame.
`Clear` may come at any time between calls, with frames half read; what is offered
afterwards is another stream.

`FrameDelivery` is the promise: frames are handed over in order and none twice, and
one is left out only when an error was reported. `FrameParser` implements it with
`next <- removed - Len(batch) + 1`: frames in the vector are not handed over yet.

`Varint` keeps widths: bytes have `4 * Quarter` values, so that with a small
`Quarter` TLC reaches the limits of 8 bytes; the top bits that `write_varint`
overwrites are lost in the model too. `FrameWire` puts the parser and these operators
together. `FrameEncoding` gives the frames of the run
the bytes `encode_frame` would. Header maps encode as nothing, as in the code (QPACK
is a stub), and read as nothing.

### 2.5 AckTracker, RttEstimator, AckLink and PacketWire

A packet is its number. `received` is the list in order of arrival with its limit
(`ReceivedCap`, 1000 in the code). `RangesOf` says what the loop of `generate_ack`
computes without the loop: maximal runs of consecutive numbers that arrived once,
of two or more; a number that arrived twice ends a run and begins another.

No part of the library calls these types. `AckLink`'s drivers are the ones their
interface is made for, and are external, as is the network, which loses, repeats
and reorders packets and ACK frames (one frame is in flight; it may be kept while newer
ones are made, so it may be as old as one likes). The clock is read in two
comparisons: `horizon` is the first packet not older than the RTO (a new RTO
moves it either way), `waiting` is the receiver's ACK delay.

`PacketWire` writes headers as bytes and ACK frames as words, with a 32-bit packet
number, type bytes and id lengths as the code has them, and reads them back. `AckWire`
sends `AckLink`'s frame in flight through it. The types of ZeroRTT, Handshake and Retry
headers do not survive, which is a fault of the code (see 5), so the type is demanded of
the other three only (`TypesKept`). `AckFrame::decode` allocates room for as many ranges
as a frame announces before it looks whether they are there; the model only refuses the
frame. A frame holds a set of ranges in `AckLink`
and a list on the wire; `WireReadsBack` speaks of every order the list may have.

### 2.6 QuicConnection and ConnectionLifecycle

A client made by `connect` and a server made by `new`, and the set of packets between
them. No method suspends (the socket does not block), so a call is a step; one that
both receives and sends (`maintain`) does so in the code's order, and each
`send_packet` may fail, be lost, or arrive. The socket is that of a native build; the
placeholders for wasm in `socket.rs`, among them a `recv_from` that claims one byte it
has not read, are left out. `age` is the age of `last_activity`: fresh,
above `keep_alive`, above `idle_timeout`. `answered` is a history variable.

*What `process_incoming` does.* It hands a slice of length 0 to the socket, so it takes
packets away and reads nothing (`ReceiveNothing`). To say anything about the packet
handlers they are reached through `process_packet` (`ProcessPacket`), as the unit
tests reach them: as if the buffer had room. With this a packet may be
handled, or swallowed, or lost. Handling a packet does not refresh `age`, which
is stricter than the code with a working buffer; `ClientSettles` therefore is about
the code as it is. With `PeerFinishes` somebody sends the server the Handshake packet
that this client never sends, so that a connected server is covered as well.

`ConnectionLifecycle` has three phases for each end and the fact that the server has
answered; `Closing` and `Closed` are its `done`.

### 2.7 H3Client

A request and its response are the request's id; the channels do not carry it, so
only histories look at it. `send_request` has two awaits, so it is `SendRequest`,
`Enqueue` (room in the request channel) and `Receive`, and between them its caller may
drop the future (`GiveUp`), which runs none of the rest: the entry stays. The spawned
task takes a request and waits for room in the response channel. `close` drops the
channels after the connection's close succeeded, or leaves with an error (`CloseFails`)
with the connection gone and the channels kept.

## 3. The runs

| Run | Question | Result |
|---|---|---|
| `flow_control` | Can any sequence of calls corrupt one controller? | 234 222 states, all hold |
| `flow_link` | Do two controllers and a network keep their accounts, and does every blocked sender resume? | 232 792 states, all hold |
| `flow_link_reset` | Is the event-driven driver safe when streams are reset? | **violated**, see 5 |
| `stream_life` | Can a stream reach a state it should not, with data, ends, resets and sweeps in any order? | 256 928 states, all hold |
| `stream_order` | Do ids, windows, queue and tree agree with the map, for two streams at a time, both roles and both cleanups? | 819 044 states, all hold |
| `stream_sendable` | Can what `get_sendable_streams` lists be sent on? | **violated**, see 5 |
| `stream_ends` | Is a stream the peer has ended one that cannot receive? | **violated**, see 5 |
| `stream_ids` | Are our ids and the peer's disjoint? | **violated**, see 5 |
| `frame_parser` | Does any cut of a byte stream, through either method, give the frames that were sent, and what is left after an error? | 1 808 states, all hold |
| `packet_acks` | Are packets acknowledged if, and only if, they arrived, whatever the network does, and does the timeout stay sound? | 169 089 states, all hold |
| `connection` | Can late, lost or repeated packets, timers and failed sends take an end of a connection back, or make a closed one speak? | 20 673 states, all hold |
| `client` | Which response does a request get when callers give up, and does every call end? | 41 000 states, all hold |

### 3.1 What the properties say

*flow_control.* `TypeOK`: no window falls below 0 or rises above the limit, or above
its initial size where that is larger (so no `u32` subtraction wraps and no clamp is
missing). `ConnectionLedger`: remaining window plus counted
bytes equals granted credit, whichever way a call ends. `SendPathsAgree`:
`can_send`, `effective_send_window` and `reserve_send_window`, which read the
windows separately, agree. `AnnouncedUpdateRestores`: an announced increment restores
the initial size, and is taken exactly when that size is within the limit. `FailureSparesStreams`: a call that
fails halfway leaves the streams alone. `DebitsAgree`: bytes counted as
sent left the connection's window, and the window of the stream that was named, by the
same amount.

*flow_link.* `CreditConserved`: what the sender may still send, plus bytes in
flight, plus credit in flight, is what the receiver is ready to take: on the
connection always, on a stream while both ends hold it. `NeverRefused`: a sender
that respects its windows is never refused. `NeverOvercommitted`: no receive
window exceeds its initial size. `ConnectionNeverStalls`: when nothing is in
flight and nothing is left to grant, the connection can send.
`BlockedSenderResumes` (liveness): a sender out of credit on a stream both ends
keep gets credit.

*stream_life.* `LegalTransitions`: every change of state is one that
`can_transition_to` allows, although no method asks it; a closed stream is never
revived. `NothingSentAfterEnd`: after our end nothing is sent, whatever comes in
between. `HalfClosedIsEarned`: a half-closed stream got there by the end its name
says, and is not one that both sides have ended.

*stream_order.* `AcceptedInOrder`: the peer's ids rise, across closes, sweeps and
frames that come early. `AdmittedHaveWindows`: an open stream that was created or
accepted has both windows. `QueuedOnce`, `AtMostOneParent`: the queue and the tree
stay sets although one cleanup leaves entries behind, except for streams that
were given a parent before they were created. `SweepLeavesNothing`:
`cleanup_idle_streams` removes every trace of what it takes.

*frame_parser.* `Aligned`: between calls the buffer begins where a frame does, or
behind its header with that frame's type and length remembered. `NoGapWithoutError`: as
long as no error was reported, what was handed out and what the vector holds is all
that was taken from the buffer, in order. `NumbersReadBack`: varints survive the wire,
except that numbers of 2^62 and more lose two bits. `WedgedUntilCleared`: an unreadable
header yields no frame until `clear`. `FramesArrive` (liveness): a well-formed stream
arrives whole, once nobody clears the parser any more. `DeliverySpec`: the refinement.

*packet_acks.* `AckedHaveArrived`: no frame names, and no call hands out, a packet that
did not arrive. `EachHandedOnce`: a packet that asks for it is waiting or was handed out
once. `AcksCoverNeighbours`: which numbers a frame made now covers, exactly: those with
a neighbour on the list, and the largest. `RttBounds`: the estimate lies between the
measurements, the timeout above it. `WireReadsBack`: headers and the frame in flight
come back from the wire, except for the upper half of a number, which the format has no
room for, and for the types of finding 7 in section 5. `EventuallyAcked`
(liveness): every packet that asks is acknowledged in the end. A number between two
gaps is not acknowledged at once; it is because its retransmissions make it the largest
of a list that evicts the others, or fill its gaps.

*connection.* `SilentWhenDone`: an end that began to close sends nothing but Close.
`ClientSettles` (liveness): a client does not stay Connecting. `LifecycleSpec`: the
refinement.

*client.* `ResponsesInOrder`: responses come in the order of their requests, none
before its own, and are shifted by at most as many as gave up. `EntriesAccounted`:
`active_requests` holds the running call and those given up. `RequestsFinish`
(liveness): a call ends unless the task and both channels are full of requests that
were given up; with the code's capacity this takes 201 of them, and is then for ever.

### 3.2 Bounds, and why they are enough

* `flow_control`: two streams, a limit of 2, amounts 0 to 2, initial sizes 0, 2 and
  3: at the limit, above it, and below the least; `new` takes all three and a resize
  only 2. Every comparison in the code is between one window, one amount and a limit;
  two bytes reach below, at and above each, and two streams separate "this stream"
  from "another". With `ExactF32 = 2` the size 3 is rounded up to 4 on its way through
  `f32`. `MaxTotal = 2` bounds the two counters, so each window is exhausted and
  refilled; the theorems cover the rest.
* `flow_link`: two streams, windows of 3 for the connection and each stream (the
  manager gives both the same size), frames of 1 or 2 bytes, 5 bytes in all. One
  stream can exhaust the connection, two together can exhaust it while both have
  credit left, and after a grant to the connection alone a stream runs out first,
  so either window can be the one that blocks. `MaxWindow = 8` leaves room for
  credit to accumulate, so that an overgrant would show. Deadlock is not checked
  here: once the 5 bytes are spent and everything is closed the system rests.
* `stream_life`: one id, one role, windows of 2. All five reachable states, every
  flag and both windows at 0, 1 and 2, with removal and re-acceptance. What
  concerns one stream does not depend on the others.
* `stream_order`: a client that creates 0 (which has no windows) and 4, and a server
  that creates 4 and accepts 4 and 8, so that two ids can be accepted, in either order,
  beside one of its own (see 5 for the clash). The limit is 1; frames file streams past
  it, so both are there at a time. Two schedules, one below stream 0 and one below
  stream 4, which may be the stream itself. No data, since none of its properties
  depends on amounts.
* The ids that a manager creates are those its role names, which bounds the counter.
* `frame_parser`: 32 streams of two or three frames from ten kinds (empty, at the limit,
  above it, unknown, malformed, one- and two-byte headers), chunks of 0 to 4 bytes, a
  buffer of one largest frame with its header. Two frames meet in one call, three in one
  `parse_frames` that fails in the middle; every byte of every header can be a cut.
* `packet_acks`: three packets, one of which does not ask for an ACK, a list of three
  numbers: a gap, a repetition, a neighbour that was evicted and a list full of
  retransmissions all occur. Two measurements far apart. Bytes of four values bring the
  32-bit limit within reach.
* `connection`: three packets at a time, of all kinds; both ends free to do anything at
  any time, `KeepAlive` and `PeerFinishes` on. The theorems cover the other settings.
* `client`: channels of two and seven requests: five fill the task and both channels,
  the sixth finds no room, one more shows that nothing recovers. Deadlock is not
  checked, because a closed client and a wedged one both stop.

### 3.3 Fairness

* `flow_link`: `Accept`, `Deliver`, `CreditArrives` and `Poll` are weakly fair: the
  network delivers, and the driver keeps running. The network under these frames is
  QUIC's stream of reliable frames, which is what flow control is defined over; loss
  and retransmission belong to the packet layer. `Deliver` is fair per stream. No
  fairness is assumed of what a user decides: `Send`, `Open`, `CloseSend`, `CloseRecv`
  and `CleanUp`. Bytes in flight on a stream the receiver keeps open never wait for the
  user, so weak fairness is enough.
* `frame_parser`: the caller offers bytes in pieces that fit again and again, and calls
  with none, because frames may be left in the buffer. Strong fairness, since no call can be made
  while `parse_frames` loops; the loop itself is weakly fair. `Clear` is not fair.
* `packet_acks`: time passes at both ends, the sender sends again what is reported lost,
  the receiver asks `generate_ack` again and again. What is sent again and again arrives
  sometimes (strong fairness of arrival, for packets and ACKs).
* `connection`: only that time passes and that `maintain` is called again and again; nothing else
  looks at the timers.
  No packet is assumed to arrive.
* `client`: the runtime polls the task and the running call's future. No fairness for
  what the application decides (`SendRequest`, `GiveUp`, `Close`).

## 4. The proofs

| Theorem | Says |
|---|---|
| `WindowsStayInRange` (`FlowControlProofs`) | `Spec => []TypeOK`, any caller, any arguments and any `u32` initial sizes |
| `ConnectionCreditIsKept` (`FlowControlProofs`) | `Spec => []ConnectionLedger` |
| `SendPathsStayInStep` (`FlowControlProofs`) | `Spec => []SendPathsAgree`: the three readings of the send window |
| `AnnouncementsRestore` (`FlowControlProofs`) | `Spec => []AnnouncedUpdateRestores`, any `u32` initial sizes |
| `FailuresSpareStreams` (`FlowControlProofs`) | `Spec => []FailureSparesStreams` |
| `DebitsStayInStep` (`FlowControlProofs`) | `Spec => DebitsAgree` |
| `LinkStaysTyped` (`FlowLinkProofs`) | `Spec => []TypeOK` for the two ends |
| `CreditIsConserved` (`FlowLinkProofs`) | `Spec => []CreditConserved` |
| `ArrivalsAreTaken` (`FlowLinkProofs`) | `Spec => []NeverRefused` |
| `NeverMoreThanInitial` (`FlowLinkProofs`) | `Spec => []NeverOvercommitted`, either driver, with resets |
| `ConnectionStaysUsable` (`FlowLinkProofs`) | `Spec => []ConnectionNeverStalls`, when no mode combines the event driver with resets |
| `RemoteIdsRise` (`StreamManagerProofs`) | `Spec => []AcceptedInOrder` |
| `StreamsMoveLegally` (`StreamManagerProofs`) | `Spec => LegalTransitions` |
| `HalfClosedByItsEnd` (`StreamManagerProofs`) | `Spec => []HalfClosedIsEarned` |
| `EndIsTheLast` (`StreamManagerProofs`) | `Spec => NothingSentAfterEnd` |
| `AdmittedKeepWindows` (`StreamManagerProofs`) | `Spec => []AdmittedHaveWindows` |
| `EachQueuedOnce` (`StreamManagerProofs`) | `Spec => []QueuedOnce` |
| `NoSecondParent` (`StreamManagerProofs`) | `Spec => []AtMostOneParent`, at a client or a server, priorities for any id |
| `SweepTakesEverything` (`StreamManagerProofs`) | `Spec => SweepLeavesNothing` |
| `ManagerTyped` (`StreamManagerProofs`) | `Spec => []TypeOK`, any configuration |
| `ParserStaysTyped`, `ParserStaysAligned` (`FrameParserProofs`) | `Spec => []TypeOK`, `Spec => []Aligned`, any streams, cuts and sizes |
| `NothingIsLostSilently` (`FrameParserProofs`) | `Spec => []NoGapWithoutError` |
| `WedgedStays` (`FrameParserProofs`) | `Spec => WedgedUntilCleared` |
| `ParserDelivers` (`FrameParserProofs`) | `Spec => DeliverySpec`: the parser implements `FrameDelivery` |
| `EveryNumberRoundTrips`, `NumbersSurvive` (`FrameParserProofs`) | `\A v \in Nat : RoundTrips(v)`, and so `Spec => []NumbersReadBack` |
| `EncodedIsFaultless` (`FrameParserProofs`) | frames `encode_frame` wrote, within `max_frame_size`, are a stream the parser accepts |
| `AcknowledgedHaveArrived` (`AckLinkProofs`) | `Spec => []AckedHaveArrived`, any number of packets, any list, any losses |
| `HandedOnce` (`AckLinkProofs`) | `Spec => []EachHandedOnce` |
| `EstimateStaysBounded` (`AckLinkProofs`) | `Spec => []RttBounds`, any measurements |
| `NeighboursAreAcked` (`AckLinkProofs`) | `Spec => []AcksCoverNeighbours`, any list, any repetitions |
| `WireSurvives` (`AckLinkProofs`) | `Spec => []WireReadsBack` (types of `TypesKept` only), any headers, payloads, delays and orders of ranges |
| `DoneStaysSilent` (`QuicConnectionProofs`) | `Spec => SilentWhenDone` |
| `ImplementsLifecycle` (`QuicConnectionProofs`) | `Spec => LifecycleSpec`: the ends implement `ConnectionLifecycle` |
| `ResponsesStayInOrder`, `EntriesStayAccounted` (`H3ClientProofs`) | `Spec => []ResponsesInOrder`, `Spec => []EntriesAccounted`, any capacity |

They rest on the named assumptions of the modules only: `WindowLimits`
(`1 <= MIN <= MAX`, room for sums below 2^32, and 24 bits exact in an `f32`), `CallerArguments`, `LinkArguments` of `FlowLink` (the initial
windows are within the limits, stream ids are not 0, and a polling driver has one
initial size for both), `StreamWindows`, `ManagerArguments`, `ParserArguments` (a stream
is a sequence of frames laid out one after another), `CapArgument`, `RttArguments` (the
initial timeout is not below the minimum), `LinkArguments` of `AckLink` (fewer packets
than a header has numbers), `VarintArguments`, `WireArguments` (a byte has at least two values
and can hold the length of an id), `WireInputs` (headers are typed as in the code),
`ConnectionArguments` and `ClientArguments`. Nothing is assumed about the number of
streams, the sizes of frames or the bounds. Only `FlowLink` assumes something of the initial windows;
one controller and the manager are proved for any.

**One controller.** `FlowControllerProofs` proves, once, what each operator does
to a well-typed controller: it stays well-typed, and by how much each window and
counter moves. Both machines' proofs cite these lemmas, so a step of the machine is
a citation and a line of arithmetic. `TypeOK /\ ConnectionLedger` is inductive. The
other properties follow from types: a reservation is blocked exactly when a window is
too small (`BlockedWhen`), an announced increment is what is missing to the initial
size (`IncrementRestores`), and of all calls only a reservation counts bytes as sent
(`OnlySendCounts`).

**Two controllers.** `CreditConserved` is not inductive. Two events would break it:
an update that takes the sender past `MAX_WINDOW_SIZE` is dropped by
`update_send_window`, and bytes that do not fit are refused by the receiver. That
neither can happen depends on facts the property does not contain. `LinkInv` adds
them (`StreamInv`): the bytes in flight of a stream the receiver keeps open fit its
window, *also after the sender has closed it and its own window is gone*; before
it is accepted they fit the initial window and no credit is in flight; a stream
that was never opened has nothing in flight. With it, the sum at the receiver
bounds every summand, so an update in flight always fits and every delivery on
an open stream is accepted. `LinkInv` has one lemma per action.

The connection's bytes in flight are the sum of the streams', and the proof needs no
sum over a set to say so: stream ids are numbers, and `Summed` states that there are
partial sums, rising with the id, that leave room for each stream's bytes and end below
the connection's. A stream's bytes are therefore within the connection's, so they fit
the connection's window, too: `NeverRefused`. `Committed` and `Generous` are two more
facts kept by each step. The first bounds the receive windows by their initial sizes; the
second says that, with the event driver and no resets, a stream the receiver has dropped
has nothing left in flight, so every delivery is taken and a low window is refilled at once.
`ConnectionStaysUsable` excludes by name the one mode in which the run
`flow_link_reset` finds the stall.

**Stream ids.** `max_remote_stream_id` is kept apart from the map. The invariant
`RemoteInv` adds that it bounds every id ever accepted, which makes the next one
larger than all of them; `AppendAbove` is the fact about sequences behind it.

**Streams and their windows.** `LegalTransitions` holds step by step, once the
streams are known to be well-typed (`StreamsTyped`, which needs each method's check
of a stream's own windows). `AdmittedHaveWindows` is not inductive: `close_stream`
takes the windows of a stream that stays filed, and nothing in the property says
that it will not be seen open again. `AdmittedInv` adds the typing from which legal
transitions follow (a closed stream stays closed) and that what was admitted is
filed. For the ends, `Earned` ties the two flags to the state: our end is sent only
on a stream that is half-closed or closed by us, where `can_send` refuses every byte;
each method keeps it (`KeepsEnds`). None of this assumes anything of the sizes of
windows: the configured initial window may exceed `MAX_WINDOW_SIZE`, which the library
does not forbid.

**Queue, tree and sweep.** `update_stream_priority` and the clean-ups filter lists with
`retain`. `Retain` is a recursive function on positions, and that it exists and what it
returns is shown by a least counterexample (`BuildsExists`, `BuiltEmbeds`): its result stands
in the old list at kept positions, in their order (`RetainThins`). So it adds nothing and
repeats nothing that was not repeated. `QueuedOnce` is not inductive, because
`create_stream` appends without looking: `QueueInv` adds that every id in the queue is
below the counter, a multiple of four that only rises, although `cleanup_closed_streams`
leaves entries of streams that are gone. `TreeInv` says of the tree that a
child was created or was given its parent before that, so a stream that is created now
is nobody's child yet, or is one of those that `early` excepts (`Childless`, `FreshId`). `SweepTakesEverything` looks at
each place where a swept stream could be left; that none lies elsewhere needs both, and
that the manager files only ids it was given (`Plain`). `ManagerTyped` joins these with the
typing of the controller, whose windows stay below the limit or the configured window,
whichever is larger (`TopFits`).

**The parser.** `TypeOK /\ Aligned /\ BatchIsTheLast /\ NoGapWithoutError`. As the
buffer begins where a frame or its payload does, and frames lie one after another
(`NextFrame`: only the next frame begins where the last one ended), a turn takes off
exactly the next frame. `BatchIsTheLast`, that the vector holds the frames removed
last, makes the refinement go through: a `parse_frames` that returns is one `HandOver`, one
that fails is one `ReportError` that gives them up, and a turn in between stutters.

**Numbers on the wire.** A varint and a 32-bit number are digits in a radix, the first
one shared with a tag. The proofs of `FrameParserProofs` carry a predicate, `Splits(v,
hi, M, lo)`: v is hi times M and lo, with lo below M. One lemma (`CutTo`) shortens hi, and the
forms of one, two, four and eight bytes follow by two, four and eight digits
(`FormRoundTrips`). For packets the predicate is `Holds(data, i, part)`: it survives
concatenation on both sides (`HoldsBefore`, `HoldsAfter`), so every read of `decode` finds
what `encode` wrote at that place, whatever payload follows. A cut header may read as a
shorter one, but never beyond its bytes (`NeverBeyond`). An ACK frame on the wire is a
list, so its ranges must be finitely many (`AlwaysFinite`): they are pairs of numbers that
arrived.

**Acknowledgements.** A frame in flight may be old, so it is compared with the history
of arrivals, which only grows (`RangesHaveArrived`). Every range of a new frame lies on
the list, and the list within the arrivals. The largest number exists because the list is
bounded and the natural numbers are well-founded (`LargestIsMember`, from the library's
`WFMin`). That two neighbours lie in a range takes the same fact twice: the range begins
at the smallest number from which all up to them are on the list once, and ends at the
largest (`NeighboursCovered`). `EstimateBounded` is inductive as soon as it is known that there is an estimate
exactly when there was a measurement; the division by eight is `MeanBetween`.

**The connection.** `SilentWhenDone` follows action by action, from types alone. The refinement needs
`AnswersAreAnswers`: a Handshake packet on its way to the client is an answer the server gave.

**The client.** Between the caller and the task everything is a queue: the ids that wait
rise along their way from responses over the task to requests (`WayRises`) and lie above
every response handed out (`AllWait`). That a response is shifted by no more than gave
up is a count: each id was answered, given up, or is running (`EachIdEnds`), and the
i-th response is at least the i-th id's (`NoneTooOld`).

**Only model-checked.** Liveness: `BlockedSenderResumes`, `FramesArrive`, `EventuallyAcked`,
`ClientSettles` and `RequestsFinish` need fairness and `ENABLED`, which the prover does not
reason about. Every other property of the passing runs is a theorem.

## 5. Where the code and its documentation disagree

1. **A reset can stall the connection** (`flow_link_reset`). `process_received_data`
   debits the connection, then fails for a stream without a window and returns no
   event (`flow_control.rs:206`). A driver that acts on events never returns that
   credit. `design.md:274`: "Stream Errors: Reset individual streams without
   affecting the connection". The polling driver does not suffer from it: `flow_link`
   checks it with resets.
2. **`get_sendable_streams` lists streams that cannot send** (`stream_sendable`).
   It reads the `StreamState`'s window; reservations debit the `FlowController`'s.
   `stream.rs:713`: "Get streams ready for sending data (based on priority and flow
   control)."
3. **An early end of stream is lost** (`stream_ends`). On an accepted stream that
   is not yet open, it sets `end_stream_received` and fails; once opened, the
   stream reports that it can receive, and waits for a second end
   (`stream.rs:226`; `:107` and `:162`).
4. **A server creates ids of its client's** (`stream_ids`). Its counter starts at 0
   (`stream.rs:526`), so the ids are client-initiated by `StreamType::from_id`, and
   the same id is accepted from the client; `stream.rs:762`: "Remote can't create
   streams we should create".

Met while modelling, part of the models' behaviour, and without a run of their own
(`PROJECT.json` quotes the lines):

5. `process_incoming` (`connection.rs:311`) reads into a buffer it has just cleared, so
   no datagram is ever processed and no connection gets past Connecting.
6. A server is never Connected: nothing sends it the packet its handler waits for.
7. ZeroRTT, Handshake and Retry headers (0x81 to 0x83) are read back as Initial
   (`packet.rs:36`): written by discriminant, read by the upper four bits. The
   discriminants (`:17` to `:24`) and the test at `:684` keep the types apart.
8. A number that arrived without a neighbour is not acknowledged unless it is the largest
   (`packet.rs:496`).
9. `parse_frames` drops the frames it has parsed when a later one fails
   (`frame.rs:468`); `has_complete_frame` answers by payload bytes when a header is
   pending (`frame.rs:476`); `serialized_size` adds estimates (`frame.rs:709`).
10. A cancelled request's response goes to the next request (`client/mod.rs:213`), and
    `send_request` asks for a connection object, not for an established connection
    (`:129`).
11. `update_keys` (`crypto/protection.rs:155`) stands outside its `impl`; the crate does
    not build.
12. `update_stream_priority` (`stream.rs:679`) takes any id. A stream that is given a parent
    before it exists gets a second one from `create_stream_with_priority`, which does not
    look for the first: it hangs below two parents, or twice below one, in what
    `stream.rs:505` calls the "Stream dependency tree". `AtMostOneParent` excepts these
    streams, and no others.
13. A header that cannot be parsed wedges the parser until `clear` (`frame.rs:350`), where
    `design.md:276` has: "Parse Errors: Skip malformed frames and continue processing".
    `WedgedUntilCleared` states what the code does.
14. `FlowController::new` takes any `u32` (`flow_control.rs:71`), while a resize demands a
    "window size between {} and {}" (`:399`). With an initial size above `MAX_WINDOW_SIZE`
    every announced increment is refused by `update_recv_window`, so the receive window is
    used up once and never refilled.

Further observations: an end's own keep-alives and sends refresh `last_activity`, so a
connection that talks to nobody does not time out; a lost Initial packet is never sent
again; a received close (0x85) is ignored; `write_varint` loses the top bits of numbers
of 2^62 and more. `process_frame` files a stream even for GOAWAY, although `stream.rs:623` treats
connection-level frames as those without a stream id; it never asks `can_receive`,
and does not refresh `last_activity`, so a stream that only receives is swept as
idle; `can_accept_stream(0)` is always false because `max_remote_stream_id` starts
at 0.

## 6. Not modelled, and the plan

Not modelled: the crypto modules, which do not compile (`protection.rs:155`; `keys.rs`
calls a `nonce_mut` that its key types do not have), so their nonce sequence has no
defined behaviour to be faithful to; TLS (a placeholder around rustls); DNS and the rest of the sockets
(I/O, a stub); requests, responses, configuration and errors (plain values); endpoint,
listener and server (constructors and stubs). Of modelled components:

* `StreamManager`: `handle_backpressure` and the statistics, which change no state;
* `FrameParser`: `has_complete_frame`, the size estimates and the statistics, which
  change nothing the parser reads;
* `QuicConnection`: `open_stream`, whose effect is the stream manager's, the packets'
  placeholder contents, the statistics and the packet counter, which nothing reads;
* `H3Client`: `send_request_stream`, which changes nothing in the client and whose stream ends at
  once, as its sender is dropped.

The plan for what remains:

1. Stream 0 and the polling driver inside the manager: id 0 is listed twice.
2. The stream limit under a fair cleanup, and the idle clock, as liveness of the manager.
3. An abstract "credit account" that `FlowLink` refines.
4. `PacketProtection`'s nonces at both ends under loss, once the module compiles.
