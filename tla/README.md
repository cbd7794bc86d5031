# naivestreaming in TLA+

naivestreaming sends the picture of a camera to a window on another machine with
as little latency as possible: Video4Linux frames are encoded slice by slice with
x264, every NAL unit becomes one RTP-like UDP datagram, and the receiver decodes
with libavcodec and paints with Qt. The modules here model the parts of it that
have state, order and concurrency, TLC checks them on small instances, and TLAPS
proves every safety property the passing runs check for every value of the constants.

Paths below are relative to the repository; `libns/` is `src/libns/`.

## 1. The system

| Part | State | Operations |
|---|---|---|
| Video capture, `libns/video_capture.cpp` | `m_v4l_fd`, the mapped `m_buffers`, a `jthread` with its stop token; in the kernel, the two queues of the buffer ring | `initialize`, `enumerate_formats`, `select_format`, `start` (with `start_capture` and the reading loop with `read_frame`), `stop`, destructor, `close_v4l_fd` |
| Encoder, `libns/encoder.cpp` | the x264 encoder, `m_pic`, `m_frame`, `m_nal_encoding_buff`, `m_client_notification_lock` | `initialize`, `process_frame`, `nalu_process` (callback of x264) |
| RTP codec, `libns/rtp.cpp` | none | (de)serialize the RTP header and the payload header |
| UDP transmitter, `libns/udp_transmit.cpp` | the socket, `m_sequence_num` | `initialize`, `transmit` |
| UDP receiver, `libns/udp_receive.cpp` | the socket, `m_buffer`, `m_prev_seq_num` | `initialize`, `start`, `receive_next` and its completion handler |
| Decoder, `libns/decoder.cpp` | libavcodec's parser and codec contexts, the current packet | `initialize`, `decode_packet` |
| Transmitter application, `stream_transmit/stream_transmit_main.cpp` | encoder, capture, transmitter and two FPS counters, as members destroyed in reverse order; an `io_context` | `initialize`, `async_start_streaming`, the callbacks, the signal handler, `main` |
| Receiver application, `stream_receive/` | the window with the current frame's image and memory under a lock, the `asio_thread`, Qt's event loop | `initialize`, `on_packet_received`, `on_frame`, `paintEvent`, `main` |
| STUN client, logging, `types.cpp` | none | a stub; output |

**How they interact.** On the sending side everything happens in callbacks on
the capture's worker thread: the worker takes a buffer from the driver
(`VIDIOC_DQBUF`), `on_frame` counts it and has the encoder process it, x264 calls
`nalu_process` for each NAL unit, that calls `on_nal_encoded`, and this transmits
one datagram; only then does the buffer go back (`VIDIOC_QBUF`). The main thread
runs the event loop and waits for a signal; the handler stops the capture, which
joins the worker, and the loop. On the receiving side the asio thread runs the
receive handler, which parses a datagram, calls `MainWindow::on_packet_received`,
which decodes, which calls `on_frame`, which stores an image under a lock and
calls `update()`; the GUI thread paints it in `paintEvent` under the same lock.

**What is hard.**

- Three actors share a capture: the owner that starts, stops and destroys it, the
  worker, and the driver. `stop()` closes the descriptor while the worker is
  anywhere in its loop, and the destructor closes it even before the worker is
  asked to stop.
- System calls fail one at a time: half of the buffers are mapped, some are
  queued, streaming does not start, an ioctl fails in the middle of a frame.
- x264 may call back from several threads, into one shared buffer.
- Datagrams are lost, reordered, duplicated, too short, or not ours; sequence
  numbers and timestamps wrap; the receive operation has to be started again on
  every path of the handler.
- The parser of the decoder drops the packet it recognises the end of a picture
  by; the window decodes some packets twice to make up for it.
- Nested loops of ioctls end only if the driver answers as they expect.
- Two threads share one image that points into memory the other one frees.
- Both programs end by relying on the order in which things are destroyed.

**What makes each part correct.** Capture: no buffer is overwritten while it is
read, none is lost to the ring, nothing is delivered after `stop()`, and `stop()`
and the destructor return. Encoder: the client is called by one thread at a time,
with whole NAL units, stamped with their frame's time, within the bracket of their
frame. Codec: what is written is read back, in network order. Transport: what
arrives is what was sent, gaps are seen, and the receiver never goes deaf.
Decoder: the codec gets the slices of a frame together, in order, none twice, and
no more is dropped than has to be.
Applications: nothing is used after it is destroyed, and the process ends when
told to.

`PROJECT.json` lists the hazards line by line, with the properties aimed at them.

## 2. Modules

```
 FrameSource  <--implements--  VideoCapture  <--instance--  TransmitApp --> VideoFormats
                                   ^                           ^
                            VideoCaptureProofs <--instance-- TransmitAppProofs

 Rtp <-- RtpRoundTrip                LossyStream <--implements-- Transport
  ^   \-- RtpLemmas <-- RtpRoundTripProofs                        |     |
  |            ^                                         UdpTransmit  UdpReceive
  |            +------ TransportProofs                            |     |
  +-- VideoPackets <-- UdpNetwork <-------------------------------+-----+
           ^
        Decoder <-- ReceiveApp --instance--> LossyStream
                        ^
                 ReceiveAppProofs              Encoder <-- EncoderProofs
```

An `MC...` module exists for each module that TLC runs; it only extends it and
defines the values the `.cfg` gives to constants. Operators called "Faulty
variant" are plausible mistakes; nothing in the specifications uses them. Each
stands for a bug that one of the properties rejects.

### VideoCapture

| Model | Code |
|---|---|
| `m_v4l_fd`, `fdOpen` | the member, and whether the kernel has the descriptor open: `close()` and the assignment of -1 are two steps, seen by the worker between them |
| `place`, `image` | where each buffer is (user, the driver's incoming or outgoing queue, dequeued) and the number of the frame in it |
| `worker` | the program counter of the reading loop: `check` (stop token), `arm` (`FD_SET`, call of `select`), `select`, `dequeue`, `on_frame`, `requeue`, `failed`, `done` |
| `main` | the owner: `created`, `mapping`/`queueing`/`starting` inside `start()`, `started`, `close`/`clear`/`join` inside `stop()`, `stopped`, `unset`/`request`/`wait` inside the destructor, `destroyed` |
| `m_buffers` | the buffers `mmap` has returned memory for |
| `RequestBuffers`, `MapBuffer` and their failures | `start()` up to `start_capture()`: buffers are requested, then mapped one by one; any failure ends `start()` without a worker and leaves the mappings made so far |
| `QueueBuffer`, `QueueFails`, `StreamOn` | `start_capture()`, which queues the buffers one by one and reports a failure to nobody |
| `StartThread` | the worker starts, also after a failed `start_capture()` |
| `CheckStop` ... `ReadFrameFailed` | the loop, one action per call that another thread can come between |
| `RequestStop`, `CloseFd`, `ClearFd`, `JoinWorker`, `StopNotJoinable` | `stop()` |
| `close_v4l_fd` | the function of that name up to the outcome of `close()`, which is not called when `m_v4l_fd` is -1; used by `stop()` and the destructor |
| `Destroy...` | the destructor, with and without a running worker; the `jthread` member is destroyed after its body has closed the descriptor |
| `CaptureFrame` | the driver (external): it fills a queued buffer, or drops the frame |

`FD_SET(-1)` is undefined behaviour. The project sets neither a build type nor
hardening, and in such a build it has no effect on the sets that matters to
`select`, which then waits for its timeout; that is the outcome taken.

`FrameSource` is what the code behind the callback may rely on: one callback at a
time, frames in
capture order, each at most once, and no callback running or to come when `stop()` has returned.

### Encoder

`ProcessFrame`, `EncodeFails` and `EncodeReturns` are `process_frame()` before and
after the call of x264; `EncodeNal`, `Notify`, `NotifyReturns` are `nalu_process`
in each of x264's threads: writing the shared buffer, taking the lock and calling
the client, and returning. `i_threads` is chosen from `ThreadCounts` at the start.
`initialize()` asserts that it is 1; the lock and its comment are for more.
x264 is external: it is assumed to hand out the NAL units of a frame in order and
to return when its threads are done with them. It is also assumed to encode a frame in
the call that brings it, as the tune `zerolatency`, which `initialize()` selects,
is documented to. A comment of `initialize()` says otherwise: "with current settings we
can have as many as 70 delayed frames" (`encoder.cpp:179`). With a delayed frame
`process_frame()` would return 0 without `on_frame_ended`, and units would be stamped with
the time of a later frame than theirs; `TimestampDifference` and `EndedWhole` rest on the
assumption.

### Rtp and RtpRoundTrip

`Rtp` translates the four functions of `rtp.cpp` octet by octet, `hton` for either
byte order included: the code converts with `htons`/`htonl` and then stores the
low octet first. 32-bit numbers are functions from octet index to octet, so that
no arithmetic on 2^32 is needed. The CSRC list is abstracted to its length, which
must be 0 for the header to be accepted. `RtpRoundTrip` sends headers through both
directions the way the tests and the two ends do; `flags` is set by the tests only, neither
`transmit()` nor the receive handler touches it.

### VideoPackets, UdpNetwork, UdpTransmit, UdpReceive, Transport

`Transmit` is `transmit()`: headers, sequence number, and one of three outcomes
(sent, dropped by a full socket, dropped because a header was rejected), in all
of which the number is used up. `UdpReceive` is the receive operation and its
handler: `CompleteReceive` and `CompleteStray` (a datagram of the stream or not),
`ReceiveError`, `RejectDatagram` for each early return, `HandlePacket` up to the
call of the listener, `ListenerReturns` when the next operation is started. A NAL
unit is its number and its size. `UdpNetwork` is external; constants say which of
loss, reordering and duplication it does. The code sends to 127.0.0.1 whatever
host it is given, where only loss happens; the comments of the code speak of the
other two.

`LossyStream` is the promise to encoder and decoder: packets in the order they
were transmitted, unchanged, none twice.

### TransmitApp

The process: `main()`, `StreamTransmitApp::initialize` with its five ways to fail
(`InitializeFails`, `NoCapture`, `NoFormats`, `NoTransmitter`; the first has two), the signal handler, the destruction of the members in reverse order, and the
callbacks on the worker. It composes with `VideoCapture` by instance: the worker,
the driver, `stop()` and the destructor are the capture's own actions, and a frame
is delivered when the capture's worker is in `on_frame`. `InUse` names the members
a callback is using.

### VideoFormats

The three nested loops of `enumerate_formats()`, one action per ioctl, with the
index of each loop; `loop` says which one it is in. The camera is a constant of a
run: formats, their frame sizes, and how many intervals each size has. `EndOfLoop` is
the driver's "no more" (`EINVAL`); `EnumFails` is any other error, which ends the
loop in the same way. An interval that is not discrete is answered at index 0 again
and again (`EnumInterval` changes nothing then). `select_format` may fail, and
nobody asks. It is part of `TransmitApp`'s initialization, where a signal may come
at any time.

### Decoder

`m_parser_ctx` is libavcodec's H.264 parser as the program uses it: one whole NAL
unit per call. It stores its input (`Combine`), unless it has a slice already
and the input begins another picture: a header, or a slice whose macroblock is not
above the last one's (`Ends`). Then it returns what it has stored and uses nothing
of its input (`EndUnit`), and `decode_packet_impl`, which ignores how much was used,
loses that packet. `fed` and `handed` are history: what was given to the decoder and
what reached the codec. libavcodec is external; the rules of `Ends` are those of its
parser.

### ReceiveApp

The GUI thread (`gui`), the asio thread (`asio`), and what they share: the current
frame's memory and the image that points to it, the lock, a pending paint event.
`on_frame` frees the old frame (`ReplaceFrameData`) before it replaces the image
(`ReplaceFrameImage`), and both are in the lock. Packets arrive as `LossyStream`
allows, which `Transport` implements over a network that keeps the order;
`OnPacketReceived` and `DecodePacket` are
`on_packet_received`, with its second call of `decode_packet` for the first slice of
an ordinary frame, each going through `Decoder`. The codec makes any number of
frames of a unit, up to `FramesPerUnit`, none if it fails.

`update()` is `QWidget::update`, and the program calls it on the asio thread
(`mainwindow.cpp:52` and 113). Qt does not allow calls of widgets outside of the GUI
thread and promises nothing about them. The model takes the call to set, in one step,
a flag that the GUI thread reads; `FramesArePainted` rests on that.

## 3. Runs

| Run | Expect | What it shows |
|---|---|---|
| `MCVideoCapture` | pass | 3 buffers, 5 frames. Safety: `FrameStable`, `NoBufferLeak`, `MappedBeforeUse`, `QuietAfterStop`, `NoDescriptorLeak`. Liveness: `StopReturns`, `DestructorReturns`, `BrokenStartEnds`. Refinement of `FrameSource` |
| `MCVideoCaptureSelect` | violation | closing the descriptor in `stop()` does not unblock a `select` that waits on it; only the timeout does |
| `MCEncoder` | pass | 1 and 2 x264 threads: `CallbacksSerialized`, `TimestampDifference`, `EndedWhole`; with 1 thread `NalIntact` |
| `MCRtpRoundTrip` | pass | each field at its limits and one past them: `HeaderRoundTrip`, `PayloadRoundTrip`, `NetworkOrder` on a little-endian machine |
| `MCRtpFlags` | violation | `flags` is written to octets 5 and 6 and read from 3 and 4 |
| `MCTransport` | pass | 7 packets, loss, strays, errors: `Intact`, `NoSilentGap`, `AlarmOnlyAtWrap`, refinement of `LossyStream` |
| `MCTransportReordered` | pass | 5 packets, reordering and duplication: `Intact` and `NoSilentGap` again, and `EveryDatagramHeard` |
| `MCTransportWrap` | violation | a gap is reported at every wrap of the sequence number |
| `MCTransmitApp` | pass | `MembersOutliveCallback`, `CaptureStoppedFirst` and `SignalEndsProcess` over the whole life of the process; `EnumerationEnds` for three cameras |
| `MCTransmitAppInit` | violation | a failed initialization that returns -1 counts as success |
| `MCReceiveApp` | pass | Decoding, with any of ten packets lost: `OnlyFrameStartsDropped`, `UnitsInOrder`, `MixedOnlyAfterLoss`, `FramesStayWhole`. Showing: `PaintsLiveFrame`, `FramesArePainted`. Ending: `CloseExits` |
| `MCReceiveAppWindow` | violation | the window is destroyed under a running handler |

**Bounds and why they are enough.** A ring of 3 buffers has one in each of the
places a buffer can be at once (incoming, outgoing, held by the worker), and with
5 frames every buffer is used again and frames are dropped for want of one; the
code has 5 buffers, and the proofs cover any number. Sequence numbers
modulo 3 and 7 packets wrap twice, and gaps of exactly one round fit in.
Timestamps modulo 4 over 9 ms wrap twice. Two threads suffice to violate mutual
exclusion. The packets of `MCTransport` have NAL sizes 0, 1, 1399 and 1400,
the limit `initialize()` sets, so that the buffer is reused by smaller and larger datagrams,
and macroblocks with both octets different. In `MCTransmitApp` each frame has at most
one NAL unit: the callback's steps for a second are the same.
The cameras of `MCTransmitApp` are one with two formats, several
discrete sizes and intervals, one with ranges, and one with no formats. The receiver application
gets an IDR frame behind an SPS, an ordinary frame of three slices, and a frame that
starts an intra refresh behind SPS and PPS, with every subset of their ten packets
missing: each kind of packet comes behind each kind it can come behind, and a frame is
ended by a slice and by a header. It shows 3 frames, up to 2 from one unit.

**Fairness and why the code justifies it.** Threads that can run do run: weak
fairness of each step of the worker, of `stop()` and of the destructor. `select`
has a timeout of two seconds, so it returns. ioctls of the enumeration return,
and need not fail. Nothing makes the driver capture, a
signal arrive, a packet come, or the user close the window. The paint event needs
strong fairness, because the asio thread may take the lock between any two
attempts of the GUI thread; the standard mutex is not fair by specification, but
frames are milliseconds apart. It is posted by `update()`, of which the assumption of
section 2 is made. A datagram that a network does not lose arrives sooner or
later whatever strays come in between: strong fairness for each. Without loss,
`EveryDatagramHeard` then depends only on the handler's re-arming.

Deadlock is checked only where the system has no end, in the transport: the
receiver always waits for more. The other runs model processes that end.

## 4. Proofs

`tlapm` checks every theorem from nothing. Assumptions are those named in the
modules that declare the constants; TLC evaluates them in the runs. Each inductive
invariant was first checked by TLC on the instance of its component's run.

| Safety properties of the passing runs | Theorems in |
|---|---|
| `TypeOK`, `FrameStable`, `NoBufferLeak`, `MappedBeforeUse`, `QuietAfterStop`, `NoDescriptorLeak`, `ImplementsSource` | `VideoCaptureProofs` |
| `TypeOK`, `CallbacksSerialized`, `NalIntact`, `TimestampDifference`, `EndedWhole` | `EncoderProofs` |
| `TypeOK`, `HeaderRoundTrip`, `PayloadRoundTrip`, `NetworkOrder` | `RtpRoundTripProofs` |
| `TypeOK`, `Intact`, `NoSilentGap`, `AlarmOnlyAtWrap`, `ImplementsLossyStream` | `TransportProofs` |
| `TypeOK`, `MembersOutliveCallback`, `CaptureStoppedFirst` | `TransmitAppProofs` |
| `TypeOK`, `PaintsLiveFrame`, `OnlyFrameStartsDropped`, `UnitsInOrder`, `MixedOnlyAfterLoss`, `FramesStayWhole` | `ReceiveAppProofs` |

**VideoCaptureProofs**, for any set of buffers and any number of frames. The
safety properties are not inductive: `FrameStable` needs to know that the held
buffer is outside both queues, and the refinement that everything in the outgoing
queue is newer than the last callback. `IInv` adds

- `RingInv`: frames that wait are newer than the last delivered one, not newer
  than the last captured one, and all different;
- `HeldInv`: from `VIDIOC_DQBUF` to `VIDIOC_QBUF` the worker owns `buff` and the
  frame in it, and holds no other buffer unless the descriptor has gone;
- `StartInv`: how far `start()` has come. The driver has no buffer before all are
  mapped, and there is no worker before they are queued or one of them failed; without it
  `MappedBeforeUse` is lost at the first `VIDIOC_QBUF`, which does not look at `m_buffers`;
- `ClosedInv`: past `close()` in `stop()` and in the destructor the descriptor is closed,
  whatever `close()` returned. With `NoDescriptorLeak` itself it gives `CloseCloses`: the check
  of `m_v4l_fd` in `close_v4l_fd()` never skips a descriptor that is open.

From it: `TypeCorrect`, `FramesAreStable`, `RingNeverRunsDry`, `FramesAreMapped`,
`NoCallbackAfterStop`, `DescriptorIsClosed` and, step by step, `CaptureIsFrameSource`.

**EncoderProofs**, for any numbers of threads, of NAL units and of frames, and any
width of the timestamps. `IInv` adds `ThreadInv` (threads are in `nalu_process` only
while `process_frame()` waits, and the lock belongs to the one that notifies),
`BufferInv` (with one thread the shared buffer holds that thread's unit, from the
moment it is written, which is before the lock is taken), `ProgressInv` (each unit
made so far was notified, or is in the hands of a thread: otherwise a frame could end
with a unit missing) and `StampInv` (`opaque` points to the time of the frame being
encoded). `TimestampsMeasureCaptures` is about the wrap: by `WrappedDifference` the
difference modulo 2^32 of two timestamps is exact if it is less than that. `NalIntact`
is conditional on `i_threads = 1` because with more threads it is false.

**RtpLemmas, RtpRoundTripProofs**, for all headers and both byte orders.
`HeaderSurvives` and `PayloadHeaderSurvives` are statements about the functions
alone; arithmetic on octets (splitting a word and joining it again, bits packed in
the first two octets) is in lemmas. `StageInv` carries them through
the round trip, with what `SerializeKeepsBuffer` and `HeaderLayout` say of the buffer:
it holds octets and keeps its size also when a header is rejected half way.
`FlagsAreLastMb` says what the wrong index does: the flags read
are `last_mb`, always. `WireIsNetworkOrder` assumes `LittleEndian`, without which it is
false.

**TransportProofs**, for any stream, any number of packets, any size of the
sequence number space, and a network that may do everything. `IInv` adds to the types `NetInv` (what
is in flight is what `transmit()` made), `BufferInv` (a handler works on all of
such a datagram, or on one it will reject) and `SeqInv` (`m_prev_seq_num` belongs
to the last packet heard). From it: `TypeCorrect`, `PacketsAreIntact`,
`NoGapIsSilent`, `FalseAlarmsOnlyAtWrap`. `ReportsAreExactBeforeWrap` assumes that the
numbers do not run out, and says that then reports and gaps are the same; the two
theorems before it say what is left of this after a wrap. `TransportIsLossyStream` assumes `InOrder`,
no reordering and no duplication, without which it is false, and uses `OrderInv`:
everything in flight is newer than what was heard.

**TransmitAppProofs**, for any camera, any number of buffers and frames, and any number
of NAL units in a frame. The application is a composition, and so is its proof:
`CaptureStep` shows that each of its steps is a step of the capture or leaves the
capture alone, so `VideoCaptureProofs`, taken as an instance, gives its invariant here
without being proved again. The rest of `IInv` is

- `OwnerInv`: where `main()` is tells what it has done with the capture;
- `MembersInv`: all members exist from the start of the capture until it has stopped;
- `CallbackInv`: the callback runs only while the capture's worker is in `on_frame`;
- `FormatsInv`: the loops of `enumerate_formats()` stay within the camera's formats,
  sizes and intervals, and the list made so far is the camera's.

`MembersAreAlive` needs the capture's own invariant: a callback means a worker, a worker
means that `stop()` has not returned, and until then `main()` destroys nothing.
`CaptureIsStoppedFirst` rules out that this program takes the dangerous path through
the destructor of the capture. `OnlyFailedInitCrashes` bounds the finding on `return -1`:
there is no other way to call through the null pointer. `CaptureIsUsedAsModelled`,
`CaptureIsSafe` and `CallbackGetsFrames` say that application and capture fit: every behaviour of the one
is a behaviour of the other, no frame is overwritten while it is encoded, and what
reaches the encoder is what `FrameSource`
promises.

**ReceiveAppProofs**, for every stream that satisfies `StreamAssumption` (what
x264 makes: IDR frames behind their headers, slices in macroblock order), any part of it
lost, and any number of frames the codec makes. `LockInv` is for the shared image:
memory and image differ only inside `on_frame`, which holds the lock. The rest of `IInv`
is for the decoder. None of its properties is inductive, since each speaks of
the end of a handler, or of units already handed over:

- `FeedInv` and `BetweenInv` say where a packet is between the two calls of
  `decode_packet` for it: stored, as the first slice of a unit, or dropped by an
  empty parser, which is why the second call neither stores it twice nor
  drops it again;
- `BufferInv` keeps what the parser stores ordered and newer than what the codec has;
- `LastInv` ties the parser's memory, `frame_start_found` and `parse_last_mb`, to the
  packet decoded last;
- `DropInv` is `OnlyFrameStartsDropped` in the middle of a handler;
- `UnendedInv`: nothing that would have ended the unit came after its first slice;
- `WholeInv`: none of the slices of the frame being received has been handed over,
  unless the frame came `Unannounced`, behind nothing its first slice could end.

`FailedInitNeverExits` has an invariant of its own, `EndInv`: only `ctx.stop()` lets the asio
thread end. It says what holds instead where `CloseExits` does not reach, after a
failed initialization.

**Only model-checked**: liveness, which is out of the prover's reach: `StopReturns`,
`DestructorReturns`, `BrokenStartEnds`, `EveryDatagramHeard`, `SignalEndsProcess`,
`EnumerationEnds`, `FramesArePainted`, `CloseExits`. The counterexamples of the
violation runs are TLC's too.

## 5. Findings and observations

The violation runs give five; `PROJECT.json` quotes the lines.

- The comment on unblocking `select`: closing the descriptor does not end a `select` that
  waits on it (`video_capture.cpp:465`).
- `flags` is read from the octets of `last_mb` (`rtp.cpp:234`).
- A missed packet is reported at every wrap of the sequence number (`udp_receive.cpp:146`).
- `return -1` from a function returning `bool` counts as success, and `main()` calls
  through a null pointer (`stream_transmit_main.cpp:76`).
- The window is destroyed before the thread that uses it is joined
  (`stream_receive_main.cpp:38`).

Met on the way, without a run of their own:

- On a big-endian machine the numbers on the wire would be reversed, since they
  are converted and then stored low octet first (`rtp.cpp:68`). With
  `LittleEndian = FALSE`, `NetworkOrder` fails; both ends still understand each
  other, as the proofs for both orders show.
- Slices reach the decoder in the order of arrival, although the macroblock range
  is "Supposed to be used by receiver to sort NALs before feeding to decoder"
  (`types.hpp:44`).
- The FPS counter reports one frame less than there are, since the frame that
  opens a second is not counted (`stream_transmit_main.cpp:27`).
- When the receiver's initialization fails, `main()` returns -1 into the join of
  the asio thread, which nobody stopped: the process prints its error and stays
  (`stream_receive_main.cpp:30`). `InitializeFails` models it, and `FailedInitNeverExits` proves it.
- What the decoder logs as "Reassempled full packet" (`decoder.cpp:105`) may be one slice,
  with nothing lost. Behind
  headers, and when the first packet received is the first slice of a frame,
  the parser has nothing to end when that slice comes: the first
  `decode_packet` stores it, the second ends the frame it has just begun
  (`mainwindow.cpp:45`), and the
  codec gets the rest of the frame as another unit. `FramesStayWhole`, which is proved,
  states when this cannot happen.
- An SPS that comes behind a slice ends a unit, is dropped, and is not of a type that is
  decoded again. A receiver that joins a running stream can go without an SPS for
  ever, although the encoder repeats it with each refresh.
- Repairing the decoder alone, so that it parses again what was not used (`ParseRest`),
  would send slices to the codec twice, because `on_packet_received` decodes them
  twice already: both have to change together.
- `enumerate_formats()` asks for a frame interval that is stepwise or continuous for
  ever (`video_capture.cpp:205`): the transmitter never starts. `EnumerationEnds`
  says that nothing else keeps it there.
- The format selected is the last one found, and the result of selecting it is
  ignored, while the encoder expects YUYV at 1280x720 (`stream_transmit_main.cpp:88`).
- `~DecoderImpl` frees the packet only, neither parser, codec context nor frame.
- A comment in `udp_transmit.cpp:64` speaks of a header of 17 bytes; it has 19.
  Every packet sets the padding bit and has no padding. The destination host is
  ignored.
- A datagram of 12 to 18 octets passes the size check and its payload would end
  before it begins (`udp_receive.cpp:113`); the model is not given any
  (`StraysAssumption`).

## 6. Not modelled, and why

- Opening and configuring the encoder, the decoder and the sockets: sequences of calls
  before anything runs; that they fail is an outcome of the applications'
  initialization.
- YUV to RGB conversion, drawing, logging, `to_string`: output.
- The STUN client: a stub nothing calls.
- Kernel, x264, libavcodec, Qt and asio: external, modelled as far as they are used.
- The FPS counter: its clock would multiply the states of `TransmitApp`, and its only
  output is a log line.
- Slices out of order in the decoder: `ReceiveApp` gets what `LossyStream` allows.
  Nothing in the code restores an order the network lost.

## 7. Plan

The order follows the stream: capture first, since it has the most concurrency,
then encoder, codec and transport, then the two processes. Done so far: everything in
section 2, with the proofs of section 4, which cover every safety property of the passing
runs. Left, as far as the code gives reason for it:

1. What holds in the violation runs instead of the refuted property, as
   `OnlyFailedInitCrashes` and `FlagsAreLastMb` do for theirs: how long a handler can
   outlive the window.
2. `Transport` and `ReceiveApp` in one specification, over `LossyStream`, as
   `TransmitApp` has the capture.

## 8. Running

    tlc -config MCVideoCapture.cfg MCVideoCapture.tla
    tlapm VideoCaptureProofs.tla

Each `.cfg` names its run; the module of a run is in `PROJECT.json`.
