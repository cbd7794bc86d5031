-------------------------- MODULE TransmitAppProofs --------------------------
(***************************************************************************)
(* What TransmitApp guarantees for any camera, any number of buffers and   *)
(* frames, and any number of NAL units of a frame.                         *)
(*                                                                         *)
(* The application is put together from the capture and its owner.  Its    *)
(* steps are steps of VideoCapture or leave it alone, so the invariant     *)
(* proved of the capture alone is a conjunct of the invariant here.        *)
(***************************************************************************)
EXTENDS TransmitApp, TLAPS

CaptureProofs == INSTANCE VideoCaptureProofs

(* The loops of enumerate_formats() are in a format, and the innermost in  *)
(* one of its sizes.                                                       *)
LoopInv ==
  /\ loop \in {"sizes", "intervals"} => fmtdesc > 0
  /\ loop = "intervals" => frmsize < Len(Sizes)

(* Where main() is tells what it has done with the capture.                *)
OwnerInv ==
  /\ pc \in {"initialize", "enumerate", "transmitter"} => main = "created"
  /\ pc = "start" => main \in {"created", "mapping", "queueing", "starting"}
  /\ pc \in {"signals", "run"} => main = "started"
  /\ pc = "stop" => main \in {"started", "close", "clear", "join"}
  /\ pc = "stop_context" => main = "stopped"
  /\ pc \in {"destroy", "exited"} =>
       main \in {"created", "stopped", "destroyed"}
  /\ pc = "crashed" => initialized = "failed"

(* From the start of the capture until it has stopped every member exists. *)
MembersInv ==
  /\ pc = "enumerate" => "m_udp_transmit" \notin members
  /\ pc = "start" =>
       \/ members = Members
       \/ "m_udp_transmit" \notin members /\ initialized = "failed"
  /\ pc \in {"signals", "run", "stop", "stop_context"} => members = Members

(* The app's callback runs within the one of the capture.                  *)
CallbackInv == callback # "none" => worker = "on_frame"

AppTypeOK ==
  /\ pc \in {"initialize", "enumerate", "transmitter", "start", "signals",
             "run", "stop", "stop_context", "destroy", "exited", "crashed",
             "killed"}
  /\ initialized \in {"no", "done", "failed"}
  /\ members \in SUBSET Members
  /\ signal \in BOOLEAN
  /\ stopped \in BOOLEAN
  /\ callback \in {"none", "sample", "encode", "transmit", "frame_ended",
                   "returned"}
  /\ nals \in 0 .. MaxNals

AppInv == AppTypeOK /\ OwnerInv /\ MembersInv /\ CallbackInv

FormatsInv == FormatsTypeOK /\ LoopInv

IInv == CaptureProofs!IInv /\ FormatsInv /\ AppInv

-----------------------------------------------------------------------------
(* The capture in the application takes the steps of VideoCapture only.    *)

LEMMA CaptureStep ==
  ASSUME [Next]_vars PROVE [Capture!Next]_(Capture!vars)
<1>1. UNCHANGED captureVars => UNCHANGED Capture!vars
  BY DEF captureVars, Capture!vars, Capture!driverVars, Capture!loopVars
<1>2. UNCHANGED deviceVars => UNCHANGED Capture!vars
  BY <1>1 DEF deviceVars
<1>3. CASE Main
  BY <1>1, <1>2, <1>3
     DEF Main, InitializeApp, InitializeFails, NoCapture, MakeCapture,
         EnumerateFormats, EnumerationFails, NoFormats, SelectFormat,
         NoTransmitter, Initialized, StartWithoutTransmitter, StartStreaming,
         RunContext, HandleSignal, StopCapture, StopContext, DestroyMember,
         DestroyCapture, Exit, Capture!Next, Capture!Owner
<1>4. CASE Worker
  BY <1>2, <1>4
     DEF Worker, ReadFrames, CaptureSteps, OnFrame, Callback, ProcessFrame,
         OnNalEncoded, Transmitted, OnFrameEnded, FrameEnded,
         CallbackReturns, Capture!Next, Capture!Worker
<1>5. CASE Signal
  BY <1>2, <1>5 DEF Signal
<1>6. CASE CaptureFrame
  BY <1>6 DEF CaptureFrame, Capture!Next
<1>7. CASE UNCHANGED vars
  BY <1>2, <1>7 DEF vars
<1> QED
  BY <1>3, <1>4, <1>5, <1>6, <1>7 DEF Next

(* The invariant was proved of the capture in an instance of its own.      *)
LEMMA SameCapture ==
  /\ Capture!Init => CaptureProofs!Init
  /\ [Capture!Next]_(Capture!vars) => [CaptureProofs!Next]_(CaptureProofs!vars)
  /\ CaptureProofs!TypeOK => Capture!TypeOK
<1>1. Capture!Init => CaptureProofs!Init
  BY DEF Capture!Init, CaptureProofs!Init, Capture!V4lFd, CaptureProofs!V4lFd
<1>2. [Capture!Next]_(Capture!vars) => [CaptureProofs!Next]_(CaptureProofs!vars)
  BY DEF Capture!RequestBuffersFails, CaptureProofs!RequestBuffersFails,
         Capture!RequestBuffers, CaptureProofs!RequestBuffers,
         Capture!MapBuffer, CaptureProofs!MapBuffer,
         Capture!MapFails, CaptureProofs!MapFails,
         Capture!QueueBuffer, CaptureProofs!QueueBuffer,
         Capture!QueueFails, CaptureProofs!QueueFails,
         Capture!StreamOn, CaptureProofs!StreamOn,
         Capture!StartThread, CaptureProofs!StartThread,
         Capture!Start, CaptureProofs!Start,
         Capture!close_v4l_fd, CaptureProofs!close_v4l_fd,
         Capture!CaptureFrame, CaptureProofs!CaptureFrame,
         Capture!CheckStop, CaptureProofs!CheckStop,
         Capture!CallSelect, CaptureProofs!CallSelect,
         Capture!SelectReady, CaptureProofs!SelectReady,
         Capture!SelectTimeout, CaptureProofs!SelectTimeout,
         Capture!SelectInterrupted, CaptureProofs!SelectInterrupted,
         Capture!Dequeue, CaptureProofs!Dequeue,
         Capture!DequeueFails, CaptureProofs!DequeueFails,
         Capture!OnFrameReturns, CaptureProofs!OnFrameReturns,
         Capture!Requeue, CaptureProofs!Requeue,
         Capture!RequeueFails, CaptureProofs!RequeueFails,
         Capture!ReadFrameFailed, CaptureProofs!ReadFrameFailed,
         Capture!StopNotJoinable, CaptureProofs!StopNotJoinable,
         Capture!RequestStop, CaptureProofs!RequestStop,
         Capture!CloseFd, CaptureProofs!CloseFd, Capture!ClearFd,
         CaptureProofs!ClearFd, Capture!JoinWorker,
         CaptureProofs!JoinWorker, Capture!Destroy,
         CaptureProofs!Destroy, Capture!DestroyStarted,
         CaptureProofs!DestroyStarted, Capture!DestroyUnsetsFd,
         CaptureProofs!DestroyUnsetsFd, Capture!DestroyRequestsStop,
         CaptureProofs!DestroyRequestsStop, Capture!DestroyJoins,
         CaptureProofs!DestroyJoins, Capture!Next,
         CaptureProofs!Next, Capture!Worker, CaptureProofs!Worker,
         Capture!Owner, CaptureProofs!Owner, Capture!Outgoing,
         CaptureProofs!Outgoing, Capture!DeviceReady,
         CaptureProofs!DeviceReady, Capture!Oldest,
         CaptureProofs!Oldest, Capture!Reachable,
         CaptureProofs!Reachable, Capture!NoFd, CaptureProofs!NoFd,
         Capture!V4lFd, CaptureProofs!V4lFd, Capture!vars,
         CaptureProofs!vars, Capture!driverVars,
         CaptureProofs!driverVars, Capture!loopVars,
         CaptureProofs!loopVars
<1>3. CaptureProofs!TypeOK => Capture!TypeOK
  BY DEF Capture!TypeOK, CaptureProofs!TypeOK, Capture!NoFd,
         CaptureProofs!NoFd, Capture!V4lFd, CaptureProofs!V4lFd,
         Capture!Places, CaptureProofs!Places, Capture!WorkerStates,
         CaptureProofs!WorkerStates, Capture!MainStates,
         CaptureProofs!MainStates
<1> QED
  BY <1>1, <1>2, <1>3

LEMMA CaptureInv ==
  /\ Init => CaptureProofs!IInv
  /\ CaptureProofs!IInv /\ [Next]_vars => CaptureProofs!IInv'
<1>1. CaptureProofs!BuffersAssumption /\ CaptureProofs!MaxFramesAssumption
  BY CaptureAssumption
     DEF CaptureProofs!BuffersAssumption, CaptureProofs!MaxFramesAssumption
<1>2. Init => CaptureProofs!IInv
  BY <1>1, SameCapture, CaptureProofs!InitIInv
     DEF Init, CaptureProofs!BuffersAssumption,
         CaptureProofs!MaxFramesAssumption
<1>3. CaptureProofs!IInv /\ [Next]_vars => CaptureProofs!IInv'
  BY <1>1, SameCapture, CaptureStep, CaptureProofs!NextIInv
     DEF CaptureProofs!BuffersAssumption, CaptureProofs!MaxFramesAssumption
<1> QED
  BY <1>2, <1>3

-----------------------------------------------------------------------------
(* Enumerating formats.                                                    *)

LEMMA CameraFacts ==
  ASSUME NEW c \in Cameras
  PROVE  /\ Len(c) \in Nat /\ DOMAIN c = 1 .. Len(c)
         /\ \A f \in 1 .. Len(c) :
              /\ Len(c[f].sizes) \in Nat
              /\ \A i \in 1 .. Len(c[f].sizes) :
                   c[f].sizes[i].intervals \in Nat
<1> DEFINE SizeType ==
             [type : {"discrete", "stepwise", "continuous"},
              interval_type : {"discrete", "stepwise", "continuous"},
              intervals : Nat]
<1>1. PICK S : c \in Seq(S)
  BY CamerasAssumption
<1>2. Len(c) \in Nat /\ DOMAIN c = 1 .. Len(c)
  BY <1>1
<1>3. ASSUME NEW f \in 1 .. Len(c)
      PROVE  c[f].sizes \in Seq(SizeType)
  BY <1>2, CamerasAssumption
<1>4. ASSUME NEW f \in 1 .. Len(c), NEW i \in 1 .. Len(c[f].sizes)
      PROVE  c[f].sizes[i] \in SizeType
  <2> HIDE DEF SizeType
  <2>1. c[f].sizes \in Seq(SizeType)
    BY <1>3
  <2> QED
    BY <2>1
<1> QED
  BY <1>2, <1>3, <1>4

LEMMA InitFormats ==
  ASSUME FormatsInit PROVE FormatsInv
<1>1. Len(camera) \in Nat
  BY CameraFacts DEF FormatsInit
<1>2. fmtdesc = 0 /\ result = <<>> /\ loop = "formats"
  BY DEF FormatsInit
<1>3. result = [i \in 1 .. fmtdesc |-> camera[i].pixelformat]
  BY <1>2
<1> QED
  BY <1>1, <1>2, <1>3 DEF FormatsInit, FormatsInv, FormatsTypeOK, LoopInv

(* The bounds of the index of a size and of an interval.                   *)
LEMMA LoopFacts ==
  ASSUME FormatsInv
  PROVE  /\ Len(camera) \in Nat /\ fmtdesc \in Nat
         /\ loop \in {"sizes", "intervals"} =>
              Len(Sizes) \in Nat /\ frmsize \in Nat
         /\ loop = "intervals" => Size.intervals \in Nat
<1>1. Len(camera) \in Nat /\ fmtdesc \in 0 .. Len(camera)
  BY CameraFacts DEF FormatsInv, FormatsTypeOK
<1>2. CASE loop \in {"sizes", "intervals"}
  <2>1. fmtdesc \in 1 .. Len(camera)
    BY <1>1, <1>2 DEF FormatsInv, LoopInv
  <2>2. Len(Sizes) \in Nat
    BY <2>1, CameraFacts DEF Sizes, FormatsInv, FormatsTypeOK
  <2>3. frmsize \in Nat
    BY <1>2, <2>2 DEF FormatsInv, FormatsTypeOK
  <2>4. loop = "intervals" => frmsize + 1 \in 1 .. Len(Sizes)
    BY <2>2, <2>3 DEF FormatsInv, LoopInv
  <2>5. loop = "intervals" => Size.intervals \in Nat
    BY <2>1, <2>4, CameraFacts DEF Sizes, Size, FormatsInv, FormatsTypeOK
  <2> QED
    BY <1>1, <2>2, <2>3, <2>5
<1> QED
  BY <1>1, <1>2

LEMMA EnumerateKeepsFormatsInv ==
  ASSUME FormatsInv, Enumerate \/ EnumFails PROVE FormatsInv'
<1> USE DEF FormatsInv, FormatsTypeOK, LoopInv
<1>1. CASE EnumFormat
  <2>1. /\ fmtdesc' = fmtdesc + 1 /\ fmtdesc' \in 1 .. Len(camera)
        /\ camera' = camera /\ format' = format
        /\ loop' = "sizes" /\ frmsize' = 0
        /\ result' = Append(result, camera[fmtdesc'].pixelformat)
    BY <1>1, LoopFacts DEF EnumFormat
  <2>2. Len(Sizes') \in Nat
    BY <2>1, CameraFacts DEF Sizes
  <2>3. result' = [i \in 1 .. fmtdesc' |-> camera[i].pixelformat]
    <3> DEFINE format_(i) == camera[i].pixelformat
               formats == {format_(i) : i \in 1 .. fmtdesc'}
    <3>1. result = [i \in 1 .. fmtdesc |-> format_(i)] /\ fmtdesc \in Nat
      BY LoopFacts
    <3>2. \A i \in 1 .. fmtdesc : format_(i) \in formats
      BY <2>1, <3>1
    <3>3. result \in Seq(formats) /\ Len(result) = fmtdesc
      BY <3>1, <3>2
    <3>4. format_(fmtdesc') \in formats
      BY <2>1
    <3> HIDE DEF format_, formats
    <3>5. /\ Append(result, format_(fmtdesc')) \in Seq(formats)
          /\ Len(Append(result, format_(fmtdesc'))) = fmtdesc'
          /\ \A i \in 1 .. fmtdesc' :
               Append(result, format_(fmtdesc'))[i] = format_(i)
      BY <2>1, <3>1, <3>3, <3>4
    <3>6. Append(result, format_(fmtdesc'))
            = [i \in 1 .. fmtdesc' |-> format_(i)]
      BY <2>1, <3>1, <3>5
    <3> QED
      BY <2>1, <3>6 DEF format_
  <2> QED
    BY <1>1, <2>1, <2>2, <2>3, LoopFacts
<1>2. CASE EnumDiscreteSize
  <2>1. /\ loop = "sizes" /\ loop' = "intervals" /\ frame_interval' = 0
        /\ frmsize < Len(Sizes)
        /\ UNCHANGED <<camera, fmtdesc, frmsize, result, format>>
        /\ Sizes' = Sizes /\ Size' = Size
    BY <1>2 DEF EnumDiscreteSize, Sizes, Size
  <2>2. frmsize + 1 \in 1 .. Len(Sizes) /\ fmtdesc \in 1 .. Len(camera)
    BY <2>1, LoopFacts
  <2>3. Size.intervals \in Nat
    BY <2>2, CameraFacts DEF Sizes, Size
  <2> QED
    BY <2>1, <2>3, LoopFacts
<1>3. CASE EnumOtherSize
  <2>1. Sizes' = Sizes
    BY <1>3 DEF EnumOtherSize, Sizes
  <2> QED
    BY <1>3, <2>1, LoopFacts DEF EnumOtherSize
<1>4. CASE EnumInterval
  <2>1. Sizes' = Sizes /\ Size' = Size
    BY <1>4 DEF EnumInterval, Sizes, Size
  <2>2. frame_interval' \in 0 .. Size.intervals
    BY <1>4, LoopFacts DEF EnumInterval
  <2> QED
    BY <1>4, <2>1, <2>2, LoopFacts DEF EnumInterval
<1>5. CASE LeaveIntervals
  <2>1. Sizes' = Sizes
    BY <1>5 DEF LeaveIntervals, Sizes
  <2> QED
    BY <1>5, <2>1, LoopFacts DEF LeaveIntervals
<1>6. CASE LeaveSizes
  BY <1>6 DEF LeaveSizes
<1>7. CASE LeaveFormats
  BY <1>7 DEF LeaveFormats
<1> QED
  BY <1>1, <1>2, <1>3, <1>4, <1>5, <1>6, <1>7
     DEF Enumerate, EndOfLoop, EnumFails

LEMMA SelectKeepsFormatsInv ==
  ASSUME FormatsInv, select_format PROVE FormatsInv'
<1>1. /\ UNCHANGED <<camera, loop, fmtdesc, frmsize, frame_interval, result>>
      /\ result # <<>> /\ format' \in {format, result[Len(result)]}
  BY DEF select_format
<1>2. format' \in {NoFormat} \cup {camera[i].pixelformat : i \in DOMAIN camera}
  <2>1. /\ result = [i \in 1 .. fmtdesc |-> camera[i].pixelformat]
        /\ fmtdesc \in 0 .. Len(camera)
    BY DEF FormatsInv, FormatsTypeOK
  <2>2. fmtdesc # 0
    BY <1>1, <2>1
  <2>3. Len(result) = fmtdesc /\ fmtdesc \in 1 .. Len(camera)
    BY <2>1, <2>2, LoopFacts
  <2>4. result[Len(result)] = camera[fmtdesc].pixelformat
    BY <2>1, <2>3
  <2>5. fmtdesc \in DOMAIN camera
    BY <2>3, CameraFacts DEF FormatsInv, FormatsTypeOK
  <2> QED
    BY <1>1, <2>4, <2>5 DEF FormatsInv, FormatsTypeOK
<1> QED
  BY <1>1, <1>2 DEF FormatsInv, FormatsTypeOK, LoopInv, Sizes, Size

LEMMA FormatsUnchanged ==
  ASSUME FormatsInv, UNCHANGED formatVars PROVE FormatsInv'
BY DEF FormatsInv, FormatsTypeOK, LoopInv, formatVars, Sizes, Size

LEMMA NextFormatsInv ==
  ASSUME FormatsInv, [Next]_vars PROVE FormatsInv'
<1>1. CASE EnumerateFormats \/ EnumerationFails
  BY <1>1, EnumerateKeepsFormatsInv DEF EnumerateFormats, EnumerationFails
<1>2. CASE SelectFormat
  BY <1>2, SelectKeepsFormatsInv DEF SelectFormat
<1>3. UNCHANGED formatVars \/ EnumerateFormats \/ EnumerationFails \/ SelectFormat
  BY DEF vars, deviceVars, Next, Main, InitializeApp, InitializeFails,
         NoCapture, MakeCapture, NoFormats, NoTransmitter, Initialized,
         StartWithoutTransmitter, StartStreaming, RunContext, HandleSignal,
         StopCapture, StopContext, DestroyMember, DestroyCapture, Exit,
         Signal, Worker, ReadFrames, OnFrame, Callback, ProcessFrame,
         OnNalEncoded, Transmitted, OnFrameEnded, FrameEnded,
         CallbackReturns, CaptureFrame
<1> QED
  BY <1>1, <1>2, <1>3, FormatsUnchanged

-----------------------------------------------------------------------------
(* main() and the worker.                                                  *)

LEMMA MembersAre ==
  /\ Members = {"m_encoder", "m_capture", "m_udp_transmit",
                "m_capture_fps", "m_encode_fps"}
  /\ Counters \subseteq Members
  /\ InUse \subseteq Members
<1>1. Members = {"m_encoder", "m_capture", "m_udp_transmit",
                 "m_capture_fps", "m_encode_fps"}
  BY DEF Members, Order
<1> QED
  BY <1>1 DEF Counters, InUse

LEMMA InitAppInv ==
  ASSUME Init PROVE AppInv
<1>1. AppTypeOK
  <2>1. nals \in 0 .. MaxNals
    BY MaxNalsAssumption DEF Init
  <2> QED
    BY <2>1, MembersAre DEF Init, AppTypeOK
<1>2. OwnerInv /\ MembersInv /\ CallbackInv
  BY DEF Init, Capture!Init, OwnerInv, MembersInv, CallbackInv
<1> QED
  BY <1>1, <1>2 DEF AppInv

(* What the steps of main() mean for the worker: it is there from the      *)
(* start of the capture on, and only until stop() has returned.            *)
LEMMA WorkerFacts ==
  ASSUME CaptureProofs!IInv
  PROVE  /\ main \in {"created", "mapping", "queueing", "starting"} =>
              worker = "none"
         /\ main \in {"stopped", "destroyed"} => worker \in {"none", "done"}
BY DEF CaptureProofs!IInv, CaptureProofs!StartInv,
       CaptureProofs!QuietAfterStop

LEMMA MainKeepsAppInv ==
  ASSUME CaptureProofs!IInv, AppInv, Main PROVE AppInv'
<1> USE MembersAre, WorkerFacts
    DEF AppInv, AppTypeOK, OwnerInv, MembersInv, CallbackInv, deviceVars,
        captureVars, appVars, frameVars
<1>1. CASE InitializeFails
  BY <1>1 DEF InitializeFails
<1>2. CASE NoCapture
  BY <1>2 DEF NoCapture, Counters
<1>3. CASE MakeCapture
  BY <1>3 DEF MakeCapture, Counters
<1>4. CASE EnumerateFormats \/ EnumerationFails
  BY <1>4 DEF EnumerateFormats, EnumerationFails
<1>5. CASE NoFormats
  BY <1>5 DEF NoFormats
<1>6. CASE SelectFormat
  BY <1>6 DEF SelectFormat
<1>7. CASE NoTransmitter
  BY <1>7 DEF NoTransmitter
<1>8. CASE Initialized
  BY <1>8 DEF Initialized
<1>9. CASE StartWithoutTransmitter
  BY <1>9 DEF StartWithoutTransmitter
<1>10. CASE StartStreaming
  <2>1. /\ main' \in {"mapping", "queueing", "starting", "started"}
        /\ callback = "none"
    BY <1>10
       DEF StartStreaming, Capture!Start, Capture!RequestBuffersFails,
           Capture!RequestBuffers, Capture!MapBuffer, Capture!MapFails,
           Capture!QueueBuffer, Capture!QueueFails, Capture!StreamOn,
           Capture!StartThread
  <2> QED
    BY <1>10, <2>1 DEF StartStreaming
<1>11. CASE RunContext
  BY <1>11 DEF RunContext
<1>12. CASE HandleSignal
  BY <1>12 DEF HandleSignal
<1>13. CASE StopCapture
  <2>1. /\ worker' = worker
        /\ main' \in {"close", "clear", "join", "stopped"}
    BY <1>13
       DEF StopCapture, Capture!StopNotJoinable, Capture!RequestStop,
           Capture!CloseFd, Capture!ClearFd, Capture!JoinWorker
  <2> QED
    BY <1>13, <2>1 DEF StopCapture
<1>14. CASE StopContext
  BY <1>14 DEF StopContext
<1>15. CASE DestroyMember
  BY <1>15 DEF DestroyMember
<1>16. CASE DestroyCapture
  <2>1. main' = "destroyed" /\ worker' = worker
    BY <1>16
       DEF DestroyCapture, Capture!Destroy, Capture!DestroyStarted,
           Capture!DestroyUnsetsFd, Capture!DestroyRequestsStop,
           Capture!DestroyJoins
  <2> QED
    BY <1>16, <2>1 DEF DestroyCapture
<1>17. CASE Exit
  BY <1>17 DEF Exit
<1> QED
  BY <1>1, <1>2, <1>3, <1>4, <1>5, <1>6, <1>7, <1>8, <1>9, <1>10, <1>11,
     <1>12, <1>13, <1>14, <1>15, <1>16, <1>17 DEF Main, InitializeApp

LEMMA WorkerKeepsAppInv ==
  ASSUME AppInv, Worker PROVE AppInv'
<1> USE DEF AppInv, AppTypeOK, OwnerInv, MembersInv, CallbackInv, deviceVars,
        captureVars, appVars, frameVars
<1>1. CASE ReadFrames
  <2>1. main' = main /\ worker # "on_frame"
    BY <1>1
       DEF ReadFrames, CaptureSteps, Capture!CheckStop, Capture!CallSelect,
           Capture!SelectReady, Capture!SelectTimeout,
           Capture!SelectInterrupted, Capture!DequeueFails, Capture!Requeue,
           Capture!RequeueFails, Capture!ReadFrameFailed
  <2> QED
    BY <1>1, <2>1 DEF ReadFrames
<1>2. CASE OnFrame
  BY <1>2 DEF OnFrame, Capture!Dequeue
<1>3. CASE Callback
  <2>1. CASE ProcessFrame
    BY <2>1 DEF ProcessFrame
  <2>2. CASE OnNalEncoded
    <3>1. nals' \in 0 .. MaxNals
      BY <2>2, MaxNalsAssumption DEF OnNalEncoded
    <3> QED
      BY <2>2, <3>1 DEF OnNalEncoded
  <2>3. CASE Transmitted \/ OnFrameEnded \/ FrameEnded
    BY <2>3 DEF Transmitted, OnFrameEnded, FrameEnded
  <2> QED
    BY <1>3, <2>1, <2>2, <2>3 DEF Callback
<1>4. CASE CallbackReturns
  BY <1>4 DEF CallbackReturns, Capture!OnFrameReturns
<1> QED
  BY <1>1, <1>2, <1>3, <1>4 DEF Worker

LEMMA NextAppInv ==
  ASSUME CaptureProofs!IInv, AppInv, [Next]_vars PROVE AppInv'
<1> USE DEF AppInv, AppTypeOK, OwnerInv, MembersInv, CallbackInv, deviceVars,
        captureVars, appVars, frameVars
<1>1. CASE Main
  BY <1>1, MainKeepsAppInv
<1>2. CASE Signal
  BY <1>2 DEF Signal, Handled
<1>3. CASE Worker
  BY <1>3, WorkerKeepsAppInv
<1>4. CASE CaptureFrame
  BY <1>4 DEF CaptureFrame, Capture!CaptureFrame
<1>5. CASE UNCHANGED vars
  BY <1>5 DEF vars
<1> QED
  BY <1>1, <1>2, <1>3, <1>4, <1>5 DEF Next

LEMMA IInvHolds == Spec => []IInv
<1>1. Init => IInv
  BY CaptureInv, InitFormats, InitAppInv DEF Init, IInv
<1>2. IInv /\ [Next]_vars => IInv'
  BY CaptureInv, NextFormatsInv, NextAppInv DEF IInv
<1> QED
  BY <1>1, <1>2, PTL DEF Spec

-----------------------------------------------------------------------------
(* The variables of the application, of its capture and of the enumeration *)
(* of formats keep their types: no index runs out of what the camera has,  *)
(* and the list of formats is what it has, in order.                       *)
THEOREM TypeCorrect == Spec => []TypeOK
<1>1. IInv => TypeOK
  BY SameCapture
     DEF IInv, CaptureProofs!IInv, FormatsInv, AppInv, AppTypeOK, TypeOK
<1> QED
  BY <1>1, IInvHolds, PTL

(* The callback on the worker thread never uses a member that has been     *)
(* destroyed or never was made, although the members it uses are destroyed *)
(* before the capture that calls it.                                       *)
THEOREM MembersAreAlive == Spec => []MembersOutliveCallback
<1>1. ASSUME IInv PROVE MembersOutliveCallback
  <2> SUFFICES ASSUME Running, callback # "none"
               PROVE  InUse \subseteq members
    BY DEF MembersOutliveCallback, InUse
  <2>1. worker = "on_frame"
    BY <1>1 DEF IInv, AppInv, CallbackInv
  <2>2. main \notin {"created", "mapping", "queueing", "starting",
                      "stopped", "destroyed"}
    BY <1>1, <2>1, WorkerFacts DEF IInv
  <2>3. pc \in {"signals", "run", "stop", "stop_context"}
    BY <1>1, <2>2 DEF Running, IInv, AppInv, AppTypeOK, OwnerInv
  <2> QED
    BY <1>1, <2>3, MembersAre DEF IInv, AppInv, MembersInv
<1> QED
  BY <1>1, IInvHolds, PTL

(* No path through main() destroys a capture that runs: it was never       *)
(* started, or app.stop() has joined its worker.                           *)
THEOREM CaptureIsStoppedFirst == Spec => []CaptureStoppedFirst
<1>1. IInv => CaptureStoppedFirst
  BY WorkerFacts DEF IInv, AppInv, OwnerInv, CaptureStoppedFirst
<1> QED
  BY <1>1, IInvHolds, PTL

(* main() calls through the null transmitter only when initialize() has    *)
(* failed and said that it succeeded; after any other initialization the   *)
(* transmitter exists when async_start_streaming() uses it.                *)
THEOREM OnlyFailedInitCrashes ==
  Spec => [](pc = "crashed" => initialized = "failed")
<1>1. IInv => (pc = "crashed" => initialized = "failed")
  BY DEF IInv, AppInv, OwnerInv
<1> QED
  BY <1>1, IInvHolds, PTL

(* main(), the signals and the worker use the capture only as VideoCapture *)
(* lets its owner use it: every behaviour of the application is one of the *)
(* capture, whose theorems therefore hold in the application.              *)
THEOREM CaptureIsUsedAsModelled == Spec => Capture!Spec
<1>1. Init => Capture!Init
  BY DEF Init
<1>2. [Next]_vars => [Capture!Next]_(Capture!vars)
  BY CaptureStep
<1> QED
  BY <1>1, <1>2, PTL DEF Spec, Capture!Spec

(* In the application, too, the driver does not overwrite the frame the    *)
(* encoder reads, the ring loses no buffer, the callback is given mapped   *)
(* memory and comes no more after app.stop(), and a destroyed capture has  *)
(* closed its descriptor.                                                  *)
THEOREM CaptureIsSafe ==
  Spec => [](/\ Capture!FrameStable /\ Capture!NoBufferLeak
             /\ Capture!MappedBeforeUse /\ Capture!QuietAfterStop
             /\ Capture!NoDescriptorLeak)
<1>1. ASSUME CaptureProofs!IInv
      PROVE  Capture!FrameStable /\ Capture!MappedBeforeUse
  BY <1>1
     DEF CaptureProofs!IInv, CaptureProofs!HeldInv, Capture!FrameStable,
         CaptureProofs!MappedBeforeUse, Capture!MappedBeforeUse
<1>2. ASSUME CaptureProofs!IInv
      PROVE  /\ Capture!NoBufferLeak /\ Capture!QuietAfterStop
             /\ Capture!NoDescriptorLeak
  BY <1>2
     DEF CaptureProofs!IInv, CaptureProofs!NoBufferLeak, Capture!NoBufferLeak,
         CaptureProofs!QuietAfterStop, Capture!QuietAfterStop,
         CaptureProofs!NoDescriptorLeak, Capture!NoDescriptorLeak,
         CaptureProofs!NoFd, Capture!NoFd
<1>3. IInv => /\ Capture!FrameStable /\ Capture!NoBufferLeak
              /\ Capture!MappedBeforeUse /\ Capture!QuietAfterStop
              /\ Capture!NoDescriptorLeak
  BY <1>1, <1>2 DEF IInv
<1> QED
  BY <1>3, IInvHolds, PTL

(* The callback of the application gets the camera's frames as FrameSource *)
(* promises: one at a time, in the order captured, none twice, and none    *)
(* once app.stop() has returned.                                           *)
THEOREM CallbackGetsFrames == Spec => Capture!ImplementsSource
<1>1. Init => CaptureProofs!Init
  BY SameCapture DEF Init
<1>2. [Next]_vars => [CaptureProofs!Next]_(CaptureProofs!vars)
  BY CaptureStep, SameCapture
<1>3. Spec => CaptureProofs!Spec
  BY <1>1, <1>2, PTL DEF Spec, CaptureProofs!Spec
<1>4. CaptureProofs!Spec => CaptureProofs!ImplementsSource
  BY CaptureAssumption, CaptureProofs!CaptureIsFrameSource
     DEF CaptureProofs!BuffersAssumption, CaptureProofs!MaxFramesAssumption
<1>5. CaptureProofs!Source!Init => Capture!Source!Init
  BY DEF CaptureProofs!Source!Init, Capture!Source!Init
<1>6. [CaptureProofs!Source!Next]_(CaptureProofs!Source!sourceVars)
        => [Capture!Source!Next]_(Capture!Source!sourceVars)
  BY DEF CaptureProofs!Source!Next, Capture!Source!Next,
         CaptureProofs!Source!Capture, Capture!Source!Capture,
         CaptureProofs!Source!Deliver, Capture!Source!Deliver,
         CaptureProofs!Source!Return, Capture!Source!Return,
         CaptureProofs!Source!Stop, Capture!Source!Stop,
         CaptureProofs!Source!sourceVars, Capture!Source!sourceVars
<1>7. CaptureProofs!ImplementsSource => Capture!ImplementsSource
  BY <1>5, <1>6, PTL
     DEF CaptureProofs!ImplementsSource, Capture!ImplementsSource,
         CaptureProofs!Source!Spec, Capture!Source!Spec
<1> QED
  BY <1>3, <1>4, <1>7
=============================================================================
