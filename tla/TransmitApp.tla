---------------------------- MODULE TransmitApp -----------------------------
(***************************************************************************)
(* stream_transmit (src/src/stream_transmit/stream_transmit_main.cpp):     *)
(* main() builds the StreamTransmitApp, starts the capture, runs the       *)
(* io_context until a signal comes, and destroys everything; meanwhile the *)
(* capture's worker thread calls back into the app, which encodes and      *)
(* transmits on that thread.                                               *)
(*                                                                         *)
(* The capture is the component of VideoCapture: its worker and its driver *)
(* take their own steps, and main() takes the owner's steps where the      *)
(* program calls start(), stop() and the destructor.  The formats are      *)
(* enumerated by VideoFormats.                                             *)
(***************************************************************************)
EXTENDS VideoFormats

CONSTANTS
  Buffers, NoBuf, MaxFrames,  \* of VideoCapture
  MaxNals                     \* bound: NAL units of a frame

ASSUME CaptureAssumption == NoBuf \notin Buffers /\ MaxFrames \in Nat
ASSUME MaxNalsAssumption == MaxNals \in Nat

VARIABLES
  m_v4l_fd, fdOpen, m_buffers, streaming, place, image, captured, worker,
  watching, buff, lastFrame, stop_requested, main,  \* of VideoCapture
  pc,           \* where main() is
  initialized,  \* what initialize() did: "no", "done" or "failed"
  members,      \* the members of the app that exist (and are not null)
  signal,       \* a signal waits for its handler
  stopped,      \* ctx.stop() was called
  callback,     \* what the capture's callback is doing
  nals          \* external: NAL units x264 still has for this frame

Capture == INSTANCE VideoCapture

captureVars == <<m_v4l_fd, fdOpen, m_buffers, streaming, place, image,
                 captured, worker, watching, buff, lastFrame, stop_requested,
                 main>>
appVars     == <<pc, initialized, members, signal, stopped>>
frameVars   == <<callback, nals>>
deviceVars == <<captureVars, formatVars>>
vars == <<deviceVars, appVars, frameVars>>

(* The members of StreamTransmitApp, in the order of their declaration. *)
Order == [m_encoder |-> 1, m_capture |-> 2, m_udp_transmit |-> 3,
          m_capture_fps |-> 4, m_encode_fps |-> 5]

Members  == DOMAIN Order
Counters == {"m_capture_fps", "m_encode_fps"}

(* The member the callback is using. *)
InUse ==
  CASE callback = "sample"      -> {"m_capture_fps"}
    [] callback = "encode"      -> {"m_encoder"}
    [] callback = "transmit"    -> {"m_encoder", "m_udp_transmit"}
    [] callback = "frame_ended" -> {"m_encoder", "m_encode_fps"}
    [] OTHER                    -> {}

TypeOK ==
  /\ Capture!TypeOK
  /\ FormatsTypeOK
  /\ pc \in {"initialize", "enumerate", "transmitter", "start", "signals",
             "run", "stop", "stop_context", "destroy", "exited", "crashed",
             "killed"}
  /\ initialized \in {"no", "done", "failed"}
  /\ members \in SUBSET Members
  /\ signal \in BOOLEAN
  /\ stopped \in BOOLEAN
  /\ callback \in {"none", "sample", "encode", "transmit", "frame_ended",
                   "returned"}
  /\ nals \in 0 .. MaxNals

Init ==
  /\ Capture!Init
  /\ FormatsInit
  /\ pc = "initialize"
  /\ initialized = "no"
  /\ members = Counters
  /\ signal = FALSE
  /\ stopped = FALSE
  /\ callback = "none"
  /\ nals = 0

(* The process exists; its threads run. *)
Running == pc \notin {"exited", "crashed", "killed"}

-----------------------------------------------------------------------------
(* initialize() *)

(* No encoder or no device: `return false`, and main() returns -1. *)
InitializeFails ==
  /\ pc = "initialize"
  /\ \E made \in {{}, {"m_encoder"}} : members' = Counters \cup made
  /\ initialized' = "failed"
  /\ pc' = "destroy"
  /\ UNCHANGED <<deviceVars, signal, stopped, frameVars>>

(* No capture: `return -1`, which as a bool is true: main() goes on. *)
NoCapture ==
  /\ pc = "initialize"
  /\ members' = Counters \cup {"m_encoder"}
  /\ initialized' = "failed"
  /\ pc' = "start"
  /\ UNCHANGED <<deviceVars, signal, stopped, frameVars>>

MakeCapture ==
  /\ pc = "initialize"
  /\ members' = Counters \cup {"m_encoder", "m_capture"}
  /\ pc' = "enumerate"
  /\ UNCHANGED <<deviceVars, initialized, signal, stopped, frameVars>>

EnumerateFormats ==
  /\ pc = "enumerate"
  /\ Enumerate
  /\ UNCHANGED <<captureVars, appVars, frameVars>>

EnumerationFails ==
  /\ pc = "enumerate"
  /\ EnumFails
  /\ UNCHANGED <<captureVars, appVars, frameVars>>

(* No formats: `return -1` again. *)
NoFormats ==
  /\ pc = "enumerate"
  /\ loop = "done"
  /\ result = <<>>
  /\ initialized' = "failed"
  /\ pc' = "start"
  /\ UNCHANGED <<deviceVars, members, signal, stopped, frameVars>>

SelectFormat ==
  /\ pc = "enumerate"
  /\ select_format
  /\ pc' = "transmitter"
  /\ UNCHANGED <<captureVars, initialized, members, signal, stopped,
                 frameVars>>

(* No transmit socket: `return false` *)
NoTransmitter ==
  /\ pc = "transmitter"
  /\ initialized' = "failed"
  /\ pc' = "destroy"
  /\ UNCHANGED <<deviceVars, members, signal, stopped, frameVars>>

Initialized ==
  /\ pc = "transmitter"
  /\ members' = Members
  /\ initialized' = "done"
  /\ pc' = "start"
  /\ UNCHANGED <<deviceVars, signal, stopped, frameVars>>

InitializeApp ==
  \/ InitializeFails \/ NoCapture \/ MakeCapture
  \/ EnumerateFormats \/ EnumerationFails \/ NoFormats \/ SelectFormat
  \/ NoTransmitter \/ Initialized

-----------------------------------------------------------------------------
(* async_start_streaming(), the signals and the event loop *)

(* async_initialize of a transmitter that was never made: a null pointer   *)
(* is called through.                                                      *)
StartWithoutTransmitter ==
  /\ pc = "start"
  /\ "m_udp_transmit" \notin members
  /\ pc' = "crashed"
  /\ UNCHANGED <<deviceVars, initialized, members, signal, stopped, frameVars>>

(* async_initialize calls back at once, and m_capture->start() is called;  *)
(* when it returns, nobody asks whether the capture did start.             *)
StartStreaming ==
  /\ pc = "start"
  /\ "m_udp_transmit" \in members
  /\ Capture!Start
  /\ pc' = IF main' = "started" THEN "signals" ELSE pc
  /\ UNCHANGED <<formatVars, initialized, members, signal, stopped, frameVars>>

(* The handler for SIGTERM and SIGINT is installed, ctx.run() is called. *)
RunContext ==
  /\ pc = "signals"
  /\ pc' = "run"
  /\ UNCHANGED <<deviceVars, initialized, members, signal, stopped, frameVars>>

Handled == pc \in {"run", "stop", "stop_context"}

(* A signal while the signal_set exists waits for ctx.run(), which takes   *)
(* the first only; before and after that it ends the process, worker and   *)
(* all.                                                                    *)
Signal ==
  /\ Running
  /\ pc' = IF Handled THEN pc ELSE "killed"
  /\ signal' = Handled
  /\ UNCHANGED <<deviceVars, initialized, members, stopped, frameVars>>

(* Faulty variant: the handler stops the context, not the app. *)
HandleSignalNoStop ==
  /\ pc = "run"
  /\ signal
  /\ pc' = "stop_context"
  /\ UNCHANGED <<deviceVars, initialized, members, signal, stopped, frameVars>>

(* ctx.run() calls the handler, which calls app.stop().  (Nothing cancels  *)
(* the wait for signals, so the handler gets no error.)                    *)
HandleSignal ==
  /\ pc = "run"
  /\ signal
  /\ pc' = "stop"
  /\ UNCHANGED <<deviceVars, initialized, members, signal, stopped, frameVars>>

(* m_capture->stop() *)
StopCapture ==
  /\ pc = "stop"
  /\ \/ Capture!StopNotJoinable \/ Capture!RequestStop
     \/ Capture!CloseFd \/ Capture!ClearFd \/ Capture!JoinWorker
  /\ pc' = IF main' = "stopped" THEN "stop_context" ELSE pc
  /\ UNCHANGED <<formatVars, initialized, members, signal, stopped, frameVars>>

(* Faulty variant: the handler does not stop the context. *)
ContextKeptRunning ==
  /\ pc = "stop_context"
  /\ pc' = "run"
  /\ signal' = FALSE
  /\ UNCHANGED <<deviceVars, initialized, members, stopped, frameVars>>

(* ctx.stop(): run() returns in spite of the io_context::work.  The locals *)
(* of main() declared after the app go.                                    *)
StopContext ==
  /\ pc = "stop_context"
  /\ stopped' = TRUE
  /\ pc' = "destroy"
  /\ UNCHANGED <<deviceVars, initialized, members, signal, frameVars>>

-----------------------------------------------------------------------------
(* ~StreamTransmitApp: the members in the reverse order of declaration *)

Last(m) == m \in members /\ \A o \in members : Order[o] <= Order[m]

DestroyMember ==
  /\ pc = "destroy"
  /\ \E m \in Members \ {"m_capture"} :
       /\ Last(m)
       /\ members' = members \ {m}
  /\ UNCHANGED <<deviceVars, pc, initialized, signal, stopped, frameVars>>

(* ~VideoCaptureImpl, as many steps as it takes *)
DestroyCapture ==
  /\ pc = "destroy"
  /\ Last("m_capture")
  /\ \/ Capture!Destroy
     \/ Capture!DestroyStarted \/ Capture!DestroyUnsetsFd
     \/ Capture!DestroyRequestsStop \/ Capture!DestroyJoins
  /\ members' = IF main' = "destroyed" THEN members \ {"m_capture"}
                                       ELSE members
  /\ UNCHANGED <<formatVars, pc, initialized, signal, stopped, frameVars>>

Exit ==
  /\ pc = "destroy"
  /\ members = {}
  /\ pc' = "exited"
  /\ UNCHANGED <<deviceVars, initialized, members, signal, stopped, frameVars>>

Main ==
  \/ InitializeApp
  \/ StartWithoutTransmitter \/ StartStreaming
  \/ RunContext \/ HandleSignal \/ StopCapture \/ StopContext
  \/ DestroyMember \/ DestroyCapture \/ Exit

-----------------------------------------------------------------------------
(* The worker thread: the capture's loop and the app's callback in it *)

CaptureSteps ==
  \/ Capture!CheckStop \/ Capture!CallSelect
  \/ Capture!SelectReady \/ Capture!SelectTimeout
  \/ Capture!SelectInterrupted
  \/ Capture!DequeueFails
  \/ Capture!Requeue \/ Capture!RequeueFails \/ Capture!ReadFrameFailed

ReadFrames ==
  /\ Running
  /\ CaptureSteps
  /\ UNCHANGED <<formatVars, appVars, frameVars>>

(* m_on_frame: m_capture_fps takes a sample. *)
OnFrame ==
  /\ Running
  /\ Capture!Dequeue
  /\ callback' = "sample"
  /\ UNCHANGED <<formatVars, appVars, nals>>

(* m_encoder->process_frame: on_frame_started only logs. *)
ProcessFrame ==
  /\ Running
  /\ callback = "sample"
  /\ callback' = "encode"
  /\ nals' \in 0 .. MaxNals
  /\ UNCHANGED <<deviceVars, appVars>>

(* on_nal_encoded: m_udp_transmit->transmit *)
OnNalEncoded ==
  /\ Running
  /\ callback = "encode"
  /\ nals > 0
  /\ nals' = nals - 1
  /\ callback' = "transmit"
  /\ UNCHANGED <<deviceVars, appVars>>

Transmitted ==
  /\ Running
  /\ callback = "transmit"
  /\ callback' = "encode"
  /\ UNCHANGED <<deviceVars, appVars, nals>>

(* x264 is done with the frame: on_frame_ended takes a sample with         *)
(* m_encode_fps; or it had nothing to say of it, or failed.                *)
OnFrameEnded ==
  /\ Running
  /\ callback = "encode"
  /\ nals = 0
  /\ callback' \in {"frame_ended", "returned"}
  /\ UNCHANGED <<deviceVars, appVars, nals>>

FrameEnded ==
  /\ Running
  /\ callback = "frame_ended"
  /\ callback' = "returned"
  /\ UNCHANGED <<deviceVars, appVars, nals>>

CallbackReturns ==
  /\ Running
  /\ callback = "returned"
  /\ Capture!OnFrameReturns
  /\ callback' = "none"
  /\ UNCHANGED <<formatVars, appVars, nals>>

Callback ==
  \/ ProcessFrame \/ OnNalEncoded \/ Transmitted
  \/ OnFrameEnded \/ FrameEnded

Worker == ReadFrames \/ OnFrame \/ Callback \/ CallbackReturns

CaptureFrame ==
  /\ Running
  /\ Capture!CaptureFrame
  /\ UNCHANGED <<formatVars, appVars, frameVars>>

Next == Main \/ Signal \/ Worker \/ CaptureFrame

(* main() and the worker are scheduled, and an x264 call or a send ends.   *)
(* WF of ReadFrames and of StopCapture is enough: in either thread one     *)
(* step at a time is enabled, except that a signal may interrupt select,   *)
(* which must not happen for ever.                                         *)
Fairness ==
  /\ WF_vars(EnumerateFormats) /\ WF_vars(NoFormats \/ SelectFormat)
  /\ WF_vars(RunContext) /\ WF_vars(HandleSignal)
  /\ WF_vars(StopCapture) /\ WF_vars(StopContext)
  /\ WF_vars(DestroyMember) /\ WF_vars(DestroyCapture) /\ WF_vars(Exit)
  /\ WF_vars(ReadFrames) /\ WF_vars(OnFrame)
  /\ WF_vars(Callback) /\ WF_vars(CallbackReturns)

Spec     == Init /\ [][Next]_vars
FairSpec == Spec /\ Fairness

-----------------------------------------------------------------------------
(* Properties *)

(* The callback, on the worker thread, only uses members that exist.       *)
(* Destruction goes against it: m_udp_transmit and the counters are        *)
(* destroyed before m_capture, whose destructor would end the worker; only *)
(* app.stop() in the signal handler makes it safe.                         *)
MembersOutliveCallback == Running => InUse \subseteq members

(* On every path through main(), failed initializations included, a capture*)
(* that was started has been stopped, and its worker joined, before its    *)
(* destructor runs: the descriptor is never closed there under a worker    *)
(* that nobody has asked to stop.                                          *)
CaptureStoppedFirst ==
  pc \in {"destroy", "exited"} =>
    /\ main \in {"created", "stopped", "destroyed"}
    /\ worker \in {"none", "done"}

(* A signal that finds the event loop running ends the process, through    *)
(* stop() and the destructors unless another one is faster, although       *)
(* stop() waits for the worker without a timeout ("TODO: stop needs to     *)
(* accept timeout").                                                       *)
SignalEndsProcess == (pc = "run" /\ signal) ~> ~Running

(* Looking for formats ends, unless the driver gives intervals that are    *)
(* not discrete: then initialize() asks for the first of them for ever.    *)
EnumerationEnds ==
  (pc = "enumerate") ~>
    \/ pc # "enumerate"
    \/ loop = "intervals" /\ Size.interval_type # "discrete"

(* "Failed initializating app. Exiting..": when initialize() fails, main() *)
(* ends and nothing of the app is started or used.                         *)
FailedInitExits ==
  initialized = "failed" => pc \in {"destroy", "exited", "killed"}
=============================================================================
