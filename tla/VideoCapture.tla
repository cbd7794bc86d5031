---------------------------- MODULE VideoCapture ----------------------------
(***************************************************************************)
(* VideoCaptureImpl (src/src/libns/video_capture.cpp): the Video4Linux     *)
(* buffer ring, the worker thread that reads frames from it, and the       *)
(* thread of main() that starts, stops and destroys the capture.           *)
(*                                                                         *)
(* Three actors interleave: main (Start.., Stop.., Destroy), the worker    *)
(* (the jthread started by start()) and the V4L2 driver, which is external *)
(* code: it moves a buffer from its incoming to its outgoing queue when a  *)
(* frame is captured, and drops the frame when no buffer is queued.        *)
(*                                                                         *)
(* A frame is its capture number.  The pixels of a buffer are the number   *)
(* of the frame the driver last wrote there, image[b].                     *)
(***************************************************************************)
EXTENDS Integers

CONSTANTS
  Buffers,    \* the buffers VIDIOC_REQBUFS allocates in the driver
  NoBuf,      \* no buffer dequeued
  MaxFrames   \* bound: the driver captures at most this many frames

ASSUME BuffersAssumption == NoBuf \notin Buffers
ASSUME MaxFramesAssumption == MaxFrames \in Nat

NoFd  == -1   \* the value close_v4l_fd stores
V4lFd == 3    \* the descriptor open() returned; any number >= 0

VARIABLES
  m_v4l_fd,        \* the member, read by both threads without synchronisation
  fdOpen,          \* the kernel's side: is descriptor V4lFd open
  m_buffers,       \* the buffers that have been mapped
  streaming,       \* VIDIOC_STREAMON succeeded
  place,           \* who has each buffer
  image,           \* the frame each buffer holds
  captured,        \* frames captured by the driver so far
  worker,          \* where the worker thread is
  watching,        \* the select in progress watches the device
  buff,            \* the buffer the worker dequeued (buff.index)
  lastFrame,       \* the frame m_on_frame was last called with
  stop_requested,  \* the stop token of m_working_thread
  main             \* where the owner of the object is

driverVars == <<streaming, place, image, captured>>
loopVars   == <<watching, buff, lastFrame>>
vars == <<m_v4l_fd, fdOpen, m_buffers, driverVars, worker, loopVars,
          stop_requested, main>>

Places == {"user", "incoming", "outgoing", "dequeued"}

WorkerStates ==
  {"none", "check", "arm", "select", "dequeue", "on_frame", "requeue",
   "failed", "done"}

MainStates ==
  {"created", "mapping", "queueing", "starting", "started",
   "close", "clear", "join", "stopped",
   "unset", "request", "wait", "destroyed"}

TypeOK ==
  /\ m_v4l_fd \in {V4lFd, NoFd}
  /\ fdOpen \in BOOLEAN
  /\ m_buffers \in SUBSET Buffers
  /\ streaming \in BOOLEAN
  /\ place \in [Buffers -> Places]
  /\ image \in [Buffers -> Nat]
  /\ captured \in Nat
  /\ worker \in WorkerStates
  /\ watching \in BOOLEAN
  /\ buff \in Buffers \cup {NoBuf}
  /\ lastFrame \in Nat
  /\ stop_requested \in BOOLEAN
  /\ main \in MainStates

(* initialize() has opened the device; nothing is mapped yet. *)
Init ==
  /\ m_v4l_fd = V4lFd
  /\ fdOpen = TRUE
  /\ m_buffers = {}
  /\ streaming = FALSE
  /\ place = [b \in Buffers |-> "user"]
  /\ image = [b \in Buffers |-> 0]
  /\ captured = 0
  /\ worker = "none"
  /\ watching = FALSE
  /\ buff = NoBuf
  /\ lastFrame = 0
  /\ stop_requested = FALSE
  /\ main = "created"

-----------------------------------------------------------------------------
(* start() *)

(* VIDIOC_REQBUFS fails, or gives fewer than five buffers: start() returns *)
(* without a worker.                                                       *)
RequestBuffersFails ==
  /\ main = "created"
  /\ main' = "started"
  /\ UNCHANGED <<m_v4l_fd, fdOpen, m_buffers, driverVars, worker, loopVars,
                 stop_requested>>

(* The EINVAL branch does not return either: it ends in MapFails, since    *)
(* VIDIOC_QUERYBUF finds no buffer on such a device.                       *)
RequestBuffers ==
  /\ main = "created"
  /\ main' = "mapping"
  /\ UNCHANGED <<m_v4l_fd, fdOpen, m_buffers, driverVars, worker, loopVars,
                 stop_requested>>

(* VIDIOC_QUERYBUF and mmap of one buffer.  After the last start_capture() *)
(* is called, for all the buffers requested.                               *)
MapBuffer ==
  /\ main = "mapping"
  /\ \E b \in Buffers \ m_buffers : m_buffers' = m_buffers \cup {b}
  /\ main' = IF m_buffers' = Buffers THEN "queueing" ELSE "mapping"
  /\ UNCHANGED <<m_v4l_fd, fdOpen, driverVars, worker, loopVars,
                 stop_requested>>

(* Faulty variant: a failed VIDIOC_QUERYBUF or mmap is only logged. *)
MapFailureLogged ==
  /\ main = "mapping"
  /\ main' = "queueing"
  /\ UNCHANGED <<m_v4l_fd, fdOpen, m_buffers, driverVars, worker, loopVars,
                 stop_requested>>

(* VIDIOC_QUERYBUF or mmap fails after any number of buffers: start()      *)
(* returns without a worker, and the mappings made so far stay.            *)
MapFails ==
  /\ main = "mapping"
  /\ main' = "started"
  /\ UNCHANGED <<m_v4l_fd, fdOpen, m_buffers, driverVars, worker, loopVars,
                 stop_requested>>

(* start_capture(): VIDIOC_QBUF of one buffer. *)
QueueBuffer ==
  /\ main = "queueing"
  /\ \E b \in Buffers :
       /\ place[b] = "user"
       /\ place' = [place EXCEPT ![b] = "incoming"]
  /\ UNCHANGED <<m_v4l_fd, fdOpen, m_buffers, streaming, image, captured,
                 worker, loopVars, stop_requested, main>>

(* VIDIOC_QBUF fails after any number of buffers.  start_capture() returns *)
(* nothing: start() goes on.                                               *)
QueueFails ==
  /\ main = "queueing"
  /\ \E b \in Buffers : place[b] = "user"
  /\ main' = "starting"
  /\ UNCHANGED <<m_v4l_fd, fdOpen, m_buffers, driverVars, worker, loopVars,
                 stop_requested>>

(* All buffers are queued: VIDIOC_STREAMON, whose failure is ignored too.  *)
StreamOn ==
  /\ main = "queueing"
  /\ \A b \in Buffers : place[b] # "user"
  /\ streaming' \in BOOLEAN
  /\ main' = "starting"
  /\ UNCHANGED <<m_v4l_fd, fdOpen, m_buffers, place, image, captured, worker,
                 loopVars, stop_requested>>

(* m_working_thread is started, whatever start_capture() did. *)
StartThread ==
  /\ main = "starting"
  /\ worker' = "check"
  /\ main' = "started"
  /\ UNCHANGED <<m_v4l_fd, fdOpen, m_buffers, driverVars, loopVars,
                 stop_requested>>

Start ==
  \/ RequestBuffersFails \/ RequestBuffers
  \/ MapBuffer \/ MapFails
  \/ QueueBuffer \/ QueueFails \/ StreamOn
  \/ StartThread

-----------------------------------------------------------------------------
(* The driver: external.  The mappings made by start() are never undone,   *)
(* so the device goes on streaming after close().                          *)

CaptureFrame ==
  /\ streaming
  /\ captured < MaxFrames
  /\ captured' = captured + 1
  /\ \/ \E b \in Buffers :
          /\ place[b] = "incoming"
          /\ image' = [image EXCEPT ![b] = captured + 1]
          /\ place' = [place EXCEPT ![b] = "outgoing"]
     \/ /\ \A b \in Buffers : place[b] # "incoming"
        /\ UNCHANGED <<image, place>>
  /\ UNCHANGED <<m_v4l_fd, fdOpen, m_buffers, streaming, worker, loopVars,
                 stop_requested, main>>

Outgoing == {b \in Buffers : place[b] = "outgoing"}

(* The device is readable, or in error because it is not streaming. *)
DeviceReady == ~streaming \/ Outgoing # {}

(* VIDIOC_DQBUF hands out the outgoing buffers in capture order. *)
Oldest(b) == b \in Outgoing /\ \A c \in Outgoing : image[b] <= image[c]

-----------------------------------------------------------------------------
(* The worker thread: the reading loop of start() and read_frame() *)

CheckStop ==
  /\ worker = "check"
  /\ worker' = IF stop_requested THEN "done" ELSE "arm"
  /\ UNCHANGED <<m_v4l_fd, fdOpen, m_buffers, driverVars, loopVars,
                 stop_requested, main>>

(* FD_SET and select read m_v4l_fd, perhaps different values, of which the *)
(* second decides.  With -1 nfds is 0 and no descriptor is watched, so     *)
(* only the timeout ends the call; the bit FD_SET(-1) sets is undefined    *)
(* behaviour, without effect in the unoptimised build of the README, where *)
(* FD_SET does not check its range.  With a descriptor that is closed      *)
(* already, select fails with EBADF and the worker returns.                *)
CallSelect ==
  /\ worker = "arm"
  /\ watching' = (m_v4l_fd # NoFd)
  /\ worker' = IF m_v4l_fd # NoFd /\ ~fdOpen THEN "done" ELSE "select"
  /\ UNCHANGED <<m_v4l_fd, fdOpen, m_buffers, driverVars, buff, lastFrame,
                 stop_requested, main>>

SelectReady ==
  /\ worker = "select"
  /\ watching /\ DeviceReady
  /\ worker' = "dequeue"
  /\ UNCHANGED <<m_v4l_fd, fdOpen, m_buffers, driverVars, loopVars,
                 stop_requested, main>>

(* Faulty variant: select without a timeout. *)
SelectNoTimeout == FALSE /\ UNCHANGED vars

(* Two seconds without a frame: "select timeout", the worker returns. *)
SelectTimeout ==
  /\ worker = "select"
  /\ ~(watching /\ DeviceReady)
  /\ worker' = "done"
  /\ UNCHANGED <<m_v4l_fd, fdOpen, m_buffers, driverVars, loopVars,
                 stop_requested, main>>

(* A signal delivered to this thread while it waits: EINTR, back to the    *)
(* loop condition.  (select prefers a ready descriptor to the signal.)     *)
SelectInterrupted ==
  /\ worker = "select"
  /\ ~(watching /\ DeviceReady)
  /\ worker' = "check"
  /\ UNCHANGED <<m_v4l_fd, fdOpen, m_buffers, driverVars, loopVars,
                 stop_requested, main>>

(* Will an ioctl on m_v4l_fd reach the device? *)
Reachable == m_v4l_fd # NoFd /\ fdOpen

(* Faulty variant: the callback is given m_buffers of a fixed index. *)
DequeueFixedIndex ==
  /\ worker = "dequeue"
  /\ Reachable /\ streaming
  /\ \E b \in Buffers :
       /\ Oldest(b)
       /\ buff' = b
       /\ place' = [place EXCEPT ![b] = "dequeued"]
       /\ lastFrame' = image[CHOOSE c \in Buffers : TRUE]
  /\ worker' = "on_frame"
  /\ UNCHANGED <<m_v4l_fd, fdOpen, m_buffers, streaming, image, captured,
                 watching, stop_requested, main>>

(* Faulty variant: VIDIOC_QBUF comes before m_on_frame. *)
DequeueRequeued ==
  /\ worker = "dequeue"
  /\ Reachable /\ streaming
  /\ \E b \in Buffers :
       /\ Oldest(b)
       /\ buff' = b
       /\ place' = [place EXCEPT ![b] = "incoming"]
       /\ lastFrame' = image[b]
  /\ worker' = "on_frame"
  /\ UNCHANGED <<m_v4l_fd, fdOpen, m_buffers, streaming, image, captured,
                 watching, stop_requested, main>>

(* VIDIOC_DQBUF takes the oldest captured buffer and m_on_frame is called  *)
(* on its memory; the call lasts until OnFrameReturns.                     *)
Dequeue ==
  /\ worker = "dequeue"
  /\ Reachable /\ streaming
  /\ \E b \in Buffers :
       /\ Oldest(b)
       /\ buff' = b
       /\ place' = [place EXCEPT ![b] = "dequeued"]
       /\ lastFrame' = image[b]
  /\ worker' = "on_frame"
  /\ UNCHANGED <<m_v4l_fd, fdOpen, m_buffers, streaming, image, captured,
                 watching, stop_requested, main>>

(* VIDIOC_DQBUF fails: the descriptor is gone, the device never started    *)
(* streaming (EINVAL), or for a reason of the driver's.                    *)
DequeueFails ==
  /\ worker = "dequeue"
  /\ worker' = "failed"
  /\ UNCHANGED <<m_v4l_fd, fdOpen, m_buffers, driverVars, loopVars,
                 stop_requested, main>>

OnFrameReturns ==
  /\ worker = "on_frame"
  /\ worker' = "requeue"
  /\ UNCHANGED <<m_v4l_fd, fdOpen, m_buffers, driverVars, loopVars,
                 stop_requested, main>>

(* Faulty variant: read_frame() returns without VIDIOC_QBUF. *)
RequeueForgotten ==
  /\ worker = "requeue"
  /\ worker' = "check"
  /\ UNCHANGED <<m_v4l_fd, fdOpen, m_buffers, driverVars, loopVars,
                 stop_requested, main>>

Requeue ==
  /\ worker = "requeue"
  /\ Reachable
  /\ place' = [place EXCEPT ![buff] = "incoming"]
  /\ buff' = NoBuf
  /\ worker' = "check"
  /\ UNCHANGED <<m_v4l_fd, fdOpen, m_buffers, streaming, image, captured,
                 watching, lastFrame, stop_requested, main>>

(* VIDIOC_QBUF fails, because the descriptor is gone or for a reason of    *)
(* the driver's: the buffer stays dequeued.                                *)
RequeueFails ==
  /\ worker = "requeue"
  /\ worker' = "failed"
  /\ UNCHANGED <<m_v4l_fd, fdOpen, m_buffers, driverVars, loopVars,
                 stop_requested, main>>

(* Faulty variant: a failed read_frame() is always tried again. *)
ReadFrameRetried ==
  /\ worker = "failed"
  /\ worker' = "check"
  /\ UNCHANGED <<m_v4l_fd, fdOpen, m_buffers, driverVars, loopVars,
                 stop_requested, main>>

(* read_frame() returned nullopt: the loop goes on only if is_closing(). *)
ReadFrameFailed ==
  /\ worker = "failed"
  /\ worker' = IF m_v4l_fd = NoFd THEN "check" ELSE "done"
  /\ UNCHANGED <<m_v4l_fd, fdOpen, m_buffers, driverVars, loopVars,
                 stop_requested, main>>

Worker ==
  \/ CheckStop \/ CallSelect
  \/ SelectReady \/ SelectTimeout \/ SelectInterrupted
  \/ Dequeue \/ DequeueFails \/ OnFrameReturns
  \/ Requeue \/ RequeueFails \/ ReadFrameFailed

-----------------------------------------------------------------------------
(* stop() and the destructor *)

(* stop() on a capture whose start() failed: there is no thread to join. *)
StopNotJoinable ==
  /\ main = "started"
  /\ worker = "none"
  /\ main' = "stopped"
  /\ UNCHANGED <<m_v4l_fd, fdOpen, m_buffers, driverVars, worker, loopVars,
                 stop_requested>>

(* Faulty variant: stop() says that it is closing before it closes. *)
RequestStopClosing ==
  /\ main = "started"
  /\ worker # "none"
  /\ stop_requested' = TRUE
  /\ m_v4l_fd' = NoFd
  /\ main' = "close"
  /\ UNCHANGED <<fdOpen, m_buffers, driverVars, worker, loopVars>>

RequestStop ==
  /\ main = "started"
  /\ worker # "none"
  /\ stop_requested' = TRUE
  /\ main' = "close"
  /\ UNCHANGED <<m_v4l_fd, fdOpen, m_buffers, driverVars, worker, loopVars>>

(* close_v4l_fd(), up to the outcome of close().  The kernel drops the     *)
(* descriptor even when it reports an error, and a second close() of it    *)
(* fails; m_v4l_fd is then left as it is.                                  *)
close_v4l_fd(succeeds) ==
  \/ /\ m_v4l_fd = NoFd
     /\ ~succeeds
     /\ UNCHANGED fdOpen
  \/ /\ m_v4l_fd # NoFd
     /\ succeeds => fdOpen
     /\ fdOpen' = FALSE

CloseFd ==
  /\ main = "close"
  /\ \E succeeds \in BOOLEAN :
       /\ close_v4l_fd(succeeds)
       /\ main' = IF succeeds THEN "clear" ELSE "join"
  /\ UNCHANGED <<m_v4l_fd, m_buffers, driverVars, worker, loopVars,
                 stop_requested>>

(* Faulty variant: 0 marks the closed descriptor. *)
ClearFdZero ==
  /\ main = "clear"
  /\ m_v4l_fd' = 0
  /\ main' = "join"
  /\ UNCHANGED <<fdOpen, m_buffers, driverVars, worker, loopVars,
                 stop_requested>>

(* close_v4l_fd(), the assignment the worker's is_closing() looks at. *)
ClearFd ==
  /\ main = "clear"
  /\ m_v4l_fd' = NoFd
  /\ main' = "join"
  /\ UNCHANGED <<fdOpen, m_buffers, driverVars, worker, loopVars,
                 stop_requested>>

(* Faulty variant: stop() does not wait for the worker. *)
SkipJoin ==
  /\ main = "join"
  /\ main' = "stopped"
  /\ UNCHANGED <<m_v4l_fd, fdOpen, m_buffers, driverVars, worker, loopVars,
                 stop_requested>>

JoinWorker ==
  /\ main = "join"
  /\ worker = "done"
  /\ main' = "stopped"
  /\ UNCHANGED <<m_v4l_fd, fdOpen, m_buffers, driverVars, worker, loopVars,
                 stop_requested>>

(* ~VideoCaptureImpl of a capture never started, or stopped. *)
Destroy ==
  /\ main \in {"created", "stopped"}
  /\ \E succeeds \in BOOLEAN :
       /\ close_v4l_fd(succeeds)
       /\ m_v4l_fd' = IF succeeds THEN NoFd ELSE m_v4l_fd
  /\ main' = "destroyed"
  /\ UNCHANGED <<m_buffers, driverVars, worker, loopVars, stop_requested>>

(* ~VideoCaptureImpl of a capture nobody stopped: the destructor's body    *)
(* closes the descriptor before anything asks the worker to stop.          *)
DestroyStarted ==
  /\ main = "started"
  /\ \E succeeds \in BOOLEAN :
       /\ close_v4l_fd(succeeds)
       /\ main' = IF succeeds THEN "unset" ELSE "request"
  /\ UNCHANGED <<m_v4l_fd, m_buffers, driverVars, worker, loopVars,
                 stop_requested>>

DestroyUnsetsFd ==
  /\ main = "unset"
  /\ m_v4l_fd' = NoFd
  /\ main' = "request"
  /\ UNCHANGED <<fdOpen, m_buffers, driverVars, worker, loopVars,
                 stop_requested>>

(* ~jthread of m_working_thread, the member destroyed first: request_stop, *)
DestroyRequestsStop ==
  /\ main = "request"
  /\ stop_requested' = (worker # "none")
  /\ main' = "wait"
  /\ UNCHANGED <<m_v4l_fd, fdOpen, m_buffers, driverVars, worker, loopVars>>

(* ... and join, before m_on_frame and m_buffers go. *)
DestroyJoins ==
  /\ main = "wait"
  /\ worker \in {"none", "done"}
  /\ main' = "destroyed"
  /\ UNCHANGED <<m_v4l_fd, fdOpen, m_buffers, driverVars, worker, loopVars,
                 stop_requested>>

Owner ==
  \/ Start
  \/ StopNotJoinable \/ RequestStop \/ CloseFd \/ ClearFd \/ JoinWorker
  \/ Destroy
  \/ DestroyStarted \/ DestroyUnsetsFd \/ DestroyRequestsStop \/ DestroyJoins

Next == CaptureFrame \/ Worker \/ Owner

(* The worker and stop() are ordinary threads the scheduler runs; the      *)
(* callback returns; select returns at the latest after its timeout.       *)
(* Nothing forces the driver, a signal, start() or a request to stop.      *)
Fairness ==
  /\ WF_vars(CheckStop) /\ WF_vars(CallSelect)
  /\ WF_vars(SelectReady) /\ WF_vars(SelectTimeout)
  /\ WF_vars(Dequeue) /\ WF_vars(DequeueFails) /\ WF_vars(OnFrameReturns)
  /\ WF_vars(Requeue) /\ WF_vars(RequeueFails) /\ WF_vars(ReadFrameFailed)
  /\ WF_vars(CloseFd) /\ WF_vars(ClearFd) /\ WF_vars(JoinWorker)
  /\ WF_vars(DestroyUnsetsFd) /\ WF_vars(DestroyRequestsStop)
  /\ WF_vars(DestroyJoins)

Spec     == Init /\ [][Next]_vars
FairSpec == Spec /\ Fairness

-----------------------------------------------------------------------------
(* Properties *)

(* While m_on_frame runs, the buffer it reads still holds the frame it was *)
(* called for: the driver, which captures all the time, never writes into  *)
(* a buffer the worker has dequeued (read_frame() requeues only after the  *)
(* callback).                                                              *)
FrameStable == worker = "on_frame" => image[buff] = lastFrame

(* A worker that goes on reading holds no buffer: each one it dequeued is  *)
(* back with the driver, so the ring never runs dry, however many frames   *)
(* were read.  Only a worker whose descriptor was closed may leave one.    *)
NoBufferLeak ==
  worker \in {"check", "arm", "select", "dequeue"} =>
    m_v4l_fd = NoFd \/ \A b \in Buffers : place[b] # "dequeued"

(* No buffer is given to the driver, and so none comes back to m_on_frame, *)
(* whose memory mmap has not returned: start() may fail after mapping any  *)
(* of the buffers, and start_capture() and read_frame() use the index of a *)
(* buffer without looking at m_buffers.                                    *)
MappedBeforeUse ==
  \A b \in Buffers : place[b] # "user" => b \in m_buffers

(* Once stop() has returned, and while the object is destroyed, no frame   *)
(* callback is running and none will run: the encoder and the transmitter  *)
(* the callback uses may go away.                                          *)
QuietAfterStop ==
  main \in {"stopped", "destroyed"} => worker \in {"none", "done"}

(* The descriptor is never lost: m_v4l_fd, without which close_v4l_fd()    *)
(* does not close, is -1 only after close(), and when the capture is       *)
(* destroyed, after a failed start, a stop with or without a worker or a   *)
(* failed close, the descriptor is closed.                                 *)
NoDescriptorLeak ==
  m_v4l_fd = NoFd \/ main = "destroyed" => ~fdOpen

(* stop() returns: the worker it joins leaves its loop, whatever it is     *)
(* doing when the descriptor is closed under it.                           *)
StopReturns == (main = "close") ~> (main = "stopped")

(* The destructor of a running capture returns too, although it closes the *)
(* descriptor, or fails to, before it asks the worker to stop.             *)
DestructorReturns == (main \in {"unset", "request"}) ~> (main = "destroyed")

(* A worker started although start_capture() failed does not linger: it    *)
(* reports the failed VIDIOC_DQBUF and ends.                               *)
BrokenStartEnds == (worker = "check" /\ ~streaming) ~> (worker = "done")

(* To its user the capture is a source of frames: one callback at a time,  *)
(* in capture order, each frame at most once, and silent after stop().     *)
Source == INSTANCE FrameSource
            WITH calling <- worker = "on_frame",
                 live <- main \notin {"stopped", "destroyed"}
ImplementsSource == Source!Spec

(* The comment in stop(): "Closing v4l to unblock select."  So a select    *)
(* that watches the device is not left to its timeout once stop() has      *)
(* closed and cleared m_v4l_fd and waits for the worker.                   *)
CloseUnblocksSelect ==
  [][main = "join" /\ m_v4l_fd = NoFd /\ watching => ~SelectTimeout]_vars
=============================================================================
