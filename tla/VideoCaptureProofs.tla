------------------------- MODULE VideoCaptureProofs -------------------------
(***************************************************************************)
(* What VideoCapture guarantees for any set of buffers and any number of   *)
(* frames.                                                                 *)
(***************************************************************************)
EXTENDS VideoCapture, TLAPS

(* The captured frames waiting for VIDIOC_DQBUF are all newer than the     *)
(* frame of the last callback, and no two buffers hold the same one.       *)
RingInv ==
  /\ lastFrame <= captured
  /\ \A b \in Outgoing : lastFrame < image[b] /\ image[b] <= captured
  /\ \A b, c \in Outgoing : image[b] = image[c] => b = c

(* From VIDIOC_DQBUF to VIDIOC_QBUF the worker owns buff, with its frame.  *)
HeldInv ==
  worker \in {"on_frame", "requeue"} =>
    /\ buff \in Buffers
    /\ place[buff] = "dequeued"
    /\ image[buff] = lastFrame
    /\ m_v4l_fd = NoFd \/ \A b \in Buffers \ {buff} : place[b] # "dequeued"

(* How far start() has come: the driver gets the buffers only when all of  *)
(* them are mapped, and the worker starts after that.                      *)
StartInv ==
  /\ main \in {"created", "mapping"} => \A b \in Buffers : place[b] = "user"
  /\ main \in {"created", "mapping", "queueing"} => ~streaming
  /\ main \in {"queueing", "starting"} => m_buffers = Buffers
  /\ main \in {"created", "mapping", "queueing", "starting"} =>
       worker = "none"
  /\ worker = "none" => \A b \in Buffers : place[b] # "dequeued"

(* Whatever lets go of m_v4l_fd, or stops using it, has closed it.         *)
ClosedInv ==
  main \in {"clear", "join", "unset", "request", "wait", "stopped"} =>
    \/ ~fdOpen
    \/ main = "stopped" /\ worker = "none"

IInv ==
  /\ TypeOK
  /\ RingInv
  /\ HeldInv
  /\ NoBufferLeak
  /\ StartInv
  /\ ClosedInv
  /\ MappedBeforeUse
  /\ QuietAfterStop
  /\ NoDescriptorLeak

-----------------------------------------------------------------------------
(* The capture starts in a state of the invariant. *)
LEMMA InitIInv == Init => IInv
<1> SUFFICES ASSUME Init PROVE IInv
  OBVIOUS
<1>1. TypeOK
  BY DEF Init, TypeOK, Places, WorkerStates, MainStates
<1>2. Outgoing = {}
  BY DEF Init, Outgoing
<1>3. RingInv
  BY <1>2 DEF Init, RingInv
<1>4. HeldInv /\ NoBufferLeak
  BY DEF Init, HeldInv, NoBufferLeak
<1>5. StartInv /\ ClosedInv /\ MappedBeforeUse
  BY DEF Init, StartInv, ClosedInv, MappedBeforeUse
<1>6. QuietAfterStop /\ NoDescriptorLeak
  BY DEF Init, QuietAfterStop, NoDescriptorLeak, NoFd, V4lFd
<1> QED
  BY <1>1, <1>3, <1>4, <1>5, <1>6 DEF IInv

(* After close_v4l_fd() the descriptor is closed, whether close() was      *)
(* called or m_v4l_fd was -1 already.                                      *)
LEMMA CloseCloses ==
  ASSUME TypeOK, NoDescriptorLeak,
         \E succeeds \in BOOLEAN : close_v4l_fd(succeeds)
  PROVE  fdOpen' = FALSE
BY DEF TypeOK, NoDescriptorLeak, close_v4l_fd

(* Every step of the owner, the worker and the driver keeps it. *)
LEMMA NextIInv == IInv /\ [Next]_vars => IInv'
<1> SUFFICES ASSUME IInv, [Next]_vars PROVE IInv'
  OBVIOUS
<1> USE BuffersAssumption, MaxFramesAssumption
    DEF IInv, TypeOK, RingInv, HeldInv, NoBufferLeak, StartInv, ClosedInv,
        MappedBeforeUse, QuietAfterStop, NoDescriptorLeak, Outgoing, Places, WorkerStates,
        MainStates, NoFd, V4lFd, driverVars, loopVars
<1>1. CASE CaptureFrame
  BY <1>1 DEF CaptureFrame
<1>2. CASE Worker
  <2>1. CASE CheckStop
    BY <2>1 DEF CheckStop
  <2>2. CASE CallSelect
    BY <2>2 DEF CallSelect
  <2>3. CASE SelectReady
    BY <2>3 DEF SelectReady
  <2>4. CASE SelectTimeout
    BY <2>4 DEF SelectTimeout
  <2>5. CASE SelectInterrupted
    BY <2>5 DEF SelectInterrupted
  <2>6. CASE Dequeue
    BY <2>6 DEF Dequeue, Oldest, Reachable
  <2>7. CASE DequeueFails
    BY <2>7 DEF DequeueFails
  <2>8. CASE OnFrameReturns
    BY <2>8 DEF OnFrameReturns
  <2>9. CASE Requeue
    BY <2>9 DEF Requeue
  <2>10. CASE RequeueFails
    BY <2>10 DEF RequeueFails
  <2>11. CASE ReadFrameFailed
    BY <2>11 DEF ReadFrameFailed
  <2> QED
    BY <1>2, <2>1, <2>2, <2>3, <2>4, <2>5, <2>6, <2>7, <2>8, <2>9, <2>10,
       <2>11 DEF Worker
<1>3. CASE Owner
  <2>1. CASE Start
    <3>1. CASE RequestBuffersFails
      BY <3>1 DEF RequestBuffersFails
    <3>2. CASE RequestBuffers
      BY <3>2 DEF RequestBuffers
    <3>3. CASE MapBuffer
      BY <3>3 DEF MapBuffer
    <3>4. CASE MapFails
      BY <3>4 DEF MapFails
    <3>5. CASE QueueBuffer
      BY <3>5 DEF QueueBuffer
    <3>6. CASE QueueFails
      BY <3>6 DEF QueueFails
    <3>7. CASE StreamOn
      BY <3>7 DEF StreamOn
    <3>8. CASE StartThread
      BY <3>8 DEF StartThread
    <3> QED
      BY <2>1, <3>1, <3>2, <3>3, <3>4, <3>5, <3>6, <3>7, <3>8 DEF Start
  <2>2. CASE StopNotJoinable
    BY <2>2 DEF StopNotJoinable
  <2>3. CASE RequestStop
    BY <2>3 DEF RequestStop
  <2>4. CASE CloseFd
    <3>1. fdOpen' = FALSE /\ main' \in {"clear", "join"}
      BY <2>4, CloseCloses DEF CloseFd
    <3> QED
      BY <2>4, <3>1 DEF CloseFd
  <2>5. CASE ClearFd
    BY <2>5 DEF ClearFd
  <2>6. CASE JoinWorker
    BY <2>6 DEF JoinWorker
  <2>7. CASE Destroy
    <3>1. fdOpen' = FALSE /\ m_v4l_fd' \in {NoFd, m_v4l_fd}
      BY <2>7, CloseCloses DEF Destroy
    <3> QED
      BY <2>7, <3>1 DEF Destroy
  <2>8. CASE DestroyStarted
    <3>1. fdOpen' = FALSE /\ main' \in {"unset", "request"}
      BY <2>8, CloseCloses DEF DestroyStarted
    <3> QED
      BY <2>8, <3>1 DEF DestroyStarted
  <2>9. CASE DestroyUnsetsFd
    BY <2>9 DEF DestroyUnsetsFd
  <2>10. CASE DestroyRequestsStop
    BY <2>10 DEF DestroyRequestsStop
  <2>11. CASE DestroyJoins
    BY <2>11 DEF DestroyJoins
  <2> QED
    BY <1>3, <2>1, <2>2, <2>3, <2>4, <2>5, <2>6, <2>7, <2>8, <2>9, <2>10,
       <2>11 DEF Owner
<1>4. CASE UNCHANGED vars
  BY <1>4 DEF vars
<1> QED
  BY <1>1, <1>2, <1>3, <1>4 DEF Next

(* So the invariant holds in every reachable state. *)
LEMMA IInvHolds == Spec => []IInv
<1>1. Init => IInv
  BY InitIInv
<1>2. IInv /\ [Next]_vars => IInv'
  BY NextIInv
<1> QED
  BY <1>1, <1>2, PTL DEF Spec

-----------------------------------------------------------------------------
(* Every variable keeps its type: in particular buff is a buffer of the    *)
(* ring whenever VIDIOC_QBUF is called with it.                            *)
THEOREM TypeCorrect == Spec => []TypeOK
<1>1. IInv => TypeOK
  BY DEF IInv
<1> QED
  BY <1>1, IInvHolds, PTL

(* The driver never writes into the buffer a callback is reading.          *)
THEOREM FramesAreStable == Spec => []FrameStable
<1>1. IInv => FrameStable
  BY DEF IInv, HeldInv, FrameStable
<1> QED
  BY <1>1, IInvHolds, PTL

(* A reading worker has given every buffer back to the driver.             *)
THEOREM RingNeverRunsDry == Spec => []NoBufferLeak
<1>1. IInv => NoBufferLeak
  BY DEF IInv
<1> QED
  BY <1>1, IInvHolds, PTL

(* The driver, and through it the callback, is only ever given memory that *)
(* start() has mapped, wherever the mapping or the queueing failed.        *)
THEOREM FramesAreMapped == Spec => []MappedBeforeUse
<1>1. IInv => MappedBeforeUse
  BY DEF IInv
<1> QED
  BY <1>1, IInvHolds, PTL

(* No callback runs after stop() or the destructor has returned.           *)
THEOREM NoCallbackAfterStop == Spec => []QuietAfterStop
<1>1. IInv => QuietAfterStop
  BY DEF IInv
<1> QED
  BY <1>1, IInvHolds, PTL

(* m_v4l_fd is never -1 before the descriptor is closed, so the destructor *)
(* finds a descriptor to close unless it is closed.                        *)
THEOREM DescriptorIsClosed == Spec => []NoDescriptorLeak
<1>1. IInv => NoDescriptorLeak
  BY DEF IInv
<1> QED
  BY <1>1, IInvHolds, PTL

-----------------------------------------------------------------------------
(* A step of the capture is a step of FrameSource or leaves it alone: only *)
(* Dequeue delivers, and what it delivers is newer than what came before.  *)
LEMMA StepIsSourceStep ==
  IInv /\ [Next]_vars => [Source!Next]_(Source!sourceVars)
<1> SUFFICES ASSUME IInv, [Next]_vars
             PROVE  [Source!Next]_(Source!sourceVars)
  OBVIOUS
<1> USE DEF Source!Next, Source!sourceVars
<1>1. CASE CaptureFrame
  BY <1>1 DEF CaptureFrame, Source!Capture, loopVars
<1>2. CASE Worker
  <2>1. CASE Dequeue
    <3>1. PICK b \in Buffers : Oldest(b) /\ lastFrame' = image[b]
      BY <2>1 DEF Dequeue
    <3>2. lastFrame' \in (lastFrame + 1) .. captured
      BY <3>1 DEF IInv, TypeOK, RingInv, Oldest, Outgoing
    <3>3. main \notin {"stopped", "destroyed"}
      BY <2>1 DEF Dequeue, IInv, QuietAfterStop
    <3> QED
      BY <2>1, <3>2, <3>3 DEF Dequeue, Source!Deliver
  <2>2. CASE OnFrameReturns
    BY <2>2 DEF OnFrameReturns, driverVars, loopVars, Source!Return
  <2>3. CASE ~Dequeue /\ ~OnFrameReturns
    BY <1>2, <2>3
       DEF Worker, CheckStop, CallSelect, SelectReady, SelectTimeout,
           SelectInterrupted, DequeueFails, Requeue, RequeueFails,
           ReadFrameFailed, driverVars, loopVars
  <2> QED
    BY <2>1, <2>2, <2>3
<1>3. CASE Owner
  <2>1. (worker = "on_frame") = (worker' = "on_frame")
    BY <1>3
       DEF Owner, Start, RequestBuffersFails, RequestBuffers, MapBuffer,
           MapFails, QueueBuffer, QueueFails, StreamOn, StartThread,
           StopNotJoinable, RequestStop,
           CloseFd, ClearFd, JoinWorker, Destroy, DestroyStarted,
           DestroyUnsetsFd, DestroyRequestsStop, DestroyJoins, IInv,
           StartInv
  <2>2. UNCHANGED <<captured, lastFrame>>
    BY <1>3
       DEF Owner, Start, RequestBuffersFails, RequestBuffers, MapBuffer,
           MapFails, QueueBuffer, QueueFails, StreamOn, StartThread,
           StopNotJoinable, RequestStop,
           CloseFd, ClearFd, JoinWorker, Destroy, DestroyStarted,
           DestroyUnsetsFd, DestroyRequestsStop, DestroyJoins, driverVars,
           loopVars
  <2>3. CASE main \notin {"stopped", "destroyed"}
                /\ main' \in {"stopped", "destroyed"}
    <3>1. worker # "on_frame"
      BY <1>3, <2>3
         DEF Owner, Start, RequestBuffersFails, RequestBuffers, MapBuffer,
           MapFails, QueueBuffer, QueueFails, StreamOn, StartThread,
           StopNotJoinable, RequestStop,
             CloseFd, ClearFd, JoinWorker, Destroy, DestroyStarted,
             DestroyUnsetsFd, DestroyRequestsStop, DestroyJoins, IInv,
             StartInv
    <3> QED
      BY <2>1, <2>2, <2>3, <3>1 DEF Source!Stop
  <2>4. CASE main \notin {"stopped", "destroyed"}
                /\ main' \notin {"stopped", "destroyed"}
    BY <2>1, <2>2, <2>4
  <2>5. CASE main \in {"stopped", "destroyed"}
    <3>1. main' = "destroyed"
      BY <1>3, <2>5
         DEF Owner, Start, RequestBuffersFails, RequestBuffers, MapBuffer,
           MapFails, QueueBuffer, QueueFails, StreamOn, StartThread,
           StopNotJoinable, RequestStop,
             CloseFd, ClearFd, JoinWorker, Destroy, DestroyStarted,
             DestroyUnsetsFd, DestroyRequestsStop, DestroyJoins
    <3> QED
      BY <2>1, <2>2, <2>5, <3>1
  <2> QED
    BY <2>3, <2>4, <2>5
<1>4. CASE UNCHANGED vars
  BY <1>4 DEF vars, driverVars, loopVars
<1> QED
  BY <1>1, <1>2, <1>3, <1>4 DEF Next

(* The detailed capture implements the frame source its users rely on:     *)
(* frames in capture order, none twice, none after stop().                 *)
THEOREM CaptureIsFrameSource == Spec => ImplementsSource
<1>1. Init => Source!Init
  BY DEF Init, Source!Init
<1>2. IInv /\ [Next]_vars => [Source!Next]_(Source!sourceVars)
  BY StepIsSourceStep
<1> QED
  BY <1>1, <1>2, IInvHolds, PTL DEF Spec, ImplementsSource, Source!Spec
=============================================================================
