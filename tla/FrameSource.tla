---------------------------- MODULE FrameSource -----------------------------
(***************************************************************************)
(* What the VideoCapture interface (src/src/libns/video_capture.hpp)       *)
(* promises to the code behind its on_frame callback: a camera captures    *)
(* frames 1, 2, ...; callbacks come one at a time, each with a captured    *)
(* frame newer than the one before it, possibly skipping some; when stop() *)
(* returns none is running, and none comes after it.                       *)
(***************************************************************************)
EXTENDS Integers

VARIABLES
  captured,   \* number of the newest frame
  lastFrame,  \* the frame the callback got last, 0 before the first
  calling,    \* a callback is running
  live        \* stop() has not returned yet

sourceVars == <<captured, lastFrame, calling, live>>

Init ==
  /\ captured = 0
  /\ lastFrame = 0
  /\ calling = FALSE
  /\ live = TRUE

Capture ==
  /\ captured' = captured + 1
  /\ UNCHANGED <<lastFrame, calling, live>>

Deliver ==
  /\ live
  /\ ~calling
  /\ lastFrame' \in (lastFrame + 1) .. captured
  /\ calling' = TRUE
  /\ UNCHANGED <<captured, live>>

Return ==
  /\ calling
  /\ calling' = FALSE
  /\ UNCHANGED <<captured, lastFrame, live>>

Stop ==
  /\ ~calling
  /\ live' = FALSE
  /\ UNCHANGED <<captured, lastFrame, calling>>

Next == Capture \/ Deliver \/ Return \/ Stop

Spec == Init /\ [][Next]_sourceVars
=============================================================================
