---------------------------- MODULE VideoFormats ----------------------------
(***************************************************************************)
(* enumerate_formats() and select_format() of VideoCaptureImpl             *)
(* (src/src/libns/video_capture.cpp): three nested loops ask the driver    *)
(* for formats, their frame sizes, and the frame intervals of a size, one  *)
(* ioctl and one index at a time.                                          *)
(*                                                                         *)
(* A camera is the sequence of its formats; a size has a type, the type of *)
(* its intervals and, if that is discrete, how many there are.             *)
(***************************************************************************)
EXTENDS Integers, Sequences

CONSTANTS
  Cameras,  \* what may be connected
  NoFormat  \* the format of a device before select_format()

ASSUME CamerasAssumption ==
  \A c \in Cameras :
    /\ c \in Seq({c[f] : f \in DOMAIN c})
    /\ \A f \in DOMAIN c :
         c[f].sizes \in
           Seq([type : {"discrete", "stepwise", "continuous"},
                interval_type : {"discrete", "stepwise", "continuous"},
                intervals : Nat])

VARIABLES
  camera,          \* the one that is connected
  loop,            \* the loop enumerate_formats() is in: "formats", "sizes",
                   \* "intervals"; "done"
  fmtdesc,         \* the index in fmtdesc, frmsize and frame_interval
  frmsize,
  frame_interval,
  result,          \* the formats found
  format           \* the format the device was set to

formatVars == <<camera, loop, fmtdesc, frmsize, frame_interval, result,
                format>>

(* fmtdesc.index is incremented before the sizes are asked for, the index  *)
(* of a size after its intervals.                                          *)
Sizes == camera[fmtdesc].sizes
Size  == Sizes[frmsize + 1]

FormatsTypeOK ==
  /\ camera \in Cameras
  /\ loop \in {"formats", "sizes", "intervals", "done"}
  /\ fmtdesc \in 0 .. Len(camera)
  /\ loop \in {"sizes", "intervals"} => frmsize \in 0 .. Len(Sizes)
  /\ loop = "intervals" => frame_interval \in 0 .. Size.intervals
  /\ result = [i \in 1 .. fmtdesc |-> camera[i].pixelformat]
  /\ format \in {NoFormat} \cup {camera[i].pixelformat : i \in DOMAIN camera}

FormatsInit ==
  /\ camera \in Cameras
  /\ loop = "formats"
  /\ fmtdesc = 0
  /\ frmsize = 0
  /\ frame_interval = 0
  /\ result = <<>>
  /\ format = NoFormat

EnumFormat ==
  /\ loop = "formats"
  /\ fmtdesc < Len(camera)
  /\ fmtdesc' = fmtdesc + 1
  /\ result' = Append(result, camera[fmtdesc'].pixelformat)
  /\ frmsize' = 0
  /\ loop' = "sizes"
  /\ UNCHANGED <<camera, frame_interval, format>>

(* Faulty variant: a format is listed for each of its frame sizes. *)
EnumDiscreteSizeListed ==
  /\ loop = "sizes"
  /\ frmsize < Len(Sizes)
  /\ Size.type = "discrete"
  /\ result' = Append(result, camera[fmtdesc].pixelformat)
  /\ frame_interval' = 0
  /\ loop' = "intervals"
  /\ UNCHANGED <<camera, fmtdesc, frmsize, format>>

EnumDiscreteSize ==
  /\ loop = "sizes"
  /\ frmsize < Len(Sizes)
  /\ Size.type = "discrete"
  /\ frame_interval' = 0
  /\ loop' = "intervals"
  /\ UNCHANGED <<camera, fmtdesc, frmsize, result, format>>

EnumOtherSize ==
  /\ loop = "sizes"
  /\ frmsize < Len(Sizes)
  /\ Size.type # "discrete"
  /\ frmsize' = frmsize + 1
  /\ UNCHANGED <<camera, loop, fmtdesc, frame_interval, result, format>>

(* "increase index only for discrete type": asked for the same index, the  *)
(* driver answers the same, for ever.                                      *)
EnumInterval ==
  /\ loop = "intervals"
  /\ Size.interval_type = "discrete" => frame_interval < Size.intervals
  /\ frame_interval' = IF Size.interval_type = "discrete"
                         THEN frame_interval + 1 ELSE frame_interval
  /\ UNCHANGED <<camera, loop, fmtdesc, frmsize, result, format>>

(* Faulty variant: the index is incremented for non-discrete sizes only.   *)
LeaveIntervalsOfSameSize ==
  /\ loop = "intervals"
  /\ loop' = "sizes"
  /\ UNCHANGED <<camera, fmtdesc, frmsize, frame_interval, result, format>>

LeaveIntervals ==
  /\ loop = "intervals"
  /\ frmsize' = frmsize + 1
  /\ loop' = "sizes"
  /\ UNCHANGED <<camera, fmtdesc, frame_interval, result, format>>

LeaveSizes ==
  /\ loop = "sizes"
  /\ loop' = "formats"
  /\ UNCHANGED <<camera, fmtdesc, frmsize, frame_interval, result, format>>

LeaveFormats ==
  /\ loop = "formats"
  /\ loop' = "done"
  /\ UNCHANGED <<camera, fmtdesc, frmsize, frame_interval, result, format>>

(* The driver has no more of it (EINVAL): the loop ends. *)
EndOfLoop ==
  \/ /\ LeaveIntervals
     /\ Size.interval_type = "discrete"
     /\ frame_interval = Size.intervals
  \/ LeaveSizes /\ frmsize = Len(Sizes)
  \/ LeaveFormats /\ fmtdesc = Len(camera)

(* Any other error looks the same to the loop. *)
EnumFails == LeaveIntervals \/ LeaveSizes \/ LeaveFormats

Enumerate ==
  \/ EnumFormat \/ EnumDiscreteSize \/ EnumOtherSize \/ EnumInterval
  \/ EndOfLoop

(* select_format() of the last one found; nobody looks at what it returns. *)
select_format ==
  /\ loop = "done"
  /\ result # <<>>
  /\ format' \in {format, result[Len(result)]}
  /\ UNCHANGED <<camera, loop, fmtdesc, frmsize, frame_interval, result>>
=============================================================================
