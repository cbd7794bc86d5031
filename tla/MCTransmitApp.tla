--------------------------- MODULE MCTransmitApp ----------------------------
(* TLC instances of TransmitApp: a camera with two formats, one that gives *)
(* ranges, and one with nothing to offer.                                  *)
EXTENDS TransmitApp

MCSize(type, interval_type, intervals) ==
  [type |-> type, interval_type |-> interval_type, intervals |-> intervals]

MCCameras ==
  {<<[pixelformat |-> "YUYV",
      sizes |-> <<MCSize("discrete", "discrete", 2),
                  MCSize("discrete", "discrete", 1)>>],
     [pixelformat |-> "MJPG", sizes |-> <<>>]>>,
   <<[pixelformat |-> "YUYV",
      sizes |-> <<MCSize("stepwise", "stepwise", 0),
                  MCSize("discrete", "stepwise", 0)>>]>>,
   <<>>}
=============================================================================
