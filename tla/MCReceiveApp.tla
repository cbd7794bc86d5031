---------------------------- MODULE MCReceiveApp ----------------------------
(* TLC instances of ReceiveApp.  The stream has an IDR frame with its SPS, *)
(* an ordinary frame, and one that starts an intra refresh, with SPS and   *)
(* PPS.                                                                    *)
EXTENDS ReceiveApp

Packet(n, ms, type, first) ==
  [nal_data |-> [nal |-> n, size |-> 100],
   timestamp |-> [k \in 0 .. 3 |-> IF k = 0 THEN ms ELSE 0],
   nal_type |-> type, first_macroblock |-> first, last_macroblock |-> first,
   flags |-> 0]

MCPackets == 10

(* x264 leaves the macroblocks of another unit with a header. *)
MCStream ==
  [n \in 0 .. 9 |->
     CASE n = 0 -> Packet(0, 1, 7, 0)
       [] n = 1 -> Packet(1, 1, slice_idr, 0)
       [] n = 2 -> Packet(2, 1, slice_idr, 300)
       [] n = 3 -> Packet(3, 2, slice, 0)
       [] n = 4 -> Packet(4, 2, slice, 300)
       [] n = 5 -> Packet(5, 2, slice, 600)
       [] n = 6 -> Packet(6, 3, 7, 0)
       [] n = 7 -> Packet(7, 3, 8, 300)
       [] n = 8 -> Packet(8, 3, slice, 0)
       [] n = 9 -> Packet(9, 3, slice, 300)]

(* One packet of each kind *)
MCFewPackets == 4

MCShortStream == [n \in 0 .. MCFewPackets - 1 |-> MCStream[n]]
=============================================================================
