---------------------------- MODULE MCTransport -----------------------------
(* TLC instances of Transport: a stream of two frames, each a slice at     *)
(* macroblock 0 and two more, behind an SPS; sequence numbers modulo 3, so *)
(* that they wrap twice.                                                   *)
EXTENDS Transport

Timestamp(ms) == [k \in 0 .. 3 |-> IF k = 0 THEN ms ELSE 255 - k]

Packet(n, ms, type, first, last, size) ==
  [nal_data |-> [nal |-> n, size |-> size], timestamp |-> Timestamp(ms),
   nal_type |-> type, first_macroblock |-> first, last_macroblock |-> last,
   flags |-> 1]

MCPackets == 7

MCStream ==
  [n \in 0 .. 6 |->
     CASE n = 0 -> Packet(0, 1, 7, 0, 0, 20)
       [] n = 1 -> Packet(1, 1, slice, 0, 299, 1400)
       [] n = 2 -> Packet(2, 1, slice, 300, 700, 1399)
       [] n = 3 -> Packet(3, 1, slice, 701, 3599, 3)
       [] n = 4 -> Packet(4, 41, slice, 0, 65535, 0)
       [] n = 5 -> Packet(5, 41, slice, 256, 511, 1)
       [] n = 6 -> Packet(6, 41, slice, 512, 3599, 700)]

(* One frame and the first slice of the next *)
MCFewPackets == 5

MCShortStream == [n \in 0 .. MCFewPackets - 1 |-> MCStream[n]]

Stray(size, first) ==
  [size |-> size,
   buffer |-> [number |-> -1,
               header |-> [i \in 0 .. RTP_PacketHeader_Size - 1 |->
                             IF i = 0 THEN first ELSE 255],
               payload |-> [i \in 0 .. RTP_PayloadHeader_Size - 1 |-> 255],
               nal |-> [nal |-> -1, size |-> 5]]]

(* Too short (with a version 2 octet), version 1, extension bit. *)
MCStrays == {Stray(11, 128), Stray(24, 64), Stray(24, 144)}

MCNoStrays == {}
=============================================================================
