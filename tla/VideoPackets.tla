---------------------------- MODULE VideoPackets ----------------------------
(***************************************************************************)
(* VideoPacket and NAL_Metadata (src/src/libns/types.hpp): one NAL unit    *)
(* and what the encoder says of it.                                        *)
(*                                                                         *)
(* The octets of a NAL unit are not modelled: nal_data is the number of    *)
(* the unit in the stream, and how many octets of it are present.          *)
(***************************************************************************)
EXTENDS Rtp

slice == 1    \* NAL_Type::slice

(* Wide enough for what x264 makes with i_slice_max_size = 1400. *)
NalSizes == 0 .. 1400

NalData == [nal : Int, size : Nat]

VideoPacket ==
  [nal_data : NalData, timestamp : UInt32, nal_type : Octet,
   first_macroblock : UInt16, last_macroblock : UInt16, flags : UInt16]
=============================================================================
