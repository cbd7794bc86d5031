------------------------------ MODULE Decoder -------------------------------
(***************************************************************************)
(* DecoderImpl (src/src/libns/decoder.cpp): the NAL units of the stream go *)
(* one by one into libavcodec's parser, which joins them to units for the  *)
(* codec.                                                                  *)
(*                                                                         *)
(* libavcodec is external.  Its H.264 parser finds the end of a unit when  *)
(* it sees the beginning of the next one, and then uses nothing of its     *)
(* input; decode_packet_impl ignores how much was used.                    *)
(*                                                                         *)
(* A NAL unit in the parser or in a packet for the codec is its number.    *)
(***************************************************************************)
EXTENDS VideoPackets, Sequences, Functions

CONSTANTS
  MaxPackets,  \* bound: NAL units in the stream
  Stream       \* the NAL units, as packets numbered from 0

VARIABLES
  m_parser_ctx,  \* the parser: what it has stored, whether there is a slice
                 \* in it, and the macroblock of the last slice it saw
  m_packet,      \* what the last call of the parser returned
  fed,           \* history: the packets decode_packet was called with
  handed         \* history: the packets handed to the codec

decoderVars == <<m_parser_ctx, m_packet, fed, handed>>

slice_idr == 5             \* NAL_Type::slice_idr
Headers   == {6, 7, 8, 9}  \* sei, sps, pps, aud

IsSlice(p)  == p.nal_type \in {slice, slice_idr}
IsHeader(p) == p.nal_type \in Headers

SameFrame(m, n) == Stream[m].timestamp = Stream[n].timestamp

(* What x264 makes with intra refresh and repeated headers: the NAL units  *)
(* of one frame after those of another; in a frame headers first, then its *)
(* slices, from macroblock 0 on; an IDR frame has headers.                 *)
ASSUME StreamAssumption ==
  /\ MaxPackets \in Nat
  /\ Stream \in [0 .. MaxPackets - 1 -> VideoPacket]
  /\ \A n \in DOMAIN Stream :
       /\ Stream[n].nal_data.nal = n
       /\ IsSlice(Stream[n]) \/ IsHeader(Stream[n])
       /\ IsSlice(Stream[n]) =>
            \/ Stream[n].first_macroblock = 0
            \/ n > 0 /\ SameFrame(n - 1, n) /\ IsSlice(Stream[n - 1])
       /\ Stream[n].nal_type = slice_idr => n > 0 /\ SameFrame(n - 1, n)
  /\ \A l, m, n \in DOMAIN Stream :
       /\ l < m /\ m < n /\ SameFrame(l, n) => SameFrame(l, m)
       /\ m < n /\ SameFrame(m, n) /\ IsSlice(Stream[m]) =>
            /\ IsSlice(Stream[n])
            /\ Stream[m].first_macroblock < Stream[n].first_macroblock

DecoderInit ==
  /\ m_parser_ctx = [frame_start_found |-> FALSE, parse_last_mb |-> 0,
                     buffer |-> <<>>]
  /\ m_packet = <<>>
  /\ fed = {}
  /\ handed = {}

DecoderTypeOK ==
  /\ m_parser_ctx \in [frame_start_found : BOOLEAN, parse_last_mb : UInt16,
                       buffer : Seq(DOMAIN Stream)]
  /\ m_packet \in Seq(DOMAIN Stream)
  /\ fed \in SUBSET DOMAIN Stream
  /\ handed \in SUBSET fed

-----------------------------------------------------------------------------
(* av_parser_parse2() *)

(* Faulty variant: only a slice before the last one begins a unit. *)
EndsBelow(p) ==
  /\ m_parser_ctx.frame_start_found
  /\ \/ IsHeader(p)
     \/ IsSlice(p) /\ p.first_macroblock < m_parser_ctx.parse_last_mb

(* Does p begin another unit than the one in the parser? *)
Ends(p) ==
  /\ m_parser_ctx.frame_start_found
  /\ \/ IsHeader(p)
     \/ IsSlice(p) /\ p.first_macroblock <= m_parser_ctx.parse_last_mb

LastMb(p) == IF IsSlice(p) THEN p.first_macroblock
                           ELSE m_parser_ctx.parse_last_mb

(* The unit that ended is returned and p is not used. *)
EndUnit(p) ==
  /\ Ends(p)
  /\ m_packet' = m_parser_ctx.buffer
  /\ m_parser_ctx' = [frame_start_found |-> FALSE, parse_last_mb |-> LastMb(p),
                      buffer |-> <<>>]

(* p is stored and nothing is returned. *)
Combine(p) ==
  /\ ~Ends(p)
  /\ m_packet' = <<>>
  /\ m_parser_ctx' =
       [frame_start_found |-> m_parser_ctx.frame_start_found \/ IsSlice(p),
        parse_last_mb |-> LastMb(p),
        buffer |-> Append(m_parser_ctx.buffer, p.nal_data.nal)]

(* Faulty variant: what the parser did not use is given to it again, which *)
(* is right for the parser, but on_packet_received does so already.        *)
ParseRest(p) ==
  \/ /\ Ends(p)
     /\ m_packet' = m_parser_ctx.buffer
     /\ m_parser_ctx' = [frame_start_found |-> IsSlice(p),
                         parse_last_mb |-> LastMb(p),
                         buffer |-> <<p.nal_data.nal>>]
  \/ Combine(p)

Parse(p) == EndUnit(p) \/ Combine(p)

(* decode_packet(), up to the codec, which gets m_packet if it has a size. *)
decode_packet(p) ==
  /\ Parse(p)
  /\ fed' = fed \cup {p.nal_data.nal}
  /\ handed' = handed \cup Range(m_packet')

(* What became of the packet number n. *)
Kept(n) == n \in handed \cup Range(m_parser_ctx.buffer)
=============================================================================
