--------------------------- MODULE MCRtpRoundTrip ---------------------------
(* Boundary values for RtpRoundTrip: each field at its limits and one past *)
(* them, and numbers whose octets all differ.                              *)
EXTENDS RtpRoundTrip

OctetsOf(a, b, c, d) == [k \in 0 .. 3 |-> <<d, c, b, a>>[k + 1]]

(* The timestamp and ssrc of basic_serialize_test, and 2^32 - 1. *)
MCHeaders ==
  [version : {0, 2, 3, 4}, padding_bit : BOOLEAN, extension_bit : BOOLEAN,
   marker_bit : BOOLEAN, payload_type : {45, 127, 128},
   sequence_num : {255, 12927, 65535},
   timestamp : {OctetsOf(99, 22, 55, 158), OctetsOf(255, 255, 255, 255)},
   ssrc : {OctetsOf(254, 21, 18, 74)},
   csrc_size : {0, 1, 16}]

MCPayloadHeaders ==
  [nal_type : {0, 12}, first_mb : {0, 258}, last_mb : {3599, 65535},
   flags : {1, 65535}]

MCGarbage == {170}
=============================================================================
