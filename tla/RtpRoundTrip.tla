---------------------------- MODULE RtpRoundTrip ----------------------------
(***************************************************************************)
(* The two headers of a packet on their way through rtp.cpp, the way       *)
(* transmit() and the receive handler use it, and, for flags, which only   *)
(* they set, src/src/libns/tests/rtp_tests.cpp: uninitialised buffers are  *)
(* filled by the serialize functions and, if neither fails, read back by   *)
(* the deserialize functions.                                              *)
(***************************************************************************)
EXTENDS Rtp

CONSTANTS
  Headers,          \* the RTP headers to send
  PayloadHeaders,   \* the payload headers to send
  Garbage           \* an octet of an uninitialised buffer

ASSUME InputsAssumption ==
  /\ Headers \subseteq RTP_PacketHeader
  /\ PayloadHeaders \subseteq RTP_PayloadHeader
  /\ Garbage \subseteq Octet

VARIABLES
  header, payload,            \* what is sent
  header_buff, payload_buff,  \* the std::arrays of transmit()
  stage,                      \* how far the packet is
  parsed_header, parsed_payload

inputs == <<header, payload>>
vars == <<inputs, header_buff, payload_buff, stage, parsed_header,
          parsed_payload>>

Nothing == [none |-> TRUE]

Init ==
  /\ header \in Headers
  /\ payload \in PayloadHeaders
  /\ \E g \in Garbage :
       /\ header_buff = [i \in 0 .. RTP_PacketHeader_Size - 1 |-> g]
       /\ payload_buff = [i \in 0 .. RTP_PayloadHeader_Size - 1 |-> g]
  /\ stage = "header"
  /\ parsed_header = Nothing
  /\ parsed_payload = Nothing

SerializeHeader ==
  LET res == serialize_rtp_header_to(header, header_buff) IN
  /\ stage = "header"
  /\ header_buff' = res.buffer
  /\ stage' = IF res.ec = "ok" THEN "payload" ELSE "rejected"
  /\ UNCHANGED <<inputs, payload_buff, parsed_header, parsed_payload>>

SerializePayloadHeader ==
  LET res == serialize_payload_header(payload, payload_buff) IN
  /\ stage = "payload"
  /\ payload_buff' = res.buffer
  /\ stage' = IF res.ec = "ok" THEN "sent" ELSE "rejected"
  /\ UNCHANGED <<inputs, header_buff, parsed_header, parsed_payload>>

Deserialize ==
  LET h == deserialize_rtp_header_from(header_buff)
      p == deserialize_payload_header(payload_buff)
  IN
  /\ stage = "sent"
  /\ h.ec = "ok" /\ p.ec = "ok"
  /\ parsed_header' = h.value
  /\ parsed_payload' = p.value
  /\ stage' = "parsed"
  /\ UNCHANGED <<inputs, header_buff, payload_buff>>

Next == SerializeHeader \/ SerializePayloadHeader \/ Deserialize

Spec == Init /\ [][Next]_vars

-----------------------------------------------------------------------------
(* Properties *)

TypeOK ==
  /\ header_buff \in Buffer(RTP_PacketHeader_Size)
  /\ payload_buff \in Buffer(RTP_PayloadHeader_Size)
  /\ parsed_header \in RTP_PacketHeader \cup {Nothing}
  /\ parsed_payload \in RTP_PayloadHeader \cup {Nothing}

(* Every RTP header that serialize accepts is read back as it was, every   *)
(* field of it (randomized_routrip_test, for all values).                  *)
HeaderRoundTrip == stage = "parsed" => parsed_header = header

(* A payload header is read back as one that operator== calls equal        *)
(* (randomized_payload_header_routrip_test).                               *)
PayloadRoundTrip ==
  stage = "parsed" => SamePayloadHeader(parsed_payload, payload)

(* On the wire the numbers are in network byte order and the first two     *)
(* octets are laid out as RFC 3550, 5.1 draws them: a reader that knows    *)
(* only the RFC finds the fields (basic_serialize_test).                   *)
NetworkOrder ==
  stage = "parsed" =>
    /\ header_buff[0] \div 64 = header.version
    /\ (header_buff[0] \div 32) % 2 = Bit(header.padding_bit)
    /\ (header_buff[0] \div 16) % 2 = Bit(header.extension_bit)
    /\ header_buff[0] % 16 = header.csrc_size
    /\ header_buff[1] = 128 * Bit(header.marker_bit) + header.payload_type
    /\ header.sequence_num = 256 * header_buff[2] + header_buff[3]
    /\ \A k \in 0 .. 3 : /\ header.timestamp[k] = header_buff[7 - k]
                         /\ header.ssrc[k] = header_buff[11 - k]

(* The tests set flags like any other field of the payload header, and so  *)
(* it should survive the round trip as well.  (Only they set it:           *)
(* transmit() leaves it 0 and the receive handler does not read it.)       *)
FlagsRoundTrip == stage = "parsed" => parsed_payload.flags = payload.flags
=============================================================================
