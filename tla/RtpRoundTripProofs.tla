------------------------- MODULE RtpRoundTripProofs -------------------------
(***************************************************************************)
(* The two headers survive the way through rtp.cpp, for any set of headers *)
(* and whatever the buffers held before.                                   *)
(***************************************************************************)
EXTENDS RtpRoundTrip, RtpLemmas

(* What the buffers hold at each stage. *)
StageInv ==
  /\ header \in RTP_PacketHeader /\ payload \in RTP_PayloadHeader
  /\ header_buff \in Buffer(RTP_PacketHeader_Size)
  /\ payload_buff \in Buffer(RTP_PayloadHeader_Size)
  /\ stage \in {"header", "payload", "sent", "parsed", "rejected"}
  /\ stage # "parsed" => parsed_header = Nothing /\ parsed_payload = Nothing
  /\ stage \in {"payload", "sent", "parsed"} =>
       /\ Accepted(header)
       /\ header_buff[0] % 16 = 0
       /\ deserialize_rtp_header_from(header_buff)
            = [ec |-> "ok", value |-> header]
  /\ stage = "sent" =>
       deserialize_payload_header(payload_buff) =
         [ec |-> "ok", value |-> [payload EXCEPT !.flags = payload.last_mb]]
  /\ stage = "parsed" =>
       /\ parsed_header = header
       /\ parsed_payload = [payload EXCEPT !.flags = payload.last_mb]

LEMMA StageInvHolds == Spec => []StageInv
<1>1. Init => StageInv
  <2> SUFFICES ASSUME Init PROVE StageInv
    OBVIOUS
  <2>1. header \in RTP_PacketHeader /\ payload \in RTP_PayloadHeader
    BY InputsAssumption DEF Init
  <2>2. /\ header_buff \in Buffer(RTP_PacketHeader_Size)
        /\ payload_buff \in Buffer(RTP_PayloadHeader_Size)
    BY InputsAssumption DEF Init, Buffer
  <2> QED
    BY <2>1, <2>2 DEF Init, StageInv
<1>2. StageInv /\ [Next]_vars => StageInv'
  <2> SUFFICES ASSUME StageInv, [Next]_vars PROVE StageInv'
    OBVIOUS
  <2>1. CASE SerializeHeader
    <3> DEFINE res == serialize_rtp_header_to(header, header_buff)
    <3>1. /\ header_buff \in Buffer(RTP_PacketHeader_Size)
          /\ res.buffer \in Buffer(RTP_PacketHeader_Size)
      BY SerializeKeepsBuffer DEF StageInv
    <3>2. CASE res.ec = "ok"
      <4>1. Accepted(header)
        BY <3>1, <3>2, SerializeAccepts DEF StageInv
      <4>2. deserialize_rtp_header_from(res.buffer)
              = [ec |-> "ok", value |-> header]
        BY <3>1, <4>1, HeaderSurvives
      <4>3. res.buffer[0] % 16 = 0
        <5>1. res.buffer = [i \in 0 .. 11 |-> HeaderOctet(header, i)]
          BY <4>1, HeaderLayout DEF StageInv
        <5>2. HeaderOctet(header, 0) = FirstOctet(header, 0)
          BY <4>1 DEF HeaderOctet, Accepted
        <5>3. FirstOctet(header, 0) % 16 = 0
          BY <4>1, FirstOctetFields
        <5> HIDE DEF res
        <5> QED
          BY <5>1, <5>2, <5>3
      <4> QED
        BY <2>1, <3>1, <3>2, <4>1, <4>2, <4>3
           DEF SerializeHeader, StageInv, inputs
    <3>3. CASE res.ec # "ok"
      BY <2>1, <3>1, <3>3 DEF SerializeHeader, StageInv, inputs
    <3> QED
      BY <3>2, <3>3
  <2>2. CASE SerializePayloadHeader
    BY <2>2, PayloadHeaderSurvives
       DEF SerializePayloadHeader, StageInv, inputs
  <2>3. CASE Deserialize
    BY <2>3 DEF Deserialize, StageInv, inputs
  <2>4. CASE UNCHANGED vars
    BY <2>4 DEF StageInv, vars, inputs
  <2> QED
    BY <2>1, <2>2, <2>3, <2>4 DEF Next
<1> QED
  BY <1>1, <1>2, PTL DEF Spec

(* Every RTP header that is sent at all is parsed back unchanged, on a     *)
(* machine of either byte order, whatever the buffers held before.         *)
THEOREM HeadersRoundTrip == Spec => []HeaderRoundTrip
<1>1. StageInv => HeaderRoundTrip
  BY DEF StageInv, HeaderRoundTrip
<1> QED
  BY <1>1, StageInvHolds, PTL

(* Payload headers come back equal in the sense of operator==.             *)
THEOREM PayloadHeadersRoundTrip == Spec => []PayloadRoundTrip
<1>1. StageInv => PayloadRoundTrip
  BY DEF StageInv, PayloadRoundTrip, SamePayloadHeader, RTP_PayloadHeader
<1> QED
  BY <1>1, StageInvHolds, PTL

(* What becomes of flags: the receiver finds last_mb there, for every      *)
(* packet, so FlagsRoundTrip holds only of packets that carry it anyway.   *)
THEOREM FlagsAreLastMb ==
  Spec => [](stage = "parsed" => parsed_payload.flags = payload.last_mb)
<1>1. StageInv =>
        (stage = "parsed" => parsed_payload.flags = payload.last_mb)
  BY DEF StageInv, RTP_PayloadHeader
<1> QED
  BY <1>1, StageInvHolds, PTL

(* The buffers only ever hold octets, also when the header is refused      *)
(* after some of it has been written, and what is parsed fits the fields.  *)
THEOREM TypeCorrect == Spec => []TypeOK
<1>1. StageInv => TypeOK
  BY DEF StageInv, TypeOK, Accepted, RTP_PayloadHeader
<1> QED
  BY <1>1, StageInvHolds, PTL

(* Built for a little-endian machine, the code puts every RTP header on    *)
(* the wire as the RFC draws it.  (It converts to network order and writes *)
(* the result least significant octet first, so a big-endian build would   *)
(* write the numbers backwards, and still understand itself.)              *)
THEOREM WireIsNetworkOrder ==
  ASSUME LittleEndian PROVE Spec => []NetworkOrder
<1>1. ASSUME StageInv, stage = "parsed" PROVE NetworkOrder
  <2> DEFINE b == header_buff
  <2>1. /\ Accepted(header) /\ b[0] % 16 = 0
        /\ b \in Buffer(RTP_PacketHeader_Size)
        /\ deserialize_rtp_header_from(b) = [ec |-> "ok", value |-> header]
    BY <1>1 DEF StageInv
  <2>2. \A i \in 0 .. 11 : b[i] \in Octet
    BY <2>1 DEF Buffer, RTP_PacketHeader_Size
  <2>3. ~ShorterThan(b, RTP_PacketHeader_Size)
    BY <2>1 DEF ShorterThan, Buffer, RTP_PacketHeader_Size
  <2>4. /\ header.version = b[0] \div 64
        /\ header.padding_bit = ((b[0] \div 32) % 2 = 1)
        /\ header.extension_bit = ((b[0] \div 16) % 2 = 1)
        /\ header.marker_bit = (b[1] \div 128 = 1)
        /\ header.payload_type = b[1] % 128
        /\ header.sequence_num = Swap16(Word(b[2], b[3]))
        /\ header.timestamp = Swap32([k \in 0 .. 3 |-> b[4 + k]])
        /\ header.ssrc = Swap32([k \in 0 .. 3 |-> b[8 + k]])
    BY <2>1, <2>3
       DEF deserialize_rtp_header_from, ntoh16, hton16, ntoh32, hton32
  <2>5. header.csrc_size = 0
    BY <2>1 DEF Accepted
  <2>6. b[1] = 128 * Bit(header.marker_bit) + header.payload_type
    <3>1. ASSUME NEW o \in Octet
          PROVE  o = 128 * Bit(o \div 128 = 1) + (o % 128)
      BY DEF Octet, Bit
    <3> QED
      BY <2>2, <2>4, <3>1
  <2>7. header.sequence_num = 256 * b[2] + b[3]
    <3>1. ASSUME NEW o \in Octet, NEW p \in Octet
          PROVE  Swap16(Word(o, p)) = 256 * o + p
      <4>1. Low(Word(o, p)) = o /\ High(Word(o, p)) = p
        BY OctetsOfWord
      <4> QED
        BY <4>1 DEF Swap16, Word, Octet
    <3> QED
      BY <2>2, <2>4, <3>1
  <2>8. \A k \in 0 .. 3 : /\ header.timestamp[k] = b[7 - k]
                          /\ header.ssrc[k] = b[11 - k]
    BY <2>4 DEF Swap32
  <2>9. /\ (b[0] \div 32) % 2 = Bit(header.padding_bit)
        /\ (b[0] \div 16) % 2 = Bit(header.extension_bit)
    <3>1. ASSUME NEW o \in Octet
          PROVE  /\ (o \div 32) % 2 = Bit((o \div 32) % 2 = 1)
                 /\ (o \div 16) % 2 = Bit((o \div 16) % 2 = 1)
      BY DEF Octet, Bit
    <3> QED
      BY <2>2, <2>4, <3>1
  <2> QED
    BY <2>1, <2>4, <2>5, <2>6, <2>7, <2>8, <2>9 DEF NetworkOrder
<1>2. StageInv => NetworkOrder
  BY <1>1 DEF NetworkOrder
<1> QED
  BY <1>2, StageInvHolds, PTL
=============================================================================
