-------------------------------- MODULE Rtp ---------------------------------
(***************************************************************************)
(* The RTP header and the payload header of a packet, and what the four    *)
(* functions of src/src/libns/rtp.cpp write to and read from a buffer.     *)
(*                                                                         *)
(* A buffer is a function from 0 .. n - 1 to octets.  A uint32_t is kept   *)
(* as its four octets, octet 0 the least significant: no arithmetic is     *)
(* done on timestamp and ssrc.                                             *)
(***************************************************************************)
EXTENDS Integers

CONSTANT
  LittleEndian   \* byte order of the machine the code is built for

ASSUME LittleEndianAssumption == LittleEndian \in BOOLEAN

Octet  == 0 .. 255
UInt16 == 0 .. 65535
UInt32 == [0 .. 3 -> Octet]

RTP_PacketHeader_Size  == 12
RTP_PayloadHeader_Size == 7

(* What a buffer of n octets can hold, and whether a buffer has fewer.     *)
Buffer(n) == [0 .. n - 1 -> Octet]
ShorterThan(buffer, n) == n - 1 \notin DOMAIN buffer

Low(v)  == v % 256
High(v) == v \div 256
Word(low, high) == low + 256 * high

Swap16(v) == Word(High(v), Low(v))
Swap32(v) == [k \in 0 .. 3 |-> v[3 - k]]

(* htons, htonl; ntohs and ntohl are the same functions. *)
hton16(v) == IF LittleEndian THEN Swap16(v) ELSE v
hton32(v) == IF LittleEndian THEN Swap32(v) ELSE v
ntoh16(v) == hton16(v)
ntoh32(v) == hton32(v)

(* The fields of RTP_PacketHeader.  Of csrc only the length matters: no    *)
(* function reads or writes an item.                                       *)
RTP_PacketHeader ==
  [version : Nat, padding_bit : BOOLEAN, extension_bit : BOOLEAN,
   marker_bit : BOOLEAN, payload_type : Nat, sequence_num : UInt16,
   timestamp : UInt32, ssrc : UInt32, csrc_size : Nat]

RTP_PayloadHeader ==
  [nal_type : Octet, first_mb : UInt16, last_mb : UInt16, flags : UInt16]

Bit(b) == IF b THEN 1 ELSE 0

-----------------------------------------------------------------------------
(* serialize_rtp_header_to: the error code, and the buffer afterwards; an  *)
(* early return leaves what was written before it.                         *)

FirstOctet(ph, csrcs) ==
  64 * ph.version + 32 * Bit(ph.padding_bit) + 16 * Bit(ph.extension_bit)
    + csrcs

SecondOctet(ph, type) == 128 * Bit(ph.marker_bit) + type

(* Faulty variant: the sequence number is written in host order. *)
HeaderOctetHostOrder(ph, i) ==
  CASE i = 0         -> FirstOctet(ph, ph.csrc_size)
    [] i = 1         -> SecondOctet(ph, ph.payload_type)
    [] i = 2         -> Low(ph.sequence_num)
    [] i = 3         -> High(ph.sequence_num)
    [] i \in 4 .. 7  -> hton32(ph.timestamp)[i - 4]
    [] i \in 8 .. 11 -> hton32(ph.ssrc)[i - 8]

HeaderOctet(ph, i) ==
  CASE i = 0         -> FirstOctet(ph, ph.csrc_size)
    [] i = 1         -> SecondOctet(ph, ph.payload_type)
    [] i = 2         -> Low(hton16(ph.sequence_num))
    [] i = 3         -> High(hton16(ph.sequence_num))
    [] i \in 4 .. 7  -> hton32(ph.timestamp)[i - 4]
    [] i \in 8 .. 11 -> hton32(ph.ssrc)[i - 8]

Failed(ec, buffer) == [ec |-> ec, buffer |-> buffer]

(* Faulty variant: payload_type is not checked to fit its 7 bits. *)
serialize_rtp_header_unchecked(ph, buffer) ==
  IF ShorterThan(buffer, RTP_PacketHeader_Size) \/ ph.version > 3
    THEN Failed("invalid_argument", buffer)
  ELSE IF ph.csrc_size > 15
    THEN Failed("invalid_argument",
                [buffer EXCEPT ![0] = FirstOctet(ph, 0)])
  ELSE [ec |-> IF ph.csrc_size # 0 THEN "protocol_not_supported" ELSE "ok",
        buffer |-> [i \in DOMAIN buffer |->
                      IF i < RTP_PacketHeader_Size THEN HeaderOctet(ph, i)
                                                   ELSE buffer[i]]]

serialize_rtp_header_to(ph, buffer) ==
  IF ShorterThan(buffer, RTP_PacketHeader_Size) \/ ph.version > 3
    THEN Failed("invalid_argument", buffer)
  ELSE IF ph.csrc_size > 15
    THEN Failed("invalid_argument",
                [buffer EXCEPT ![0] = FirstOctet(ph, 0)])
  ELSE IF ph.payload_type > 127
    THEN Failed("invalid_argument",
                [buffer EXCEPT ![0] = FirstOctet(ph, ph.csrc_size),
                               ![1] = SecondOctet(ph, 0)])
  ELSE [ec |-> IF ph.csrc_size # 0 THEN "protocol_not_supported" ELSE "ok",
        buffer |-> [i \in DOMAIN buffer |->
                      IF i < RTP_PacketHeader_Size THEN HeaderOctet(ph, i)
                                                   ELSE buffer[i]]]

(* Faulty variant: the marker bit is not masked out of payload_type. *)
deserialize_rtp_header_unmasked(data) ==
  IF ShorterThan(data, RTP_PacketHeader_Size)
    THEN [ec |-> "invalid_argument"]
    ELSE [ec |-> "ok", value |->
           [version       |-> data[0] \div 64,
            padding_bit   |-> (data[0] \div 32) % 2 = 1,
            extension_bit |-> (data[0] \div 16) % 2 = 1,
            marker_bit    |-> data[1] \div 128 = 1,
            payload_type  |-> data[1],
            sequence_num  |-> ntoh16(Word(data[2], data[3])),
            timestamp     |-> ntoh32([k \in 0 .. 3 |-> data[4 + k]]),
            ssrc          |-> ntoh32([k \in 0 .. 3 |-> data[8 + k]]),
            csrc_size     |-> 0]]

(* deserialize_rtp_header_from: the csrc list is skipped. *)
deserialize_rtp_header_from(data) ==
  IF ShorterThan(data, RTP_PacketHeader_Size)
    THEN [ec |-> "invalid_argument"]
    ELSE [ec |-> "ok", value |->
           [version       |-> data[0] \div 64,
            padding_bit   |-> (data[0] \div 32) % 2 = 1,
            extension_bit |-> (data[0] \div 16) % 2 = 1,
            marker_bit    |-> data[1] \div 128 = 1,
            payload_type  |-> data[1] % 128,
            sequence_num  |-> ntoh16(Word(data[2], data[3])),
            timestamp     |-> ntoh32([k \in 0 .. 3 |-> data[4 + k]]),
            ssrc          |-> ntoh32([k \in 0 .. 3 |-> data[8 + k]]),
            csrc_size     |-> 0]]

-----------------------------------------------------------------------------
(* serialize_payload_header and deserialize_payload_header *)

PayloadOctet(ph, i) ==
  CASE i = 0 -> ph.nal_type
    [] i = 1 -> Low(hton16(ph.first_mb))
    [] i = 2 -> High(hton16(ph.first_mb))
    [] i = 3 -> Low(hton16(ph.last_mb))
    [] i = 4 -> High(hton16(ph.last_mb))
    [] i = 5 -> Low(hton16(ph.flags))
    [] i = 6 -> High(hton16(ph.flags))

serialize_payload_header(ph, buffer) ==
  IF ShorterThan(buffer, RTP_PayloadHeader_Size)
    THEN Failed("invalid_argument", buffer)
    ELSE [ec |-> "ok",
          buffer |-> [i \in DOMAIN buffer |->
                        IF i < RTP_PayloadHeader_Size
                          THEN PayloadOctet(ph, i) ELSE buffer[i]]]

(* Faulty variant: last_mb is read from the octets of first_mb. *)
deserialize_payload_header_shifted(data) ==
  IF ShorterThan(data, RTP_PayloadHeader_Size)
    THEN [ec |-> "invalid_argument"]
    ELSE [ec |-> "ok", value |->
           [nal_type |-> data[0],
            first_mb |-> ntoh16(Word(data[1], data[2])),
            last_mb  |-> ntoh16(Word(data[2], data[3])),
            flags    |-> ntoh16(Word(data[3], data[4]))]]

(* flags is read from octets 3 and 4, where last_mb is. *)
deserialize_payload_header(data) ==
  IF ShorterThan(data, RTP_PayloadHeader_Size)
    THEN [ec |-> "invalid_argument"]
    ELSE [ec |-> "ok", value |->
           [nal_type |-> data[0],
            first_mb |-> ntoh16(Word(data[1], data[2])),
            last_mb  |-> ntoh16(Word(data[3], data[4])),
            flags    |-> ntoh16(Word(data[3], data[4]))]]

(* operator== of two payload headers does not look at flags. *)
SamePayloadHeader(lhs, rhs) ==
  /\ lhs.nal_type = rhs.nal_type
  /\ lhs.first_mb = rhs.first_mb
  /\ lhs.last_mb = rhs.last_mb
=============================================================================
