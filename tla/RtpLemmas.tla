----------------------------- MODULE RtpLemmas ------------------------------
(***************************************************************************)
(* What the functions of rtp.cpp do to the two headers, for all values of  *)
(* their fields and on machines of either byte order.                      *)
(***************************************************************************)
EXTENDS Rtp, TLAPS

(* A 16-bit number is the word of its two octets.                          *)
LEMMA WordOfOctets ==
  ASSUME NEW v \in UInt16
  PROVE  /\ Low(v) \in Octet /\ High(v) \in Octet
         /\ Word(Low(v), High(v)) = v
BY DEF UInt16, Octet, Low, High, Word

(* The octets of a word are the ones it was made of. *)
LEMMA OctetsOfWord ==
  ASSUME NEW a \in Octet, NEW b \in Octet
  PROVE  Word(a, b) \in UInt16 /\ Low(Word(a, b)) = a /\ High(Word(a, b)) = b
BY DEF UInt16, Octet, Low, High, Word

(* Swapping the octets of a 16-bit number twice gives it back.             *)
LEMMA Swap16Twice ==
  ASSUME NEW v \in UInt16
  PROVE  Swap16(v) \in UInt16 /\ Swap16(Swap16(v)) = v
<1>1. Low(v) \in Octet /\ High(v) \in Octet /\ Word(Low(v), High(v)) = v
  BY WordOfOctets
<1>2. /\ Word(High(v), Low(v)) \in UInt16
      /\ Low(Word(High(v), Low(v))) = High(v)
      /\ High(Word(High(v), Low(v))) = Low(v)
  BY <1>1, OctetsOfWord
<1> QED
  BY <1>1, <1>2 DEF Swap16

(* ntohs undoes htons, whatever the byte order of the machine.             *)
LEMMA Hton16RoundTrip ==
  ASSUME NEW v \in UInt16
  PROVE  /\ hton16(v) \in UInt16
         /\ ntoh16(hton16(v)) = v
         /\ ntoh16(Word(Low(hton16(v)), High(hton16(v)))) = v
<1>1. hton16(v) \in UInt16 /\ ntoh16(hton16(v)) = v
  BY Swap16Twice DEF hton16, ntoh16
<1>2. Word(Low(hton16(v)), High(hton16(v))) = hton16(v)
  BY <1>1, WordOfOctets
<1> QED
  BY <1>1, <1>2

(* ntohl undoes htonl. *)
LEMMA Hton32RoundTrip ==
  ASSUME NEW v \in UInt32
  PROVE  hton32(v) \in UInt32 /\ ntoh32(hton32(v)) = v
BY DEF UInt32, hton32, ntoh32, Swap32

-----------------------------------------------------------------------------
(* The headers serialize_rtp_header_to accepts. *)
Accepted(ph) ==
  /\ ph \in RTP_PacketHeader
  /\ ph.version <= 3
  /\ ph.payload_type <= 127
  /\ ph.csrc_size = 0

(* A header is accepted exactly if its fields fit the fixed RTP header.    *)
LEMMA SerializeAccepts ==
  ASSUME NEW ph \in RTP_PacketHeader,
         NEW buffer \in Buffer(RTP_PacketHeader_Size)
  PROVE  serialize_rtp_header_to(ph, buffer).ec = "ok" <=> Accepted(ph)
<1>1. ~ShorterThan(buffer, RTP_PacketHeader_Size)
  BY DEF Buffer, RTP_PacketHeader_Size, ShorterThan
<1>2. ph.version \in Nat /\ ph.csrc_size \in Nat /\ ph.payload_type \in Nat
  BY DEF RTP_PacketHeader
<1> QED
  BY <1>1, <1>2 DEF Accepted, serialize_rtp_header_to, Failed

(* The first two octets of an accepted header, taken apart again.          *)
LEMMA FirstOctetFields ==
  ASSUME NEW ph, Accepted(ph)
  PROVE  LET o == FirstOctet(ph, 0)
         IN  /\ o \in Octet
             /\ o \div 64 = ph.version
             /\ ((o \div 32) % 2 = 1) = ph.padding_bit
             /\ ((o \div 16) % 2 = 1) = ph.extension_bit
             /\ o % 16 = 0
<1> DEFINE v == ph.version
           p == Bit(ph.padding_bit)
           e == Bit(ph.extension_bit)
<1>1. v \in 0 .. 3 /\ p \in 0 .. 1 /\ e \in 0 .. 1
  BY DEF Accepted, RTP_PacketHeader, Bit
<1>2. (p = 1) = ph.padding_bit /\ (e = 1) = ph.extension_bit
  BY DEF Accepted, RTP_PacketHeader, Bit
<1>3. FirstOctet(ph, 0) = 64 * v + 32 * p + 16 * e
  BY <1>1 DEF FirstOctet
<1> HIDE DEF v, p, e
<1>4. LET o == 64 * v + 32 * p + 16 * e
      IN  /\ o \in Octet
          /\ o \div 64 = v
          /\ (o \div 32) % 2 = p
          /\ (o \div 16) % 2 = e
          /\ o % 16 = 0
  BY <1>1 DEF Octet
<1> QED
  BY <1>2, <1>3, <1>4 DEF v

LEMMA SecondOctetFields ==
  ASSUME NEW ph, Accepted(ph)
  PROVE  LET o == SecondOctet(ph, ph.payload_type)
         IN  /\ o \in Octet
             /\ (o \div 128 = 1) = ph.marker_bit
             /\ o % 128 = ph.payload_type
<1> DEFINE m == Bit(ph.marker_bit)
           t == ph.payload_type
<1>1. m \in 0 .. 1 /\ t \in 0 .. 127 /\ (m = 1) = ph.marker_bit
  BY DEF Accepted, RTP_PacketHeader, Bit
<1>2. SecondOctet(ph, t) = 128 * m + t
  BY DEF SecondOctet
<1> HIDE DEF m, t
<1>3. LET o == 128 * m + t
      IN  o \in Octet /\ o \div 128 = m /\ o % 128 = t
  BY <1>1 DEF Octet
<1> QED
  BY <1>1, <1>2, <1>3 DEF t

(* What serialize_rtp_header_to may write are octets, also when it goes on *)
(* to refuse the header.                                                   *)
LEMMA HeaderOctets ==
  ASSUME NEW ph \in RTP_PacketHeader, ph.version <= 3
  PROVE  /\ FirstOctet(ph, 0) \in Octet
         /\ ph.csrc_size <= 15 => FirstOctet(ph, ph.csrc_size) \in Octet
         /\ SecondOctet(ph, 0) \in Octet
         /\ ph.csrc_size <= 15 /\ ph.payload_type <= 127 =>
              [i \in 0 .. 11 |-> HeaderOctet(ph, i)]
                \in Buffer(RTP_PacketHeader_Size)
<1>1. /\ ph.version \in 0 .. 3 /\ ph.csrc_size \in Nat
      /\ ph.payload_type \in Nat
      /\ Bit(ph.padding_bit) \in 0 .. 1 /\ Bit(ph.extension_bit) \in 0 .. 1
      /\ Bit(ph.marker_bit) \in 0 .. 1
      /\ ph.sequence_num \in UInt16 /\ ph.timestamp \in UInt32
      /\ ph.ssrc \in UInt32
  BY DEF RTP_PacketHeader, Bit
<1>2. /\ FirstOctet(ph, 0) \in Octet
      /\ ph.csrc_size <= 15 => FirstOctet(ph, ph.csrc_size) \in Octet
  BY <1>1 DEF FirstOctet, Octet
<1>3. SecondOctet(ph, 0) \in Octet
  BY <1>1 DEF SecondOctet, Octet
<1>4. ASSUME ph.csrc_size <= 15, ph.payload_type <= 127, NEW i \in 0 .. 11
      PROVE  HeaderOctet(ph, i) \in Octet
  <2>1. SecondOctet(ph, ph.payload_type) \in Octet
    BY <1>1, <1>4 DEF SecondOctet, Octet
  <2>2. /\ Low(hton16(ph.sequence_num)) \in Octet
        /\ High(hton16(ph.sequence_num)) \in Octet
    BY <1>1, Hton16RoundTrip, WordOfOctets
  <2>3. \A k \in 0 .. 3 : /\ hton32(ph.timestamp)[k] \in Octet
                          /\ hton32(ph.ssrc)[k] \in Octet
    BY <1>1, Hton32RoundTrip DEF UInt32
  <2>4. CASE i \in 4 .. 7
    BY <2>3, <2>4 DEF HeaderOctet
  <2>5. CASE i \in 8 .. 11
    BY <2>3, <2>5 DEF HeaderOctet
  <2>6. i \in {0, 1, 2, 3} \/ i \in 4 .. 7 \/ i \in 8 .. 11
    OBVIOUS
  <2> QED
    BY <1>2, <1>4, <2>1, <2>2, <2>4, <2>5, <2>6 DEF HeaderOctet
<1> QED
  BY <1>2, <1>3, <1>4 DEF Buffer, RTP_PacketHeader_Size

(* Whatever becomes of the header, the buffer holds octets afterwards.     *)
LEMMA SerializeKeepsBuffer ==
  ASSUME NEW ph \in RTP_PacketHeader,
         NEW buffer \in Buffer(RTP_PacketHeader_Size)
  PROVE  serialize_rtp_header_to(ph, buffer).buffer
           \in Buffer(RTP_PacketHeader_Size)
<1> DEFINE octets == [i \in 0 .. 11 |-> HeaderOctet(ph, i)]
<1>1. /\ ph.version \in Nat /\ ph.csrc_size \in Nat
      /\ ph.payload_type \in Nat
  BY DEF RTP_PacketHeader
<1>2. /\ DOMAIN buffer = 0 .. 11
      /\ ~ShorterThan(buffer, RTP_PacketHeader_Size)
  BY DEF Buffer, RTP_PacketHeader_Size, ShorterThan
<1>3. ASSUME NEW a \in Octet, NEW b \in Octet
      PROVE  /\ [buffer EXCEPT ![0] = a] \in Buffer(RTP_PacketHeader_Size)
             /\ [buffer EXCEPT ![0] = a, ![1] = b]
                  \in Buffer(RTP_PacketHeader_Size)
  BY DEF Buffer, RTP_PacketHeader_Size
<1>4. CASE ph.version > 3
  BY <1>4 DEF serialize_rtp_header_to, Failed
<1>5. CASE ph.version <= 3 /\ ph.csrc_size > 15
  <2>1. FirstOctet(ph, 0) \in Octet
    BY <1>5, HeaderOctets
  <2> QED
    BY <1>1, <1>2, <1>3, <1>5, <2>1 DEF serialize_rtp_header_to, Failed
<1>6. CASE /\ ph.version <= 3 /\ ph.csrc_size <= 15
           /\ ph.payload_type > 127
  <2>1. FirstOctet(ph, ph.csrc_size) \in Octet /\ SecondOctet(ph, 0) \in Octet
    BY <1>6, HeaderOctets
  <2>2. ~(ph.version > 3) /\ ~(ph.csrc_size > 15)
    BY <1>1, <1>6
  <2>3. serialize_rtp_header_to(ph, buffer).buffer
          = [buffer EXCEPT ![0] = FirstOctet(ph, ph.csrc_size),
                           ![1] = SecondOctet(ph, 0)]
    BY <1>2, <1>6, <2>2 DEF serialize_rtp_header_to, Failed
  <2>4. [buffer EXCEPT ![0] = FirstOctet(ph, ph.csrc_size),
                       ![1] = SecondOctet(ph, 0)]
          \in Buffer(RTP_PacketHeader_Size)
    <3> DEFINE a == FirstOctet(ph, ph.csrc_size)
               b == SecondOctet(ph, 0)
    <3>1. a \in Octet /\ b \in Octet
      BY <2>1
    <3> HIDE DEF a, b
    <3>2. [buffer EXCEPT ![0] = a, ![1] = b] \in Buffer(RTP_PacketHeader_Size)
      BY <1>3, <3>1
    <3> QED
      BY <3>2 DEF a, b
  <2> QED
    BY <2>3, <2>4
<1>7. CASE /\ ph.version <= 3 /\ ph.csrc_size <= 15
           /\ ph.payload_type <= 127
  <2>1. octets \in Buffer(RTP_PacketHeader_Size)
    BY <1>7, HeaderOctets
  <2>2. serialize_rtp_header_to(ph, buffer).buffer
          = [i \in 0 .. 11 |->
               IF i < 12 THEN HeaderOctet(ph, i) ELSE buffer[i]]
    BY <1>1, <1>2, <1>7
       DEF serialize_rtp_header_to, Failed, RTP_PacketHeader_Size
  <2>3. serialize_rtp_header_to(ph, buffer).buffer = octets
    BY <2>2
  <2> QED
    BY <2>1, <2>3
<1>8. \/ ph.version > 3
      \/ ph.version <= 3 /\ ph.csrc_size > 15
      \/ /\ ph.version <= 3 /\ ph.csrc_size <= 15
         /\ ph.payload_type > 127
      \/ /\ ph.version <= 3 /\ ph.csrc_size <= 15
         /\ ph.payload_type <= 127
  BY <1>1
<1> QED
  BY <1>4, <1>5, <1>6, <1>7, <1>8

(* The octets of an accepted header.                                       *)
LEMMA HeaderLayout ==
  ASSUME NEW ph, Accepted(ph),
         NEW buffer \in Buffer(RTP_PacketHeader_Size)
  PROVE  serialize_rtp_header_to(ph, buffer).buffer
           = [i \in 0 .. 11 |-> HeaderOctet(ph, i)]
<1>1. DOMAIN buffer = 0 .. 11
  BY DEF Buffer, RTP_PacketHeader_Size
<1>2. serialize_rtp_header_to(ph, buffer).buffer
        = [i \in 0 .. 11 |-> IF i < 12 THEN HeaderOctet(ph, i) ELSE buffer[i]]
  BY <1>1 DEF Accepted, RTP_PacketHeader, serialize_rtp_header_to, Failed,
              ShorterThan, RTP_PacketHeader_Size
<1> QED
  BY <1>2
-----------------------------------------------------------------------------
(* An accepted header is read back field by field as it was written, from  *)
(* any buffer it was serialized into.                                      *)
LEMMA HeaderSurvives ==
  ASSUME NEW ph, Accepted(ph),
         NEW buffer \in Buffer(RTP_PacketHeader_Size)
  PROVE  LET wire == serialize_rtp_header_to(ph, buffer).buffer
         IN  /\ wire \in Buffer(RTP_PacketHeader_Size)
             /\ deserialize_rtp_header_from(wire) = [ec |-> "ok", value |-> ph]
<1> DEFINE wire == serialize_rtp_header_to(ph, buffer).buffer
           got  == deserialize_rtp_header_from(wire)
<1>1. /\ ph.sequence_num \in UInt16 /\ ph.timestamp \in UInt32
      /\ ph.ssrc \in UInt32
  BY DEF Accepted, RTP_PacketHeader
<1>2. wire = [i \in 0 .. 11 |-> HeaderOctet(ph, i)]
  BY HeaderLayout
<1>3. /\ hton16(ph.sequence_num) \in UInt16
      /\ hton32(ph.timestamp) \in UInt32
      /\ hton32(ph.ssrc) \in UInt32
  BY <1>1, Hton16RoundTrip, Hton32RoundTrip
<1>4. /\ wire[0] = FirstOctet(ph, 0)
      /\ wire[1] = SecondOctet(ph, ph.payload_type)
      /\ wire[2] = Low(hton16(ph.sequence_num))
      /\ wire[3] = High(hton16(ph.sequence_num))
      /\ \A k \in 0 .. 3 : wire[4 + k] = hton32(ph.timestamp)[k]
      /\ \A k \in 0 .. 3 : wire[8 + k] = hton32(ph.ssrc)[k]
  <2> HIDE DEF wire
  <2>1. ph.csrc_size = 0
    BY DEF Accepted
  <2>2. wire[0] = FirstOctet(ph, 0)
    BY <1>2, <2>1 DEF HeaderOctet
  <2>3. wire[1] = SecondOctet(ph, ph.payload_type)
    BY <1>2 DEF HeaderOctet
  <2>4. /\ wire[2] = Low(hton16(ph.sequence_num))
        /\ wire[3] = High(hton16(ph.sequence_num))
    BY <1>2 DEF HeaderOctet
  <2>5. ASSUME NEW k \in 0 .. 3 PROVE wire[4 + k] = hton32(ph.timestamp)[k]
    BY <1>2 DEF HeaderOctet
  <2>6. ASSUME NEW k \in 0 .. 3 PROVE wire[8 + k] = hton32(ph.ssrc)[k]
    BY <1>2 DEF HeaderOctet
  <2> QED
    BY <2>2, <2>3, <2>4, <2>5, <2>6
<1>5. wire \in Buffer(RTP_PacketHeader_Size)
  BY SerializeKeepsBuffer DEF Accepted
<1>6. /\ got.ec = "ok"
      /\ got.value.version = ph.version
      /\ got.value.padding_bit = ph.padding_bit
      /\ got.value.extension_bit = ph.extension_bit
      /\ got.value.marker_bit = ph.marker_bit
      /\ got.value.payload_type = ph.payload_type
      /\ got.value.sequence_num = ph.sequence_num
      /\ got.value.timestamp = ph.timestamp
      /\ got.value.ssrc = ph.ssrc
      /\ got.value.csrc_size = ph.csrc_size
  <2>1. ~ShorterThan(wire, RTP_PacketHeader_Size)
    BY <1>2 DEF ShorterThan, RTP_PacketHeader_Size
  <2>2. ntoh16(Word(wire[2], wire[3])) = ph.sequence_num
    BY <1>1, <1>4, Hton16RoundTrip
  <2>3. /\ [k \in 0 .. 3 |-> wire[4 + k]] = hton32(ph.timestamp)
        /\ [k \in 0 .. 3 |-> wire[8 + k]] = hton32(ph.ssrc)
    BY <1>3, <1>4 DEF UInt32
  <2>4. /\ ntoh32([k \in 0 .. 3 |-> wire[4 + k]]) = ph.timestamp
        /\ ntoh32([k \in 0 .. 3 |-> wire[8 + k]]) = ph.ssrc
    BY <1>1, <2>3, Hton32RoundTrip
  <2>5. /\ wire[0] \div 64 = ph.version
        /\ ((wire[0] \div 32) % 2 = 1) = ph.padding_bit
        /\ ((wire[0] \div 16) % 2 = 1) = ph.extension_bit
        /\ (wire[1] \div 128 = 1) = ph.marker_bit
        /\ wire[1] % 128 = ph.payload_type
    BY <1>4, FirstOctetFields, SecondOctetFields
  <2> HIDE DEF wire
  <2> QED
    BY <2>1, <2>2, <2>4, <2>5 DEF deserialize_rtp_header_from, Accepted
<1>7. got = [ec |-> "ok", value |-> got.value]
  BY <1>2 DEF deserialize_rtp_header_from, ShorterThan, RTP_PacketHeader_Size
<1>8. got.value = ph
  <2>1. ph \in RTP_PacketHeader
    BY DEF Accepted
  <2>2. got.value =
          [version |-> got.value.version,
           padding_bit |-> got.value.padding_bit,
           extension_bit |-> got.value.extension_bit,
           marker_bit |-> got.value.marker_bit,
           payload_type |-> got.value.payload_type,
           sequence_num |-> got.value.sequence_num,
           timestamp |-> got.value.timestamp,
           ssrc |-> got.value.ssrc,
           csrc_size |-> got.value.csrc_size]
    <3>1. ~ShorterThan(wire, RTP_PacketHeader_Size)
      BY <1>2 DEF ShorterThan, RTP_PacketHeader_Size
    <3> HIDE DEF wire
    <3> QED
      BY <3>1 DEF deserialize_rtp_header_from
  <2> HIDE DEF got
  <2> QED
    BY <2>1, <2>2, <1>6 DEF RTP_PacketHeader
<1> QED
  BY <1>5, <1>7, <1>8

(* A payload header is read back equal as far as operator== looks, and     *)
(* with last_mb in place of its flags.                                     *)
LEMMA PayloadHeaderSurvives ==
  ASSUME NEW ph \in RTP_PayloadHeader,
         NEW buffer \in Buffer(RTP_PayloadHeader_Size)
  PROVE  LET res == serialize_payload_header(ph, buffer)
         IN  /\ res.ec = "ok"
             /\ res.buffer \in Buffer(RTP_PayloadHeader_Size)
             /\ deserialize_payload_header(res.buffer) =
                  [ec |-> "ok", value |-> [ph EXCEPT !.flags = ph.last_mb]]
<1> DEFINE res  == serialize_payload_header(ph, buffer)
           wire == res.buffer
<1>1. /\ ph.nal_type \in Octet
      /\ ph.first_mb \in UInt16 /\ ph.last_mb \in UInt16
      /\ ph.flags \in UInt16
  BY DEF RTP_PayloadHeader
<1>2. res = [ec |-> "ok", buffer |-> [i \in 0 .. 6 |-> PayloadOctet(ph, i)]]
  <2>1. DOMAIN buffer = 0 .. 6
    BY DEF Buffer, RTP_PayloadHeader_Size
  <2>2. res = [ec |-> "ok",
               buffer |-> [i \in 0 .. 6 |-> IF i < 7 THEN PayloadOctet(ph, i)
                                                     ELSE buffer[i]]]
    BY <2>1 DEF serialize_payload_header, ShorterThan, RTP_PayloadHeader_Size
  <2> QED
    BY <2>2
<1>3. /\ wire[0] = ph.nal_type
      /\ wire[1] = Low(hton16(ph.first_mb))
      /\ wire[2] = High(hton16(ph.first_mb))
      /\ wire[3] = Low(hton16(ph.last_mb))
      /\ wire[4] = High(hton16(ph.last_mb))
      /\ wire[5] = Low(hton16(ph.flags))
      /\ wire[6] = High(hton16(ph.flags))
  <2> HIDE DEF res
  <2> QED
    BY <1>2 DEF PayloadOctet
<1>4. wire \in Buffer(RTP_PayloadHeader_Size)
  <2>1. \A v \in UInt16 : Low(hton16(v)) \in Octet /\ High(hton16(v)) \in Octet
    BY Hton16RoundTrip, WordOfOctets
  <2>2. /\ wire[0] \in Octet /\ wire[1] \in Octet /\ wire[2] \in Octet
        /\ wire[3] \in Octet /\ wire[4] \in Octet /\ wire[5] \in Octet
        /\ wire[6] \in Octet
    BY <1>1, <1>3, <2>1
  <2>3. wire = [i \in 0 .. 6 |-> wire[i]]
    BY <1>2
  <2> HIDE DEF wire
  <2> QED
    BY <2>2, <2>3 DEF Buffer, RTP_PayloadHeader_Size
<1>5. deserialize_payload_header(wire) =
        [ec |-> "ok", value |->
          [nal_type |-> ph.nal_type, first_mb |-> ph.first_mb,
           last_mb |-> ph.last_mb, flags |-> ph.last_mb]]
  <2>1. ~ShorterThan(wire, RTP_PayloadHeader_Size)
    BY <1>2 DEF ShorterThan, RTP_PayloadHeader_Size
  <2>2. /\ ntoh16(Word(wire[1], wire[2])) = ph.first_mb
        /\ ntoh16(Word(wire[3], wire[4])) = ph.last_mb
    BY <1>1, <1>3, Hton16RoundTrip
  <2> HIDE DEF wire
  <2> QED
    BY <1>3, <2>1, <2>2 DEF deserialize_payload_header, wire
<1>6. [nal_type |-> ph.nal_type, first_mb |-> ph.first_mb,
       last_mb |-> ph.last_mb, flags |-> ph.last_mb]
        = [ph EXCEPT !.flags = ph.last_mb]
  BY DEF RTP_PayloadHeader
<1> QED
  BY <1>2, <1>4, <1>5, <1>6
=============================================================================
