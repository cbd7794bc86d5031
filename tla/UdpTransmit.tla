---------------------------- MODULE UdpTransmit -----------------------------
(***************************************************************************)
(* UDP_TransmitImpl (src/src/libns/udp_transmit.cpp): transmit() makes one *)
(* datagram of a VideoPacket and hands it to the socket.  Only the         *)
(* encoder's callback calls it, one packet after the other.                *)
(*                                                                         *)
(* The packets to come are the constant Stream.  A datagram also carries   *)
(* the number of its packet, which no action of the receiver looks at.     *)
(***************************************************************************)
EXTENDS UdpNetwork

CONSTANTS
  MaxPackets,   \* bound: packets transmitted
  Stream,       \* the packets, numbered from 0
  SeqMod        \* 2^16, the values of a uint16_t sequence number

ASSUME StreamAssumption ==
  /\ MaxPackets \in Nat
  /\ Stream \in [0 .. MaxPackets - 1 -> VideoPacket]
  /\ \A n \in 0 .. MaxPackets - 1 :
       /\ Stream[n].nal_data.nal = n
       /\ Stream[n].nal_data.size \in NalSizes

ASSUME SeqModAssumption == SeqMod \in 1 .. 65536

VARIABLE
  m_sequence_num  \* the number of the next packet; an atomic unsigned that
                  \* wraps at 2^32, of which only the low 16 bits are read

TransmitInit == m_sequence_num = 0

(* Faulty variant: the number is not cut down to 16 bits. *)
SequenceNumWide(n) == n

(* The 16 bits of m_sequence_num that fit header.sequence_num. *)
SequenceNum(n) == n % SeqMod

Header(packet, n) ==
  [version |-> 2, padding_bit |-> TRUE, extension_bit |-> FALSE,
   marker_bit |-> FALSE, payload_type |-> 78,
   sequence_num |-> SequenceNum(n), timestamp |-> packet.timestamp,
   ssrc |-> [k \in 0 .. 3 |-> 0], csrc_size |-> 0]

(* flags is left at its default. *)
PayloadHeader(packet) ==
  [nal_type |-> packet.nal_type, first_mb |-> packet.first_macroblock,
   last_mb |-> packet.last_macroblock, flags |-> 0]

Uninitialized(n) == [i \in 0 .. n - 1 |-> 0]

(* The three buffers send_to gathers into one datagram. *)
Datagram(packet, n) ==
  [number  |-> n,
   header  |-> serialize_rtp_header_to(Header(packet, n),
                 Uninitialized(RTP_PacketHeader_Size)).buffer,
   payload |-> serialize_payload_header(PayloadHeader(packet),
                 Uninitialized(RTP_PayloadHeader_Size)).buffer,
   nal     |-> packet.nal_data]

(* transmit(): the number is used up even if the packet is not sent.       *)
(* send_to either queues the datagram or fails, which is only logged.      *)
Transmit ==
  LET packet == Stream[m_sequence_num]
      header == serialize_rtp_header_to(Header(packet, m_sequence_num),
                  Uninitialized(RTP_PacketHeader_Size))
  IN
  /\ m_sequence_num < MaxPackets
  /\ m_sequence_num' = m_sequence_num + 1
  /\ \/ header.ec = "ok" /\ Send(Datagram(packet, m_sequence_num))
     \/ UNCHANGED net
=============================================================================
