----------------------------- MODULE UdpReceive -----------------------------
(***************************************************************************)
(* UDP_ReceiveImpl (src/src/libns/udp_receive.cpp).  One receive operation *)
(* at a time fills m_buffer; its handler rejects the datagram or parses it *)
(* into a VideoPacket, compares its sequence number with the previous one  *)
(* and calls the listener; then it starts the next receive operation.      *)
(* Handlers run on the thread that runs the io_context, while datagrams    *)
(* keep arriving at the socket.                                            *)
(***************************************************************************)
EXTENDS UdpNetwork

CONSTANT
  Strays   \* datagrams of other programs the handler has to reject, in the
           \* form m_buffer has after them

VARIABLES
  rx,              \* "armed", "handler", "listener": where the receiver is
  m_buffer,        \* what the last receive operations left there
  bytes_received,  \* the handler's argument
  m_prev_seq_num,
  packet,          \* the packet the listener was called with last
  heard,           \* its number, -1 before the first
  missed           \* was "Error, missed packet" logged for it

(* Faulty variant: room for the NAL unit only. *)
BufferSizeNoHeaders == 1400

BufferSize == 1600

HeadersSize == RTP_PacketHeader_Size + RTP_PayloadHeader_Size

(* m_buffer's three parts, and whose datagram it is. *)
BufferType ==
  [number : Int, header : Buffer(RTP_PacketHeader_Size),
   payload : Buffer(RTP_PayloadHeader_Size), nal : NalData]

(* A program that is not the transmitter sends datagrams that are shorter  *)
(* than an RTP header, of another RTP version or with an extension.        *)
ASSUME StraysAssumption ==
  \A s \in Strays :
    /\ s.size \in 0 .. BufferSize
    /\ s.buffer \in BufferType
    /\ \/ s.size < RTP_PacketHeader_Size
       \/ /\ s.size >= HeadersSize
          /\ \/ s.buffer.header[0] \div 64 # 2
             \/ (s.buffer.header[0] \div 16) % 2 = 1

NoPacket == [none |-> TRUE]

Zeros(n) == [i \in 0 .. n - 1 |-> 0]

receiverVars == <<rx, m_buffer, bytes_received, m_prev_seq_num, packet, heard,
                  missed>>
heardVars == <<m_prev_seq_num, packet, heard, missed>>

(* initialize() has resized m_buffer, start() has called receive_next().   *)
ReceiveInit ==
  /\ rx = "armed"
  /\ m_buffer = [number |-> -1, header |-> Zeros(RTP_PacketHeader_Size),
                 payload |-> Zeros(RTP_PayloadHeader_Size),
                 nal |-> [nal |-> -1, size |-> 0]]
  /\ bytes_received = 0
  /\ m_prev_seq_num = -1
  /\ packet = NoPacket
  /\ heard = -1
  /\ missed = FALSE

(* receive_next(): nothing but a receive operation touches m_buffer. *)
receive_next == rx' = "armed"

AtMost(a, b) == IF a <= b THEN a ELSE b

(* A receive operation completes.  What does not fit m_buffer is cut off.  *)
CompleteReceive ==
  /\ rx = "armed"
  /\ \E d \in net :
       /\ Arrives(d)
       /\ m_buffer' = d
       /\ bytes_received' = AtMost(HeadersSize + d.nal.size, BufferSize)
  /\ rx' = "handler"
  /\ UNCHANGED heardVars

CompleteStray ==
  /\ rx = "armed"
  /\ \E s \in Strays :
       /\ m_buffer' = s.buffer
       /\ bytes_received' = s.size
  /\ rx' = "handler"
  /\ UNCHANGED <<net, heardVars>>

(* "async_receive_from failed": the handler only starts over. *)
ReceiveError ==
  /\ rx = "armed"
  /\ receive_next
  /\ UNCHANGED <<net, m_buffer, bytes_received, heardVars>>

TooSmall == bytes_received < RTP_PacketHeader_Size

RtpHeader        == deserialize_rtp_header_from(m_buffer.header)
RtpPayloadHeader == deserialize_payload_header(m_buffer.payload)

WrongRtp ==
  \/ RtpHeader.ec # "ok"
  \/ RtpHeader.value.version # 2
  \/ RtpHeader.value.extension_bit
  \/ RtpPayloadHeader.ec # "ok"

(* Faulty variant: an early return without receive_next(). *)
RejectWithoutRearm ==
  /\ rx = "handler"
  /\ TooSmall \/ WrongRtp
  /\ rx' = "returned"
  /\ UNCHANGED <<net, m_buffer, bytes_received, heardVars>>

(* Too small, no RTP header, not version 2 or with an extension. *)
RejectDatagram ==
  /\ rx = "handler"
  /\ TooSmall \/ WrongRtp
  /\ receive_next
  /\ UNCHANGED <<net, m_buffer, bytes_received, heardVars>>

(* Faulty variant: the macroblocks are mixed up. *)
ParsedPacketSwapped ==
  LET h == RtpHeader.value
      p == RtpPayloadHeader.value
  IN  [nal_data |-> [nal |-> m_buffer.nal.nal,
                     size |-> bytes_received - HeadersSize],
       timestamp |-> h.timestamp, nal_type |-> p.nal_type,
       first_macroblock |-> p.last_mb, last_macroblock |-> p.first_mb,
       flags |-> 0]

(* The packet the handler makes of m_buffer. *)
ParsedPacket ==
  LET h == RtpHeader.value
      p == RtpPayloadHeader.value
  IN  [nal_data |-> [nal |-> m_buffer.nal.nal,
                     size |-> bytes_received - HeadersSize],
       timestamp |-> h.timestamp, nal_type |-> p.nal_type,
       first_macroblock |-> p.first_mb, last_macroblock |-> p.last_mb,
       flags |-> 0]

(* Faulty variant: only a number that is too high is reported. *)
HandlePacketHigher ==
  LET seq == RtpHeader.value.sequence_num IN
  /\ rx = "handler"
  /\ ~TooSmall /\ ~WrongRtp
  /\ missed' = (m_prev_seq_num # -1 /\ m_prev_seq_num + 1 < seq)
  /\ m_prev_seq_num' = seq
  /\ packet' = ParsedPacket
  /\ heard' = m_buffer.number
  /\ rx' = "listener"
  /\ UNCHANGED <<net, m_buffer, bytes_received>>

(* Faulty variant: after a gap the old number is kept. *)
HandlePacketKeepsNumber ==
  LET seq == RtpHeader.value.sequence_num IN
  /\ rx = "handler"
  /\ ~TooSmall /\ ~WrongRtp
  /\ missed' = (m_prev_seq_num # -1 /\ m_prev_seq_num + 1 # seq)
  /\ m_prev_seq_num' = IF missed' THEN m_prev_seq_num ELSE seq
  /\ packet' = ParsedPacket
  /\ heard' = m_buffer.number
  /\ rx' = "listener"
  /\ UNCHANGED <<net, m_buffer, bytes_received>>

(* The handler down to the call of on_packet_received.  m_prev_seq_num is  *)
(* an int: the sum is not reduced to 16 bits.                              *)
HandlePacket ==
  LET seq == RtpHeader.value.sequence_num IN
  /\ rx = "handler"
  /\ ~TooSmall /\ ~WrongRtp
  /\ missed' = (m_prev_seq_num # -1 /\ m_prev_seq_num + 1 # seq)
  /\ m_prev_seq_num' = seq
  /\ packet' = ParsedPacket
  /\ heard' = m_buffer.number
  /\ rx' = "listener"
  /\ UNCHANGED <<net, m_buffer, bytes_received>>

(* on_packet_received returns, and the handler starts the next operation.  *)
ListenerReturns ==
  /\ rx = "listener"
  /\ receive_next
  /\ UNCHANGED <<net, m_buffer, bytes_received, heardVars>>

Receive ==
  \/ CompleteReceive \/ CompleteStray \/ ReceiveError
  \/ RejectDatagram \/ HandlePacket \/ ListenerReturns
=============================================================================
