-------------------------- MODULE TransportProofs ---------------------------
(***************************************************************************)
(* What the transport guarantees for every stream, any number of packets   *)
(* and any number of sequence numbers.                                     *)
(***************************************************************************)
EXTENDS Transport, RtpLemmas

(* The packets that are transmitted. *)
Numbers == 0 .. MaxPackets - 1

(* A sequence number has 16 bits, or what SeqMod puts in their place.      *)
LEMMA SequenceNumRange ==
  ASSUME NEW n \in Numbers
  PROVE  /\ n \in Nat
         /\ SequenceNum(n) \in 0 .. SeqMod - 1
         /\ SequenceNum(n) \in 0 .. 65535
<1>1. n \in Nat
  BY StreamAssumption DEF Numbers
<1>2. SeqMod \in Nat /\ SeqMod > 0 /\ SeqMod <= 65536
  BY SeqModAssumption
<1>3. n % SeqMod \in 0 .. SeqMod - 1
  BY <1>1, <1>2
<1> QED
  BY <1>1, <1>2, <1>3 DEF SequenceNum

(* A datagram says, once parsed, what transmit() was given: the handler    *)
(* accepts it, and finds the packet's metadata and sequence number.        *)
LEMMA DatagramParses ==
  ASSUME NEW n \in Numbers
  PROVE  LET d == Datagram(Stream[n], n)
         IN  /\ d \in DatagramType
             /\ d.number = n
             /\ d.nal = Stream[n].nal_data
             /\ serialize_rtp_header_to(Header(Stream[n], n),
                  Uninitialized(RTP_PacketHeader_Size)).ec = "ok"
             /\ deserialize_rtp_header_from(d.header)
                  = [ec |-> "ok", value |-> Header(Stream[n], n)]
             /\ deserialize_payload_header(d.payload)
                  = [ec |-> "ok", value |->
                      [PayloadHeader(Stream[n]) EXCEPT
                         !.flags = Stream[n].last_macroblock]]
<1>1. Stream[n] \in VideoPacket
  BY StreamAssumption DEF Numbers
<1>2. n \in Nat
  BY SequenceNumRange
<1>13. SequenceNum(n) \in UInt16
  BY SequenceNumRange DEF UInt16
<1>3. Header(Stream[n], n) \in RTP_PacketHeader
  <2>1. Stream[n].timestamp \in UInt32
    BY <1>1 DEF VideoPacket
  <2>2. [k \in 0 .. 3 |-> 0] \in UInt32
    BY DEF UInt32, Octet
  <2> QED
    BY <1>13, <2>1, <2>2 DEF Header, RTP_PacketHeader
<1>4. Accepted(Header(Stream[n], n))
  BY <1>3 DEF Accepted, Header
<1>5. PayloadHeader(Stream[n]) \in RTP_PayloadHeader
  <2>1. /\ Stream[n].nal_type \in Octet
        /\ Stream[n].first_macroblock \in UInt16
        /\ Stream[n].last_macroblock \in UInt16
    BY <1>1 DEF VideoPacket
  <2>2. 0 \in UInt16
    BY DEF UInt16
  <2> QED
    BY <2>1, <2>2 DEF PayloadHeader, RTP_PayloadHeader
<1>6. /\ Uninitialized(RTP_PacketHeader_Size)
           \in Buffer(RTP_PacketHeader_Size)
      /\ Uninitialized(RTP_PayloadHeader_Size)
           \in Buffer(RTP_PayloadHeader_Size)
  BY DEF Uninitialized, Buffer, Octet
<1>7. serialize_rtp_header_to(Header(Stream[n], n),
        Uninitialized(RTP_PacketHeader_Size)).ec = "ok"
  BY <1>3, <1>4, <1>6, SerializeAccepts
<1>8. LET wire == serialize_rtp_header_to(Header(Stream[n], n),
                    Uninitialized(RTP_PacketHeader_Size)).buffer
      IN  /\ wire \in Buffer(RTP_PacketHeader_Size)
          /\ deserialize_rtp_header_from(wire)
               = [ec |-> "ok", value |-> Header(Stream[n], n)]
  BY <1>4, <1>6, HeaderSurvives
<1>9. LET wire == serialize_payload_header(PayloadHeader(Stream[n]),
                    Uninitialized(RTP_PayloadHeader_Size)).buffer
      IN  /\ wire \in Buffer(RTP_PayloadHeader_Size)
          /\ deserialize_payload_header(wire)
               = [ec |-> "ok", value |->
                   [PayloadHeader(Stream[n]) EXCEPT
                      !.flags = PayloadHeader(Stream[n]).last_mb]]
  BY <1>5, <1>6, PayloadHeaderSurvives
<1>10. PayloadHeader(Stream[n]).last_mb = Stream[n].last_macroblock
  BY DEF PayloadHeader
<1>11. Stream[n].nal_data \in NalData
  BY <1>1 DEF VideoPacket
<1>12. Datagram(Stream[n], n) \in DatagramType
  BY <1>2, <1>8, <1>9, <1>11 DEF Datagram, DatagramType
<1> QED
  BY <1>7, <1>8, <1>9, <1>10, <1>12 DEF Datagram

-----------------------------------------------------------------------------
(* The datagrams in flight are the ones transmit() made. *)
NetInv ==
  \A d \in net : /\ d.number \in 0 .. m_sequence_num - 1
                 /\ d = Datagram(Stream[d.number], d.number)

(* A handler works on such a datagram, all of it, or on a stray one.       *)
BufferInv ==
  rx = "handler" =>
    \/ /\ m_buffer.number \in 0 .. m_sequence_num - 1
       /\ m_buffer = Datagram(Stream[m_buffer.number], m_buffer.number)
       /\ bytes_received = HeadersSize + m_buffer.nal.size
    \/ TooSmall \/ WrongRtp

(* m_prev_seq_num is the sequence number of the packet heard last.         *)
SeqInv == m_prev_seq_num = IF heard = -1 THEN -1 ELSE SequenceNum(heard)

IInv == TypeOK /\ NetInv /\ BufferInv /\ SeqInv /\ Intact

LEMMA InitIInv == Init => IInv
<1> SUFFICES ASSUME Init PROVE IInv
  OBVIOUS
<1> USE DEF Init, TransmitInit, NetworkInit, ReceiveInit
<1>1. TypeOK
  <2>1. m_sequence_num \in 0 .. MaxPackets /\ heard \in -1 .. MaxPackets - 1
    BY StreamAssumption
  <2>2. m_prev_seq_num \in -1 .. SeqMod - 1
    BY SeqModAssumption
  <2>3. m_buffer \in BufferType
    BY DEF BufferType, Zeros, Buffer, Octet, NalData
  <2>4. bytes_received \in 0 .. BufferSize
    BY DEF BufferSize
  <2>5. /\ net \subseteq DatagramType
        /\ rx \in {"armed", "handler", "listener"}
        /\ packet \in VideoPacket \cup {NoPacket}
        /\ missed \in BOOLEAN
    OBVIOUS
  <2> QED
    BY ONLY <2>1, <2>2, <2>3, <2>4, <2>5 DEF TypeOK
<1>2. NetInv
  BY DEF NetInv
<1>3. BufferInv
  <2>1. rx # "handler"
    OBVIOUS
  <2> QED
    BY ONLY <2>1 DEF BufferInv
<1>4. SeqInv /\ Intact
  BY DEF SeqInv, Intact
<1> QED
  BY <1>1, <1>2, <1>3, <1>4 DEF IInv

(* What the handler hands to the listener from a datagram of the stream.   *)
LEMMA ParsedPacketIsSent ==
  ASSUME NEW n \in Numbers,
         m_buffer = Datagram(Stream[n], n),
         bytes_received = HeadersSize + m_buffer.nal.size
  PROVE  /\ ~TooSmall /\ ~WrongRtp
         /\ RtpHeader.value.sequence_num = SequenceNum(n)
         /\ ParsedPacket = PacketOf(n)
<1>1. Stream[n] \in VideoPacket /\ Stream[n].nal_data.nal = n
  BY StreamAssumption DEF Numbers
<1>2. /\ m_buffer.nal = Stream[n].nal_data
      /\ RtpHeader = [ec |-> "ok", value |-> Header(Stream[n], n)]
      /\ RtpPayloadHeader = [ec |-> "ok", value |->
           [PayloadHeader(Stream[n]) EXCEPT
              !.flags = Stream[n].last_macroblock]]
  BY DatagramParses DEF RtpHeader, RtpPayloadHeader
<1>3. Stream[n].nal_data \in NalData
  BY <1>1 DEF VideoPacket
<1>4. /\ HeadersSize = 19
      /\ bytes_received = 19 + Stream[n].nal_data.size
      /\ Stream[n].nal_data.size \in Nat
  BY <1>2, <1>3
     DEF HeadersSize, RTP_PacketHeader_Size, RTP_PayloadHeader_Size, NalData
<1>5. ~TooSmall
  BY <1>4 DEF TooSmall, RTP_PacketHeader_Size
<1>6. ~WrongRtp
  BY <1>2 DEF WrongRtp, Header
<1>7. [nal |-> m_buffer.nal.nal, size |-> bytes_received - HeadersSize]
        = Stream[n].nal_data
  <2>1. bytes_received - HeadersSize = Stream[n].nal_data.size
    BY <1>4
  <2> QED
    BY <1>2, <1>3, <2>1 DEF NalData
<1>8. ParsedPacket = PacketOf(n)
  <2>1. ParsedPacket =
          [nal_data |-> Stream[n].nal_data, timestamp |-> Stream[n].timestamp,
           nal_type |-> Stream[n].nal_type,
           first_macroblock |-> Stream[n].first_macroblock,
           last_macroblock |-> Stream[n].last_macroblock, flags |-> 0]
    BY <1>2, <1>7 DEF ParsedPacket, Header, PayloadHeader
  <2> QED
    BY <1>1, <2>1 DEF PacketOf, VideoPacket
<1> QED
  BY <1>2, <1>5, <1>6, <1>8 DEF Header

LEMMA NextIInv == IInv /\ [Next]_vars => IInv'
<1> SUFFICES ASSUME IInv, [Next]_vars PROVE IInv'
  OBVIOUS
<1>0. MaxPackets \in Nat /\ m_sequence_num \in Nat
  BY StreamAssumption DEF IInv, TypeOK
<1>1. CASE Sender
  <2>1. /\ m_sequence_num < MaxPackets
        /\ m_sequence_num' = m_sequence_num + 1
        /\ \/ net' = net \cup {Datagram(Stream[m_sequence_num],
                                        m_sequence_num)}
           \/ net' = net
        /\ UNCHANGED receiverVars
    BY <1>1 DEF Sender, Transmit, Send
  <2>2. m_sequence_num \in Numbers
    BY <1>0, <2>1 DEF Numbers
  <2>3. /\ Datagram(Stream[m_sequence_num], m_sequence_num) \in DatagramType
        /\ Datagram(Stream[m_sequence_num], m_sequence_num).number
             = m_sequence_num
    BY <2>2, DatagramParses
  <2>4. TypeOK'
    BY <1>0, <2>1, <2>3 DEF IInv, TypeOK, receiverVars, BufferType
  <2>5. NetInv'
    BY <1>0, <2>1, <2>3 DEF IInv, NetInv
  <2>6. BufferInv'
    BY <1>0, <2>1
       DEF IInv, BufferInv, receiverVars, TooSmall, WrongRtp, RtpHeader,
           RtpPayloadHeader
  <2>7. SeqInv' /\ Intact'
    BY <1>0, <2>1 DEF IInv, TypeOK, SeqInv, Intact, receiverVars
  <2> QED
    BY <2>4, <2>5, <2>6, <2>7 DEF IInv
<1>2. CASE Network
  <2>1. net' \subseteq net /\ UNCHANGED <<m_sequence_num, receiverVars>>
    BY <1>2 DEF Network, Lose
  <2>2. TypeOK' /\ NetInv' /\ SeqInv' /\ Intact'
    BY <2>1 DEF IInv, TypeOK, NetInv, SeqInv, Intact, receiverVars
  <2>3. BufferInv'
    BY <2>1
       DEF IInv, BufferInv, receiverVars, TooSmall, WrongRtp, RtpHeader,
           RtpPayloadHeader
  <2> QED
    BY <2>2, <2>3 DEF IInv
<1>3. CASE Receiver
  <2>0. UNCHANGED m_sequence_num
    BY <1>3 DEF Receiver
  <2>1. CASE CompleteReceive
    <3>1. PICK d \in net : Arrives(d) /\ m_buffer' = d
                           /\ bytes_received'
                                = AtMost(HeadersSize + d.nal.size, BufferSize)
      BY <2>1 DEF CompleteReceive
    <3>2. /\ net' \subseteq net
          /\ UNCHANGED heardVars
          /\ rx' = "handler"
      BY <2>1, <3>1 DEF CompleteReceive, Arrives
    <3>3. /\ d.number \in 0 .. m_sequence_num - 1
          /\ d = Datagram(Stream[d.number], d.number)
          /\ d \in DatagramType
      BY DEF IInv, NetInv, TypeOK
    <3>4. d.number \in Numbers
      BY <1>0, <3>3 DEF Numbers, IInv, TypeOK
    <3>5. d.nal.size \in 0 .. 1400
      <4>1. d.nal = Stream[d.number].nal_data
        BY <3>3, <3>4, DatagramParses
      <4>2. \A n \in Numbers : Stream[n].nal_data.size \in 0 .. 1400
        BY StreamAssumption DEF Numbers, NalSizes
      <4> QED
        BY <3>4, <4>1, <4>2
    <3>6. /\ bytes_received' = HeadersSize + d.nal.size
          /\ bytes_received' \in 0 .. BufferSize
      <4>1. HeadersSize = 19 /\ BufferSize = 1600
        BY DEF HeadersSize, BufferSize, RTP_PacketHeader_Size,
               RTP_PayloadHeader_Size
      <4> DEFINE size == d.nal.size
      <4>2. bytes_received' = AtMost(19 + size, 1600) /\ size \in 0 .. 1400
        BY <3>1, <3>5, <4>1
      <4> HIDE DEF size
      <4>3. bytes_received' = 19 + size
        BY <4>2 DEF AtMost
      <4>4. bytes_received' \in 0 .. 1600
        BY <4>2, <4>3
      <4>5. bytes_received' = HeadersSize + size
        BY <4>1, <4>3
      <4>6. bytes_received' \in 0 .. BufferSize
        BY <4>1, <4>4
      <4> QED
        BY <4>5, <4>6 DEF size
    <3>7. d \in BufferType
      BY <3>3 DEF DatagramType, BufferType
    <3>8. TypeOK'
      BY <2>0, <3>1, <3>2, <3>6, <3>7 DEF IInv, TypeOK, heardVars
    <3>9. NetInv' /\ SeqInv' /\ Intact'
      BY <2>0, <3>2 DEF IInv, NetInv, SeqInv, Intact, heardVars
    <3>10. BufferInv'
      BY <2>0, <3>1, <3>3, <3>6 DEF BufferInv
    <3> QED
      BY <3>8, <3>9, <3>10 DEF IInv
  <2>2. CASE CompleteStray
    <3>1. PICK s \in Strays : m_buffer' = s.buffer /\ bytes_received' = s.size
      BY <2>2 DEF CompleteStray
    <3>2. UNCHANGED net /\ UNCHANGED heardVars /\ rx' = "handler"
      BY <2>2 DEF CompleteStray
    <3>3. /\ s.size \in 0 .. BufferSize
          /\ s.buffer \in BufferType
          /\ \/ s.size < RTP_PacketHeader_Size
             \/ s.buffer.header[0] \div 64 # 2
             \/ (s.buffer.header[0] \div 16) % 2 = 1
      BY StraysAssumption
    <3>4. (TooSmall \/ WrongRtp)'
      BY <3>1, <3>3
         DEF TooSmall, WrongRtp, RtpHeader, deserialize_rtp_header_from
    <3>5. TypeOK'
      BY <2>0, <3>1, <3>2, <3>3 DEF IInv, TypeOK, heardVars
    <3>6. NetInv' /\ SeqInv' /\ Intact'
      BY <2>0, <3>2 DEF IInv, NetInv, SeqInv, Intact, heardVars
    <3> QED
      BY <3>4, <3>5, <3>6 DEF IInv, BufferInv
  <2>3. CASE ReceiveError \/ RejectDatagram \/ ListenerReturns
    <3>1. /\ rx' = "armed"
          /\ UNCHANGED <<net, m_buffer, bytes_received>>
          /\ UNCHANGED heardVars
      BY <2>3
         DEF ReceiveError, RejectDatagram, ListenerReturns, receive_next
    <3>2. TypeOK'
      BY <2>0, <3>1 DEF IInv, TypeOK, heardVars
    <3>3. NetInv' /\ SeqInv' /\ Intact' /\ BufferInv'
      BY <2>0, <3>1 DEF IInv, NetInv, SeqInv, Intact, BufferInv, heardVars
    <3> QED
      BY <3>2, <3>3 DEF IInv
  <2>4. CASE HandlePacket
    <3> DEFINE n == m_buffer.number
    <3>1. /\ n \in 0 .. m_sequence_num - 1
          /\ m_buffer = Datagram(Stream[n], n)
          /\ bytes_received = HeadersSize + m_buffer.nal.size
      BY <2>4 DEF HandlePacket, IInv, BufferInv
    <3>2. n \in Numbers
      BY <1>0, <3>1 DEF Numbers, IInv, TypeOK
    <3>3. /\ RtpHeader.value.sequence_num = SequenceNum(n)
          /\ ParsedPacket = PacketOf(n)
      BY <3>1, <3>2, ParsedPacketIsSent
    <3>4. /\ m_prev_seq_num' = SequenceNum(n)
          /\ packet' = PacketOf(n)
          /\ heard' = n
          /\ rx' = "listener"
          /\ missed' \in BOOLEAN
          /\ UNCHANGED <<net, m_buffer, bytes_received>>
      BY <2>4, <3>3 DEF HandlePacket
    <3>5. SequenceNum(n) \in 0 .. SeqMod - 1 /\ n \in Nat
      BY <3>2, SequenceNumRange
    <3>6. PacketOf(n) \in VideoPacket
      <4>1. Stream[n] \in VideoPacket
        BY <3>2, StreamAssumption DEF Numbers
      <4>2. 0 \in UInt16
        BY DEF UInt16
      <4> QED
        BY <4>1, <4>2 DEF PacketOf, VideoPacket
    <3> HIDE DEF n
    <3>7. heard' \in -1 .. MaxPackets - 1
      BY <1>0, <3>2, <3>4 DEF Numbers
    <3>8. m_prev_seq_num' \in -1 .. SeqMod - 1
      BY <3>4, <3>5, SeqModAssumption
    <3>9. TypeOK'
      BY <2>0, <3>4, <3>6, <3>7, <3>8 DEF IInv, TypeOK
    <3>10. NetInv' /\ BufferInv'
      BY <2>0, <3>4 DEF IInv, NetInv, BufferInv
    <3>11. SeqInv'
      BY <3>4, <3>5 DEF SeqInv
    <3>12. Intact'
      BY <1>0, <2>0, <3>1, <3>4 DEF Intact, n
    <3> QED
      BY <3>9, <3>10, <3>11, <3>12 DEF IInv
  <2> QED
    BY <1>3, <2>1, <2>2, <2>3, <2>4 DEF Receiver, Receive
<1>4. CASE UNCHANGED vars
  <2>1. TypeOK' /\ NetInv' /\ SeqInv' /\ Intact'
    BY <1>4 DEF vars, IInv, TypeOK, NetInv, SeqInv, Intact, receiverVars
  <2>2. BufferInv'
    BY <1>4
       DEF vars, IInv, BufferInv, receiverVars, TooSmall, WrongRtp, RtpHeader,
           RtpPayloadHeader
  <2> QED
    BY <2>1, <2>2 DEF IInv
<1> QED
  BY <1>1, <1>2, <1>3, <1>4 DEF Next

LEMMA IInvHolds == Spec => []IInv
<1>1. Init => IInv
  BY InitIInv
<1>2. IInv /\ [Next]_vars => IInv'
  BY NextIInv
<1> QED
  BY <1>1, <1>2, PTL DEF Spec

(* Type correctness: in particular m_prev_seq_num is -1 or 16 bits wide    *)
(* and no datagram of the stream is cut off by m_buffer.                   *)
THEOREM TypeCorrect == Spec => []TypeOK
<1>1. IInv => TypeOK
  BY DEF IInv
<1> QED
  BY <1>1, IInvHolds, PTL

(* Whatever the network does to the order of the datagrams, and whatever   *)
(* stray ones come in between, the listener gets transmitted packets as    *)
(* they were.                                                              *)
THEOREM PacketsAreIntact == Spec => []Intact
<1>1. IInv => Intact
  BY DEF IInv
<1> QED
  BY <1>1, IInvHolds, PTL

-----------------------------------------------------------------------------
(* What the log says of missing packets *)

(* Numbers one apart, or with the same remainder.                          *)
LEMMA GapIsMultiple ==
  ASSUME NEW S \in Nat \ {0}, NEW a \in Nat, NEW b \in Nat,
         (a % S) + 1 = b % S
  PROVE  (b - a - 1) % S = 0
<1> DEFINE q == a \div S
           r == b \div S
<1>1. a = S * q + (a % S) /\ q \in Int
  OBVIOUS
<1>2. b = S * r + (b % S) /\ r \in Int
  OBVIOUS
<1>3. b - a - 1 = S * r - S * q
  <2>1. S * r \in Int /\ S * q \in Int /\ a % S \in Int /\ b % S \in Int
    BY <1>1, <1>2
  <2> HIDE DEF q, r
  <2> QED
    BY <1>1, <1>2, <2>1
<1>4. S * r - S * q = S * (r - q)
  <2> HIDE DEF q, r
  <2> QED
    BY <1>1, <1>2
<1>5. (S * (r - q)) % S = 0
  <2> HIDE DEF q, r
  <2> QED
    BY <1>1, <1>2
<1> QED
  BY <1>3, <1>4, <1>5

(* What is true of the call of HandlePacket: it hears a packet of the      *)
(* stream and compares its sequence number with that of the last one.      *)
LEMMA HandlePacketStep ==
  ASSUME IInv, HandlePacket
  PROVE  /\ heard' \in Numbers
         /\ heard' = m_buffer.number
         /\ packet' = PacketOf(heard')
         /\ heard # -1 =>
              /\ heard \in Numbers
              /\ missed' = (SequenceNum(heard) + 1 # SequenceNum(heard'))
<1> DEFINE n == m_buffer.number
<1>0. MaxPackets \in Nat /\ m_sequence_num \in 0 .. MaxPackets
  BY StreamAssumption DEF IInv, TypeOK
<1>1. /\ n \in 0 .. m_sequence_num - 1
      /\ m_buffer = Datagram(Stream[n], n)
      /\ bytes_received = HeadersSize + m_buffer.nal.size
  BY DEF HandlePacket, IInv, BufferInv
<1>2. n \in Numbers
  BY <1>0, <1>1 DEF Numbers
<1>3. /\ RtpHeader.value.sequence_num = SequenceNum(n)
      /\ ParsedPacket = PacketOf(n)
  BY <1>1, <1>2, ParsedPacketIsSent
<1>4. /\ heard' = n
      /\ packet' = PacketOf(n)
      /\ missed' = (m_prev_seq_num # -1 /\ m_prev_seq_num + 1 # SequenceNum(n))
  BY <1>3 DEF HandlePacket
<1>5. ASSUME heard # -1
      PROVE  /\ heard \in Numbers
             /\ missed' = (SequenceNum(heard) + 1 # SequenceNum(n))
  <2>1. heard \in Numbers
    BY <1>0, <1>5 DEF IInv, TypeOK, Numbers
  <2>2. \A k \in Numbers : SequenceNum(k) # -1
    BY SequenceNumRange
  <2>3. m_prev_seq_num = SequenceNum(heard)
    BY <1>5 DEF IInv, SeqInv
  <2>4. m_prev_seq_num # -1
    BY <2>1, <2>2, <2>3
  <2> HIDE DEF n
  <2> QED
    BY <1>4, <2>1, <2>3, <2>4
<1> QED
  BY <1>2, <1>4, <1>5

(* A gap that is not logged is a multiple of the sequence numbers long: it *)
(* takes 65536 lost packets in a row, in any network, to lose some in      *)
(* silence.                                                                *)
THEOREM NoGapIsSilent == Spec => NoSilentGap
<1>1. ASSUME IInv, HandlePacket, heard # -1, Gap, ~missed'
      PROVE  (heard' - heard - 1) % SeqMod = 0
  <2>1. heard \in Nat /\ heard' \in Nat
    BY <1>1, HandlePacketStep, SequenceNumRange
  <2>2. (heard % SeqMod) + 1 = heard' % SeqMod
    BY <1>1, HandlePacketStep DEF SequenceNum
  <2>3. SeqMod \in Nat \ {0}
    BY SeqModAssumption
  <2> QED
    BY <2>1, <2>2, <2>3, GapIsMultiple
<1>2. IInv /\ [Next]_vars =>
        [HandlePacket /\ heard # -1 /\ Gap /\ ~missed'
           => (heard' - heard - 1) % SeqMod = 0]_vars
  BY <1>1
<1> QED
  BY <1>2, IInvHolds, PTL DEF Spec, NoSilentGap

(* The successor of a number has the successor of its remainder, or 0.     *)
LEMMA SuccessorRemainder ==
  ASSUME NEW S \in Nat \ {0}, NEW a \in Nat, (a % S) + 1 # (a + 1) % S
  PROVE  (a + 1) % S = 0
<1> DEFINE q == a \div S
           r == a % S
<1>1. a = S * q + r /\ q \in Int /\ r \in 0 .. S - 1
  OBVIOUS
<1>2. CASE r + 1 < S
  <2>1. a + 1 = S * q + (r + 1) /\ r + 1 \in 0 .. S - 1
    BY <1>1, <1>2
  <2> HIDE DEF q, r
  <2>2. (S * q + (r + 1)) % S = r + 1
    BY <1>1, <2>1
  <2> QED
    BY <2>1, <2>2 DEF r
<1>3. CASE ~(r + 1 < S)
  <2>1. r + 1 = S
    BY <1>1, <1>3
  <2> HIDE DEF q, r
  <2>2. a + 1 = S * q + S
    BY <1>1, <2>1
  <2>3. S * q + S = S * (q + 1)
    BY <1>1
  <2>4. (S * (q + 1)) % S = 0
    BY <1>1
  <2> QED
    BY <2>2, <2>3, <2>4
<1> QED
  BY <1>2, <1>3

(* A packet logged as missed although none was: then the sequence number   *)
(* has just wrapped to 0, because the code compares without 16-bit         *)
(* arithmetic.                                                             *)
THEOREM FalseAlarmsOnlyAtWrap == Spec => AlarmOnlyAtWrap
<1>1. ASSUME IInv, HandlePacket, missed', ~Gap
      PROVE  SequenceNum(heard') = 0
  <2>1. SeqMod \in Nat \ {0}
    BY SeqModAssumption
  <2>2. heard' = heard + 1 /\ heard' \in Nat
    BY <1>1, HandlePacketStep, SequenceNumRange DEF Gap
  <2>3. CASE heard = -1
    BY <2>1, <2>2, <2>3 DEF SequenceNum
  <2>4. CASE heard # -1
    <3>1. heard \in Nat
      BY <1>1, <2>4, HandlePacketStep, SequenceNumRange
    <3>2. (heard % SeqMod) + 1 # (heard + 1) % SeqMod
      BY <1>1, <2>2, <2>4, HandlePacketStep DEF SequenceNum
    <3> QED
      BY <2>1, <2>2, <3>1, <3>2, SuccessorRemainder DEF SequenceNum
  <2> QED
    BY <2>3, <2>4
<1>2. IInv /\ [Next]_vars =>
        [HandlePacket /\ missed' /\ ~Gap => SequenceNum(heard') = 0]_vars
  BY <1>1
<1> QED
  BY <1>2, IInvHolds, PTL DEF Spec, AlarmOnlyAtWrap

(* As long as the sequence numbers do not wrap, the log is right: a packet *)
(* is reported missed exactly when there is a gap behind the first.        *)
THEOREM ReportsAreExactBeforeWrap ==
  ASSUME MaxPackets <= SeqMod
  PROVE  Spec => [][HandlePacket /\ heard # -1 => (missed' <=> Gap)]_vars
<1>1. ASSUME IInv, HandlePacket, heard # -1
      PROVE  missed' <=> Gap
  <2>1. heard \in Numbers /\ heard' \in Numbers
    BY <1>1, HandlePacketStep
  <2>2. ASSUME NEW n \in Numbers PROVE SequenceNum(n) = n
    <3>1. n \in Nat /\ n < SeqMod /\ SeqMod \in Nat \ {0}
      BY StreamAssumption, SeqModAssumption DEF Numbers
    <3> QED
      BY <3>1 DEF SequenceNum
  <2>3. missed' <=> heard + 1 # heard'
    BY <1>1, <2>1, <2>2, HandlePacketStep
  <2> QED
    BY <2>3 DEF Gap
<1>2. IInv /\ [Next]_vars =>
        [HandlePacket /\ heard # -1 => (missed' <=> Gap)]_vars
  BY <1>1
<1> QED
  BY <1>2, IInvHolds, PTL DEF Spec

-----------------------------------------------------------------------------
(* On a network that keeps the order, as the loopback interface does, the  *)
(* pair of transmitter and receiver is a LossyStream.                      *)

(* Everything still on its way is newer than what was heard.               *)
OrderInv ==
  /\ \A d \in net : heard < d.number
  /\ rx = "handler" /\ ~TooSmall /\ ~WrongRtp =>
       /\ heard < m_buffer.number
       /\ \A d \in net : m_buffer.number < d.number

(* Nothing overtakes or is duplicated.                                     *)
InOrder == ~Reordering /\ ~Duplication

LEMMA OrderStep ==
  ASSUME InOrder, IInv, IInv', OrderInv, [Next]_vars
  PROVE  OrderInv'
<1>0. /\ MaxPackets \in Nat /\ m_sequence_num \in 0 .. MaxPackets
      /\ heard \in -1 .. MaxPackets - 1
      /\ \A d \in net : d.number \in 0 .. m_sequence_num - 1
      /\ \A d, e \in net : d.number = e.number => d = e
  BY StreamAssumption DEF IInv, TypeOK, NetInv
<1>1. CASE Sender
  <2>1. /\ m_sequence_num' = m_sequence_num + 1
        /\ \/ net' = net \cup {Datagram(Stream[m_sequence_num],
                                        m_sequence_num)}
           \/ net' = net
        /\ UNCHANGED receiverVars
        /\ m_sequence_num < MaxPackets
    BY <1>1 DEF Sender, Transmit, Send
  <2>2. Datagram(Stream[m_sequence_num], m_sequence_num).number
          = m_sequence_num
    BY DEF Datagram
  <2>3. heard < m_sequence_num
    BY <1>0 DEF IInv, Intact
  <2>4. ASSUME rx = "handler", ~TooSmall, ~WrongRtp
        PROVE  m_buffer.number < m_sequence_num
    BY <1>0, <2>4 DEF IInv, BufferInv
  <2>5. /\ TooSmall' = TooSmall /\ WrongRtp' = WrongRtp
        /\ rx' = rx /\ heard' = heard /\ m_buffer' = m_buffer
    BY <2>1 DEF receiverVars, TooSmall, WrongRtp, RtpHeader, RtpPayloadHeader
  <2>6. \A d \in net' : d \in net \/ d.number = m_sequence_num
    BY <2>1, <2>2
  <2> QED
    BY <2>3, <2>4, <2>5, <2>6 DEF OrderInv
<1>2. CASE Network \/ UNCHANGED vars
  <2>1. /\ net' \subseteq net
        /\ UNCHANGED receiverVars
    BY <1>2 DEF Network, Lose, vars
  <2>2. /\ TooSmall' = TooSmall /\ WrongRtp' = WrongRtp
        /\ rx' = rx /\ heard' = heard /\ m_buffer' = m_buffer
    BY <2>1 DEF receiverVars, TooSmall, WrongRtp, RtpHeader, RtpPayloadHeader
  <2> QED
    BY <2>1, <2>2 DEF OrderInv
<1>3. CASE Receiver
  <2>1. CASE CompleteReceive
    <3>1. PICK d \in net : Arrives(d) /\ m_buffer' = d
      BY <2>1 DEF CompleteReceive
    <3>2. /\ net' = net \ {d}
          /\ \A e \in net : d.number <= e.number
          /\ heard' = heard
      BY <2>1, <3>1 DEF InOrder, Arrives, CompleteReceive, heardVars
    <3>3. \A e \in net' : d.number < e.number
      BY <1>0, <3>2
    <3> QED
      BY <3>1, <3>2, <3>3 DEF OrderInv
  <2>2. CASE CompleteStray
    <3>1. PICK s \in Strays : m_buffer' = s.buffer /\ bytes_received' = s.size
      BY <2>2 DEF CompleteStray
    <3>2. (TooSmall \/ WrongRtp)'
      <4>1. \/ s.size < RTP_PacketHeader_Size
            \/ s.buffer.header[0] \div 64 # 2
            \/ (s.buffer.header[0] \div 16) % 2 = 1
        BY StraysAssumption
      <4> QED
        BY <3>1, <4>1
           DEF TooSmall, WrongRtp, RtpHeader, deserialize_rtp_header_from
    <3>3. net' = net /\ heard' = heard
      BY <2>2 DEF CompleteStray, heardVars
    <3> QED
      BY <3>2, <3>3 DEF OrderInv
  <2>3. CASE ReceiveError \/ RejectDatagram \/ ListenerReturns
    BY <2>3
       DEF ReceiveError, RejectDatagram, ListenerReturns, receive_next,
           heardVars, OrderInv
  <2>4. CASE HandlePacket
    BY <2>4 DEF HandlePacket, OrderInv
  <2> QED
    BY <1>3, <2>1, <2>2, <2>3, <2>4 DEF Receiver, Receive
<1> QED
  BY <1>1, <1>2, <1>3 DEF Next

LEMMA OrderHolds == ASSUME InOrder PROVE Spec => []OrderInv
<1>1. Init => OrderInv
  BY DEF Init, NetworkInit, ReceiveInit, OrderInv
<1>2. IInv /\ IInv' /\ OrderInv /\ [Next]_vars => OrderInv'
  BY OrderStep
<1> QED
  BY <1>1, <1>2, IInvHolds, PTL DEF Spec

(* A step of the transport is a step of the stream or leaves it alone.     *)
LEMMA StepIsStreamStep ==
  ASSUME InOrder, IInv, OrderInv, [Next]_vars
  PROVE  [Lossy!Next]_(Lossy!streamVars)
<1> USE DEF Lossy!Next, Lossy!streamVars
<1>1. CASE Sender
  BY <1>1 DEF Sender, Transmit, receiverVars, Lossy!Transmit
<1>2. CASE Network \/ UNCHANGED vars
  BY <1>2 DEF Network, vars, receiverVars
<1>3. CASE Receiver
  <2>1. CASE HandlePacket
    <3>1. heard' = m_buffer.number /\ packet' = PacketOf(heard')
      BY <2>1, HandlePacketStep
    <3>2. /\ m_buffer.number \in 0 .. m_sequence_num - 1
          /\ heard < m_buffer.number
      BY <2>1 DEF HandlePacket, OrderInv, IInv, BufferInv
    <3>3. heard' \in (heard + 1) .. (m_sequence_num - 1)
      BY <3>1, <3>2, StreamAssumption DEF IInv, TypeOK
    <3>4. UNCHANGED m_sequence_num
      BY <1>3 DEF Receiver
    <3> QED
      BY <3>1, <3>3, <3>4 DEF Lossy!Hear
  <2>2. CASE ~HandlePacket
    BY <1>3, <2>2
       DEF Receiver, Receive, CompleteReceive, CompleteStray, ReceiveError,
           RejectDatagram, ListenerReturns, heardVars
  <2> QED
    BY <2>1, <2>2
<1> QED
  BY <1>1, <1>2, <1>3 DEF Next

(* The listener gets packets of the stream, unchanged, in order and none   *)
(* twice, when the network keeps the order.                                *)
THEOREM TransportIsLossyStream ==
  ASSUME InOrder PROVE Spec => ImplementsLossyStream
<1>1. Init => Lossy!Init
  BY DEF Init, TransmitInit, ReceiveInit, Lossy!Init
<1>2. IInv /\ OrderInv /\ [Next]_vars => [Lossy!Next]_(Lossy!streamVars)
  BY StepIsStreamStep
<1> QED
  BY <1>1, <1>2, IInvHolds, OrderHolds, PTL
     DEF Spec, ImplementsLossyStream, Lossy!Spec
=============================================================================
