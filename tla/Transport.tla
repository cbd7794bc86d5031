----------------------------- MODULE Transport ------------------------------
(***************************************************************************)
(* The transmitter, the network and the receiver together: how NAL units   *)
(* get from the encoder's callback to UDP_ReceiveListener.                 *)
(***************************************************************************)
EXTENDS UdpTransmit, UdpReceive

vars == <<m_sequence_num, net, receiverVars>>

Init == TransmitInit /\ NetworkInit /\ ReceiveInit

Sender   == Transmit /\ UNCHANGED receiverVars
Network  == Lose /\ UNCHANGED <<m_sequence_num, receiverVars>>
Receiver == Receive /\ UNCHANGED m_sequence_num

Next == Sender \/ Network \/ Receiver

Spec == Init /\ [][Next]_vars

(* A receive operation completes with the datagram n. *)
Arrival(n) ==
  CompleteReceive /\ m_buffer'.number = n /\ UNCHANGED m_sequence_num

(* The io_context is run by a thread of its own, so handlers start and     *)
(* end.  A datagram that stays in the socket's queue is received sooner or *)
(* later, whatever other datagrams or errors come in between.              *)
Fairness ==
  /\ \A n \in 0 .. MaxPackets - 1 : SF_vars(Arrival(n))
  /\ WF_vars(RejectDatagram /\ UNCHANGED m_sequence_num)
  /\ WF_vars(HandlePacket /\ UNCHANGED m_sequence_num)
  /\ WF_vars(ListenerReturns /\ UNCHANGED m_sequence_num)

FairSpec == Spec /\ Fairness

-----------------------------------------------------------------------------
(* Properties *)

TypeOK ==
  /\ m_sequence_num \in 0 .. MaxPackets
  /\ net \subseteq DatagramType
  /\ rx \in {"armed", "handler", "listener"}
  /\ m_buffer \in BufferType
  /\ bytes_received \in 0 .. BufferSize
  /\ m_prev_seq_num \in -1 .. SeqMod - 1
  /\ packet \in VideoPacket \cup {NoPacket}
  /\ heard \in -1 .. MaxPackets - 1
  /\ missed \in BOOLEAN

(* The packet number n as the listener should get it: flags do not travel. *)
PacketOf(n) == [Stream[n] EXCEPT !.flags = 0]

(* What the listener gets was transmitted and arrives as it was: neither   *)
(* the headers nor m_buffer, which every datagram overwrites, nor its size *)
(* damage it.                                                              *)
Intact ==
  heard # -1 => heard < m_sequence_num /\ packet = PacketOf(heard)

(* Some packets were lost between two that were received, or the second    *)
(* one is not newer than the first.                                        *)
Gap == heard' # heard + 1

(* "Error, missed packet" is logged for every gap, unless the missing      *)
(* packets are a multiple of the sequence numbers there are.               *)
NoSilentGap ==
  [][HandlePacket /\ heard # -1 /\ Gap /\ ~missed'
       => (heard' - heard - 1) % SeqMod = 0]_vars

(* When it is logged without a gap, the sequence number has just wrapped.  *)
AlarmOnlyAtWrap ==
  [][HandlePacket /\ missed' /\ ~Gap => SequenceNum(heard') = 0]_vars

(* The log says a packet was missed, so one was.                           *)
NoFalseAlarm == [][HandlePacket /\ missed' => Gap]_vars

(* What is in flight reaches the listener, if the network loses nothing,   *)
(* whatever errors and stray datagrams the receiver has to get over, those *)
(* of 12 to 18 octets excluded (StraysAssumption).                         *)
EveryDatagramHeard ==
  \A n \in 0 .. MaxPackets - 1 :
    (\E d \in net : d.number = n) ~> (heard = n)

(* Over a network that at most loses datagrams, transmitter and receiver   *)
(* are a stream of packets in order, each at most once (LossyStream).      *)
Lossy == INSTANCE LossyStream WITH transmitted <- m_sequence_num
ImplementsLossyStream == Lossy!Spec
=============================================================================
