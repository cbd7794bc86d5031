----------------------------- MODULE UdpNetwork -----------------------------
(***************************************************************************)
(* The datagrams between the two sockets.  External: UDP of the operating  *)
(* system, as far as udp_transmit.cpp and udp_receive.cpp rely on it.      *)
(*                                                                         *)
(* transmit() sends to 127.0.0.1 whatever host it was created for, so all  *)
(* the network of this program does is lose datagrams when the receiver's  *)
(* queue is full.  The other two faults are there for the networks the     *)
(* comments of the code talk about.                                        *)
(***************************************************************************)
EXTENDS VideoPackets

CONSTANTS
  Loss,         \* datagrams may be dropped
  Reordering,   \* datagrams may overtake each other
  Duplication   \* datagrams may arrive more than once

ASSUME NetworkAssumption ==
  Loss \in BOOLEAN /\ Reordering \in BOOLEAN /\ Duplication \in BOOLEAN

VARIABLE net  \* the datagrams in flight

DatagramType ==
  [number : Nat, header : Buffer(RTP_PacketHeader_Size),
   payload : Buffer(RTP_PayloadHeader_Size), nal : NalData]

NetworkInit == net = {}

Send(d) == net' = net \cup {d}

(* The datagram that arrives: the one sent first, unless they overtake. *)
Arrives(d) ==
  /\ d \in net
  /\ Reordering \/ \A e \in net : d.number <= e.number
  /\ net' = net \ {d} \/ (Duplication /\ net' = net)

Lose == Loss /\ \E d \in net : net' = net \ {d}
=============================================================================
