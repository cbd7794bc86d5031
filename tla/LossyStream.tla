---------------------------- MODULE LossyStream -----------------------------
(***************************************************************************)
(* What the pair of UDP_Transmit and UDP_Receive promises to the encoder   *)
(* and the decoder: the listener gets packets of the stream, unchanged, in *)
(* the order they were transmitted, none twice; some it may never get.     *)
(***************************************************************************)
EXTENDS Integers

CONSTANTS
  MaxPackets,   \* packets in the stream
  PacketOf(_),  \* the packet with a number, as the listener should get it
  NoPacket      \* before the first

VARIABLES
  transmitted,  \* how many packets have been transmitted
  heard,        \* number of the packet the listener got last, or -1
  packet        \* what it got

streamVars == <<transmitted, heard, packet>>

Init ==
  /\ transmitted = 0
  /\ heard = -1
  /\ packet = NoPacket

Transmit ==
  /\ transmitted < MaxPackets
  /\ transmitted' = transmitted + 1
  /\ UNCHANGED <<heard, packet>>

Hear ==
  /\ heard' \in (heard + 1) .. (transmitted - 1)
  /\ packet' = PacketOf(heard')
  /\ UNCHANGED transmitted

Next == Transmit \/ Hear

Spec == Init /\ [][Next]_streamVars
=============================================================================
