----------------------------- MODULE MCEncoder ------------------------------
(* TLC instances of Encoder: timestamps modulo 4, so that they wrap twice. *)
EXTENDS Encoder
=============================================================================
