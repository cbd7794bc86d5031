--------------------------- MODULE MCVideoCapture ---------------------------
(* TLC instances of VideoCapture. The liveness properties rule out a       *)
(* symmetry set.                                                           *)
EXTENDS VideoCapture
=============================================================================
