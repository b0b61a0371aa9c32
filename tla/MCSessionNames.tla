---------------------------- MODULE MCSessionNames ----------------------------
(* SessionNames with model values. *)
EXTENDS SessionNames
CONSTANTS b1, b2, k1, k2, n1, none, noAnswer
=============================================================================
