----------------------------- MODULE MCTermStream -----------------------------
(* TermStream with model values. *)
EXTENDS TermStream
CONSTANTS b1, b2, b3, none
=====
