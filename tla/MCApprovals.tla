---------------------------- MODULE MCApprovals ----------------------------
(* TLC instance of Approvals: two servers, two calls, two people.           *)
EXTENDS Approvals, TLC

CONSTANTS s1, s2, c1, c2, b1, b2, none

(* Servers, calls and browsers are interchangeable.                         *)
Symmetry == Permutations(Server) \cup Permutations(Call) \cup Permutations(Browser)
=============================================================================
