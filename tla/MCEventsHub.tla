----------------------------- MODULE MCEventsHub -----------------------------
(* EventsHub with model values. *)
EXTENDS EventsHub, TLC
CONSTANTS a1, a2, r1, r2, c1, w1, none
=====
