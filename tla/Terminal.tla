------------------------------- MODULE Terminal -------------------------------
(***************************************************************************)
(* What a terminal pane may show of a PTY, whatever lies between the two.  *)
(* The chunks that the PTY prints are numbered.  A pane that is connected  *)
(* shows a run of them without a gap, a repetition or a change of order;   *)
(* it says that the PTY has ended only if it has, and only after the last  *)
(* of its output.  A pane that loses its connection starts afresh.         *)
(*                                                                         *)
(* There are times at which nobody knows of the PTY.  A pane that asks for *)
(* it then is in doubt: it has shown nothing, shows nothing, and may say   *)
(* that the PTY has ended.                                                 *)
(***************************************************************************)
EXTENDS Integers, Sequences

VARIABLES
  printed,  \* the number of chunks so far
  alive,    \* the PTY
  known,    \* is the PTY known to those who are asked for it?
  shown,    \* the chunks that have come over the present connection
  ended,    \* has the pane been told of the end?
  doubt     \* has it asked over this connection when the PTY was not known?

vars == <<printed, alive, known, shown, ended, doubt>>

Chunks(a, b) == [i \in 1 .. b - a + 1 |-> a + i - 1]

Init ==
  /\ printed = 0 /\ alive = TRUE /\ known = TRUE
  /\ shown = <<>> /\ ended = FALSE /\ doubt = FALSE

Prints ==
  alive /\ printed' = printed + 1 /\ UNCHANGED <<alive, known, shown, ended, doubt>>

End == alive /\ alive' = FALSE /\ UNCHANGED <<printed, known, shown, ended, doubt>>

Forget == known' = ~known /\ UNCHANGED <<printed, alive, shown, ended, doubt>>

Ask ==
  /\ ~known /\ ~ended /\ shown = <<>> /\ doubt' = TRUE
  /\ UNCHANGED <<printed, alive, known, shown, ended>>

Show ==
  /\ ~ended /\ ~doubt
  /\ \E a \in 1 .. printed, b \in 1 .. printed :
       /\ a <= b /\ (shown # <<>> => a = shown[Len(shown)] + 1)
       /\ shown' = shown \o Chunks(a, b)
  /\ UNCHANGED <<printed, alive, known, ended, doubt>>

Complete == ~alive /\ (shown # <<>> => shown[Len(shown)] = printed)

Tell ==
  /\ ~ended /\ ended' = TRUE
  /\ doubt \/ Complete
  /\ UNCHANGED <<printed, alive, known, shown, doubt>>

Restart ==
  /\ ~ended /\ shown' = <<>> /\ doubt' = FALSE
  /\ UNCHANGED <<printed, alive, known, ended>>

Next == Prints \/ End \/ Forget \/ Ask \/ Show \/ Tell \/ Restart

Spec == Init /\ [][Next]_vars
=====
