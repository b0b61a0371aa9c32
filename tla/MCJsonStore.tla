---------------------------- MODULE MCJsonStore ----------------------------
(* A file that holds a set: callers add to it, remove from it, or write an *)
(* empty one blindly.                                                      *)
EXTENDS JsonStore
CONSTANTS c1, c2, c3, x, y, unx, wipe, missing, corrupt
Sets == {{}, {x}, {y}, {x, y}}
Updates == {x, y, unx, wipe}
Writes == {wipe}
Result(o, v) == CASE o = wipe -> {} [] o = unx -> v \ {x} [] OTHER -> v \cup {o}
=============================================================================
