------------------------------ MODULE Approval ------------------------------
(***************************************************************************)
(* What a person may rely on who is asked whether one agent may call       *)
(* another: a call runs only if somebody allowed it, the first answer is   *)
(* the one that counts, whoever is told that the answer was taken is told  *)
(* the truth, and calls do not nest deeper than the budget.                *)
(***************************************************************************)
EXTENDS Naturals

CONSTANTS Call, None, Budget

VARIABLES
    fate,  \* per call: "idle", "waiting", "allowed", "runs", "ended", "refused",
           \* or "left": its caller has given up
    heard, \* per call: the answer somebody gave and was told was taken
    level  \* per call: how deep it is nested

vars == <<fate, heard, level>>

Init ==
    /\ fate = [c \in Call |-> "idle"]
    /\ heard = [c \in Call |-> "none"]
    /\ level = [c \in Call |-> 0]

Become(c, f) == fate' = [fate EXCEPT ![c] = f]

\* The agent that call p runs asks, or one that a person has started.
Ask(c, p) ==
    /\ fate[c] = "idle"
    /\ p # None => fate[p] = "runs"
    /\ level' = [level EXCEPT ![c] = IF p = None THEN 1 ELSE level[p] + 1]
    /\ level'[c] <= Budget
    /\ Become(c, "waiting")
    /\ UNCHANGED heard

Hear(c, answer) ==
    /\ fate[c] \in {"waiting", "left"} /\ heard[c] = "none"
    /\ heard' = [heard EXCEPT ![c] = answer]
    /\ Become(c, IF fate[c] = "left" THEN "left"
                 ELSE IF answer = "yes" THEN "allowed" ELSE "refused")
    /\ UNCHANGED level

\* Too deep, too late, or nobody there to ask: also of several calls at once.
Refuse ==
    /\ \E C \in SUBSET Call :
          /\ \A c \in C : fate[c] \in {"idle", "waiting"}
          /\ fate' = [c \in Call |-> IF c \in C THEN "refused" ELSE fate[c]]
    /\ UNCHANGED <<heard, level>>

Leave(c) ==
    /\ fate[c] \in {"waiting", "allowed", "refused"}
    /\ Become(c, "left")
    /\ UNCHANGED <<heard, level>>

Run(c) == fate[c] = "allowed" /\ Become(c, "runs") /\ UNCHANGED <<heard, level>>
End(c) == fate[c] = "runs" /\ Become(c, "ended") /\ UNCHANGED <<heard, level>>

Next ==
    \/ \E c \in Call :
          \/ \E p \in Call \cup {None} : Ask(c, p)
          \/ \E answer \in {"yes", "no"} : Hear(c, answer)
          \/ Leave(c) \/ Run(c) \/ End(c)
    \/ Refuse

Spec == Init /\ [][Next]_vars
=============================================================================
