---------------------------- MODULE AtomicStore ----------------------------
(***************************************************************************)
(* What server/lib/json-store.ts promises its callers: a file with a value,*)
(* changed by one update at a time, in the order of the calls, each as a   *)
(* whole or, if its caller is told that it failed, not at all.             *)
(***************************************************************************)
EXTENDS Sequences

CONSTANTS
    Caller,
    Value,
    Op,           \* what callers ask for
    Apply(_, _)   \* the value that an operation makes of a value

VARIABLES
    value, \* what a reader of the file gets
    queue, \* the calls that are not settled, in order
    told   \* per caller: nothing asked, waiting, or how its call ended

vars == <<value, queue, told>>

Ended == {"ok", "failed"}

Init ==
    /\ value \in Value
    /\ queue = <<>>
    /\ told = [c \in Caller |-> "idle"]

Call(c, o) ==
    /\ told[c] = "idle"
    /\ queue' = Append(queue, [by |-> c, op |-> o])
    /\ told' = [told EXCEPT ![c] = "waiting"]
    /\ UNCHANGED value

Settle(end) ==
    /\ queue # <<>>
    /\ queue' = Tail(queue)
    /\ told' = [told EXCEPT ![Head(queue).by] = end]

Land == Settle("ok") /\ value' = Apply(Head(queue).op, value)
Fail == Settle("failed") /\ UNCHANGED value

Take(c) ==
    /\ told[c] \in Ended
    /\ told' = [told EXCEPT ![c] = "idle"]
    /\ UNCHANGED <<value, queue>>

\* The process dies; the file stays.
Crash ==
    /\ queue' = <<>>
    /\ told' = [c \in Caller |-> "idle"]
    /\ UNCHANGED value

Next ==
    \/ \E c \in Caller, o \in Op : Call(c, o)
    \/ Land \/ Fail
    \/ \E c \in Caller : Take(c)
    \/ Crash

Spec == Init /\ [][Next]_vars
=============================================================================
