----------------------------- MODULE JsonStore -----------------------------
(***************************************************************************)
(* server/lib/json-store.ts: a JSON file that one process reads and writes.*)
(* update() and write() chain on a promise, so that one runs at a time: it *)
(* reads the file, runs the callback, and, unless the text stays the same, *)
(* writes a temporary file and renames it over the file, with retries when *)
(* the rename is refused for a moment.  The process may die at any point.  *)
(*                                                                         *)
(* The text of a file is its value; a file may also be missing or corrupt, *)
(* and both read as the empty value.  A temporary file has a random name   *)
(* and nobody ever reads it: that one may stay behind, when the process    *)
(* dies or the unlink after a failed write fails as well, changes nothing. *)
(* No name here is one of SessionNames, so that a module can extend both.  *)
(***************************************************************************)
EXTENDS Naturals, Sequences

CONSTANTS
    Caller,
    Value,
    Empty,       \* what empty() returns
    Missing, Corrupt,
    Op,          \* the callbacks given to update() and the values to write()
    Blind,       \* those given to write(), which does not read
    Apply(_, _), \* the value that the callback returns for a value
    Attempts,    \* RENAME_ATTEMPTS
    ReadErrors   \* may a file that is there be refused to a reader for a moment?

ASSUME JsonStoreAssumption ==
    /\ Empty \in Value
    /\ Missing \notin Value /\ Corrupt \notin Value /\ Missing # Corrupt
    /\ Blind \subseteq Op
    /\ \A o \in Op, v \in Value : Apply(o, v) \in Value
    /\ \A o \in Blind, v, w \in Value : Apply(o, v) = Apply(o, w)
    /\ Attempts \in Nat \ {0}
    /\ ReadErrors \in BOOLEAN

VARIABLES
    disk,  \* the file
    calls, \* the chain: calls that are not settled, the first one running
    outcome, \* per caller: nothing asked, waiting, or how its call ended
    phase, \* what the running call does next
    raw,   \* the file as the running call read it
    next,  \* the value it is to write
    tries  \* renames it has tried

jsVars == <<disk, calls, outcome, phase, raw, next, tries>>
running == <<phase, raw, next, tries>>

Text == Value \cup {Missing, Corrupt}
Phase == {"rest", "callback", "write", "rename", "unlink"}

\* readWithRaw(): no file and a corrupt one read as empty.
Parsed(t) == IF t \in Value THEN t ELSE Empty

JSTypeOK ==
    /\ disk \in Text
    /\ calls \in Seq([by : Caller, op : Op])
    /\ outcome \in [Caller -> {"idle", "waiting", "ok", "failed"}]
    /\ phase \in Phase
    /\ raw \in Text
    /\ next \in Value
    /\ tries \in 0 .. Attempts - 1

AtRest == phase' = "rest" /\ raw' = Missing /\ next' = Empty /\ tries' = 0

JSInit ==
    /\ disk \in Text
    /\ calls = <<>>
    /\ outcome = [c \in Caller |-> "idle"]
    /\ phase = "rest" /\ raw = Missing /\ next = Empty /\ tries = 0

-----------------------------------------------------------------------------
Call(c, o) ==
    /\ outcome[c] = "idle"
    /\ calls' = Append(calls, [by |-> c, op |-> o])
    /\ outcome' = [outcome EXCEPT ![c] = "waiting"]
    /\ UNCHANGED <<disk, running>>

\* The run ends: its promise settles and the chain goes on with the next call.
Settle(end) ==
    /\ calls' = Tail(calls)
    /\ outcome' = [outcome EXCEPT ![Head(calls).by] = end]
    /\ AtRest

\* The caller's continuation runs.
Take(c) ==
    /\ outcome[c] \in {"ok", "failed"}
    /\ outcome' = [outcome EXCEPT ![c] = "idle"]
    /\ UNCHANGED <<disk, calls, running>>

\* update() reads the file first, and any error as a missing file; write() has
\* its value already.
Read ==
    /\ phase = "rest" /\ calls # <<>>
    /\ IF Head(calls).op \in Blind
       THEN /\ phase' = "write"
            /\ next' = Apply(Head(calls).op, Empty)
            /\ UNCHANGED raw
       ELSE /\ phase' = "callback"
            /\ raw' \in IF ReadErrors THEN {disk, Missing} ELSE {disk}
            /\ UNCHANGED next
    /\ UNCHANGED <<disk, calls, outcome, tries>>

\* A slip: a write that would make the file empty is skipped too.
UnchangedEmpty(v, t) == v = t \/ v = Empty

\* The write is skipped when it would reproduce the file, or make an empty one.
Unchanged(v, t) == v = t \/ (t = Missing /\ v = Empty)

Callback ==
    /\ phase = "callback"
    /\ LET v == Apply(Head(calls).op, Parsed(raw)) IN
       IF Unchanged(v, raw)
       THEN Settle("ok")
       ELSE /\ phase' = "write"
            /\ next' = v
            /\ UNCHANGED <<calls, outcome, raw, tries>>
    /\ UNCHANGED disk

CallbackThrows ==
    /\ phase = "callback"
    /\ Settle("failed")
    /\ UNCHANGED disk

WriteTemp ==
    /\ phase = "write"
    /\ phase' \in {"rename", "unlink"}
    /\ UNCHANGED <<disk, calls, outcome, raw, next, tries>>

\* No temporary file could be made: there is none to unlink.
WriteFails ==
    /\ phase = "write"
    /\ Settle("failed")
    /\ UNCHANGED disk

RenameTemp ==
    /\ phase = "rename"
    /\ disk' = next
    /\ Settle("ok")

RenameBusy ==
    /\ phase = "rename"
    /\ tries < Attempts - 1
    /\ tries' = tries + 1
    /\ UNCHANGED <<disk, calls, outcome, phase, raw, next>>

\* The last try, or an error that is not worth another.
RenameFails ==
    /\ phase = "rename"
    /\ phase' = "unlink"
    /\ UNCHANGED <<disk, calls, outcome, raw, next, tries>>

\* unlink(tmp).catch(() => {}): whether or not the file goes, the write failed.
Unlink ==
    /\ phase = "unlink"
    /\ Settle("failed")
    /\ UNCHANGED disk

JSCrash ==
    /\ calls' = <<>>
    /\ outcome' = [c \in Caller |-> "idle"]
    /\ AtRest
    /\ UNCHANGED disk

Run ==
    \/ Read \/ Callback \/ CallbackThrows \/ WriteTemp \/ WriteFails
    \/ RenameTemp \/ RenameBusy \/ RenameFails \/ Unlink

JSNext ==
    \/ \E c \in Caller, o \in Op : Call(c, o)
    \/ \E c \in Caller : Take(c)
    \/ Run
    \/ JSCrash

JSSpec == JSInit /\ [][JSNext]_jsVars

-----------------------------------------------------------------------------
\* json-store.ts:1-20, 95-112.  Seen by its callers and by readers, the store
\* is one value that updates change atomically and in order.
A == INSTANCE AtomicStore WITH value <- Parsed(disk), queue <- calls, told <- outcome

IsAtomic == A!Spec
=============================================================================
