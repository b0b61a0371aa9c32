---------------------------- MODULE SessionNames ----------------------------
(***************************************************************************)
(* The names that people give to sessions.  The server keeps them in one   *)
(* JSON store (server/lib/session-names.ts), a PUT changes one and tells   *)
(* every open events socket (server/routes/session-names.ts), and each     *)
(* browser keeps a copy (lib/client/session-names.ts) that it loads,       *)
(* renames in before the server has answered, and corrects from events and *)
(* answers, which travel on different connections.                         *)
(*                                                                         *)
(* The store is the atomic one that JsonStore implements.                  *)
(***************************************************************************)
EXTENDS Naturals, Sequences, SequencesExt

CONSTANTS
    Browser,
    Fresh,      \* the browsers whose page is just mounted; the others are up
    Key, Name, NoName,
    NoAnswer,
    MaxRenames, \* renames that people ask for
    MaxFaults,  \* crashes, broken events sockets and failing requests
    Tries       \* loadSessionNamesWithRetry's attempts

ASSUME SessionNamesAssumption ==
    /\ Fresh \subseteq Browser
    /\ NoName \notin Name
    /\ {MaxRenames, MaxFaults} \subseteq Nat
    /\ Tries \in Nat \ {0}

NameOrNone == Name \cup {NoName}
Names == [Key -> NameOrNone]
NoNames == [k \in Key |-> NoName]
Put == 1 .. MaxRenames \* the PUT requests, in the order they are made
Change == [key : Key, name : NameOrNone]

\* setSessionName's callback.
SetName(o, v) == [v EXCEPT ![o.key] = o.name]

VARIABLES
    value, queue, told, \* the store's
    put,       \* the renames so far, as the browser that asked sees them
    names,     \* per browser: its copy
    loads,     \* per browser: GETs under way, oldest first
    chain,     \* per browser: the retry chain: none, a GET under way, or a wait
    failed,    \* per browser: GETs of the chain that failed
    link,      \* per browser: is its events socket open?
    events,    \* per browser: changes on the way to it
    \* history, for Converges only
    missed,    \* per browser: it may rely on a GET from before its socket opened
    contested, \* per key: two renames of it overlapped, or one failed
    faults

store == <<value, queue, told>>
browsers == <<put, names, loads, chain, failed, link, events>>
vars == <<store, browsers, missed, contested, faults>>

S == INSTANCE AtomicStore WITH
       Caller <- Put, Value <- Names, Op <- Change, Apply <- SetName

Load == [chain : BOOLEAN, snap : Names \cup {NoAnswer}, changed : SUBSET Key, stale : BOOLEAN]
PutPhase == {"sent", "served", "ok", "failed", "done"}
Renaming == [by : Browser, key : Key, name : NameOrNone, prev : NameOrNone, at : PutPhase]

TypeOK ==
    /\ value \in Names
    /\ queue \in Seq([by : Put, op : Change])
    /\ told \in [Put -> {"idle", "waiting", "ok", "failed"}]
    /\ put \in Seq(Renaming) /\ Len(put) <= MaxRenames
    /\ names \in [Browser -> Names]
    /\ loads \in [Browser -> Seq(Load)]
    /\ chain \in [Browser -> {"none", "get", "wait"}]
    /\ failed \in [Browser -> 0 .. Tries - 1]
    /\ link \in [Browser -> BOOLEAN]
    /\ events \in [Browser -> Seq(Change)]
    /\ missed \in [Browser -> BOOLEAN]
    /\ contested \in [Key -> BOOLEAN]
    \* One retry chain at a time, with one GET.
    /\ \A b \in Browser :
          /\ chain[b] = "get" <=> \E j \in DOMAIN loads[b] : loads[b][j].chain
          /\ \A i, j \in DOMAIN loads[b] : loads[b][i].chain /\ loads[b][j].chain => i = j

NewLoad(ofChain) == [chain |-> ofChain, snap |-> NoAnswer, changed |-> {}, stale |-> FALSE]

\* A page that is just mounted loads the names while its socket is opening.
Init ==
    /\ S!Init
    /\ put = <<>>
    /\ names = [b \in Browser |-> IF b \in Fresh THEN NoNames ELSE value]
    /\ loads = [b \in Browser |-> IF b \in Fresh THEN <<NewLoad(TRUE)>> ELSE <<>>]
    /\ chain = [b \in Browser |-> IF b \in Fresh THEN "get" ELSE "none"]
    /\ failed = [b \in Browser |-> 0]
    /\ link = [b \in Browser |-> b \notin Fresh]
    /\ events = [b \in Browser |-> <<>>]
    /\ missed = [b \in Browser |-> FALSE]
    /\ contested = [k \in Key |-> FALSE]
    /\ faults = 0

-----------------------------------------------------------------------------
(* The server.                                                             *)

Asked(i) == [key |-> put[i].key, name |-> put[i].name]

PutArrives(i) ==
    /\ put[i].at = "sent"
    /\ put' = [put EXCEPT ![i].at = "served"]
    /\ S!Call(i, Asked(i))
    /\ UNCHANGED <<names, loads, chain, failed, link, events, missed, contested, faults>>

Untold == {i \in Put : told[i] \in {"ok", "failed"}}

\* The continuation of a settled update runs before the next one does I/O.
StoreLands ==
    /\ Untold = {}
    /\ S!Land
    /\ UNCHANGED <<browsers, missed, contested, faults>>

StoreFails ==
    /\ Untold = {} /\ faults < MaxFaults
    /\ S!Fail
    /\ faults' = faults + 1
    /\ UNCHANGED <<browsers, missed, contested>>

\* The route goes on: it tells the open sockets, and then it answers.
Answer(i) ==
    /\ S!Take(i)
    /\ put' = [put EXCEPT ![i].at = told[i]]
    /\ events' = [b \in Browser |->
                    IF told[i] = "ok" /\ link[b] THEN Append(events[b], Asked(i)) ELSE events[b]]
    /\ UNCHANGED <<names, loads, chain, failed, link, missed, contested, faults>>

\* A GET reads the file.
GetReads(b, j) ==
    /\ loads[b][j].snap = NoAnswer
    /\ loads' = [loads EXCEPT ![b][j].snap = value]
    /\ UNCHANGED <<store, put, names, chain, failed, link, events, missed, contested, faults>>

\* The server dies and is started again: sockets break, requests it had fail.
Crash ==
    /\ faults < MaxFaults
    /\ S!Crash
    /\ put' = [i \in DOMAIN put |-> [put[i] EXCEPT !.at = IF @ = "served" THEN "failed" ELSE @]]
    /\ link' = [b \in Browser |-> FALSE]
    /\ events' = [b \in Browser |-> <<>>]
    /\ faults' = faults + 1
    /\ UNCHANGED <<names, loads, chain, failed, missed, contested>>

-----------------------------------------------------------------------------
(* A browser.                                                              *)

\* A slip: a change does not mark the loads under way.
MarkChangedNever(ls, k) == ls

\* The loads under way were sent before this change of k (gen, changedAt).
MarkChanged(ls, k) == [j \in DOMAIN ls |-> [ls[j] EXCEPT !.changed = @ \cup {k}]]

\* applySessionName.
Show(b, k, n) ==
    /\ names' = [names EXCEPT ![b][k] = n]
    /\ loads' = [loads EXCEPT ![b] = MarkChanged(@, k)]

Overlaps(k) == \E i \in DOMAIN put : put[i].key = k /\ put[i].at # "done"

\* renameSession: the name shows at once; asking for the name it has does nothing.
Rename(b, k, n) ==
    /\ Len(put) < MaxRenames
    /\ names[b][k] # n
    /\ put' = Append(put, [by |-> b, key |-> k, name |-> n, prev |-> names[b][k], at |-> "sent"])
    /\ Show(b, k, n)
    /\ contested' = [contested EXCEPT ![k] = @ \/ Overlaps(k)]
    /\ UNCHANGED <<store, chain, failed, link, events, missed, faults>>

PutLost(i) ==
    /\ put[i].at = "sent" /\ faults < MaxFaults
    /\ put' = [put EXCEPT ![i].at = "failed"]
    /\ faults' = faults + 1
    /\ UNCHANGED <<store, names, loads, chain, failed, link, events, missed, contested>>

\* latestReq: has this browser not renamed the session again?
IsLatest(i) ==
    \A j \in DOMAIN put : j > i => put[j].by # put[i].by \/ put[j].key # put[i].key

\* The answer to a PUT: the name as it was saved, or back to the one before.
PutReturns(i) ==
    LET b == put[i].by
        k == put[i].key IN
    /\ put[i].at \in {"ok", "failed"}
    /\ put' = [put EXCEPT ![i].at = "done"]
    /\ IF IsLatest(i)
       THEN Show(b, k, IF put[i].at = "ok" THEN put[i].name ELSE put[i].prev)
       ELSE UNCHANGED <<names, loads>>
    /\ contested' = [contested EXCEPT ![k] = @ \/ put[i].at = "failed"]
    /\ UNCHANGED <<store, chain, failed, link, events, missed, faults>>

EventArrives(b) ==
    /\ events[b] # <<>>
    /\ events' = [events EXCEPT ![b] = Tail(@)]
    /\ Show(b, Head(events[b]).key, Head(events[b]).name)
    /\ UNCHANGED <<store, put, chain, failed, link, missed, contested, faults>>

\* The GETs sent before the j-th are out of date once it has been taken.
Outdated(ls, j) == [i \in DOMAIN ls |-> IF i < j THEN [ls[i] EXCEPT !.stale = TRUE] ELSE ls[i]]

\* The events socket is open: whatever is told from now on will arrive, and
\* resyncSessionNames sends a GET of its own.
Open(b) ==
    /\ ~link[b]
    /\ link' = [link EXCEPT ![b] = TRUE]
    /\ loads' = [loads EXCEPT ![b] = Append(@, NewLoad(FALSE))]
    /\ missed' = [missed EXCEPT ![b] = FALSE]
    /\ UNCHANGED <<store, put, names, chain, failed, events, contested, faults>>

Drop(b) ==
    /\ link[b] /\ faults < MaxFaults
    /\ link' = [link EXCEPT ![b] = FALSE]
    /\ events' = [events EXCEPT ![b] = <<>>]
    /\ faults' = faults + 1
    /\ UNCHANGED <<store, put, names, loads, chain, failed, missed, contested>>

\* loadSessionNames goes on: a key that changed since the GET keeps its name.
LoadReturns(b, j) ==
    LET l == loads[b][j] IN
    /\ l.snap # NoAnswer
    /\ loads' = [loads EXCEPT ![b] = RemoveAt(IF l.stale THEN @ ELSE Outdated(@, j), j)]
    /\ names' = IF l.stale THEN names
                ELSE [names EXCEPT ![b] =
                        [k \in Key |-> IF k \in l.changed THEN @[k] ELSE l.snap[k]]]
    /\ chain' = IF l.chain THEN [chain EXCEPT ![b] = "none"] ELSE chain
    /\ UNCHANGED <<store, put, failed, link, events, missed, contested, faults>>

\* The GET of the chain failed: the chain waits, or gives up.
ChainFails(b, j) ==
    /\ loads[b][j].chain
    /\ loads' = [loads EXCEPT ![b] = RemoveAt(@, j)]
    /\ IF failed[b] < Tries - 1
       THEN /\ chain' = [chain EXCEPT ![b] = "wait"]
            /\ failed' = [failed EXCEPT ![b] = @ + 1]
            /\ UNCHANGED missed
       ELSE /\ chain' = [chain EXCEPT ![b] = "none"]
            /\ missed' = [missed EXCEPT ![b] = TRUE]
            /\ UNCHANGED failed

\* A slip: a chain is started beside the one under way.
JoinsNever(b) == FALSE

Joins(b) == chain[b] # "none"

\* The GET of a resync failed: it starts a chain or joins the one under way.
ResyncFails(b, j) ==
    /\ ~loads[b][j].chain
    /\ IF ~Joins(b)
       THEN /\ loads' = [loads EXCEPT ![b] = Append(RemoveAt(@, j), NewLoad(TRUE))]
            /\ chain' = [chain EXCEPT ![b] = "get"]
            /\ failed' = [failed EXCEPT ![b] = 0]
            /\ UNCHANGED missed
       ELSE /\ loads' = [loads EXCEPT ![b] = RemoveAt(@, j)]
            /\ missed' = [missed EXCEPT ![b] = @ \/ chain[b] = "get"]
            /\ UNCHANGED <<chain, failed>>

LoadFails(b, j) ==
    /\ faults < MaxFaults
    /\ faults' = faults + 1
    /\ ChainFails(b, j) \/ ResyncFails(b, j)
    /\ UNCHANGED <<store, put, names, link, events, contested>>

Retry(b) ==
    /\ chain[b] = "wait"
    /\ chain' = [chain EXCEPT ![b] = "get"]
    /\ loads' = [loads EXCEPT ![b] = Append(@, NewLoad(TRUE))]
    /\ UNCHANGED <<store, put, names, failed, link, events, missed, contested, faults>>

-----------------------------------------------------------------------------
Next ==
    \/ \E i \in DOMAIN put : PutArrives(i) \/ Answer(i) \/ PutLost(i) \/ PutReturns(i)
    \/ StoreLands \/ StoreFails
    \/ Crash
    \/ \E b \in Browser, k \in Key, n \in NameOrNone : Rename(b, k, n)
    \/ \E b \in Browser : EventArrives(b) \/ Open(b) \/ Drop(b) \/ Retry(b)
    \/ \E b \in Browser : \E j \in DOMAIN loads[b] :
          GetReads(b, j) \/ LoadReturns(b, j) \/ LoadFails(b, j)

Spec == Init /\ [][Next]_vars

-----------------------------------------------------------------------------
Settled ==
    /\ queue = <<>> /\ Untold = {}
    /\ \A i \in DOMAIN put : put[i].at = "done"

CaughtUp(b) == link[b] /\ events[b] = <<>> /\ loads[b] = <<>> /\ chain[b] = "none"

Renamed(b, k) == \E i \in DOMAIN put : put[i].by = b /\ put[i].key = k

\* session-names.ts (client) 11-12, 23-33, 111-113, 140-146.  When nothing is
\* under way, every browser shows the names that the server keeps, however loads,
\* events, answers, broken sockets and restarts were interleaved: except the
\* browser whose rename of a session failed, or was made before another rename of
\* it had been answered (its own or another browser's), for that session, and one
\* whose reload after a reconnect fell back on the GET of an older load, or gave up.
Converges ==
    \A b \in Browser, k \in Key :
       Settled /\ CaughtUp(b) /\ ~missed[b] /\ ~(contested[k] /\ Renamed(b, k))
          => names[b][k] = value[k]
=============================================================================
