----------------------------- MODULE Approvals -----------------------------
(***************************************************************************)
(* The approval of a call from one agent to another.  The bridge process   *)
(* of the agent that calls (lib/bridge/mcp.ts) sends a request over the    *)
(* socket approval.sock (lib/bridge/approval-socket.ts), the server that   *)
(* listens there shows it to its browsers (events-hub.ts) and waits for    *)
(* one of them to answer (routes/approval.ts) or for the deadline.         *)
(*                                                                         *)
(* Several servers may share the configuration directory, so one of them   *)
(* has the socket.  A server that dies leaves the socket file behind, and  *)
(* the next one that starts clears it (lib/bridge/socket-listen.ts).  A    *)
(* server, its port and its pages are one element of Server, whatever      *)
(* process serves there at the time.                                       *)
(***************************************************************************)
EXTENDS Naturals

CONSTANTS
    Server,
    Call,
    Browser,
    None,
    Budget,   \* SESHMUX_HOP_BUDGET
    MaxStarts \* bound on the starts of servers

ASSUME ApprovalsAssumption ==
    /\ None \notin Call \cup Server
    /\ "stale" \notin Server
    /\ Budget \in Nat \ {0}
    /\ MaxStarts \in Nat

VARIABLES
    server,  \* where each server is in its start: "down" ... "up", or "deaf":
             \* it serves, but another one has the socket
    sock,    \* approval.sock: no file, one that nobody listens at, or a server's
    starts,
    at,      \* where each call is
    hop,     \* its SESHMUX_HOP
    to,      \* the server that it is connected to
    wire,    \* that connection: a request to read, one that is open, or what
             \* the caller will read: an answer or the end of the connection
    pending, \* pendingApprovals of the servers
    home,    \* the server whose page a browser shows
    linked,  \* is its events socket open?
    inbox,   \* requests on the way to it
    toast,   \* the request it shows: one at a time
    posts,   \* answers on the way to the servers
    heard    \* history: answers that a server has said it took

serverVars == <<server, sock, starts>>
callVars == <<at, hop>>
connVars == <<to, wire>>
pageVars == <<home, linked, inbox, toast>>
vars == <<serverVars, callVars, connVars, pending, pageVars, posts, heard>>

Answer == {"yes", "no"}
Post == [call : Call, answer : Answer, to : Server]

TypeOK ==
    /\ server \in [Server -> {"down", "try", "probe", "unlink", "retry", "up", "deaf"}]
    /\ sock \in Server \cup {None, "stale"}
    /\ starts \in 0 .. MaxStarts
    /\ at \in [Call -> {"idle", "dial", "waits", "runs", "ended", "refused", "left"}]
    /\ hop \in [Call -> 0 .. Budget]
    /\ to \in [Call -> Server \cup {None}]
    /\ wire \in [Call -> {"none", "request", "open", "closed"} \cup Answer]
    /\ pending \subseteq Call
    /\ home \in [Browser -> Server]
    /\ linked \in [Browser -> BOOLEAN]
    /\ inbox \in [Browser -> SUBSET Call]
    /\ toast \in [Browser -> Call \cup {None}]
    /\ posts \subseteq Post
    /\ heard \in [Call -> Answer \cup {"none"}]
    \* A request has an entry in the hub for as long as the listener waits for it.
    /\ \A c \in Call : c \in pending <=> wire[c] = "open"
    \* The socket is that of a server that listens.
    /\ sock \in Server => server[sock] = "up"
    /\ \A c \in Call : wire[c] \in {"request", "open"} => to[c] # None /\ server[to[c]] = "up"

Init ==
    /\ server = [s \in Server |-> "down"]
    /\ sock \in {None, "stale"}
    /\ starts = 0
    /\ at = [c \in Call |-> "idle"]
    /\ hop = [c \in Call |-> 0]
    /\ to = [c \in Call |-> None]
    /\ wire = [c \in Call |-> "none"]
    /\ pending = {}
    /\ home \in [Browser -> Server]
    /\ linked = [b \in Browser |-> FALSE]
    /\ inbox = [b \in Browser |-> {}]
    /\ toast = [b \in Browser |-> None]
    /\ posts = {}
    /\ heard = [c \in Call |-> "none"]

-----------------------------------------------------------------------------
(* The start and the end of a server: listenWithStaleRecovery *)

Goes(s, where) == server' = [server EXCEPT ![s] = where]

StartServer(s) ==
    /\ server[s] = "down" /\ starts < MaxStarts
    /\ starts' = starts + 1
    /\ Goes(s, "try")
    /\ UNCHANGED <<sock, callVars, connVars, pending, pageVars, posts, heard>>

\* tryListen(), the first time and the second.  A server without the socket
\* serves all the same: calls are then refused, or another server's.
TryListen(s) ==
    /\ server[s] \in {"try", "retry"}
    /\ IF sock = None
       THEN sock' = s /\ Goes(s, "up")
       ELSE sock' = sock /\ Goes(s, IF server[s] = "try" THEN "probe" ELSE "deaf")
    /\ UNCHANGED <<starts, callVars, connVars, pending, pageVars, posts, heard>>

ProbeAlive(s) ==
    /\ server[s] = "probe"
    /\ Goes(s, IF sock \in Server THEN "deaf" ELSE "unlink")
    /\ UNCHANGED <<sock, starts, callVars, connVars, pending, pageVars, posts, heard>>

\* Whatever is at the path by now.
UnlinkSocket(s) ==
    /\ server[s] = "unlink"
    /\ sock' = None
    /\ Goes(s, "retry")
    /\ UNCHANGED <<starts, callVars, connVars, pending, pageVars, posts, heard>>

\* Connections close after what has been written to them; the file stays.
ServerEnds(s) ==
    /\ server[s] # "down"
    /\ Goes(s, "down")
    /\ sock' = IF sock = s THEN "stale" ELSE sock
    /\ wire' = [c \in Call |-> IF to[c] = s /\ wire[c] \in {"request", "open"}
                               THEN "closed" ELSE wire[c]]
    /\ pending' = {c \in pending : to[c] # s}
    /\ linked' = [b \in Browser |-> linked[b] /\ home[b] # s]
    /\ inbox' = [b \in Browser |-> IF home[b] = s THEN {} ELSE inbox[b]]
    /\ posts' = {p \in posts : p.to # s}
    /\ UNCHANGED <<starts, callVars, to, home, toast, heard>>

-----------------------------------------------------------------------------
(* The caller: guardBridgeCall, requestApprovalOverSocket, runBridgedCall *)

\* A slip: one call more than the budget.
TooDeepLate(incoming) == incoming > Budget

TooDeep(incoming) == incoming >= Budget

\* An agent inherits SESHMUX_HOP from the call that runs it; one that a person
\* has started has none.
Ask(c, p) ==
    LET incoming == IF p = None THEN 0 ELSE hop[p] IN
    /\ at[c] = "idle"
    /\ p # None => at[p] = "runs"
    /\ IF TooDeep(incoming)
       THEN at' = [at EXCEPT ![c] = "refused"] /\ UNCHANGED hop
       ELSE at' = [at EXCEPT ![c] = "dial"] /\ hop' = [hop EXCEPT ![c] = incoming + 1]
    /\ UNCHANGED <<serverVars, connVars, pending, pageVars, posts, heard>>

Dial(c) ==
    /\ at[c] = "dial"
    /\ IF sock \in Server
       THEN /\ at' = [at EXCEPT ![c] = "waits"]
            /\ to' = [to EXCEPT ![c] = sock]
            /\ wire' = [wire EXCEPT ![c] = "request"]
       ELSE /\ at' = [at EXCEPT ![c] = "refused"]
            /\ UNCHANGED connVars
    /\ UNCHANGED <<serverVars, hop, pending, pageVars, posts, heard>>

\* A slip: a connection that ends without an answer is no refusal.
ApprovedUnlessDenied(w) == w # "no"

\* Only an explicit yes approves.
Approved(w) == w = "yes"

ReadAnswer(c) ==
    /\ at[c] = "waits" /\ wire[c] \in Answer \cup {"closed"}
    /\ at' = [at EXCEPT ![c] = IF Approved(wire[c]) THEN "runs" ELSE "refused"]
    /\ UNCHANGED <<serverVars, hop, connVars, pending, pageVars, posts, heard>>

\* The backstop fires, or the caller's process ends.  The server is not told.
GiveUp(c) ==
    /\ at[c] \in {"dial", "waits"}
    /\ at' = [at EXCEPT ![c] = "left"]
    /\ UNCHANGED <<serverVars, hop, connVars, pending, pageVars, posts, heard>>

RunEnds(c) ==
    /\ at[c] = "runs"
    /\ at' = [at EXCEPT ![c] = "ended"]
    /\ UNCHANGED <<serverVars, hop, connVars, pending, pageVars, posts, heard>>

-----------------------------------------------------------------------------
(* The server: the listener and the hub *)

\* The line of the request is read: an entry, the timers, and the broadcast.
RequestApproval(c) ==
    /\ wire[c] = "request"
    /\ wire' = [wire EXCEPT ![c] = "open"]
    /\ pending' = pending \cup {c}
    /\ inbox' = [b \in Browser |-> IF linked[b] /\ home[b] = to[c]
                                   THEN inbox[b] \cup {c} ELSE inbox[b]]
    /\ UNCHANGED <<serverVars, callVars, to, home, linked, toast, posts, heard>>

\* A slip: only the listener has a timer, so the entry outlives its request.
ExpiredNever(c) == pending

Expired(c) == pending \ {c}

\* The deadline: the timers of the listener and of the hub are due together,
\* and no answer is read between the two.
TimesOut(c) ==
    /\ wire[c] = "open"
    /\ wire' = [wire EXCEPT ![c] = "no"]
    /\ pending' = Expired(c)
    /\ UNCHANGED <<serverVars, callVars, to, pageVars, posts, heard>>

\* POST /api/bridge/approval/:requestId, resolveApproval(), and the end of the
\* race in the listener, which writes the answer in the same turn.
ResolveApproval(p) ==
    /\ server[p.to] \in {"up", "deaf"}
    /\ posts' = posts \ {p}
    /\ IF p.call \in pending /\ to[p.call] = p.to
       THEN /\ pending' = pending \ {p.call}
            /\ wire' = [wire EXCEPT ![p.call] = p.answer]
            /\ heard' = [heard EXCEPT ![p.call] = p.answer]
       ELSE UNCHANGED <<pending, wire, heard>>
    /\ UNCHANGED <<serverVars, callVars, to, pageVars>>

-----------------------------------------------------------------------------
(* Browsers and people *)

Link(b) ==
    /\ ~linked[b] /\ server[home[b]] \in {"up", "deaf"}
    /\ linked' = [linked EXCEPT ![b] = TRUE]
    /\ UNCHANGED <<serverVars, callVars, connVars, pending, home, inbox, toast, posts, heard>>

\* A request takes the place of the one that is shown.
ShowToast(b, c) ==
    /\ c \in inbox[b]
    /\ inbox' = [inbox EXCEPT ![b] = @ \ {c}]
    /\ toast' = [toast EXCEPT ![b] = c]
    /\ UNCHANGED <<serverVars, callVars, connVars, pending, home, linked, posts, heard>>

\* The POST may fail for want of a server; the toast is gone all the same.
Click(b, answer) ==
    /\ toast[b] # None
    /\ toast' = [toast EXCEPT ![b] = None]
    /\ posts' = IF server[home[b]] = "down" THEN posts
                ELSE posts \cup {[call |-> toast[b], answer |-> answer, to |-> home[b]]}
    /\ UNCHANGED <<serverVars, callVars, connVars, pending, home, linked, inbox, heard>>

\* The countdown ends, by the browser's own clock.
ToastExpires(b) ==
    /\ toast[b] # None
    /\ toast' = [toast EXCEPT ![b] = None]
    /\ UNCHANGED <<serverVars, callVars, connVars, pending, home, linked, inbox, posts, heard>>

-----------------------------------------------------------------------------
ServerStep(s) ==
    \/ StartServer(s) \/ TryListen(s) \/ ProbeAlive(s) \/ UnlinkSocket(s) \/ ServerEnds(s)

CallStep(c) ==
    \/ \E p \in Call \cup {None} : Ask(c, p)
    \/ Dial(c) \/ ReadAnswer(c) \/ GiveUp(c) \/ RunEnds(c)
    \/ RequestApproval(c) \/ TimesOut(c)

PageStep(b) ==
    \/ Link(b) \/ ToastExpires(b)
    \/ \E c \in Call : ShowToast(b, c)
    \/ \E answer \in Answer : Click(b, answer)

Next ==
    \/ \E s \in Server : ServerStep(s)
    \/ \E c \in Call : CallStep(c)
    \/ \E b \in Browser : PageStep(b)
    \/ \E p \in posts : ResolveApproval(p)

Spec == Init /\ [][Next]_vars

-----------------------------------------------------------------------------
\* An answer in the caller's socket has already decided its fate.
Fate(c) ==
    CASE at[c] = "dial" -> "waiting"
      [] at[c] = "waits" /\ wire[c] = "yes" -> "allowed"
      [] at[c] = "waits" /\ wire[c] \in {"no", "closed"} -> "refused"
      [] at[c] = "waits" /\ wire[c] \in {"request", "open"} -> "waiting"
      [] OTHER -> at[c]

\* approval-socket.ts:10-12, events-hub.ts:801-802, mcp.ts:131-137.  Approvals
\* fail closed and answers are honest: with servers that die, start and take the
\* socket from each other, callers that give up, and several people who answer
\* or are too late, a call runs only if somebody's yes was taken while it was
\* waiting, only one answer is ever taken, none once the call was refused, and
\* calls do not nest deeper than the budget.
Promise == INSTANCE Approval WITH
              fate <- [c \in Call |-> Fate(c)], level <- hop
IsApproval == Promise!Spec
=============================================================================
