------------------------------ MODULE TermStream ------------------------------
(***************************************************************************)
(* The output of a PTY of the holder tier on its way to a browser:          *)
(*                                                                         *)
(*   holder and its ring (daemon/holder.js) -> the daemon and its ring      *)
(*   (daemon/pty-manager.js, daemon/index.js) -> a connection of the server *)
(*   (server/daemon-client.ts) -> the bridge of one WebSocket               *)
(*   (server/routes/term.ts) -> the pane (lib/client/ws-term.ts).           *)
(*                                                                         *)
(* Every arrow is a FIFO of messages.  The daemon may die and another one   *)
(* adopt the holder, connections may be cut, answers may come too late.    *)
(* A chunk is the interval <<a, b>> of the numbers of the writes it joins. *)
(***************************************************************************)
EXTENDS Integers, Sequences, SequencesExt

CONSTANTS
  Bridge,    \* bound: connections of the pane, each with its bridge
  MaxPrint,  \* bound: writes of the PTY
  MaxDeaths, \* bound: deaths of the daemon
  Cap,       \* what a ring holds
  None

ASSUME TermStreamAssumption ==
  /\ MaxPrint \in Nat /\ MaxDeaths \in Nat /\ Cap \in Nat \ {0}
  /\ None \notin Bridge

VARIABLES
  printed,
  holder,    \* "alive", "dead" (its PTY has ended), "gone"
  wire,      \* holder to daemon
  up,        \* is there a daemon that serves?
  entry,     \* what it knows of the PTY: "later" (it listens, and has not
             \* adopted the holder yet), "none", "alive", "dead"
  ring,      \* of the daemon
  deaths,    \* of daemons
  bridge,    \* the state of each bridge, and its daemon connection:
             \*   at, sub (subscribed), reqs and conn (the RPCs and what comes
             \*   back), pending (not yet flushed), ws (frames to the browser)
  pane,      \* the bridge the pane is connected to
  shown, ended,
  closed,    \* the user has closed the pane
  early      \* history: has its bridge attached to a daemon that had yet to adopt?

daemonVars == <<wire, up, entry, ring, deaths>>
paneVars == <<pane, shown, ended, closed, early>>
vars == <<printed, holder, daemonVars, bridge, paneVars>>

New == [at |-> "new", sub |-> FALSE, reqs |-> <<>>, conn |-> <<>>,
        pending |-> <<>>, ws |-> <<>>]
Over == [New EXCEPT !.at = "over"]
Spare == \E b \in Bridge : bridge[b].at = "new"  \* bound: trouble needs a retry

Serving == up /\ entry # "later"  \* there is a daemon, and it has looked for the PTY

Interval == {<<a, b>> : a \in 1 .. MaxPrint, b \in 1 .. MaxPrint}
Answer == {<<"list">>, <<"attached">>, <<"unknown">>, <<"exit">>}

IsData(m) == m \in Interval
Size(r) == FoldSeq(LAMBDA m, n : n + m[2] - m[1] + 1, 0, r)

BridgeState ==
  [at : {"new", "dial", "list", "attach", "live", "over"}, sub : BOOLEAN,
   reqs : Seq({"list", "attach"}), conn : Seq(Interval \cup Answer),
   pending : Seq(Interval), ws : Seq(Interval \cup {<<"exit">>, <<"close">>})]

TypeOK ==
  /\ printed \in 0 .. MaxPrint /\ holder \in {"alive", "dead", "gone"}
  /\ wire \in Seq(Interval \cup {<<"exit">>})
  /\ up \in BOOLEAN /\ entry \in {"later", "none", "alive", "dead"}
  /\ ring \in Seq(Interval) /\ (Len(ring) > 1 => Size(ring) <= Cap)
  /\ deaths \in 0 .. MaxDeaths
  /\ (~up => ring = <<>> /\ entry = "none")
  /\ bridge \in [Bridge -> BridgeState] /\ \A b \in Bridge : bridge[b].sub => Serving
  /\ pane \in Bridge \cup {None}
  /\ shown \in Seq(1 .. MaxPrint)
  /\ ended \in BOOLEAN /\ closed \in BOOLEAN /\ early \in BOOLEAN

Init ==
  /\ printed = 0 /\ holder = "alive" /\ wire = <<>>
  /\ up = TRUE /\ entry = "alive" /\ ring = <<>> /\ deaths = 0
  /\ bridge = [b \in Bridge |-> New]
  /\ pane = None /\ shown = <<>> /\ ended = FALSE /\ closed = FALSE /\ early = FALSE
-----------------------------------------------------------------------------
(* The holder *)

(* appendRing: a chunk is dropped whole, and never the only one.           *)
Trimmed(r) ==
  LET fits == {k \in 1 .. Len(r) : k = Len(r) \/ Size(SubSeq(r, k, Len(r))) <= Cap}
  IN  SubSeq(r, CHOOSE k \in fits : \A l \in fits : k <= l, Len(r))
AppendRingWhole(r, m) == Append(r, m)  \* mutant: nothing is dropped
AppendRing(r, m) == Trimmed(Append(r, m))

(* The ring of the holder, of single writes, joined for a client.          *)
Replay == IF printed = 0 THEN <<>>
          ELSE <<<<IF printed > Cap THEN printed - Cap + 1 ELSE 1, printed>>>>

Prints ==
  /\ holder = "alive" /\ printed < MaxPrint
  /\ printed' = printed + 1
  /\ wire' = IF Serving THEN Append(wire, <<printed + 1, printed + 1>>) ELSE wire
  /\ UNCHANGED <<holder, up, entry, ring, deaths, bridge, paneVars>>

(* The PTY ends, or its holder is killed: the daemon sees an exit, or a     *)
(* connection that drops, which it takes for one.                          *)
Ends(h) ==
  /\ holder = "alive" /\ holder' = h
  /\ wire' = IF Serving THEN Append(wire, <<"exit">>) ELSE wire
  /\ UNCHANGED <<printed, up, entry, ring, deaths, bridge, paneVars>>

HolderLeaves ==
  /\ holder = "dead" /\ holder' = "gone"
  /\ UNCHANGED <<printed, daemonVars, bridge, paneVars>>
-----------------------------------------------------------------------------
(* The daemon *)

(* Every frame goes to every connection that is subscribed.                *)
Broadcast(m) ==
  bridge' = [b \in Bridge |->
               IF bridge[b].sub
               THEN [bridge[b] EXCEPT !.conn = Append(@, m)] ELSE bridge[b]]

DaemonReads ==
  /\ up /\ wire # <<>> /\ wire' = Tail(wire)
  /\ Broadcast(Head(wire))
  /\ IF IsData(Head(wire))
     THEN ring' = AppendRing(ring, Head(wire)) /\ UNCHANGED entry
     ELSE entry' = "dead" /\ UNCHANGED ring
  /\ UNCHANGED <<printed, holder, up, deaths, paneVars>>

(* The sweep of dead entries. *)
Sweep ==
  /\ entry = "dead" /\ entry' = "none" /\ ring' = <<>>
  /\ UNCHANGED <<printed, holder, wire, up, deaths, bridge, paneVars>>

DeadInfoNever == <<>>  \* mutant: the exit of a dead PTY is not told again
DeadInfo == IF entry = "dead" THEN <<<<"exit">>>> ELSE <<>>

Joined(r) == IF r = <<>> THEN <<>> ELSE <<<<r[1][1], r[Len(r)][2]>>>>

(* attach: subscribe, snapshot and the exit of a PTY that has died, in one  *)
(* go.  The pane asks for no snapshot (replay=0); clients may.             *)
Handle(b) ==
  LET reqs == bridge[b].reqs
      conn == bridge[b].conn
      answer == [bridge[b] EXCEPT !.reqs = Tail(reqs)]
  IN
  /\ up /\ reqs # <<>>
  /\ \E replay \in BOOLEAN :
       bridge' = [bridge EXCEPT ![b] =
         CASE Head(reqs) = "list" ->
                [answer EXCEPT !.conn = Append(conn, <<"list">>)]
           [] Head(reqs) = "attach" /\ entry \in {"later", "none"} ->
                [answer EXCEPT !.conn = Append(conn, <<"unknown">>)]
           [] OTHER ->
                [answer EXCEPT
                   !.sub = TRUE,
                   !.conn = conn \o (IF replay THEN Joined(ring) ELSE <<>>)
                                 \o DeadInfo \o <<<<"attached">>>>]]
  /\ early' = (early \/ (b = pane /\ Head(reqs) = "attach" /\ entry = "later"))
  /\ UNCHANGED <<printed, holder, daemonVars, pane, shown, ended, closed>>

(* The bridge of a connection that has dropped closes its WebSocket; the    *)
(* rejection of the RPC under way finds it closing, and sends nothing.      *)
HungUp(r) == [Over EXCEPT !.ws = Append(r.ws, <<"close">>)]
Connected(r) == r.at \in {"list", "attach", "live"}

DaemonDies ==
  /\ up /\ Spare /\ deaths < MaxDeaths /\ deaths' = deaths + 1
  /\ up' = FALSE /\ wire' = <<>> /\ ring' = <<>> /\ entry' = "none"
  /\ bridge' = [b \in Bridge |-> IF Connected(bridge[b]) THEN HungUp(bridge[b])
                                                         ELSE bridge[b]]
  /\ UNCHANGED <<printed, holder, paneVars>>

(* Another one listens before it knows of any PTY, and then adopts the       *)
(* holder, which replays its ring and its exit.                            *)
DaemonStarts ==
  /\ ~up /\ up' = TRUE /\ entry' = "later"
  /\ UNCHANGED <<printed, holder, wire, ring, deaths, bridge, paneVars>>

Adopts ==
  /\ entry = "later"
  /\ entry' = IF holder = "gone" THEN "none" ELSE "alive"
  /\ wire' = CASE holder = "gone" -> <<>>
               [] holder = "dead" -> Append(Replay, <<"exit">>)
               [] OTHER -> Replay
  /\ UNCHANGED <<printed, holder, up, ring, deaths, bridge, paneVars>>
-----------------------------------------------------------------------------
(* The bridge of a WebSocket, in the server *)

Serve(b, r) ==
  /\ bridge' = [bridge EXCEPT ![b] = r]
  /\ UNCHANGED <<printed, holder, daemonVars, paneVars>>

Dial(b) ==
  bridge[b].at = "dial" /\ up
  /\ Serve(b, [bridge[b] EXCEPT !.at = "list", !.reqs = <<"list">>])

(* No daemon, or one that does not say hello in time.                      *)
DialFails(b) == bridge[b].at = "dial" /\ Spare /\ Serve(b, HungUp(bridge[b]))

(* What has been buffered goes out before the exit.                        *)
OnExitEarly(r) ==  \* mutant: without the flush
  [r EXCEPT !.ws = Append(@, <<"exit">>)]
OnExit(r) ==
  [r EXCEPT !.ws = Append(@ \o Joined(r.pending), <<"exit">>), !.pending = <<>>]

ToAttach(r) == [r EXCEPT !.at = "attach", !.reqs = Append(@, "attach")]

(* An answer that nobody waits for any more is dropped.                    *)
Receive(b) ==
  LET m == Head(bridge[b].conn)
      r == [bridge[b] EXCEPT !.conn = Tail(@)]
  IN
  /\ Connected(bridge[b]) /\ bridge[b].conn # <<>>
  /\ Serve(b, CASE IsData(m) -> [r EXCEPT !.pending = Append(@, m)]
                [] m = <<"exit">> -> OnExit(r)
                [] m = <<"list">> /\ r.at = "list" -> ToAttach(r)
                [] m = <<"attached">> /\ r.at = "attach" -> [r EXCEPT !.at = "live"]
                [] m = <<"unknown">> /\ r.at = "attach" ->
                     HungUp([r EXCEPT !.ws = Append(@, <<"exit">>)])
                [] OTHER -> r)

(* setImmediate(flush): what came in one tick goes out as one frame.       *)
Flush(b) ==
  LET r == bridge[b] IN
  /\ r.pending # <<>>
  /\ Serve(b, [r EXCEPT !.ws = @ \o Joined(r.pending), !.pending = <<>>])

ListTimesOut(b) == bridge[b].at = "list" /\ Serve(b, ToAttach(bridge[b]))

AttachTimesOut(b) ==
  bridge[b].at = "attach" /\ Spare /\ Serve(b, HungUp(bridge[b]))
-----------------------------------------------------------------------------
(* The pane *)

Connect(b) ==
  /\ pane = None /\ ~ended /\ ~closed /\ bridge[b].at = "new"
  /\ bridge' = [bridge EXCEPT ![b].at = "dial"]
  /\ pane' = b /\ shown' = <<>> /\ early' = FALSE
  /\ UNCHANGED <<printed, holder, daemonVars, ended, closed>>

Read ==
  LET m == Head(bridge[pane].ws)
      Numbers == [i \in 1 .. m[2] - m[1] + 1 |-> m[1] + i - 1]
  IN
  /\ pane # None /\ bridge[pane].ws # <<>>
  /\ bridge' = [bridge EXCEPT ![pane].ws = Tail(@)]
  /\ shown' = IF IsData(m) THEN shown \o Numbers ELSE shown
  /\ ended' = (ended \/ m = <<"exit">>)
  /\ pane' = IF m = <<"close">> THEN None ELSE pane
  /\ UNCHANGED <<printed, holder, daemonVars, closed, early>>

(* The WebSocket is cut or the server restarts; or the user closes the pane. *)
(* (A browser that goes before the attach is done leaves the daemon         *)
(* connection of its bridge open; it is not followed any further.)         *)
Leave(shut) ==
  /\ pane # None /\ (shut \/ Spare) /\ closed' = shut
  /\ bridge' = [bridge EXCEPT ![pane] = Over] /\ pane' = None
  /\ UNCHANGED <<printed, holder, daemonVars, shown, ended, early>>
-----------------------------------------------------------------------------
DaemonNext == DaemonReads \/ Sweep \/ DaemonDies \/ DaemonStarts \/ Adopts
HolderNext == Prints \/ Ends("dead") \/ Ends("gone") \/ HolderLeaves
BridgeNext(b) ==
  \/ Handle(b) \/ Dial(b) \/ DialFails(b) \/ Receive(b) \/ Flush(b)
  \/ ListTimesOut(b) \/ AttachTimesOut(b)
PaneNext == (\E b \in Bridge : Connect(b)) \/ Read \/ \E shut \in BOOLEAN : Leave(shut)

Next ==
  DaemonNext \/ HolderNext \/ PaneNext \/ \E b \in Bridge : BridgeNext(b)

Spec == Init /\ [][Next]_vars

(* Messages arrive, a daemon that is down is started again (ensureDaemon),  *)
(* and a pane that has lost its connection retries.                        *)
FairSpec ==
  /\ Spec
  /\ WF_vars(DaemonReads) /\ WF_vars(DaemonStarts)
  /\ WF_vars(\E b \in Bridge : Connect(b)) /\ WF_vars(Read)
  /\ \A b \in Bridge :
       /\ WF_vars(Handle(b)) /\ WF_vars(Dial(b))
       /\ WF_vars(Receive(b)) /\ WF_vars(Flush(b))
-----------------------------------------------------------------------------
(* What the pane shows is what a terminal may show: over every connection a *)
(* run of the output without gap, repetition or reordering, and the end     *)
(* only once the PTY has ended and all of its output has been shown, however *)
(* rings, subscriptions, coalesced frames and restarts fall together.  The  *)
(* one exception is the code's: a bridge that attaches to a daemon that has *)
(* yet to adopt the PTY tells its pane the end, of a PTY that may live.     *)
T == INSTANCE Terminal WITH alive <- holder = "alive", known <- entry # "later",
                            doubt <- early
IsTerminal == T!Spec

(* A pane that stays open learns of the end of its PTY, although the exit   *)
(* may come while nobody is subscribed, or the daemon may have died with it. *)
EndIsTold == holder # "alive" ~> ended \/ closed
=====

