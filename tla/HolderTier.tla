----------------------------- MODULE HolderTier -----------------------------
(***************************************************************************)
(* The holder tier of seshmuxd.  Every plain session is owned by a         *)
(* detached holder process (daemon/holder.js) that keeps the PTY, listens  *)
(* on holders/pty-N.sock and describes itself in holders/pty-N.json.  A    *)
(* daemon (daemon/index.js, daemon/pty-manager.js) is only a client: it    *)
(* dials the holder it spawned, and a later daemon finds the survivors in  *)
(* the directory and dials them under their original ptyId.                *)
(*                                                                         *)
(* An element of Entry is one HolderClient object together with the entry  *)
(* of _ptys that is built on it.  A connection carries each frame at most  *)
(* once and always in one order -- to the daemon ready or busy, exit, end  *)
(* of file; to the holder kill, end of file -- so the bytes in flight are  *)
(* a set that is read in that order.  Terminal data is left out.           *)
(***************************************************************************)
EXTENDS Integers, FiniteSets

CONSTANTS
  Daemon,         \* daemon processes
  Holder,         \* holder processes
  Entry,          \* HolderClient objects, of all daemons
  None,           \* no holder, no entry, no daemon
  MaxId,          \* bound: a daemon hands out pty-1 .. pty-MaxId
  SpawnTries,     \* HOLDER_CONNECT_TRIES
  AdoptTries,     \* the short retry budget of an adoption
  Overlap,        \* may a daemon start while another one still runs?
  StartDuringBoot,\* may a daemon start while a holder has no json file yet?
  PromptClose     \* has every holder seen its dead client close before the
                  \* next daemon starts?

ASSUME ConstantsAssumption ==
  /\ MaxId \in Nat \ {0}
  /\ SpawnTries \in Nat /\ AdoptTries \in Nat
  /\ Overlap \in BOOLEAN /\ StartDuringBoot \in BOOLEAN
  /\ PromptClose \in BOOLEAN
  /\ None \notin Daemon \cup Holder \cup Entry

Id == 1 .. MaxId

VARIABLES
  (* daemon processes *)
  dstate,   \* "unborn", "up", "closing" (after shutdown), "gone"
  nextId,   \* _nextId
  scan,     \* ids of the json files rehydrateHolders has still to visit
  (* holder processes *)
  hstate,   \* "unborn", "booting", "bound" (listening), "serving" (json
            \* written), "gone"
  hid,      \* the ptyId in its spec
  pty,      \* "none", "running", "hup" (killTree sent), "ended" (exited set)
  client,   \* the single attached connection
  known,    \* exitKnown
  timers,   \* armed cleanup timers: "grace" (after the exit), "term"
  (* HolderClient objects and the entries on them *)
  estate,   \* "unused", "adopting", "alive", "dead", "gone"
  owner,    \* the daemon it lives in
  eid,      \* ptyId
  conn,     \* "none", "dialing", "open", "closed"
  peer,     \* the holder at the other end
  backlog,  \* connected, but not yet accepted by the holder
  ready,    \* _ready
  tries,    \* dials left before it gives up
  killq,    \* a kill frame waits in _queue
  up,       \* frames in flight to the holder
  down,     \* frames in flight to the daemon
  code,     \* the exit code reported: "none", "real", "lost" (made up)
  (* files *)
  sockOf,   \* the holder bound to pty-N.sock
  jsonOf,   \* the holder that wrote pty-N.json
  (* history, read by properties only *)
  target,   \* the holder an entry stands for
  born,     \* the daemon that spawned a holder
  wanted    \* holders whose entry accepted a kill while it was alive

daemonVars == <<dstate, nextId, scan>>
holderVars == <<hstate, hid, pty, client, known, timers>>
linkVars   == <<conn, peer, backlog, ready, tries, killq, up, down>>
entryVars  == <<estate, owner, eid, code, target>>
fileVars   == <<sockOf, jsonOf>>
histVars   == <<born, wanted>>
vars == <<dstate, nextId, scan, hstate, hid, pty, client, known, timers,
          estate, owner, eid, conn, peer, backlog, ready, tries, killq, up,
          down, code, sockOf, jsonOf, target, born, wanted>>

DaemonTypeOK ==
  /\ dstate \in [Daemon -> {"unborn", "up", "closing", "gone"}]
  /\ nextId \in [Daemon -> 1 .. MaxId + 1]
  /\ scan \in [Daemon -> SUBSET Id]

HolderTypeOK ==
  /\ hstate \in [Holder -> {"unborn", "booting", "bound", "serving", "gone"}]
  /\ hid \in [Holder -> Id \cup {0}]
  /\ pty \in [Holder -> {"none", "running", "hup", "ended"}]
  /\ client \in [Holder -> Entry \cup {None}]
  /\ known \in [Holder -> BOOLEAN]
  /\ timers \in [Holder -> SUBSET {"grace", "term"}]

LinkTypeOK ==
  /\ conn \in [Entry -> {"none", "dialing", "open", "closed"}]
  /\ peer \in [Entry -> Holder \cup {None}]
  /\ backlog \in [Entry -> BOOLEAN]
  /\ ready \in [Entry -> BOOLEAN]
  /\ tries \in [Entry -> Nat]
  /\ killq \in [Entry -> BOOLEAN]
  /\ up \in [Entry -> SUBSET {"kill", "eof"}]
  /\ down \in [Entry -> SUBSET {"ready", "busy", "exit", "eof"}]

EntryTypeOK ==
  /\ estate \in [Entry -> {"unused", "adopting", "alive", "dead", "gone"}]
  /\ owner \in [Entry -> Daemon \cup {None}]
  /\ eid \in [Entry -> Id \cup {0}]
  /\ code \in [Entry -> {"none", "real", "lost"}]
  /\ target \in [Entry -> Holder \cup {None}]

FileTypeOK ==
  /\ sockOf \in [Id -> Holder \cup {None}]
  /\ jsonOf \in [Id -> Holder \cup {None}]
  /\ born \in [Holder -> Daemon \cup {None}]
  /\ wanted \in SUBSET (Holder \cup {None})

TypeOK ==
  DaemonTypeOK /\ HolderTypeOK /\ LinkTypeOK /\ EntryTypeOK /\ FileTypeOK

Init ==
  /\ dstate = [d \in Daemon |-> "unborn"]
  /\ nextId = [d \in Daemon |-> 1]
  /\ scan = [d \in Daemon |-> {}]
  /\ hstate = [h \in Holder |-> "unborn"]
  /\ hid = [h \in Holder |-> 0]
  /\ pty = [h \in Holder |-> "none"]
  /\ client = [h \in Holder |-> None]
  /\ known = [h \in Holder |-> FALSE]
  /\ timers = [h \in Holder |-> {}]
  /\ estate = [e \in Entry |-> "unused"]
  /\ owner = [e \in Entry |-> None]
  /\ eid = [e \in Entry |-> 0]
  /\ conn = [e \in Entry |-> "none"]
  /\ peer = [e \in Entry |-> None]
  /\ backlog = [e \in Entry |-> FALSE]
  /\ ready = [e \in Entry |-> FALSE]
  /\ tries = [e \in Entry |-> 0]
  /\ killq = [e \in Entry |-> FALSE]
  /\ up = [e \in Entry |-> {}]
  /\ down = [e \in Entry |-> {}]
  /\ code = [e \in Entry |-> "none"]
  /\ sockOf = [i \in Id |-> None]
  /\ jsonOf = [i \in Id |-> None]
  /\ target = [e \in Entry |-> None]
  /\ born = [h \in Holder |-> None]
  /\ wanted = {}
-----------------------------------------------------------------------------
Exists(h) == hstate[h] \notin {"unborn", "gone"}

(* The entries of a daemon's _ptys map. *)
InMap(d, e) == owner[e] = d /\ estate[e] \in {"alive", "dead"}
Serving(d) == dstate[d] = "up"

(* The process of d still runs: a daemon that was shut down lives on for as *)
(* long as one of its sockets or timers does.                               *)
Running(d) == dstate[d] \in {"up", "closing"}

Adopting(d) == {e \in Entry : owner[e] = d /\ estate[e] = "adopting"}

(* A new HolderClient e of daemon d that dials pty-i.sock for holder h. *)
NewClient(e, d, i, h, state, budget) ==
  /\ estate[e] = "unused"
  /\ estate' = [estate EXCEPT ![e] = state]
  /\ owner' = [owner EXCEPT ![e] = d]
  /\ eid' = [eid EXCEPT ![e] = i]
  /\ target' = [target EXCEPT ![e] = h]
  /\ conn' = [conn EXCEPT ![e] = "dialing"]
  /\ tries' = [tries EXCEPT ![e] = budget]
  /\ UNCHANGED <<code, peer, backlog, ready, killq, up, down>>

(* attempt >= _tries, counted downwards. *)
LastTryLate(e) == tries[e] < 0  \* mutant: one attempt too many
LastTry(e) == tries[e] = 0
NextTrySame(n) == n  \* mutant: redials without counting the attempt
NextTry(n) == n - 1

(* _fail(1): the entry dies with a made-up code; an adoption is given up. *)
GiveUp(e) ==
  IF estate[e] = "alive"
  THEN /\ estate' = [estate EXCEPT ![e] = "dead"]
       /\ code' = [code EXCEPT ![e] = "lost"]
  ELSE /\ estate' = [estate EXCEPT ![e] = "gone"]
       /\ UNCHANGED code

-----------------------------------------------------------------------------
(* Daemon processes *)

(* The ids of the json files in the holders directory. *)
OnDisk == {i \in Id : jsonOf[i] # None}

(* _reserveHolderIds: the first id past every one that is on disk. *)
FirstFreeAlways1(n) == n = 1  \* mutant: nothing is reserved
FirstFree(n) ==
  /\ \A i \in OnDisk : i < n
  /\ n = 1 \/ n - 1 \in OnDisk

(* A daemon starts: it reserves every id that has a json file, listens and  *)
(* lists the directory again for rehydrateHolders.                          *)
StartDaemon(d) ==
  /\ dstate[d] = "unborn"
  /\ Overlap \/ \A x \in Daemon : ~Running(x)
  /\ StartDuringBoot \/ \A h \in Holder : hstate[h] \notin {"booting", "bound"}
  /\ PromptClose =>
       \A e \in Entry :
         (backlog[e] \/ \E h \in Holder : client[h] = e) => Running(owner[e])
  /\ dstate' = [dstate EXCEPT ![d] = "up"]
  /\ \E n \in 1 .. MaxId + 1 :
       FirstFree(n) /\ nextId' = [nextId EXCEPT ![d] = n]
  /\ scan' = [scan EXCEPT ![d] = OnDisk]
  /\ UNCHANGED <<holderVars, linkVars, entryVars, fileVars, histVars>>

(* The spawn RPC on the holder tier: assign the id, launch the holder, dial *)
(* its socket and enter it in the map as alive.  close() does not end the   *)
(* RPC connections, so a daemon that was shut down still answers this one.  *)
Spawn(d, h, e) ==
  /\ Running(d) /\ nextId[d] <= MaxId
  /\ hstate[h] = "unborn"
  /\ hstate' = [hstate EXCEPT ![h] = "booting"]
  /\ hid' = [hid EXCEPT ![h] = nextId[d]]
  /\ pty' = [pty EXCEPT ![h] = "running"]
  /\ born' = [born EXCEPT ![h] = d]
  /\ NewClient(e, d, nextId[d], h, "alive", SpawnTries)
  /\ nextId' = [nextId EXCEPT ![d] = @ + 1]
  /\ UNCHANGED <<dstate, scan, client, known, timers, fileVars, wanted>>

(* rehydrateHolders goes on with the next file, whatever became of this. *)
RestOfScanNone(d, i) == {}  \* mutant: return where the loop continues
RestOfScan(d, i) == scan[d] \ {i}

PidDeadAssumed(h) == TRUE  \* mutant: deletes without looking at the pid
PidDead(h) == hstate[h] = "gone"

(* One turn of the rehydrateHolders loop on pty-i.json: it is skipped when  *)
(* it cannot be read or is already ours, deleted with its socket when the   *)
(* pid is dead, and dialled otherwise (also when the dead holder's pid now  *)
(* belongs to some other process).  The loop awaits one client at a time.   *)
SkipHolder(d, i) ==
  /\ Running(d) /\ i \in scan[d] /\ Adopting(d) = {}
  /\ jsonOf[i] = None \/ \E e \in Entry : InMap(d, e) /\ eid[e] = i
  /\ scan' = [scan EXCEPT ![d] = RestOfScan(d, i)]
  /\ UNCHANGED <<dstate, nextId, holderVars, linkVars, entryVars, fileVars,
                 histVars>>

SweepLeftovers(d, i) ==
  /\ Running(d) /\ i \in scan[d] /\ Adopting(d) = {}
  /\ ~\E e \in Entry : InMap(d, e) /\ eid[e] = i
  /\ jsonOf[i] # None /\ PidDead(jsonOf[i])
  /\ scan' = [scan EXCEPT ![d] = RestOfScan(d, i)]
  /\ jsonOf' = [jsonOf EXCEPT ![i] = None]
  /\ sockOf' = [sockOf EXCEPT ![i] = None]
  /\ UNCHANGED <<dstate, nextId, holderVars, linkVars, entryVars, histVars>>

DialSurvivor(d, i, e) ==
  /\ Running(d) /\ i \in scan[d] /\ Adopting(d) = {}
  /\ ~\E f \in Entry : InMap(d, f) /\ eid[f] = i
  /\ jsonOf[i] # None
  /\ NewClient(e, d, i, jsonOf[i], "adopting", AdoptTries)
  /\ scan' = [scan EXCEPT ![d] = RestOfScan(d, i)]
  /\ UNCHANGED <<dstate, nextId, holderVars, fileVars, histVars>>

(* The kill RPC: the frame goes out on the socket, or waits in _queue until *)
(* there is one.  Left out, because nothing comes of it: a second kill, and *)
(* the kill of a dead entry, whose PTY has ended or is not this client's.   *)
Kill(e) ==
  /\ estate[e] = "alive" /\ Running(owner[e])
  /\ ~killq[e] /\ "kill" \notin up[e]
  /\ IF conn[e] = "open"
     THEN /\ up' = [up EXCEPT ![e] = @ \cup {"kill"}]
          /\ UNCHANGED killq
     ELSE /\ killq' = [killq EXCEPT ![e] = TRUE]
          /\ UNCHANGED up
  /\ wanted' = wanted \cup {target[e]}
  /\ UNCHANGED <<daemonVars, holderVars, conn, peer, backlog, ready, tries,
                 down, entryVars, fileVars, born>>

(* The shutdown RPC, refused while something is alive unless forced:        *)
(* killAll sends or queues a kill for every entry, close() detaches them    *)
(* and stops listening.  A detached client never redials.  A client that is *)
(* still being adopted is in no map yet, so neither touches it.             *)
Shutdown(d, force) ==
  LET mine == {e \in Entry : InMap(d, e)}
      live == {e \in mine : estate[e] = "alive"}
  IN
  /\ Serving(d)
  /\ force \/ live = {}
  /\ dstate' = [dstate EXCEPT ![d] = "closing"]
  /\ up' = [e \in Entry |->
              IF e \in mine /\ conn[e] = "open"
              THEN up[e] \cup {"kill", "eof"} ELSE up[e]]
  /\ killq' = [e \in Entry |->
                 killq[e] \/ (e \in live /\ conn[e] = "dialing")]
  /\ estate' = [e \in Entry |-> IF e \in mine THEN "gone" ELSE estate[e]]
  /\ wanted' = wanted \cup {target[e] : e \in live}
  /\ UNCHANGED <<nextId, scan, holderVars, conn, peer, backlog, ready, tries,
                 down, owner, eid, code, target, fileVars, born>>

(* The process ends: its sockets close, the holders go on. *)
ProcessEnds(d) ==
  LET mine == {e \in Entry : owner[e] = d}
  IN
  /\ dstate' = [dstate EXCEPT ![d] = "gone"]
  /\ scan' = [scan EXCEPT ![d] = {}]
  /\ nextId' = [nextId EXCEPT ![d] = 1]
  /\ estate' = [e \in Entry |-> IF e \in mine THEN "gone" ELSE estate[e]]
  /\ conn' = [e \in Entry |-> IF e \in mine THEN "closed" ELSE conn[e]]
  /\ up' = [e \in Entry |-> IF e \in mine /\ conn[e] = "open"
                            THEN up[e] \cup {"eof"} ELSE up[e]]
  /\ down' = [e \in Entry |-> IF e \in mine THEN {} ELSE down[e]]
  /\ killq' = [e \in Entry |-> killq[e] /\ e \notin mine]
  /\ tries' = [e \in Entry |-> IF e \in mine THEN 0 ELSE tries[e]]
  /\ code' = [e \in Entry |-> IF e \in mine THEN "none" ELSE code[e]]
  /\ ready' = [e \in Entry |-> ready[e] /\ e \notin mine]
  /\ UNCHANGED <<holderVars, peer, backlog, owner, eid, target,
                 fileVars, histVars>>

(* SIGTERM, SIGKILL, out of memory: seshmuxd handles none of them. *)
DaemonDies(d) ==
  /\ Running(d)
  /\ ProcessEnds(d)

(* After a shutdown, when no socket or timer keeps the event loop alive. *)
DaemonDrains(d) ==
  /\ dstate[d] = "closing" /\ scan[d] = {}
  /\ \A e \in Entry : owner[e] = d => conn[e] = "closed"
  /\ ProcessEnds(d)

(* _sweepDead: a dead entry leaves the map past its grace. *)
SweepDead(e) ==
  /\ estate[e] = "dead" /\ Serving(owner[e])
  /\ estate' = [estate EXCEPT ![e] = "gone"]
  /\ UNCHANGED <<daemonVars, holderVars, linkVars, owner, eid, code, target,
                 fileVars, histVars>>

-----------------------------------------------------------------------------
(* The daemon's end of a holder connection (HolderClient) *)

Dialable(h) == h \in Holder /\ hstate[h] \in {"bound", "serving"}

FlushedNone(e) == {}  \* mutant: _queue is cleared without being sent
Flushed(e) == IF killq[e] THEN {"kill"} ELSE {}

(* 'connect': the queued frames are flushed. *)
DialOk(e) ==
  /\ conn[e] = "dialing" /\ Dialable(sockOf[eid[e]])
  /\ conn' = [conn EXCEPT ![e] = "open"]
  /\ peer' = [peer EXCEPT ![e] = sockOf[eid[e]]]
  /\ backlog' = [backlog EXCEPT ![e] = TRUE]
  /\ up' = [up EXCEPT ![e] = Flushed(e)]
  /\ killq' = [killq EXCEPT ![e] = FALSE]
  /\ UNCHANGED <<daemonVars, holderVars, ready, tries, down, entryVars,
                 fileVars, histVars>>

(* 'close' on a connection that was never established: a detached client    *)
(* stops, any other one dials again until its budget is spent.              *)
DialRefused(e) ==
  /\ conn[e] = "dialing" /\ ~Dialable(sockOf[eid[e]])
  /\ \/ /\ estate[e] = "gone"
        /\ conn' = [conn EXCEPT ![e] = "closed"]
        /\ UNCHANGED <<tries, estate, code>>
     \/ /\ estate[e] # "gone" /\ ~LastTry(e)
        /\ tries' = [tries EXCEPT ![e] = NextTry(@)]
        /\ UNCHANGED <<conn, estate, code>>
     \/ /\ estate[e] # "gone" /\ LastTry(e)
        /\ conn' = [conn EXCEPT ![e] = "closed"]
        /\ GiveUp(e)
        /\ UNCHANGED tries
  /\ UNCHANGED <<daemonVars, holderVars, peer, backlog, ready, killq, up, down,
                 owner, eid, target, fileVars, histVars>>

(* 'ready': the holder took this client; an adoption becomes an entry, and  *)
(* _nextId moves past its id.                                               *)
RecvReady(e) ==
  /\ conn[e] = "open" /\ "ready" \in down[e]
  /\ down' = [down EXCEPT ![e] = @ \ {"ready"}]
  /\ ready' = [ready EXCEPT ![e] = TRUE]
  /\ IF estate[e] = "adopting"
     THEN /\ estate' = [estate EXCEPT ![e] = "alive"]
          /\ nextId' = [nextId EXCEPT ![owner[e]] =
                          IF eid[e] >= @ THEN eid[e] + 1 ELSE @]
     ELSE UNCHANGED <<estate, nextId>>
  /\ UNCHANGED <<dstate, scan, holderVars, conn, peer, backlog, tries, killq,
                 up, owner, eid, code, target, fileVars, histVars>>

(* 'busy': another client has the holder.  An adoption detaches. *)
RecvBusy(e) ==
  /\ conn[e] = "open" /\ "busy" \in down[e]
  /\ down' = [down EXCEPT ![e] = @ \ {"busy"}]
  /\ IF estate[e] \in {"alive", "adopting"}
     THEN GiveUp(e)
     ELSE UNCHANGED <<estate, code>>
  /\ UNCHANGED <<daemonVars, holderVars, conn, peer, backlog, ready, tries,
                 killq, up, owner, eid, target, fileVars, histVars>>

(* 'exit': the PTY ended, and this is its exit code. *)
RecvExit(e) ==
  /\ conn[e] = "open" /\ "exit" \in down[e] /\ "ready" \notin down[e]
  /\ down' = [down EXCEPT ![e] = @ \ {"exit"}]
  /\ IF estate[e] = "alive"
     THEN /\ estate' = [estate EXCEPT ![e] = "dead"]
          /\ code' = [code EXCEPT ![e] = "real"]
     ELSE UNCHANGED <<estate, code>>
  /\ UNCHANGED <<daemonVars, holderVars, conn, peer, backlog, ready, tries,
                 killq, up, owner, eid, target, fileVars, histVars>>

(* 'close': after the exit, or detached, it is over; attached-then-dropped  *)
(* means the holder died; anything else dials again.                        *)
RecvEof(e) ==
  /\ conn[e] = "open" /\ down[e] = {"eof"}
  /\ down' = [down EXCEPT ![e] = {}]
  /\ \/ /\ estate[e] \in {"dead", "gone"}
        /\ conn' = [conn EXCEPT ![e] = "closed"]
        /\ UNCHANGED <<estate, code, tries, peer, up>>
     \/ /\ estate[e] \in {"alive", "adopting"} /\ (ready[e] \/ LastTry(e))
        /\ conn' = [conn EXCEPT ![e] = "closed"]
        /\ GiveUp(e)
        /\ UNCHANGED <<tries, peer, up>>
     \/ /\ estate[e] \in {"alive", "adopting"} /\ ~ready[e] /\ ~LastTry(e)
        /\ conn' = [conn EXCEPT ![e] = "dialing"]
        /\ tries' = [tries EXCEPT ![e] = NextTry(@)]
        /\ peer' = [peer EXCEPT ![e] = None]
        /\ up' = [up EXCEPT ![e] = {}]
        /\ UNCHANGED <<estate, code>>
  /\ UNCHANGED <<daemonVars, holderVars, backlog, ready, killq, owner, eid,
                 target, fileVars, histVars>>

-----------------------------------------------------------------------------
(* Holder processes *)

(* What the daemon will read on e after the holder writes these frames. *)
Write(e, frames) ==
  [down EXCEPT ![e] = IF conn[e] = "open" THEN @ \cup frames ELSE @]

(* unlink + listen: the socket path is now this holder's. *)
BindSocket(h) ==
  /\ hstate[h] = "booting" /\ "term" \notin timers[h]
  /\ hstate' = [hstate EXCEPT ![h] = "bound"]
  /\ sockOf' = [sockOf EXCEPT ![hid[h]] = h]
  /\ UNCHANGED <<daemonVars, hid, pty, client, known, timers, linkVars,
                 entryVars, jsonOf, histVars>>

(* The listen callback writes the json file. *)
WriteJson(h) ==
  /\ hstate[h] = "bound"
  /\ hstate' = [hstate EXCEPT ![h] = "serving"]
  /\ jsonOf' = [jsonOf EXCEPT ![hid[h]] = h]
  /\ UNCHANGED <<daemonVars, hid, pty, client, known, timers, linkVars,
                 entryVars, sockOf, histVars>>

(* killTree hangs up the process group; SIGKILL follows. *)
HangUp(h) == IF pty[h] = "running" THEN "hup" ELSE pty[h]

(* listen fails, or SIGTERM / SIGINT arrives: kill the group, clean up once *)
(* the SIGKILL has had time to land.                                        *)
TermHolder(h) ==
  /\ hstate[h] \in {"booting", "serving"} /\ "term" \notin timers[h]
  /\ pty' = [pty EXCEPT ![h] = HangUp(h)]
  /\ timers' = [timers EXCEPT ![h] = @ \cup {"term"}]
  /\ UNCHANGED <<daemonVars, hstate, hid, client, known, linkVars, entryVars,
                 fileVars, histVars>>

(* Single-client rule: with a client attached, a new connection is told     *)
(* "busy" and ended.                                                        *)
TakenNever(h) == FALSE  \* mutant: a new connection replaces the client
Taken(h) == client[h] # None

RefuseAttached(h, e) ==  \* mutant: "busy" goes to the client attached before
  /\ down' = Write(client[h], {"busy", "eof"})
  /\ UNCHANGED <<client, known, timers>>
Refuse(h, e) ==
  /\ down' = Write(e, {"busy", "eof"})
  /\ UNCHANGED <<client, known, timers>>

(* Otherwise it becomes the client, and learns of an exit that has happened.*)
GreetingBare(h) == {"ready"}  \* mutant: the exit is not replayed
Greeting(h) == {"ready"} \cup (IF pty[h] = "ended" THEN {"exit"} ELSE {})

Admit(h, e) ==
  /\ client' = [client EXCEPT ![h] = e]
  /\ down' = Write(e, Greeting(h))
  /\ known' = [known EXCEPT ![h] = @ \/ pty[h] = "ended"]
  /\ timers' = [timers EXCEPT ![h] =
                  IF pty[h] = "ended" THEN @ \cup {"grace"} ELSE @]

(* A connection is taken from the backlog. *)
Accept(h, e) ==
  /\ peer[e] = h /\ backlog[e] /\ hstate[h] \in {"bound", "serving"}
  /\ backlog' = [backlog EXCEPT ![e] = FALSE]
  /\ IF Taken(h) THEN Refuse(h, e) ELSE Admit(h, e)
  /\ UNCHANGED <<daemonVars, hstate, hid, pty, conn, peer, ready, tries, killq,
                 up, entryVars, fileVars, histVars>>

(* proc.onExit: tell the client, or remember the exit for the next one. *)
PtyExit(h) ==
  /\ Exists(h) /\ pty[h] \in {"running", "hup"}
  /\ pty' = [pty EXCEPT ![h] = "ended"]
  /\ IF client[h] = None
     THEN UNCHANGED <<known, down>>
     ELSE /\ known' = [known EXCEPT ![h] = TRUE]
          /\ down' = Write(client[h], {"exit"})
  /\ timers' = [timers EXCEPT ![h] = @ \cup {"grace"}]
  /\ UNCHANGED <<daemonVars, hstate, hid, client, conn, peer, backlog, ready,
                 tries, killq, up, entryVars, fileVars, histVars>>

RecvKill(h) ==
  /\ Exists(h) /\ client[h] # None /\ "kill" \in up[client[h]]
  /\ up' = [up EXCEPT ![client[h]] = @ \ {"kill"}]
  /\ known' = [known EXCEPT ![h] = TRUE]
  /\ pty' = [pty EXCEPT ![h] = HangUp(h)]
  /\ UNCHANGED <<daemonVars, hstate, hid, client, timers, conn, peer, backlog,
                 ready, tries, killq, down, entryVars, fileVars, histVars>>

(* The process of h ends: its end of every connection closes. *)
HolderEnds(h) ==
  LET mine == {e \in Entry : peer[e] = h /\ conn[e] = "open"}
  IN
  /\ hstate' = [hstate EXCEPT ![h] = "gone"]
  /\ pty' = [pty EXCEPT ![h] = "ended"]
  /\ client' = [client EXCEPT ![h] = None]
  /\ timers' = [timers EXCEPT ![h] = {}]
  /\ known' = [known EXCEPT ![h] = FALSE]
  /\ backlog' = [e \in Entry |-> backlog[e] /\ peer[e] # h]
  /\ up' = [e \in Entry |-> IF peer[e] = h THEN {} ELSE up[e]]
  /\ down' = [e \in Entry |->
                IF e \in mine THEN down[e] \cup {"eof"} ELSE down[e]]
  /\ UNCHANGED <<daemonVars, hid, conn, peer, ready, tries, killq,
                 entryVars, histVars>>

(* cleanup(): the files go by path, then the process exits. *)
Cleanup(h) ==
  /\ HolderEnds(h)
  /\ sockOf' = [sockOf EXCEPT ![hid[h]] = None]
  /\ jsonOf' = [jsonOf EXCEPT ![hid[h]] = None]

(* The client's end closed; once the exit is known nobody else needs it.    *)
RecvClose(h) ==
  /\ Exists(h) /\ client[h] # None /\ up[client[h]] = {"eof"}
  /\ IF pty[h] = "ended" /\ known[h]
     THEN Cleanup(h)
     ELSE /\ client' = [client EXCEPT ![h] = None]
          /\ up' = [up EXCEPT ![client[h]] = {}]
          /\ down' = Write(client[h], {"eof"})
          /\ UNCHANGED <<daemonVars, hstate, hid, pty, known, timers, conn,
                         peer, backlog, ready, tries, killq, entryVars,
                         fileVars, histVars>>

(* A cleanup timer fires: the grace after an exit, or the one of SIGTERM,   *)
(* by which time the SIGKILL has ended the process group.                   *)
TimerFires(h) ==
  /\ Exists(h) /\ timers[h] # {}
  /\ "term" \in timers[h] \/ hstate[h] = "serving"
  /\ Cleanup(h)

(* SIGKILL, out of memory: the PTY's master closes, the files stay. *)
HolderDies(h) ==
  /\ Exists(h)
  /\ HolderEnds(h)
  /\ UNCHANGED fileVars

-----------------------------------------------------------------------------
DaemonNext(d) ==
  \/ StartDaemon(d)
  \/ \E h \in Holder, e \in Entry : Spawn(d, h, e)
  \/ \E i \in Id : SkipHolder(d, i)
  \/ \E i \in Id : SweepLeftovers(d, i)
  \/ \E i \in Id, e \in Entry : DialSurvivor(d, i, e)
  \/ \E force \in BOOLEAN : Shutdown(d, force)
  \/ DaemonDies(d)
  \/ DaemonDrains(d)

EntryNext(e) ==
  \/ Kill(e)
  \/ SweepDead(e)
  \/ DialOk(e)
  \/ DialRefused(e)
  \/ RecvReady(e)
  \/ RecvBusy(e)
  \/ RecvExit(e)
  \/ RecvEof(e)

HolderNext(h) ==
  \/ BindSocket(h)
  \/ WriteJson(h)
  \/ TermHolder(h)
  \/ \E e \in Entry : Accept(h, e)
  \/ PtyExit(h)
  \/ RecvKill(h)
  \/ RecvClose(h)
  \/ TimerFires(h)
  \/ HolderDies(h)

Next ==
  \/ \E d \in Daemon : DaemonNext(d)
  \/ \E e \in Entry : EntryNext(e)
  \/ \E h \in Holder : HolderNext(h)

Spec == Init /\ [][Next]_vars

-----------------------------------------------------------------------------
(* Properties *)

(* The daemon of e believes that e is its holder's client. *)
Attached(e) == ready[e] /\ conn[e] = "open" /\ down[e] = {} /\ "eof" \notin up[e]

(* Holder single-client rule (holder.js:254): two daemons never both drive *)
(* one PTY, also while one of them is shutting down or has just died.      *)
SingleAttachment ==
  \A e, f \in Entry :
    Attached(e) /\ Attached(f) /\ peer[e] = peer[f] => e = f

(* Why: until it reads the end of file, a greeted client is the one client *)
(* its holder has; before the connection is established nothing was read.  *)
Greeted(e) ==
  conn[e] = "open" /\ (ready[e] \/ "ready" \in down[e]) /\ "eof" \notin down[e]

AttachmentInv ==
  \A e \in Entry :
    /\ estate[e] = "unused" => conn[e] = "none"
    /\ conn[e] \in {"none", "dialing"} => ~ready[e] /\ down[e] = {}
    /\ conn[e] = "open" => peer[e] \in Holder
    /\ Greeted(e) => client[peer[e]] = e

(* An entry that the daemon lists as alive and that is attached never      *)
(* waits on a PTY that will not speak again: if the PTY ended, the exit    *)
(* frame or the end of file is on its way (holder.js:188-193, 274-279).    *)
AliveMeansRunning ==
  \A e \in Entry :
    estate[e] = "alive" /\ ready[e] /\ pty[peer[e]] = "ended"
      => {"exit", "eof"} \cap down[e] # {}

(* "Attached-then-dropped means the holder itself died -- its PTY died     *)
(* with it" (pty-manager.js:185): an entry that was once attached is       *)
(* reported dead only when its PTY has ended.                              *)
DeadMeansEnded ==
  \A e \in Entry :
    ready[e] /\ estate[e] = "dead" => pty[peer[e]] = "ended"

(* A session is hung up only when its user closed it or its holder was     *)
(* told to terminate: a kill never reaches another session's PTY, and the  *)
(* death or restart of a daemon never ends one.                            *)
HangUpIsWanted ==
  \A h \in Holder :
    pty[h] = "hup" => h \in wanted \/ "term" \in timers[h]

(* A serving holder can be found: its socket and its json file are its own,*)
(* so the next daemon can adopt it (holder.js:305 "a json on disk implies  *)
(* a socket to dial").                                                     *)
ServingMeansReachable ==
  \A h \in Holder :
    hstate[h] = "serving" => sockOf[hid[h]] = h /\ jsonOf[hid[h]] = h

(* "adopt every surviving holder under its ORIGINAL ptyId"                 *)
(* (pty-manager.js:844): once rehydrateHolders has finished, every running *)
(* PTY of an earlier daemon has an entry in this one.                      *)
SurvivorsAdopted ==
  \A d \in Daemon, h \in Holder :
    /\ Serving(d) /\ scan[d] = {} /\ Adopting(d) = {}
    /\ hstate[h] = "serving" /\ pty[h] = "running" /\ born[h] # d
    => \E e \in Entry : InMap(d, e) /\ target[e] = h /\ eid[e] = hid[h]

(* Every process keeps taking its turns: timers fire, sockets are read,    *)
(* a SIGKILL lands.  Requests, crashes and a PTY's own exit are not fair.  *)
Fairness ==
  /\ \A e \in Entry :
       /\ WF_vars(DialOk(e)) /\ WF_vars(DialRefused(e))
       /\ WF_vars(RecvReady(e)) /\ WF_vars(RecvBusy(e))
       /\ WF_vars(RecvExit(e)) /\ WF_vars(RecvEof(e))
  /\ \A h \in Holder :
       /\ WF_vars(BindSocket(h)) /\ WF_vars(WriteJson(h))
       /\ WF_vars(\E e \in Entry : Accept(h, e))
       /\ WF_vars(pty[h] = "hup" /\ PtyExit(h))
       /\ WF_vars(RecvKill(h)) /\ WF_vars(RecvClose(h))
       /\ WF_vars(TimerFires(h))
  /\ \A d \in Daemon :
       /\ WF_vars(\E i \in Id : SkipHolder(d, i) \/ SweepLeftovers(d, i)
                     \/ \E e \in Entry : DialSurvivor(d, i, e))

FairSpec == Spec /\ Fairness

(* A kill that a serving daemon accepted for a live session ends it, even  *)
(* when the holder was not connected yet, unless that daemon dies first or *)
(* gives the holder up.                                                    *)
KillEndsSession ==
  \A e \in Entry :
    (estate[e] = "alive" /\ (killq[e] \/ "kill" \in up[e]))
      ~> estate[e] # "alive"

(* The end of a PTY reaches every daemon that lists it: the entry does not *)
(* stay alive, whatever was in flight when the PTY ended.                  *)
ExitLearned ==
  \A e \in Entry :
    (estate[e] = "alive" /\ pty[target[e]] = "ended") ~> estate[e] # "alive"

(* rehydrateHolders is done with a holder in the end, though it vanishes    *)
(* while it is dialled, is busy with the client of an older daemon, or      *)
(* leaves leftovers: each answer, refusal and hang-up is taken.  (It has no *)
(* timeout, so a holder that takes a connection and never answers would    *)
(* keep it: that is assumed away by the fairness of Accept.)                *)
RehydrateEnds ==
  \A d \in Daemon : Running(d) ~> (scan[d] = {} /\ Adopting(d) = {})
=============================================================================
