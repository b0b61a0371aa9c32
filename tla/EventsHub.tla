------------------------------ MODULE EventsHub ------------------------------
(***************************************************************************)
(* The events hub of the server (server/events-hub.ts): one monitor        *)
(* connection to the daemon over which the hub learns what the sessions    *)
(* print and when they end, the status it derives for each of them         *)
(* (lib/needs-input.ts, and the status files that agent hooks write), the   *)
(* browsers that see the statuses, and the callers that wait for one.      *)
(*                                                                         *)
(* A chunk of output is one of four: it holds a prompt, a prompt and after  *)
(* it a sign of work, a sign of work, or plain text.  Everything the hub    *)
(* awaits is an action of its own: a dial, an RPC, the read of a file.      *)
(***************************************************************************)
EXTENDS Integers, FiniteSets

CONSTANTS
  Pty,        \* sessions: scratch terminals are never attached
  Sweeper,    \* runs of reattachAll: the first at boot, one after each drop
  Client,     \* browsers on the events WebSocket
  Waiter,     \* callers of waitForStatus
  None,
  MaxChunks,  \* bound: chunks of output
  MaxWrites,  \* bound: writes of status files
  MaxReads,   \* bound: reads of status files at a time
  HookStatus, \* what status files hold
  Target,     \* what is waited for
  DialFails   \* may a dial fail?

Job == Pty \cup Sweeper  \* the trackPty of a session, and reattachAll
Status == {"working", "waiting", "idle"}
Chunk == {"prompt", "mixed", "work", "text"}

ASSUME EventsHubAssumption ==
  /\ HookStatus \subseteq Status /\ Target \subseteq Status
  /\ MaxChunks \in Nat /\ MaxWrites \in Nat

VARIABLES
  life,       \* "unborn", "alive", "dead" (the daemon still knows it), "lost"
  monitor,    \* connections that are wired and open, normally at most one
  dialing,    \* dials in flight
  subscribed, \* has the daemon seen an attach on the monitor connection?
  exits,      \* exit events on it
  attached,
  status,     \* statusByPty; "none": no entry
  prompted,   \* NIState.lastFrameWaiting
  quiet,      \* has it been silent for more than SILENCE_MS?
  hook,       \* the status file of an agent: [st, fresh]
  hooksActive,
  reads,      \* file reads whose results are still to come
  job,        \* where the awaits of attachPty and reattachAll are
  view,       \* the statuses a browser shows; "shut": it is not connected
  waiter,     \* [p, target, said]
  closing,    \* close() has been called; and has closed its connection
  gone,       \* history: PTYs whose exit the hub has handled
  chunks, writes

connVars == <<monitor, dialing, subscribed, exits>>
niVars == <<prompted, quiet>>
hookVars == <<hook, hooksActive, reads>>
uiVars == <<status, view, waiter>>
vars == <<life, connVars, attached, niVars, hookVars, uiVars, job,
          closing, gone, chunks, writes>>

NoFile == [st |-> "none", fresh |-> FALSE]
File == [st : HookStatus, fresh : BOOLEAN] \cup {NoFile}
Idle == [at |-> "idle", p |-> None, todo |-> {}]
Asleep == [p |-> None, target |-> "none", said |-> "none"]
Boot == CHOOSE s \in Sweeper : TRUE

ReadType == [kind : {"frame", "seed", "watch", "tick", "probe"},
             p : Pty, heur : Status \cup {"none"}, work : BOOLEAN]
WaiterType == [p : Pty \cup {None}, target : Status \cup {"none"},
               said : Status \cup {"none", "timeout"}]
JobRecord == [at : {"idle", "wait", "list", "lists", "skip", "ptys",
                    "mon", "rpc", "behind", "reply", "cut", "done"},
              p : Pty \cup {None}, todo : SUBSET Pty]

TypeOK ==
  /\ life \in [Pty -> {"unborn", "alive", "dead", "lost"}]
  /\ monitor \in 0 .. 1 /\ dialing \in 0 .. 1
  /\ subscribed \in BOOLEAN /\ exits \subseteq Pty
  /\ attached \subseteq Pty /\ hooksActive \subseteq Pty
  /\ status \in [Pty -> Status \cup {"none"}]
  /\ prompted \in [Pty -> BOOLEAN] /\ quiet \in [Pty -> BOOLEAN]
  /\ hook \in [Pty -> File]
  /\ reads \subseteq ReadType
  /\ job \in [Job -> JobRecord]
  /\ view \in [Client -> [Pty -> Status \cup {"none", "shut"}]]
  /\ waiter \in [Waiter -> WaiterType]
  /\ closing \in {"no", "called", "closed"}
  /\ gone \subseteq Pty
  /\ chunks \in 0 .. MaxChunks /\ writes \in 0 .. MaxWrites

(* createEventsHub: reattachAll() has called ensureMonitor().              *)
Init ==
  /\ life \in [Pty -> {"unborn", "alive"}]
  /\ monitor = 0 /\ dialing = 1 /\ subscribed = FALSE /\ exits = {}
  /\ attached = {} /\ hooksActive = {} /\ reads = {}
  /\ status = [p \in Pty |-> "none"]
  /\ prompted = [p \in Pty |-> FALSE] /\ quiet = [p \in Pty |-> FALSE]
  /\ hook = [p \in Pty |-> NoFile]
  /\ job = [j \in Job |-> IF j = Boot THEN [Idle EXCEPT !.at = "list"]
                                      ELSE Idle]
  /\ view = [c \in Client |-> [p \in Pty |-> "shut"]]
  /\ waiter = [w \in Waiter |-> Asleep]
  /\ closing = "no" /\ gone = {} /\ chunks = 0 /\ writes = 0
-----------------------------------------------------------------------------
(* Statuses *)

(* broadcast, and settleWaiters: what the browsers and the waiters get.    *)
TellBrowsers(p, st) ==  \* mutant: settleWaiters is left out
  /\ view' = [c \in Client |->
                IF view[c][p] = "shut" THEN view[c]
                ELSE [view[c] EXCEPT ![p] = st]]
  /\ UNCHANGED waiter
Tell(p, st) ==
  /\ view' = [c \in Client |->
                IF view[c][p] = "shut" THEN view[c]
                ELSE [view[c] EXCEPT ![p] = st]]
  /\ waiter' = [w \in Waiter |->
                  IF waiter[w].said = "none" /\ waiter[w].p = p
                     /\ waiter[w].target = st
                  THEN [waiter[w] EXCEPT !.said = st] ELSE waiter[w]]

SetStatus(p, st) ==
  IF status[p] = st
  THEN UNCHANGED uiVars
  ELSE status' = [status EXCEPT ![p] = st] /\ Tell(p, st)

(* classifyExplain on a chunk: what the heuristics say, whether a sign of  *)
(* work was matched, and the two pieces of state it keeps.                 *)
Frame(p, c) ==
  LET sees == c \in {"prompt", "mixed"} IN
  CASE sees /\ (prompted[p] \/ c = "prompt") ->
         [st |-> "waiting", work |-> FALSE, prompted |-> TRUE, quiet |-> FALSE]
    [] ~sees /\ quiet[p] /\ c = "text" ->
         [st |-> "idle", work |-> FALSE, prompted |-> FALSE, quiet |-> TRUE]
    [] OTHER ->
         [st |-> "working", work |-> c # "text", prompted |-> FALSE,
          quiet |-> FALSE]

(* And on the empty chunk of a tick. *)
Silence(p) ==
  IF prompted[p] THEN "waiting" ELSE IF quiet[p] THEN "idle" ELSE "working"

(* A fresh hook wins, but for a waiting one against a matched sign of work. *)
ResolveStale(file, heur, work) ==  \* mutant: the age of the file is not checked
  IF file = NoFile THEN heur ELSE file.st
Resolve(file, heur, work) ==
  CASE ~file.fresh -> heur
    [] file.st = "waiting" /\ heur = "working" /\ work -> "working"
    [] OTHER -> file.st

(* A read that has begun.  It sees the file as it is when the result comes.  *)
Reads(kind, p, heur, work) ==
  reads' = reads \cup {[kind |-> kind, p |-> p, heur |-> heur, work |-> work]}
Room == Cardinality(reads) < MaxReads  \* bound

(* A monitored PTY prints.  What the hub does not see, it does not see: only *)
(* chunks that reach it are steps of this model.                           *)
Data(p, c) ==
  LET f == Frame(p, c) IN
  /\ chunks < MaxChunks /\ Room /\ chunks' = chunks + 1
  /\ life[p] = "alive" /\ subscribed /\ monitor > 0 /\ p \in attached
  /\ prompted' = [prompted EXCEPT ![p] = f.prompted]
  /\ quiet' = [quiet EXCEPT ![p] = f.quiet]
  /\ IF p \in hooksActive
     THEN Reads("frame", p, f.st, f.work) /\ UNCHANGED uiVars
     ELSE SetStatus(p, f.st) /\ UNCHANGED reads
  /\ UNCHANGED <<life, connVars, attached, hook, hooksActive, job,
                 closing, gone, writes>>

(* The tick, for one PTY: a probe for its status file, and its status.  Of  *)
(* the two reads of a PTY that has a file, which end in either order, one   *)
(* stands for both.                                                        *)
Tick(p) ==
  /\ closing = "no" /\ status[p] # "none" /\ Room
  /\ IF p \in hooksActive
     THEN Reads("tick", p, Silence(p), FALSE) /\ UNCHANGED uiVars
     ELSE Reads("probe", p, "none", FALSE) /\ SetStatus(p, Silence(p))
  /\ UNCHANGED <<life, connVars, attached, niVars, hook, hooksActive,
                 job, closing, gone, chunks, writes>>

(* SILENCE_MS without output. *)
Quieten(p) ==
  /\ ~quiet[p] /\ status[p] # "none"
  /\ quiet' = [quiet EXCEPT ![p] = TRUE]
  /\ UNCHANGED <<life, connVars, attached, prompted, hookVars, uiVars,
                 job, closing, gone, chunks, writes>>

(* The hook of an agent writes its status file; the watch on the directory  *)
(* sees it and reads it.  HOOK_STATUS_MAX_AGE_MS makes it stale.           *)
HookWrites(p, st) ==
  /\ writes < MaxWrites /\ Room /\ writes' = writes + 1
  /\ life[p] = "alive"
  /\ hook' = [hook EXCEPT ![p] = [st |-> st, fresh |-> TRUE]]
  /\ IF closing = "no"
     THEN /\ hooksActive' = hooksActive \cup {p}
          /\ Reads("watch", p, "none", FALSE)
     ELSE UNCHANGED <<hooksActive, reads>>
  /\ UNCHANGED <<life, connVars, attached, niVars, uiVars, job, closing,
                 gone, chunks>>

HookAges(p) ==
  /\ hook[p].fresh
  /\ hook' = [hook EXCEPT ![p].fresh = FALSE]
  /\ UNCHANGED <<life, connVars, attached, niVars, hooksActive, reads,
                 uiVars, job, closing, gone, chunks, writes>>

(* The result of a read; never for a PTY that is no longer attached.       *)
StillAttachedAlways(p) == TRUE  \* mutant: the check after the await is left out
StillAttached(p) == p \in attached

ReadDone(r) ==
  LET file == hook[r.p]
      counts == StillAttached(r.p)
  IN
  /\ reads' = reads \ {r}
  /\ hooksActive' =
       CASE r.kind \in {"tick", "probe"} /\ file = NoFile -> hooksActive \ {r.p}
         [] r.kind \in {"tick", "probe", "seed"} /\ file # NoFile ->
              hooksActive \cup {r.p}
         [] OTHER -> hooksActive
  /\ CASE r.kind \in {"frame", "tick"} /\ counts ->
              SetStatus(r.p, Resolve(file, r.heur, r.work))
       [] r.kind \in {"seed", "watch"} /\ counts /\ file.fresh ->
              SetStatus(r.p, file.st)
       [] OTHER -> UNCHANGED uiVars
  /\ UNCHANGED <<life, connVars, attached, niVars, hook, job, closing, gone,
                 chunks, writes>>
-----------------------------------------------------------------------------
(* The monitor connection *)

(* ensureMonitor: a dial is begun only if there is neither a connection nor *)
(* a dial in flight.                                                       *)
NeedsDialNoMemo == monitor = 0  \* mutant: the dial in flight is not awaited
NeedsDial == monitor = 0 /\ dialing = 0
EnsureMonitor == dialing' = IF NeedsDial THEN dialing + 1 ELSE dialing

(* attachPty up to its second await: the PTY counts as attached from here, *)
(* so that an exit that comes meanwhile can take it out again.             *)
StartsAttach(j, p, todo, att) ==
  /\ attached' = att \cup {p}
  /\ EnsureMonitor
  /\ job' = [job EXCEPT ![j] =
               [at |-> IF monitor > 0 THEN "rpc" ELSE "mon", p |-> p,
                todo |-> todo]]

(* The loop of reattachAll goes on; a trackPty is done.                    *)
GoesOn(j, todo, att) ==
  IF todo \subseteq att
  THEN /\ job' = [job EXCEPT ![j] = [Idle EXCEPT !.at = "done"]]
       /\ attached' = att /\ UNCHANGED dialing
  ELSE \E p \in todo \ att : StartsAttach(j, p, todo \ {p}, att)

(* What becomes of the awaits when the dial that they wait for succeeds.   *)
Resumed(j) ==
  CASE job[j].at = "list" -> [job[j] EXCEPT !.at = "lists"]
    [] job[j].at = "mon" -> [job[j] EXCEPT !.at = "rpc"]
    [] OTHER -> job[j]

(* And of the RPCs when the connection ends: list() rejects, which ends    *)
(* reattachAll; attach() rejects, which attachPty takes for an answer.     *)
Cut(j) ==
  CASE job[j].at \in {"list", "lists"} -> [Idle EXCEPT !.at = "done"]
    [] job[j].at \in {"mon", "rpc", "behind", "reply"} ->
         [job[j] EXCEPT !.at = "cut"]
    [] OTHER -> job[j]

WantedAlways == TRUE  \* mutant: a dial that lands after close() is wired
Wanted == closing = "no"

DialOk ==
  /\ dialing > 0 /\ dialing' = dialing - 1
  /\ IF Wanted
     THEN monitor' = monitor + 1 /\ job' = [j \in Job |-> Resumed(j)]
     ELSE UNCHANGED monitor /\ job' = [j \in Job |-> Cut(j)]
  /\ UNCHANGED <<life, subscribed, exits, attached, niVars, hookVars,
                 uiVars, closing, gone, chunks, writes>>

(* attachPty takes its PTY out again; reattachAll gives up.                *)
DialFailed ==
  /\ DialFails /\ dialing > 0 /\ dialing' = dialing - 1
  /\ attached' = attached \ {job[j].p : j \in {k \in Job : job[k].at = "mon"}}
  /\ job' = [j \in Job |-> IF job[j].at \in {"list", "mon"}
                            THEN [job[j] EXCEPT !.at = "cut"] ELSE job[j]]
  /\ UNCHANGED <<life, monitor, subscribed, exits, niVars, hookVars,
                 uiVars, closing, gone, chunks, writes>>

(* The connection ends: because the daemon died, and another one adopts    *)
(* what survived, or for itself.  reattachAll will run 500 ms later.       *)
StillMarked == attached  \* mutant: attached.clear() is left out
AfterDrop == {}

Drop(crash) ==
  /\ monitor > 0 /\ monitor' = 0
  /\ subscribed' = FALSE /\ exits' = {} /\ attached' = AfterDrop
  /\ \E s \in Sweeper :
       /\ job[s].at = "idle"
       /\ job' = [j \in Job |-> IF j = s /\ closing = "no"
                                 THEN [Idle EXCEPT !.at = "wait"] ELSE Cut(j)]
  /\ life' = IF crash
             THEN [p \in Pty |-> IF life[p] = "dead" THEN "lost" ELSE life[p]]
             ELSE life
  /\ UNCHANGED <<dialing, niVars, hookVars, uiVars, closing, gone,
                 chunks, writes>>

ReattachStarts(s) ==
  /\ job[s].at = "wait"
  /\ IF closing # "no"
     THEN job' = [job EXCEPT ![s].at = "done"] /\ UNCHANGED dialing
     ELSE /\ job' = [job EXCEPT ![s].at = IF monitor > 0 THEN "lists" ELSE "list"]
          /\ EnsureMonitor
  /\ UNCHANGED <<life, monitor, subscribed, exits, attached, niVars,
                 hookVars, uiVars, closing, gone, chunks, writes>>

(* The daemon answers list.                                                *)
Listed(s) ==
  /\ job[s].at = "lists"
  /\ job' = [job EXCEPT ![s] =
               [at |-> "ptys", p |-> None,
                todo |-> {p \in Pty : life[p] = "alive"}]]
  /\ UNCHANGED <<life, connVars, attached, niVars, hookVars, uiVars,
                 closing, gone, chunks, writes>>

(* scratchIds() has been read.                                             *)
SkipRead(j) ==
  /\ \/ job[j].at = "ptys" /\ GoesOn(j, job[j].todo, attached)
     \/ job[j].at = "skip" /\ StartsAttach(j, job[j].p, {}, attached)
  /\ UNCHANGED <<life, monitor, subscribed, exits, niVars, hookVars, uiVars,
                 closing, gone, chunks, writes>>

(* The daemon handles attach.  The exit of a PTY that is dead is told again, *)
(* before the answer; a PTY it does not know is an error.                  *)
RetoldNever(p) == FALSE  \* mutant: only the snapshot is sent
Retold(p) == life[p] = "dead"

AttachHandled(j) ==
  LET p == job[j].p IN
  /\ job[j].at = "rpc"
  /\ IF life[p] \in {"alive", "dead"}
     THEN /\ subscribed' = TRUE
          /\ exits' = IF Retold(p) THEN exits \cup {p} ELSE exits
     ELSE UNCHANGED <<subscribed, exits>>
  /\ job' = [job EXCEPT ![j].at = IF p \in exits' THEN "behind" ELSE "reply"]
  /\ UNCHANGED <<life, monitor, dialing, attached, niVars, hookVars,
                 uiVars, closing, gone, chunks, writes>>

(* attachPty goes on after attach, whatever the answer was.                *)
StillDying(p) == p \notin attached

Attached(j) ==
  LET p == job[j].p IN
  /\ \/ job[j].at \in {"reply", "cut"}
     \/ job[j].at = "behind" /\ p \notin exits
  /\ IF p = None \/ StillDying(p)
     THEN UNCHANGED <<reads, uiVars>>
     ELSE /\ IF status[p] = "none" THEN SetStatus(p, "working")
                                   ELSE UNCHANGED uiVars
          /\ Reads("seed", p, "none", FALSE)
  /\ GoesOn(j, job[j].todo, attached)
  /\ UNCHANGED <<life, monitor, subscribed, exits, niVars, hook,
                 hooksActive, closing, gone, chunks, writes>>

(* The exit of a PTY reaches the hub.  The answer to an attach that was     *)
(* written before it has come by then, if only in the same chunk.          *)
ExitEvent(p) ==
  /\ p \in exits /\ exits' = exits \ {p}
  /\ attached' = attached \ {p} /\ hooksActive' = hooksActive \ {p}
  /\ prompted' = [prompted EXCEPT ![p] = FALSE]
  /\ quiet' = [quiet EXCEPT ![p] = FALSE]
  /\ status' = [status EXCEPT ![p] = "none"] /\ Tell(p, "idle")
  /\ gone' = gone \cup {p}
  /\ job' = [j \in Job |-> IF job[j].at = "reply" /\ job[j].p = p
                            THEN [job[j] EXCEPT !.at = "cut"] ELSE job[j]]
  /\ UNCHANGED <<life, monitor, dialing, subscribed, hook, reads,
                 closing, chunks, writes>>
-----------------------------------------------------------------------------
(* Sessions *)

Spawn(p) ==
  /\ life[p] = "unborn" /\ life' = [life EXCEPT ![p] = "alive"]
  /\ UNCHANGED <<connVars, attached, niVars, hookVars, uiVars, job, closing,
                 gone, chunks, writes>>

(* startSession tells the hub of the session it has spawned: trackPty.     *)
Track(p) ==
  /\ life[p] # "unborn" /\ job[p].at = "idle"
  /\ job' = [job EXCEPT ![p] = IF p \in attached
                               THEN [Idle EXCEPT !.at = "done"]
                               ELSE [at |-> "skip", p |-> p, todo |-> {}]]
  /\ UNCHANGED <<life, connVars, attached, niVars, hookVars, uiVars, closing,
                 gone, chunks, writes>>

PtyEnds(p) ==
  /\ life[p] = "alive" /\ life' = [life EXCEPT ![p] = "dead"]
  /\ exits' = IF subscribed THEN exits \cup {p} ELSE exits
  /\ UNCHANGED <<monitor, dialing, subscribed, attached, niVars, hookVars,
                 uiVars, job, closing, gone, chunks, writes>>
-----------------------------------------------------------------------------
(* Browsers and waiters *)

ReplayNone == [p \in Pty |-> "none"]  \* mutant: no replay on connect
Replay == status

AddClient(c) ==
  /\ closing # "closed" /\ \A p \in Pty : view[c][p] = "shut"
  /\ view' = [view EXCEPT ![c] = Replay]
  /\ UNCHANGED <<life, connVars, attached, niVars, hookVars, status,
                 waiter, job, closing, gone, chunks, writes>>

ClientLeaves(c) ==
  /\ \A p \in Pty : view[c][p] # "shut"
  /\ view' = [view EXCEPT ![c] = [p \in Pty |-> "shut"]]
  /\ UNCHANGED <<life, connVars, attached, niVars, hookVars, status,
                 waiter, job, closing, gone, chunks, writes>>

WaitForStatus(w, p, st) ==
  /\ waiter[w] = Asleep /\ closing # "closed"
  /\ waiter' = [waiter EXCEPT ![w] =
                  [p |-> p, target |-> st,
                   said |-> IF status[p] = st THEN st ELSE "none"]]
  /\ UNCHANGED <<life, connVars, attached, niVars, hookVars, status,
                 view, job, closing, gone, chunks, writes>>

TimesOut(w) ==
  /\ waiter[w].p # None /\ waiter[w].said = "none"
  /\ waiter' = [waiter EXCEPT ![w].said = "timeout"]
  /\ UNCHANGED <<life, connVars, attached, niVars, hookVars, status,
                 view, job, closing, gone, chunks, writes>>

(* close(), and, when the watchers have been closed, the rest of it.       *)
Close ==
  /\ closing = "no" /\ closing' = "called"
  /\ UNCHANGED <<life, connVars, attached, niVars, hookVars, uiVars,
                 job, gone, chunks, writes>>

CloseMonitor ==
  /\ closing = "called" /\ closing' = "closed"
  /\ monitor' = 0 /\ subscribed' = FALSE /\ exits' = {}
  /\ attached' = IF monitor > 0 THEN {} ELSE attached
  /\ job' = IF monitor > 0 THEN [j \in Job |-> Cut(j)] ELSE job
  /\ view' = [c \in Client |-> [p \in Pty |-> "shut"]]
  /\ waiter' = [w \in Waiter |->
                  IF waiter[w].p # None /\ waiter[w].said = "none"
                  THEN [waiter[w] EXCEPT !.said = "timeout"] ELSE waiter[w]]
  /\ UNCHANGED <<life, dialing, niVars, hookVars, status, gone, chunks,
                 writes>>
-----------------------------------------------------------------------------
(* The continuations of awaits that have been cut off run before anything  *)
(* else does.                                                              *)
Settling == \E j \in Job : job[j].at = "cut"

JobStep(j) ==
  \/ SkipRead(j) \/ AttachHandled(j) \/ Attached(j)
  \/ j \in Sweeper /\ (ReattachStarts(j) \/ Listed(j))

HubStep ==
  \/ \E p \in Pty, c \in Chunk : Data(p, c)
  \/ \E p \in Pty : Tick(p) \/ Quieten(p) \/ HookAges(p) \/ ExitEvent(p)
  \/ \E p \in Pty, st \in HookStatus : HookWrites(p, st)
  \/ \E r \in reads : ReadDone(r)
  \/ \E j \in Job : JobStep(j)
  \/ DialOk \/ DialFailed \/ \E crash \in BOOLEAN : Drop(crash)
  \/ Close \/ CloseMonitor

WorldStep ==
  \/ \E p \in Pty : Spawn(p) \/ Track(p) \/ PtyEnds(p)
  \/ \E c \in Client : AddClient(c) \/ ClientLeaves(c)
  \/ \E w \in Waiter : TimesOut(w)
  \/ \E w \in Waiter, p \in Pty, st \in Target : WaitForStatus(w, p, st)

Next ==
  \/ Settling /\ \E j \in Job : job[j].at = "cut" /\ Attached(j)
  \/ ~Settling /\ (HubStep \/ WorldStep)

Spec == Init /\ [][Next]_vars

(* Timers fire and files are read; the daemon answers, and writes exits out; *)
(* startSession goes on to trackPty.  Drops, dials that fail, data, clients  *)
(* and close() are free not to happen.                                      *)
Unhindered(A) == ~Settling /\ A

Fairness ==
  /\ WF_vars(\E j \in Job : job[j].at = "cut" /\ Attached(j))
  /\ WF_vars(Unhindered(DialOk))
  /\ \A j \in Job : WF_vars(Unhindered(JobStep(j)))
  /\ \A p \in Pty :
       /\ WF_vars(Unhindered(Track(p))) /\ WF_vars(Unhindered(Tick(p)))
       /\ WF_vars(Unhindered(ExitEvent(p))) /\ WF_vars(Unhindered(Quieten(p)))
       /\ WF_vars(Unhindered(HookAges(p)))
       /\ WF_vars(Unhindered(\E r \in reads : r.p = p /\ ReadDone(r)))

FairSpec == Spec /\ Fairness
-----------------------------------------------------------------------------
(* There is never more than one monitor connection, dials in flight         *)
(* included, although trackPty, reattachAll and a drop race: a second one   *)
(* would classify every chunk twice (ensureMonitor).  And there is none once *)
(* close() is done, whatever dial it found under way.                       *)
OneMonitor == monitor + dialing <= 1 /\ (closing = "closed" => monitor = 0)

(* Nobody waits for a status that the session already has: a change between *)
(* the check in waitForStatus and its wait is not missed.                   *)
WaiterNotMissed ==
  \A w \in Waiter :
    waiter[w].p # None /\ waiter[w].said = "none" =>
      status[waiter[w].p] # waiter[w].target

(* A browser that joins at any time shows what the hub holds; a session     *)
(* whose status the hub has dropped shows as idle, or not at all.           *)
ViewMatches ==
  \A c \in Client, p \in Pty :
    \/ view[c][p] \in {"shut", status[p]}
    \/ view[c][p] = "idle" /\ status[p] = "none"

FirstConnection == closing = "no" /\ \A s \in Sweeper \ {Boot} : job[s].at = "idle"

(* A session whose exit has been handled has no status again, whatever read  *)
(* or attach was under way; but for one that is being attached once more,   *)
(* whose exit the daemon will tell again.  Until the connection drops.      *)
DeadStaysDead ==
  FirstConnection => \A p \in gone : status[p] # "none" => p \in attached

(* In the end every session that lives is watched, through drops and the    *)
(* death of the daemon.                                                     *)
Watched ==
  \A p \in Pty :
    <>[](life[p] = "alive" /\ closing = "no" => p \in attached /\ subscribed)

(* A session that has gone silent shows a status that says so: waiting if   *)
(* its last frame was a prompt, idle if not.                                *)
Settles ==
  \A p \in Pty :
    <>[](p \in attached /\ closing = "no" =>
           status[p] = IF prompted[p] THEN "waiting" ELSE "idle")

(* The status of a session that ends while the hub is attaching it goes away *)
(* even if the daemon had told the exit before it saw the attach.           *)
DeadFades ==
  \A p \in Pty :
    life[p] = "dead" /\ p \in attached ~> status[p] = "none" \/ ~FirstConnection
=====
