---------------------------- MODULE EnsureDaemon ----------------------------
(***************************************************************************)
(* How seshmuxd comes up and stays up.  Launchers (bin/seshmux.js: startup, *)
(* heartbeat, --restart-daemon, the upgrade after an update) run           *)
(* ensureDaemon of daemon/ensure.js: dial, look at the socket file and the *)
(* pidfile, and spawn under a mkdir lock.  A daemon (daemon/index.js)      *)
(* unlinks the socket path, listens on it and writes the pidfile.          *)
(*                                                                         *)
(* sock and pid name the daemon that made the file at that path.  A dead   *)
(* daemon's files stay.  An element of Daemon is one process; it is used   *)
(* for a new process once it is dead and no file names it.                 *)
(***************************************************************************)
EXTENDS Integers, FiniteSets

CONSTANTS
  Launcher,   \* processes that run ensureDaemon
  Daemon,     \* seshmuxd processes
  None,       \* no file
  Retries,    \* how often a launcher dials again (39 times in the code)
  MaxDeaths,  \* bound: processes that die, or are shut down
  Conditions  \* the sets of conditions considered, see may

ASSUME ConstantsAssumption ==
  /\ Retries \in Nat /\ MaxDeaths \in Nat
  /\ Conditions \subseteq SUBSET {"gap", "slow", "shutdown", "reuse"}
  /\ None \notin Daemon \cup Launcher
  /\ Daemon \cap Launcher = {}

VARIABLES
  pc,       \* where a launcher is in ensureDaemon
  left,     \* dials it has left in the loop it is in
  lock,     \* the launcher that made the spawnlock directory
  lockOld,  \* is the directory older than LOCK_STALE_MS?
  dstate,   \* "dead", "booting", "unlinked" (stale socket removed), "bound"
            \* (listening), "serving" (pidfile written), "closing"
  sock,     \* whose socket is at seshmuxd.sock
  pid,      \* whose pid is in seshmuxd.pid
  foreign,  \* that pid now belongs to a process that is no daemon
  deaths,   \* how many processes have died
  may,      \* what may happen, chosen once: "gap", another process moves while
            \* a launcher is in its turn; "slow", a start takes longer than a
            \* launcher waits, or than LOCK_STALE_MS; "shutdown", the RPC is
            \* used; "reuse", a dead daemon's pid is given to another process
  usurped,  \* history: a lock was broken whose launcher was at work
  old       \* history: launchers that go by a decision, and daemons that come
            \* of one or are still there, from before the last pidfile

vars == <<pc, left, lock, lockOld, dstate, sock, pid, foreign, deaths,
          may, usurped, old>>
launcherVars == <<pc, left>>
lockVars == <<lock, lockOld>>
fileVars == <<sock, pid, foreign>>
history == <<usurped, old>>

LauncherTypeOK ==
  /\ pc \in [Launcher -> {"idle", "dial", "facts", "lock", "lockStale", "break",
                          "clear", "spawn", "poll"}]
  /\ left \in [Launcher -> 0 .. Retries]

DaemonTypeOK ==
  /\ dstate \in [Daemon -> {"dead", "booting", "unlinked", "bound", "serving",
                            "closing"}]
  /\ sock \in Daemon \cup {None}
  /\ pid \in Daemon \cup {None}
  /\ lock \in Launcher \cup {None}

FlagTypeOK ==
  /\ lockOld \in BOOLEAN /\ foreign \in BOOLEAN /\ usurped \in BOOLEAN
  /\ may \in Conditions
  /\ old \subseteq Launcher \cup Daemon

TypeOK ==
  LauncherTypeOK /\ DaemonTypeOK /\ FlagTypeOK /\ deaths \in 0 .. MaxDeaths

Init ==
  /\ pc = [l \in Launcher |-> "idle"]
  /\ left = [l \in Launcher |-> 0]
  /\ lock = None /\ lockOld = FALSE
  /\ dstate = [d \in Daemon |-> "dead"]
  /\ sock = None /\ pid = None /\ foreign = FALSE
  /\ deaths = 0
  /\ may \in Conditions
  /\ usurped = FALSE /\ old = {}
-----------------------------------------------------------------------------
Starting(d) == dstate[d] \in {"booting", "unlinked", "bound"}

(* Between the answer to its dial and the end of its spawn, a launcher     *)
(* awaits nothing: one turn of its event loop, a few system calls long.    *)
Turn == {"facts", "lock", "lockStale", "break", "clear", "spawn"}

(* It has made the lock directory and not yet removed it. *)
Holding(l) == pc[l] \in {"clear", "spawn", "poll"}

(* It has decided to launch and has not done so yet. *)
Decided(l) == pc[l] \in {"lock", "lockStale", "clear", "spawn"}

(* A daemon that listens answers hello once startDaemon has gone on to     *)
(* write the pidfile; a wedged one may fail to answer in time.             *)
Answers == sock # None /\ dstate[sock] = "serving"

(* pidAlive(readPid()): a process with the pid in the pidfile exists.      *)
PidAlive == pid # None /\ (dstate[pid] # "dead" \/ foreign)

(* classify(facts) after a dial that failed. *)
ClassifyBySocket ==  \* mutant: the pid is not looked at
  IF sock = None THEN "spawn" ELSE "stale"
Classify ==
  CASE sock = None -> "spawn"
    [] sock # None /\ PidAlive -> "wait"
    [] OTHER -> "stale"

(* A process ends, or is told to: the bound counts them. *)
Dies == deaths < MaxDeaths /\ deaths' = deaths + 1

-----------------------------------------------------------------------------
(* ensureDaemon *)

(* It returns or throws, or the process ends. *)
Returns(l) ==
  pc' = [pc EXCEPT ![l] = "idle"] /\ left' = [left EXCEPT ![l] = 0]

Begin(l) ==
  /\ pc[l] = "idle"
  /\ pc' = [pc EXCEPT ![l] = "dial"]
  /\ left' = [left EXCEPT ![l] = Retries]
  /\ UNCHANGED <<lockVars, dstate, fileVars, deaths, history>>

(* restartDaemon: SIGTERM whatever the pidfile names, a process that is no *)
(* daemon included, see it gone, ensure.                                   *)
(* (A daemon that does not die in time is left alone: no step.)            *)
Restart(l) ==
  /\ pc[l] = "idle"
  /\ PidAlive
  /\ Dies
  /\ IF dstate[pid] = "dead"
     THEN foreign' = FALSE /\ UNCHANGED dstate
     ELSE dstate' = [dstate EXCEPT ![pid] = "dead"] /\ UNCHANGED foreign
  /\ pc' = [pc EXCEPT ![l] = "dial"]
  /\ left' = [left EXCEPT ![l] = Retries]
  /\ UNCHANGED <<lockVars, sock, pid, history>>

(* tryHello succeeds: there is a daemon. *)
DialOk(l) ==
  /\ pc[l] = "dial" /\ Answers
  /\ Returns(l)
  /\ UNCHANGED <<lockVars, dstate, fileVars, deaths, history>>

(* It fails: refused, or no answer within HELLO_TIMEOUT_MS. *)
DialFails(l) ==
  /\ pc[l] = "dial"
  /\ pc' = [pc EXCEPT ![l] = "facts"]
  /\ UNCHANGED <<left, lockVars, dstate, fileVars, deaths, history>>

(* sleep(delay), then the next attempt, or "exhausted retries". *)
NextAttemptForever(l) ==  \* mutant: the attempts are not compared with retries
  /\ pc' = [pc EXCEPT ![l] = "dial"]
  /\ left' = [left EXCEPT ![l] = @ - 1]
NextAttempt(l) ==
  /\ pc' = [pc EXCEPT ![l] = IF left[l] = 0 THEN "idle" ELSE "dial"]
  /\ left' = [left EXCEPT ![l] = IF left[l] = 0 THEN 0 ELSE @ - 1]

ReadFacts(l) ==
  /\ pc[l] = "facts"
  /\ IF Classify = "wait"
     THEN NextAttempt(l)
     ELSE /\ pc' = [pc EXCEPT ![l] = IF Classify = "stale" THEN "lockStale"
                                                          ELSE "lock"]
          /\ UNCHANGED left
  /\ old' = old \ {l}
  /\ UNCHANGED <<lockVars, dstate, fileVars, deaths, usurped>>

(* mkdirSync(lock) *)
LockFreeAlways == TRUE  \* mutant: EEXIST is ignored
LockFree == lock = None

TakeLock(l) ==
  /\ pc[l] \in {"lock", "lockStale"} /\ LockFree
  /\ lock' = l /\ lockOld' = FALSE
  /\ pc' = [pc EXCEPT ![l] = IF pc[l] = "lockStale" THEN "clear" ELSE "spawn"]
  /\ UNCHANGED <<left, dstate, fileVars, deaths, history>>

(* EEXIST: somebody is launching, or was.  The age is read here, the       *)
(* directory removed in a second call.                                     *)
LockIsStaleNever == FALSE  \* mutant: an orphaned lock is kept
LockIsStale == lockOld

LockBusy(l) ==
  /\ pc[l] \in {"lock", "lockStale"} /\ lock # None
  /\ IF LockIsStale
     THEN pc' = [pc EXCEPT ![l] = "break"] /\ UNCHANGED left
     ELSE NextAttempt(l)
  /\ UNCHANGED <<lockVars, dstate, fileVars, deaths, history>>

BreakLock(l) ==
  /\ pc[l] = "break"
  /\ lock' = None /\ lockOld' = FALSE
  /\ NextAttempt(l)
  /\ usurped' = (usurped \/ (lock # None /\ Holding(lock)))
  /\ UNCHANGED <<dstate, fileVars, deaths, old>>

(* 'stale': unlink the dead daemon's socket and pidfile. *)
ClearStale(l) ==
  /\ pc[l] = "clear"
  /\ sock' = None /\ pid' = None /\ foreign' = FALSE
  /\ pc' = [pc EXCEPT ![l] = "spawn"]
  /\ UNCHANGED <<left, lockVars, dstate, deaths, history>>

SpawnDaemon(l, d) ==
  /\ pc[l] = "spawn"
  /\ dstate[d] = "dead" /\ d \notin {sock, pid}
  /\ dstate' = [dstate EXCEPT ![d] = "booting"]
  /\ pc' = [pc EXCEPT ![l] = "poll"]
  /\ left' = [left EXCEPT ![l] = Retries]
  /\ old' = IF l \in old THEN old \cup {d} ELSE old \ {d}
  /\ UNCHANGED <<lockVars, fileVars, deaths, usurped>>

(* The fresh daemon answers, or the launcher throws: either way the        *)
(* finally block removes the lock directory, whoever made it.              *)
PollOk(l) ==
  /\ pc[l] = "poll" /\ Answers
  /\ lock' = None /\ lockOld' = FALSE
  /\ Returns(l)
  /\ UNCHANGED <<dstate, fileVars, deaths, history>>

PollAgain(l) ==
  /\ pc[l] = "poll" /\ left[l] > 0
  /\ left' = [left EXCEPT ![l] = @ - 1]
  /\ UNCHANGED <<pc, lockVars, dstate, fileVars, deaths, history>>

PollGivesUp(l) ==
  /\ pc[l] = "poll" /\ left[l] = 0
  /\ "slow" \in may \/ ~\E d \in Daemon : Starting(d)
  /\ lock' = None /\ lockOld' = FALSE
  /\ Returns(l)
  /\ UNCHANGED <<dstate, fileVars, deaths, history>>

(* Ctrl-C, SIGKILL: the lock stays.  The user starts seshmux again. *)
LauncherDies(l) ==
  /\ pc[l] # "idle"
  /\ Dies
  /\ Returns(l)
  /\ UNCHANGED <<lockVars, dstate, fileVars, history>>

(* LOCK_STALE_MS passes.  A launcher that is alive holds the lock for less, *)
(* unless every poll of the fresh daemon times out (40 times 1.75 s) or the *)
(* machine is suspended.                                                   *)
LockAges ==
  /\ lock # None /\ ~lockOld
  /\ \/ "slow" \in may
     \/ (\A l \in Launcher : ~Holding(l)) /\ ~\E d \in Daemon : Starting(d)
  /\ lockOld' = TRUE
  /\ UNCHANGED <<launcherVars, lock, dstate, fileVars, deaths, history>>

-----------------------------------------------------------------------------
(* startDaemon *)

UnlinkSocket(d) ==
  /\ dstate[d] = "booting"
  /\ sock' = None
  /\ dstate' = [dstate EXCEPT ![d] = "unlinked"]
  /\ UNCHANGED <<launcherVars, lockVars, pid, foreign, deaths, history>>

(* listen: fails with EADDRINUSE, and ends the process, if a file is there *)
(* again.                                                                  *)
Listen(d) ==
  /\ dstate[d] = "unlinked"
  /\ IF sock = None
     THEN sock' = d /\ dstate' = [dstate EXCEPT ![d] = "bound"]
     ELSE UNCHANGED sock /\ dstate' = [dstate EXCEPT ![d] = "dead"]
  /\ UNCHANGED <<launcherVars, lockVars, pid, foreign, deaths, history>>

WritePidfile(d) ==
  /\ dstate[d] = "bound"
  /\ pid' = d /\ foreign' = FALSE
  /\ dstate' = [dstate EXCEPT ![d] = "serving"]
  /\ old' = {l \in Launcher : Decided(l)}
            \cup {e \in Daemon \ {d} : dstate[e] # "dead"}
  /\ UNCHANGED <<launcherVars, lockVars, sock, deaths, usurped>>

DaemonDies(d) ==
  /\ dstate[d] # "dead"
  /\ Dies
  /\ dstate' = [dstate EXCEPT ![d] = "dead"]
  /\ UNCHANGED <<launcherVars, lockVars, fileVars, history>>

(* The shutdown RPC: server.close() stops listening, and with that the     *)
(* runtime unlinks the socket path.                                        *)
Close(d) ==
  /\ "shutdown" \in may /\ dstate[d] = "serving"
  /\ deaths + 1 < MaxDeaths /\ Dies  \* bound: a daemon is left to start
  /\ sock' = None
  /\ dstate' = [dstate EXCEPT ![d] = "closing"]
  /\ UNCHANGED <<launcherVars, lockVars, pid, foreign, history>>

(* Its callback, when the last RPC connection has ended: both paths are    *)
(* unlinked, whoever made the files.                                       *)
Closed(d) ==
  /\ dstate[d] = "closing"
  /\ sock' = None /\ pid' = None /\ foreign' = FALSE
  /\ dstate' = [dstate EXCEPT ![d] = "dead"]
  /\ UNCHANGED <<launcherVars, lockVars, deaths, history>>

(* The pid of a dead daemon is given to another process (a reboot, a wrap).*)
PidRecycled ==
  /\ "reuse" \in may /\ pid # None /\ dstate[pid] = "dead" /\ ~foreign
  /\ foreign' = TRUE
  /\ UNCHANGED <<launcherVars, lockVars, dstate, sock, pid, deaths, history>>
-----------------------------------------------------------------------------
Ensure(l) ==
  \/ DialOk(l) \/ DialFails(l)
  \/ ReadFacts(l)
  \/ TakeLock(l) \/ LockBusy(l) \/ BreakLock(l)
  \/ ClearStale(l)
  \/ \E d \in Daemon : SpawnDaemon(l, d)
  \/ PollOk(l) \/ PollAgain(l) \/ PollGivesUp(l)

Start(d) == UnlinkSocket(d) \/ Listen(d) \/ WritePidfile(d)

(* No gap: nobody else moves while a launcher is in the middle of a turn.  *)
Undisturbed(l) == "gap" \in may \/ \A m \in Launcher \ {l} : pc[m] \notin Turn
Idle == "gap" \in may \/ \A m \in Launcher : pc[m] \notin Turn

LauncherNext(l) ==
  /\ Undisturbed(l)
  /\ Begin(l) \/ Restart(l) \/ Ensure(l) \/ LauncherDies(l)
  /\ UNCHANGED may

DaemonNext(d) ==
  /\ Idle
  /\ Start(d) \/ DaemonDies(d) \/ Close(d) \/ Closed(d)
  /\ UNCHANGED may

Next ==
  \/ \E l \in Launcher : LauncherNext(l)
  \/ \E d \in Daemon : DaemonNext(d)
  \/ Idle /\ (LockAges \/ PidRecycled) /\ UNCHANGED may

Spec == Init /\ [][Next]_vars

(* The heartbeat keeps calling ensureDaemon, a launcher and a daemon that   *)
(* have started go on, time passes.  Strong, because without a gap a process *)
(* that waits its turn is disabled while another one has its own.  Nothing  *)
(* says that a dial succeeds whenever it can.                               *)
Fairness ==
  /\ \A l \in Launcher :
       /\ SF_vars(Undisturbed(l) /\ Begin(l) /\ UNCHANGED may)
       /\ SF_vars(Undisturbed(l) /\ Ensure(l) /\ UNCHANGED may)
  /\ \A d \in Daemon : SF_vars(Idle /\ Start(d) /\ UNCHANGED may)
  /\ SF_vars(Idle /\ LockAges /\ UNCHANGED may)

FairSpec == Spec /\ Fairness
-----------------------------------------------------------------------------
(* Properties *)

(* "an alive-but-busy one classifies 'wait' (so this can NEVER race a       *)
(* healthy daemon into a duplicate)" (bin/seshmux.js:227): while a daemon   *)
(* serves from its own socket and pidfile, whoever is about to launch       *)
(* decided before that pidfile was written, and so did the launcher of any  *)
(* other process that starts, serves, or has a close() pending.  Whatever   *)
(* takes the files away is therefore a leftover of the time before: slow    *)
(* launchers and starts, gaps, shutdowns and reused pids included.          *)
Healthy(d) == dstate[d] = "serving" /\ sock = d /\ pid = d

NoLateDuplicate ==
  \A d \in Daemon : Healthy(d) =>
    /\ \A l \in Launcher : Decided(l) => l \in old
    /\ \A e \in Daemon \ {d} : dstate[e] # "dead" => e \in old

(* "the mkdir spawnlock serializes spawns" (bin/seshmux.js:238): of the     *)
(* launchers that crash, retry and break each other's locks at most one is  *)
(* between its mkdir and its rmdir, unless a lock was broken whose launcher *)
(* was still at work; and that happens only if a start is slow, or another  *)
(* process comes between the look at the age of the lock and its removal.   *)
OneLauncher ==
  /\ \A l, m \in Launcher : Holding(l) /\ Holding(m) => l = m \/ usurped
  /\ usurped => may \cap {"gap", "slow"} # {}

(* Why: as long as no lock was usurped, a launcher that holds it made the   *)
(* directory that is there.  Without gaps and slow starts that directory is *)
(* not old, and a launcher about to remove an orphan found it old in this   *)
(* turn.                                                                    *)
LockInv ==
  /\ ~usurped => \A l \in Launcher : Holding(l) => lock = l
  /\ may \cap {"gap", "slow"} = {} =>
       /\ ~usurped
       /\ \A l, m \in Launcher : pc[l] \in Turn /\ pc[m] \in Turn => l = m
       /\ \A l \in Launcher : /\ Holding(l) => ~lockOld
                              /\ pc[l] = "break" => lockOld

(* "the fix is simply to keep asking" (bin/seshmux.js:230): while somebody  *)
(* keeps calling ensureDaemon there is, again and again, a daemon that can  *)
(* be reached; no crash of a launcher or a daemon, and no lock or file it   *)
(* left, stops that for good.                                               *)
Recovers == may = {} => []<>Answers
=============================================================================
