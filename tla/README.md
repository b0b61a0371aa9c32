# Verification of seshmux

seshmux runs coding agents in terminals and keeps them running while the
program around them is restarted, updated or crashes.  This directory holds
TLA+ models of the parts of it on which that promise rests, the TLC
configurations that check them on small instances, and TLAPS proofs of what
matters most for every instance.  Paths are relative to the repository
(`src/` below is its root); `PROJECT.json` maps every definition to the lines
it stands for.

## 1. The system

### Processes and files

    browser --ws--> server (src/server) --socket--> seshmuxd (src/daemon) --socket--> holder --pty--> agent
                       |   ^                            |   ^                          (one per session)
    supervisor --------+   |  ledger, names, records    |   +-- holders/pty-N.{sock,json}
    (src/bin) --ensureDaemon--> seshmuxd.{sock,pid,spawnlock}
    bridge process of an agent --approval.sock--> server

| component | state it keeps | operations | hard behaviours | what makes it correct |
|---|---|---|---|---|
| holder (`daemon/holder.js`) | PTY, ring, one client, `exitKnown`, timers, its socket and json | listen, accept/busy, kill, exit, close, SIGTERM, cleanup | client changes at any moment, exit before connect, crash | one client; the exit is never lost; files are its own |
| holder tier (`daemon/pty-manager.js`) | `_ptys`, `_nextId`, HolderClient and ring per session | spawn, kill, killAll, close, rehydrateHolders, sweep | retries, queued frames, adoption during boot | survivors adopted under their ids, no id twice, no kill lost or misdirected |
| tmux tier (same file) | tmux clients, revival | rehydrateTmux, revive | kill against revive | an explicit kill stays |
| daemon RPC (`daemon/index.js`) | subscribers, socket, pidfile | attach, list, spawn, shutdown, close | late close callback, fan-out during attach | serves from its own files, no output twice |
| ensureDaemon (`daemon/ensure.js`) | spawn lock directory | dial, classify, lock, clear, spawn, poll | several launchers, crash with the lock, pid reuse | one daemon; recovery |
| supervisor (`bin/seshmux.js`) | server child, heartbeat | start, restartDaemon, upgrade, relaunch | update in the middle of work | ends no session it need not |
| ledger (`server/lib/live-ledger.ts`) | rows of live sessions | add, remove, rename, bind | rows keyed by reusable ptyIds | running sessions listed, ended ones not |
| restore (`server/lib/restore.ts`) | plan | lists, refresh, drop, filter, resume | everything moves while it runs | no loss, no double, no resurrection |
| session start (`server/session-start.ts`) | tmux name counter | name, spawn, addEntry, trackPty | collision, crash after spawn | a row for every session |
| events hub (`server/events-hub.ts`, `lib/needs-input.ts`) | monitor, statuses, hook files, waiters, browsers | attach, classify, exit, replay, waitForStatus | reconnects, file reads against exits | no ghost status, nobody misses a change |
| daemon client (`server/daemon-client.ts`) | pending RPCs | call, close | daemon dies in a call | every call settles once |
| term bridge (`server/routes/term.ts`, `lib/client/ws-term.ts`) | attachment per browser | attach, data, exit, retry | replay against live output | no gap, no repetition, the end is told |
| JSON store (`server/lib/json-store.ts`) | one file each | serialised update, write | crash in a write, concurrent updates | updates are atomic and in order |
| session names (`server/lib/session-names.ts`, its route and `lib/client`) | the store, a copy per browser | rename, load, resync, events | answers and events overtake each other | the copies converge |
| workspaces (`server/lib/workspaces.ts`) | records and git worktrees | create, finish in three modes, reconcile | crash between git and record, concurrent finishes | no work destroyed, no worktree unrecorded |
| approvals (`server/lib/bridge/approval-socket.ts`, `routes/approval.ts`, `events-hub.ts`) | pending requests | ask, answer, time out, take over a stale socket | answer against deadline, several servers | only what was allowed runs |
| bridge (`server/lib/bridge/*`) | registry, waits | call, wait, peek | nested calls | the hop budget |
| scratch (`server/lib/scratch*.ts`, its route) | shells and their owners | open, sweep, close | unlocked read and write | no shell without owner |
| memory, previews, update, git, teams, marketplace, providers, transcripts | caches, proxies | requests | staleness | mostly parsing and formatting |
| browser client and user interface (`lib/client`, `app`, `components`) | tabs, panes, sockets | reconnect, layout | reconnect during replay | tabs match sessions |

`PROJECT.json` lists the same components with their status, and under
"hazards" every place found so far where something can go wrong that a test
would hardly reach, with the properties that watch it or the reason why none
does.

## 2. The modules

| module | models | code |
|---|---|---|
| `HolderTier` | holder processes, daemons as their clients, the connections between them | holder.js, pty-manager.js, the life of index.js |
| `EnsureDaemon` | launchers, the spawn lock, the start and end of daemons | ensure.js, bin/seshmux.js, index.js |
| `LedgerRestore` | the ledger, its writers, and runReconcile, over a daemon abstracted to what it lists | live-ledger.ts, ledger-binding.ts, restore.ts, session-start.ts, events-hub.ts |
| `TermStream`, refines `Terminal` | output and exit of a PTY on the way to a pane | holder.js, pty-manager.js, index.js, daemon-client.ts, term.ts, ws-term.ts |
| `EventsHub` | monitor connection, statuses, browsers, waiters | events-hub.ts, needs-input.ts, status-hooks.ts |
| `Workspaces` | worktrees, records, requests, git | workspaces.ts and its route |
| `JsonStore`, refines `AtomicStore` | one file under updates and crashes | json-store.ts |
| `SessionNames`, over `AtomicStore` | names in the store and in browsers | session-names.ts three times, page.tsx |
| `Approvals`, refines `Approval` | calls, servers, browsers and their answers | approval-socket.ts, socket-listen.ts, mcp.ts, approval.ts, events-hub.ts, page.tsx |
| `MC...` | symmetry and finite constants for TLC | the module it extends |
| `...Proofs` | theorems (`SessionNamesProofs` has those of `JsonStore` too) | the modules it extends |

How they fit together: `HolderTier` says which sessions a daemon lists, and
`LedgerRestore` takes from it that the list of a daemon which has finished its
adoption is what runs (`adopting`).  `EnsureDaemon` says when there may be a
second daemon, and `HolderTier` is checked with one (`Overlap = FALSE`) and
with two.  `JsonStore` implements the atomic file that `SessionNames`
instantiates and that `LedgerRestore` has as one variable.  workspaces.json is
read and written by workspaces.ts itself, not through json-store.ts:
`Workspaces` has its reads that fail as empty, and its writes that fail.

Every handler is one action, because Node runs it to its end; every `await`
is a border between two actions.  Connections are FIFO.  A definition whose
comment says "mutant" or "a slip" is a plausible bug in the definition beside
it; no model uses it.  Every property of a passing run is violated when that
definition is replaced by its mutant: the property depends on that piece of
code.

## 3. HolderTier

An element of `Holder` is one holder process, of `Daemon` one seshmuxd
process, of `Entry` one `HolderClient` with the `_ptys` entry built on it
(adoption makes the client before the entry: state "adopting").  `Accept` is
the `createServer` callback, `PtyExit` is `proc.onExit`, `RecvKill` and
`RecvClose` the two ends of the socket's life in the holder; `DialOk`,
`DialRefused`, `RecvReady`, `RecvBusy`, `RecvExit`, `RecvEof` the handlers of
`HolderClient`; `SkipHolder`, `SweepLeftovers`, `DialSurvivor` one turn of the
loop of `rehydrateHolders`, which awaits one client at a time.

A Unix socket keeps order and carries on each connection at most one frame of
each kind, always in one order, so the bytes in flight are the sets `up` and
`down`, read in that order; frames written before an end of file are read
before it.  Data frames are the subject of `TermStream`.  Whether a pid is
dead is read with `kill(pid,0)`; that a dead holder's pid names another process
is the second alternative of `DialSurvivor`, which does not ask.  `Shutdown` has
the check for live sessions and the `killAll` that follows it with setImmediate
(index.js:205-221) in one step.  `RehydrateEnds` says that each answer, refusal
and hang-up lets the adoption go on; a holder that accepts and never answers is
assumed away by the fairness of `Accept`, and is described in section 11.  Not
in the model: a json read half-written, Windows pipes, a `listen` that fails after it
succeeded once.  The holder's timers fire at any time after they are armed.
`target`, `born` and `wanted` are history.

`Overlap`, `StartDuringBoot` and `PromptClose` say what else may go on when a
daemon starts.  The code does not enforce them: ensureDaemon makes overlap
rare, not impossible; a daemon may die just after a spawn, before the holder
has written its json; and a holder may be slower to see the close of its old
client than the next daemon is to dial.  With `PromptClose` nobody is told
busy, so `SurvivorsAdopted` is about leftovers between survivors; busy holders
are in the second run.  Claims that need a restriction are
checked and proved with it; section 11 says what happens without.

| run | question | bounds |
|---|---|---|
| `HolderTier` | ids, files, kills, adoption | 2 daemons in turn, 2 holders, 3 clients, ids 1..2, no redial; no overlap, every holder has its json and has seen its old client close when a daemon starts |
| `HolderTierLive` | one client, truthful states, liveness | 2 daemons that may overlap, 1 holder, 2 clients, 1 redial of each kind, no restriction |

Two holders and two daemons are enough for ids to collide, for one holder's
leftovers to be in the way of another and for a second daemon to adopt; three
clients let each daemon have one for a holder and one more.  `TypeOK` apart,
the properties of the first run relate files to processes, those of the second
what a daemon believes to what the holder knows.

*Fairness*: weak, for everything a live process does when a socket is readable
or a timer is due, for the redials, the adoption loop, and the end of a PTY
whose group was sent SIGHUP (SIGKILL follows after a second).  None for
requests, crashes, the exit of an agent, or a start of a daemon.

## 4. EnsureDaemon

`pc` is where a launcher is in `ensureDaemon`.  "dial" and "poll" are awaits;
"facts" to "spawn" is the code between two awaits, split at every system call.
A socket file on which nobody answers and a missing one are told apart by
`sock`, as `classify` does.  `foreign` is the fact that the pid in the pidfile
was given to another process.  `Restart` is `restartDaemon` of the supervisor.
`Begin` is any caller: start, heartbeat, `--restart-daemon`, upgrade.  `Close`
and `Closed` are the shutdown RPC and the callback of `server.close`, which
waits for the last connection and then unlinks both paths.

`may` is chosen in `Init` from `Conditions` and never changes.  "gap": another
process may move between two system calls of one turn of a launcher.  "slow": a
start takes longer than a launcher waits for it, or a lock becomes old while
its launcher is at work (40 polls of 1.75 s outlast the 60 s; or the machine is
suspended).  "shutdown": the RPC is used.  "reuse": the pid of a dead daemon is
given to a process that is none.  What is claimed holds under all of them, and
the exceptions the code has are part of the properties:

- `NoLateDuplicate`: while a daemon serves from its own socket and pidfile,
  nobody decides to launch another.  Every launch that is under way, and every
  other daemon that is still there, comes of a decision taken before that
  pidfile was written.  This is what the code can promise: two daemons may be
  started by two such decisions, and the files of the one that serves may go by
  the hand of the other, or of a late `close`, but not by a later launch.
- `OneLauncher`: one launcher at a time between mkdir and rmdir, unless a lock
  was broken under a launcher at work (`usurped`), which takes "gap" or "slow".
- `Recovers`, where `may` is empty: there is again and again a daemon that
  answers.  With "reuse" everybody may wait for a stranger (section 11).

| run | question | bounds |
|---|---|---|
| `EnsureDaemon` | no late duplicate, one launcher with the lock, recovery | 2 launchers, 2 processes reused as daemons, 3 deaths, 2 dials in each loop; no condition, "slow" with the last two, "gap" with the last two |

Three deaths are enough for a launcher to die with the lock, the daemon it
spawned to die after it served and the next one to die while it starts.  The
retry bound lets a launcher give up, wait and come back.  "gap" and "slow" are
apart because each alone lets two launchers work at once.

*Fairness*: strong for launchers and daemons, because without gaps a process
that waits its turn is disabled again and again; the heartbeat of the
supervisor (every 30 s) justifies that `Begin` happens for ever.  Nothing says
that a dial succeeds whenever it could.

## 5. LedgerRestore

A run (an element of `Run`) is one agent process and has at most one row, so
the file is the pair of functions `rowId` and `rowSid`; all changes go by
ptyId, as in the code.  The daemon is what it lists (`map`, `plive`) and what
it has still to adopt; the machine is which agents run and which holder jsons
are on disk.  Each step of `runReconcile` between two awaits is an action:
`Read`, `List1`, `List2` (with `planReconcile`), `RefreshOne`, `DropDead`,
`FilterOne`, `RestoreSpawn`, `RestoreAdd`, `RestoreDrop`.  Everything else
(users, exits, crashes of the daemon, the server or the machine) may happen in
between.  A row's conversation stands for provider and sessionId.  What the
file system and the provider say of a candidate is chosen freely.

`tier` is chosen in `Init`: sessions live in holders; in holders of which some
are wedged when a daemon looks for them; or in tmux, where a daemon that
starts hands out new ptyIds.  In the holder tiers a daemon goes on from the
highest id that has a json on disk (`FirstFree`), so ids are handed out again
when the last sessions ended, and from 1 after a reboot at which the holders
had the time to remove their jsons (`Reboot(removed)`).

Users start and resume sessions at any time, also while a restore runs
(server/index.ts:109 does not wait for it).  The server may stop at any time,
also between a spawn and its addEntry, of a user or of the restore; an addEntry
may fail, and the daemon may die before it has answered the spawn (`AddFails`).
Rows are bound to conversations as `pickBindTarget` does, rightly or not.

`may` is chosen in `Init` from `Conditions`: "slow", adoption outlasts the
settle time of the restore; "swap", a daemon is replaced while a restore goes
on (wedged holders), or at all under a server (tmux).  Without "swap" a daemon
whose holders are not wedged may be replaced at any time all the same: what it
lists is then soon what runs.

What holds under all of this, in the holder tiers:

- `ResumedIsOver`: a row that a restore resumes is that of a session that has
  ended.
- `RowsOutliveExits`: the row of a session that runs is taken by nothing but a
  restore, though rows go by ptyId and ptyIds start over.
- `EndedIsUnlisted`: a session whose exit the hub has handled has no row.
- `EndedStaysEnded`, where `may` is empty: no restore brings such a session
  back, for the daemon still lists it, or its row is gone before the rows are
  read.

What does not hold is in section 11: a restore may take the row of a session
that runs, and two sessions may write one conversation.  A dead entry is swept
(ten minutes) only when its exit event has been read and no restore is between
its lists.  Not modelled: two repositories, tiers mixed on one machine, a tmux
name chosen while adoption goes on, tmux revival.

| run | question | bounds |
|---|---|---|
| `LedgerRestore` | resumed is over, rows outlive exits, ended is unlisted and stays ended | all three tiers; 2 runs, and a third if a restore has resumed one; 3 ptyIds, 2 conversations, 1 daemon crash (2 with conditions), 1 reboot, 2 server starts, 1 restore per start; conditions with wedged holders only |

Two runs let one session be resumed while the other one starts, ends or is
bound, and a third one lets a restored session compete; a reboot and two server
starts are what a restore is about, and the second crash lets a daemon be
replaced while it adopts.  The conditions are checked with wedged holders,
whose behaviours contain those of holders that are not.  The bounds end the
behaviours, so deadlock is not checked; all properties are safety properties.

## 6. TermStream

`wire`, the requests and answers of a bridge (`reqs`, `conn`), its coalescing
buffer (`pending`) and its WebSocket (`ws`) are the queues between the PTY and
the pane.  A chunk is the interval of the writes it joins, so that coalescing
and truncation of rings are what they are and a gap or a repetition shows.
`Receive` is what a bridge does with one message of its daemon connection,
`Flush` the tick at which `pending` goes out, `Handle` the daemon on a request,
with the snapshot of its ring and the subscription in one step as in index.js.
A daemon that dies is started again; its connections are cut, and the pane
dials anew.  The next daemon listens before it knows of any PTY (index.js:260,
entry "later") and then adopts the holder, with a new ring (`Adopts`).

`Terminal` is what a pane may show whatever lies between: a run of the output
without gap, repetition or reordering per connection, and the end only after
the last output.  It has one exception, and names it: a pane that asks while
nobody knows of the PTY (`known`) is in `doubt`; it shows nothing over that
connection and may be told the end.  That is a bridge that attaches to a daemon
which has yet to adopt (`early`).  `IsTerminal` is the refinement, `EndIsTold`
the liveness; it does not say that the end is told only when it has come.

| run | question | bounds |
|---|---|---|
| `TermStream` | refinement of `Terminal`; the pane learns of the end | 4 writes, rings of 2, 2 daemon deaths, 3 connections of the pane |

Four writes fill a ring of two twice, so that a replay starts in the middle of
the output; three connections let the pane come back after each death.  A
connection is only cut while a spare one is left: the bound stands for a pane
that retries without end.  *Fairness*: weak for queues that have something in
them, for the restart of the daemon (heartbeat) and for the pane's retry.

## 7. EventsHub

Everything the hub awaits is an action: the dial (`DialOk`), the RPCs of
`attachPty` and `reattachAll` (`job`), the read of a hook file (`reads`, which
carries what was read from the state before).  `monitor` counts wired
connections and `dialing` dials in flight; `subscribed` is whether the daemon
has seen an attach, `exits` what it has sent.  The classification is the state
machine of needs-input.ts over four kinds of chunk and silence (`prompted`,
`quiet`), overridden by the hook file while it is fresh.  Continuations of
awaits that a drop rejects run before anything else (`Settling`), as microtasks
do.  `gone` is history: the PTYs whose exit the hub has handled.

| run | question | bounds |
|---|---|---|
| `EventsHub` | one monitor, waiters, views, no ghost | 1 session, 2 connections in turn, 1 browser, 1 waiter, 1 chunk, 1 hook write, 1 read at a time; dials may fail; close() |
| `EventsHubLive` | watched, settled, faded | the same without browser and waiter; dials succeed |

One session is enough because the hub keeps its state per session, and what
couples sessions (the dial, the list) is shared by `trackPty` and
`reattachAll`, which race for one session too.  `DeadStaysDead` and `DeadFades`
are stated for the first connection: after a drop the hub forgets what it has
handled (section 11).  *Fairness*: weak, of timers, file reads, answers of the
daemon and `trackPty` after a spawn; drops, failing dials, output, browsers and
close() are free not to happen.

## 8. Workspaces

A workspace is its slug: directory, branch and record follow from it.  One git
command is one step, and between any two steps of a request another request,
an agent, a person or a crash may come: nobody pauses.  A worktree holds one
uncommitted file of each kind that `git status` tells apart, with a version of
its content, so that a file which was copied and then edited is not the same.
`job` carries what a request has read: the version of each file at its status
(`seen`), and whether a merge was open (`mid`).  A git command that fails ends
the request (`GitFails`), but for the check of MERGE_HEAD, which reads it as
"no merge" (workspaces.ts:564-566), the merge, which goes on to the abort, and
the abort, whose failure is ignored.

`faulty` is chosen in `Init`.  Where it is true, workspaces.json may be
unreadable, which reads as empty (93-101) and costs all records at the next
update (`Readable`); its write may fail; and reconcile may fail, which the
server ignores (server/index.ts:264), or pass over a worktree that it cannot
ask git about or whose branch is not agent/ (`Boot`).

`destroyed` and `unaware` are history: the files that a finish has deleted
though its request did not give them up, and whether its status had seen them
like that; and the finishes that are past their check and did not see the merge
a person has open.  By them the properties state what the code can promise:

- `NothingDestroyed`: what the status found is saved or given up; only what was
  written after it is lost.
- `Recorded`, unless `faulty`: a worktree has its record while the server serves.
- `TheirMergeStays`: a person's merge is ended by nobody else but an unaware
  finish.

| run | question | bounds |
|---|---|---|
| `Workspaces` | nothing destroyed, worktrees recorded, a person's merge stays | 1 slug, 2 requests, 2 file versions, 2 crashes |
| `WorkspacesMerge` | a merge destroys nothing: violated | the same |

Two requests on one slug share all that two requests can share: the worktree,
the branch, the record, the file, the parent repository and the queue of
creates; on two slugs they share only the last three.  The theorems are for any
number of both.  Two versions tell an old copy from a new one.  Two crashes let
the server die again after its boot has repaired something.  Partial removals
by git, and leftovers of an earlier keep that a second one overwrites, are not
modelled.

## 9. JsonStore and SessionNames

`JsonStore` follows `update`, `write` and `run`: a chain of calls (`calls`),
each reading (`raw`), calling back (`next`), writing a temporary file and
renaming it, with retries.  The temporary file itself has a random name and no
reader, and may stay behind (json-store.ts:90): it is no part of the state.  A callback may throw, a write may fail, a
rename may be refused for a moment or for good, and the process may die at any
point.  `AtomicStore` is what callers and readers see; `IsAtomic` maps its
value to the parsed file.  The run has 3 callers on a file that holds a set,
with updates, removals and blind writes, and the three rename attempts.

`SessionNames` instantiates `AtomicStore` for the server's file and adds the
route, the events on each browser's socket, and the browser's copy with its
optimistic rename, roll-back, load with a list of changed keys, resync on
reconnect and retry chain.  `Converges` says that when nothing is under way
every browser shows what the server keeps.  Its exceptions are the code's own:
`contested` marks a key two renames of which overlapped (of two browsers, or of
one that renames again before its first answer) or one of which failed, `missed` a browser that fell back on an older load (section 11).  The
run has 2 browsers (one of them just opened), 1 name, 2 renames, 1 fault (a
crash, a broken socket or a failing request) and 2 tries of a load.

## 10. Approvals

A server, its port and its pages are one element of `Server`, whatever process
serves there.  `TryListen`, `ProbeAlive` and `UnlinkSocket` are the awaits of
`listenWithStaleRecovery`; `Ask` to `RunEnds` the calling bridge process;
`RequestApproval`, `ResolveApproval`, `TimesOut` the listener and the hub;
`ShowToast`, `Click` and the posts the browser.  A deadline fires at any time.

`Approval` is what a person may rely on: a call runs only if somebody allowed
it while it was waiting; one answer is taken; nobody is told that an answer
was taken that was not; calls nest no deeper than the budget.  An answer that
is in the caller's socket has decided its fate; that is the refinement
mapping.  The run has 2 servers, 2 calls that may nest, 2 browsers, budget 1
and 3 starts of servers: enough for a server to die, another one to clear its
socket, and the first to come back while a toast of its old life is open.

## 11. Where the code departs from what it says

`WorkspacesMerge` is the one run whose property is violated: a merge decides
from one `git status` what to carry away and, once it has landed, removes the
worktree with `--force`; a tracked file that the agent edits after the status is
deleted (workspaces.ts:588, against workspaces.ts:537).  The run's trace is that
of a merge.

The other departures were met while modelling.  Those of the first table show
when a constant is set; those of the second are behaviours that the runs
contain, as exceptions of the properties or outside of what they claim; those of
the third are described only.

| change | property | what happens |
|---|---|---|
| `HolderTier`: `StartDuringBoot = TRUE` | `ServingMeansReachable` | a daemon started while a holder has no json hands out its ptyId again (pty-manager.js:402, 437) |
| `HolderTier`: `PromptClose = FALSE` | `SurvivorsAdopted` | a holder that has not seen its dead client close says busy, and `rehydrateHolders` never comes back to it (pty-manager.js:883) |
| `JsonStore`: `ReadErrors = TRUE` | `IsAtomic` | any error of a read reads as empty (json-store.ts:39), and the next update writes the loss to disk |

| where | what happens |
|---|---|
| `EnsureDaemon`, "gap" or "slow" | "a duplicate daemon cannot bind the socket" (bin/seshmux.js:238): it can, for `startDaemon` unlinks the path first (index.js:65); two daemons listen when two launchers decided before the first one's pidfile |
| "slow" | two launchers hold the spawn lock: 40 polls of 1.75 s are longer than LOCK_STALE_MS (ensure.js:274, 303) |
| "shutdown" | the late callback of `close` unlinks the files of the successor (index.js:244-246); while its last connection stays open its pid is alive, so if the successor dies before its own pidfile everybody waits |
| "reuse" | `pidAlive` is true of a stranger, so every launcher waits for good; `restartDaemon` signals it (bin/seshmux.js:35, 43) |
| `LedgerRestore`, an ordinary reboot | the holders are told to end and remove their jsons, ids start at 1, a resumed session may get the ptyId of its old row, and the removal of that row takes the new one (restore.ts:231): the session runs without a row |
| a user during the restore | server/index.ts:109 does not wait for the restore, so a user and the restore may resume the same session |
| a crash between spawn and addEntry | the old row is still there, and the next start resumes the conversation again, beside the first (restore.ts:229-231); a session of a user has no row (session-start.ts:160) |
| crossed binding | a session that writes before its addEntry binds another one's unbound row (live-ledger.ts:93); the crossed ids make a later restore resume a conversation that runs |
| tier "wedged" | "a wedged holder still owns this PTY; don't double-spawn, keep the entry" (restore.ts:194-202): the entry is kept, but another row of the conversation is resumed; an unbound row, or one whose cwd is gone, is dropped before `holderAlive` is asked (restore.ts:165-202) |
| "slow" | an adoption longer than the settle time costs an unbound session its row (restore.ts:171) |
| "slow" or "swap", `EndedStaysEnded` without its condition | a session that the lists missed is adopted, ends and is reported, and the restore still resumes it |
| an exit while the monitor is down | it is never reported; if no list shows the dead entry any more, the next restore resumes a session its user closed (events-hub.ts:388) |
| tier "tmux" | after a daemon restart the hub removes rows by ptyIds that mean other sessions (events-hub.ts:369-372) |
| `TermStream`, entry "later" | a daemon answers attach before it adopts (index.js:260-266, 293): the bridge is told "unknown ptyId" and tells its pane the exit of a PTY that lives (term.ts:343-345); the pane then stops reconnecting for good (ws-term.ts, `sawExit`) |
| `Workspaces`, after the status | what an agent writes after the status of a keep or an unforced discard is deleted as well, if git does not refuse it (workspaces.ts:519-520, 588-604) |
| an unforced discard | it deletes ignored files without a word (workspaces.ts:604), though the comment at 596 has them "fair game once forced" |
| the check of MERGE_HEAD | if it fails it reads as "no merge was open" (564-566), and a merge that a person began after it is not seen either: in both cases the abort (573-575) may end a person's merge |
| `faulty` | any error of a read reads as no records (93-101), and the next update writes the loss; a realpath or write that fails after `git worktree add` leaves a worktree without record (370-378); reconcile passes over branches outside agent/, detached heads and failing git commands (670, 679-681), drops records of a parent it cannot ask (702-717), and its failure is ignored (server/index.ts:264) |

| code | what happens |
|---|---|
| pty-manager.js:883 | `await client.ready()` has no time-out: a holder that accepts and says neither ready nor busy keeps the adoption loop, and the holders after it are not adopted (against the docstring at 844-850) |
| pty-manager.js:192, 442 | `detach` ("let go of holders WITHOUT killing them") does not stop a redial that is scheduled |
| pty-manager.js:184, 831 | a forced shutdown loses the kill queued on a client between two dials |
| ensure.js:115, bin/seshmux.js:231 | the comments say that a PTY without tmux dies with its daemon; the next daemon adopts it |
| restore.ts:145-149 | tmux rows are renamed one after the other and matched by ptyId: two rows may have one ptyId in between, and an exit removes both |
| events-hub.ts:419, 450 | after a dial that fails nobody reconnects until a session starts or the hub is told of one, although both lines say that somebody does |
| events-hub.ts:411-413 | a session that dies while it is attached a second time shows "working" for good if the connection drops then |
| events-hub.ts:388-390, 447 | a session that dies while the monitor is down keeps its status; one that the daemon adopts after `reattachAll` has listed is never attached; one unknown to a restarted daemon stays when `trackPty` attaches it |
| events-hub.ts:332, 400 | a scratch shell that is spawned and not yet recorded is attached as a session |
| term.ts | a browser that leaves before its attach is complete leaves the daemon connection open |
| ws-term.ts:15-16 | input and resizes sent before the attach are dropped by the bridge, though `send` said true |
| TerminalPane.tsx:340-345, 404-445 | backfilled history and live output are written by two callers without an order |
| routes/workspaces.ts:188 | a keep that is refused has already moved the ignored files |
| routes/workspaces.ts:155-156 | a second keep overwrites the leftovers of an earlier one of the same name |
| workspaces.ts:560-606 | a merge that landed, with a preserve that failed, is refused at every retry; a discard whose `branch -D` fails leaves a record that answers 409 until the next boot |
| session-names.ts (client) 120-123, 149-153 | a resync that falls back joins a boot chain whose GET was sent before the socket opened |
| session-names.ts (client) 23-34 | a rename before the boot load rolls back to no name if its PUT fails; with two browsers a late HTTP answer overwrites a newer event |
| socket-listen.ts:5-6 | "never steal its socket": two servers that start at once after a crash both probe a dead socket, and the slower one unlinks the live one |
| page.tsx:657-660 | one toast: a second request replaces the first, which times out; a browser that connects after the broadcast sees none |
| approval-socket.ts:53 | the caller's backstop "so the server's deny wins" is armed by another clock and may win; a caller that gives up leaves its toast and entry until the deadline |
| scratch.ts:46-50, scratch-term.ts | two requests of one owner spawn two shells; a crash between spawn and record, or an owner that exits between list and record, leaves a shell nobody owns; a record outlives a shell that ends while the monitor is down, and its ptyId may then be an agent's, which the exit of the owner or a DELETE kills (scratch.ts:186, scratch-term.ts:53) |

## 12. What is proved

For every value of the constants, under the assumptions named:

| module | theorems | assumptions |
|---|---|---|
| `HolderTierProofs` | `TypeOK`, `AttachmentInv`, `SingleAttachment`, `ExitInv`, `AliveMeansRunning`, `DeadMeansEnded` | none |
| | `IdInv`, `ServingMeansReachable`, `HangUpIsWanted` | `InTurn`: no overlap, no start during boot |
| | `SurvivorsAdopted` | `Quiet`: also `PromptClose` |
| `EnsureDaemonProofs` | `TypeOK`, `LockInv`, `OneLauncher`, `NoLateDuplicate` | none |
| `LedgerRestoreProofs` | `TypeOK`, `EndedIsUnlisted`, `ResumedIsOver`, `RowsOutliveExits`, `EndedStaysEnded` | none |
| `WorkspacesProofs` | `TypeOK`, `Recorded`, `NothingDestroyed`, `TheirMergeStays` | none |
| `TermStreamProofs` | `TypeOK`, refinement of `Terminal` | none |
| `EventsHubProofs` | `TypeOK`, `OneMonitor`, `WaiterNotMissed`, `ViewMatches`, `DeadStaysDead` | none |
| `ApprovalsProofs` | `TypeOK`, refinement of `Approval` | none |
| `SessionNamesProofs` | `TypeOK`, `Converges` | none |
| | `JSTypeOK`, `JsonStore`'s refinement of `AtomicStore` | no `ReadErrors` for the refinement |

Besides these, each proof uses the named assumption of its module on the
constants.  Where a property has an antecedent (`may`, `tier`, `faulty`) it is
part of the theorem, and sections 4, 5 and 8 say what it leaves out.  The
arguments:

*One client.*  That two clients of one holder are both greeted is excluded
only because a greeted client is `client[h]` from the moment ready is written
until it reads the end of file, also while the frame is in flight
(`AttachmentInv`).

*Exits.*  `ExitInv` relates what the holder knows of its PTY to the frames on
the way: an exit was written before the socket was closed, a client refused as
busy was never greeted, and an end of file after ready comes only when the PTY
has ended.

*Ids.*  One running daemon (`RunInv`) whose next id is above the id of every
holder that exists; the files of an id are those of the one holder that lives
under it (`FileInv`); a client that dials can reach no holder but its own
(`LinkInv`).  From these `KillInv`: a kill that can still be read by a PTY was
wanted.  With `PromptClose` nobody is ever told busy (`FreeInv`), so every
survivor whose file is not in `scan` any more has been adopted (`AdoptInv`).

*The lock.*  As long as no lock was broken under a launcher at work, whoever is
past its mkdir made the directory that is there.  Without gaps and slow starts
that directory is not old while it is held, and a launcher about to remove an
orphan found it old in this turn, so no lock is usurped (`LockInv`).

*No late duplicate.*  The property is inductive by itself.  Only the pidfile
makes a daemon healthy, and at that moment all that is decided or there is
marked as from before.  A healthy daemon has its socket and a pid that is
alive, so whoever reads the facts afterwards waits; whoever spawns had decided,
and its daemon inherits the mark.  No other step decides, starts or makes
healthy.

*The ledger.*  A row, a listed entry and an exit event name a run by the ptyId
of its holder, and a run whose exit was handled has no row nor one to come
(`HomeInv`); no two sessions that run have one id, an id that is listed, on
disk or in an exit event is that of at most one of them, and the next id is
above them all (`MachineInv`).  So an exit or a stop takes no row of a session
that runs (`RowsOutliveExits`).  A candidate passes only if `holderAlive` finds
no process for its json, and a session that runs has its json; what has ended
stays so (`OverInv`, hence `ResumedIsOver`).  For `EndedStaysEnded`: while the
restore makes its lists the daemon still lists what was reported as ended
(`HeardInv`), so a candidate either ended unreported or runs in a wedged holder
that nobody watches any more, and neither can be reported later (`UnheardInv`).

*Workspaces.*  A finish that is between the removal of the worktree and that
of the record is the only one of its name, and the name is not free
(`NamesInv`).  Every write makes a version that nobody has seen
(`VersionInv`), so a file that is as the status saw it was not written since;
and before the remove each such file that the finish has to rescue is in the
leftovers as it was seen (`SeenInv`): whatever else the remove deletes is
unseen.  A finish that is about to merge or to abort and thinks that no merge
is open, while a person has one, is in `unaware` (`MergeInv`).

*The hub.*  Every await stands at a side of the connection it can be at
(`ConnInv`): a dial is joined, an answer belongs to the connection that is up,
and a result that comes later than an exit finds the session unattached.

*The terminal.*  A message takes a reader who has seen the output up to some
write to a later one: a chunk starts right after what it has seen, and an exit
comes only when all has been printed (`Reads`); a queue of messages that fit
together is a `Run`.  Lemmas about runs, each by a witness for the positions
between the messages, cover what the code does with queues: append, join,
drop the front, coalesce, truncate.  The ring and the wire of a daemon that
has adopted are a run up to the last write, and empty before (`DaemonInv`); what a bridge may be
waiting for depends on how far its attach is (`Shape`); and from the last chunk
that the pane shows through `ws`, `pending` and `conn` to the wire there is one
run (`Chain`), unless the daemon has hung up; a bridge that attached too early
carries no output at all (`Doubtful`).  A read of the pane is then a
`Show`, a `Tell` or nothing.

*The names.*  What `Converges` says of the end, the invariant has to say of
every state, and so of all that is still under way.  The store: the requests it
has are in its queue once each, and what has landed is told before anything
else lands (`StoreInv`); so the last event of a key that is on its way to a
browser has the value, unless a later change is about to be told (`EventInv`).
The renames: if those of a key neither overlapped nor failed, all but the newest
are done, and when that one has been answered its name is the value
(`AloneInv`); so the answer that a browser takes is right, or it is among the
exceptions.  The loads: a name is right (`Right`) if it is the value as soon as
no event or answer of its key is on the way.  Number the GETs of a browser, and
let the first n be those sent before its socket opened: what a later one has
read is the value, except for keys that are quiet no more, and the keys that it
will not show are right already (`Good`).  Either one of the later GETs will
still be taken, or is to be sent by the chain (`Ahead`), or one has been: then
every name is right, and the first n are out of date (`ViewInv`).  An older GET
may be taken before a newer one, and what it brings over is not right; that this
does no harm to the newer one is because a change marks all the GETs under way,
so that the older has every mark of the newer (`MarkInv`).

*Refinements.*  Each step maps to a step of the abstract module or to none; the
invariants say what makes the mapped guard true: nothing changes the file
between the read of an update and its rename (`RunInv`), and how far a call is
tells what its connection carries (`CallInv`).

Only model-checked: all liveness (fairness and ENABLED are out of the prover's
reach), and types apart the tmux tier of `LedgerRestore`.

## 13. What is not modelled

- The tmux tier of the daemon, but for the new ids of its sessions: the revival
  of a detached session and its races with a kill come next.
- The supervisor's relaunch of the server, self-update and the upgrade of a
  daemon, except as callers of ensureDaemon.
- Scratch terminals: requests read and write three lists without a lock, and
  what the module promises does not hold once two overlap (section 11).
- Input, resizing and backpressure of a terminal; directory watchers and
  `statusExplain` of the hub; the wait socket of the bridge, which is the
  approval socket with another answer.
- Framing, escape sequences, file formats and command lines of the agents,
  transcripts, usage, search, git statistics, memory ranking, marketplace:
  functions from text to text, with nothing to interleave.
- Previews, teams, archived sessions: thin users of a proxy, of files, or of
  the JSON store.
- The user interface: rendering and layout.  It is a good half of the code, and
  no state of it outlives a reload except what SessionNames and TermStream have.

## 14. Plan

1. `TmuxTier`: client processes, revival after a detach, kill against revive,
   rehydrateTmux, name collision with `new-session -A`.
2. `Supervisor`: relaunch, upgrade and self-update over `EnsureDaemon`.
3. `Scratch`, once what it promises under overlapping requests is settled.
4. `WaitSocket` as a second user of what `Approvals` has of the socket.
5. Abstract `Session` (a session runs until it ends or is killed, whatever
   restarts) implemented by `HolderTier`, and `OneDaemon` by `EnsureDaemon`.
