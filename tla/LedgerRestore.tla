--------------------------- MODULE LedgerRestore ---------------------------
(***************************************************************************)
(* The ledger of live sessions (server/lib/live-ledger.ts), what keeps it  *)
(* true while the server runs (session-start.ts, ledger-binding.ts, the    *)
(* exit handler of events-hub.ts), and the restore that reads it when a    *)
(* server starts (server/lib/restore.ts): sessions that a reboot ended are *)
(* started again, sessions that survived or were closed are not.           *)
(*                                                                         *)
(* A run is one agent process; its number is also the order of its start.  *)
(* It has at most one row, so the ledger is a function of runs: rowId is 0 *)
(* where there is no row.  Rows are changed by ptyId, as in the code, and  *)
(* several rows may carry the same one.  The rows are in the order of the  *)
(* runs, all sessions are in one repository, and all are of one tier.      *)
(***************************************************************************)
EXTENDS Integers, FiniteSets, FiniteSetsExt

CONSTANTS
  MaxRun,       \* bound: agent processes
  MaxId,        \* bound: ptyIds
  Conv,         \* conversations (sessionIds)
  None,         \* no run, no conversation
  Tiers,        \* the kinds of machine considered, see tier
  MaxRestores,  \* restores per server start
  MaxDeaths,    \* bound: daemon crashes
  MaxReboots,   \* bound: reboots
  MaxStarts,    \* bound: server starts
  Conditions    \* the sets of conditions considered, see may

ASSUME ConstantsAssumption ==
  /\ MaxRun \in Nat \ {0} /\ MaxId \in Nat \ {0} /\ MaxRestores \in Nat
  /\ MaxDeaths \in Nat /\ MaxReboots \in Nat /\ MaxStarts \in Nat
  /\ Tiers \subseteq {"holder", "wedged", "tmux"}
  /\ Conditions \subseteq SUBSET {"slow", "swap"}
  /\ None \notin Conv /\ None \notin 1 .. MaxRun

Run == 1 .. MaxRun
Id == 1 .. MaxId

VARIABLES
  may,      \* what may happen, chosen once: "slow", rehydration outlasts the
            \* settle time of the restore; "swap", a daemon is replaced under
            \* a restore (wedged holders) or under a server (tmux)
  (* the machine *)
  tier,     \* "holder": sessions live in holders; "wedged": and a daemon may
            \* fail to adopt a holder that is alive; "tmux": they live in tmux
  rstate,   \* "unused", "running", "ended"
  conv,     \* the conversation a run writes
  name,     \* the number in its tmux name (tmux tier)
  home,     \* the ptyId its holder was started with (holder tier)
  onDisk,   \* ptyIds with a holder json
  (* the daemon *)
  up,
  nextId,   \* _nextId
  map,      \* _ptys: the run behind a ptyId
  plive,    \* and whether that entry is alive
  adopting, \* survivors that rehydration has still to visit
  (* the server *)
  srv,      \* is it up?
  mon,      \* is the monitor connection of the events hub up?
  exits,    \* exit events on it, <<ptyId, run>>
  adding,   \* the ptyId of a session that is started, but has no row yet
  counter,  \* tmuxCounters
  (* the ledger file *)
  rowId,
  rowSid,   \* sessionId of the row (of the row to come, while adding)
  (* runReconcile *)
  phase,    \* "read", "list1", "list2", "work", "add", "drop", "done"
  snapId,   \* the rows it read
  snapSid,
  liveId,   \* the alive match of a row in list1, then in the plan
  found,    \* rows with a match in list1
  refresh,  \* tmux rows whose ptyId has changed
  dead,     \* rows matched but dead
  cand,     \* candidates not yet filtered
  seen,     \* seenSessionIds
  chosen,   \* survivors of the filter that are not yet restored
  cur,      \* the row being restored and the run it became
  (* bounds and history *)
  deaths,
  reboots,
  starts,
  ended,    \* runs whose exit the server has handled, their row once written
  restored  \* rows that were resumed

machineVars == <<tier, rstate, conv, name, home, onDisk>>
daemonVars == <<up, nextId, map, plive, adopting>>
serverVars == <<srv, mon, exits, adding, counter>>
ledgerVars == <<rowId, rowSid>>
planVars == <<snapId, snapSid, liveId, found, refresh, dead, cand, seen,
              chosen, cur>>
histVars == <<deaths, reboots, starts, ended, restored>>
vars == <<may, machineVars, daemonVars, serverVars, ledgerVars, phase, planVars,
          histVars>>

TypeOK ==
  /\ may \in Conditions
  /\ tier \in Tiers
  /\ rstate \in [Run -> {"unused", "running", "ended"}]
  /\ conv \in [Run -> Conv \cup {None}]
  /\ name \in [Run -> 0 .. MaxRun] /\ home \in [Run -> Id \cup {0}]
  /\ onDisk \subseteq Id
  /\ up \in BOOLEAN /\ nextId \in 1 .. MaxId + 1
  /\ map \in [Id -> Run \cup {None}] /\ plive \in [Id -> BOOLEAN]
  /\ adopting \subseteq Run
  /\ srv \in BOOLEAN /\ mon \in BOOLEAN /\ exits \subseteq Id \X Run
  /\ adding \in [Run -> Id \cup {0}] /\ counter \in 0 .. MaxRun
  /\ rowId \in [Run -> Id \cup {0}] /\ rowSid \in [Run -> Conv \cup {None}]
  /\ phase \in {"read", "list1", "list2", "work", "add", "drop", "done"}
  /\ snapId \in [Run -> Id \cup {0}] /\ snapSid \in [Run -> Conv \cup {None}]
  /\ liveId \in [Run -> Id \cup {0}] /\ found \subseteq Run
  /\ refresh \subseteq Run /\ dead \subseteq Run /\ cand \subseteq Run
  /\ seen \subseteq Conv /\ chosen \subseteq Run
  /\ cur \in (Run \cup {None}) \X (Run \cup {None})
  /\ deaths \in 0 .. MaxDeaths /\ reboots \in 0 .. MaxReboots
  /\ starts \in 0 .. MaxStarts
  /\ ended \subseteq Run /\ restored \subseteq Run

HasTmux == tier = "tmux"

NoRun == [r \in Run |-> None]
Zero == [r \in Run |-> 0]
Nothing == [i \in Id |-> None]

NoPlan ==
  /\ snapId = Zero /\ snapSid = NoRun /\ liveId = Zero
  /\ found = {} /\ refresh = {} /\ dead = {} /\ cand = {} /\ seen = {}
  /\ chosen = {} /\ cur = <<None, None>>

ClearPlan ==
  /\ snapId' = Zero /\ snapSid' = NoRun /\ liveId' = Zero
  /\ found' = {} /\ refresh' = {} /\ dead' = {} /\ cand' = {} /\ seen' = {}
  /\ chosen' = {} /\ cur' = <<None, None>>

Init ==
  /\ may \in Conditions
  /\ tier \in Tiers
  /\ rstate = [r \in Run |-> "unused"]
  /\ conv = NoRun /\ name = Zero /\ home = Zero /\ onDisk = {}
  /\ up = FALSE /\ nextId = 1 /\ map = Nothing
  /\ plive = [i \in Id |-> FALSE] /\ adopting = {}
  /\ srv = FALSE /\ mon = FALSE /\ exits = {} /\ adding = Zero /\ counter = 0
  /\ rowId = Zero /\ rowSid = NoRun
  /\ phase = "done" /\ NoPlan
  /\ deaths = 0 /\ reboots = 0 /\ starts = 0 /\ ended = {} /\ restored = {}
-----------------------------------------------------------------------------
Running(r) == rstate[r] = "running"

(* The ptyId of a run in the daemon's list, 0 if there is none. *)
IdOf(r) == IF \E i \in Id : map[i] = r THEN Min({i \in Id : map[i] = r}) ELSE 0

-----------------------------------------------------------------------------
(* matchIn: what the daemon lists for the row of a run that has ptyId i.     *)
(* Holder rows match by ptyId, tmux rows by the name of the session; the     *)
(* first one counts.                                                         *)
Matches(r, i) ==
  {j \in Id : map[j] # None /\
                IF HasTmux THEN name[map[j]] = name[r] ELSE j = i}

AliveMatch(r, i) ==
  LET js == Matches(r, i) IN IF js # {} /\ plive[Min(js)] THEN Min(js) ELSE 0

(* live-ledger.ts: each of these is one update of the file. *)

(* removeByPtyId: every row with that ptyId goes. *)
RemoveByIdUnbound(i) ==  \* mutant: not if it can still be resumed
  LET goes(r) == rowId[r] = i /\ rowSid[r] = None IN
  /\ rowId' = [r \in Run |-> IF goes(r) THEN 0 ELSE rowId[r]]
  /\ UNCHANGED rowSid
RemoveById(i) ==
  /\ rowId' = [r \in Run |-> IF rowId[r] = i THEN 0 ELSE rowId[r]]
  /\ rowSid' = [r \in Run |-> IF rowId[r] = i THEN None ELSE rowSid[r]]

(* updateEntry: every row with that ptyId gets the new one. *)
RenameId(i, j) ==
  /\ rowId' = [r \in Run |-> IF rowId[r] = i THEN j ELSE rowId[r]]
  /\ UNCHANGED rowSid

(* addEntry; then trackPty has the monitor attach to the new session, and    *)
(* the daemon tells a late attacher of an exit it has missed.                *)
AddRow(r) ==
  LET i == adding[r]
      over == up /\ map[i] = r /\ ~plive[i]
  IN
  /\ rowId' = [rowId EXCEPT ![r] = i]
  /\ adding' = [adding EXCEPT ![r] = 0]
  /\ mon' = (mon \/ up)
  /\ exits' = IF over THEN exits \cup {<<i, r>>} ELSE exits
  /\ UNCHANGED rowSid

(* pickBindTarget: the newest row without a sessionId. *)
BindTarget == Max({r \in Run : rowId[r] # 0 /\ rowSid[r] = None})

-----------------------------------------------------------------------------
(* Sessions *)

(* nextTmuxName: past the counter, and not the name of a live session. *)
FreshName == Min({n \in 1 .. MaxRun + 1 : n > counter /\
                    \A i \in Id : map[i] # None => name[map[i]] # n})

(* startSession up to the spawn RPC: run r of conversation c gets the next *)
(* ptyId.  sid is the sessionId its row will have.                         *)
Launch(r, c, sid) ==
  /\ rstate[r] = "unused" /\ \A q \in 1 .. r - 1 : rstate[q] # "unused"
  /\ nextId <= MaxId
  /\ rstate' = [rstate EXCEPT ![r] = "running"]
  /\ conv' = [conv EXCEPT ![r] = c]
  /\ map' = [map EXCEPT ![nextId] = r]
  /\ plive' = [plive EXCEPT ![nextId] = TRUE]
  /\ nextId' = nextId + 1
  /\ adding' = [adding EXCEPT ![r] = nextId]
  /\ rowSid' = [rowSid EXCEPT ![r] = sid]
  /\ IF HasTmux
     THEN /\ adopting = {} /\ FreshName <= MaxRun
          /\ name' = [name EXCEPT ![r] = FreshName]
          /\ counter' = FreshName
          /\ UNCHANGED <<home, onDisk>>
     ELSE /\ home' = [home EXCEPT ![r] = nextId]
          /\ onDisk' = onDisk \cup {nextId}
          /\ UNCHANGED <<name, counter>>
  /\ UNCHANGED <<tier, up, adopting, srv, mon, exits, rowId>>

(* A user starts a new conversation, or resumes one that is not running,   *)
(* also while the restore is under way (server/index.ts does not wait).    *)
Start(r, c, resume) ==
  /\ srv /\ up
  /\ IF resume
     THEN /\ \E q \in Run : conv[q] = c
          /\ \A q \in Run : conv[q] = c => ~Running(q)
     ELSE \A q \in Run : conv[q] # c
  /\ Launch(r, c, IF resume THEN c ELSE None)
  /\ UNCHANGED <<phase, planVars, histVars>>

(* addEntry, once the spawn has been answered. *)
Record(r) ==
  /\ srv /\ adding[r] # 0 /\ r # cur[2]
  /\ AddRow(r)
  /\ UNCHANGED <<machineVars, daemonVars, srv, counter, phase, planVars,
                 histVars>>

(* There will be no row: the daemon dies before it has answered the spawn,   *)
(* or addEntry fails, which is logged and no more.  A restore goes on to     *)
(* drop the old row all the same.                                            *)
AddFails(r) ==
  /\ srv /\ adding[r] # 0
  /\ adding' = [adding EXCEPT ![r] = 0]
  /\ rowSid' = [rowSid EXCEPT ![r] = None]
  /\ phase' = IF phase = "add" /\ r = cur[2] THEN "drop" ELSE phase
  /\ UNCHANGED <<machineVars, daemonVars, srv, mon, exits, counter, rowId,
                 planVars, histVars>>

(* A run writes to its conversation: bindSessionFromWatch. *)
Touch(r) ==
  /\ srv /\ Running(r)
  /\ ~\E q \in Run : rowId[q] # 0 /\ rowSid[q] = conv[r]
  /\ \E q \in Run : rowId[q] # 0 /\ rowSid[q] = None
  /\ rowSid' = [rowSid EXCEPT ![BindTarget] = conv[r]]
  /\ UNCHANGED <<machineVars, daemonVars, serverVars, rowId, phase, planVars,
                 histVars>>

(* A run ends, by itself or because the user closed it.  The daemon marks   *)
(* its entry dead and tells the monitor; a holder removes its files.        *)
PtyEnds(r) ==
  /\ Running(r)
  /\ rstate' = [rstate EXCEPT ![r] = "ended"]
  /\ onDisk' = onDisk \ {home[r]}
  /\ adopting' = adopting \ {r}
  /\ IF IdOf(r) # 0
     THEN /\ plive' = [plive EXCEPT ![IdOf(r)] = FALSE]
          /\ exits' = IF mon THEN exits \cup {<<IdOf(r), r>>} ELSE exits
     ELSE UNCHANGED <<plive, exits>>
  /\ UNCHANGED <<tier, conv, name, home, up, nextId, map, srv, mon, adding,
                 counter, ledgerVars, phase, planVars, histVars>>

(* The exit handler of the events hub: the row goes, by ptyId. *)
ExitEvent(i, r) ==
  /\ srv /\ <<i, r>> \in exits
  /\ exits' = exits \ {<<i, r>>}
  /\ RemoveById(i)
  /\ ended' = IF adding[r] = 0 THEN ended \cup {r} ELSE ended
  /\ UNCHANGED <<machineVars, daemonVars, srv, mon, adding, counter, phase,
                 planVars, deaths, reboots, starts, restored>>

(* A dead entry is forgotten after DEAD_GRACE_MS: by then the server has    *)
(* written the row and read the exit event, and a restore that was under     *)
(* way has its lists.                                                        *)
SweepDead(i) ==
  /\ up /\ map[i] # None /\ ~plive[i]
  /\ <<i, map[i]>> \notin exits /\ adding[map[i]] = 0
  /\ ~(map[i] \in ended /\ snapId[map[i]] # 0)
  /\ map' = [map EXCEPT ![i] = None]
  /\ UNCHANGED <<machineVars, up, nextId, plive, adopting, serverVars,
                 ledgerVars, phase, planVars, histVars>>
-----------------------------------------------------------------------------
(* The daemon *)

(* _reserveHolderIds: past every id with a json. *)
FirstFree1 == 1  \* mutant: no id is reserved
FirstFree == Max(onDisk \cup {0}) + 1

(* It starts: ids of holder jsons are reserved, the jsons of dead holders  *)
(* swept, and rehydration goes through what survived.  What the one before  *)
(* it told the server has been read by then, and a restore that was about   *)
(* to dial has failed to.                                                   *)
DaemonStarts ==
  /\ ~up /\ exits = {} /\ phase # "list1"
  /\ (HasTmux /\ srv) \/ (tier = "wedged" /\ phase # "done") => "swap" \in may
  /\ up' = TRUE
  /\ nextId' = FirstFree
  /\ onDisk' = {i \in onDisk : \E r \in Run : Running(r) /\ home[r] = i}
  /\ adopting' = {r \in Run : Running(r)}
  /\ UNCHANGED <<tier, rstate, conv, name, home, map, plive, serverVars,
                 ledgerVars, phase, planVars, histVars>>

(* rehydrateHolders keeps the ptyId; rehydrateTmux hands out a new one. *)
Adopt(r) ==
  LET i == IF HasTmux THEN nextId ELSE home[r] IN
  /\ up /\ r \in adopting /\ i <= MaxId
  /\ adopting' = adopting \ {r}
  /\ map' = [map EXCEPT ![i] = r]
  /\ plive' = [plive EXCEPT ![i] = TRUE]
  /\ nextId' = IF i >= nextId THEN i + 1 ELSE nextId
  /\ UNCHANGED <<machineVars, up, serverVars, ledgerVars, phase, planVars,
                 histVars>>

(* A holder that is wedged, or busy with another client, is left alone. *)
AdoptFails(r) ==
  /\ tier = "wedged" /\ up /\ r \in adopting
  /\ adopting' = adopting \ {r}
  /\ UNCHANGED <<machineVars, up, nextId, map, plive, serverVars, ledgerVars,
                 phase, planVars, histVars>>

(* It dies: sessions survive, the restore's connection does not. *)
DaemonGone ==
  /\ up' = FALSE /\ nextId' = 1 /\ map' = Nothing
  /\ plive' = [i \in Id |-> FALSE] /\ adopting' = {}

DaemonDies ==
  /\ up /\ deaths < MaxDeaths
  /\ deaths' = deaths + 1
  /\ DaemonGone
  /\ mon' = FALSE
  /\ phase' = IF phase = "list2" THEN "done" ELSE phase
  /\ UNCHANGED <<machineVars, srv, exits, adding, counter, ledgerVars,
                 planVars, reboots, starts, ended, restored>>

-----------------------------------------------------------------------------
(* The server *)

ServerStarts ==
  /\ ~srv /\ up /\ starts < MaxStarts
  /\ starts' = starts + 1
  /\ srv' = TRUE /\ counter' = 0
  /\ phase' = "read"
  /\ UNCHANGED <<machineVars, daemonVars, mon, exits, adding, ledgerVars,
                 planVars, deaths, reboots, ended, restored>>

(* What a server has in memory goes with it. *)
ServerGone ==
  /\ srv' = FALSE /\ mon' = FALSE /\ exits' = {} /\ adding' = Zero
  /\ counter' = 0 /\ phase' = "done" /\ ClearPlan

(* It stops, also between a spawn and its addEntry.  If that is orderly and *)
(* the daemon answers in time, rows of entries the daemon lists as dead go   *)
(* first (syncLedgerAtShutdown).                                            *)
ServerStops(orderly) ==
  LET goneRow(q) == /\ rowId[q] # 0 /\ Matches(q, rowId[q]) # {}
                    /\ AliveMatch(q, rowId[q]) = 0
      drop(r) == orderly /\ \E q \in Run : goneRow(q) /\ rowId[q] = rowId[r]
  IN
  /\ srv /\ (orderly => up)
  /\ rowId' = [r \in Run |-> IF drop(r) THEN 0 ELSE rowId[r]]
  /\ rowSid' = [r \in Run |->
                  IF drop(r) \/ rowId[r] = 0 THEN None ELSE rowSid[r]]
  /\ ServerGone
  /\ UNCHANGED <<machineVars, daemonVars, histVars>>

(* ensureMonitor; events of the old connection have all been read. *)
MonitorConnects ==
  /\ srv /\ up /\ ~mon /\ exits = {}
  /\ mon' = TRUE
  /\ UNCHANGED <<machineVars, daemonVars, srv, exits, adding, counter,
                 ledgerVars, phase, planVars, histVars>>

(* The machine reboots: every process ends.  Holder jsons stay, unless the *)
(* holder was asked to end and had the time to remove its own.             *)
Reboot(removed) ==
  /\ reboots < MaxReboots
  /\ reboots' = reboots + 1
  /\ removed \subseteq onDisk
  /\ rstate' = [r \in Run |-> IF Running(r) THEN "ended" ELSE rstate[r]]
  /\ onDisk' = onDisk \ removed
  /\ rowSid' = [r \in Run |-> IF rowId[r] = 0 THEN None ELSE rowSid[r]]
  /\ DaemonGone
  /\ ServerGone
  /\ UNCHANGED <<tier, conv, name, home, rowId, deaths, starts, ended, restored>>
-----------------------------------------------------------------------------
(* runReconcile *)

(* readEntries. *)
Read ==
  /\ phase = "read"
  /\ snapId' = rowId
  /\ snapSid' = [r \in Run |-> IF rowId[r] = 0 THEN None ELSE rowSid[r]]
  /\ phase' = IF rowId = Zero THEN "done" ELSE "list1"
  /\ UNCHANGED <<machineVars, daemonVars, serverVars, ledgerVars, liveId,
                 found, refresh, dead, cand, seen, chosen, cur, histVars>>

Rows == {r \in Run : snapId[r] # 0}
Matched == {r \in Rows : Matches(r, snapId[r]) # {}}
(* The dial and the first list. *)
List1 ==
  /\ phase = "list1"
  /\ IF up
     THEN /\ liveId' = [r \in Run |->
                          IF r \in Rows THEN AliveMatch(r, snapId[r]) ELSE 0]
          /\ found' = Matched
          /\ phase' = "list2"
     ELSE /\ phase' = "done"
          /\ UNCHANGED <<liveId, found>>
  /\ UNCHANGED <<machineVars, daemonVars, serverVars, ledgerVars, snapId,
                 snapSid, refresh, dead, cand, seen, chosen, cur, histVars>>

(* The second list, settleMs later, and planReconcile.  A row is alive if   *)
(* either list says so, and the second one is the fresher.                  *)
Known == found \cup Matched

AliveId(r) ==
  LET j == AliveMatch(r, snapId[r]) IN IF j # 0 THEN j ELSE liveId[r]

DeadAsLost == Rows \ {r \in Known : AliveId(r) # 0}  \* mutant: dead is lost
Lost == Rows \ Known

SeenUnfiltered(keep) == {snapSid[r] : r \in keep}  \* mutant: no sessionId, too
SeenAlready(keep) == {snapSid[r] : r \in keep} \ {None}

List2 ==
  LET keep == {r \in Known : AliveId(r) # 0} IN
  /\ phase = "list2" /\ up /\ ("slow" \in may \/ adopting = {})
  /\ liveId' = [r \in Run |-> IF r \in keep THEN AliveId(r) ELSE 0]
  /\ refresh' = {r \in keep : HasTmux /\ AliveId(r) # snapId[r]}
  /\ dead' = Rows \ (keep \cup Lost)
  /\ cand' = Lost
  /\ seen' = SeenAlready(keep)
  /\ found' = {}
  /\ phase' = "work"
  /\ UNCHANGED <<machineVars, daemonVars, serverVars, ledgerVars, snapId,
                 snapSid, chosen, cur, histVars>>

RefreshOne ==
  LET r == Min(refresh) IN
  /\ phase = "work" /\ refresh # {}
  /\ RenameId(snapId[r], liveId[r])
  /\ refresh' = refresh \ {r}
  /\ UNCHANGED <<machineVars, daemonVars, serverVars, phase, snapId, snapSid,
                 liveId, found, dead, cand, seen, chosen, cur, histVars>>

DropDead ==
  LET r == Min(dead) IN
  /\ phase = "work" /\ refresh = {} /\ dead # {}
  /\ RemoveById(snapId[r])
  /\ dead' = dead \ {r}
  /\ UNCHANGED <<machineVars, daemonVars, serverVars, phase, snapId, snapSid,
                 liveId, found, refresh, cand, seen, chosen, cur, histVars>>

(* holderAlive: the json is there and the pid in it is that of a process. *)
HolderAliveNever(i) == FALSE  \* mutant: nobody asks
HolderAlive(i) == i \in onDisk /\ \E q \in Run : Running(q) /\ home[q] = i

(* The cap: the newest go first, the others wait for the next start. *)
Newest(S) == {r \in S : Cardinality({q \in S : q > r}) < MaxRestores}

(* One candidate.  cwd tells what the file system says of its directory,   *)
(* sound whether the provider can resume the session, and recently enough. *)
FilterOne(cwd, sound) ==
  LET r == Min(cand)
      sid == snapSid[r]
      judged == sid \notin seen /\ cwd = "ok" /\ ~HolderAlive(snapId[r])
      drop == \/ sid = None
              \/ sid \notin seen /\ cwd = "gone"
              \/ judged /\ ~sound
      take == sid # None /\ judged /\ sound
  IN
  /\ phase = "work" /\ refresh = {} /\ dead = {} /\ cand # {}
  /\ cand' = cand \ {r}
  /\ IF drop THEN RemoveById(snapId[r]) ELSE UNCHANGED ledgerVars
  /\ IF take
     THEN seen' = seen \cup {sid} /\ chosen' = Newest(chosen \cup {r})
     ELSE UNCHANGED <<seen, chosen>>
  /\ UNCHANGED <<machineVars, daemonVars, serverVars, phase, snapId, snapSid,
                 liveId, found, refresh, dead, cur, histVars>>

(* The survivors are resumed one after the other, newest first: startSession *)
(* up to the spawn; its addEntry; then the old row goes, by its old ptyId.   *)
(* A spawn that fails costs the row.                                         *)
Filtered == phase = "work" /\ refresh = {} /\ dead = {} /\ cand = {}

RestoreSpawn(n) ==
  LET r == Max(chosen) IN
  /\ Filtered /\ chosen # {} /\ up
  /\ Launch(n, snapSid[r], snapSid[r])
  /\ cur' = <<r, n>>
  /\ restored' = restored \cup {r}
  /\ phase' = "add"
  /\ UNCHANGED <<snapId, snapSid, liveId, found, refresh, dead, cand, seen,
                 chosen, deaths, reboots, starts, ended>>

SpawnFails ==
  LET r == Max(chosen) IN
  /\ Filtered /\ chosen # {} /\ ~up
  /\ RemoveById(snapId[r])
  /\ chosen' = chosen \ {r}
  /\ UNCHANGED <<machineVars, daemonVars, serverVars, phase, snapId, snapSid,
                 liveId, found, refresh, dead, cand, seen, cur, histVars>>

RestoreAdd ==
  /\ phase = "add"
  /\ AddRow(cur[2])
  /\ phase' = "drop"
  /\ UNCHANGED <<machineVars, daemonVars, srv, counter, planVars, histVars>>

OldId == snapId[cur[1]]

RestoreDrop ==
  /\ phase = "drop"
  /\ RemoveById(OldId)
  /\ chosen' = chosen \ {cur[1]}
  /\ cur' = <<None, None>>
  /\ phase' = "work"
  /\ UNCHANGED <<machineVars, daemonVars, serverVars, snapId, snapSid,
                 liveId, found, refresh, dead, cand, seen, histVars>>

RestoreDone ==
  /\ Filtered /\ chosen = {}
  /\ phase' = "done"
  /\ snapId' = Zero /\ snapSid' = NoRun /\ liveId' = Zero /\ seen' = {}
  /\ UNCHANGED <<machineVars, daemonVars, serverVars, ledgerVars, found,
                 refresh, dead, cand, chosen, cur, histVars>>

Step ==
  \/ \E r \in Run, c \in Conv, resume \in BOOLEAN : Start(r, c, resume)
  \/ \E r \in Run : Record(r) \/ AddFails(r) \/ Touch(r) \/ PtyEnds(r)
  \/ \E i \in Id, r \in Run : ExitEvent(i, r)
  \/ \E i \in Id : SweepDead(i)
  \/ \E r \in Run : Adopt(r) \/ AdoptFails(r)
  \/ DaemonStarts \/ DaemonDies
  \/ ServerStarts \/ MonitorConnects
  \/ \E orderly \in BOOLEAN : ServerStops(orderly)
  \/ \E removed \in SUBSET Id : Reboot(removed)
  \/ Read \/ List1 \/ List2 \/ RefreshOne \/ DropDead
  \/ \E cwd \in {"ok", "gone", "unknown"}, sound \in BOOLEAN :
       FilterOne(cwd, sound)
  \/ \E n \in Run : RestoreSpawn(n)
  \/ SpawnFails \/ RestoreAdd \/ RestoreDrop \/ RestoreDone

Next == Step /\ UNCHANGED may

Spec == Init /\ [][Next]_vars
-----------------------------------------------------------------------------
(* "a wedged holder still owns this PTY; don't double-spawn" (restore.ts:   *)
(* 194): a row that the restore resumes is that of a session which has      *)
(* ended, whoever else starts, dies, is slow or is replaced meanwhile, and  *)
(* however the ptyIds are handed out again.                                 *)
ResumedIsOver ==
  tier # "tmux" => \A r \in restored : ~Running(r)

(* Rows are removed by ptyId, and after a reboot or a daemon that died the  *)
(* ptyIds start over: yet no exit event, no stop of a server and no start of *)
(* a session takes the row of a session that runs.  Only the removals of the *)
(* restore can.                                                            *)
ByRestore == srv' /\ <<dead, cand, chosen>>' # <<dead, cand, chosen>>

RowsOutliveExits ==
  [][tier # "tmux" =>
       \A r \in Run : Running(r) /\ rowId[r] # 0 /\ rowId'[r] = 0 => ByRestore
    ]_vars

(* The row of a session whose exit the server has been told of is gone and  *)
(* stays gone: nothing is left that could bring the session back.           *)
EndedIsUnlisted == tier # "tmux" => \A r \in ended : rowId[r] = 0

(* The restore resumes no session whose end the server was told of, if the  *)
(* daemon was done with its adoption by the second list and stayed until    *)
(* the end of the restore.                                                  *)
EndedStaysEnded == may = {} /\ tier # "tmux" => restored \cap ended = {}
=============================================================================
