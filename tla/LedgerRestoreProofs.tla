------------------------ MODULE LedgerRestoreProofs ------------------------
(* Theorems about the ledger and its restore, for any number of agent      *)
(* processes, ptyIds, conversations, crashes, reboots and server starts.   *)
EXTENDS LedgerRestore, WellFoundedInduction, TLAPS

(* While it is resumed, a row has a new run, and that one a row to come.   *)
CurInv ==
  /\ phase \in {"add", "drop"} => cur[1] \in Run /\ cur[2] \in Run
  /\ phase = "add" => adding[cur[2]] # 0

(* A row, a listed entry and an exit event name a run by the ptyId of its  *)
(* holder, whoever lists it; and a run whose exit was handled has no row,  *)
(* nor one to come.                                                        *)
HomeOf(r) ==
  /\ rstate[r] = "unused" => home[r] = 0 /\ conv[r] = None /\ r \notin ended
  /\ rstate[r] # "unused" => home[r] # 0
  /\ rowId[r] \in {0, home[r]} /\ adding[r] \in {0, home[r]}
  /\ snapId[r] \in {0, home[r]}
  /\ adding[r] # 0 => rowId[r] = 0 /\ snapId[r] = 0 /\ r \notin ended
  /\ r \in ended => rowId[r] = 0
  /\ r \in adopting => home[r] # 0
  /\ \A i \in Id : map[i] = r \/ <<i, r>> \in exits => i = home[r]

HomeInv == ~HasTmux => refresh = {} /\ \A r \in Run : HomeOf(r)

(* What a daemon lists, and the jsons on disk, against what runs.  Only    *)
(* where no holder is wedged does the daemon list, or is it to adopt, all.  *)
MachineInv ==
  /\ \A r, q \in Run : Running(r) /\ Running(q) /\ home[r] = home[q] => r = q
  /\ \A r \in Run : Running(r) => home[r] \in onDisk
  /\ \A r \in adopting : Running(r) /\ up /\ map[home[r]] = None
  /\ \A r \in Run : up /\ Running(r) =>
       /\ home[r] < nextId
       /\ tier = "holder" => r \in adopting \/ map[home[r]] = r
  /\ \A i \in Id : map[i] # None => up /\ i < nextId
  /\ \A i \in Id, r \in Run : map[i] = r =>
       /\ (plive[i] => Running(r)) /\ (Running(r) => plive[i])
       /\ \A q \in Run : Running(q) /\ home[q] = i => q = r
  /\ \A i \in Id, r \in Run : <<i, r>> \in exits =>
       /\ ~Running(r) /\ (up => map[i] = r)
       /\ \A q \in Run : Running(q) => home[q] # i

(* The restore: where it is, and what it goes by, against what runs.       *)
PhaseInv ==
  /\ ~srv => phase = "done" /\ adding = Zero
  /\ \A r \in cand : snapId[r] # 0
  /\ phase \in {"read", "list1", "list2", "done"} =>
       dead = {} /\ cand = {} /\ chosen = {}
  /\ phase = "list2" => up
  /\ phase \in {"add", "drop"} => cur[1] \in chosen
  /\ phase \notin {"add", "drop"} => cur[2] = None
-----------------------------------------------------------------------------
USE DEF machineVars, daemonVars, serverVars, ledgerVars, planVars, histVars

(* Least and greatest elements, which the restore picks its rows by.       *)
LEMMA MinIs ==
  ASSUME NEW S, S \subseteq Nat, S # {}
  PROVE  Min(S) \in S /\ \A y \in S : Min(S) <= y
<1>1. PICK x \in S : \A y \in S : ~ (<<y, x>> \in OpToRel(<, Nat))
  BY NatLessThanWellFounded, WFMin
<1>2. \A y \in S : x <= y
  <2> SUFFICES ASSUME NEW y \in S, y < x PROVE FALSE
    BY x \in Nat
  <2>1. <<y, x>> \in OpToRel(<, Nat)
    BY y \in Nat, x \in Nat DEF OpToRel
  <2>2. QED
    BY <1>1, <2>1
<1>3. QED
  BY <1>2 DEF Min

LEMMA MaxIs ==
  ASSUME NEW N \in Nat, NEW S, S \subseteq 0 .. N, S # {}
  PROVE  Max(S) \in S /\ \A y \in S : Max(S) >= y
<1> DEFINE T == {N - y : y \in S}
<1>1. T \subseteq Nat /\ T # {}
  <2>1. \A y \in S : y \in 0 .. N /\ N - y \in Nat
    OBVIOUS
  <2>2. QED
    BY <2>1
<1>2. Min(T) \in T /\ \A z \in T : Min(T) <= z
  BY <1>1, MinIs
<1>3. PICK x \in S : Min(T) = N - x
  BY <1>2
<1>4. \A y \in S : x >= y
  <2> SUFFICES ASSUME NEW y \in S PROVE x >= y
    OBVIOUS
  <2>1. N - y \in T
    OBVIOUS
  <2>2. N - x <= N - y
    BY <1>2, <1>3, <2>1
  <2>3. x \in 0 .. N /\ y \in 0 .. N
    OBVIOUS
  <2>4. QED
    BY <2>2, <2>3
<1>5. QED
  BY <1>4 DEF Max

-----------------------------------------------------------------------------
(* Types.                                                                  *)

LEMMA InitTypes == Init => TypeOK
<1> SUFFICES ASSUME Init PROVE TypeOK
  OBVIOUS
<1>1. /\ MaxRun \in Nat /\ MaxId \in Nat /\ MaxDeaths \in Nat
      /\ MaxReboots \in Nat /\ MaxStarts \in Nat
  BY ConstantsAssumption
<1>2. nextId \in 1 .. MaxId + 1 /\ counter \in 0 .. MaxRun
  BY <1>1 DEF Init
<1>3. /\ deaths \in 0 .. MaxDeaths /\ reboots \in 0 .. MaxReboots
      /\ starts \in 0 .. MaxStarts
  BY <1>1 DEF Init
<1>4. /\ Zero \in [Run -> Id \cup {0}] /\ Zero \in [Run -> 0 .. MaxRun]
      /\ NoRun \in [Run -> Conv \cup {None}]
      /\ Nothing \in [Id -> Run \cup {None}]
  BY <1>1 DEF Zero, NoRun, Nothing
<1>5. QED
  BY <1>2, <1>3, <1>4 DEF Init, TypeOK, NoPlan

LEMMA MatchTypes ==
  ASSUME TypeOK, NEW r \in Run, NEW i
  PROVE  AliveMatch(r, i) \in Id \cup {0}
<1>1. Matches(r, i) \subseteq Nat
  BY ConstantsAssumption DEF Matches, Id
<1>2. Matches(r, i) \subseteq Id
  BY DEF Matches
<1>3. QED
  BY <1>1, <1>2, MinIs DEF AliveMatch

LEMMA IdOfTypes ==
  ASSUME TypeOK, NEW r \in Run
  PROVE  /\ IdOf(r) \in Id \cup {0}
         /\ IdOf(r) # 0 => map[IdOf(r)] = r
         /\ \A i \in Id : map[i] = r => IdOf(r) # 0
<1> DEFINE S == {i \in Id : map[i] = r}
<1>1. S \subseteq Nat /\ 0 \notin S
  BY ConstantsAssumption DEF Id
<1>2. CASE S = {}
  BY <1>2 DEF IdOf
<1>3. CASE S # {}
  <2>1. Min(S) \in S
    BY <1>1, <1>3, MinIs
  <2>2. IdOf(r) = Min(S)
    BY <1>3 DEF IdOf
  <2>3. QED
    BY <1>1, <2>1, <2>2
<1>4. QED
  BY <1>2, <1>3

LEMMA FreshTypes ==
  ASSUME TypeOK
  PROVE  FreshName \in 1 .. MaxRun + 1
<1> DEFINE S == {n \in 1 .. MaxRun + 1 : n > counter /\
                   \A i \in Id : map[i] # None => name[map[i]] # n}
<1>1. MaxRun + 1 \in S
  BY ConstantsAssumption DEF TypeOK, Run
<1>2. S \subseteq Nat
  BY ConstantsAssumption
<1>3. Min(S) \in S
  BY <1>1, <1>2, MinIs
<1>4. QED
  BY <1>3 DEF FreshName

(* What the shared pieces do to the types of the variables they change.    *)
LEMMA RemoveTypes ==
  ASSUME TypeOK, NEW i, RemoveById(i)
  PROVE  rowId' \in [Run -> Id \cup {0}] /\ rowSid' \in [Run -> Conv \cup {None}]
BY DEF TypeOK, RemoveById

LEMMA LaunchTypes ==
  ASSUME TypeOK, NEW r \in Run, NEW c \in Conv \cup {None},
         NEW sid \in Conv \cup {None}, Launch(r, c, sid)
  PROVE  /\ rstate' \in [Run -> {"unused", "running", "ended"}]
         /\ conv' \in [Run -> Conv \cup {None}]
         /\ name' \in [Run -> 0 .. MaxRun] /\ home' \in [Run -> Id \cup {0}]
         /\ onDisk' \subseteq Id /\ nextId' \in 1 .. MaxId + 1
         /\ map' \in [Id -> Run \cup {None}] /\ plive' \in [Id -> BOOLEAN]
         /\ adding' \in [Run -> Id \cup {0}] /\ counter' \in 0 .. MaxRun
         /\ rowSid' \in [Run -> Conv \cup {None}]
<1>1. MaxRun \in Nat /\ MaxId \in Nat
  BY ConstantsAssumption
<1>2. nextId \in Id /\ nextId + 1 \in 1 .. MaxId + 1
  BY <1>1 DEF Launch, TypeOK, Id
<1>3. HasTmux => FreshName \in 0 .. MaxRun
  BY <1>1, FreshTypes DEF Launch
<1>4. name' \in [Run -> 0 .. MaxRun] /\ counter' \in 0 .. MaxRun
  BY <1>3 DEF Launch, TypeOK
<1>5. home' \in [Run -> Id \cup {0}] /\ onDisk' \subseteq Id
  <2>1. home' = home \/ home' = [home EXCEPT ![r] = nextId]
    BY DEF Launch
  <2>2. onDisk' = onDisk \/ onDisk' = onDisk \cup {nextId}
    BY DEF Launch
  <2>3. home \in [Run -> Id \cup {0}] /\ onDisk \subseteq Id /\ nextId \in Id
    BY <1>2 DEF TypeOK
  <2>4. home' \in [Run -> Id \cup {0}]
    BY <2>1, <2>3
  <2>5. QED
    BY <2>2, <2>3, <2>4
<1>6. map' \in [Id -> Run \cup {None}] /\ plive' \in [Id -> BOOLEAN]
  BY <1>2 DEF Launch, TypeOK
<1>7. adding' \in [Run -> Id \cup {0}] /\ rowSid' \in [Run -> Conv \cup {None}]
  BY <1>2 DEF Launch, TypeOK
<1>8. /\ rstate' \in [Run -> {"unused", "running", "ended"}]
      /\ conv' \in [Run -> Conv \cup {None}]
  BY DEF Launch, TypeOK
<1>9. QED
  BY <1>2, <1>4, <1>5, <1>6, <1>7, <1>8 DEF Launch

LEMMA AddTypes ==
  ASSUME TypeOK, NEW r \in Run, adding[r] # 0, AddRow(r)
  PROVE  /\ rowId' \in [Run -> Id \cup {0}] /\ rowSid' = rowSid
         /\ adding' \in [Run -> Id \cup {0}] /\ mon' \in BOOLEAN
         /\ exits' \subseteq Id \X Run
<1>1. adding[r] \in Id
  BY DEF TypeOK
<1>2. QED
  BY <1>1 DEF AddRow, TypeOK

(* Sessions. *)
LEMMA StartTypes ==
  ASSUME TypeOK, may' = may, NEW r \in Run, NEW c \in Conv, NEW resume \in BOOLEAN,
         Start(r, c, resume)
  PROVE  TypeOK'
<1> DEFINE sid == IF resume THEN c ELSE None
<1>1. Launch(r, c, sid) /\ UNCHANGED <<phase, planVars, histVars>>
  BY DEF Start
<1>2. sid \in Conv \cup {None}
  OBVIOUS
<1>. HIDE DEF sid
<1>3. UNCHANGED <<tier, up, adopting, srv, mon, exits, rowId>>
  BY <1>1 DEF Launch
<1>4. QED
  BY <1>1, <1>2, <1>3, LaunchTypes DEF TypeOK

LEMMA TouchTypes ==
  ASSUME TypeOK, may' = may, NEW r \in Run, Touch(r)
  PROVE  TypeOK'
<1>1. rowSid' \in [Run -> Conv \cup {None}]
  BY DEF Touch, TypeOK
<1>2. QED
  BY <1>1 DEF Touch, TypeOK

LEMMA EndTypes ==
  ASSUME TypeOK, may' = may, NEW r \in Run, PtyEnds(r)
  PROVE  TypeOK'
<1>1. rstate' \in [Run -> {"unused", "running", "ended"}] /\ onDisk' \subseteq Id
      /\ adopting' \subseteq Run
  BY DEF PtyEnds, TypeOK
<1>2. plive' \in [Id -> BOOLEAN] /\ exits' \subseteq Id \X Run
  <2>1. plive' = plive \/ plive' = [plive EXCEPT ![IdOf(r)] = FALSE]
    BY DEF PtyEnds
  <2>2. IdOf(r) \in Id \cup {0}
    BY IdOfTypes
  <2>3. \/ exits' = exits
        \/ IdOf(r) \in Id /\ exits' = exits \cup {<<IdOf(r), r>>}
    BY <2>2 DEF PtyEnds
  <2>4. plive' \in [Id -> BOOLEAN]
    BY <2>1 DEF TypeOK
  <2>5. exits' \subseteq Id \X Run
    BY <2>3 DEF TypeOK
  <2>6. QED
    BY <2>4, <2>5
<1>3. QED
  BY <1>1, <1>2 DEF PtyEnds, TypeOK

LEMMA SessionTypes ==
  ASSUME TypeOK, may' = may, NEW r \in Run, NEW i \in Id
  PROVE  Record(r) \/ AddFails(r) \/ ExitEvent(i, r) \/ SweepDead(i) => TypeOK'
<1>1. CASE Record(r)
  BY <1>1, AddTypes DEF Record, TypeOK
<1>2. CASE ExitEvent(i, r)
  <2>1. exits' \subseteq Id \X Run /\ ended' \subseteq Run
    BY <1>2 DEF ExitEvent, TypeOK
  <2>2. rowId' \in [Run -> Id \cup {0}] /\ rowSid' \in [Run -> Conv \cup {None}]
    BY <1>2, RemoveTypes DEF ExitEvent
  <2>3. QED
    BY <1>2, <2>1, <2>2 DEF ExitEvent, TypeOK
<1>3. CASE SweepDead(i)
  BY <1>3 DEF SweepDead, TypeOK
<1>4. CASE AddFails(r)
  BY <1>4 DEF AddFails, TypeOK
<1>5. QED
  BY <1>1, <1>2, <1>3, <1>4

(* The daemon. *)
LEMMA DaemonTypes ==
  ASSUME TypeOK, may' = may, NEW r \in Run
  PROVE  DaemonStarts \/ Adopt(r) \/ AdoptFails(r) \/ DaemonDies => TypeOK'
<1>1. MaxId \in Nat /\ MaxDeaths \in Nat
  BY ConstantsAssumption
<1>2. CASE DaemonStarts
  <2>1. onDisk \cup {0} \subseteq 0 .. MaxId
    BY <1>1 DEF TypeOK, Id
  <2>2. Max(onDisk \cup {0}) \in 0 .. MaxId
    BY <1>1, <2>1, MaxIs
  <2>3. nextId' \in 1 .. MaxId + 1
    BY <1>1, <1>2, <2>2 DEF DaemonStarts, FirstFree
  <2>4. QED
    BY <1>2, <2>3 DEF DaemonStarts, TypeOK
<1>3. CASE Adopt(r)
  <2> DEFINE i == IF HasTmux THEN nextId ELSE home[r]
  <2>1. i \in 0 .. MaxId
    BY <1>1, <1>3 DEF Adopt, TypeOK, Id
  <2>2. nextId' \in 1 .. MaxId + 1
    BY <1>1, <1>3, <2>1 DEF Adopt, TypeOK
  <2>3. map' = [map EXCEPT ![i] = r] /\ plive' = [plive EXCEPT ![i] = TRUE]
    BY <1>3 DEF Adopt
  <2>4. map' \in [Id -> Run \cup {None}] /\ plive' \in [Id -> BOOLEAN]
    BY <2>3 DEF TypeOK
  <2>5. QED
    BY <1>3, <2>2, <2>4 DEF Adopt, TypeOK
<1>4. CASE AdoptFails(r)
  BY <1>4 DEF AdoptFails, TypeOK
<1>5. CASE DaemonDies
  <2>1. deaths' \in 0 .. MaxDeaths
    BY <1>1, <1>5 DEF DaemonDies, TypeOK
  <2>2. nextId' \in 1 .. MaxId + 1 /\ phase' \in
          {"read", "list1", "list2", "work", "add", "drop", "done"}
    BY <1>1, <1>5 DEF DaemonDies, DaemonGone, TypeOK
  <2>3. QED
    BY <1>5, <2>1, <2>2 DEF DaemonDies, DaemonGone, Nothing, TypeOK
<1>6. QED
  BY <1>2, <1>3, <1>4, <1>5

(* The server and the restore. *)
LEMMA ServerTypes ==
  ASSUME TypeOK, may' = may, NEW orderly \in BOOLEAN, NEW removed \in SUBSET Id
  PROVE  ServerStarts \/ MonitorConnects \/ ServerStops(orderly) \/ Reboot(removed)
           => TypeOK'
<1>1. MaxStarts \in Nat /\ MaxReboots \in Nat /\ MaxId \in Nat /\ MaxRun \in Nat
  BY ConstantsAssumption
<1>2. /\ Zero \in [Run -> Id \cup {0}] /\ NoRun \in [Run -> Conv \cup {None}]
      /\ Nothing \in [Id -> Run \cup {None}]
  BY DEF Zero, NoRun, Nothing
<1>3. ServerGone =>
        /\ srv' \in BOOLEAN /\ mon' \in BOOLEAN /\ exits' \subseteq Id \X Run
        /\ adding' \in [Run -> Id \cup {0}] /\ counter' \in 0 .. MaxRun
        /\ phase' = "done"
  <2> SUFFICES ASSUME ServerGone
               PROVE  /\ srv' \in BOOLEAN /\ mon' \in BOOLEAN
                      /\ exits' \subseteq Id \X Run
                      /\ adding' \in [Run -> Id \cup {0}]
                      /\ counter' \in 0 .. MaxRun /\ phase' = "done"
    OBVIOUS
  <2>1. srv' = FALSE /\ mon' = FALSE /\ exits' = {} /\ phase' = "done"
    BY DEF ServerGone
  <2>2. adding' = Zero /\ counter' = 0
    BY DEF ServerGone
  <2>3. 0 \in 0 .. MaxRun
    BY <1>1
  <2>4. QED
    BY <1>2, <2>1, <2>2, <2>3
<1>4. ServerGone =>
        /\ snapId' \in [Run -> Id \cup {0}] /\ snapSid' \in [Run -> Conv \cup {None}]
        /\ liveId' \in [Run -> Id \cup {0}] /\ found' \subseteq Run
        /\ refresh' \subseteq Run /\ dead' \subseteq Run /\ cand' \subseteq Run
        /\ seen' \subseteq Conv /\ chosen' \subseteq Run
        /\ cur' \in (Run \cup {None}) \X (Run \cup {None})
  BY <1>2 DEF ServerGone, ClearPlan
<1>5. CASE ServerStarts
  <2>1. starts' \in 0 .. MaxStarts /\ counter' \in 0 .. MaxRun
    BY <1>1, <1>5 DEF ServerStarts, TypeOK
  <2>2. QED
    BY <1>5, <2>1 DEF ServerStarts, TypeOK
<1>6. CASE MonitorConnects
  BY <1>6 DEF MonitorConnects, TypeOK
<1>7. CASE ServerStops(orderly)
  <2>1. rowId' \in [Run -> Id \cup {0}] /\ rowSid' \in [Run -> Conv \cup {None}]
    BY <1>7 DEF ServerStops, TypeOK
  <2>2. ServerGone /\ UNCHANGED <<machineVars, daemonVars, histVars>>
    BY <1>7 DEF ServerStops
  <2>3. QED
    BY <1>3, <1>4, <2>1, <2>2 DEF TypeOK
<1>8. CASE Reboot(removed)
  <2>1. reboots' \in 0 .. MaxReboots
    BY <1>1, <1>8 DEF Reboot, TypeOK
  <2>2. /\ rstate' \in [Run -> {"unused", "running", "ended"}]
        /\ onDisk' \subseteq Id /\ rowSid' \in [Run -> Conv \cup {None}]
    BY <1>8 DEF Reboot, TypeOK
  <2>3. /\ up' \in BOOLEAN /\ nextId' \in 1 .. MaxId + 1
        /\ map' \in [Id -> Run \cup {None}] /\ plive' \in [Id -> BOOLEAN]
        /\ adopting' \subseteq Run
    <3>1. /\ up' = FALSE /\ nextId' = 1 /\ map' = Nothing
          /\ plive' = [i \in Id |-> FALSE] /\ adopting' = {}
      BY <1>8 DEF Reboot, DaemonGone
    <3>2. 1 \in 1 .. MaxId + 1
      BY <1>1
    <3>3. QED
      BY <1>2, <3>1, <3>2
  <2>4. /\ ServerGone
        /\ UNCHANGED <<tier, conv, name, home, rowId, deaths, starts, ended, restored>>
    BY <1>8 DEF Reboot
  <2>5. QED
    BY <1>3, <1>4, <2>1, <2>2, <2>3, <2>4 DEF TypeOK
<1>9. QED
  BY <1>5, <1>6, <1>7, <1>8

LEMMA ListTypes ==
  ASSUME TypeOK, may' = may
  PROVE  Read \/ List1 \/ List2 \/ RestoreDone => TypeOK'
<1>1. Zero \in [Run -> Id \cup {0}] /\ NoRun \in [Run -> Conv \cup {None}]
  BY DEF Zero, NoRun
<1>2. \A r \in Run : AliveMatch(r, snapId[r]) \in Id \cup {0}
  BY MatchTypes
<1>3. \A r \in Run : AliveId(r) \in Id \cup {0}
  BY <1>2 DEF AliveId, TypeOK
<1>4. CASE Read
  BY <1>4 DEF Read, TypeOK
<1>5. CASE List1
  <2>1. liveId' \in [Run -> Id \cup {0}] /\ found' \subseteq Run
    BY <1>2, <1>5 DEF List1, TypeOK, Rows, Matched
  <2>2. phase' \in {"list2", "done"}
    BY <1>5 DEF List1
  <2>3. QED
    BY <1>5, <2>1, <2>2 DEF List1, TypeOK
<1>6. CASE List2
  <2>1. liveId' \in [Run -> Id \cup {0}]
    BY <1>3, <1>6 DEF List2
  <2>2. Rows \subseteq Run /\ Known \subseteq Run
    BY DEF Rows, Known, Matched, TypeOK
  <2>3. /\ refresh' \subseteq Run /\ dead' \subseteq Run /\ cand' \subseteq Run
        /\ found' = {} /\ phase' = "work"
    BY <1>6, <2>2 DEF List2, Lost
  <2>4. seen' \subseteq Conv
    BY <1>6, <2>2 DEF List2, SeenAlready, TypeOK
  <2>5. QED
    BY <1>6, <2>1, <2>3, <2>4 DEF List2, TypeOK
<1>7. CASE RestoreDone
  BY <1>1, <1>7 DEF RestoreDone, TypeOK
<1>8. QED
  BY <1>4, <1>5, <1>6, <1>7

(* Rows are picked from sets of rows. *)
LEMMA Picked ==
  ASSUME NEW S, S \subseteq Run, S # {}
  PROVE  Min(S) \in S /\ Max(S) \in S
<1>1. S \subseteq Nat /\ S \subseteq 0 .. MaxRun /\ MaxRun \in Nat
  BY ConstantsAssumption DEF Run
<1>2. QED
  BY <1>1, MinIs, MaxIs

LEMMA NewestOf == ASSUME NEW S PROVE Newest(S) \subseteq S
  BY DEF Newest

LEMMA WorkTypes ==
  ASSUME TypeOK, may' = may, NEW cwd, NEW sound \in BOOLEAN
  PROVE  RefreshOne \/ DropDead \/ FilterOne(cwd, sound) \/ SpawnFails => TypeOK'
<1>1. CASE RefreshOne
  <2>1. Min(refresh) \in refresh
    BY <1>1, Picked DEF RefreshOne, TypeOK
  <2>2. liveId[Min(refresh)] \in Id \cup {0}
    BY <2>1 DEF TypeOK
  <2>3. rowId' \in [Run -> Id \cup {0}] /\ rowSid' = rowSid
    BY <1>1, <2>2 DEF RefreshOne, RenameId, TypeOK
  <2>4. QED
    BY <1>1, <2>3 DEF RefreshOne, TypeOK
<1>2. CASE DropDead
  <2>1. rowId' \in [Run -> Id \cup {0}] /\ rowSid' \in [Run -> Conv \cup {None}]
    BY <1>2, RemoveTypes DEF DropDead
  <2>2. QED
    BY <1>2, <2>1 DEF DropDead, TypeOK
<1>3. CASE FilterOne(cwd, sound)
  <2>1. Min(cand) \in cand
    BY <1>3, Picked DEF FilterOne, TypeOK
  <2>2. rowId' \in [Run -> Id \cup {0}] /\ rowSid' \in [Run -> Conv \cup {None}]
    <3>1. RemoveById(snapId[Min(cand)]) \/ UNCHANGED ledgerVars
      BY <1>3 DEF FilterOne
    <3>2. QED
      BY <3>1, RemoveTypes DEF TypeOK
  <2>3. seen' \subseteq Conv
    BY <1>3, <2>1 DEF FilterOne, TypeOK
  <2>4. chosen' \subseteq Run
    <3>1. chosen' = chosen \/ chosen' = Newest(chosen \cup {Min(cand)})
      BY <1>3 DEF FilterOne
    <3>2. QED
      BY <2>1, <3>1, NewestOf DEF TypeOK
  <2>5. cand' \subseteq Run
    BY <1>3 DEF FilterOne, TypeOK
  <2>6. QED
    BY <1>3, <2>2, <2>3, <2>4, <2>5 DEF FilterOne, TypeOK
<1>4. CASE SpawnFails
  <2>1. rowId' \in [Run -> Id \cup {0}] /\ rowSid' \in [Run -> Conv \cup {None}]
    BY <1>4, RemoveTypes DEF SpawnFails
  <2>2. QED
    BY <1>4, <2>1 DEF SpawnFails, TypeOK
<1>5. QED
  BY <1>1, <1>2, <1>3, <1>4

LEMMA ResumeTypes ==
  ASSUME TypeOK, may' = may, CurInv, NEW n \in Run
  PROVE  RestoreSpawn(n) \/ RestoreAdd \/ RestoreDrop => TypeOK'
<1>1. CASE RestoreSpawn(n)
  <2> DEFINE r == Max(chosen)
  <2>1. r \in Run /\ snapSid[r] \in Conv \cup {None}
    BY <1>1, Picked DEF RestoreSpawn, TypeOK
  <2>2. Launch(n, snapSid[r], snapSid[r])
    BY <1>1 DEF RestoreSpawn
  <2>3. /\ cur' = <<r, n>> /\ restored' = restored \cup {r} /\ phase' = "add"
        /\ UNCHANGED <<snapId, snapSid, liveId, found, refresh, dead, cand,
                       seen, chosen, deaths, reboots, starts, ended>>
    BY <1>1 DEF RestoreSpawn
  <2>. HIDE DEF r
  <2>4. UNCHANGED <<tier, up, adopting, srv, mon, exits, rowId>>
    BY <2>2 DEF Launch
  <2>5. cur' \in (Run \cup {None}) \X (Run \cup {None}) /\ restored' \subseteq Run
    BY <2>1, <2>3 DEF TypeOK
  <2>6. QED
    BY <2>1, <2>2, <2>3, <2>4, <2>5, LaunchTypes DEF TypeOK
<1>2. CASE RestoreAdd
  <2>1. cur[2] \in Run /\ adding[cur[2]] # 0 /\ AddRow(cur[2])
    BY <1>2 DEF RestoreAdd, CurInv
  <2>2. QED
    BY <1>2, <2>1, AddTypes DEF RestoreAdd, TypeOK
<1>3. CASE RestoreDrop
  <2>1. rowId' \in [Run -> Id \cup {0}] /\ rowSid' \in [Run -> Conv \cup {None}]
    BY <1>3, RemoveTypes DEF RestoreDrop
  <2>2. QED
    BY <1>3, <2>1 DEF RestoreDrop, TypeOK
<1>4. QED
  BY <1>1, <1>2, <1>3

LEMMA CurNext ==
  ASSUME TypeOK, CurInv, [Next]_vars
  PROVE  CurInv'
<1>1. ASSUME NEW r \in Run, NEW c, NEW sid, Launch(r, c, sid), UNCHANGED <<phase, cur>>
      PROVE  CurInv'
  BY <1>1 DEF Launch, CurInv, TypeOK
<1>2. CASE \E r \in Run, c \in Conv, resume \in BOOLEAN : Start(r, c, resume)
  BY <1>1, <1>2 DEF Start
<1>3. CASE \E r \in Run : Record(r) \/ AddFails(r)
  <2>1. CASE \E r \in Run : Record(r)
    BY <2>1 DEF Record, AddRow, CurInv, TypeOK
  <2>2. CASE \E r \in Run : AddFails(r)
    BY <2>2 DEF AddFails, CurInv, TypeOK
  <2>3. QED
    BY <1>3, <2>1, <2>2
<1>4. CASE \E n \in Run : RestoreSpawn(n)
  <2> PICK n \in Run : RestoreSpawn(n)
    BY <1>4
  <2>1. Max(chosen) \in Run
    BY Picked DEF RestoreSpawn, TypeOK
  <2>2. adding'[n] # 0
    BY DEF RestoreSpawn, Launch, TypeOK
  <2>3. QED
    BY <2>1, <2>2 DEF RestoreSpawn, CurInv
<1>5. CASE RestoreAdd \/ RestoreDrop \/ RestoreDone \/ Read \/ List1 \/ List2
  BY <1>5 DEF RestoreAdd, RestoreDrop, RestoreDone, Read, List1, List2, CurInv
<1>6. CASE RefreshOne \/ DropDead \/ SpawnFails
  BY <1>6 DEF RefreshOne, DropDead, SpawnFails, CurInv
<1>7. CASE \E cwd \in {"ok", "gone", "unknown"}, sound \in BOOLEAN : FilterOne(cwd, sound)
  BY <1>7 DEF FilterOne, CurInv
<1>8. CASE \/ \E r \in Run : Touch(r) \/ PtyEnds(r) \/ Adopt(r) \/ AdoptFails(r)
           \/ \E i \in Id : SweepDead(i)
           \/ \E i \in Id, r \in Run : ExitEvent(i, r)
  BY <1>8 DEF Touch, PtyEnds, Adopt, AdoptFails, SweepDead, ExitEvent, CurInv
<1>9. CASE DaemonStarts \/ DaemonDies \/ ServerStarts \/ MonitorConnects
  BY <1>9 DEF DaemonStarts, DaemonDies, ServerStarts, MonitorConnects, CurInv
<1>10. CASE \/ \E orderly \in BOOLEAN : ServerStops(orderly)
            \/ \E removed \in SUBSET Id : Reboot(removed)
  BY <1>10 DEF ServerStops, Reboot, ServerGone, CurInv
<1>11. CASE UNCHANGED vars
  BY <1>11 DEF vars, CurInv
<1>12. QED
  BY <1>2, <1>3, <1>4, <1>5, <1>6, <1>7, <1>8, <1>9, <1>10, <1>11 DEF Next, Step

LEMMA TypesNext ==
  ASSUME TypeOK, CurInv, [Next]_vars
  PROVE  TypeOK'
<1>0. may' = may
  BY DEF Next, vars
<1>1. CASE UNCHANGED vars
  BY <1>1 DEF vars, TypeOK
<1>2. CASE \E r \in Run, c \in Conv, resume \in BOOLEAN : Start(r, c, resume)
  BY <1>0, <1>2, StartTypes
<1>3. CASE \E r \in Run : Touch(r) \/ PtyEnds(r)
  BY <1>0, <1>3, TouchTypes, EndTypes
<1>4. CASE \E i \in Id, r \in Run : ExitEvent(i, r)
  BY <1>0, <1>4, SessionTypes
<1>5. CASE \E r \in Run : Record(r) \/ AddFails(r)
  BY <1>0, <1>5, ConstantsAssumption, SessionTypes DEF Id
<1>6. CASE \E i \in Id : SweepDead(i)
  BY <1>0, <1>6, ConstantsAssumption, SessionTypes DEF Run
<1>7. CASE \/ \E r \in Run : Adopt(r) \/ AdoptFails(r)
           \/ DaemonStarts \/ DaemonDies
  BY <1>0, <1>7, ConstantsAssumption, DaemonTypes DEF Run
<1>8. CASE \/ ServerStarts \/ MonitorConnects
           \/ \E orderly \in BOOLEAN : ServerStops(orderly)
           \/ \E removed \in SUBSET Id : Reboot(removed)
  BY <1>0, <1>8, ServerTypes
<1>9. CASE Read \/ List1 \/ List2 \/ RestoreDone
  BY <1>0, <1>9, ListTypes
<1>10. CASE \/ RefreshOne \/ DropDead \/ SpawnFails
            \/ \E cwd \in {"ok", "gone", "unknown"}, sound \in BOOLEAN :
                 FilterOne(cwd, sound)
  BY <1>0, <1>10, WorkTypes
<1>11. CASE \/ RestoreAdd \/ RestoreDrop \/ \E n \in Run : RestoreSpawn(n)
  BY <1>0, <1>11, ConstantsAssumption, ResumeTypes DEF Run
<1>12. QED
  BY <1>1, <1>2, <1>3, <1>4, <1>5, <1>6, <1>7, <1>8, <1>9, <1>10, <1>11 DEF Next, Step

LEMMA TypesAlways == Spec => [](TypeOK /\ CurInv)
<1>1. Init => TypeOK /\ CurInv
  BY InitTypes DEF Init, CurInv
<1>2. TypeOK /\ CurInv /\ [Next]_vars => TypeOK' /\ CurInv'
  BY TypesNext, CurNext
<1>3. QED
  BY <1>1, <1>2, PTL DEF Spec

(* Every variable of the ledger, the daemon, the machine and the restore   *)
(* keeps its type: rows are picked only from sets that hold some, and ids  *)
(* are minted only within bounds.                                          *)
THEOREM LedgerTypeOK == Spec => []TypeOK
  BY TypesAlways, PTL

-----------------------------------------------------------------------------
(* The ids of a run (where ptyIds are kept: all but the tmux tier).        *)

LEMMA RemoveRows ==
  ASSUME TypeOK, NEW i, RemoveById(i), NEW r \in Run
  PROVE  /\ rowId'[r] = 0 \/ rowId'[r] = rowId[r]
         /\ rowId[r] # i => rowId'[r] = rowId[r] /\ rowSid'[r] = rowSid[r]
         /\ rowId[r] = i => rowId'[r] = 0 /\ rowSid'[r] = None
BY DEF RemoveById, TypeOK

LEMMA LaunchHomes ==
  ASSUME TypeOK, HomeInv, ~HasTmux, NEW n \in Run, NEW c, NEW sid,
         Launch(n, c, sid), UNCHANGED <<snapId, refresh, ended>>
  PROVE  HomeInv'
<1>1. nextId \in Id /\ nextId # 0
  BY ConstantsAssumption DEF Launch, TypeOK, Id
<1>2. /\ rstate' = [rstate EXCEPT ![n] = "running"]
      /\ conv' = [conv EXCEPT ![n] = c] /\ home' = [home EXCEPT ![n] = nextId]
      /\ adding' = [adding EXCEPT ![n] = nextId]
      /\ map' = [map EXCEPT ![nextId] = n]
      /\ UNCHANGED <<tier, adopting, exits, rowId>>
  BY DEF Launch, HasTmux
<1>3. rstate[n] = "unused" /\ home[n] = 0 /\ n \notin ended
  BY DEF Launch, HomeInv, HomeOf
<1>4. ASSUME NEW r \in Run PROVE HomeOf(r)'
  <2>1. HomeOf(r) /\ HomeOf(n)
    BY DEF HomeInv
  <2>2. CASE r = n
    BY <1>1, <1>2, <1>3, <2>1, <2>2, ConstantsAssumption
    DEF HomeOf, TypeOK, Id
  <2>3. CASE r # n
    BY <1>1, <1>2, <2>1, <2>3 DEF HomeOf, TypeOK
  <2>4. QED
    BY <2>2, <2>3
<1>5. QED
  BY <1>2, <1>4 DEF HomeInv

LEMMA AddHomes ==
  ASSUME TypeOK, HomeInv, ~HasTmux, NEW n \in Run, adding[n] # 0, AddRow(n),
         UNCHANGED <<tier, rstate, conv, home, map, adopting, snapId, refresh, ended>>
  PROVE  HomeInv'
<1>1. adding[n] = home[n] /\ adding[n] \in Id
  BY DEF HomeInv, HomeOf, TypeOK
<1>2. /\ rowId' = [rowId EXCEPT ![n] = home[n]] /\ adding' = [adding EXCEPT ![n] = 0]
      /\ exits' = exits \/ exits' = exits \cup {<<home[n], n>>}
  BY <1>1 DEF AddRow
<1>3. ASSUME NEW r \in Run PROVE HomeOf(r)'
  BY <1>1, <1>2 DEF HomeInv, HomeOf, TypeOK
<1>4. QED
  BY <1>3 DEF HomeInv, HasTmux

LEMMA RemoveHomes ==
  ASSUME TypeOK, HomeInv, ~HasTmux, NEW i, RemoveById(i) \/ UNCHANGED ledgerVars,
         UNCHANGED <<tier, rstate, conv, home, map, adopting, adding, exits,
                     snapId, refresh, ended>>
  PROVE  HomeInv'
<1>1. \A r \in Run : rowId'[r] = 0 \/ rowId'[r] = rowId[r]
  BY RemoveRows
<1>2. ASSUME NEW r \in Run PROVE HomeOf(r)'
  BY <1>1 DEF HomeInv, HomeOf
<1>3. QED
  BY <1>2 DEF HomeInv, HasTmux

LEMMA HomeNext ==
  ASSUME TypeOK, CurInv, HomeInv, [Next]_vars
  PROVE  HomeInv'
<1> SUFFICES ASSUME ~HasTmux' PROVE HomeInv'
  BY DEF HomeInv
<1>0. ~HasTmux
  BY DEF Next, Step, vars, HasTmux, Start, Record, AddFails, Touch, PtyEnds,
         ExitEvent, SweepDead, Adopt, AdoptFails, DaemonStarts, DaemonDies, ServerStarts,
         MonitorConnects, ServerStops, Reboot, Read, List1, List2, RefreshOne,
         DropDead, FilterOne, RestoreSpawn, SpawnFails, RestoreAdd,
         RestoreDrop, RestoreDone, Launch
<1>1. CASE \E r \in Run, c \in Conv, resume \in BOOLEAN : Start(r, c, resume)
  BY <1>0, <1>1, LaunchHomes DEF Start
<1>2. CASE \E n \in Run : RestoreSpawn(n)
  BY <1>0, <1>2, LaunchHomes DEF RestoreSpawn
<1>3. CASE RestoreAdd \/ \E r \in Run : Record(r)
  BY <1>0, <1>3, AddHomes DEF RestoreAdd, Record, CurInv
<1>4. CASE DropDead \/ SpawnFails \/ RestoreDrop
  BY <1>0, <1>4, RemoveHomes DEF DropDead, SpawnFails, RestoreDrop
<1>5. CASE \E cwd \in {"ok", "gone", "unknown"}, sound \in BOOLEAN : FilterOne(cwd, sound)
  <2>1. RemoveById(snapId[Min(cand)]) \/ UNCHANGED ledgerVars
    BY <1>5 DEF FilterOne
  <2>2. UNCHANGED <<tier, rstate, conv, home, map, adopting, adding, exits,
                    snapId, refresh, ended>>
    BY <1>5 DEF FilterOne
  <2>3. QED
    BY <1>0, <2>1, <2>2, RemoveHomes
<1>6. CASE \E i \in Id, q \in Run : ExitEvent(i, q)
  <2> PICK i \in Id, q \in Run : ExitEvent(i, q)
    BY <1>6
  <2>1. home[q] = i /\ i # 0
    BY <1>0, ConstantsAssumption DEF ExitEvent, HomeInv, HomeOf, Id
  <2>2. \A r \in Run : rowId'[r] = 0 \/ rowId'[r] = rowId[r]
    BY RemoveRows DEF ExitEvent
  <2>3. rowId'[q] = 0
    BY <1>0, <2>1, RemoveRows DEF ExitEvent, HomeInv, HomeOf
  <2>4. rstate[q] # "unused"
    BY <1>0, <2>1 DEF HomeInv, HomeOf
  <2>5. ASSUME NEW r \in Run PROVE HomeOf(r)'
    <3>1. HomeOf(r)
      BY <1>0 DEF HomeInv
    <3>2. QED
      BY <3>1, <2>2, <2>3, <2>4 DEF ExitEvent, HomeOf
  <2>6. QED
    BY <1>0, <2>5 DEF HomeInv, ExitEvent, HasTmux
<1>7. CASE \E r \in Run : PtyEnds(r)
  <2> PICK q \in Run : PtyEnds(q)
    BY <1>7
  <2>1. \/ exits' = exits
        \/ map[IdOf(q)] = q /\ IdOf(q) \in Id /\ exits' = exits \cup {<<IdOf(q), q>>}
    <3>1. IdOf(q) # 0 => IdOf(q) \in Id /\ map[IdOf(q)] = q
      BY IdOfTypes
    <3>2. QED
      BY <3>1 DEF PtyEnds
  <2>2. ASSUME NEW r \in Run PROVE HomeOf(r)'
    <3>1. HomeOf(r)
      BY <1>0 DEF HomeInv
    <3>2. (rstate'[r] = "unused") <=> (rstate[r] = "unused")
      BY DEF PtyEnds, TypeOK, Running
    <3>3. adopting' \subseteq adopting
      BY DEF PtyEnds
    <3>4. UNCHANGED <<conv, home, map, adding, rowId, snapId, ended>>
      BY DEF PtyEnds
    <3>5. \A i \in Id : <<i, r>> \in exits' => <<i, r>> \in exits \/ map[i] = r
      BY <2>1
    <3>6. QED
      BY <3>1, <3>2, <3>3, <3>4, <3>5 DEF HomeOf
  <2>3. QED
    BY <1>0, <2>2 DEF HomeInv, PtyEnds, HasTmux
<1>8. CASE \E r \in Run : Adopt(r)
  <2> PICK q \in Run : Adopt(q)
    BY <1>8
  <2>1. home[q] \in Id /\ map' = [map EXCEPT ![home[q]] = q]
    BY <1>0 DEF Adopt, HomeInv, HomeOf, TypeOK
  <2>2. ASSUME NEW r \in Run PROVE HomeOf(r)'
    BY <1>0, <2>1 DEF Adopt, HomeInv, HomeOf, TypeOK
  <2>3. QED
    BY <1>0, <2>2 DEF HomeInv, Adopt, HasTmux
<1>9. CASE \E i \in Id : SweepDead(i)
  <2>1. ASSUME NEW r \in Run PROVE HomeOf(r)'
    <3> PICK i \in Id : SweepDead(i)
      BY <1>9
    <3>1. \A j \in Id : map'[j] = map[j] \/ map'[j] = None
      BY DEF SweepDead, TypeOK
    <3>2. r # None
      BY ConstantsAssumption DEF Run
    <3>3. QED
      BY <1>0, <3>1, <3>2 DEF SweepDead, HomeInv, HomeOf
  <2>2. QED
    BY <1>0, <1>9, <2>1 DEF HomeInv, SweepDead, HasTmux
<1>10. CASE DaemonStarts
  <2>1. ASSUME NEW r \in Run PROVE HomeOf(r)'
    <3>1. HomeOf(r) /\ UNCHANGED <<rstate, conv, home, map, exits, adding, rowId,
                                   snapId, ended>>
      BY <1>0, <1>10 DEF DaemonStarts, HomeInv
    <3>2. r \in adopting' => home[r] # 0
      BY <1>0, <1>10 DEF DaemonStarts, HomeInv, HomeOf, Running
    <3>3. QED
      BY <3>1, <3>2 DEF HomeOf
  <2>2. QED
    BY <1>0, <1>10, <2>1 DEF HomeInv, DaemonStarts, HasTmux
<1>11. CASE DaemonDies \/ \E r \in Run : AdoptFails(r)
  <2>1. ASSUME NEW r \in Run PROVE HomeOf(r)'
    <3>1. HomeOf(r) /\ UNCHANGED <<rstate, conv, home, exits, adding, rowId,
                                   snapId, ended>>
      BY <1>0, <1>11 DEF DaemonDies, AdoptFails, HomeInv
    <3>2. adopting' \subseteq adopting /\ (map' = map \/ map' = Nothing)
      BY <1>11 DEF DaemonDies, DaemonGone, AdoptFails
    <3>3. r # None
      BY ConstantsAssumption DEF Run
    <3>4. QED
      BY <3>1, <3>2, <3>3 DEF HomeOf, Nothing
  <2>2. QED
    BY <1>0, <1>11, <2>1 DEF HomeInv, DaemonDies, AdoptFails, HasTmux
<1>12. CASE \/ ServerStarts \/ MonitorConnects \/ List1 \/ RestoreDone
            \/ \E r \in Run : Touch(r)
  <2>1. /\ UNCHANGED <<tier, rstate, conv, home, map, adopting, adding, exits,
                       rowId, refresh, ended>>
        /\ snapId' = snapId \/ snapId' = Zero
    BY <1>12 DEF ServerStarts, MonitorConnects, List1, RestoreDone, Touch
  <2>2. ASSUME NEW r \in Run PROVE HomeOf(r)'
    <3>1. HomeOf(r) /\ (snapId'[r] = snapId[r] \/ snapId'[r] = 0)
      BY <1>0, <2>1 DEF HomeInv, Zero
    <3>2. QED
      BY <2>1, <3>1 DEF HomeOf
  <2>3. QED
    BY <1>0, <2>1, <2>2 DEF HomeInv, HasTmux
<1>13. CASE List2 \/ Read
  <2>1. /\ UNCHANGED <<tier, rstate, conv, home, map, adopting, adding, exits,
                       rowId, ended>>
        /\ snapId' = snapId \/ snapId' = rowId
    BY <1>13 DEF List2, Read
  <2>2. refresh' = {}
    BY <1>0, <1>13 DEF List2, Read, HomeInv
  <2>3. ASSUME NEW r \in Run PROVE HomeOf(r)'
    BY <1>0, <2>1 DEF HomeInv, HomeOf
  <2>4. QED
    BY <1>0, <2>1, <2>2, <2>3 DEF HomeInv, HasTmux
<1>14. CASE RefreshOne
  BY <1>0, <1>14 DEF RefreshOne, HomeInv
<1>15. CASE \E orderly \in BOOLEAN : ServerStops(orderly)
  <2>1. /\ UNCHANGED <<tier, rstate, conv, home, map, adopting, ended>>
        /\ snapId' = Zero /\ adding' = Zero /\ exits' = {} /\ refresh' = {}
        /\ \A r \in Run : rowId'[r] = 0 \/ rowId'[r] = rowId[r]
    BY <1>15 DEF ServerStops, ServerGone, ClearPlan
  <2>2. ASSUME NEW r \in Run PROVE HomeOf(r)'
    <3>1. HomeOf(r) /\ snapId'[r] = 0 /\ adding'[r] = 0
      BY <1>0, <2>1 DEF HomeInv, Zero
    <3>2. rowId'[r] = 0 \/ rowId'[r] = rowId[r]
      BY <2>1
    <3>3. QED
      BY <2>1, <3>1, <3>2 DEF HomeOf
  <2>3. QED
    BY <1>0, <2>1, <2>2 DEF HomeInv, HasTmux
<1>16. CASE \E removed \in SUBSET Id : Reboot(removed)
  <2>1. /\ UNCHANGED <<tier, conv, home, rowId, ended>>
        /\ snapId' = Zero /\ adding' = Zero /\ exits' = {} /\ refresh' = {}
        /\ adopting' = {} /\ map' = Nothing
        /\ \A r \in Run : (rstate'[r] = "unused") <=> (rstate[r] = "unused")
    BY <1>16 DEF Reboot, DaemonGone, ServerGone, ClearPlan, Running
  <2>2. ASSUME NEW r \in Run PROVE HomeOf(r)'
    <3>1. r # None
      BY ConstantsAssumption DEF Run
    <3>2. HomeOf(r) /\ snapId'[r] = 0 /\ adding'[r] = 0
      BY <1>0, <2>1 DEF HomeInv, Zero
    <3>3. \A i \in Id : map'[i] # r /\ <<i, r>> \notin exits'
      BY <2>1, <3>1 DEF Nothing
    <3>4. (rstate'[r] = "unused") <=> (rstate[r] = "unused")
      BY <2>1
    <3>5. QED
      BY <2>1, <3>2, <3>3, <3>4 DEF HomeOf
  <2>3. QED
    BY <1>0, <2>1, <2>2 DEF HomeInv, HasTmux
<1>17. CASE UNCHANGED vars
  <2>1. UNCHANGED <<tier, rstate, conv, home, map, adopting, adding, exits,
                    rowId, snapId, refresh, ended>>
    BY <1>17 DEF vars
  <2>2. QED
    BY <2>1 DEF HomeInv, HomeOf, HasTmux
<1>18. CASE \E q \in Run : AddFails(q)
  <2>1. /\ UNCHANGED <<tier, rstate, conv, home, map, adopting, exits, rowId,
                       snapId, refresh, ended>>
        /\ \A r \in Run : adding'[r] = 0 \/ adding'[r] = adding[r]
    BY <1>18 DEF AddFails, TypeOK
  <2>2. ASSUME NEW r \in Run PROVE HomeOf(r)'
    <3>1. HomeOf(r) /\ (adding'[r] = 0 \/ adding'[r] = adding[r])
      BY <1>0, <2>1 DEF HomeInv
    <3>2. QED
      BY <2>1, <3>1 DEF HomeOf
  <2>3. QED
    BY <1>0, <2>1, <2>2 DEF HomeInv, HasTmux
<1>19. QED
  BY <1>1, <1>2, <1>3, <1>4, <1>5, <1>6, <1>7, <1>8, <1>9, <1>10, <1>11,
     <1>12, <1>13, <1>14, <1>15, <1>16, <1>17, <1>18 DEF Next, Step

LEMMA HomeAlways == Spec => []HomeInv
<1>1. Init => HomeInv
  <2> SUFFICES ASSUME Init PROVE HomeInv
    OBVIOUS
  <2>1. ASSUME NEW r \in Run PROVE HomeOf(r)
    <3>1. r # None
      BY ConstantsAssumption DEF Run
    <3>2. QED
      BY <3>1 DEF Init, HomeOf, NoPlan, Zero, NoRun, Nothing
  <2>2. QED
    BY <2>1 DEF Init, HomeInv, NoPlan
<1>2. TypeOK /\ CurInv /\ HomeInv /\ [Next]_vars => HomeInv'
  BY HomeNext
<1>3. QED
  BY <1>1, <1>2, TypesAlways, PTL DEF Spec

(* The row of a session whose exit the server was told of is gone and      *)
(* stays gone, whatever races with the exit: the start of the session, a   *)
(* restore, a crash.  This needs no assumption on the environment.         *)
THEOREM EndedIsUnlistedHolds == Spec => []EndedIsUnlisted
<1>1. TypeOK /\ HomeInv => EndedIsUnlisted
  BY DEF TypeOK, HomeInv, HomeOf, EndedIsUnlisted, HasTmux
<1>2. QED
  BY <1>1, TypesAlways, HomeAlways, PTL

-----------------------------------------------------------------------------
(* The daemon and the machine, in the holder tier.                         *)

LEMMA LaunchMachine ==
  ASSUME TypeOK, HomeInv, ~HasTmux, MachineInv, up, NEW n \in Run,
         NEW c, NEW sid, Launch(n, c, sid)
  PROVE  MachineInv'
<1>1. nextId \in Id /\ nextId \in Nat /\ nextId # 0
  BY ConstantsAssumption DEF Launch, TypeOK, Id
<1>2. /\ rstate' = [rstate EXCEPT ![n] = "running"]
      /\ home' = [home EXCEPT ![n] = nextId] /\ onDisk' = onDisk \cup {nextId}
      /\ map' = [map EXCEPT ![nextId] = n] /\ plive' = [plive EXCEPT ![nextId] = TRUE]
      /\ nextId' = nextId + 1
      /\ UNCHANGED <<tier, up, adopting, exits>>
  BY DEF Launch, HasTmux
<1>3. home[n] = 0 /\ ~Running(n) /\ \A i \in Id : map[i] # n
  <2>1. HomeOf(n) /\ rstate[n] = "unused"
    BY DEF Launch, HomeInv, HasTmux
  <2>2. home[n] = 0 /\ ~Running(n) /\ \A i \in Id : map[i] = n => i = 0
    BY <2>1 DEF HomeOf, Running
  <2>3. 0 \notin Id
    BY ConstantsAssumption DEF Id
  <2>4. QED
    BY <2>2, <2>3
<1>4. \A r \in Run : Running(r)' <=> Running(r) \/ r = n
  BY <1>2 DEF Running, TypeOK
<1>5. \A r \in Run : home'[r] = IF r = n THEN nextId ELSE home[r]
  BY <1>2 DEF TypeOK
<1>6. \A i \in Id : /\ map'[i] = (IF i = nextId THEN n ELSE map[i])
                    /\ plive'[i] = (IF i = nextId THEN TRUE ELSE plive[i])
  BY <1>2 DEF TypeOK
<1>7. \A r \in Run : Running(r) => home[r] \in Id /\ home[r] < nextId
  BY DEF MachineInv, TypeOK
<1>8. \A r, q \in Run : Running(r)' /\ Running(q)' /\ home'[r] = home'[q] => r = q
  BY <1>1, <1>4, <1>5, <1>7 DEF MachineInv, Id
<1>9. \A r \in Run : Running(r)' => home'[r] \in onDisk'
  BY <1>2, <1>4, <1>5 DEF MachineInv
<1>10. \A r \in adopting' : Running(r)' /\ up' /\ map'[home'[r]] = None
  BY <1>2, <1>3, <1>4, <1>5, <1>6, <1>7, <1>1 DEF MachineInv, TypeOK, Id
<1>11. \A r \in Run : up' /\ Running(r)' =>
         /\ home'[r] < nextId'
         /\ tier' = "holder" => r \in adopting' \/ map'[home'[r]] = r
  <2> SUFFICES ASSUME NEW r \in Run, Running(r) \/ r = n
               PROVE  /\ home'[r] < nextId + 1
                      /\ tier = "holder" => r \in adopting \/ map'[home'[r]] = r
    BY <1>2, <1>4
  <2>1. CASE r = n
    <3>1. home'[r] = nextId /\ map'[nextId] = r
      BY <1>1, <1>5, <1>6, <2>1
    <3>2. nextId < nextId + 1
      BY <1>1
    <3>3. QED
      BY <3>1, <3>2
  <2>2. CASE r # n
    <3>1. /\ home[r] < nextId /\ home[r] \in Id
          /\ tier = "holder" => r \in adopting \/ map[home[r]] = r
      BY <1>7, <2>2 DEF MachineInv
    <3>2. home[r] # nextId /\ home[r] < nextId + 1
      BY <1>1, <3>1, ConstantsAssumption DEF Id
    <3>3. QED
      BY <1>5, <1>6, <2>2, <3>1, <3>2
  <2>3. QED
    BY <2>1, <2>2
<1>12. \A i \in Id : map'[i] # None => up' /\ i < nextId'
  BY <1>1, <1>2, <1>6 DEF MachineInv, Id
<1>13. \A i \in Id, r \in Run : map'[i] = r =>
         /\ (plive'[i] => Running(r)') /\ (Running(r)' => plive'[i])
         /\ \A q \in Run : Running(q)' /\ home'[q] = i => q = r
  <2> SUFFICES ASSUME NEW i \in Id, NEW r \in Run, map'[i] = r
               PROVE  /\ (plive'[i] => Running(r)') /\ (Running(r)' => plive'[i])
                      /\ \A q \in Run : Running(q)' /\ home'[q] = i => q = r
    OBVIOUS
  <2>1. CASE i = nextId
    <3>1. r = n /\ plive'[i]
      BY <1>6, <2>1
    <3>2. ASSUME NEW q \in Run, Running(q)', home'[q] = i PROVE q = n
      BY <1>1, <1>4, <1>5, <1>7, <2>1, <3>2 DEF Id
    <3>3. QED
      BY <1>4, <3>1, <3>2
  <2>2. CASE i # nextId
    <3>1. map[i] = r /\ plive'[i] = plive[i]
      BY <1>6, <2>2
    <3>2. r # n
      BY <1>3, <3>1
    <3>3. ASSUME NEW q \in Run, Running(q)', home'[q] = i PROVE q = r
      BY <1>4, <1>5, <2>2, <3>1, <3>3 DEF MachineInv
    <3>4. QED
      BY <1>4, <3>1, <3>2, <3>3 DEF MachineInv
  <2>3. QED
    BY <2>1, <2>2
<1>14. \A i \in Id, r \in Run : <<i, r>> \in exits' =>
         /\ ~Running(r)' /\ (up' => map'[i] = r)
         /\ \A q \in Run : Running(q)' => home'[q] # i
  <2> SUFFICES ASSUME NEW i \in Id, NEW r \in Run, <<i, r>> \in exits
               PROVE  /\ ~Running(r)' /\ map'[i] = r
                      /\ \A q \in Run : Running(q)' => home'[q] # i
    BY <1>2
  <2>1. map[i] = r /\ ~Running(r) /\ \A q \in Run : Running(q) => home[q] # i
    BY DEF MachineInv
  <2>2. i < nextId
    BY <2>1, ConstantsAssumption DEF MachineInv, Run
  <2>3. i = home[r]
    BY DEF HomeInv, HomeOf, HasTmux
  <2>4. i # nextId /\ r # n
    BY <1>1, <1>3, <2>2, <2>3, ConstantsAssumption DEF Id
  <2>5. QED
    BY <1>4, <1>5, <1>6, <2>1, <2>4
<1>15. QED
  BY <1>8, <1>9, <1>10, <1>11, <1>12, <1>13, <1>14 DEF MachineInv

(* What only reports an exit, or nothing at all, to the server. *)
LEMMA ReportMachine ==
  ASSUME TypeOK, HomeInv, ~HasTmux, MachineInv,
         UNCHANGED <<tier, rstate, home, onDisk, up, nextId, map, plive, adopting>>,
         \A i \in Id, r \in Run : <<i, r>> \in exits' =>
           <<i, r>> \in exits \/ (up /\ map[i] = r /\ ~plive[i])
  PROVE  MachineInv'
<1>1. \A r \in Run : Running(r)' <=> Running(r)
  BY DEF Running
<1>2. ASSUME NEW i \in Id, NEW r \in Run, <<i, r>> \in exits'
      PROVE  /\ ~Running(r) /\ (up => map[i] = r)
             /\ \A q \in Run : Running(q) => home[q] # i
  <2>1. CASE <<i, r>> \in exits
    BY <2>1 DEF MachineInv
  <2>2. CASE up /\ map[i] = r /\ ~plive[i]
    <3>1. ~Running(r)
      BY <2>2 DEF MachineInv
    <3>2. ASSUME NEW q \in Run, Running(q), home[q] = i PROVE FALSE
      <4>1. q = r
        BY <2>2, <3>2 DEF MachineInv
      <4>2. QED
        BY <3>1, <3>2, <4>1
    <3>3. QED
      BY <2>2, <3>1, <3>2
  <2>3. QED
    BY <1>2, <2>1, <2>2
<1>3. QED
  BY <1>1, <1>2 DEF MachineInv, TypeOK

LEMMA EndMachine ==
  ASSUME TypeOK, HomeInv, ~HasTmux, MachineInv, NEW n \in Run, PtyEnds(n)
  PROVE  MachineInv'
<1>1. /\ rstate' = [rstate EXCEPT ![n] = "ended"] /\ onDisk' = onDisk \ {home[n]}
      /\ adopting' = adopting \ {n} /\ UNCHANGED <<tier, home, up, nextId, map>>
      /\ Running(n)
  BY DEF PtyEnds
<1>2. \A r \in Run : Running(r)' <=> Running(r) /\ r # n
  BY <1>1 DEF Running, TypeOK
<1>3. \A i \in Id : map[i] = n => i = home[n]
  BY DEF HomeInv, HomeOf, HasTmux
<1>4. \A r \in Run : Running(r) => home[r] \in Id
  BY DEF MachineInv, TypeOK
<1>5. /\ \/ (\A i \in Id : map[i] # n) /\ plive' = plive
         \/ map[home[n]] = n /\ plive' = [plive EXCEPT ![home[n]] = FALSE]
      /\ \/ exits' = exits
         \/ map[home[n]] = n /\ exits' = exits \cup {<<home[n], n>>}
  <2>1. CASE IdOf(n) = 0
    BY <2>1, IdOfTypes DEF PtyEnds
  <2>2. CASE IdOf(n) # 0
    <3>1. map[IdOf(n)] = n /\ IdOf(n) = home[n]
      BY <1>3, <2>2, IdOfTypes
    <3>2. QED
      BY <2>2, <3>1 DEF PtyEnds
  <2>3. QED
    BY <2>1, <2>2
<1>6. \A i \in Id : plive'[i] = IF map[i] = n THEN FALSE ELSE plive[i]
  <2> SUFFICES ASSUME NEW i \in Id
               PROVE  plive'[i] = IF map[i] = n THEN FALSE ELSE plive[i]
    OBVIOUS
  <2>1. CASE map[i] = n
    <3>1. i = home[n] /\ plive' = [plive EXCEPT ![home[n]] = FALSE]
      BY <1>3, <1>5, <2>1
    <3>2. QED
      BY <2>1, <3>1 DEF TypeOK
  <2>2. CASE map[i] # n
    <3>1. CASE plive' = plive
      BY <2>2, <3>1
    <3>2. CASE map[home[n]] = n /\ plive' = [plive EXCEPT ![home[n]] = FALSE]
      BY <2>2, <3>2 DEF TypeOK
    <3>3. QED
      BY <1>5, <3>1, <3>2
  <2>3. QED
    BY <2>1, <2>2
<1>7. ASSUME NEW i \in Id, NEW r \in Run, <<i, r>> \in exits'
      PROVE  <<i, r>> \in exits \/ (r = n /\ i = home[n] /\ map[i] = n)
  <2>1. <<i, r>> \in exits \/ (map[home[n]] = n /\ <<i, r>> = <<home[n], n>>)
    BY <1>5, <1>7
  <2>2. <<i, r>> = <<home[n], n>> => i = home[n] /\ r = n
    OBVIOUS
  <2>3. QED
    BY <2>1, <2>2
<1>8. \A r \in Run : Running(r)' => home'[r] \in onDisk'
  BY <1>1, <1>2 DEF MachineInv
<1>9. \A r \in adopting' : Running(r)' /\ up' /\ map'[home'[r]] = None
  BY <1>1, <1>2 DEF MachineInv, TypeOK
<1>10. \A r \in Run : up' /\ Running(r)' =>
         /\ home'[r] < nextId'
         /\ tier' = "holder" => r \in adopting' \/ map'[home'[r]] = r
  BY <1>1, <1>2 DEF MachineInv
<1>11. \A i \in Id, r \in Run : map'[i] = r =>
         /\ (plive'[i] => Running(r)') /\ (Running(r)' => plive'[i])
         /\ \A q \in Run : Running(q)' /\ home'[q] = i => q = r
  BY <1>1, <1>2, <1>6 DEF MachineInv
<1>12. \A i \in Id, r \in Run : <<i, r>> \in exits' =>
         /\ ~Running(r)' /\ (up' => map'[i] = r)
         /\ \A q \in Run : Running(q)' => home'[q] # i
  BY <1>1, <1>2, <1>7 DEF MachineInv
<1>13. \A r, q \in Run : Running(r)' /\ Running(q)' /\ home'[r] = home'[q] => r = q
  BY <1>1, <1>2 DEF MachineInv
<1>14. \A i \in Id : map'[i] # None => up' /\ i < nextId'
  BY <1>1 DEF MachineInv
<1>15. QED
  BY <1>8, <1>9, <1>10, <1>11, <1>12, <1>13, <1>14 DEF MachineInv

LEMMA AdoptMachine ==
  ASSUME TypeOK, HomeInv, ~HasTmux, MachineInv, NEW n \in Run, Adopt(n)
  PROVE  MachineInv'
<1>1. /\ n \in adopting /\ adopting' = adopting \ {n}
      /\ map' = [map EXCEPT ![home[n]] = n]
      /\ plive' = [plive EXCEPT ![home[n]] = TRUE]
      /\ nextId' = (IF home[n] >= nextId THEN home[n] + 1 ELSE nextId)
      /\ UNCHANGED <<tier, rstate, home, onDisk, up, exits>>
  BY DEF Adopt, HasTmux
<1>2. \A r \in Run : Running(r)' <=> Running(r)
  BY <1>1 DEF Running
<1>3. up /\ Running(n) /\ map[home[n]] = None /\ home[n] \in Id /\ home[n] < nextId
  BY <1>1 DEF MachineInv, TypeOK
<1>4. nextId' = nextId
  BY <1>1, <1>3, ConstantsAssumption DEF TypeOK, Id
<1>5. \A i \in Id : /\ map'[i] = (IF i = home[n] THEN n ELSE map[i])
                    /\ plive'[i] = (IF i = home[n] THEN TRUE ELSE plive[i])
  BY <1>1, <1>3 DEF TypeOK
<1>6. \A r \in Run : Running(r) => home[r] \in Id /\ (home[r] = home[n] => r = n)
  BY <1>3 DEF MachineInv, TypeOK
<1>7. \A r \in adopting' : Running(r)' /\ up' /\ map'[home'[r]] = None
  BY <1>1, <1>2, <1>5, <1>6 DEF MachineInv, TypeOK
<1>8. \A r \in Run : up' /\ Running(r)' =>
        /\ home'[r] < nextId'
        /\ tier' = "holder" => r \in adopting' \/ map'[home'[r]] = r
  <2> SUFFICES ASSUME NEW r \in Run, Running(r)
               PROVE  /\ home[r] < nextId
                      /\ tier = "holder" => r \in adopting' \/ map'[home[r]] = r
    BY <1>1, <1>2, <1>4
  <2>1. /\ home[r] < nextId
        /\ tier = "holder" => r \in adopting \/ map[home[r]] = r
    BY <1>3 DEF MachineInv
  <2>2. CASE r = n
    BY <1>3, <1>5, <2>1, <2>2
  <2>3. CASE r # n
    BY <1>1, <1>5, <1>6, <2>1, <2>3
  <2>4. QED
    BY <2>2, <2>3
<1>9. \A i \in Id : map'[i] # None => up' /\ i < nextId'
  BY <1>1, <1>3, <1>4, <1>5 DEF MachineInv
<1>10. \A i \in Id, r \in Run : map'[i] = r =>
         /\ (plive'[i] => Running(r)') /\ (Running(r)' => plive'[i])
         /\ \A q \in Run : Running(q)' /\ home'[q] = i => q = r
  <2> SUFFICES ASSUME NEW i \in Id, NEW r \in Run, map'[i] = r
               PROVE  /\ (plive'[i] => Running(r)) /\ (Running(r) => plive'[i])
                      /\ \A q \in Run : Running(q) /\ home[q] = i => q = r
    BY <1>1, <1>2
  <2>1. CASE i = home[n]
    BY <1>3, <1>5, <1>6, <2>1
  <2>2. CASE i # home[n]
    BY <1>5, <2>2 DEF MachineInv
  <2>3. QED
    BY <2>1, <2>2
<1>11. \A i \in Id, r \in Run : <<i, r>> \in exits' =>
         /\ ~Running(r)' /\ (up' => map'[i] = r)
         /\ \A q \in Run : Running(q)' => home'[q] # i
  <2> SUFFICES ASSUME NEW i \in Id, NEW r \in Run, <<i, r>> \in exits
               PROVE  /\ ~Running(r) /\ map'[i] = r
                      /\ \A q \in Run : Running(q) => home[q] # i
    BY <1>1, <1>2
  <2>1. /\ ~Running(r) /\ map[i] = r
        /\ \A q \in Run : Running(q) => home[q] # i
    BY <1>3 DEF MachineInv
  <2>2. i # home[n]
    BY <1>3, <2>1
  <2>3. QED
    BY <1>5, <2>1, <2>2
<1>12. /\ \A r, q \in Run : Running(r)' /\ Running(q)' /\ home'[r] = home'[q] => r = q
       /\ \A r \in Run : Running(r)' => home'[r] \in onDisk'
  BY <1>1, <1>2 DEF MachineInv
<1>13. QED
  BY <1>7, <1>8, <1>9, <1>10, <1>11, <1>12 DEF MachineInv

LEMMA BootMachine ==
  ASSUME TypeOK, HomeInv, ~HasTmux, MachineInv, DaemonStarts
  PROVE  MachineInv'
<1>1. /\ ~up /\ exits = {} /\ up' = TRUE /\ adopting' = {r \in Run : Running(r)}
      /\ nextId' = Max(onDisk \cup {0}) + 1
      /\ onDisk' = {i \in onDisk : \E r \in Run : Running(r) /\ home[r] = i}
      /\ UNCHANGED <<rstate, home, map, plive, exits>>
  BY DEF DaemonStarts, FirstFree
<1>2. \A r \in Run : Running(r)' <=> Running(r)
  BY <1>1 DEF Running
<1>3. \A i \in Id : map[i] = None
  BY <1>1 DEF MachineInv
<1>4. ASSUME NEW r \in Run, Running(r) PROVE home[r] < nextId' /\ home[r] \in Id
  <2>1. onDisk \cup {0} \subseteq 0 .. MaxId /\ MaxId \in Nat
    BY ConstantsAssumption DEF TypeOK, Id
  <2>2. home[r] \in onDisk
    BY <1>4 DEF MachineInv
  <2>3. Max(onDisk \cup {0}) >= home[r] /\ Max(onDisk \cup {0}) \in 0 .. MaxId
    BY <2>1, <2>2, MaxIs
  <2>4. home[r] \in Id /\ home[r] \in 0 .. MaxId
    BY <2>1, <2>2 DEF TypeOK
  <2>5. QED
    BY <1>1, <2>1, <2>3, <2>4
<1>5. \A r \in adopting' : Running(r)' /\ up' /\ map'[home'[r]] = None
  BY <1>1, <1>2, <1>3, <1>4
<1>6. \A r \in Run : up' /\ Running(r)' =>
        home'[r] < nextId' /\ r \in adopting'
  BY <1>1, <1>2, <1>4
<1>7. \A i \in Id : map'[i] # None => up' /\ i < nextId'
  BY <1>1, <1>3
<1>8. \A i \in Id, r \in Run : map'[i] # r
  BY <1>1, <1>3, ConstantsAssumption DEF Run
<1>9. \A r \in Run : Running(r)' => home'[r] \in onDisk'
  BY <1>1, <1>2 DEF MachineInv
<1>10. \A r, q \in Run : Running(r)' /\ Running(q)' /\ home'[r] = home'[q] => r = q
  BY <1>1, <1>2 DEF MachineInv
<1>11. QED
  BY <1>1, <1>5, <1>6, <1>7, <1>8, <1>9, <1>10 DEF MachineInv

LEMMA GoneMachine ==
  ASSUME TypeOK, MachineInv, DaemonGone, home' = home,
         \/ UNCHANGED <<rstate, onDisk, exits>>
         \/ exits' = {} /\ \A r \in Run : ~Running(r)'
  PROVE  MachineInv'
<1>1. /\ up' = FALSE /\ adopting' = {} /\ \A i \in Id : map'[i] = None
  BY DEF DaemonGone, Nothing
<1>2. \A r \in Run : r # None
  BY ConstantsAssumption DEF Run
<1>3. CASE UNCHANGED <<rstate, onDisk, exits>>
  <2>1. \A r \in Run : Running(r)' <=> Running(r)
    BY <1>3 DEF Running
  <2>2. QED
    BY <1>1, <1>2, <1>3, <2>1 DEF MachineInv
<1>4. CASE exits' = {} /\ \A r \in Run : ~Running(r)'
  BY <1>1, <1>2, <1>4 DEF MachineInv
<1>5. QED
  BY <1>3, <1>4

LEMMA SweepMachine ==
  ASSUME TypeOK, MachineInv, NEW i \in Id, SweepDead(i)
  PROVE  MachineInv'
<1>1. /\ map[i] # None /\ ~plive[i] /\ <<i, map[i]>> \notin exits
      /\ map' = [map EXCEPT ![i] = None]
      /\ UNCHANGED <<tier, rstate, home, onDisk, up, nextId, plive, adopting, exits>>
  BY DEF SweepDead
<1>2. \A r \in Run : Running(r)' <=> Running(r)
  BY <1>1 DEF Running
<1>3. \A j \in Id : map'[j] = IF j = i THEN None ELSE map[j]
  BY <1>1 DEF TypeOK
<1>4. \A r \in Run : r # None
  BY ConstantsAssumption DEF Run
<1>5. \A r \in adopting' : Running(r)' /\ up' /\ map'[home'[r]] = None
  BY <1>1, <1>2, <1>3 DEF MachineInv, TypeOK
<1>6. \A r \in Run : up' /\ Running(r)' =>
        /\ home'[r] < nextId'
        /\ tier' = "holder" => r \in adopting' \/ map'[home'[r]] = r
  BY <1>1, <1>2, <1>3 DEF MachineInv, TypeOK
<1>7. \A j \in Id : map'[j] # None => up' /\ j < nextId'
  BY <1>1, <1>3 DEF MachineInv
<1>8. \A j \in Id, r \in Run : map'[j] = r =>
        /\ (plive'[j] => Running(r)') /\ (Running(r)' => plive'[j])
        /\ \A q \in Run : Running(q)' /\ home'[q] = j => q = r
  BY <1>1, <1>2, <1>3, <1>4 DEF MachineInv
<1>9. \A j \in Id, r \in Run : <<j, r>> \in exits' =>
         /\ ~Running(r)' /\ (up' => map'[j] = r)
         /\ \A q \in Run : Running(q)' => home'[q] # j
  BY <1>1, <1>2, <1>3 DEF MachineInv
<1>10. /\ \A r, q \in Run : Running(r)' /\ Running(q)' /\ home'[r] = home'[q] => r = q
       /\ \A r \in Run : Running(r)' => home'[r] \in onDisk'
  BY <1>1, <1>2 DEF MachineInv
<1>11. QED
  BY <1>5, <1>6, <1>7, <1>8, <1>9, <1>10 DEF MachineInv

LEMMA DropMachine ==
  ASSUME TypeOK, MachineInv, NEW n \in Run, AdoptFails(n)
  PROVE  MachineInv'
<1>1. /\ tier = "wedged" /\ adopting' \subseteq adopting
      /\ UNCHANGED <<tier, rstate, home, onDisk, up, nextId, map, plive, exits>>
  BY DEF AdoptFails
<1>2. \A r \in Run : Running(r)' <=> Running(r)
  BY <1>1 DEF Running
<1>3. \A r \in adopting' : Running(r)' /\ up' /\ map'[home'[r]] = None
  BY <1>1, <1>2 DEF MachineInv, TypeOK
<1>4. /\ \A r, q \in Run : Running(r)' /\ Running(q)' /\ home'[r] = home'[q] => r = q
      /\ \A r \in Run : Running(r)' => home'[r] \in onDisk'
      /\ \A r \in Run : up' /\ Running(r)' => home'[r] < nextId'
  BY <1>1, <1>2 DEF MachineInv
<1>5. /\ \A i \in Id : map'[i] # None => up' /\ i < nextId'
      /\ \A i \in Id, r \in Run : map'[i] = r =>
           /\ (plive'[i] => Running(r)') /\ (Running(r)' => plive'[i])
           /\ \A q \in Run : Running(q)' /\ home'[q] = i => q = r
  BY <1>1, <1>2 DEF MachineInv
<1>6. \A i \in Id, r \in Run : <<i, r>> \in exits' =>
        /\ ~Running(r)' /\ (up' => map'[i] = r)
        /\ \A q \in Run : Running(q)' => home'[q] # i
  BY <1>1, <1>2 DEF MachineInv
<1>7. tier' # "holder"
  BY <1>1
<1>8. QED
  BY <1>3, <1>4, <1>5, <1>6, <1>7 DEF MachineInv

LEMMA MachineNext ==
  ASSUME TypeOK, CurInv, HomeInv, ~HasTmux, MachineInv, [Next]_vars
  PROVE  MachineInv'
<1> DEFINE Same == UNCHANGED <<tier, rstate, home, onDisk, up, nextId, map, plive, adopting>>
<1>1. CASE \E r \in Run, c \in Conv, resume \in BOOLEAN : Start(r, c, resume)
  BY <1>1, LaunchMachine DEF Start
<1>2. CASE \E n \in Run : RestoreSpawn(n)
  BY <1>2, LaunchMachine DEF RestoreSpawn
<1>3. CASE RestoreAdd \/ \E r \in Run : Record(r)
  <2>1. PICK n \in Run : adding[n] # 0 /\ AddRow(n) /\ Same
    BY <1>3 DEF RestoreAdd, Record, CurInv
  <2>2. ASSUME NEW i \in Id, NEW r \in Run, <<i, r>> \in exits'
        PROVE  <<i, r>> \in exits \/ (up /\ map[i] = r /\ ~plive[i])
    BY <2>1, <2>2 DEF AddRow
  <2>3. QED
    BY <2>1, <2>2, ReportMachine
<1>4. CASE \E r \in Run : PtyEnds(r)
  BY <1>4, EndMachine
<1>5. CASE \E r \in Run : Adopt(r)
  BY <1>5, AdoptMachine
<1>6. CASE \E r \in Run : AdoptFails(r)
  BY <1>6, DropMachine
<1>7. CASE DaemonStarts
  BY <1>7, BootMachine
<1>8. CASE DaemonDies
  BY <1>8, GoneMachine DEF DaemonDies
<1>9. CASE \E removed \in SUBSET Id : Reboot(removed)
  <2>1. exits' = {} /\ home' = home /\ DaemonGone
    BY <1>9 DEF Reboot, ServerGone
  <2>2. \A r \in Run : ~Running(r)'
    BY <1>9 DEF Reboot, Running
  <2>3. QED
    BY <2>1, <2>2, GoneMachine
<1>10. CASE \E i \in Id : SweepDead(i)
  BY <1>10, SweepMachine
<1>11. CASE \/ \E i \in Id, r \in Run : ExitEvent(i, r)
            \/ \E orderly \in BOOLEAN : ServerStops(orderly)
  <2>1. Same /\ exits' \subseteq exits
    BY <1>11 DEF ExitEvent, ServerStops, ServerGone
  <2>2. QED
    BY <2>1, ReportMachine
<1>12. CASE \/ \E r \in Run : Touch(r)
            \/ \E r \in Run : AddFails(r)
            \/ ServerStarts \/ MonitorConnects \/ Read \/ List1 \/ List2
            \/ RefreshOne \/ DropDead \/ SpawnFails \/ RestoreDrop \/ RestoreDone
            \/ UNCHANGED vars
  <2>1. Same /\ exits' = exits
    BY <1>12 DEF Touch, AddFails, ServerStarts, MonitorConnects, Read, List1, List2,
       RefreshOne, DropDead, SpawnFails, RestoreDrop, RestoreDone, vars
  <2>2. QED
    BY <2>1, ReportMachine
<1>13. CASE \E cwd \in {"ok", "gone", "unknown"}, sound \in BOOLEAN : FilterOne(cwd, sound)
  <2>1. Same /\ exits' = exits
    BY <1>13 DEF FilterOne
  <2>2. QED
    BY <2>1, ReportMachine
<1>14. QED
  BY <1>1, <1>2, <1>3, <1>4, <1>5, <1>6, <1>7, <1>8, <1>9, <1>10, <1>11,
     <1>12, <1>13 DEF Next, Step

(* The tier stays what it is. *)
LEMMA TierNext == ASSUME [Next]_vars PROVE tier' = tier /\ may' = may
BY DEF Next, Step, vars, Start, Record, AddFails, Touch, PtyEnds, ExitEvent,
       SweepDead, Adopt, AdoptFails, DaemonStarts, DaemonDies, ServerStarts,
       MonitorConnects, ServerStops, Reboot, Read, List1, List2, RefreshOne,
       DropDead, FilterOne, RestoreSpawn, SpawnFails, RestoreAdd,
       RestoreDrop, RestoreDone, Launch

LEMMA MachineAlways == Spec => [](~HasTmux => MachineInv)
<1>1. Init => MachineInv
  BY ConstantsAssumption DEF Init, MachineInv, Nothing, Run, Running
<1>2. /\ TypeOK /\ CurInv /\ HomeInv /\ (~HasTmux => MachineInv) /\ [Next]_vars
      => (~HasTmux => MachineInv)'
  BY MachineNext, TierNext DEF HasTmux
<1>3. QED
  BY <1>1, <1>2, TypesAlways, HomeAlways, PTL DEF Spec

-----------------------------------------------------------------------------
(* Where the restore is.                                                   *)

LEMMA PhaseNext ==
  ASSUME TypeOK, CurInv, PhaseInv, [Next]_vars
  PROVE  PhaseInv'
<1> DEFINE Same == UNCHANGED <<srv, phase, up, dead, cand, chosen, cur, snapId>>
<1>1. ASSUME Same, adding' = adding \/ srv PROVE PhaseInv'
  BY <1>1 DEF PhaseInv
<1>2. CASE \/ \E r \in Run, c \in Conv, resume \in BOOLEAN : Start(r, c, resume)
           \/ \E r \in Run : Record(r)
  <2>1. Same /\ srv
    BY <1>2 DEF Start, Launch, Record
  <2>2. QED
    BY <1>1, <2>1
<1>3. CASE \/ \E r \in Run : Touch(r) \/ PtyEnds(r) \/ Adopt(r) \/ AdoptFails(r)
           \/ \E i \in Id : SweepDead(i)
           \/ \E i \in Id, r \in Run : ExitEvent(i, r)
           \/ MonitorConnects \/ UNCHANGED vars
  <2>1. Same /\ adding' = adding
    BY <1>3 DEF Touch, PtyEnds, Adopt, AdoptFails, SweepDead, ExitEvent,
       MonitorConnects, vars
  <2>2. QED
    BY <1>1, <2>1
<1>4. CASE DaemonStarts \/ DaemonDies \/ ServerStarts
  BY <1>4 DEF DaemonStarts, DaemonDies, DaemonGone, ServerStarts, PhaseInv
<1>5. CASE \/ \E orderly \in BOOLEAN : ServerStops(orderly)
           \/ \E removed \in SUBSET Id : Reboot(removed)
  BY <1>5 DEF ServerStops, Reboot, ServerGone, ClearPlan, PhaseInv
<1>6. CASE Read \/ List1 \/ List2 \/ RestoreDone
  BY <1>6 DEF Read, List1, List2, Lost, Rows, RestoreDone, Filtered, PhaseInv
<1>7. CASE RefreshOne \/ DropDead \/ SpawnFails
  BY <1>7 DEF RefreshOne, DropDead, SpawnFails, Filtered, PhaseInv
<1>8. CASE \E cwd \in {"ok", "gone", "unknown"}, sound \in BOOLEAN : FilterOne(cwd, sound)
  BY <1>8 DEF FilterOne, PhaseInv
<1>9. CASE \E n \in Run : RestoreSpawn(n)
  <2>1. Max(chosen) \in chosen
    BY <1>9, Picked DEF RestoreSpawn, TypeOK
  <2>2. phase = "work" /\ phase' = "add" /\ cur'[1] = Max(chosen) /\ chosen' = chosen
        /\ UNCHANGED <<srv, cand, snapId>>
    BY <1>9 DEF RestoreSpawn, Filtered, Launch
  <2>3. QED
    BY <2>1, <2>2 DEF PhaseInv
<1>10. CASE RestoreAdd \/ RestoreDrop
  BY <1>10 DEF RestoreAdd, RestoreDrop, AddRow, PhaseInv
<1>11. CASE \E r \in Run : AddFails(r)
  <2> PICK r \in Run : AddFails(r)
    BY <1>11
  <2>1. srv /\ UNCHANGED <<srv, up, dead, cand, chosen, cur, snapId>>
    BY DEF AddFails
  <2>2. \/ phase' = phase
        \/ phase' = "drop" /\ r = cur[2] /\ cur[1] \in chosen
    BY ConstantsAssumption DEF AddFails, PhaseInv, Run
  <2>3. QED
    BY <2>1, <2>2 DEF PhaseInv
<1>12. QED
  BY <1>2, <1>3, <1>4, <1>5, <1>6, <1>7, <1>8, <1>9, <1>10, <1>11 DEF Next, Step

LEMMA PhaseAlways == Spec => []PhaseInv
<1>1. Init => PhaseInv
  BY DEF Init, NoPlan, PhaseInv
<1>2. TypeOK /\ CurInv /\ PhaseInv /\ [Next]_vars => PhaseInv'
  BY PhaseNext
<1>3. QED
  BY <1>1, <1>2, TypesAlways, PTL DEF Spec

-----------------------------------------------------------------------------
(* What is resumed has ended.                                              *)

OverInv == \A r \in Run : r \in chosen \/ r \in restored => rstate[r] = "ended"

(* Once ended, always ended. *)
LEMMA StayEnded ==
  ASSUME TypeOK, [Next]_vars, NEW r \in Run, rstate[r] = "ended"
  PROVE  rstate'[r] = "ended"
<1>1. ASSUME NEW n \in Run, NEW c, NEW sid, Launch(n, c, sid)
      PROVE  rstate'[r] = "ended"
  BY <1>1 DEF Launch, TypeOK
<1>2. CASE \/ \E n \in Run, c \in Conv, resume \in BOOLEAN : Start(n, c, resume)
           \/ \E n \in Run : RestoreSpawn(n)
  BY <1>1, <1>2 DEF Start, RestoreSpawn
<1>3. CASE \E n \in Run : PtyEnds(n)
  BY <1>3 DEF PtyEnds, TypeOK
<1>4. CASE \E removed \in SUBSET Id : Reboot(removed)
  BY <1>4 DEF Reboot, Running
<1>5. CASE \/ \E n \in Run : Record(n) \/ AddFails(n) \/ Touch(n) \/ Adopt(n)
           \/ \E n \in Run : AdoptFails(n)
           \/ \E i \in Id : SweepDead(i)
           \/ \E i \in Id, n \in Run : ExitEvent(i, n)
           \/ \E orderly \in BOOLEAN : ServerStops(orderly)
           \/ UNCHANGED vars
  BY <1>5 DEF Record, AddFails, Touch, Adopt, AdoptFails, SweepDead, ExitEvent,
     ServerStops, vars
<1>6. CASE \/ DaemonStarts \/ DaemonDies \/ ServerStarts \/ MonitorConnects
           \/ Read \/ List1 \/ List2 \/ RefreshOne \/ DropDead
           \/ SpawnFails \/ RestoreAdd \/ RestoreDrop \/ RestoreDone
  BY <1>6 DEF DaemonStarts, DaemonDies, ServerStarts, MonitorConnects, Read,
     List1, List2, RefreshOne, DropDead, SpawnFails, RestoreAdd, RestoreDrop,
     RestoreDone
<1>7. CASE \E cwd \in {"ok", "gone", "unknown"}, sound \in BOOLEAN : FilterOne(cwd, sound)
  BY <1>7 DEF FilterOne
<1>8. QED
  BY <1>2, <1>3, <1>4, <1>5, <1>6, <1>7 DEF Next, Step

(* Whoever is chosen was a candidate whose holder is not alive: and the    *)
(* json of a holder that is alive is there, under the ptyId of the row.    *)
LEMMA FilterOver ==
  ASSUME TypeOK, HomeInv, ~HasTmux, MachineInv, PhaseInv, NEW cwd,
         NEW sound \in BOOLEAN, FilterOne(cwd, sound), NEW r \in chosen'
  PROVE  r \in chosen \/ (r \in cand /\ rstate[r] = "ended")
<1> DEFINE x == Min(cand)
<1>1. x \in cand /\ x \in Run
  BY Picked DEF FilterOne, TypeOK
<1>2. HomeOf(x) /\ snapId[x] # 0
  BY <1>1 DEF HomeInv, PhaseInv
<1>3. snapId[x] = home[x] /\ rstate[x] # "unused"
  BY <1>2 DEF HomeOf
<1>4. ~HolderAlive(snapId[x]) => rstate[x] = "ended"
  BY <1>1, <1>3 DEF HolderAlive, MachineInv, Running, TypeOK
<1>5. \/ chosen' = chosen
      \/ ~HolderAlive(snapId[x]) /\ chosen' = Newest(chosen \cup {x})
  BY DEF FilterOne
<1>. HIDE DEF x
<1>6. Newest(chosen \cup {x}) \subseteq chosen \cup {x}
  BY NewestOf
<1>7. QED
  BY <1>1, <1>4, <1>5, <1>6

LEMMA OverNext ==
  ASSUME TypeOK, HomeInv, ~HasTmux, MachineInv, PhaseInv, OverInv, [Next]_vars
  PROVE  OverInv'
<1>1. \A r \in Run : r \in chosen \/ r \in restored => rstate'[r] = "ended"
  BY StayEnded DEF OverInv
<1>2. ASSUME chosen' \subseteq chosen, restored' \subseteq restored \cup chosen
      PROVE  OverInv'
  BY <1>1, <1>2 DEF OverInv
<1>3. CASE \E cwd \in {"ok", "gone", "unknown"}, sound \in BOOLEAN : FilterOne(cwd, sound)
  <2>1. restored' = restored /\ rstate' = rstate
    BY <1>3 DEF FilterOne
  <2>2. \A r \in chosen' : r \in chosen \/ rstate[r] = "ended"
    BY <1>3, FilterOver
  <2>3. QED
    BY <1>1, <2>1, <2>2 DEF OverInv
<1>4. CASE \E n \in Run : RestoreSpawn(n)
  <2>1. Max(chosen) \in chosen
    BY <1>4, Picked DEF RestoreSpawn, TypeOK
  <2>2. QED
    BY <1>2, <1>4, <2>1 DEF RestoreSpawn
<1>5. CASE \/ \E r \in Run, c \in Conv, resume \in BOOLEAN : Start(r, c, resume)
           \/ \E r \in Run : Record(r) \/ AddFails(r) \/ Touch(r) \/ PtyEnds(r)
           \/ \E r \in Run : Adopt(r) \/ AdoptFails(r)
           \/ \E i \in Id : SweepDead(i)
           \/ \E i \in Id, r \in Run : ExitEvent(i, r)
           \/ \E orderly \in BOOLEAN : ServerStops(orderly)
           \/ \E removed \in SUBSET Id : Reboot(removed)
  BY <1>2, <1>5 DEF Start, Record, AddFails, Touch, PtyEnds, Adopt, AdoptFails,
     SweepDead, ExitEvent, ServerStops, Reboot, ServerGone, ClearPlan
<1>6. CASE \/ DaemonStarts \/ DaemonDies \/ ServerStarts \/ MonitorConnects
           \/ Read \/ List1 \/ List2 \/ RefreshOne \/ DropDead \/ SpawnFails
           \/ RestoreAdd \/ RestoreDrop \/ RestoreDone \/ UNCHANGED vars
  BY <1>2, <1>6 DEF DaemonStarts, DaemonDies, ServerStarts, MonitorConnects,
     Read, List1, List2, RefreshOne, DropDead, SpawnFails, RestoreAdd, RestoreDrop,
     RestoreDone, vars
<1>7. QED
  BY <1>3, <1>4, <1>5, <1>6 DEF Next, Step

(* A row that the restore resumes is that of a session which has ended:    *)
(* whoever starts, dies, is slow or is replaced during the restore, and     *)
(* whatever holders the daemon failed to adopt.                            *)
THEOREM ResumedIsOverHolds == Spec => []ResumedIsOver
<1>1. Init => (~HasTmux => OverInv)
  BY DEF Init, NoPlan, OverInv
<1>2. /\ TypeOK /\ HomeInv /\ (~HasTmux => MachineInv) /\ PhaseInv
      /\ (~HasTmux => OverInv) /\ [Next]_vars
      => (~HasTmux => OverInv)'
  BY OverNext, TierNext DEF HasTmux
<1>3. TypeOK /\ (~HasTmux => OverInv) => ResumedIsOver
  BY DEF TypeOK, HasTmux, OverInv, ResumedIsOver, Running
<1>4. QED
  BY <1>1, <1>2, <1>3, TypesAlways, HomeAlways, MachineAlways, PhaseAlways, PTL
  DEF Spec

-----------------------------------------------------------------------------
(* Rows of what runs.                                                      *)

(* What a stopping server takes from the list for dead does not run. *)
LEMMA GoneRows ==
  ASSUME TypeOK, HomeInv, ~HasTmux, MachineInv, NEW q \in Run, NEW r \in Run,
         rowId[q] # 0, Matches(q, rowId[q]) # {}, AliveMatch(q, rowId[q]) = 0,
         rowId[r] = rowId[q]
  PROVE  ~Running(r)
<1> DEFINE i == rowId[q]
<1>1. i \in Id /\ i \in Nat /\ i # 0
  BY ConstantsAssumption DEF TypeOK, Id
<1>2. Matches(q, i) = {i} /\ map[i] # None
  BY DEF Matches
<1>3. Min({i}) = i
  BY <1>1 DEF Min
<1>4. ~plive[i]
  BY <1>1, <1>2, <1>3 DEF AliveMatch
<1>5. home[r] = i
  BY <1>1 DEF HomeInv, HomeOf
<1>6. map[i] \in Run
  BY <1>1, <1>2 DEF TypeOK
<1>7. Running(r) => map[i] = r
  BY <1>1, <1>5, <1>6 DEF MachineInv
<1>8. QED
  BY <1>1, <1>4, <1>7 DEF MachineInv

LEMMA RowsNext ==
  ASSUME TypeOK, CurInv, HomeInv, ~HasTmux, MachineInv, PhaseInv, [Next]_vars,
         NEW r \in Run, Running(r), rowId[r] # 0, rowId'[r] = 0
  PROVE  ByRestore
<1>1. \/ \E i \in Id, q \in Run : ExitEvent(i, q)
      \/ \E orderly \in BOOLEAN : ServerStops(orderly)
      \/ RefreshOne \/ DropDead \/ SpawnFails \/ RestoreDrop
      \/ \E cwd \in {"ok", "gone", "unknown"}, sound \in BOOLEAN : FilterOne(cwd, sound)
  <2>1. \A n \in Run : \A c, sid : ~Launch(n, c, sid)
    BY DEF Launch
  <2>2. \A n \in Run : adding[n] # 0 => ~AddRow(n)
    BY DEF AddRow, TypeOK
  <2>3. ~RestoreAdd /\ \A n \in Run : ~Record(n) /\ ~RestoreSpawn(n)
    BY <2>1, <2>2 DEF RestoreAdd, Record, RestoreSpawn, CurInv
  <2>4. \A n \in Run, c \in Conv, resume \in BOOLEAN : ~Start(n, c, resume)
    BY <2>1 DEF Start
  <2>5. /\ ~UNCHANGED vars /\ \A removed \in SUBSET Id : ~Reboot(removed)
        /\ \A n \in Run : /\ ~AddFails(n) /\ ~Touch(n) /\ ~PtyEnds(n)
                          /\ ~Adopt(n) /\ ~AdoptFails(n)
        /\ \A i \in Id : ~SweepDead(i)
    BY DEF vars, Reboot, AddFails, Touch, PtyEnds, Adopt, AdoptFails, SweepDead
  <2>6. /\ ~DaemonStarts /\ ~DaemonDies /\ ~ServerStarts /\ ~MonitorConnects
        /\ ~Read /\ ~List1 /\ ~List2 /\ ~RestoreDone
    BY DEF DaemonStarts, DaemonDies, ServerStarts, MonitorConnects, Read, List1,
       List2, RestoreDone
  <2>7. QED
    BY <2>3, <2>4, <2>5, <2>6 DEF Next, Step
<1>2. HomeOf(r) /\ rowId[r] = home[r] /\ home[r] \in Id
  BY DEF HomeInv, HomeOf, TypeOK
<1>3. CASE \E i \in Id, q \in Run : ExitEvent(i, q)
  <2> PICK i \in Id, q \in Run : ExitEvent(i, q)
    BY <1>3
  <2>1. rowId[r] = i
    BY RemoveRows DEF ExitEvent
  <2>2. <<i, q>> \in exits
    BY DEF ExitEvent
  <2>3. QED
    BY <1>2, <2>1, <2>2 DEF MachineInv
<1>4. CASE \E orderly \in BOOLEAN : ServerStops(orderly)
  <2>1. PICK q \in Run : /\ rowId[q] # 0 /\ Matches(q, rowId[q]) # {}
                         /\ AliveMatch(q, rowId[q]) = 0 /\ rowId[q] = rowId[r]
    BY <1>4 DEF ServerStops
  <2>2. QED
    BY <2>1, GoneRows
<1>5. CASE RefreshOne
  BY <1>5 DEF RefreshOne, HomeInv
<1>6. CASE DropDead
  <2>1. Min(dead) \in dead /\ dead' = dead \ {Min(dead)}
    BY <1>6, Picked DEF DropDead, TypeOK
  <2>2. srv' /\ dead' # dead
    BY <1>6, <2>1 DEF DropDead, PhaseInv, TypeOK
  <2>3. QED
    BY <2>2 DEF ByRestore
<1>7. CASE SpawnFails
  <2>1. Max(chosen) \in chosen /\ chosen' = chosen \ {Max(chosen)}
    BY <1>7, Picked DEF SpawnFails, TypeOK
  <2>2. srv' /\ chosen' # chosen
    BY <1>7, <2>1 DEF SpawnFails, Filtered, PhaseInv, TypeOK
  <2>3. QED
    BY <2>2 DEF ByRestore
<1>8. CASE RestoreDrop
  <2>1. cur[1] \in chosen /\ chosen' = chosen \ {cur[1]}
    BY <1>8 DEF RestoreDrop, PhaseInv
  <2>2. srv' /\ chosen' # chosen
    BY <1>8, <2>1 DEF RestoreDrop, PhaseInv, TypeOK
  <2>3. QED
    BY <2>2 DEF ByRestore
<1>9. CASE \E cwd \in {"ok", "gone", "unknown"}, sound \in BOOLEAN : FilterOne(cwd, sound)
  <2>1. Min(cand) \in cand /\ cand' = cand \ {Min(cand)}
    BY <1>9, Picked DEF FilterOne, TypeOK
  <2>2. srv' /\ cand' # cand
    BY <1>9, <2>1 DEF FilterOne, PhaseInv, TypeOK
  <2>3. QED
    BY <2>2 DEF ByRestore
<1>10. QED
  BY <1>1, <1>3, <1>4, <1>5, <1>6, <1>7, <1>8, <1>9

(* No exit event, no stop of a server and no start of a session takes the  *)
(* row of a session that runs, though rows go by ptyId and ptyIds start     *)
(* over with every daemon.                                                 *)
THEOREM RowsOutliveExitsHolds == Spec => RowsOutliveExits
<1>1. /\ TypeOK /\ CurInv /\ HomeInv /\ (~HasTmux => MachineInv) /\ PhaseInv
      /\ [Next]_vars
      => [tier # "tmux" =>
            \A r \in Run : Running(r) /\ rowId[r] # 0 /\ rowId'[r] = 0 => ByRestore
         ]_vars
  BY RowsNext DEF HasTmux
<1>2. QED
  BY <1>1, TypesAlways, HomeAlways, MachineAlways, PhaseAlways, PTL
  DEF Spec, RowsOutliveExits

-----------------------------------------------------------------------------
(* Who is to be resumed, or was, has ended, and nobody was told.           *)

Untold(r) == /\ r \notin ended /\ adding[r] = 0
             /\ \A i \in Id : <<i, r>> \notin exits

Unheard(r) == rstate[r] = "ended" /\ Untold(r)

(* A candidate may yet be running: in a holder that the daemon has given    *)
(* up, and that nobody watches any more.                                   *)
Unwatched(r) ==
  tier = "wedged" /\ r \notin adopting /\ \A i \in Id : map[i] # r
Silent(r) == Untold(r) /\ rstate[r] # "unused" /\ (Running(r) => Unwatched(r))

(* While the restore makes its lists, the daemon still lists a session     *)
(* that the server was told has ended since: it is not taken for lost.     *)
HeardInv ==
  \A r \in ended :
    /\ rstate[r] = "ended"
    /\ phase \in {"list1", "list2"} /\ up /\ snapId[r] # 0 => map[snapId[r]] = r

LEMMA LostAreSilent ==
  ASSUME TypeOK, HomeInv, MachineInv, HeardInv, ~HasTmux, may = {}, List2,
         NEW x \in cand'
  PROVE  Silent(x)
<1>1. x \in Rows /\ x \notin Matched /\ up /\ adopting = {} /\ phase = "list2"
  BY DEF List2, Lost, Known
<1>2. /\ x \in Run /\ x # None /\ snapId[x] # 0 /\ snapId[x] \in Id
      /\ Matches(x, snapId[x]) = {}
  BY <1>1, ConstantsAssumption DEF Rows, Matched, TypeOK, Run
<1>3. map[snapId[x]] = None
  BY <1>2 DEF Matches
<1>4. HomeOf(x)
  BY <1>2 DEF HomeInv
<1>5. snapId[x] = home[x] /\ rstate[x] # "unused" /\ adding[x] = 0
  BY <1>2, <1>4 DEF HomeOf
<1>6. x \notin ended
  BY <1>1, <1>2, <1>3 DEF HeardInv
<1>7. \A i \in Id : map[i] # x /\ <<i, x>> \notin exits
  BY <1>1, <1>2, <1>3, <1>4, <1>5 DEF HomeOf, MachineInv
<1>8. Running(x) => tier = "wedged"
  BY <1>1, <1>2, <1>3, <1>5, ConstantsAssumption DEF MachineInv, TypeOK, HasTmux
<1>9. QED
  BY <1>1, <1>5, <1>6, <1>7, <1>8 DEF Silent, Untold, Unwatched

LEMMA HeardNext ==
  ASSUME TypeOK, CurInv, HomeInv, MachineInv, PhaseInv, HeardInv,
         ~HasTmux, [Next]_vars
  PROVE  HeardInv'
<1>1. ASSUME UNCHANGED <<ended, map, up>>,
             \A r \in ended : rstate'[r] = "ended",
             phase' \in {"list1", "list2"} =>
               phase \in {"list1", "list2"} /\ snapId' = snapId
      PROVE  HeardInv'
  BY <1>1 DEF HeardInv
<1>2. ASSUME NEW n \in Run, NEW c, NEW sid, Launch(n, c, sid), up,
             UNCHANGED <<ended, snapId>>, phase' \in {"list1", "list2"} => phase' = phase
      PROVE  HeardInv'
  <2> SUFFICES ASSUME NEW r \in ended
               PROVE  /\ rstate'[r] = "ended"
                      /\ phase' \in {"list1", "list2"} /\ snapId[r] # 0 =>
                           map'[snapId[r]] = r
    BY <1>2 DEF HeardInv
  <2>1. r \in Run /\ rstate[r] = "ended" /\ n # r
    BY <1>2 DEF HeardInv, Launch, TypeOK
  <2>2. rstate'[r] = "ended"
    BY <1>2, <2>1 DEF Launch, TypeOK
  <2>3. ASSUME phase' \in {"list1", "list2"}, snapId[r] # 0
        PROVE  map'[snapId[r]] = r
    <3>1. map[snapId[r]] = r /\ snapId[r] \in Id /\ r # None
      BY <1>2, <2>1, <2>3, ConstantsAssumption DEF HeardInv, TypeOK, Run
    <3>2. snapId[r] < nextId /\ snapId[r] \in Nat
      BY <3>1, ConstantsAssumption DEF MachineInv, Id
    <3>3. map' = [map EXCEPT ![nextId] = n] /\ snapId[r] # nextId
      BY <1>2, <3>2 DEF Launch
    <3>4. QED
      BY <3>1, <3>3 DEF TypeOK
  <2>4. QED
    BY <2>2, <2>3
<1>3. CASE \E r \in Run, c \in Conv, resume \in BOOLEAN : Start(r, c, resume)
  BY <1>2, <1>3 DEF Start
<1>4. CASE \E n \in Run : RestoreSpawn(n)
  BY <1>2, <1>4 DEF RestoreSpawn
<1>5. CASE \E i \in Id, q \in Run : ExitEvent(i, q)
  <2> PICK i \in Id, q \in Run : ExitEvent(i, q)
    BY <1>5
  <2>1. <<i, q>> \in exits /\ HomeOf(q)
    BY DEF ExitEvent, HomeInv
  <2>2. home[q] = i /\ i # 0 /\ ~Running(q) /\ (up => map[i] = q)
    BY <2>1, ConstantsAssumption DEF HomeOf, MachineInv, Id
  <2>3. rstate[q] = "ended" /\ snapId[q] \in {0, i}
    BY <2>1, <2>2 DEF HomeOf, Running, TypeOK
  <2>4. ended' \subseteq ended \cup {q} /\ UNCHANGED <<rstate, map, up, snapId, phase>>
    BY DEF ExitEvent
  <2>5. QED
    BY <2>2, <2>3, <2>4 DEF HeardInv
<1>6. CASE \E r \in Run : PtyEnds(r)
  <2>1. \A r \in ended : rstate'[r] = "ended"
    BY <1>6 DEF PtyEnds, HeardInv, TypeOK
  <2>2. QED
    BY <1>1, <1>6, <2>1 DEF PtyEnds
<1>7. CASE \E i \in Id : SweepDead(i)
  <2> PICK i \in Id : SweepDead(i)
    BY <1>7
  <2>1. ASSUME NEW r \in ended, snapId[r] # 0, map[snapId[r]] = r
        PROVE  map'[snapId[r]] = r
    BY <2>1 DEF SweepDead, TypeOK
  <2>2. UNCHANGED <<ended, rstate, up, snapId, phase>>
    BY DEF SweepDead
  <2>3. QED
    BY <2>1, <2>2 DEF HeardInv
<1>8. CASE \E n \in Run : Adopt(n)
  <2> PICK n \in Run : Adopt(n)
    BY <1>8
  <2>1. map[home[n]] = None /\ map' = [map EXCEPT ![home[n]] = n]
    BY DEF Adopt, MachineInv, HasTmux
  <2>2. ASSUME NEW r \in ended, snapId[r] # 0, map[snapId[r]] = r
        PROVE  map'[snapId[r]] = r
    <3>1. r \in Run /\ r # None /\ snapId[r] # home[n] /\ snapId[r] \in Id
      BY <2>1, <2>2, ConstantsAssumption DEF TypeOK, Run
    <3>2. QED
      BY <2>1, <2>2, <3>1 DEF TypeOK
  <2>3. UNCHANGED <<ended, rstate, up, snapId, phase>>
    BY DEF Adopt
  <2>4. QED
    BY <2>2, <2>3 DEF HeardInv
<1>9. CASE DaemonStarts
  BY <1>9 DEF DaemonStarts, PhaseInv, HeardInv
<1>10. CASE DaemonDies
  BY <1>10 DEF DaemonDies, DaemonGone, HeardInv
<1>11. CASE \E removed \in SUBSET Id : Reboot(removed)
  BY <1>11 DEF Reboot, ServerGone, HeardInv, Running, TypeOK
<1>12. CASE Read
  <2>1. \A r \in ended : rowId[r] = 0
    BY DEF HomeInv, HomeOf, HasTmux, TypeOK
  <2>2. QED
    BY <1>12, <2>1 DEF Read, HeardInv
<1>13. CASE RestoreAdd \/ \E n \in Run : Record(n)
  <2>1. /\ UNCHANGED <<ended, map, up, rstate, snapId>>
        /\ phase' \in {"list1", "list2"} => phase' = phase
    BY <1>13 DEF RestoreAdd, Record
  <2>2. QED
    BY <2>1 DEF HeardInv
<1>14. CASE \/ \E n \in Run : Touch(n) \/ AdoptFails(n)
            \/ \E orderly \in BOOLEAN : ServerStops(orderly)
            \/ \E n \in Run : AddFails(n)
            \/ ServerStarts \/ MonitorConnects
            \/ List1 \/ List2 \/ RefreshOne \/ DropDead
            \/ SpawnFails \/ RestoreDrop \/ RestoreDone \/ UNCHANGED vars
  <2>1. /\ UNCHANGED <<ended, map, up, rstate>>
        /\ phase' \in {"list1", "list2"} =>
             phase \in {"list1", "list2"} /\ snapId' = snapId
    BY <1>14 DEF Touch, AddFails, AdoptFails, ServerStops, ServerGone, ServerStarts,
       MonitorConnects, List1, List2, RefreshOne, DropDead,
       SpawnFails, RestoreDrop, RestoreDone, vars
  <2>2. QED
    BY <1>1, <2>1 DEF HeardInv
<1>15. CASE \E cwd \in {"ok", "gone", "unknown"}, sound \in BOOLEAN : FilterOne(cwd, sound)
  <2>1. UNCHANGED <<ended, map, up, rstate, phase, snapId>>
    BY <1>15 DEF FilterOne
  <2>2. QED
    BY <1>1, <2>1 DEF HeardInv
<1>16. QED
  BY <1>3, <1>4, <1>5, <1>6, <1>7, <1>8, <1>9, <1>10, <1>11, <1>12, <1>13,
     <1>14, <1>15 DEF Next, Step

(* Silence is kept, until the candidate is chosen or given up. *)
LEMMA StaySilent ==
  ASSUME TypeOK, HomeInv, MachineInv, CurInv, PhaseInv, ~HasTmux, may = {},
         [Next]_vars, NEW r \in Run, Silent(r), rstate[r] # "ended" => r \in cand
  PROVE  Silent(r)'
<1>1. /\ rstate[r] # "unused" /\ r \notin ended /\ adding[r] = 0
      /\ \A i \in Id : <<i, r>> \notin exits
  BY DEF Silent, Untold
<1>2. rstate[r] = "ended" \/ (Running(r) /\ Unwatched(r) /\ r \in cand)
  <2>1. rstate[r] = "running" \/ rstate[r] = "ended"
    BY <1>1 DEF TypeOK
  <2>2. QED
    BY <2>1 DEF Silent, Running
<1>3. ASSUME Untold(r)', rstate'[r] = rstate[r], tier' = tier,
             r \in adopting' => r \in adopting,
             \A i \in Id : map'[i] = r => map[i] = r
      PROVE  Silent(r)'
  BY <1>1, <1>2, <1>3 DEF Silent, Unwatched, Running
<1>4. ASSUME NEW n \in Run, NEW c, NEW sid, Launch(n, c, sid), ended' = ended
      PROVE  Silent(r)'
  <2>1. n # r
    BY <1>1, <1>4 DEF Launch
  <2>2. rstate'[r] = rstate[r] /\ adding'[r] = adding[r] /\ exits' = exits
    BY <1>4, <2>1 DEF Launch, TypeOK
  <2>3. \A i \in Id : map'[i] = r => map[i] = r
    BY <1>4, <2>1 DEF Launch, TypeOK
  <2>4. tier' = tier /\ adopting' = adopting
    BY <1>4 DEF Launch
  <2>5. Untold(r)'
    BY <1>1, <1>4, <2>2 DEF Untold
  <2>6. QED
    BY <1>3, <2>2, <2>3, <2>4, <2>5
<1>5. ASSUME NEW n \in Run, adding[n] # 0, AddRow(n),
             UNCHANGED <<tier, rstate, ended, map, adopting>>
      PROVE  Silent(r)'
  <2>1. n # r
    BY <1>1, <1>5
  <2>2. adding'[r] = adding[r] /\ \A i \in Id : <<i, r>> \in exits' => <<i, r>> \in exits
    BY <1>5, <2>1 DEF AddRow, TypeOK
  <2>3. Untold(r)'
    BY <1>1, <1>5, <2>2 DEF Untold
  <2>4. QED
    BY <1>3, <1>5, <2>3
<1>6. CASE \/ \E n \in Run, c \in Conv, resume \in BOOLEAN : Start(n, c, resume)
           \/ \E n \in Run : RestoreSpawn(n)
  BY <1>4, <1>6 DEF Start, RestoreSpawn
<1>7. CASE RestoreAdd \/ \E n \in Run : Record(n)
  BY <1>5, <1>7 DEF RestoreAdd, Record, CurInv
<1>8. CASE \E n \in Run : PtyEnds(n)
  <2> PICK n \in Run : PtyEnds(n)
    BY <1>8
  <2>1. n = r => rstate'[r] = "ended" /\ IdOf(r) = 0
    <3>1. n = r => Running(r) /\ Unwatched(r) /\ rstate'[r] = "ended"
      BY <1>2 DEF PtyEnds, Running, TypeOK
    <3>2. QED
      BY <3>1, IdOfTypes DEF Unwatched
  <2>2. n # r => rstate'[r] = rstate[r]
    BY DEF PtyEnds, TypeOK
  <2>3. /\ UNCHANGED <<tier, ended, adding, map>> /\ adopting' \subseteq adopting
        /\ \A i \in Id : <<i, r>> \in exits' => <<i, r>> \in exits
    BY <2>1 DEF PtyEnds
  <2>4. Untold(r)'
    BY <1>1, <2>3 DEF Untold
  <2>5. n = r => Silent(r)'
    BY <2>1, <2>4 DEF Silent, Running
  <2>6. QED
    BY <1>3, <2>2, <2>3, <2>4, <2>5
<1>9. CASE \E i \in Id, n \in Run : ExitEvent(i, n)
  <2>1. /\ UNCHANGED <<tier, rstate, adding, map, adopting>>
        /\ exits' \subseteq exits /\ r \notin ended'
    BY <1>1, <1>9 DEF ExitEvent
  <2>2. QED
    BY <1>1, <1>3, <2>1 DEF Untold
<1>10. CASE \E removed \in SUBSET Id : Reboot(removed)
  <2>1. rstate'[r] = "ended" /\ exits' = {} /\ adding'[r] = 0 /\ ended' = ended
    BY <1>2, <1>10 DEF Reboot, ServerGone, Zero, Running
  <2>2. QED
    BY <1>1, <2>1 DEF Silent, Untold, Running
<1>11. CASE \E orderly \in BOOLEAN : ServerStops(orderly)
  <2>1. /\ UNCHANGED <<tier, rstate, ended, map, adopting>>
        /\ exits' = {} /\ adding'[r] = 0
    BY <1>11 DEF ServerStops, ServerGone, Zero
  <2>2. QED
    BY <1>1, <1>3, <2>1 DEF Untold
<1>12. CASE DaemonStarts
  <2>1. tier = "wedged" => phase = "done"
    BY <1>12 DEF DaemonStarts
  <2>2. rstate[r] = "ended"
    BY <1>2, <2>1 DEF Unwatched, PhaseInv
  <2>3. UNCHANGED <<tier, rstate, ended, exits, adding, map>> /\ r \notin adopting'
    BY <1>12, <2>2 DEF DaemonStarts, Running
  <2>4. QED
    BY <1>1, <1>3, <2>3 DEF Untold
<1>13. CASE DaemonDies
  <2>1. /\ UNCHANGED <<tier, rstate, ended, exits, adding>>
        /\ adopting' = {} /\ map' = Nothing /\ r # None
    BY <1>13, ConstantsAssumption DEF DaemonDies, DaemonGone, Run
  <2>2. QED
    BY <1>1, <1>3, <2>1 DEF Untold, Nothing
<1>14. CASE \E n \in Run : Adopt(n)
  <2> PICK n \in Run : Adopt(n)
    BY <1>14
  <2>1. /\ UNCHANGED <<tier, rstate, ended, exits, adding>>
        /\ n \in adopting /\ adopting' \subseteq adopting
        /\ map' = [map EXCEPT ![home[n]] = n]
    BY DEF Adopt, HasTmux
  <2>2. Running(n) /\ home[n] \in Id
    BY <2>1 DEF MachineInv, TypeOK
  <2>3. n # r
    BY <1>2, <2>1, <2>2 DEF Unwatched, Running
  <2>4. \A i \in Id : map'[i] = r => map[i] = r
    BY <2>1, <2>3 DEF TypeOK
  <2>5. QED
    BY <1>1, <1>3, <2>1, <2>4 DEF Untold
<1>15. CASE \E i \in Id : SweepDead(i)
  <2>1. /\ UNCHANGED <<tier, rstate, ended, exits, adding, adopting>> /\ r # None
        /\ \A i \in Id : map'[i] \in {map[i], None}
    BY <1>15, ConstantsAssumption DEF SweepDead, TypeOK, Run
  <2>2. QED
    BY <1>1, <1>3, <2>1 DEF Untold
<1>16. CASE \/ \E n \in Run : Touch(n) \/ AdoptFails(n)
            \/ ServerStarts \/ MonitorConnects
            \/ Read \/ List1 \/ List2 \/ RefreshOne \/ DropDead
            \/ SpawnFails \/ RestoreDrop \/ RestoreDone \/ UNCHANGED vars
  <2>1. UNCHANGED <<tier, rstate, ended, adding, exits, map>> /\ adopting' \subseteq adopting
    BY <1>16 DEF Touch, AdoptFails, ServerStarts, MonitorConnects, Read, List1,
       List2, RefreshOne, DropDead, SpawnFails, RestoreDrop, RestoreDone, vars
  <2>2. QED
    BY <1>1, <1>3, <2>1 DEF Untold
<1>17. CASE \E n \in Run : AddFails(n)
  <2>1. UNCHANGED <<tier, rstate, ended, exits, map, adopting>> /\ adding'[r] = 0
    BY <1>1, <1>17 DEF AddFails, TypeOK
  <2>2. QED
    BY <1>1, <1>3, <2>1 DEF Untold
<1>18. CASE \E cwd \in {"ok", "gone", "unknown"}, sound \in BOOLEAN : FilterOne(cwd, sound)
  <2>1. UNCHANGED <<tier, rstate, ended, adding, exits, map, adopting>>
    BY <1>18 DEF FilterOne
  <2>2. QED
    BY <1>1, <1>3, <2>1 DEF Untold
<1>19. QED
  BY <1>6, <1>7, <1>8, <1>9, <1>10, <1>11, <1>12, <1>13, <1>14, <1>15, <1>16,
     <1>17, <1>18 DEF Next, Step

UnheardInv ==
  \A r \in Run : /\ r \in cand => Silent(r)
                 /\ r \in chosen \/ r \in restored => Unheard(r)

LEMMA UnheardNext ==
  ASSUME TypeOK, CurInv, HomeInv, MachineInv, PhaseInv, HeardInv, UnheardInv,
         ~HasTmux, may = {}, [Next]_vars
  PROVE  UnheardInv'
<1>1. ASSUME NEW r \in Run, r \in cand PROVE Silent(r)'
  BY <1>1, StaySilent DEF UnheardInv
<1>2. ASSUME NEW r \in Run, Unheard(r) PROVE Unheard(r)'
  <2>1. Silent(r) /\ rstate[r] = "ended"
    BY <1>2 DEF Unheard, Silent, Running
  <2>2. Silent(r)' /\ rstate'[r] = "ended"
    BY <2>1, StaySilent, StayEnded
  <2>3. QED
    BY <2>2 DEF Unheard, Silent
<1>3. ASSUME cand' \subseteq cand, chosen' \subseteq chosen,
             restored' \subseteq restored \cup chosen
      PROVE  UnheardInv'
  BY <1>1, <1>2, <1>3 DEF UnheardInv
<1>4. CASE List2
  <2>1. UNCHANGED <<tier, rstate, ended, adding, exits, map, adopting, chosen, restored>>
    BY <1>4 DEF List2
  <2>2. ASSUME NEW x \in cand' PROVE Silent(x)'
    <3>1. Silent(x)
      BY <1>4, LostAreSilent
    <3>2. QED
      BY <2>1, <3>1 DEF Silent, Untold, Unwatched, Running
  <2>3. QED
    BY <1>2, <2>1, <2>2 DEF UnheardInv
<1>5. CASE \E cwd \in {"ok", "gone", "unknown"}, sound \in BOOLEAN : FilterOne(cwd, sound)
  <2>1. cand' \subseteq cand /\ restored' = restored
    BY <1>5 DEF FilterOne
  <2>2. ASSUME NEW r \in Run, r \in chosen' PROVE Unheard(r)'
    <3>1. r \in chosen \/ (r \in cand /\ rstate[r] = "ended")
      BY <1>5, <2>2, FilterOver
    <3>2. Unheard(r)
      BY <3>1 DEF UnheardInv, Silent, Unheard
    <3>3. QED
      BY <1>2, <3>2
  <2>3. QED
    BY <1>1, <1>2, <2>1, <2>2 DEF UnheardInv
<1>6. CASE \E n \in Run : RestoreSpawn(n)
  <2>1. Max(chosen) \in chosen
    BY <1>6, Picked DEF RestoreSpawn, TypeOK
  <2>2. QED
    BY <1>3, <1>6, <2>1 DEF RestoreSpawn
<1>7. CASE \/ \E r \in Run, c \in Conv, resume \in BOOLEAN : Start(r, c, resume)
           \/ \E r \in Run : Record(r) \/ AddFails(r) \/ Touch(r) \/ PtyEnds(r)
           \/ \E r \in Run : Adopt(r) \/ AdoptFails(r)
           \/ \E i \in Id : SweepDead(i)
           \/ \E i \in Id, r \in Run : ExitEvent(i, r)
           \/ \E orderly \in BOOLEAN : ServerStops(orderly)
           \/ \E removed \in SUBSET Id : Reboot(removed)
  BY <1>3, <1>7 DEF Start, Record, AddFails, Touch, PtyEnds, Adopt, AdoptFails,
     SweepDead, ExitEvent, ServerStops, Reboot, ServerGone, ClearPlan
<1>8. CASE \/ DaemonStarts \/ DaemonDies \/ ServerStarts \/ MonitorConnects
           \/ Read \/ List1 \/ RefreshOne \/ DropDead \/ SpawnFails
           \/ RestoreAdd \/ RestoreDrop \/ RestoreDone \/ UNCHANGED vars
  BY <1>3, <1>8 DEF DaemonStarts, DaemonDies, ServerStarts, MonitorConnects,
     Read, List1, RefreshOne, DropDead, SpawnFails, RestoreAdd, RestoreDrop,
     RestoreDone, vars
<1>9. QED
  BY <1>4, <1>5, <1>6, <1>7, <1>8 DEF Next, Step

Calm == may = {} /\ ~HasTmux

LEMMA UnheardAlways ==
  Spec => [](~HasTmux => HeardInv) /\ [](Calm => UnheardInv)
<1>1. Init => HeardInv /\ UnheardInv
  BY DEF Init, NoPlan, HeardInv, UnheardInv
<1>2. /\ TypeOK /\ CurInv /\ HomeInv /\ (~HasTmux => MachineInv) /\ PhaseInv
      /\ (~HasTmux => HeardInv) /\ [Next]_vars
      => (~HasTmux => HeardInv)'
  BY HeardNext, TierNext DEF HasTmux
<1>3. /\ TypeOK /\ CurInv /\ HomeInv /\ (~HasTmux => MachineInv) /\ PhaseInv
      /\ (~HasTmux => HeardInv) /\ (Calm => UnheardInv) /\ [Next]_vars
      => (Calm => UnheardInv)'
  BY UnheardNext, TierNext DEF HasTmux, Calm
<1>4. QED
  BY <1>1, <1>2, <1>3, TypesAlways, HomeAlways, MachineAlways, PhaseAlways, PTL
  DEF Spec

(* The restore resumes no session whose end the server was told of, if the  *)
(* adoption is over by its second list and no daemon starts while a holder  *)
(* it could adopt was given up: however exits, crashes, reboots and the     *)
(* starts of users fall between its steps.                                 *)
THEOREM EndedStaysEndedHolds == Spec => []EndedStaysEnded
<1>1. TypeOK /\ (Calm => UnheardInv) => EndedStaysEnded
  BY DEF TypeOK, Calm, HasTmux, UnheardInv, Unheard, Untold, EndedStaysEnded
<1>2. QED
  BY <1>1, TypesAlways, UnheardAlways, PTL
=============================================================================
