-------------------------- MODULE EnsureDaemonProofs --------------------------
(* Theorems about the launch of the daemon, for any number of launchers    *)
(* and daemons, any number of retries and of crashes.                      *)
EXTENDS EnsureDaemon, TLAPS

USE DEF launcherVars, lockVars, fileVars, history

LEMMA InitType == Init => TypeOK
<1> SUFFICES ASSUME Init PROVE TypeOK
  OBVIOUS
<1>1. LauncherTypeOK
  BY ConstantsAssumption DEF Init, LauncherTypeOK
<1>2. DaemonTypeOK
  BY DEF Init, DaemonTypeOK
<1>3. FlagTypeOK
  BY ConstantsAssumption DEF Init, FlagTypeOK
<1>4. deaths \in 0 .. MaxDeaths
  BY ConstantsAssumption DEF Init
<1>5. QED
  BY <1>1, <1>2, <1>3, <1>4 DEF TypeOK

(* One count more, within the bound.                                       *)
LEMMA DiesType == ASSUME TypeOK, Dies PROVE deaths' \in 0 .. MaxDeaths
  BY ConstantsAssumption DEF Dies, TypeOK

LEMMA LauncherType ==
  ASSUME TypeOK, NEW l \in Launcher, LauncherNext(l)
  PROVE  TypeOK'
<1> USE DEF LauncherNext, Ensure, TypeOK
<1>1. LauncherTypeOK'
  <2> USE ConstantsAssumption DEF LauncherTypeOK
  <2> USE DEF Returns
  <2>1. CASE NextAttempt(l)
    BY <2>1 DEF NextAttempt
  <2>2. CASE Begin(l) \/ Restart(l) \/ LauncherDies(l)
    BY <2>2 DEF Begin, Restart, LauncherDies
  <2>3. CASE DialOk(l) \/ DialFails(l)
    BY <2>3 DEF DialOk, DialFails
  <2>4. CASE ReadFacts(l)
    BY <2>1, <2>4 DEF ReadFacts
  <2>5. CASE TakeLock(l) \/ ClearStale(l)
    BY <2>5 DEF TakeLock, ClearStale
  <2>6. CASE LockBusy(l) \/ BreakLock(l)
    BY <2>1, <2>6 DEF LockBusy, BreakLock
  <2>7. CASE \E d \in Daemon : SpawnDaemon(l, d)
    BY <2>7 DEF SpawnDaemon
  <2>8. CASE PollOk(l) \/ PollAgain(l) \/ PollGivesUp(l)
    BY <2>8 DEF PollOk, PollAgain, PollGivesUp
  <2>9. QED
    BY LauncherNext(l), <2>2, <2>3, <2>4, <2>5, <2>6, <2>7, <2>8
<1> USE DEF Begin, Restart, DialOk, DialFails, ReadFacts, TakeLock, LockBusy,
            BreakLock, ClearStale, SpawnDaemon, PollOk, PollAgain, PollGivesUp,
            LauncherDies
<1>2. DaemonTypeOK'
  BY DEF DaemonTypeOK
<1>3. FlagTypeOK'
  BY DEF FlagTypeOK
<1>4. deaths' \in 0 .. MaxDeaths
  BY DiesType
<1>5. QED
  BY <1>1, <1>2, <1>3, <1>4

LEMMA DaemonType ==
  ASSUME TypeOK, NEW d \in Daemon, DaemonNext(d)
  PROVE  TypeOK'
<1> USE DEF TypeOK, DaemonNext, Start, UnlinkSocket, Listen, WritePidfile,
            DaemonDies, Close, Closed
<1>1. LauncherTypeOK'
  BY DEF LauncherTypeOK
<1>2. DaemonTypeOK'
  BY DEF DaemonTypeOK
<1>3. FlagTypeOK'
  BY DEF FlagTypeOK
<1>4. deaths' \in 0 .. MaxDeaths
  BY DiesType
<1>5. QED
  BY <1>1, <1>2, <1>3, <1>4

(* Every step preserves the type invariant.                                *)
LEMMA NextType == TypeOK /\ [Next]_vars => TypeOK'
<1>1. ASSUME TypeOK, UNCHANGED vars PROVE TypeOK'
  BY <1>1 DEF TypeOK, LauncherTypeOK, DaemonTypeOK, FlagTypeOK, vars
<1>2. ASSUME TypeOK, LockAges \/ PidRecycled, UNCHANGED may PROVE TypeOK'
  BY <1>2 DEF TypeOK, LauncherTypeOK, DaemonTypeOK, FlagTypeOK, LockAges,
              PidRecycled
<1>3. QED
  BY <1>1, <1>2, LauncherType, DaemonType DEF Next

(* Type correctness of every reachable state.                              *)
THEOREM TypeCorrect == Spec => []TypeOK
  BY InitType, NextType, PTL DEF Spec

(* The lock, whatever becomes of the daemons.                              *)
LEMMA InitLock == Init => LockInv
  BY DEF Init, LockInv, Holding, Turn

(* A launcher that moves in an undisturbed turn is alone in its turn.      *)
LEMMA Alone ==
  ASSUME NEW l \in Launcher, LauncherNext(l), may \cap {"gap", "slow"} = {}
  PROVE  \A m \in Launcher \ {l} : pc[m] \notin Turn
  BY DEF LauncherNext, Undisturbed

(* The first part: nobody but its maker is at work under a lock that was   *)
(* never taken from one.                                                   *)
Made == ~usurped => \A l \in Launcher : Holding(l) => lock = l

LEMMA LauncherMade ==
  ASSUME TypeOK, Made, NEW l \in Launcher, LauncherNext(l)
  PROVE  Made'
<1> USE ConstantsAssumption
    DEF TypeOK, LauncherTypeOK, DaemonTypeOK, FlagTypeOK, Made, Holding
<1>1. CASE Begin(l) \/ Restart(l) \/ LauncherDies(l)
  BY <1>1 DEF Begin, Restart, LauncherDies, Returns
<1>2. CASE DialOk(l) \/ DialFails(l) \/ ReadFacts(l)
  BY <1>2 DEF DialOk, DialFails, ReadFacts, NextAttempt, Returns
<1>3. CASE TakeLock(l)
  (* A free lock: nobody holds it. *)
  BY <1>3 DEF TakeLock, LockFree
<1>4. CASE LockBusy(l)
  BY <1>4 DEF LockBusy, NextAttempt
<1>5. CASE BreakLock(l)
  <2>1. \A m \in Launcher : Holding(m)' => Holding(m)
    BY <1>5 DEF BreakLock, NextAttempt
  <2>2. ~usurped' => ~usurped /\ ~(lock # None /\ Holding(lock))
    BY <1>5 DEF BreakLock
  (* If its maker does not hold it, nobody does. *)
  <2>3. ~usurped' => \A m \in Launcher : ~Holding(m)
    BY <2>2
  <2>4. QED
    BY <2>1, <2>3
<1>6. CASE ClearStale(l)
  BY <1>6 DEF ClearStale
<1>7. ASSUME NEW d \in Daemon, SpawnDaemon(l, d)
      PROVE  Made'
  BY <1>7 DEF SpawnDaemon
<1>8. CASE PollOk(l) \/ PollAgain(l) \/ PollGivesUp(l)
  BY <1>8 DEF PollOk, PollAgain, PollGivesUp, Returns
<1>9. QED
  BY LauncherNext(l), <1>1, <1>2, <1>3, <1>4, <1>5, <1>6, <1>7, <1>8
     DEF LauncherNext, Ensure

(* The second part: without gaps and slow starts no lock that is held ages. *)
Fresh ==
  /\ ~usurped
  /\ \A l, m \in Launcher : pc[l] \in Turn /\ pc[m] \in Turn => l = m
  /\ \A l \in Launcher : /\ Holding(l) => ~lockOld
                         /\ pc[l] = "break" => lockOld

LEMMA LauncherFresh ==
  ASSUME TypeOK, Made, Fresh, may \cap {"gap", "slow"} = {},
         NEW l \in Launcher, LauncherNext(l)
  PROVE  Fresh'
<1> USE ConstantsAssumption
    DEF TypeOK, LauncherTypeOK, DaemonTypeOK, FlagTypeOK, Made, Fresh,
        Holding, Turn
<1>1. \A m \in Launcher \ {l} : pc[m] \notin Turn
  BY Alone
<1>2. CASE Begin(l) \/ Restart(l) \/ LauncherDies(l)
  BY <1>1, <1>2 DEF Begin, Restart, LauncherDies, Returns
<1>3. CASE DialOk(l) \/ DialFails(l)
  BY <1>1, <1>3 DEF DialOk, DialFails, Returns
<1>4. CASE ReadFacts(l)
  BY <1>1, <1>4 DEF ReadFacts, NextAttempt
<1>5. CASE TakeLock(l)
  BY <1>1, <1>5 DEF TakeLock, LockFree
<1>6. CASE LockBusy(l)
  BY <1>1, <1>6 DEF LockBusy, LockIsStale, NextAttempt
<1>7. CASE BreakLock(l)
  (* The lock is old, so nobody holds it. *)
  BY <1>1, <1>7 DEF BreakLock, NextAttempt
<1>8. CASE ClearStale(l)
  BY <1>1, <1>8 DEF ClearStale
<1>9. ASSUME NEW d \in Daemon, SpawnDaemon(l, d)
      PROVE  Fresh'
  BY <1>1, <1>9 DEF SpawnDaemon
<1>10. CASE PollOk(l) \/ PollAgain(l) \/ PollGivesUp(l)
  BY <1>1, <1>10 DEF PollOk, PollAgain, PollGivesUp, Returns
<1>11. QED
  BY LauncherNext(l), <1>2, <1>3, <1>4, <1>5, <1>6, <1>7, <1>8, <1>9, <1>10
     DEF LauncherNext, Ensure

LEMMA NextLock == TypeOK /\ LockInv /\ [Next]_vars => LockInv'
<1> SUFFICES ASSUME TypeOK, LockInv, [Next]_vars PROVE LockInv'
  OBVIOUS
<1>1. LockInv = (Made /\ (may \cap {"gap", "slow"} = {} => Fresh))
  BY DEF LockInv, Made, Fresh
<1>2. LockInv' = (Made' /\ (may' \cap {"gap", "slow"} = {} => Fresh'))
  BY DEF LockInv, Made, Fresh
<1>3. may' = may
  BY DEF Next, LauncherNext, DaemonNext, vars
<1>4. CASE LockAges
  BY <1>3, <1>4 DEF LockAges, TypeOK, LauncherTypeOK, LockInv, Holding
<1>5. CASE UNCHANGED <<launcherVars, lockVars, usurped>>
  BY <1>3, <1>5 DEF LockInv, Holding
<1>6. ASSUME NEW d \in Daemon, DaemonNext(d)
      PROVE  UNCHANGED <<launcherVars, lockVars, usurped>>
  BY <1>6 DEF DaemonNext, Start, UnlinkSocket, Listen, WritePidfile,
              DaemonDies, Close, Closed
<1>7. CASE PidRecycled
  BY <1>5, <1>7 DEF PidRecycled
<1>8. CASE UNCHANGED vars
  BY <1>5, <1>8 DEF vars
<1>9. ASSUME NEW l \in Launcher, LauncherNext(l) PROVE LockInv'
  BY <1>1, <1>2, <1>3, <1>9, LauncherMade, LauncherFresh
<1>10. QED
  BY <1>4, <1>5, <1>6, <1>7, <1>8, <1>9 DEF Next

(* The invariant of the lock holds in every reachable state.               *)
THEOREM LockCorrect == Spec => []LockInv
  BY InitLock, NextLock, TypeCorrect, PTL DEF Spec

(* At most one launcher is between the mkdir and the rmdir of the spawn    *)
(* lock unless one was taken from a launcher at work, which takes a slow    *)
(* start or a gap: for any number of launchers, retries, crashes, daemons   *)
(* that are shut down and pids that are used again.                        *)
THEOREM OneLauncherHolds == Spec => []OneLauncher
<1>1. LockInv => OneLauncher
  BY DEF LockInv, OneLauncher
<1>2. QED
  BY <1>1, LockCorrect, PTL

(***************************************************************************)
(* What a healthy daemon may be raced by: nothing that was decided since.  *)
(***************************************************************************)
LEMMA Kept ==
  ASSUME NoLateDuplicate,
         \A d \in Daemon : Healthy(d)' => Healthy(d),
         \A l \in Launcher :
           Decided(l)' => Decided(l) /\ (l \in old => l \in old'),
         \A e \in Daemon :
           dstate'[e] # "dead" => dstate[e] # "dead" /\ (e \in old => e \in old')
  PROVE  NoLateDuplicate'
  BY DEF NoLateDuplicate

LEMMA LauncherDecides ==
  ASSUME TypeOK, NoLateDuplicate, NEW l \in Launcher, LauncherNext(l)
  PROVE  NoLateDuplicate'
<1> USE DEF TypeOK, LauncherTypeOK, DaemonTypeOK
<1>1. CASE Begin(l) \/ Restart(l) \/ LauncherDies(l) \/ DialOk(l) \/ DialFails(l)
  <2> USE DEF Begin, Restart, LauncherDies, DialOk, DialFails, Returns
  <2>1. \A d \in Daemon : Healthy(d)' => Healthy(d)
    BY <1>1 DEF Healthy
  <2>2. \A m \in Launcher : Decided(m)' => Decided(m)
    BY <1>1 DEF Decided
  <2>3. \A d \in Daemon : dstate'[d] # "dead" => dstate[d] # "dead"
    BY <1>1
  <2>4. old' = old
    BY <1>1
  <2>5. QED
    BY <2>1, <2>2, <2>3, <2>4, Kept
<1>2. CASE ReadFacts(l)
  <2>1. UNCHANGED <<dstate, sock, pid>> /\ old' = old \ {l}
    BY <1>2 DEF ReadFacts
  <2>2. \A d \in Daemon : Healthy(d)' => Healthy(d)
    BY <2>1 DEF Healthy
  <2>3. \A m \in Launcher \ {l} : Decided(m)' => Decided(m)
    BY <1>2 DEF ReadFacts, NextAttempt, Decided
  (* A healthy daemon is waited for: its socket is there, its pid alive.   *)
  <2>4. ASSUME NEW d \in Daemon, Healthy(d) PROVE ~Decided(l)'
    <3>1. Classify = "wait"
      BY <2>4, ConstantsAssumption DEF Classify, PidAlive, Healthy
    <3>2. QED
      BY <1>2, <3>1 DEF ReadFacts, NextAttempt, Decided
  <2>5. SUFFICES ASSUME NEW d \in Daemon, Healthy(d)'
                 PROVE  /\ \A m \in Launcher : Decided(m)' => m \in old'
                        /\ \A e \in Daemon \ {d} :
                             dstate'[e] # "dead" => e \in old'
    BY DEF NoLateDuplicate
  <2>6. \A m \in Launcher : Decided(m)' => m \in old'
    BY <2>1, <2>2, <2>3, <2>4, <2>5 DEF NoLateDuplicate
  <2>7. \A e \in Daemon \ {d} : dstate'[e] # "dead" => e \in old'
    BY <2>1, <2>2, <2>5, ConstantsAssumption DEF NoLateDuplicate
  <2>8. QED
    BY <2>6, <2>7
<1>3. CASE TakeLock(l) \/ LockBusy(l) \/ BreakLock(l) \/ ClearStale(l)
  <2> USE DEF TakeLock, LockBusy, BreakLock, ClearStale, NextAttempt
  <2>1. \A d \in Daemon : Healthy(d)' => Healthy(d)
    BY <1>3, ConstantsAssumption DEF Healthy
  <2>2. \A m \in Launcher : Decided(m)' => Decided(m)
    BY <1>3 DEF Decided
  <2>3. dstate' = dstate /\ old' = old
    BY <1>3
  <2>4. QED
    BY <2>1, <2>2, <2>3, Kept
<1>4. ASSUME NEW d \in Daemon, SpawnDaemon(l, d)
      PROVE  NoLateDuplicate'
  <2> USE DEF SpawnDaemon
  <2>1. \A e \in Daemon : Healthy(e)' => Healthy(e)
    BY <1>4 DEF Healthy
  <2>2. \A m \in Launcher : Decided(m)' => Decided(m)
    BY <1>4 DEF Decided
  <2>3. Decided(l)
    BY <1>4 DEF Decided
  <2>4. \A e \in Daemon : dstate'[e] # "dead" => e = d \/ dstate[e] # "dead"
    BY <1>4
  <2>5. old' = IF l \in old THEN old \cup {d} ELSE old \ {d}
    BY <1>4
  (* Beside a healthy daemon only a launcher of before spawns. *)
  <2>6. ASSUME NEW e \in Daemon, Healthy(e)' PROVE l \in old
    BY <2>1, <2>3, <2>6 DEF NoLateDuplicate
  <2>7. QED
    BY <2>1, <2>2, <2>4, <2>5, <2>6 DEF NoLateDuplicate
<1>5. CASE PollOk(l) \/ PollAgain(l) \/ PollGivesUp(l)
  <2> USE DEF PollOk, PollAgain, PollGivesUp, Returns
  <2>1. \A d \in Daemon : Healthy(d)' => Healthy(d)
    BY <1>5 DEF Healthy
  <2>2. \A m \in Launcher : Decided(m)' => Decided(m)
    BY <1>5 DEF Decided
  <2>3. dstate' = dstate /\ old' = old
    BY <1>5
  <2>4. QED
    BY <2>1, <2>2, <2>3, Kept
<1>6. QED
  BY LauncherNext(l), <1>1, <1>2, <1>3, <1>4, <1>5 DEF LauncherNext, Ensure

LEMMA DaemonDecides ==
  ASSUME TypeOK, NoLateDuplicate, NEW d \in Daemon, DaemonNext(d)
  PROVE  NoLateDuplicate'
<1> USE DEF TypeOK, DaemonTypeOK
<1>1. CASE UnlinkSocket(d) \/ Listen(d) \/ DaemonDies(d) \/ Close(d) \/ Closed(d)
  <2> USE DEF UnlinkSocket, Listen, DaemonDies, Close, Closed
  <2>1. \A e \in Daemon : Healthy(e)' => Healthy(e)
    BY <1>1, ConstantsAssumption DEF Healthy
  <2>2. \A l \in Launcher : Decided(l)' = Decided(l)
    BY <1>1 DEF Decided
  <2>3. \A e \in Daemon : dstate'[e] # "dead" => dstate[e] # "dead"
    BY <1>1
  <2>4. old' = old
    BY <1>1
  <2>5. QED
    BY <2>1, <2>2, <2>3, <2>4, Kept
<1>2. CASE WritePidfile(d)
  <2>1. \A e \in Daemon : Healthy(e)' => e = d
    BY <1>2 DEF WritePidfile, Healthy
  <2>2. \A l \in Launcher : Decided(l)' = Decided(l)
    BY <1>2 DEF WritePidfile, Decided
  <2>3. \A e \in Daemon \ {d} : dstate'[e] = dstate[e]
    BY <1>2 DEF WritePidfile
  <2>4. old' = {l \in Launcher : Decided(l)}
               \cup {e \in Daemon \ {d} : dstate[e] # "dead"}
    BY <1>2 DEF WritePidfile
  <2>5. QED
    BY <2>1, <2>2, <2>3, <2>4 DEF NoLateDuplicate
<1>3. QED
  BY DaemonNext(d), <1>1, <1>2 DEF DaemonNext, Start

LEMMA NextDecides == TypeOK /\ NoLateDuplicate /\ [Next]_vars => NoLateDuplicate'
<1>1. ASSUME TypeOK, NoLateDuplicate, UNCHANGED vars PROVE NoLateDuplicate'
  BY <1>1 DEF vars, NoLateDuplicate, Healthy, Decided
<1>2. ASSUME TypeOK, NoLateDuplicate, LockAges \/ PidRecycled
      PROVE  NoLateDuplicate'
  BY <1>2 DEF LockAges, PidRecycled, NoLateDuplicate, Healthy, Decided
<1>3. QED
  BY <1>1, <1>2, LauncherDecides, DaemonDecides DEF Next

(* While a daemon is healthy nothing that was decided since its pidfile was *)
(* written launches, starts or closes, whatever is slow, dies, is shut down *)
(* or comes between.                                                       *)
THEOREM NoLateDuplicateHolds == Spec => []NoLateDuplicate
<1>1. Init => NoLateDuplicate
  BY DEF Init, NoLateDuplicate, Healthy
<1>2. QED
  BY <1>1, NextDecides, TypeCorrect, PTL DEF Spec
=============================================================================
