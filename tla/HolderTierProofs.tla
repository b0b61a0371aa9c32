-------------------------- MODULE HolderTierProofs --------------------------
(* Theorems about the holder tier, for any number of daemons, holders and  *)
(* clients, any retry budgets and every way daemons may overlap.           *)
EXTENDS HolderTier, TLAPS

(* Init establishes the type invariant. *)
LEMMA InitType == Init => TypeOK
  BY ConstantsAssumption
     DEF Init, TypeOK, DaemonTypeOK, HolderTypeOK, LinkTypeOK, EntryTypeOK,
         FileTypeOK, Id

USE DEF daemonVars, holderVars, linkVars, entryVars, fileVars, histVars

(* A new HolderClient is well typed. *)
LEMMA NewClientType ==
  ASSUME LinkTypeOK, EntryTypeOK,
         NEW e \in Entry, NEW d \in Daemon, NEW i \in Id,
         NEW h \in Holder \cup {None}, NEW state \in {"adopting", "alive"},
         NEW budget \in Nat, NewClient(e, d, i, h, state, budget)
  PROVE  LinkTypeOK' /\ EntryTypeOK'
<1>1. LinkTypeOK'
  BY DEF NewClient, LinkTypeOK
<1>2. EntryTypeOK'
  BY DEF NewClient, EntryTypeOK
<1>3. QED
  BY <1>1, <1>2

(* The steps of a daemon process preserve the type invariant. *)
LEMMA DaemonType ==
  ASSUME TypeOK, NEW d \in Daemon, DaemonNext(d)
  PROVE  TypeOK'
<1> USE ConstantsAssumption DEF TypeOK
<1>1. CASE StartDaemon(d)
  <2>1. DaemonTypeOK'
    BY <1>1 DEF StartDaemon, OnDisk, DaemonTypeOK
  <2>2. HolderTypeOK' /\ LinkTypeOK' /\ EntryTypeOK' /\ FileTypeOK'
    BY <1>1 DEF StartDaemon, HolderTypeOK, LinkTypeOK, EntryTypeOK, FileTypeOK
  <2>3. QED
    BY <2>1, <2>2
<1>2. ASSUME NEW h \in Holder, NEW e \in Entry, Spawn(d, h, e)
      PROVE  TypeOK'
  <2>1. nextId[d] \in Id /\ nextId[d] + 1 \in 1 .. MaxId + 1
    BY <1>2 DEF Spawn, DaemonTypeOK, Id
  <2>2. DaemonTypeOK'
    BY <1>2, <2>1 DEF Spawn, DaemonTypeOK
  <2>3. LinkTypeOK' /\ EntryTypeOK'
    BY <1>2, <2>1, NewClientType DEF Spawn
  <2>4. HolderTypeOK' /\ FileTypeOK'
    BY <1>2, <2>1 DEF Spawn, HolderTypeOK, FileTypeOK
  <2>5. QED
    BY <2>2, <2>3, <2>4
<1>3. ASSUME NEW i \in Id, SkipHolder(d, i)
      PROVE  TypeOK'
  <2>1. DaemonTypeOK'
    BY <1>3 DEF SkipHolder, RestOfScan, DaemonTypeOK
  <2>2. HolderTypeOK' /\ LinkTypeOK' /\ EntryTypeOK' /\ FileTypeOK'
    BY <1>3 DEF SkipHolder, HolderTypeOK, LinkTypeOK, EntryTypeOK, FileTypeOK
  <2>3. QED
    BY <2>1, <2>2
<1>4. ASSUME NEW i \in Id, SweepLeftovers(d, i)
      PROVE  TypeOK'
  <2>1. DaemonTypeOK'
    BY <1>4 DEF SweepLeftovers, RestOfScan, DaemonTypeOK
  <2>2. HolderTypeOK' /\ LinkTypeOK' /\ EntryTypeOK' /\ FileTypeOK'
    BY <1>4
       DEF SweepLeftovers, HolderTypeOK, LinkTypeOK, EntryTypeOK, FileTypeOK
  <2>3. QED
    BY <2>1, <2>2
<1>5. ASSUME NEW i \in Id, NEW e \in Entry, DialSurvivor(d, i, e)
      PROVE  TypeOK'
  <2>1. DaemonTypeOK'
    BY <1>5 DEF DialSurvivor, RestOfScan, DaemonTypeOK
  <2>2. jsonOf[i] \in Holder \cup {None}
    BY DEF FileTypeOK
  <2>3. LinkTypeOK' /\ EntryTypeOK'
    BY <1>5, <2>2, NewClientType DEF DialSurvivor
  <2>4. HolderTypeOK' /\ FileTypeOK'
    BY <1>5 DEF DialSurvivor, HolderTypeOK, FileTypeOK
  <2>5. QED
    BY <2>1, <2>3, <2>4
<1>6. ASSUME NEW force \in BOOLEAN, Shutdown(d, force)
      PROVE  TypeOK'
  <2>1. DaemonTypeOK' /\ HolderTypeOK'
    BY <1>6 DEF Shutdown, DaemonTypeOK, HolderTypeOK
  <2>2. LinkTypeOK'
    BY <1>6 DEF Shutdown, LinkTypeOK
  <2>3. EntryTypeOK'
    BY <1>6 DEF Shutdown, EntryTypeOK
  <2>4. FileTypeOK'
    BY <1>6 DEF Shutdown, EntryTypeOK, FileTypeOK
  <2>5. QED
    BY <2>1, <2>2, <2>3, <2>4
<1>7. CASE DaemonDies(d) \/ DaemonDrains(d)
  <2>1. ProcessEnds(d)
    BY <1>7 DEF DaemonDies, DaemonDrains
  <2>2. DaemonTypeOK' /\ HolderTypeOK' /\ FileTypeOK'
    BY <2>1 DEF ProcessEnds, DaemonTypeOK, HolderTypeOK, FileTypeOK
  <2>3. LinkTypeOK'
    BY <2>1 DEF ProcessEnds, LinkTypeOK
  <2>4. EntryTypeOK'
    BY <2>1 DEF ProcessEnds, EntryTypeOK
  <2>5. QED
    BY <2>2, <2>3, <2>4
<1>8. QED
  BY DaemonNext(d), <1>1, <1>2, <1>3, <1>4, <1>5, <1>6, <1>7 DEF DaemonNext

(* The steps of a HolderClient preserve the type invariant. *)
LEMMA EntryType ==
  ASSUME TypeOK, NEW e \in Entry, EntryNext(e)
  PROVE  TypeOK'
<1> USE ConstantsAssumption DEF TypeOK
<1>1. CASE Kill(e)
  <2>1. DaemonTypeOK' /\ HolderTypeOK' /\ EntryTypeOK'
    BY <1>1 DEF Kill, DaemonTypeOK, HolderTypeOK, EntryTypeOK
  <2>2. LinkTypeOK'
    <3>1. killq' \in [Entry -> BOOLEAN]
      BY <1>1 DEF Kill, LinkTypeOK
    <3>2. up' \in [Entry -> SUBSET {"kill", "eof"}]
      BY <1>1 DEF Kill, LinkTypeOK
    <3>3. QED
      BY <1>1, <3>1, <3>2 DEF Kill, LinkTypeOK
  <2>3. FileTypeOK'
    BY <1>1 DEF Kill, EntryTypeOK, FileTypeOK
  <2>4. QED
    BY <2>1, <2>2, <2>3
<1>2. CASE SweepDead(e)
  <2>1. EntryTypeOK'
    BY <1>2 DEF SweepDead, EntryTypeOK
  <2>2. DaemonTypeOK' /\ HolderTypeOK' /\ LinkTypeOK' /\ FileTypeOK'
    BY <1>2 DEF SweepDead, DaemonTypeOK, HolderTypeOK, LinkTypeOK, FileTypeOK
  <2>3. QED
    BY <2>1, <2>2
<1>3. CASE DialOk(e)
  <2>1. sockOf[eid[e]] \in Holder
    BY <1>3 DEF DialOk, Dialable
  <2>2. LinkTypeOK'
    <3>1. /\ conn' \in [Entry -> {"none", "dialing", "open", "closed"}]
          /\ peer' \in [Entry -> Holder \cup {None}]
          /\ backlog' \in [Entry -> BOOLEAN]
      BY <1>3, <2>1 DEF DialOk, LinkTypeOK
    <3>2. Flushed(e) \in SUBSET {"kill", "eof"}
      BY DEF Flushed
    <3>3. up' \in [Entry -> SUBSET {"kill", "eof"}]
      BY <1>3, <3>2 DEF DialOk, LinkTypeOK
    <3>4. killq' \in [Entry -> BOOLEAN]
      BY <1>3 DEF DialOk, LinkTypeOK
    <3>5. QED
      BY <1>3, <3>1, <3>3, <3>4 DEF DialOk, LinkTypeOK
  <2>3. DaemonTypeOK' /\ HolderTypeOK' /\ EntryTypeOK' /\ FileTypeOK'
    BY <1>3 DEF DialOk, DaemonTypeOK, HolderTypeOK, EntryTypeOK, FileTypeOK
  <2>4. QED
    BY <2>2, <2>3
<1>4. CASE DialRefused(e)
  <2>1. LinkTypeOK'
    BY <1>4 DEF DialRefused, LastTry, NextTry, LinkTypeOK
  <2>2. EntryTypeOK'
    BY <1>4 DEF DialRefused, GiveUp, EntryTypeOK
  <2>3. DaemonTypeOK' /\ HolderTypeOK' /\ FileTypeOK'
    BY <1>4 DEF DialRefused, DaemonTypeOK, HolderTypeOK, FileTypeOK
  <2>4. QED
    BY <2>1, <2>2, <2>3
<1>5. CASE RecvReady(e)
  <2>1. DaemonTypeOK'
    BY <1>5 DEF RecvReady, DaemonTypeOK, EntryTypeOK, Id
  <2>2. LinkTypeOK'
    BY <1>5 DEF RecvReady, LinkTypeOK
  <2>3. EntryTypeOK'
    BY <1>5 DEF RecvReady, EntryTypeOK
  <2>4. HolderTypeOK' /\ FileTypeOK'
    BY <1>5 DEF RecvReady, HolderTypeOK, FileTypeOK
  <2>5. QED
    BY <2>1, <2>2, <2>3, <2>4
<1>6. CASE RecvBusy(e)
  <2>1. LinkTypeOK'
    BY <1>6 DEF RecvBusy, LinkTypeOK
  <2>2. EntryTypeOK'
    BY <1>6 DEF RecvBusy, GiveUp, EntryTypeOK
  <2>3. DaemonTypeOK' /\ HolderTypeOK' /\ FileTypeOK'
    BY <1>6 DEF RecvBusy, DaemonTypeOK, HolderTypeOK, FileTypeOK
  <2>4. QED
    BY <2>1, <2>2, <2>3
<1>7. CASE RecvExit(e)
  <2>1. LinkTypeOK'
    BY <1>7 DEF RecvExit, LinkTypeOK
  <2>2. EntryTypeOK'
    BY <1>7 DEF RecvExit, EntryTypeOK
  <2>3. DaemonTypeOK' /\ HolderTypeOK' /\ FileTypeOK'
    BY <1>7 DEF RecvExit, DaemonTypeOK, HolderTypeOK, FileTypeOK
  <2>4. QED
    BY <2>1, <2>2, <2>3
<1>8. CASE RecvEof(e)
  <2>1. LinkTypeOK'
    BY <1>8 DEF RecvEof, LastTry, NextTry, LinkTypeOK
  <2>2. EntryTypeOK'
    BY <1>8 DEF RecvEof, GiveUp, EntryTypeOK
  <2>3. DaemonTypeOK' /\ HolderTypeOK' /\ FileTypeOK'
    BY <1>8 DEF RecvEof, DaemonTypeOK, HolderTypeOK, FileTypeOK
  <2>4. QED
    BY <2>1, <2>2, <2>3
<1>9. QED
  BY EntryNext(e), <1>1, <1>2, <1>3, <1>4, <1>5, <1>6, <1>7, <1>8 DEF EntryNext

(* The end of a holder process preserves the type invariant. *)
LEMMA HolderEndsType ==
  ASSUME TypeOK, NEW h \in Holder, HolderEnds(h)
  PROVE  DaemonTypeOK' /\ HolderTypeOK' /\ LinkTypeOK' /\ EntryTypeOK'
<1>1. DaemonTypeOK' /\ EntryTypeOK'
  BY DEF HolderEnds, TypeOK, DaemonTypeOK, EntryTypeOK
<1>2. HolderTypeOK'
  BY DEF HolderEnds, TypeOK, HolderTypeOK
<1>3. LinkTypeOK'
  BY DEF HolderEnds, TypeOK, LinkTypeOK
<1>4. QED
  BY <1>1, <1>2, <1>3

(* So does its cleanup. *)
LEMMA CleanupType ==
  ASSUME TypeOK, NEW h \in Holder, Cleanup(h)
  PROVE  TypeOK'
<1>1. FileTypeOK'
  BY DEF Cleanup, HolderEnds, TypeOK, FileTypeOK
<1>2. QED
  BY <1>1, HolderEndsType DEF Cleanup, TypeOK

(* What a holder writes keeps the frames in flight well typed. *)
LEMMA WriteType ==
  ASSUME LinkTypeOK, NEW e, NEW frames \in SUBSET {"ready", "busy", "exit", "eof"}
  PROVE  Write(e, frames) \in [Entry -> SUBSET {"ready", "busy", "exit", "eof"}]
  BY DEF Write, LinkTypeOK

(* The steps of a holder preserve the type invariant. *)
LEMMA HolderType ==
  ASSUME TypeOK, NEW h \in Holder, HolderNext(h)
  PROVE  TypeOK'
<1> USE ConstantsAssumption DEF TypeOK
<1>1. CASE BindSocket(h) \/ WriteJson(h)
  <2>1. HolderTypeOK' /\ FileTypeOK'
    BY <1>1 DEF BindSocket, WriteJson, HolderTypeOK, FileTypeOK
  <2>2. DaemonTypeOK' /\ LinkTypeOK' /\ EntryTypeOK'
    BY <1>1 DEF BindSocket, WriteJson, DaemonTypeOK, LinkTypeOK, EntryTypeOK
  <2>3. QED
    BY <2>1, <2>2
<1>2. CASE TermHolder(h)
  <2>1. HolderTypeOK'
    BY <1>2 DEF TermHolder, HangUp, HolderTypeOK
  <2>2. DaemonTypeOK' /\ LinkTypeOK' /\ EntryTypeOK' /\ FileTypeOK'
    BY <1>2 DEF TermHolder, DaemonTypeOK, LinkTypeOK, EntryTypeOK, FileTypeOK
  <2>3. QED
    BY <2>1, <2>2
<1>3. ASSUME NEW e \in Entry, Accept(h, e)
      PROVE  TypeOK'
  <2>1. DaemonTypeOK' /\ EntryTypeOK' /\ FileTypeOK'
    BY <1>3 DEF Accept, Admit, Refuse, DaemonTypeOK, EntryTypeOK, FileTypeOK
  <2>2. HolderTypeOK'
    <3>1. CASE Refuse(h, e)
      BY <1>3, <3>1 DEF Accept, Refuse, HolderTypeOK
    <3>2. CASE Admit(h, e)
      BY <1>3, <3>2 DEF Accept, Admit, HolderTypeOK
    <3>3. QED
      BY <1>3, <3>1, <3>2 DEF Accept
  <2>3. down' \in [Entry -> SUBSET {"ready", "busy", "exit", "eof"}]
    BY <1>3, WriteType DEF Accept, Admit, Refuse, Greeting
  <2>4. LinkTypeOK'
    BY <1>3, <2>3 DEF Accept, LinkTypeOK
  <2>5. QED
    BY <2>1, <2>2, <2>4
<1>4. CASE PtyExit(h)
  <2>1. DaemonTypeOK' /\ EntryTypeOK' /\ FileTypeOK'
    BY <1>4 DEF PtyExit, DaemonTypeOK, EntryTypeOK, FileTypeOK
  <2>2. HolderTypeOK'
    BY <1>4 DEF PtyExit, HolderTypeOK
  <2>3. down' \in [Entry -> SUBSET {"ready", "busy", "exit", "eof"}]
    BY <1>4, WriteType DEF PtyExit, LinkTypeOK
  <2>4. LinkTypeOK'
    BY <1>4, <2>3 DEF PtyExit, LinkTypeOK
  <2>5. QED
    BY <2>1, <2>2, <2>4
<1>5. CASE RecvKill(h)
  <2>1. DaemonTypeOK' /\ EntryTypeOK' /\ FileTypeOK'
    BY <1>5 DEF RecvKill, DaemonTypeOK, EntryTypeOK, FileTypeOK
  <2>2. HolderTypeOK'
    BY <1>5 DEF RecvKill, HangUp, HolderTypeOK
  <2>3. LinkTypeOK'
    BY <1>5 DEF RecvKill, LinkTypeOK
  <2>4. QED
    BY <2>1, <2>2, <2>3
<1>6. CASE RecvClose(h)
  <2>1. CASE Cleanup(h)
    BY <2>1, CleanupType
  <2>2. CASE ~Cleanup(h)
    <3>1. DaemonTypeOK' /\ EntryTypeOK' /\ FileTypeOK'
      BY <1>6, <2>2 DEF RecvClose, DaemonTypeOK, EntryTypeOK, FileTypeOK
    <3>2. HolderTypeOK'
      BY <1>6, <2>2 DEF RecvClose, HolderTypeOK
    <3>3. down' \in [Entry -> SUBSET {"ready", "busy", "exit", "eof"}]
      BY <1>6, <2>2, WriteType DEF RecvClose
    <3>4. LinkTypeOK'
      BY <1>6, <2>2, <3>3 DEF RecvClose, LinkTypeOK
    <3>5. QED
      BY <3>1, <3>2, <3>4
  <2>3. QED
    BY <2>1, <2>2
<1>7. CASE TimerFires(h)
  BY <1>7, CleanupType DEF TimerFires
<1>8. CASE HolderDies(h)
  <2>1. FileTypeOK'
    BY <1>8 DEF HolderDies, HolderEnds, FileTypeOK
  <2>2. QED
    BY <1>8, <2>1, HolderEndsType DEF HolderDies
<1>9. QED
  BY HolderNext(h), <1>1, <1>2, <1>3, <1>4, <1>5, <1>6, <1>7, <1>8
     DEF HolderNext

(* Every step preserves the type invariant. *)
LEMMA NextType == TypeOK /\ [Next]_vars => TypeOK'
<1>1. CASE UNCHANGED vars
  BY <1>1 DEF TypeOK, DaemonTypeOK, HolderTypeOK, LinkTypeOK, EntryTypeOK,
              FileTypeOK, vars
<1>2. ASSUME TypeOK, Next
      PROVE  TypeOK'
  BY <1>2, DaemonType, EntryType, HolderType DEF Next
<1>3. QED
  BY <1>1, <1>2

(* Type correctness of every reachable state. *)
THEOREM TypeCorrect == Spec => []TypeOK
  BY InitType, NextType, PTL DEF Spec

(***************************************************************************)
(* The single-client rule.  AttachmentInv says why it holds: a client that *)
(* was greeted and has not read the end of file is the one its holder has. *)
(***************************************************************************)

(* Every link field that a step leaves alone keeps AttachmentInv, if the   *)
(* clients of the holders stay as they are too.                            *)
LEMMA SameLinks ==
  ASSUME AttachmentInv,
         \A e \in Entry : estate'[e] = "unused" => estate[e] = "unused",
         UNCHANGED <<conn, ready, down, peer, client>>
  PROVE  AttachmentInv'
  BY DEF AttachmentInv, Greeted

LEMMA InitAttachment == Init => AttachmentInv
  BY DEF Init, AttachmentInv, Greeted

(* A new client has read nothing, so nobody mistakes it for a holder's.    *)
LEMMA NewClientAttachment ==
  ASSUME TypeOK, AttachmentInv, UNCHANGED client,
         NEW e \in Entry, NEW d, NEW i, NEW h, NEW budget,
         NEW state \in {"adopting", "alive"},
         NewClient(e, d, i, h, state, budget)
  PROVE  AttachmentInv'
  BY DEF NewClient, AttachmentInv, Greeted, TypeOK, LinkTypeOK, EntryTypeOK

LEMMA DaemonAttachment ==
  ASSUME TypeOK, AttachmentInv, NEW d \in Daemon, DaemonNext(d)
  PROVE  AttachmentInv'
<1>1. CASE StartDaemon(d)
  BY <1>1, SameLinks DEF StartDaemon
<1>2. ASSUME NEW h \in Holder, NEW e \in Entry, Spawn(d, h, e)
      PROVE  AttachmentInv'
  BY <1>2, NewClientAttachment DEF Spawn
<1>3. ASSUME NEW i \in Id, SkipHolder(d, i) \/ SweepLeftovers(d, i)
      PROVE  AttachmentInv'
  BY <1>3, SameLinks DEF SkipHolder, SweepLeftovers
<1>4. ASSUME NEW i \in Id, NEW e \in Entry, DialSurvivor(d, i, e)
      PROVE  AttachmentInv'
  BY <1>4, NewClientAttachment DEF DialSurvivor
<1>5. ASSUME NEW force \in BOOLEAN, Shutdown(d, force)
      PROVE  AttachmentInv'
  BY <1>5, SameLinks DEF Shutdown
<1>6. CASE DaemonDies(d) \/ DaemonDrains(d)
  <2>1. ProcessEnds(d)
    BY <1>6 DEF DaemonDies, DaemonDrains
  <2>2. QED
    BY <2>1 DEF ProcessEnds, AttachmentInv, Greeted, TypeOK, LinkTypeOK,
                EntryTypeOK
<1>7. QED
  BY DaemonNext(d), <1>1, <1>2, <1>3, <1>4, <1>5, <1>6 DEF DaemonNext

LEMMA EntryAttachment ==
  ASSUME TypeOK, AttachmentInv, NEW e \in Entry, EntryNext(e)
  PROVE  AttachmentInv'
<1> USE DEF AttachmentInv, Greeted, TypeOK, LinkTypeOK, EntryTypeOK
<1>1. CASE Kill(e)
  BY <1>1, SameLinks DEF Kill
<1>2. CASE SweepDead(e)
  BY <1>2, SameLinks DEF SweepDead
<1>3. CASE DialOk(e)
  BY <1>3 DEF DialOk, Dialable
<1>4. CASE DialRefused(e)
  BY <1>4 DEF DialRefused, GiveUp
<1>5. CASE RecvReady(e)
  BY <1>5 DEF RecvReady
<1>6. CASE RecvBusy(e)
  BY <1>6 DEF RecvBusy, GiveUp
<1>7. CASE RecvExit(e)
  BY <1>7 DEF RecvExit
<1>8. CASE RecvEof(e)
  BY <1>8 DEF RecvEof, GiveUp
<1>9. QED
  BY EntryNext(e), <1>1, <1>2, <1>3, <1>4, <1>5, <1>6, <1>7, <1>8 DEF EntryNext

(* When a holder ends, each of its clients has the end of file to read.    *)
LEMMA HolderEndsAttachment ==
  ASSUME TypeOK, AttachmentInv, NEW h \in Holder, HolderEnds(h)
  PROVE  AttachmentInv'
  BY DEF HolderEnds, AttachmentInv, Greeted, TypeOK, LinkTypeOK, HolderTypeOK

(* More frames for one client, none of them a greeting.                    *)
LEMMA WriteAttachment ==
  ASSUME TypeOK, AttachmentInv,
         NEW e, NEW frames \in SUBSET {"busy", "exit", "eof"},
         down' = Write(e, frames), UNCHANGED <<estate, conn, peer, ready, client>>
  PROVE  AttachmentInv'
  BY DEF Write, AttachmentInv, Greeted, TypeOK, LinkTypeOK

LEMMA HolderAttachment ==
  ASSUME TypeOK, AttachmentInv, NEW h \in Holder, HolderNext(h)
  PROVE  AttachmentInv'
<1>1. CASE BindSocket(h) \/ WriteJson(h) \/ TermHolder(h)
  BY <1>1, SameLinks DEF BindSocket, WriteJson, TermHolder
<1>2. ASSUME NEW e \in Entry, Accept(h, e)
      PROVE  AttachmentInv'
  <2>1. CASE Taken(h)
    BY <1>2, <2>1, WriteAttachment DEF Accept, Refuse
  <2>2. CASE ~Taken(h)
    (* client[h] = None: no other client was greeted by h. *)
    <3>1. client[h] = None /\ peer[e] = h
      BY <1>2, <2>2 DEF Accept, Taken
    <3>2. client' = [client EXCEPT ![h] = e] /\ down' = Write(e, Greeting(h))
      BY <1>2, <2>2 DEF Accept, Admit
    <3>3. UNCHANGED <<estate, conn, peer, ready>>
      BY <1>2 DEF Accept
    <3>4. QED
      BY <3>1, <3>2, <3>3, ConstantsAssumption
         DEF Write, Greeting, AttachmentInv, Greeted, TypeOK, LinkTypeOK,
             HolderTypeOK
  <2>3. QED
    BY <2>1, <2>2
<1>3. CASE PtyExit(h)
  <2>1. CASE client[h] = None
    BY <1>3, <2>1, SameLinks DEF PtyExit
  <2>2. CASE client[h] # None
    BY <1>3, <2>2, WriteAttachment DEF PtyExit
  <2>3. QED
    BY <2>1, <2>2
<1>4. CASE RecvKill(h)
  BY <1>4, SameLinks DEF RecvKill
<1>5. CASE RecvClose(h)
  <2>1. CASE Cleanup(h)
    BY <2>1, HolderEndsAttachment DEF Cleanup
  <2>2. CASE ~Cleanup(h)
    BY <1>5, <2>2
       DEF RecvClose, Write, AttachmentInv, Greeted, TypeOK, LinkTypeOK,
           HolderTypeOK
  <2>3. QED
    BY <2>1, <2>2
<1>6. CASE TimerFires(h) \/ HolderDies(h)
  BY <1>6, HolderEndsAttachment DEF TimerFires, Cleanup, HolderDies
<1>7. QED
  BY HolderNext(h), <1>1, <1>2, <1>3, <1>4, <1>5, <1>6 DEF HolderNext

LEMMA NextAttachment ==
  ASSUME TypeOK, AttachmentInv, [Next]_vars
  PROVE  AttachmentInv'
<1>1. CASE UNCHANGED vars
  BY <1>1, SameLinks DEF vars
<1>2. CASE Next
  BY <1>2, DaemonAttachment, EntryAttachment, HolderAttachment DEF Next
<1>3. QED
  BY <1>1, <1>2

(* The holder's bookkeeping is right in every reachable state: a greeted   *)
(* client is the client its holder writes to (holder.js:254-275).          *)
THEOREM AttachmentCorrect == Spec => []AttachmentInv
<1>1. TypeOK /\ AttachmentInv /\ [Next]_vars => AttachmentInv'
  BY NextAttachment
<1>2. QED
  BY InitAttachment, <1>1, TypeCorrect, PTL DEF Spec

(* Two daemons never both drive one PTY: not while an old daemon shuts     *)
(* down, not while a second one starts, whatever crashes in between.       *)
THEOREM SingleAttachmentHolds == Spec => []SingleAttachment
<1>1. AttachmentInv => SingleAttachment
  BY DEF AttachmentInv, Greeted, SingleAttachment, Attached
<1>2. QED
  BY <1>1, AttachmentCorrect, PTL

(***************************************************************************)
(* What a daemon believes of a PTY.  ExitInv follows the frames: an entry  *)
(* waits in the backlog, or is refused, or is greeted, and only a greeted  *)
(* one is told of an exit; the end of file reaches it only because its     *)
(* holder has died or because it hung up itself.                           *)
(***************************************************************************)
Told(e) == ready[e] \/ "ready" \in down[e]
EndIsComing(e) == {"exit", "eof"} \cap down[e] # {}

(* Who waits in the backlog has been told nothing and is nobody's client.  *)
BacklogInv ==
  \A e \in Entry : backlog[e] =>
    /\ conn[e] \in {"open", "closed"} /\ peer[e] \in Holder
    /\ down[e] = {} /\ ~ready[e] /\ estate[e] # "dead"
    /\ \A h \in Holder : client[h] # e

(* A holder's client is connected to it, was greeted, and hears of its end.*)
ClientInv ==
  \A e \in Entry, h \in Holder : client[h] = e =>
    /\ peer[e] = h /\ conn[e] \in {"open", "closed"}
    /\ conn[e] = "open" => Told(e) /\ "eof" \notin down[e]

(* The order of the frames on one connection, and of an entry's life.      *)
FramesInv ==
  \A e \in Entry :
    /\ estate[e] \in {"alive", "adopting"} => conn[e] \in {"dialing", "open"}
    /\ estate[e] = "dead" => conn[e] \in {"open", "closed"}
    /\ estate[e] = "adopting" => ~ready[e]
    /\ "busy" \in down[e] => ~Told(e)
    /\ "exit" \in down[e] => Told(e)
    /\ "eof" \in up[e] => estate[e] = "gone"

(* What an entry that was greeted believes, or will read, is true.         *)
EndInv ==
  \A e \in Entry : Told(e) /\ estate[e] # "gone" =>
    /\ EndIsComing(e) \/ estate[e] = "dead" => pty[peer[e]] = "ended"
    /\ estate[e] # "dead" /\ pty[peer[e]] = "ended" => EndIsComing(e)

UnbornInv == \A h \in Holder : hstate[h] = "unborn" => pty[h] = "none"

ExitInv == BacklogInv /\ ClientInv /\ FramesInv /\ EndInv /\ UnbornInv

LEMMA InitExit == Init => ExitInv
  BY ConstantsAssumption DEF Init, ExitInv, BacklogInv, ClientInv, FramesInv, EndInv, UnbornInv,
         Told, EndIsComing

(* A step that touches none of the fields of ExitInv preserves it.         *)
LEMMA SameExit ==
  ASSUME ExitInv, UNCHANGED <<hstate, pty, client, estate, conn, peer, backlog,
                              ready, up, down>>
  PROVE  ExitInv'
  BY DEF ExitInv, BacklogInv, ClientInv, FramesInv, EndInv, UnbornInv, Told,
         EndIsComing

(* A new client has been told nothing yet.                                 *)
LEMMA NewClientExit ==
  ASSUME TypeOK, AttachmentInv, ExitInv, UNCHANGED client,
         NEW e \in Entry, NEW d, NEW i, NEW h, NEW budget,
         NEW state \in {"adopting", "alive"},
         NewClient(e, d, i, h, state, budget)
  PROVE  BacklogInv' /\ ClientInv' /\ FramesInv'
<1> USE DEF ExitInv, NewClient, TypeOK, LinkTypeOK, EntryTypeOK
<1>1. conn[e] = "none" /\ ~ready[e] /\ down[e] = {}
  BY DEF AttachmentInv
<1>2. BacklogInv'
  BY <1>1 DEF BacklogInv
<1>3. ClientInv'
  BY <1>1 DEF ClientInv, Told
<1>4. FramesInv'
  BY <1>1 DEF FramesInv, Told
<1>5. QED
  BY <1>2, <1>3, <1>4

LEMMA DaemonExit ==
  ASSUME TypeOK, AttachmentInv, ExitInv, NEW d \in Daemon, DaemonNext(d)
  PROVE  ExitInv'
<1> USE DEF TypeOK, LinkTypeOK, EntryTypeOK
<1>1. ASSUME NEW i \in Id,
             StartDaemon(d) \/ SkipHolder(d, i) \/ SweepLeftovers(d, i)
      PROVE  ExitInv'
  BY <1>1, SameExit DEF StartDaemon, SkipHolder, SweepLeftovers
<1>2. ASSUME NEW h \in Holder, NEW e \in Entry, Spawn(d, h, e)
      PROVE  ExitInv'
  <2>1. BacklogInv' /\ ClientInv' /\ FramesInv'
    BY <1>2, NewClientExit DEF Spawn
  <2>2. pty[h] = "none" /\ pty' = [pty EXCEPT ![h] = "running"]
    BY <1>2 DEF Spawn, ExitInv, UnbornInv
  <2>3. UnbornInv'
    BY <1>2 DEF Spawn, ExitInv, UnbornInv, HolderTypeOK
  <2>4. EndInv'
    BY <1>2, <2>2
       DEF Spawn, NewClient, ExitInv, EndInv, Told, EndIsComing, AttachmentInv,
           HolderTypeOK
  <2>5. QED
    BY <2>1, <2>3, <2>4 DEF ExitInv
<1>3. ASSUME NEW i \in Id, NEW e \in Entry, DialSurvivor(d, i, e)
      PROVE  ExitInv'
  <2>1. BacklogInv' /\ ClientInv' /\ FramesInv'
    BY <1>3, NewClientExit DEF DialSurvivor
  <2>2. EndInv'
    BY <1>3
       DEF DialSurvivor, NewClient, ExitInv, EndInv, Told, EndIsComing,
           AttachmentInv
  <2>3. UnbornInv'
    BY <1>3 DEF DialSurvivor, ExitInv, UnbornInv
  <2>4. QED
    BY <2>1, <2>2, <2>3 DEF ExitInv
<1>4. ASSUME NEW force \in BOOLEAN, Shutdown(d, force)
      PROVE  ExitInv'
  <2>1. \A e \in Entry : estate'[e] = estate[e] \/ estate'[e] = "gone"
    BY <1>4 DEF Shutdown
  <2>2. \A e \in Entry : "eof" \in up'[e] => "eof" \in up[e] \/ estate'[e] = "gone"
    BY <1>4 DEF Shutdown
  <2>3. UNCHANGED <<hstate, pty, client, conn, peer, backlog, ready, down>>
    BY <1>4 DEF Shutdown
  <2>4. QED
    BY <2>1, <2>2, <2>3
       DEF ExitInv, BacklogInv, ClientInv, FramesInv, EndInv, UnbornInv, Told,
           EndIsComing
<1>5. CASE DaemonDies(d) \/ DaemonDrains(d)
  <2>1. ProcessEnds(d)
    BY <1>5 DEF DaemonDies, DaemonDrains
  <2>2. \A e \in Entry :
          \/ /\ owner[e] = d
             /\ estate'[e] = "gone" /\ conn'[e] = "closed"
             /\ down'[e] = {} /\ ~ready'[e]
          \/ /\ estate'[e] = estate[e] /\ conn'[e] = conn[e]
             /\ down'[e] = down[e] /\ ready'[e] = ready[e] /\ up'[e] = up[e]
    BY <2>1 DEF ProcessEnds
  <2>3. UNCHANGED <<hstate, pty, client, peer, backlog>>
    BY <2>1 DEF ProcessEnds
  <2>4. BacklogInv' /\ ClientInv'
    BY <2>2, <2>3 DEF ExitInv, BacklogInv, ClientInv, Told
  <2>5. FramesInv'
    BY <2>2 DEF ExitInv, FramesInv, Told
  <2>6. EndInv' /\ UnbornInv'
    BY <2>2, <2>3 DEF ExitInv, EndInv, UnbornInv, Told, EndIsComing
  <2>7. QED
    BY <2>4, <2>5, <2>6 DEF ExitInv
<1>6. 1 \in Id
  BY ConstantsAssumption DEF Id
<1>7. QED
  BY DaemonNext(d), <1>1, <1>2, <1>3, <1>4, <1>5, <1>6 DEF DaemonNext

LEMMA EntryExit ==
  ASSUME TypeOK, AttachmentInv, ExitInv, NEW e \in Entry, EntryNext(e)
  PROVE  ExitInv'
<1> USE DEF TypeOK, LinkTypeOK, EntryTypeOK, Told, EndIsComing
<1>1. CASE Kill(e)
  BY <1>1 DEF Kill, ExitInv, BacklogInv, ClientInv, FramesInv, EndInv, UnbornInv
<1>2. CASE SweepDead(e)
  BY <1>2
     DEF SweepDead, ExitInv, BacklogInv, ClientInv, FramesInv, EndInv, UnbornInv
<1>3. CASE DialOk(e)
  <2>1. conn[e] = "dialing" /\ down[e] = {} /\ ~ready[e]
    BY <1>3 DEF DialOk, AttachmentInv
  <2>2. sockOf[eid[e]] \in Holder
    BY <1>3 DEF DialOk, Dialable
  <2>3. estate[e] # "dead"
    BY <2>1 DEF ExitInv, FramesInv
  <2>4. \A h \in Holder : client[h] # e
    BY <2>1 DEF ExitInv, ClientInv
  <2>5. BacklogInv'
    BY <1>3, <2>1, <2>2, <2>3, <2>4 DEF DialOk, ExitInv, BacklogInv
  <2>6. ClientInv'
    BY <1>3, <2>4 DEF DialOk, ExitInv, ClientInv
  <2>7. FramesInv'
    BY <1>3, <2>1 DEF DialOk, Flushed, ExitInv, FramesInv
  <2>8. EndInv' /\ UnbornInv'
    BY <1>3, <2>1 DEF DialOk, ExitInv, EndInv, UnbornInv
  <2>9. QED
    BY <2>5, <2>6, <2>7, <2>8 DEF ExitInv
<1>4. CASE DialRefused(e)
  <2>1. conn[e] = "dialing" /\ ~ready[e] /\ down[e] = {} /\ ~backlog[e]
    BY <1>4 DEF DialRefused, AttachmentInv, ExitInv, BacklogInv
  <2>2. \A h \in Holder : client[h] # e
    BY <2>1 DEF ExitInv, ClientInv
  <2>3. \A f \in Entry \ {e} : conn'[f] = conn[f] /\ estate'[f] = estate[f]
    BY <1>4 DEF DialRefused, GiveUp
  <2>4. UNCHANGED <<hstate, pty, client, peer, backlog, ready, up, down>>
    BY <1>4 DEF DialRefused
  <2>5. BacklogInv' /\ ClientInv'
    BY <2>1, <2>2, <2>3, <2>4 DEF ExitInv, BacklogInv, ClientInv
  <2>6. FramesInv'
    BY <1>4, <2>1 DEF DialRefused, GiveUp, ExitInv, FramesInv
  <2>7. EndInv' /\ UnbornInv'
    BY <2>1, <2>3, <2>4 DEF ExitInv, EndInv, UnbornInv
  <2>8. QED
    BY <2>5, <2>6, <2>7 DEF ExitInv
<1>5. CASE RecvReady(e)
  <2>1. Told(e) /\ \A f \in Entry : Told(f)' = Told(f)
    BY <1>5 DEF RecvReady
  <2>2. \A f \in Entry : EndIsComing(f)' = EndIsComing(f)
    BY <1>5 DEF RecvReady
  <2>3. ~backlog[e]
    BY <1>5 DEF RecvReady, ExitInv, BacklogInv
  <2>4. BacklogInv' /\ ClientInv'
    BY <1>5, <2>1, <2>3 DEF RecvReady, ExitInv, BacklogInv, ClientInv
  <2>5. FramesInv'
    BY <1>5 DEF RecvReady, ExitInv, FramesInv
  <2>6. EndInv'
    BY <1>5, <2>1, <2>2 DEF RecvReady, ExitInv, EndInv
  <2>7. QED
    BY <1>5, <2>4, <2>5, <2>6 DEF RecvReady, ExitInv, UnbornInv
<1>6. CASE RecvBusy(e)
  <2>1. ~Told(e) /\ ~backlog[e]
    BY <1>6 DEF RecvBusy, ExitInv, FramesInv, BacklogInv
  <2>2. BacklogInv' /\ ClientInv'
    BY <1>6, <2>1 DEF RecvBusy, GiveUp, ExitInv, BacklogInv, ClientInv
  <2>3. FramesInv'
    BY <1>6 DEF RecvBusy, GiveUp, ExitInv, FramesInv
  <2>4. EndInv'
    BY <1>6, <2>1 DEF RecvBusy, GiveUp, ExitInv, EndInv
  <2>5. QED
    BY <1>6, <2>2, <2>3, <2>4 DEF RecvBusy, ExitInv, UnbornInv
<1>7. CASE RecvExit(e)
  <2>1. Told(e) /\ ready[e] /\ ~backlog[e]
    BY <1>7 DEF RecvExit, ExitInv, FramesInv, BacklogInv
  <2>2. BacklogInv' /\ ClientInv'
    BY <1>7, <2>1 DEF RecvExit, ExitInv, BacklogInv, ClientInv
  <2>3. FramesInv'
    BY <1>7 DEF RecvExit, ExitInv, FramesInv
  <2>4. EndInv'
    <3>1. /\ estate[e] # "adopting"
          /\ estate[e] # "gone" => pty[peer[e]] = "ended"
      BY <1>7, <2>1 DEF RecvExit, ExitInv, EndInv, FramesInv
    <3>2. estate[e] # "unused"
      BY <1>7 DEF RecvExit, AttachmentInv
    <3>3. estate'[e] \in {"dead", "gone"}
      BY <1>7, <3>1, <3>2 DEF RecvExit
    <3>4. estate'[e] # "gone" => estate[e] # "gone"
      BY <1>7 DEF RecvExit
    <3>5. \A f \in Entry \ {e} :
            estate'[f] = estate[f] /\ down'[f] = down[f]
      BY <1>7 DEF RecvExit
    <3>6. UNCHANGED <<pty, peer, ready>>
      BY <1>7 DEF RecvExit
    <3>7. QED
      BY <3>1, <3>2, <3>3, <3>4, <3>5, <3>6 DEF ExitInv, EndInv
  <2>5. QED
    BY <1>7, <2>2, <2>3, <2>4 DEF RecvExit, ExitInv, UnbornInv
<1>8. CASE RecvEof(e)
  <2>1. conn[e] = "open" /\ down[e] = {"eof"} /\ ~backlog[e]
    BY <1>8 DEF RecvEof, ExitInv, BacklogInv
  <2>2. \A h \in Holder : client[h] # e
    BY <2>1 DEF ExitInv, ClientInv
  <2>3. BacklogInv' /\ ClientInv'
    BY <1>8, <2>1, <2>2 DEF RecvEof, GiveUp, ExitInv, BacklogInv, ClientInv
  <2>4. FramesInv'
    BY <1>8, <2>1 DEF RecvEof, GiveUp, ExitInv, FramesInv
  <2>5. EndInv'
    <3>1. ready[e] /\ estate[e] # "gone" => pty[peer[e]] = "ended"
      BY <2>1 DEF ExitInv, EndInv
    <3>2. estate'[e] \in {"dead", "gone"} \/ ~ready[e]
      BY <1>8 DEF RecvEof, GiveUp
    <3>3. ready[e] => peer'[e] = peer[e]
      BY <1>8 DEF RecvEof
    <3>4. down'[e] = {} /\ (estate'[e] # "gone" => estate[e] # "gone")
      BY <1>8 DEF RecvEof, GiveUp
    <3>5. \A f \in Entry \ {e} :
            /\ estate'[f] = estate[f] /\ down'[f] = down[f]
            /\ peer'[f] = peer[f]
      BY <1>8 DEF RecvEof, GiveUp
    <3>6. UNCHANGED <<pty, ready>>
      BY <1>8 DEF RecvEof
    <3>7. QED
      BY <3>1, <3>2, <3>3, <3>4, <3>5, <3>6 DEF ExitInv, EndInv
  <2>6. QED
    BY <1>8, <2>3, <2>4, <2>5 DEF RecvEof, ExitInv, UnbornInv
<1>9. QED
  BY EntryNext(e), <1>1, <1>2, <1>3, <1>4, <1>5, <1>6, <1>7, <1>8 DEF EntryNext

(* When a holder ends, whoever was connected to it has an end of file to   *)
(* read, and its PTY has ended.                                            *)
LEMMA HolderEndsExit ==
  ASSUME TypeOK, AttachmentInv, ExitInv, NEW h \in Holder, HolderEnds(h)
  PROVE  ExitInv'
<1> USE DEF TypeOK, LinkTypeOK, EntryTypeOK, HolderTypeOK
<1>1. UNCHANGED <<estate, conn, peer, ready>>
  BY DEF HolderEnds
<1>2. \A e \in Entry :
        \/ peer[e] = h /\ conn[e] = "open" /\ down'[e] = down[e] \cup {"eof"}
        \/ ~(peer[e] = h /\ conn[e] = "open") /\ down'[e] = down[e]
  BY DEF HolderEnds
<1>3. \A g \in Holder : g # h => client'[g] = client[g] /\ pty'[g] = pty[g]
  BY DEF HolderEnds
<1>4. client'[h] = None /\ pty'[h] = "ended" /\ hstate'[h] = "gone"
  BY DEF HolderEnds
<1>5. \A e \in Entry : backlog'[e] => backlog[e] /\ peer[e] # h
  BY DEF HolderEnds
<1>6. BacklogInv'
  BY <1>1, <1>2, <1>3, <1>4, <1>5, ConstantsAssumption DEF ExitInv, BacklogInv
<1>7. ClientInv'
  BY <1>1, <1>2, <1>3, <1>4, ConstantsAssumption DEF ExitInv, ClientInv, Told
<1>8. FramesInv'
  <2>1. \A e \in Entry : up'[e] \in SUBSET up[e]
    BY DEF HolderEnds
  <2>2. QED
    BY <1>1, <1>2, <2>1 DEF ExitInv, FramesInv, Told
<1>9. EndInv'
  <2>1. SUFFICES ASSUME NEW e \in Entry, Told(e)', estate[e] # "gone"
                 PROVE  /\ EndIsComing(e)' \/ estate[e] = "dead"
                             => pty'[peer[e]] = "ended"
                        /\ estate[e] # "dead" /\ pty'[peer[e]] = "ended"
                             => EndIsComing(e)'
    BY <1>1 DEF EndInv
  <2>2. Told(e)
    BY <1>1, <1>2, <2>1 DEF Told
  <2>3. CASE peer[e] = h
    <3>1. estate[e] # "dead" => conn[e] = "open"
      BY <2>1, <2>2 DEF AttachmentInv, ExitInv, FramesInv, Told
    <3>2. pty'[peer[e]] = "ended"
      BY <1>4, <2>3
    <3>3. estate[e] # "dead" => "eof" \in down'[e]
      BY <1>2, <2>3, <3>1
    <3>4. QED
      BY <3>2, <3>3 DEF EndIsComing
  <2>4. CASE peer[e] # h
    <3>1. down'[e] = down[e]
      BY <1>2, <2>4
    <3>2. pty'[peer[e]] = pty[peer[e]]
      BY <2>4 DEF HolderEnds
    <3>3. QED
      BY <2>1, <2>2, <3>1, <3>2 DEF ExitInv, EndInv, EndIsComing
  <2>5. QED
    BY <2>3, <2>4
<1>10. UnbornInv'
  BY DEF HolderEnds, ExitInv, UnbornInv
<1>11. QED
  BY <1>6, <1>7, <1>8, <1>9, <1>10 DEF ExitInv

LEMMA HolderExit ==
  ASSUME TypeOK, AttachmentInv, ExitInv, NEW h \in Holder, HolderNext(h)
  PROVE  ExitInv'
<1> USE DEF TypeOK, LinkTypeOK, EntryTypeOK, HolderTypeOK
<1>1. CASE BindSocket(h) \/ WriteJson(h)
  BY <1>1 DEF BindSocket, WriteJson, ExitInv, BacklogInv, ClientInv, FramesInv,
              EndInv, UnbornInv, Told, EndIsComing
<1>2. CASE TermHolder(h)
  <2>1. \A x : (pty'[x] = "ended") <=> (pty[x] = "ended")
    BY <1>2 DEF TermHolder, HangUp
  <2>2. QED
    BY <1>2, <2>1 DEF TermHolder, HangUp, ExitInv, BacklogInv, ClientInv,
                      FramesInv, EndInv, UnbornInv, Told, EndIsComing
<1>3. ASSUME NEW e \in Entry, Accept(h, e)
      PROVE  ExitInv'
  <2>1. /\ peer[e] = h /\ down[e] = {} /\ ~ready[e] /\ estate[e] # "dead"
        /\ \A g \in Holder : client[g] # e
    BY <1>3 DEF Accept, ExitInv, BacklogInv
  <2>2. UNCHANGED <<hstate, pty, estate, conn, peer, ready, up>>
    BY <1>3 DEF Accept
  <2>3. \A f \in Entry : backlog'[f] <=> backlog[f] /\ f # e
    BY <1>3 DEF Accept
  <2>4. UnbornInv'
    BY <2>2 DEF ExitInv, UnbornInv
  <2>5. CASE Taken(h)
    <3>1. UNCHANGED client /\ down' = Write(e, {"busy", "eof"})
      BY <1>3, <2>5 DEF Accept, Refuse
    <3>2. BacklogInv'
      BY <2>2, <2>3, <3>1 DEF Write, ExitInv, BacklogInv
    <3>3. ClientInv'
      BY <2>1, <2>2, <3>1 DEF Write, ExitInv, ClientInv, Told
    <3>4. FramesInv'
      BY <2>1, <2>2, <3>1 DEF Write, ExitInv, FramesInv, Told
    <3>5. EndInv'
      BY <2>1, <2>2, <3>1 DEF Write, ExitInv, EndInv, Told, EndIsComing
    <3>6. QED
      BY <2>4, <3>2, <3>3, <3>4, <3>5 DEF ExitInv
  <2>6. CASE ~Taken(h)
    <3>1. client' = [client EXCEPT ![h] = e] /\ down' = Write(e, Greeting(h))
      BY <1>3, <2>6 DEF Accept, Admit
    <3>2. /\ "ready" \in Greeting(h) /\ "eof" \notin Greeting(h)
          /\ "busy" \notin Greeting(h)
          /\ "exit" \in Greeting(h) <=> pty[h] = "ended"
      BY DEF Greeting
    <3>3. BacklogInv'
      BY <2>2, <2>3, <3>1 DEF Write, ExitInv, BacklogInv
    <3>4. ClientInv'
      BY <1>3, <2>1, <2>2, <3>1, <3>2
         DEF Accept, Write, ExitInv, BacklogInv, ClientInv, Told
    <3>5. FramesInv'
      BY <2>1, <2>2, <3>1, <3>2 DEF Write, ExitInv, FramesInv, Told
    <3>6. EndInv'
      BY <2>1, <2>2, <3>1, <3>2 DEF Write, ExitInv, EndInv, Told, EndIsComing
    <3>7. QED
      BY <2>4, <3>3, <3>4, <3>5, <3>6 DEF ExitInv
  <2>7. QED
    BY <2>5, <2>6
<1>4. CASE PtyExit(h)
  <2>1. UNCHANGED <<hstate, client, estate, conn, peer, backlog, ready, up>>
    BY <1>4 DEF PtyExit
  <2>2. pty' = [pty EXCEPT ![h] = "ended"] /\ pty[h] \in {"running", "hup"}
    BY <1>4 DEF PtyExit
  <2>3. \A e \in Entry :
          \/ client[h] = e /\ conn[e] = "open" /\ down'[e] = down[e] \cup {"exit"}
          \/ ~(client[h] = e /\ conn[e] = "open") /\ down'[e] = down[e]
    BY <1>4, ConstantsAssumption DEF PtyExit, Write
  <2>4. BacklogInv'
    BY <2>1, <2>3 DEF ExitInv, BacklogInv
  <2>5. ClientInv'
    BY <2>1, <2>3 DEF ExitInv, ClientInv, Told
  <2>6. FramesInv'
    BY <2>1, <2>3 DEF ExitInv, FramesInv, ClientInv, Told
  <2>7. EndInv'
    <3>1. SUFFICES ASSUME NEW e \in Entry, Told(e)', estate[e] # "gone"
                   PROVE  /\ EndIsComing(e)' \/ estate[e] = "dead"
                               => pty'[peer[e]] = "ended"
                          /\ estate[e] # "dead" /\ pty'[peer[e]] = "ended"
                               => EndIsComing(e)'
      BY <2>1 DEF EndInv
    <3>2. Told(e)
      BY <2>1, <2>3, <3>1 DEF Told
    <3>3. CASE client[h] = e /\ conn[e] = "open"
      <4>1. pty'[peer[e]] = "ended"
        BY <2>2, <3>3 DEF ExitInv, ClientInv
      <4>2. "exit" \in down'[e]
        BY <2>3, <3>3
      <4>3. QED
        BY <4>1, <4>2 DEF EndIsComing
    <3>4. CASE ~(client[h] = e /\ conn[e] = "open")
      <4>1. down'[e] = down[e]
        BY <2>3, <3>4
      <4>2. estate[e] # "dead" /\ peer[e] = h => EndIsComing(e)
        BY <3>1, <3>2, <3>4
           DEF AttachmentInv, Greeted, ExitInv, FramesInv, Told, EndIsComing
      <4>3. QED
        BY <2>2, <3>1, <3>2, <4>1, <4>2 DEF ExitInv, EndInv, EndIsComing
    <3>5. QED
      BY <3>3, <3>4
  <2>8. UnbornInv'
    BY <1>4 DEF PtyExit, Exists, ExitInv, UnbornInv
  <2>9. QED
    BY <2>4, <2>5, <2>6, <2>7, <2>8 DEF ExitInv
<1>5. CASE RecvKill(h)
  <2>1. \A x : (pty'[x] = "ended") <=> (pty[x] = "ended")
    BY <1>5 DEF RecvKill, HangUp
  <2>2. UNCHANGED <<hstate, client, estate, conn, peer, backlog, ready, down>>
    BY <1>5 DEF RecvKill
  <2>3. \A e \in Entry : up'[e] \in SUBSET up[e]
    BY <1>5 DEF RecvKill
  <2>4. UnbornInv'
    BY <1>5 DEF RecvKill, HangUp, ExitInv, UnbornInv
  <2>5. QED
    BY <2>1, <2>2, <2>3, <2>4
       DEF ExitInv, BacklogInv, ClientInv, FramesInv, EndInv, Told, EndIsComing
<1>6. CASE RecvClose(h)
  <2>1. CASE Cleanup(h)
    BY <2>1, HolderEndsExit DEF Cleanup
  <2>2. CASE ~Cleanup(h)
    <3>1. PICK e \in Entry : client[h] = e /\ up[e] = {"eof"}
      BY <1>6 DEF RecvClose
    <3>2. estate[e] = "gone" /\ ~backlog[e]
      BY <3>1 DEF ExitInv, FramesInv, BacklogInv
    <3>3. /\ client' = [client EXCEPT ![h] = None]
          /\ down' = Write(e, {"eof"})
          /\ up' = [up EXCEPT ![e] = {}]
          /\ UNCHANGED <<hstate, pty, estate, conn, peer, backlog, ready>>
      BY <1>6, <2>2, <3>1 DEF RecvClose
    <3>4. BacklogInv'
      BY <3>2, <3>3, ConstantsAssumption DEF Write, ExitInv, BacklogInv
    <3>5. ClientInv'
      BY <3>1, <3>3, ConstantsAssumption DEF Write, ExitInv, ClientInv, Told
    <3>6. FramesInv'
      BY <3>2, <3>3 DEF Write, ExitInv, FramesInv, Told
    <3>7. EndInv' /\ UnbornInv'
      BY <3>2, <3>3 DEF Write, ExitInv, EndInv, UnbornInv, Told, EndIsComing
    <3>8. QED
      BY <3>4, <3>5, <3>6, <3>7 DEF ExitInv
  <2>3. QED
    BY <2>1, <2>2
<1>7. CASE TimerFires(h) \/ HolderDies(h)
  BY <1>7, HolderEndsExit DEF TimerFires, Cleanup, HolderDies
<1>8. QED
  BY HolderNext(h), <1>1, <1>2, <1>3, <1>4, <1>5, <1>6, <1>7 DEF HolderNext

LEMMA NextExit ==
  ASSUME TypeOK, AttachmentInv, ExitInv, [Next]_vars
  PROVE  ExitInv'
<1>1. CASE UNCHANGED vars
  BY <1>1, SameExit DEF vars
<1>2. CASE Next
  BY <1>2, DaemonExit, EntryExit, HolderExit DEF Next
<1>3. QED
  BY <1>1, <1>2

(* The frames of every connection tell the truth about the PTY, in the     *)
(* order in which they are read (holder.js:187-193, 272-279;               *)
(* pty-manager.js:180-199).                                                *)
THEOREM ExitCorrect == Spec => []ExitInv
<1>1. TypeOK /\ AttachmentInv /\ ExitInv /\ [Next]_vars => ExitInv'
  BY NextExit
<1>2. QED
  BY InitExit, <1>1, TypeCorrect, AttachmentCorrect, PTL DEF Spec

(* A daemon that lists an attached session as alive will read of its end   *)
(* if it has ended: no exit is lost between a holder and its client.       *)
THEOREM AliveMeansRunningHolds == Spec => []AliveMeansRunning
<1>1. ExitInv => AliveMeansRunning
  BY DEF ExitInv, EndInv, Told, EndIsComing, AliveMeansRunning
<1>2. QED
  BY <1>1, ExitCorrect, PTL

(* A session to which a daemon was attached is reported dead only when its *)
(* PTY has ended: an end of file never means anything else to it.          *)
THEOREM DeadMeansEndedHolds == Spec => []DeadMeansEnded
<1>1. ExitInv => DeadMeansEnded
  BY DEF ExitInv, EndInv, Told, DeadMeansEnded
<1>2. QED
  BY <1>1, ExitCorrect, PTL
-----------------------------------------------------------------------------
(* The ids and the files of the holder tier: what holds as long as a daemon *)
(* starts only when the one before has ended and every holder has its json *)
(* file.                                                                   *)

InTurn == ~Overlap /\ ~StartDuringBoot

Booting(h) == hstate[h] \in {"booting", "bound"}

(* One daemon runs.  It hands out ids that no holder has, and the files it *)
(* has still to visit are not those of a holder that it started itself.    *)
RunInv ==
  /\ \A d, x \in Daemon : Running(d) /\ Running(x) => d = x
  /\ \A d \in Daemon : Running(d) =>
       /\ \A i \in scan[d] : i < nextId[d]
       /\ \A h \in Holder : Exists(h) => hid[h] < nextId[d]
       /\ \A h \in Holder : Booting(h) => hid[h] \notin scan[d]

(* The files of an id are those of the one holder that lives under it.     *)
FileInv ==
  /\ \A h \in Holder : Exists(h) => hid[h] \in Id
  /\ \A h, g \in Holder : Exists(h) /\ Exists(g) /\ hid[h] = hid[g] => h = g
  /\ \A i \in Id, h \in Holder :
       /\ sockOf[i] = h => hid[h] = i /\ hstate[h] \notin {"unborn", "booting"}
       /\ jsonOf[i] = h => hid[h] = i /\ hstate[h] \in {"serving", "gone"}
  /\ \A h \in Holder :
       /\ hstate[h] \in {"bound", "serving"} => sockOf[hid[h]] = h
       /\ hstate[h] = "serving" => jsonOf[hid[h]] = h

(* A client that dials, or is connected, can reach no holder but its own.  *)
LinkInv ==
  \A e \in Entry :
    /\ conn[e] = "none" =>
         owner[e] = None /\ peer[e] = None /\ up[e] = {} /\ ~killq[e]
    /\ conn[e] # "none" =>
         /\ owner[e] \in Daemon /\ eid[e] \in Id
         /\ target[e] \in Holder /\ hid[target[e]] = eid[e]
         /\ hstate[target[e]] # "unborn"
    /\ conn[e] \in {"dialing", "open"} =>
         /\ Running(owner[e]) /\ eid[e] < nextId[owner[e]]
         /\ \A h \in Holder : Exists(h) /\ hid[h] = eid[e] => h = target[e]
    /\ peer[e] # None => peer[e] = target[e]

IdInv == RunInv /\ FileInv /\ LinkInv

(* A kill frame that can still be read by a PTY that runs was wanted.      *)
KillInv ==
  \A e \in Entry :
    /\ killq[e] => target[e] \in wanted
    /\ "kill" \in up[e] =>
         \/ target[e] \in wanted
         \/ pty[peer[e]] = "ended"
         \/ ~backlog[e] /\ \A h \in Holder : client[h] # e

(* With one daemon at a time that finds every holder free, nobody is ever  *)
(* told "busy", and every connection and every greeting is the daemon's.   *)
FreeInv ==
  /\ \A e \in Entry : "busy" \notin down[e]
  /\ \A e \in Entry :
       "eof" \in down[e] /\ estate[e] # "gone" => pty[peer[e]] = "ended"
  /\ \A d \in Daemon : dstate[d] = "unborn" => \A e \in Entry : owner[e] # d
  /\ \A d \in Daemon : Running(d) =>
       /\ \A h \in Holder : Booting(h) => born[h] = d
       /\ \A e \in Entry : owner[e] = d => eid[e] < nextId[d] /\ eid[e] \notin scan[d]
       /\ \A e, f \in Entry :
            owner[e] = d /\ owner[f] = d /\ eid[e] = eid[f] => e = f
       /\ \A e \in Entry :
            backlog[e] \/ (\E h \in Holder : client[h] = e) => owner[e] = d

(* A survivor is on the list, is being adopted, or has been adopted.       *)
Survivors ==
  [d \in Daemon |->
    {h \in Holder : hstate[h] = "serving" /\ pty[h] = "running" /\ born[h] # d}]

Rescue ==
  [d \in Daemon |-> [h \in Holder |->
    {e \in Entry : /\ owner[e] = d /\ target[e] = h /\ eid[e] = hid[h]
                   /\ estate[e] \in {"adopting", "alive"}}]]

AdoptInv ==
  \A d \in Daemon, h \in Holder :
    dstate[d] = "up" /\ h \in Survivors[d] =>
      hid[h] \in scan[d] \/ \E e \in Entry : e \in Rescue[d][h]


USE DEF daemonVars, holderVars, linkVars, entryVars, fileVars, histVars

LEMMA InitIds == Init => IdInv
  BY ConstantsAssumption
     DEF Init, IdInv, RunInv, FileInv, LinkInv, Running, Exists, Booting

(* What most steps leave alone.                                            *)
LEMMA SameRun ==
  ASSUME RunInv, UNCHANGED <<dstate, nextId, scan, hid>>,
         \A h \in Holder : Exists(h)' => Exists(h),
         \A h \in Holder : Booting(h)' => Booting(h)
  PROVE  RunInv'
  BY DEF RunInv, Running

LEMMA SameFiles ==
  ASSUME FileInv, UNCHANGED <<hstate, hid, sockOf, jsonOf>>
  PROVE  FileInv'
  BY DEF FileInv, Exists

(* A client made for the holder that alone may live under its id.          *)
LEMMA NewClientLink ==
  ASSUME TypeOK, AttachmentInv, LinkInv,
         UNCHANGED <<dstate, hid, hstate>>,
         NEW e \in Entry, NEW d \in Daemon, NEW i \in Id, NEW h \in Holder,
         NEW state \in {"adopting", "alive"}, NEW budget,
         NewClient(e, d, i, h, state, budget),
         Running(d), i < nextId'[d], hid[h] = i, hstate[h] # "unborn",
         \A x \in Daemon : nextId'[x] = nextId[x],
         \A g \in Holder : Exists(g) /\ hid[g] = i => g = h
  PROVE  LinkInv'
  BY DEF NewClient, LinkInv, Running, Exists, AttachmentInv, TypeOK, LinkTypeOK,
         EntryTypeOK

LEMMA DaemonIds ==
  ASSUME InTurn, TypeOK, AttachmentInv, ExitInv, IdInv,
         NEW d \in Daemon, DaemonNext(d)
  PROVE  IdInv'
<1> USE DEF IdInv, TypeOK, DaemonTypeOK, EntryTypeOK, LinkTypeOK, HolderTypeOK,
            Id
<1>1. CASE StartDaemon(d)
  <2>1. /\ \A x \in Daemon : ~Running(x)
        /\ \A h \in Holder : ~Booting(h)
    BY <1>1 DEF StartDaemon, InTurn, Booting
  <2>2. PICK n \in 1 .. MaxId + 1 :
          FirstFree(n) /\ nextId' = [nextId EXCEPT ![d] = n]
    BY <1>1 DEF StartDaemon
  <2>3. \A i \in OnDisk : i < n
    BY <2>2 DEF FirstFree
  <2>4. \A h \in Holder : Exists(h) => hid[h] \in OnDisk
    BY <2>1, ConstantsAssumption DEF FileInv, Exists, Booting, OnDisk
  <2>5. RunInv'
    BY <1>1, <2>1, <2>2, <2>3, <2>4
       DEF StartDaemon, RunInv, Running, Exists, Booting
  <2>6. FileInv'
    BY <1>1, SameFiles DEF StartDaemon
  <2>7. LinkInv'
    BY <1>1, <2>1 DEF StartDaemon, LinkInv, Running, Exists
  <2>8. QED
    BY <2>5, <2>6, <2>7
<1>2. ASSUME NEW h \in Holder, NEW e \in Entry, Spawn(d, h, e)
      PROVE  IdInv'
  <2>1. /\ Running(d) /\ nextId[d] \in Id /\ hstate[h] = "unborn"
        /\ hstate' = [hstate EXCEPT ![h] = "booting"]
        /\ hid' = [hid EXCEPT ![h] = nextId[d]]
        /\ nextId' = [nextId EXCEPT ![d] = nextId[d] + 1]
        /\ NewClient(e, d, nextId[d], h, "alive", SpawnTries)
        /\ UNCHANGED <<dstate, scan, sockOf, jsonOf>>
    BY <1>2 DEF Spawn
  <2>2. \A x \in Daemon : Running(x) => x = d
    BY <2>1 DEF RunInv
  <2>3. RunInv'
    <3>1. \A x \in Daemon : Running(x)' => x = d
      BY <2>1, <2>2 DEF Running
    <3>2. \A g \in Holder : g # h =>
            /\ hid'[g] = hid[g] /\ Exists(g)' = Exists(g)
            /\ Booting(g)' = Booting(g)
      BY <2>1 DEF Exists, Booting
    <3>3. hid'[h] = nextId[d] /\ nextId'[d] = nextId[d] + 1 /\ scan' = scan
      BY <2>1
    <3>4. \A i \in scan[d] : i \in Int /\ i < nextId[d]
      BY <2>1 DEF RunInv
    <3>5. \A g \in Holder : Exists(g)' => hid'[g] < nextId'[d]
      BY <2>1, <3>2, <3>3 DEF RunInv
    <3>6. \A g \in Holder : Booting(g)' => hid'[g] \notin scan[d]
      BY <2>1, <3>2, <3>3, <3>4 DEF RunInv
    <3>7. \A i \in scan[d] : i < nextId'[d]
      BY <2>1, <3>3, <3>4
    <3>8. QED
      BY <3>1, <3>3, <3>5, <3>6, <3>7 DEF RunInv
  <2>4. FileInv'
    BY <2>1, ConstantsAssumption DEF RunInv, FileInv, Exists
  <2>5. LinkInv'
    BY <2>1, <2>2
       DEF NewClient, RunInv, LinkInv, Running, Exists, AttachmentInv
  <2>6. QED
    BY <2>3, <2>4, <2>5
<1>3. ASSUME NEW i \in Id, SkipHolder(d, i)
      PROVE  IdInv'
  <2>1. \A x \in Daemon : scan'[x] \in SUBSET scan[x]
    BY <1>3 DEF SkipHolder, RestOfScan
  <2>2. RunInv'
    BY <1>3, <2>1 DEF SkipHolder, RunInv, Running, Exists, Booting
  <2>3. FileInv'
    BY <1>3, SameFiles DEF SkipHolder
  <2>4. LinkInv'
    BY <1>3 DEF SkipHolder, LinkInv, Running, Exists
  <2>5. QED
    BY <2>2, <2>3, <2>4
<1>4. ASSUME NEW i \in Id, SweepLeftovers(d, i)
      PROVE  IdInv'
  <2>1. \A x \in Daemon : scan'[x] \in SUBSET scan[x]
    BY <1>4 DEF SweepLeftovers, RestOfScan
  <2>2. RunInv'
    BY <1>4, <2>1 DEF SweepLeftovers, RunInv, Running, Exists, Booting
  <2>3. \A h \in Holder : Exists(h) /\ hstate[h] # "booting" => hid[h] # i
    BY <1>4 DEF SweepLeftovers, PidDead, FileInv, RunInv, Exists, Booting
  <2>4. FileInv'
    BY <1>4, <2>3, ConstantsAssumption DEF SweepLeftovers, FileInv, Exists
  <2>5. LinkInv'
    BY <1>4 DEF SweepLeftovers, LinkInv, Running, Exists
  <2>6. QED
    BY <2>2, <2>4, <2>5
<1>5. ASSUME NEW i \in Id, NEW e \in Entry, DialSurvivor(d, i, e)
      PROVE  IdInv'
  <2>1. PICK h \in Holder : jsonOf[i] = h
    BY <1>5 DEF DialSurvivor, FileTypeOK
  <2>2. /\ Running(d) /\ i < nextId[d]
        /\ hid[h] = i /\ hstate[h] \in {"serving", "gone"}
    BY <1>5, <2>1 DEF DialSurvivor, RunInv, FileInv
  <2>3. \A g \in Holder : Exists(g) /\ hid[g] = i => g = h
    BY <1>5, <2>1 DEF DialSurvivor, RunInv, FileInv, Exists, Booting
  <2>4. /\ \A x \in Daemon : scan'[x] \in SUBSET scan[x]
        /\ UNCHANGED <<dstate, nextId, hstate, hid, sockOf, jsonOf>>
        /\ NewClient(e, d, i, h, "adopting", AdoptTries)
    BY <1>5, <2>1 DEF DialSurvivor, RestOfScan
  <2>5. RunInv'
    BY <2>4 DEF RunInv, Running, Exists, Booting
  <2>6. FileInv'
    BY <2>4, SameFiles
  <2>7. LinkInv'
    <3>1. i < nextId'[d] /\ hstate[h] # "unborn"
      BY <2>2, <2>4
    <3>2. QED
      BY <2>2, <2>3, <2>4, <3>1, NewClientLink
  <2>8. QED
    BY <2>5, <2>6, <2>7
<1>6. ASSUME NEW force \in BOOLEAN, Shutdown(d, force)
      PROVE  IdInv'
  <2>1. \A x \in Daemon : Running(x)' <=> Running(x)
    BY <1>6 DEF Shutdown, Serving, Running
  <2>2. RunInv'
    BY <1>6, <2>1 DEF Shutdown, RunInv, Exists, Booting
  <2>3. FileInv'
    BY <1>6, SameFiles DEF Shutdown
  <2>4. LinkInv'
    <3>1. \A e \in Entry : conn[e] = "none" =>
            up'[e] = up[e] /\ killq'[e] = killq[e]
      BY <1>6 DEF Shutdown
    <3>2. UNCHANGED <<nextId, hid, hstate, conn, peer, owner, eid, target>>
      BY <1>6 DEF Shutdown
    <3>3. QED
      BY <2>1, <3>1, <3>2 DEF LinkInv, Exists
  <2>5. QED
    BY <2>2, <2>3, <2>4
<1>7. CASE DaemonDies(d) \/ DaemonDrains(d)
  <2>1. ProcessEnds(d)
    BY <1>7 DEF DaemonDies, DaemonDrains
  <2>2. \A x \in Daemon : Running(x)' <=> Running(x) /\ x # d
    BY <2>1 DEF ProcessEnds, Running
  <2>3. \A x \in Daemon : x # d => nextId'[x] = nextId[x] /\ scan'[x] = scan[x]
    BY <2>1 DEF ProcessEnds
  <2>4. RunInv'
    BY <2>1, <2>2, <2>3 DEF ProcessEnds, RunInv, Exists, Booting
  <2>5. FileInv'
    BY <2>1, SameFiles DEF ProcessEnds
  <2>6. LinkInv'
    <3>1. \A e \in Entry : owner[e] # d =>
            conn'[e] = conn[e] /\ up'[e] = up[e] /\ killq'[e] = killq[e]
      BY <2>1 DEF ProcessEnds
    <3>2. \A e \in Entry : owner[e] = d => conn'[e] = "closed"
      BY <2>1 DEF ProcessEnds
    <3>3. UNCHANGED <<owner, eid, target, peer, hid, hstate>>
      BY <2>1 DEF ProcessEnds
    <3>4. \A e \in Entry : owner[e] = d => conn[e] # "none"
      BY ConstantsAssumption DEF LinkInv
    <3>5. QED
      BY <2>2, <2>3, <3>1, <3>2, <3>3, <3>4 DEF LinkInv, Exists
  <2>7. QED
    BY <2>4, <2>5, <2>6
<1>8. QED
  BY DaemonNext(d), <1>1, <1>2, <1>3, <1>4, <1>5, <1>6, <1>7 DEF DaemonNext

LEMMA EntryIds ==
  ASSUME TypeOK, ExitInv, IdInv, NEW e \in Entry, EntryNext(e)
  PROVE  IdInv'
<1> USE DEF IdInv, TypeOK, DaemonTypeOK, EntryTypeOK, LinkTypeOK, HolderTypeOK,
            Id
<1>1. CASE Kill(e) \/ SweepDead(e) \/ DialRefused(e) \/ RecvBusy(e)
           \/ RecvExit(e) \/ RecvEof(e) \/ DialOk(e)
  <2>1. UNCHANGED <<dstate, nextId, scan, hstate, hid, sockOf, jsonOf, owner,
                    eid, target>>
    BY <1>1 DEF Kill, SweepDead, DialRefused, RecvBusy, RecvExit, RecvEof, GiveUp,
                DialOk
  <2>2. RunInv'
    BY <2>1, SameRun DEF Exists, Booting
  <2>3. FileInv'
    BY <2>1, SameFiles
  <2>4. CASE Kill(e)
    <3>1. conn[e] # "none"
      BY <2>4 DEF Kill, ExitInv, FramesInv
    <3>2. LinkInv'
      BY <2>1, <2>4, <3>1 DEF Kill, LinkInv, Running, Exists
    <3>3. QED
      BY <2>2, <2>3, <3>2
  <2>5. CASE SweepDead(e) \/ RecvBusy(e) \/ RecvExit(e)
    <3>1. UNCHANGED <<conn, peer, up, killq>>
      BY <2>5 DEF SweepDead, RecvBusy, RecvExit
    <3>2. LinkInv'
      BY <2>1, <3>1 DEF LinkInv, Running, Exists
    <3>3. QED
      BY <2>2, <2>3, <3>2
  <2>6. CASE DialRefused(e)
    <3>1. LinkInv'
      BY <2>1, <2>6 DEF DialRefused, GiveUp, LinkInv, Running, Exists
    <3>2. QED
      BY <2>2, <2>3, <3>1
  <2>7. CASE RecvEof(e)
    <3>1. LinkInv'
      BY <2>1, <2>7 DEF RecvEof, GiveUp, LinkInv, Running, Exists
    <3>2. QED
      BY <2>2, <2>3, <3>1
  <2>8. CASE DialOk(e)
    (* Whoever answers at the socket lives under the id of the client.     *)
    <3>1. PICK h \in Holder : sockOf[eid[e]] = h /\ Exists(h)
      BY <2>8 DEF DialOk, Dialable, Exists
    <3>2. h = target[e]
      BY <2>8, <3>1 DEF DialOk, FileInv, LinkInv
    <3>3. LinkInv'
      BY <2>1, <2>8, <3>1, <3>2 DEF DialOk, LinkInv, Running, Exists
    <3>4. QED
      BY <2>2, <2>3, <3>3
  <2>9. QED
    BY <1>1, <2>4, <2>5, <2>6, <2>7, <2>8
<1>2. CASE RecvReady(e)
  <2>1. UNCHANGED <<dstate, scan, hstate, hid, sockOf, jsonOf, owner, eid,
                    target, conn, peer, up, killq>>
    BY <1>2 DEF RecvReady
  <2>2. \A x \in Daemon : nextId'[x] \in Int /\ nextId'[x] >= nextId[x]
    <3>1. nextId \in [Daemon -> Int] /\ eid[e] \in Int
      OBVIOUS
    <3>2. \/ nextId' = nextId
          \/ nextId' = [nextId EXCEPT ![owner[e]] =
                          IF eid[e] >= @ THEN eid[e] + 1 ELSE @]
      BY <1>2 DEF RecvReady
    <3>3. QED
      BY <3>1, <3>2
  <2>3. RunInv'
    <3>1. \A d \in Daemon : nextId[d] \in Int /\ scan[d] \in SUBSET Int
      BY ConstantsAssumption
    <3>2. \A h \in Holder : hid[h] \in Int
      BY ConstantsAssumption
    <3>3. SUFFICES ASSUME NEW d \in Daemon, Running(d)
                   PROVE  /\ \A i \in scan[d] : i < nextId'[d]
                          /\ \A h \in Holder : Exists(h) => hid[h] < nextId'[d]
      BY <2>1 DEF RunInv, Running, Exists, Booting
    <3>4. \A i \in Int : i < nextId[d] => i < nextId'[d]
      BY <2>2, <3>1
    <3>5. QED
      BY <3>1, <3>2, <3>3, <3>4 DEF RunInv
  <2>4. FileInv'
    BY <2>1, SameFiles
  <2>5. LinkInv'
    <3>1. \A d \in Daemon, i \in Int : i < nextId[d] => i < nextId'[d]
      BY <2>2
    <3>2. QED
      BY <2>1, <3>1 DEF LinkInv, Running, Exists
  <2>6. QED
    BY <2>3, <2>4, <2>5
<1>3. QED
  BY EntryNext(e), <1>1, <1>2 DEF EntryNext

(* A holder's step makes no connection: frames are only taken.             *)
LEMMA FewerFrames ==
  ASSUME LinkInv,
         UNCHANGED <<dstate, nextId, hid, conn, peer, owner, eid, target, killq>>,
         \A h \in Holder : Exists(h)' => Exists(h),
         \A h \in Holder : hstate[h] # "unborn" => hstate'[h] # "unborn",
         \A e \in Entry : up[e] = {} => up'[e] = {}
  PROVE  LinkInv'
  BY DEF LinkInv, Running

LEMMA HolderEndsIds ==
  ASSUME TypeOK, IdInv, NEW h \in Holder, HolderEnds(h)
  PROVE  /\ RunInv' /\ LinkInv'
         /\ UNCHANGED fileVars => FileInv'
         /\ Cleanup(h) /\ Exists(h) => FileInv'
<1> USE DEF IdInv, TypeOK, HolderTypeOK
<1>1. /\ hstate' = [hstate EXCEPT ![h] = "gone"]
      /\ UNCHANGED <<dstate, nextId, scan, hid, conn, peer, owner, eid, target,
                     killq>>
  BY DEF HolderEnds
<1>2. \A e \in Entry : up[e] = {} => up'[e] = {}
  BY DEF HolderEnds, LinkTypeOK
<1>3. RunInv'
  BY <1>1, SameRun DEF Exists, Booting
<1>4. LinkInv'
  BY <1>1, <1>2, FewerFrames DEF Exists
<1>5. ASSUME UNCHANGED fileVars PROVE FileInv'
  BY <1>1, <1>5 DEF FileInv, Exists
<1>6. ASSUME Cleanup(h), Exists(h) PROVE FileInv'
  BY <1>1, <1>6, ConstantsAssumption DEF Cleanup, FileInv, Exists, FileTypeOK
<1>7. QED
  BY <1>3, <1>4, <1>5, <1>6

LEMMA HolderIds ==
  ASSUME TypeOK, IdInv, NEW h \in Holder, HolderNext(h)
  PROVE  IdInv'
<1> USE DEF IdInv, TypeOK, HolderTypeOK
<1>1. CASE BindSocket(h)
  <2>1. RunInv'
    BY <1>1, SameRun DEF BindSocket, Exists, Booting
  <2>2. FileInv'
    BY <1>1, ConstantsAssumption DEF BindSocket, FileInv, Exists, FileTypeOK
  <2>3. LinkInv'
    BY <1>1 DEF BindSocket, LinkInv, Running, Exists
  <2>4. QED
    BY <2>1, <2>2, <2>3
<1>2. CASE WriteJson(h)
  <2>1. RunInv'
    BY <1>2, SameRun DEF WriteJson, Exists, Booting
  <2>2. FileInv'
    BY <1>2, ConstantsAssumption DEF WriteJson, FileInv, Exists, FileTypeOK
  <2>3. LinkInv'
    BY <1>2 DEF WriteJson, LinkInv, Running, Exists
  <2>4. QED
    BY <2>1, <2>2, <2>3
<1>3. ASSUME \/ TermHolder(h) \/ PtyExit(h) \/ RecvKill(h)
             \/ RecvClose(h) /\ ~Cleanup(h)
             \/ \E e \in Entry : Accept(h, e)
      PROVE  IdInv'
  <2>1. UNCHANGED <<dstate, nextId, scan, hstate, hid, sockOf, jsonOf, owner,
                    eid, target, conn, peer, killq>>
    BY <1>3 DEF TermHolder, Accept, PtyExit, RecvKill, RecvClose
  <2>2. \A f \in Entry : up[f] = {} => up'[f] = {}
    BY <1>3 DEF TermHolder, Accept, PtyExit, RecvKill, RecvClose, LinkTypeOK
  <2>3. RunInv' /\ FileInv'
    BY <2>1, SameRun, SameFiles DEF Exists, Booting
  <2>4. LinkInv'
    BY <2>1, <2>2, FewerFrames DEF Exists
  <2>5. QED
    BY <2>3, <2>4
<1>4. CASE RecvClose(h) /\ Cleanup(h)
  <2>1. Exists(h) /\ HolderEnds(h)
    BY <1>4 DEF RecvClose, Cleanup
  <2>2. QED
    BY <1>4, <2>1, HolderEndsIds
<1>5. CASE TimerFires(h)
  <2>1. Exists(h) /\ Cleanup(h) /\ HolderEnds(h)
    BY <1>5 DEF TimerFires, Cleanup
  <2>2. QED
    BY <2>1, HolderEndsIds
<1>6. CASE HolderDies(h)
  BY <1>6, HolderEndsIds DEF HolderDies
<1>7. QED
  BY HolderNext(h), <1>1, <1>2, <1>3, <1>4, <1>5, <1>6 DEF HolderNext

(* Ids and files: all of it holds in every reachable state.                *)
LEMMA NextIds ==
  ASSUME InTurn, TypeOK, AttachmentInv, ExitInv, IdInv, [Next]_vars
  PROVE  IdInv'
<1>1. CASE UNCHANGED vars
  BY <1>1 DEF vars, IdInv, RunInv, FileInv, LinkInv, Running, Exists, Booting
<1>2. CASE Next
  BY <1>2, DaemonIds, EntryIds, HolderIds DEF Next
<1>3. QED
  BY <1>1, <1>2

THEOREM IdsCorrect == ASSUME InTurn PROVE Spec => []IdInv
<1>1. TypeOK /\ AttachmentInv /\ ExitInv /\ IdInv /\ [Next]_vars => IdInv'
  BY NextIds
<1>2. QED
  BY <1>1, InitIds, TypeCorrect, AttachmentCorrect, ExitCorrect, PTL DEF Spec

(* A holder that serves can be found: its socket and its json file are its *)
(* own, whatever crashes and leftovers there are (holder.js:305).          *)
THEOREM ServingMeansReachableHolds ==
  ASSUME InTurn PROVE Spec => []ServingMeansReachable
<1>1. IdInv => ServingMeansReachable
  BY DEF IdInv, FileInv, ServingMeansReachable
<1>2. QED
  BY <1>1, IdsCorrect, PTL

(***************************************************************************)
(* Kills reach whom they are meant for.                                    *)
(***************************************************************************)
HangUpInv == KillInv /\ HangUpIsWanted

LEMMA InitHangUp == Init => HangUpInv
  BY DEF Init, HangUpInv, KillInv, HangUpIsWanted

LEMMA DaemonHangUp ==
  ASSUME TypeOK, AttachmentInv, ExitInv, IdInv, HangUpInv,
         NEW d \in Daemon, DaemonNext(d)
  PROVE  HangUpInv'
<1> USE DEF HangUpInv, KillInv, TypeOK, EntryTypeOK, LinkTypeOK, HolderTypeOK
<1>1. ASSUME NEW i \in Id,
             StartDaemon(d) \/ SkipHolder(d, i) \/ SweepLeftovers(d, i)
      PROVE  HangUpInv'
  BY <1>1 DEF StartDaemon, SkipHolder, SweepLeftovers, HangUpIsWanted
<1>2. ASSUME NEW h \in Holder, NEW e \in Entry, Spawn(d, h, e)
      PROVE  HangUpInv'
  <2>1. /\ pty' = [pty EXCEPT ![h] = "running"] /\ pty[h] = "none"
        /\ UNCHANGED <<client, timers, wanted>>
    BY <1>2 DEF Spawn, ExitInv, UnbornInv
  <2>2. up[e] = {} /\ ~killq[e]
    BY <1>2 DEF Spawn, NewClient, AttachmentInv, IdInv, LinkInv
  <2>3. UNCHANGED <<peer, backlog, killq, up>>
    BY <1>2 DEF Spawn, NewClient
  <2>4. \A f \in Entry \ {e} : target'[f] = target[f]
    BY <1>2 DEF Spawn, NewClient
  <2>5. \A f \in Entry : pty[peer[f]] = "ended" => pty'[peer[f]] = "ended"
    BY <2>1
  <2>6. KillInv'
    BY <2>1, <2>2, <2>3, <2>4, <2>5
  <2>7. HangUpIsWanted'
    BY <2>1 DEF HangUpIsWanted
  <2>8. QED
    BY <2>6, <2>7
<1>3. ASSUME NEW i \in Id, NEW e \in Entry, DialSurvivor(d, i, e)
      PROVE  HangUpInv'
  <2>1. UNCHANGED <<pty, client, timers, wanted, peer, backlog, killq, up>>
    BY <1>3 DEF DialSurvivor, NewClient
  <2>2. up[e] = {} /\ ~killq[e]
    BY <1>3 DEF DialSurvivor, NewClient, AttachmentInv, IdInv, LinkInv
  <2>3. \A f \in Entry \ {e} : target'[f] = target[f]
    BY <1>3 DEF DialSurvivor, NewClient
  <2>4. QED
    BY <2>1, <2>2, <2>3 DEF HangUpIsWanted
<1>4. ASSUME NEW force \in BOOLEAN, Shutdown(d, force)
      PROVE  HangUpInv'
  (* A dead entry is sent a kill too; its PTY has ended, or the holder has *)
  (* another client.                                                       *)
  <2>1. \A e \in Entry : estate[e] = "dead" /\ conn[e] = "open" =>
          \/ pty[peer[e]] = "ended"
          \/ ~backlog[e] /\ \A h \in Holder : client[h] # e
    BY DEF ExitInv, BacklogInv, ClientInv, EndInv
  <2>2. UNCHANGED <<pty, client, timers, peer, backlog, target>>
    BY <1>4 DEF Shutdown
  <2>3. \A e \in Entry : "kill" \in up'[e] =>
          \/ "kill" \in up[e]
          \/ conn[e] = "open" /\ InMap(d, e)
    BY <1>4 DEF Shutdown
  <2>4. \A e \in Entry : InMap(d, e) /\ estate[e] = "alive" => target[e] \in wanted'
    BY <1>4 DEF Shutdown
  <2>5. \A e \in Entry :
          killq'[e] => killq[e] \/ (InMap(d, e) /\ estate[e] = "alive")
    <3>1. killq' = [e \in Entry |->
            killq[e] \/ (/\ e \in {f \in Entry : InMap(d, f) /\ estate[f] = "alive"}
                        /\ conn[e] = "dialing")]
      BY <1>4, Zenon DEF Shutdown
    <3>2. QED
      BY <3>1
  <2>6. wanted \in SUBSET wanted'
    BY <1>4 DEF Shutdown
  <2>7. KillInv'
    BY <2>1, <2>2, <2>3, <2>4, <2>5, <2>6 DEF InMap
  <2>8. HangUpIsWanted'
    BY <2>2, <2>6 DEF HangUpIsWanted
  <2>9. QED
    BY <2>7, <2>8
<1>5. CASE DaemonDies(d) \/ DaemonDrains(d)
  <2>1. ProcessEnds(d)
    BY <1>5 DEF DaemonDies, DaemonDrains
  <2>2. \A e \in Entry : /\ "kill" \in up'[e] => "kill" \in up[e]
                         /\ killq'[e] => killq[e]
    BY <2>1 DEF ProcessEnds
  <2>3. UNCHANGED <<pty, client, timers, peer, backlog, target, wanted>>
    BY <2>1 DEF ProcessEnds
  <2>4. QED
    BY <2>2, <2>3 DEF HangUpIsWanted
<1>6. 1 \in Id
  BY ConstantsAssumption DEF Id
<1>7. QED
  BY DaemonNext(d), <1>1, <1>2, <1>3, <1>4, <1>5, <1>6 DEF DaemonNext

LEMMA EntryHangUp ==
  ASSUME TypeOK, IdInv, HangUpInv, NEW e \in Entry, EntryNext(e)
  PROVE  HangUpInv'
<1> USE DEF HangUpInv, KillInv, TypeOK, EntryTypeOK, LinkTypeOK
<1>1. UNCHANGED <<pty, client, timers, target>>
  BY EntryNext(e)
     DEF EntryNext, Kill, SweepDead, DialOk, DialRefused, RecvReady, RecvBusy,
         RecvExit, RecvEof
<1>2. CASE Kill(e)
  <2>1. wanted' = wanted \cup {target[e]} /\ UNCHANGED <<peer, backlog>>
    BY <1>2 DEF Kill
  <2>2. \A f \in Entry \ {e} : up'[f] = up[f] /\ killq'[f] = killq[f]
    BY <1>2 DEF Kill
  <2>3. QED
    BY <1>1, <2>1, <2>2 DEF HangUpIsWanted
<1>3. CASE DialOk(e)
  <2>1. UNCHANGED wanted
    BY <1>3 DEF DialOk
  <2>2. \A f \in Entry \ {e} :
          /\ up'[f] = up[f] /\ killq'[f] = killq[f]
          /\ peer'[f] = peer[f] /\ backlog'[f] = backlog[f]
    BY <1>3 DEF DialOk
  <2>3. ~killq'[e] /\ ("kill" \in up'[e] => killq[e])
    BY <1>3 DEF DialOk, Flushed
  <2>4. QED
    BY <1>1, <2>1, <2>2, <2>3 DEF HangUpIsWanted
<1>4. CASE SweepDead(e) \/ DialRefused(e) \/ RecvReady(e) \/ RecvBusy(e)
           \/ RecvExit(e)
  <2>1. UNCHANGED <<wanted, peer, backlog, up, killq>>
    BY <1>4 DEF SweepDead, DialRefused, RecvReady, RecvBusy, RecvExit
  <2>2. QED
    BY <1>1, <2>1 DEF HangUpIsWanted
<1>5. CASE RecvEof(e)
  <2>1. UNCHANGED <<wanted, backlog, killq>>
    BY <1>5 DEF RecvEof
  <2>2. \A f \in Entry : \/ up'[f] = {}
                         \/ up'[f] = up[f] /\ peer'[f] = peer[f]
    BY <1>5 DEF RecvEof
  <2>3. QED
    BY <1>1, <2>1, <2>2 DEF HangUpIsWanted
<1>6. QED
  BY EntryNext(e), <1>2, <1>3, <1>4, <1>5 DEF EntryNext

LEMMA HolderEndsHangUp ==
  ASSUME TypeOK, HangUpInv, NEW h \in Holder, HolderEnds(h)
  PROVE  HangUpInv'
<1> USE DEF HangUpInv, KillInv, TypeOK, LinkTypeOK, HolderTypeOK
<1>1. pty' = [pty EXCEPT ![h] = "ended"] /\ timers' = [timers EXCEPT ![h] = {}]
  BY DEF HolderEnds
<1>2. \A e \in Entry : pty[peer[e]] = "ended" => pty'[peer[e]] = "ended"
  BY <1>1
<1>3. \A e \in Entry : /\ backlog'[e] => backlog[e]
                       /\ up'[e] = up[e] \/ up'[e] = {}
  BY DEF HolderEnds
<1>4. \A e \in Entry, g \in Holder : client'[g] = e => client[g] = e
  BY ConstantsAssumption DEF HolderEnds
<1>5. UNCHANGED <<peer, killq, target, wanted>>
  BY DEF HolderEnds
<1>6. KillInv'
  BY <1>2, <1>3, <1>4, <1>5
<1>7. HangUpIsWanted'
  BY <1>1, <1>5 DEF HangUpIsWanted
<1>8. QED
  BY <1>6, <1>7

LEMMA HolderHangUp ==
  ASSUME TypeOK, ExitInv, IdInv, HangUpInv, NEW h \in Holder, HolderNext(h)
  PROVE  HangUpInv'
<1> USE DEF HangUpInv, KillInv, TypeOK, LinkTypeOK, HolderTypeOK
<1>1. CASE BindSocket(h) \/ WriteJson(h)
  BY <1>1 DEF BindSocket, WriteJson, HangUpIsWanted
<1>2. CASE TermHolder(h)
  <2>1. /\ pty' = [pty EXCEPT ![h] = HangUp(h)]
        /\ timers' = [timers EXCEPT ![h] = @ \cup {"term"}]
        /\ UNCHANGED <<peer, backlog, killq, up, client, target, wanted>>
    BY <1>2 DEF TermHolder
  <2>2. \A e \in Entry : pty[peer[e]] = "ended" => pty'[peer[e]] = "ended"
    BY <2>1 DEF HangUp
  <2>3. KillInv'
    BY <2>1, <2>2
  <2>4. HangUpIsWanted'
    BY <2>1 DEF HangUpIsWanted
  <2>5. QED
    BY <2>3, <2>4
<1>3. ASSUME NEW e \in Entry, Accept(h, e)
      PROVE  HangUpInv'
  <2>1. UNCHANGED <<pty, peer, killq, up, target, wanted>> /\ backlog[e]
    BY <1>3 DEF Accept
  <2>2. \A f \in Entry : backlog'[f] => backlog[f]
    BY <1>3 DEF Accept
  <2>3. \A f \in Entry \ {e}, g \in Holder : client'[g] = f => client[g] = f
    BY <1>3 DEF Accept, Admit, Refuse
  <2>4. \A g \in Holder : timers[g] \in SUBSET timers'[g]
    BY <1>3 DEF Accept, Admit, Refuse
  <2>5. KillInv'
    BY <2>1, <2>2, <2>3
  <2>6. HangUpIsWanted'
    BY <2>1, <2>4 DEF HangUpIsWanted
  <2>7. QED
    BY <2>5, <2>6
<1>4. CASE PtyExit(h)
  <2>1. pty' = [pty EXCEPT ![h] = "ended"]
        /\ UNCHANGED <<peer, backlog, killq, up, client, target, wanted>>
    BY <1>4 DEF PtyExit
  <2>2. \A e \in Entry : pty[peer[e]] = "ended" => pty'[peer[e]] = "ended"
    BY <2>1
  <2>3. KillInv'
    BY <2>1, <2>2
  <2>4. HangUpIsWanted'
    BY <1>4, <2>1 DEF PtyExit, HangUpIsWanted
  <2>5. QED
    BY <2>3, <2>4
<1>5. CASE RecvKill(h)
  <2>1. PICK e \in Entry : client[h] = e /\ "kill" \in up[e]
    BY <1>5 DEF RecvKill
  <2>2. peer[e] = h /\ target[e] = h
    BY <2>1, ConstantsAssumption DEF ExitInv, ClientInv, IdInv, LinkInv
  <2>3. h \in wanted \/ pty[h] = "ended"
    BY <2>1, <2>2
  <2>4. /\ pty' = [pty EXCEPT ![h] = HangUp(h)]
        /\ UNCHANGED <<peer, backlog, killq, client, target, wanted, timers>>
    BY <1>5 DEF RecvKill
  <2>5. \A f \in Entry : "kill" \in up'[f] => "kill" \in up[f]
    BY <1>5 DEF RecvKill
  <2>6. \A f \in Entry : pty[peer[f]] = "ended" => pty'[peer[f]] = "ended"
    BY <2>4 DEF HangUp
  <2>7. KillInv'
    BY <2>4, <2>5, <2>6
  <2>8. HangUpIsWanted'
    BY <2>3, <2>4 DEF HangUp, HangUpIsWanted
  <2>9. QED
    BY <2>7, <2>8
<1>6. CASE RecvClose(h)
  <2>1. CASE Cleanup(h)
    BY <2>1, HolderEndsHangUp DEF Cleanup
  <2>2. CASE ~Cleanup(h)
    <3>1. UNCHANGED <<pty, peer, backlog, killq, target, wanted, timers>>
      BY <1>6, <2>2 DEF RecvClose
    <3>2. \A f \in Entry : "kill" \in up'[f] => "kill" \in up[f]
      BY <1>6, <2>2 DEF RecvClose
    <3>3. \A f \in Entry, g \in Holder : client'[g] = f => client[g] = f
      BY <1>6, <2>2, ConstantsAssumption DEF RecvClose
    <3>4. QED
      BY <3>1, <3>2, <3>3 DEF HangUpIsWanted
  <2>3. QED
    BY <2>1, <2>2
<1>7. CASE TimerFires(h) \/ HolderDies(h)
  BY <1>7, HolderEndsHangUp DEF TimerFires, Cleanup, HolderDies
<1>8. QED
  BY HolderNext(h), <1>1, <1>2, <1>3, <1>4, <1>5, <1>6, <1>7 DEF HolderNext

LEMMA NextHangUp ==
  ASSUME TypeOK, AttachmentInv, ExitInv, IdInv, HangUpInv, [Next]_vars
  PROVE  HangUpInv'
<1>1. CASE UNCHANGED vars
  BY <1>1 DEF vars, HangUpInv, KillInv, HangUpIsWanted
<1>2. CASE Next
  BY <1>2, DaemonHangUp, EntryHangUp, HolderHangUp DEF Next
<1>3. QED
  BY <1>1, <1>2

(* No session is hung up but by its user's close or by the end of its      *)
(* holder: a kill never reaches another session's PTY, and no death or     *)
(* restart of a daemon ends one (pty-manager.js:226-234, holder.js:260).   *)
THEOREM HangUpIsWantedHolds ==
  ASSUME InTurn PROVE Spec => []HangUpIsWanted
<1>1. TypeOK /\ AttachmentInv /\ ExitInv /\ IdInv /\ HangUpInv /\ [Next]_vars
        => HangUpInv'
  BY NextHangUp
<1>2. HangUpInv => HangUpIsWanted
  BY DEF HangUpInv
<1>3. QED
  BY <1>1, <1>2, InitHangUp, TypeCorrect, AttachmentCorrect, ExitCorrect,
     IdsCorrect, PTL DEF Spec

(***************************************************************************)
(* Survivors are adopted, if besides every holder has seen its old client  *)
(* close when the next daemon starts.                                      *)
(***************************************************************************)
Quiet == InTurn /\ PromptClose

LEMMA InitFree == Init => FreeInv /\ AdoptInv
  BY ConstantsAssumption
     DEF Init, FreeInv, AdoptInv, Running, Serving, Booting

(* A connection of the running daemon leads to the holder of its id.       *)
LEMMA PeerFacts ==
  ASSUME LinkInv, NEW e \in Entry, NEW h \in Holder,
         peer[e] = h, conn[e] # "none"
  PROVE  target[e] = h /\ eid[e] = hid[h]
  BY ConstantsAssumption DEF LinkInv

LEMMA DaemonFree ==
  ASSUME Quiet, TypeOK, AttachmentInv, ExitInv, IdInv, FreeInv,
         NEW d \in Daemon, DaemonNext(d)
  PROVE  FreeInv'
<1> USE DEF TypeOK, DaemonTypeOK, EntryTypeOK, LinkTypeOK, HolderTypeOK, Id
<1>1. CASE StartDaemon(d)
  <2>1. \A x \in Daemon : ~Running(x)
    BY <1>1 DEF StartDaemon, Quiet, InTurn
  <2>2. \A x \in Daemon : Running(x)' => x = d
    BY <1>1, <2>1 DEF StartDaemon, Running
  <2>3. \A e \in Entry : owner[e] # d
    BY <1>1 DEF StartDaemon, FreeInv
  <2>4. \A h \in Holder : ~Booting(h)
    BY <1>1 DEF StartDaemon, Quiet, InTurn, Booting
  <2>5. \A e \in Entry : ~backlog[e] /\ \A h \in Holder : client[h] # e
    <3>1. \A e \in Entry : conn[e] # "none" => ~Running(owner[e])
      BY <2>1 DEF IdInv, LinkInv
    <3>2. \A e \in Entry : backlog[e] \/ (\E h \in Holder : client[h] = e)
            => conn[e] # "none"
      BY DEF ExitInv, BacklogInv, ClientInv
    <3>3. QED
      BY <1>1, <3>1, <3>2 DEF StartDaemon, Quiet
  <2>6. UNCHANGED <<hstate, owner, eid, born, backlog, client, down, estate,
                    pty, peer>>
    BY <1>1 DEF StartDaemon
  <2>7. \A x \in Daemon : dstate'[x] = "unborn" => dstate[x] = "unborn"
    BY <1>1 DEF StartDaemon
  <2>8. QED
    BY <2>2, <2>3, <2>4, <2>5, <2>6, <2>7 DEF FreeInv, Booting
<1>2. ASSUME NEW h \in Holder, NEW e \in Entry, Spawn(d, h, e)
      PROVE  FreeInv'
  <2>1. /\ Running(d) /\ nextId[d] \in Int
        /\ conn[e] = "none" /\ down[e] = {} /\ pty[h] = "none"
    BY <1>2 DEF Spawn, NewClient, AttachmentInv, ExitInv, UnbornInv
  <2>2. \A x \in Daemon : Running(x) => x = d
    BY <2>1 DEF IdInv, RunInv
  <2>3. /\ pty' = [pty EXCEPT ![h] = "running"]
        /\ born' = [born EXCEPT ![h] = d]
        /\ hstate' = [hstate EXCEPT ![h] = "booting"]
        /\ nextId' = [nextId EXCEPT ![d] = @ + 1]
        /\ UNCHANGED <<dstate, scan, client, peer, backlog, down>>
    BY <1>2 DEF Spawn, NewClient
  <2>4. /\ owner' = [owner EXCEPT ![e] = d]
        /\ eid' = [eid EXCEPT ![e] = nextId[d]]
        /\ estate' = [estate EXCEPT ![e] = "alive"]
    BY <1>2 DEF Spawn, NewClient
  <2>5. \A f \in Entry : pty[peer[f]] = "ended" => pty'[peer[f]] = "ended"
    BY <2>1, <2>3
  <2>6. ~backlog[e] /\ \A g \in Holder : client[g] # e
    BY <2>1 DEF ExitInv, BacklogInv, ClientInv
  <2>7. \A i \in scan[d] : i \in Int /\ i < nextId[d]
    BY <2>1 DEF IdInv, RunInv
  <2>8. \A g \in Holder : Booting(g)' => born'[g] = d
    BY <2>1, <2>3 DEF Booting, FreeInv, FileTypeOK
  <2>9. \A f \in Entry : owner'[f] = d =>
          eid'[f] < nextId'[d] /\ eid'[f] \notin scan[d]
    <3>1. nextId'[d] = nextId[d] + 1 /\ nextId[d] \notin scan[d]
      BY <2>1, <2>3, <2>7
    <3>2. \A f \in Entry : eid[f] \in Int
      BY ConstantsAssumption
    <3>3. \A f \in Entry \ {e} : owner'[f] = owner[f] /\ eid'[f] = eid[f]
      BY <2>4
    <3>4. eid'[e] = nextId[d]
      BY <2>4
    <3>5. QED
      BY <2>1, <3>1, <3>2, <3>3, <3>4 DEF FreeInv
  <2>10. \A f, g \in Entry :
           owner'[f] = d /\ owner'[g] = d /\ eid'[f] = eid'[g] => f = g
    BY <2>1, <2>4 DEF FreeInv
  <2>11. \A x \in Daemon : dstate[x] = "unborn" => x # d
    BY <2>1 DEF Running
  <2>12. QED
    BY <2>1, <2>2, <2>3, <2>4, <2>5, <2>6, <2>8, <2>9, <2>10, <2>11
       DEF FreeInv, Running
<1>3. ASSUME NEW i \in Id, SkipHolder(d, i) \/ SweepLeftovers(d, i)
      PROVE  FreeInv'
  <2>1. /\ \A x \in Daemon : scan'[x] \in SUBSET scan[x]
        /\ UNCHANGED <<dstate, nextId, hstate, owner, eid, born, backlog, client,
                       down, estate, pty, peer>>
    BY <1>3 DEF SkipHolder, SweepLeftovers, RestOfScan
  <2>2. QED
    BY <2>1 DEF FreeInv, Running, Booting
<1>4. ASSUME NEW i \in Id, NEW e \in Entry, DialSurvivor(d, i, e)
      PROVE  FreeInv'
  <2>1. /\ Running(d) /\ i \in scan[d] /\ i < nextId[d]
        /\ conn[e] = "none" /\ down[e] = {}
    BY <1>4 DEF DialSurvivor, NewClient, AttachmentInv, IdInv, RunInv
  <2>2. \A x \in Daemon : Running(x) => x = d
    BY <2>1 DEF IdInv, RunInv
  <2>3. /\ scan' = [scan EXCEPT ![d] = scan[d] \ {i}]
        /\ UNCHANGED <<dstate, nextId, hstate, born, backlog, client, down, pty,
                       peer>>
    BY <1>4 DEF DialSurvivor, NewClient, RestOfScan
  <2>4. /\ owner' = [owner EXCEPT ![e] = d]
        /\ eid' = [eid EXCEPT ![e] = i]
        /\ estate' = [estate EXCEPT ![e] = "adopting"]
    BY <1>4 DEF DialSurvivor, NewClient
  <2>5. ~backlog[e] /\ \A g \in Holder : client[g] # e
    BY <2>1 DEF ExitInv, BacklogInv, ClientInv
  <2>6. \A f \in Entry : owner'[f] = d =>
          eid'[f] < nextId[d] /\ eid'[f] \notin scan'[d]
    BY <2>1, <2>3, <2>4 DEF FreeInv
  <2>7. \A f, g \in Entry :
          owner'[f] = d /\ owner'[g] = d /\ eid'[f] = eid'[g] => f = g
    BY <2>1, <2>4 DEF FreeInv
  <2>8. \A x \in Daemon : dstate[x] = "unborn" => x # d
    BY <2>1 DEF Running
  <2>9. QED
    BY <2>1, <2>2, <2>3, <2>4, <2>5, <2>6, <2>7, <2>8
       DEF FreeInv, Running, Booting
<1>5. ASSUME NEW force \in BOOLEAN, Shutdown(d, force)
      PROVE  FreeInv'
  <2>1. \A x \in Daemon : /\ Running(x)' <=> Running(x)
                          /\ dstate'[x] = "unborn" => dstate[x] = "unborn"
    BY <1>5 DEF Shutdown, Serving, Running
  <2>2. \A e \in Entry : estate'[e] = estate[e] \/ estate'[e] = "gone"
    BY <1>5 DEF Shutdown
  <2>3. UNCHANGED <<nextId, scan, hstate, owner, eid, born, backlog, client,
                    down, pty, peer>>
    BY <1>5 DEF Shutdown
  <2>4. QED
    BY <2>1, <2>2, <2>3 DEF FreeInv, Booting
<1>6. CASE DaemonDies(d) \/ DaemonDrains(d)
  <2>1. ProcessEnds(d) /\ Running(d)
    BY <1>6 DEF DaemonDies, DaemonDrains, Running
  <2>2. \A x \in Daemon : /\ ~Running(x)'
                          /\ dstate'[x] = "unborn" => dstate[x] = "unborn"
    BY <2>1 DEF ProcessEnds, Running, IdInv, RunInv
  <2>3. \A e \in Entry : \/ down'[e] = {}
                         \/ down'[e] = down[e] /\ estate'[e] = estate[e]
    BY <2>1 DEF ProcessEnds
  <2>4. UNCHANGED <<owner, pty, peer>>
    BY <2>1 DEF ProcessEnds
  <2>5. QED
    BY <2>2, <2>3, <2>4 DEF FreeInv
<1>7. QED
  BY DaemonNext(d), <1>1, <1>2, <1>3, <1>4, <1>5, <1>6 DEF DaemonNext

LEMMA EntryFree ==
  ASSUME TypeOK, AttachmentInv, ExitInv, IdInv, FreeInv,
         NEW e \in Entry, EntryNext(e)
  PROVE  FreeInv'
<1> USE DEF TypeOK, DaemonTypeOK, EntryTypeOK, LinkTypeOK, HolderTypeOK
<1>1. UNCHANGED <<dstate, scan, hstate, pty, client, owner, eid, born>>
  BY EntryNext(e)
     DEF EntryNext, Kill, SweepDead, DialOk, DialRefused, RecvReady, RecvBusy,
         RecvExit, RecvEof
<1>2. \A d \in Daemon, i \in Int : i < nextId[d] => i < nextId'[d]
  <2>1. CASE RecvReady(e)
    <3>1. \A d \in Daemon : nextId[d] \in Int
      BY ConstantsAssumption
    <3>2. eid[e] \in Int
      BY ConstantsAssumption DEF Id
    <3>3. \A d \in Daemon :
            \/ nextId'[d] = nextId[d]
            \/ nextId'[d] = eid[e] + 1 /\ eid[e] >= nextId[d]
      BY <2>1, <3>1, <3>2 DEF RecvReady
    <3>4. QED
      BY <3>1, <3>2, <3>3
  <2>2. CASE ~RecvReady(e)
    BY <2>2, EntryNext(e)
       DEF EntryNext, Kill, SweepDead, DialOk, DialRefused, RecvBusy, RecvExit,
           RecvEof
  <2>3. QED
    BY <2>1, <2>2
<1>3. \A f \in Entry : backlog'[f] => backlog[f] \/ (f = e /\ DialOk(e))
  <2>1. CASE DialOk(e)
    BY <2>1 DEF DialOk
  <2>2. CASE ~DialOk(e)
    <3>1. UNCHANGED backlog
      BY <2>2, EntryNext(e)
         DEF EntryNext, Kill, SweepDead, DialRefused, RecvReady, RecvBusy,
             RecvExit, RecvEof
    <3>2. QED
      BY <3>1
  <2>3. QED
    BY <2>1, <2>2
<1>4. \A f \in Entry :
        \/ down'[f] = {}
        \/ down'[f] \in SUBSET down[f] /\ peer'[f] = peer[f]
  <2>1. CASE DialOk(e)
    BY <2>1 DEF DialOk, AttachmentInv
  <2>2. CASE ~DialOk(e)
    BY <2>2, EntryNext(e)
       DEF EntryNext, Kill, SweepDead, DialRefused, RecvReady, RecvBusy,
           RecvExit, RecvEof
  <2>3. QED
    BY <2>1, <2>2
<1>5. \A f \in Entry : estate'[f] # "gone" => estate[f] # "gone"
  BY EntryNext(e)
     DEF EntryNext, Kill, SweepDead, DialOk, DialRefused, RecvReady, RecvBusy,
         RecvExit, RecvEof, GiveUp
<1>6. DialOk(e) => \A d \in Daemon : Running(d) => owner[e] = d
  BY DEF DialOk, IdInv, LinkInv, RunInv
<1>7. \A f \in Entry : eid[f] \in Int
  BY ConstantsAssumption DEF Id
<1>8. \A f \in Entry :
        /\ "busy" \notin down'[f]
        /\ "eof" \in down'[f] /\ estate'[f] # "gone" => pty'[peer'[f]] = "ended"
  BY <1>1, <1>4, <1>5 DEF FreeInv
<1>9. \A d \in Daemon : Running(d)' <=> Running(d)
  BY <1>1 DEF Running
<1>10. \A d \in Daemon : Running(d) =>
         /\ \A f \in Entry : owner[f] = d => eid[f] < nextId'[d]
         /\ \A f \in Entry : backlog'[f] => owner[f] = d
  BY <1>2, <1>3, <1>6, <1>7 DEF FreeInv
<1>11. QED
  BY <1>1, <1>8, <1>9, <1>10 DEF FreeInv, Booting

LEMMA HolderEndsFree ==
  ASSUME TypeOK, FreeInv, NEW h \in Holder, HolderEnds(h)
  PROVE  FreeInv'
<1> USE DEF TypeOK, LinkTypeOK, HolderTypeOK
<1>1. UNCHANGED <<dstate, nextId, scan, owner, eid, born, estate, peer>>
  BY DEF HolderEnds
<1>2. pty' = [pty EXCEPT ![h] = "ended"] /\ hstate' = [hstate EXCEPT ![h] = "gone"]
  BY DEF HolderEnds
<1>3. \A e \in Entry : \/ down'[e] = down[e]
                       \/ down'[e] = down[e] \cup {"eof"} /\ peer[e] = h
  BY DEF HolderEnds
<1>4. \A e \in Entry : backlog'[e] => backlog[e]
  BY DEF HolderEnds
<1>5. \A e \in Entry, g \in Holder : client'[g] = e => client[g] = e
  BY ConstantsAssumption DEF HolderEnds
<1>6. QED
  BY <1>1, <1>2, <1>3, <1>4, <1>5 DEF FreeInv, Running, Booting

(* Nobody waits at a holder that has a client: both would be the one entry *)
(* that the daemon has for this id.                                        *)
LEMMA NeverTaken ==
  ASSUME TypeOK, AttachmentInv, ExitInv, IdInv, FreeInv,
         NEW h \in Holder, NEW e \in Entry, Accept(h, e), conn[e] = "open"
  PROVE  ~Taken(h)
<1> USE DEF TypeOK, LinkTypeOK, HolderTypeOK, EntryTypeOK
<1>1. SUFFICES ASSUME NEW f \in Entry, client[h] = f PROVE FALSE
  BY DEF Taken
<1>2. backlog[e] /\ peer[e] = h
  BY DEF Accept
<1>3. peer[f] = h /\ conn[f] # "none"
  BY <1>1 DEF ExitInv, ClientInv
<1>4. eid[e] = eid[f]
  BY <1>2, <1>3, PeerFacts DEF IdInv
<1>5. PICK d \in Daemon : owner[e] = d /\ Running(d)
  BY DEF IdInv, LinkInv
<1>6. owner[f] = d
  BY <1>1, <1>5 DEF FreeInv
<1>7. e = f
  BY <1>4, <1>5, <1>6 DEF FreeInv
<1>8. QED
  BY <1>1, <1>2, <1>7 DEF ExitInv, BacklogInv

LEMMA HolderFree ==
  ASSUME TypeOK, AttachmentInv, ExitInv, IdInv, FreeInv,
         NEW h \in Holder, HolderNext(h)
  PROVE  FreeInv'
<1> USE DEF TypeOK, LinkTypeOK, HolderTypeOK
<1>1. CASE BindSocket(h) \/ WriteJson(h)
  <2>1. UNCHANGED <<dstate, nextId, scan, owner, eid, born, estate, peer, pty,
                    down, backlog, client>>
    BY <1>1 DEF BindSocket, WriteJson
  <2>2. \A g \in Holder : Booting(g)' => Booting(g)
    BY <1>1 DEF BindSocket, WriteJson, Booting
  <2>3. QED
    BY <2>1, <2>2 DEF FreeInv, Running
<1>2. CASE TermHolder(h) \/ RecvKill(h)
  <2>1. UNCHANGED <<dstate, nextId, scan, hstate, owner, eid, born, estate, peer,
                    down, backlog, client>>
    BY <1>2 DEF TermHolder, RecvKill
  <2>2. \A e \in Entry : pty[peer[e]] = "ended" => pty'[peer[e]] = "ended"
    <3>1. pty' = [pty EXCEPT ![h] = HangUp(h)]
      BY <1>2 DEF TermHolder, RecvKill
    <3>2. QED
      BY <3>1 DEF HangUp
  <2>3. QED
    BY <2>1, <2>2 DEF FreeInv, Running, Booting
<1>3. ASSUME NEW e \in Entry, Accept(h, e)
      PROVE  FreeInv'
  <2>1. UNCHANGED <<dstate, nextId, scan, hstate, pty, owner, eid, born, estate,
                    peer>>
    BY <1>3 DEF Accept
  <2>2. \A f \in Entry : backlog'[f] => backlog[f]
    BY <1>3 DEF Accept
  <2>3. \A f \in Entry : /\ "busy" \in down'[f] => "busy" \in down[f]
                         /\ "eof" \in down'[f] => "eof" \in down[f]
    <3>1. CASE conn[e] = "open"
      <4>1. down' = Write(e, Greeting(h))
        BY <1>3, <3>1, NeverTaken DEF Accept, Admit
      <4>2. "busy" \notin Greeting(h) /\ "eof" \notin Greeting(h)
        BY DEF Greeting
      <4>3. QED
        BY <4>1, <4>2 DEF Write
    <3>2. CASE conn[e] # "open"
      BY <1>3, <3>2 DEF Accept, Admit, Refuse, Write
    <3>3. QED
      BY <3>1, <3>2
  <2>4. \A f \in Entry, g \in Holder :
          client'[g] = f => client[g] = f \/ backlog[f]
    BY <1>3 DEF Accept, Admit, Refuse
  <2>5. QED
    BY <2>1, <2>2, <2>3, <2>4 DEF FreeInv, Running, Booting
<1>4. CASE PtyExit(h)
  <2>1. UNCHANGED <<dstate, nextId, scan, hstate, owner, eid, born, estate, peer,
                    backlog, client>>
    BY <1>4 DEF PtyExit
  <2>2. \A e \in Entry : down'[e] \in SUBSET (down[e] \cup {"exit"})
    BY <1>4 DEF PtyExit, Write
  <2>3. \A e \in Entry : pty[peer[e]] = "ended" => pty'[peer[e]] = "ended"
    BY <1>4 DEF PtyExit
  <2>4. QED
    BY <2>1, <2>2, <2>3 DEF FreeInv, Running, Booting
<1>5. CASE RecvClose(h)
  <2>1. CASE Cleanup(h)
    BY <2>1, HolderEndsFree DEF Cleanup
  <2>2. CASE ~Cleanup(h)
    <3>1. PICK e \in Entry : client[h] = e /\ up[e] = {"eof"}
      BY <1>5 DEF RecvClose
    <3>2. estate[e] = "gone"
      BY <3>1 DEF ExitInv, FramesInv
    <3>3. \A f \in Entry : \/ down'[f] = down[f]
                           \/ f = e /\ down'[f] = down[f] \cup {"eof"}
      BY <1>5, <2>2, <3>1 DEF RecvClose, Write
    <3>4. UNCHANGED <<dstate, nextId, scan, hstate, pty, owner, eid, born, estate,
                      peer, backlog>>
      BY <1>5, <2>2 DEF RecvClose
    <3>5. \A f \in Entry, g \in Holder : client'[g] = f => client[g] = f
      BY <1>5, <2>2, ConstantsAssumption DEF RecvClose
    <3>6. QED
      BY <3>2, <3>3, <3>4, <3>5 DEF FreeInv, Running, Booting
  <2>3. QED
    BY <2>1, <2>2
<1>6. CASE TimerFires(h) \/ HolderDies(h)
  BY <1>6, HolderEndsFree DEF TimerFires, Cleanup, HolderDies
<1>7. QED
  BY HolderNext(h), <1>1, <1>2, <1>3, <1>4, <1>5, <1>6 DEF HolderNext

LEMMA NextFree ==
  ASSUME Quiet, TypeOK, AttachmentInv, ExitInv, IdInv, FreeInv, [Next]_vars
  PROVE  FreeInv'
<1>1. CASE UNCHANGED vars
  BY <1>1 DEF vars, FreeInv, Running, Booting
<1>2. CASE Next
  BY <1>2, DaemonFree, EntryFree, HolderFree DEF Next
<1>3. QED
  BY <1>1, <1>2

(* Steps that end no adoption and shorten no list.                         *)
LEMMA SameAdopt ==
  ASSUME AdoptInv, UNCHANGED <<hid, scan, owner, target, eid>>,
         \A d \in Daemon : dstate'[d] = "up" => dstate[d] = "up",
         \A d \in Daemon, h \in Holder :
           dstate'[d] = "up" /\ h \in Survivors'[d] => h \in Survivors[d],
         \A d \in Daemon, h \in Holder, e \in Entry :
           dstate'[d] = "up" /\ h \in Survivors'[d] /\ e \in Rescue[d][h] => e \in Rescue'[d][h]
  PROVE  AdoptInv'
  BY DEF AdoptInv

LEMMA DaemonAdopt ==
  ASSUME Quiet, TypeOK, AttachmentInv, ExitInv, IdInv, FreeInv, AdoptInv,
         NEW d \in Daemon, DaemonNext(d)
  PROVE  AdoptInv'
<1> USE DEF TypeOK, DaemonTypeOK, EntryTypeOK, LinkTypeOK, HolderTypeOK
<1>1. CASE StartDaemon(d)
  <2>1. \A x \in Daemon : dstate'[x] = "up" => x = d
    BY <1>1 DEF StartDaemon, Quiet, InTurn, Running, Serving
  <2>2. scan' = [scan EXCEPT ![d] = OnDisk] /\ UNCHANGED <<hid, hstate>>
    BY <1>1 DEF StartDaemon
  <2>3. \A h \in Holder : hstate[h] = "serving" => hid[h] \in OnDisk
    BY ConstantsAssumption DEF IdInv, FileInv, Exists, OnDisk
  <2>4. QED
    BY <2>1, <2>2, <2>3 DEF AdoptInv, Survivors
<1>2. ASSUME NEW h \in Holder, NEW e \in Entry, Spawn(d, h, e)
      PROVE  AdoptInv'
  <2>1. /\ estate[e] = "unused" /\ hstate'[h] = "booting"
        /\ UNCHANGED <<dstate, scan>>
    BY <1>2 DEF Spawn, NewClient
  <2>2. \A g \in Holder \ {h} :
          /\ hstate'[g] = hstate[g] /\ hid'[g] = hid[g]
          /\ pty'[g] = pty[g] /\ born'[g] = born[g]
    BY <1>2 DEF Spawn
  <2>3. \A f \in Entry \ {e} :
          /\ owner'[f] = owner[f] /\ target'[f] = target[f]
          /\ eid'[f] = eid[f] /\ estate'[f] = estate[f]
    BY <1>2 DEF Spawn, NewClient
  <2>4. \A x \in Daemon, g \in Holder : g \in Survivors'[x] => g # h /\ g \in Survivors[x]
    BY <2>1, <2>2 DEF Survivors
  <2>5. \A x \in Daemon, g \in Holder \ {h}, f \in Entry :
          f \in Rescue[x][g] => f \in Rescue'[x][g]
    BY <2>1, <2>2, <2>3 DEF Rescue
  <2>6. QED
    BY <2>1, <2>2, <2>4, <2>5 DEF AdoptInv, Serving
<1>3. ASSUME NEW i \in Id, SkipHolder(d, i) \/ SweepLeftovers(d, i)
      PROVE  AdoptInv'
  <2>1. /\ scan' = [scan EXCEPT ![d] = scan[d] \ {i}]
        /\ UNCHANGED <<dstate, hstate, hid, pty, born, owner, target, eid, estate>>
        /\ Running(d) /\ i \in scan[d]
    BY <1>3 DEF SkipHolder, SweepLeftovers, RestOfScan
  (* i is no survivor's: d has no entry under i, and no live holder is     *)
  (* taken for dead.                                                       *)
  <2>2. \A h \in Holder : hstate[h] = "serving" => hid[h] # i
    BY <1>3, <2>1, ConstantsAssumption
       DEF SkipHolder, SweepLeftovers, PidDead, InMap, FreeInv, IdInv, FileInv
  <2>3. \A x \in Daemon, h \in Holder : h \in Survivors'[x] <=> h \in Survivors[x]
    BY <2>1 DEF Survivors
  <2>4. \A x \in Daemon, h \in Holder, e \in Entry :
          e \in Rescue'[x][h] <=> e \in Rescue[x][h]
    BY <2>1 DEF Rescue
  <2>5. \A x \in Daemon, h \in Holder :
          h \in Survivors[x] /\ hid[h] \in scan[x] => hid[h] \in scan'[x]
    BY <2>1, <2>2 DEF Survivors
  <2>6. QED
    BY <2>1, <2>3, <2>4, <2>5 DEF AdoptInv, Serving
<1>4. ASSUME NEW i \in Id, NEW e \in Entry, DialSurvivor(d, i, e)
      PROVE  AdoptInv'
  <2>1. /\ scan' = [scan EXCEPT ![d] = scan[d] \ {i}]
        /\ UNCHANGED <<dstate, hstate, hid, pty, born>>
        /\ estate[e] = "unused"
    BY <1>4 DEF DialSurvivor, NewClient, RestOfScan
  <2>2. \A f \in Entry \ {e} :
          /\ owner'[f] = owner[f] /\ target'[f] = target[f]
          /\ eid'[f] = eid[f] /\ estate'[f] = estate[f]
    BY <1>4 DEF DialSurvivor, NewClient
  <2>3. /\ owner'[e] = d /\ eid'[e] = i /\ target'[e] = jsonOf[i]
        /\ estate'[e] = "adopting"
    BY <1>4 DEF DialSurvivor, NewClient
  <2>4. \A h \in Holder : hstate[h] = "serving" /\ hid[h] = i => jsonOf[i] = h
    BY DEF IdInv, FileInv
  <2>5. \A x \in Daemon, h \in Holder, f \in Entry :
          f \in Rescue[x][h] => f \in Rescue'[x][h]
    BY <2>1, <2>2 DEF Rescue
  <2>6. \A h \in Holder :
          hstate[h] = "serving" /\ hid[h] = i => e \in Rescue'[d][h]
    BY <2>1, <2>3, <2>4 DEF Rescue
  <2>7. \A x \in Daemon, h \in Holder : h \in Survivors'[x] <=> h \in Survivors[x]
    BY <2>1 DEF Survivors
  <2>8. \A x \in Daemon, h \in Holder :
          h \in Survivors[x] /\ hid[h] \in scan[x]
            => hid[h] \in scan'[x] \/ e \in Rescue'[x][h]
    BY <2>1, <2>6 DEF Survivors
  <2>9. QED
    BY <2>1, <2>5, <2>7, <2>8 DEF AdoptInv, Serving
<1>5. CASE (\E force \in BOOLEAN : Shutdown(d, force))
           \/ DaemonDies(d) \/ DaemonDrains(d)
  <2>1. \A x \in Daemon : dstate'[x] # "up"
    BY <1>5 DEF Shutdown, DaemonDies, DaemonDrains, ProcessEnds, Serving, Running,
                IdInv, RunInv
  <2>2. QED
    BY <2>1 DEF AdoptInv
<1>6. QED
  BY DaemonNext(d), <1>1, <1>2, <1>3, <1>4, <1>5 DEF DaemonNext

(* The one entry of a survivor cannot fail: its socket answers, nobody     *)
(* says busy, and neither an exit nor an end of file can come.             *)
LEMMA EntryAdopt ==
  ASSUME TypeOK, AttachmentInv, ExitInv, IdInv, FreeInv, AdoptInv,
         NEW e \in Entry, EntryNext(e)
  PROVE  AdoptInv'
<1> USE DEF TypeOK, EntryTypeOK, LinkTypeOK, HolderTypeOK
<1>1. UNCHANGED <<dstate, scan, hstate, hid, pty, born, owner, target, eid>>
  BY EntryNext(e)
     DEF EntryNext, Kill, SweepDead, DialOk, DialRefused, RecvReady, RecvBusy,
         RecvExit, RecvEof
<1>2. \A f \in Entry \ {e} : estate'[f] = estate[f]
  BY EntryNext(e)
     DEF EntryNext, Kill, SweepDead, DialOk, DialRefused, RecvReady, RecvBusy,
         RecvExit, RecvEof, GiveUp
<1>3. ASSUME NEW d \in Daemon, NEW h \in Holder, h \in Survivors[d], e \in Rescue[d][h]
      PROVE  estate'[e] \in {"adopting", "alive"}
  <2>1. estate[e] \in {"adopting", "alive"} /\ target[e] = h /\ eid[e] = hid[h]
    BY <1>3 DEF Rescue
  <2>2. hstate[h] = "serving" /\ pty[h] = "running"
    BY <1>3 DEF Survivors
  <2>3. conn[e] = "open" => peer[e] = h
    BY <2>1, ConstantsAssumption DEF AttachmentInv, IdInv, LinkInv
  <2>4. CASE Kill(e) \/ DialOk(e) \/ RecvReady(e)
    BY <2>1, <2>4 DEF Kill, DialOk, RecvReady
  <2>5. CASE SweepDead(e)
    BY <2>1, <2>5 DEF SweepDead
  <2>6. CASE DialRefused(e)
    BY <2>1, <2>2, <2>6 DEF DialRefused, Dialable, IdInv, FileInv
  <2>7. CASE RecvBusy(e)
    BY <2>7 DEF RecvBusy, FreeInv
  <2>8. CASE RecvExit(e)
    <3>1. pty[peer[e]] = "ended"
      BY <2>1, <2>8 DEF RecvExit, ExitInv, FramesInv, EndInv, EndIsComing
    <3>2. QED
      BY <2>2, <2>3, <2>8, <3>1 DEF RecvExit
  <2>9. CASE RecvEof(e)
    <3>1. pty[peer[e]] = "ended"
      BY <2>1, <2>9 DEF RecvEof, FreeInv
    <3>2. QED
      BY <2>2, <2>3, <2>9, <3>1 DEF RecvEof
  <2>10. QED
    BY EntryNext(e), <2>4, <2>5, <2>6, <2>7, <2>8, <2>9 DEF EntryNext
<1>4. \A d \in Daemon, h \in Holder, f \in Entry :
        h \in Survivors[d] /\ f \in Rescue[d][h] => f \in Rescue'[d][h]
  BY <1>1, <1>2, <1>3 DEF Rescue
<1>5. \A d \in Daemon, h \in Holder : h \in Survivors'[d] <=> h \in Survivors[d]
  BY <1>1 DEF Survivors
<1>6. \A d \in Daemon : dstate'[d] = "up" <=> dstate[d] = "up"
  BY <1>1 DEF Serving
<1>7. QED
  BY <1>1, <1>4, <1>5, <1>6, SameAdopt

LEMMA HolderAdopt ==
  ASSUME TypeOK, FreeInv, AdoptInv, NEW h \in Holder, HolderNext(h)
  PROVE  AdoptInv'
<1> USE DEF TypeOK, HolderTypeOK
<1>1. UNCHANGED <<dstate, scan, hid, born, owner, target, eid, estate>>
  BY HolderNext(h)
     DEF HolderNext, BindSocket, WriteJson, TermHolder, Accept, PtyExit, RecvKill,
         RecvClose, TimerFires, HolderDies, Cleanup, HolderEnds
(* Whoever begins to serve was born under this daemon.                     *)
<1>2. ASSUME NEW d \in Daemon, NEW g \in Holder, dstate[d] = "up", g \in Survivors'[d]
      PROVE  g \in Survivors[d]
  <2>1. CASE WriteJson(h)
    BY <1>2, <2>1 DEF WriteJson, Survivors, FreeInv, Booting, Serving, Running
  <2>2. CASE ~WriteJson(h)
    <3>1. \A x \in Holder : hstate'[x] = "serving" => hstate[x] = "serving"
      BY <2>2, HolderNext(h)
         DEF HolderNext, BindSocket, TermHolder, Accept, PtyExit, RecvKill,
             RecvClose, TimerFires, HolderDies, Cleanup, HolderEnds
    <3>2. \A x \in Holder : pty'[x] = "running" => pty[x] = "running"
      BY <2>2, HolderNext(h)
         DEF HolderNext, BindSocket, TermHolder, Accept, PtyExit, RecvKill,
             RecvClose, TimerFires, HolderDies, Cleanup, HolderEnds, HangUp
    <3>3. QED
      BY <1>1, <1>2, <3>1, <3>2 DEF Survivors
  <2>3. QED
    BY <2>1, <2>2
<1>3. \A d \in Daemon : dstate'[d] = "up" <=> dstate[d] = "up"
  BY <1>1 DEF Serving
<1>4. \A d \in Daemon, g \in Holder, e \in Entry :
        e \in Rescue'[d][g] <=> e \in Rescue[d][g]
  BY <1>1 DEF Rescue
<1>5. QED
  BY <1>1, <1>2, <1>3, <1>4, SameAdopt

LEMMA NextAdopt ==
  ASSUME Quiet, TypeOK, AttachmentInv, ExitInv, IdInv, FreeInv, AdoptInv,
         [Next]_vars
  PROVE  AdoptInv'
<1>1. CASE UNCHANGED vars
  BY <1>1 DEF vars, AdoptInv, Serving, Survivors, Rescue
<1>2. CASE Next
  BY <1>2, DaemonAdopt, EntryAdopt, HolderAdopt DEF Next
<1>3. QED
  BY <1>1, <1>2

(* When rehydrateHolders has finished, every running PTY of an earlier     *)
(* daemon has an entry under its original ptyId (pty-manager.js:844), if   *)
(* every holder has seen its old client close when the new daemon starts.  *)
THEOREM SurvivorsAdoptedHolds ==
  ASSUME Quiet PROVE Spec => []SurvivorsAdopted
<1>1. InTurn
  BY DEF Quiet
<1>2. Spec => []IdInv
  BY <1>1, IdsCorrect
<1>3. TypeOK /\ AttachmentInv /\ ExitInv /\ IdInv /\ FreeInv /\ AdoptInv
        /\ [Next]_vars => (FreeInv /\ AdoptInv)'
  BY NextFree, NextAdopt
<1>4. AdoptInv => SurvivorsAdopted
  <2>1. SUFFICES ASSUME AdoptInv, NEW d \in Daemon, NEW h \in Holder,
                        dstate[d] = "up", scan[d] = {}, Adopting(d) = {},
                        hstate[h] = "serving", pty[h] = "running", born[h] # d
                 PROVE  \E e \in Entry :
                          InMap(d, e) /\ target[e] = h /\ eid[e] = hid[h]
    BY DEF SurvivorsAdopted, Serving
  <2>2. PICK e \in Entry : e \in Rescue[d][h]
    BY <2>1 DEF AdoptInv, Survivors
  <2>3. estate[e] # "adopting"
    BY <2>1, <2>2 DEF Adopting, Rescue
  <2>4. QED
    BY <2>2, <2>3 DEF Rescue, InMap
<1>5. QED
  BY <1>2, <1>3, <1>4, InitFree, TypeCorrect, AttachmentCorrect, ExitCorrect,
     PTL DEF Spec
=============================================================================
