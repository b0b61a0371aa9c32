-------------------------- MODULE EventsHubProofs --------------------------
(***************************************************************************)
(* Proofs of the safety properties of EventsHub for any sessions, browsers *)
(* and waiters, any number of connections after each other, and any bounds *)
(* on output, hook files and reads.                                        *)
(***************************************************************************)
EXTENDS EventsHub, TLAPS

\* What browsers and waiters are told.
UIInv ==
  /\ \A w \in Waiter : waiter[w].p # None => waiter[w].target \in Status
  /\ WaiterNotMissed
  /\ ViewMatches

\* Nothing is subscribed or on the way without a connection, and every await
\* stands at the side of a connection that it can be at.
ConnInv ==
  /\ OneMonitor
  /\ monitor = 0 => ~subscribed /\ exits = {}
  /\ \A j \in Job :
       /\ job[j].at = "rpc" => monitor = 1
       /\ job[j].at = "mon" => monitor = 0
       /\ job[j].at \in {"skip", "mon", "rpc", "behind", "reply"} => job[j].p \in Pty
  /\ \A s \in Sweeper : s = Boot => job[s].at # "idle"

\* An exit can only be handled on a connection.
DeadInv ==
  /\ FirstConnection /\ monitor = 0 => gone = {}
  /\ DeadStaysDead

Inv == TypeOK /\ UIInv /\ ConnInv /\ DeadInv

JobType == [Job -> JobRecord]

-----------------------------------------------------------------------------
LEMMA InitInv == Init => Inv
<1> SUFFICES ASSUME Init PROVE Inv
  OBVIOUS
<1>1. TypeOK
  <2>1. job \in JobType
    BY DEF Init, Idle, Job, JobType, JobRecord
  <2>2. view \in [Client -> [Pty -> Status \cup {"none", "shut"}]]
    BY DEF Init
  <2>3. waiter \in [Waiter -> WaiterType]
    BY DEF Init, Asleep, WaiterType
  <2>4. hook \in [Pty -> File]
    BY DEF Init, File
  <2>5. prompted \in [Pty -> BOOLEAN] /\ quiet \in [Pty -> BOOLEAN]
    BY DEF Init
  <2>6. chunks \in 0 .. MaxChunks /\ writes \in 0 .. MaxWrites
        /\ monitor \in 0 .. 1 /\ dialing \in 0 .. 1
    BY EventsHubAssumption DEF Init
  <2>7. /\ life \in [Pty -> {"unborn", "alive", "dead", "lost"}]
        /\ subscribed \in BOOLEAN /\ exits \subseteq Pty
        /\ attached \subseteq Pty /\ hooksActive \subseteq Pty
        /\ status \in [Pty -> Status \cup {"none"}]
        /\ closing \in {"no", "called", "closed"} /\ gone \subseteq Pty
    BY DEF Init
  <2>8. reads \subseteq ReadType
    BY DEF Init
  <2> QED BY <2>1, <2>2, <2>3, <2>4, <2>5, <2>6, <2>7, <2>8 DEF TypeOK, ReadType, WaiterType, JobType, JobRecord
<1>2. UIInv
  BY DEF Init, UIInv, WaiterNotMissed, ViewMatches, Asleep
<1>3. ConnInv
  BY DEF Init, ConnInv, OneMonitor, Idle, Job
<1>4. DeadInv
  BY DEF Init, DeadInv, DeadStaysDead
<1> QED BY <1>1, <1>2, <1>3, <1>4 DEF Inv

-----------------------------------------------------------------------------
(* Statuses *)

\* Browsers and waiters hear st while the hub sets the status to x.
LEMMA TellFacts ==
  ASSUME TypeOK, UIInv, NEW p \in Pty, NEW st \in Status \cup {"none"},
         NEW x \in Status \cup {"none"}, x = st \/ (x = "none" /\ st = "idle"),
         status' = [status EXCEPT ![p] = x], Tell(p, st)
  PROVE /\ view' \in [Client -> [Pty -> Status \cup {"none", "shut"}]]
        /\ waiter' \in [Waiter -> WaiterType]
        /\ UIInv'
<1>1. view' \in [Client -> [Pty -> Status \cup {"none", "shut"}]]
  BY DEF Tell, TypeOK
<1>2. waiter' \in [Waiter -> WaiterType]
  BY DEF Tell, TypeOK, WaiterType
<1>3. ViewMatches'
  BY <1>1 DEF Tell, TypeOK, UIInv, ViewMatches, Status
<1>4. WaiterNotMissed' /\ \A w \in Waiter : waiter'[w].p # None => waiter'[w].target \in Status
  <2> SUFFICES ASSUME NEW w \in Waiter
               PROVE /\ waiter'[w].p # None => waiter'[w].target \in Status
                     /\ waiter'[w].p # None /\ waiter'[w].said = "none" =>
                          status'[waiter'[w].p] # waiter'[w].target
    BY DEF WaiterNotMissed
  <2>1. waiter[w] \in WaiterType
    BY DEF TypeOK
  <2>2. CASE waiter[w].said = "none" /\ waiter[w].p = p /\ waiter[w].target = st
    <3>1. waiter'[w] = [waiter[w] EXCEPT !.said = st]
      BY <2>2 DEF Tell, TypeOK
    <3> QED BY <2>1, <2>2, <3>1 DEF UIInv, Status
  <2>3. CASE ~(waiter[w].said = "none" /\ waiter[w].p = p /\ waiter[w].target = st)
    <3>1. waiter'[w] = waiter[w]
      BY <2>3 DEF Tell, TypeOK
    <3> QED BY <2>1, <2>3, <3>1 DEF UIInv, WaiterNotMissed, TypeOK, Status
  <2> QED BY <2>2, <2>3
<1> QED BY <1>1, <1>2, <1>3, <1>4 DEF UIInv

LEMMA SetStatusFacts ==
  ASSUME TypeOK, UIInv, NEW p \in Pty, NEW st \in Status \cup {"none"}, SetStatus(p, st)
  PROVE /\ status' = [status EXCEPT ![p] = st]
        /\ view' \in [Client -> [Pty -> Status \cup {"none", "shut"}]]
        /\ waiter' \in [Waiter -> WaiterType]
        /\ UIInv'
<1>1. CASE status[p] = st
  BY <1>1 DEF SetStatus, uiVars, TypeOK, UIInv, WaiterNotMissed, ViewMatches
<1>2. CASE status[p] # st
  <2>1. status' = [status EXCEPT ![p] = st] /\ Tell(p, st)
    BY <1>2 DEF SetStatus
  <2> QED BY <2>1, TellFacts
<1> QED BY <1>1, <1>2

LEMMA FrameFacts ==
  ASSUME TypeOK, NEW p \in Pty, NEW c \in Chunk
  PROVE /\ Frame(p, c).st \in Status
        /\ Frame(p, c).work \in BOOLEAN
        /\ Frame(p, c).prompted \in BOOLEAN
        /\ Frame(p, c).quiet \in BOOLEAN
<1> DEFINE sees == c \in {"prompt", "mixed"}
<1>1. CASE sees /\ (prompted[p] \/ c = "prompt")
  BY <1>1 DEF Frame, Status
<1>2. CASE ~sees /\ quiet[p] /\ c = "text"
  BY <1>2 DEF Frame, Status
<1>3. CASE /\ ~(sees /\ (prompted[p] \/ c = "prompt"))
           /\ ~(~sees /\ quiet[p] /\ c = "text")
  <2>1. Frame(p, c) = [st |-> "working", work |-> c # "text", prompted |-> FALSE,
                       quiet |-> FALSE]
    BY <1>3 DEF Frame
  <2> QED BY <2>1 DEF Status
<1> QED BY <1>1, <1>2, <1>3

LEMMA ReadsFacts ==
  ASSUME TypeOK, NEW kind \in {"frame", "seed", "watch", "tick", "probe"}, NEW p \in Pty,
         NEW heur \in Status \cup {"none"}, NEW work \in BOOLEAN, Reads(kind, p, heur, work)
  PROVE reads' \subseteq ReadType
<1>1. [kind |-> kind, p |-> p, heur |-> heur, work |-> work] \in ReadType
  BY DEF ReadType
<1> QED BY <1>1 DEF Reads, TypeOK

LEMMA SilenceFacts ==
  ASSUME NEW p \in Pty PROVE Silence(p) \in Status
  BY DEF Silence, Status

LEMMA ResolveFacts ==
  ASSUME NEW file \in File, NEW heur \in Status \cup {"none"}, NEW work \in BOOLEAN
  PROVE Resolve(file, heur, work) \in Status \cup {"none"}
<1>1. CASE file.fresh
  <2>1. file.st \in Status
    BY <1>1, EventsHubAssumption DEF File, NoFile
  <2> QED BY <1>1, <2>1 DEF Resolve, Status
<1>2. CASE ~file.fresh
  BY <1>2 DEF Resolve, Status
<1> QED BY <1>1, <1>2
-----------------------------------------------------------------------------
(* Awaits *)

JobAt(at, p, todo) == [at |-> at, p |-> p, todo |-> todo]

\* The next await of attachPty, or the end of the loop.
LEMMA StartsAttachFacts ==
  ASSUME TypeOK, OneMonitor, NEW j \in Job, NEW p \in Pty, NEW todo \in SUBSET Pty,
         NEW att \in SUBSET Pty, StartsAttach(j, p, todo, att)
  PROVE /\ dialing' \in 0 .. 1 /\ monitor + dialing' <= 1
        /\ attached' \in SUBSET Pty /\ att \subseteq attached'
        /\ \E at \in {"mon", "rpc"} :
              /\ job' = [job EXCEPT ![j] = JobAt(at, p, todo)]
              /\ at = "mon" <=> monitor = 0
<1>1. dialing' \in 0 .. 1 /\ monitor + dialing' <= 1
  BY DEF StartsAttach, EnsureMonitor, NeedsDial, TypeOK, OneMonitor
<1>2. attached' = att \cup {p}
  BY DEF StartsAttach
<1>3. CASE monitor > 0
  <2>1. job' = [job EXCEPT ![j] = JobAt("rpc", p, todo)]
    BY <1>3 DEF StartsAttach, JobAt
  <2> QED BY <1>1, <1>2, <1>3, <2>1
<1>4. CASE ~(monitor > 0)
  <2>1. job' = [job EXCEPT ![j] = JobAt("mon", p, todo)] /\ monitor = 0
    BY <1>4 DEF StartsAttach, JobAt, TypeOK
  <2> QED BY <1>1, <1>2, <2>1
<1> QED BY <1>3, <1>4

LEMMA GoesOnFacts ==
  ASSUME TypeOK, OneMonitor, NEW j \in Job, GoesOn(j, job[j].todo, attached)
  PROVE /\ dialing' \in 0 .. 1 /\ monitor + dialing' <= 1
        /\ attached' \in SUBSET Pty /\ attached \subseteq attached'
        /\ \E at \in {"mon", "rpc", "done"}, p \in Pty \cup {None}, todo \in SUBSET Pty :
              /\ job' = [job EXCEPT ![j] = JobAt(at, p, todo)]
              /\ at = "mon" => monitor = 0
              /\ at = "rpc" => monitor = 1
              /\ at # "done" => p \in Pty
<1>0. job[j].todo \in SUBSET Pty /\ attached \in SUBSET Pty
  BY DEF TypeOK, JobRecord, ReadType, WaiterType
<1>1. CASE job[j].todo \subseteq attached
  <2>1. job' = [job EXCEPT ![j] = JobAt("done", None, {})]
        /\ attached' = attached /\ dialing' = dialing
    BY <1>1 DEF GoesOn, Idle, JobAt
  <2>2. dialing' \in 0 .. 1 /\ monitor + dialing' <= 1
    BY <2>1 DEF TypeOK, OneMonitor
  <2>3. attached' \in SUBSET Pty /\ attached \subseteq attached'
    BY <1>0, <2>1
  <2>4. \E at \in {"mon", "rpc", "done"}, p \in Pty \cup {None}, todo \in SUBSET Pty :
              /\ job' = [job EXCEPT ![j] = JobAt(at, p, todo)]
              /\ at = "mon" => monitor = 0
              /\ at = "rpc" => monitor = 1
              /\ at # "done" => p \in Pty
    <3> WITNESS "done" \in {"mon", "rpc", "done"}
    <3> WITNESS None \in Pty \cup {None}
    <3> WITNESS {} \in SUBSET Pty
    <3> QED BY <2>1
  <2> QED BY <2>2, <2>3, <2>4
<1>2. CASE ~(job[j].todo \subseteq attached)
  <2>1. PICK p \in job[j].todo \ attached : StartsAttach(j, p, job[j].todo \ {p}, attached)
    BY <1>2 DEF GoesOn
  <2>2. p \in Pty /\ job[j].todo \ {p} \in SUBSET Pty
    BY <1>0
  <2>3. /\ dialing' \in 0 .. 1 /\ monitor + dialing' <= 1
        /\ attached' \in SUBSET Pty /\ attached \subseteq attached'
    BY <1>0, <2>1, <2>2, StartsAttachFacts
  <2>4. PICK at \in {"mon", "rpc"} :
           /\ job' = [job EXCEPT ![j] = JobAt(at, p, job[j].todo \ {p})]
           /\ at = "mon" <=> monitor = 0
    BY <1>0, <2>1, <2>2, StartsAttachFacts
  <2>5. at = "rpc" => monitor = 1
    BY <2>4 DEF TypeOK
  <2> QED BY <2>2, <2>3, <2>4, <2>5
<1> QED BY <1>1, <1>2

\* A job that has moved to an await that its connection allows.
LEMMA MovedJob ==
  ASSUME TypeOK, ConnInv, NEW j \in Job,
         NEW at \in {"wait", "list", "lists", "skip", "ptys", "mon", "rpc", "behind",
                     "reply", "cut", "done"},
         NEW p \in Pty \cup {None}, NEW todo \in SUBSET Pty,
         job' = [job EXCEPT ![j] = JobAt(at, p, todo)],
         at = "mon" => monitor = 0,
         at = "rpc" => monitor = 1,
         at \in {"skip", "mon", "rpc", "behind", "reply"} => p \in Pty,
         monitor' = monitor,
         dialing' \in 0 .. 1, monitor + dialing' <= 1,
         closing' = closing,
         monitor' = 0 => ~subscribed' /\ exits' = {}
  PROVE /\ job' \in JobType
        /\ ConnInv'
        /\ FirstConnection' => FirstConnection
<1>1. job' \in JobType
  BY DEF JobAt, TypeOK, ReadType, WaiterType, JobType, JobRecord
<1>2. job'[j] = JobAt(at, p, todo) /\ \A k \in Job \ {j} : job'[k] = job[k]
  BY DEF TypeOK, ReadType, WaiterType
<1>3. \A k \in Job :
         /\ job'[k].at = "rpc" => monitor' = 1
         /\ job'[k].at = "mon" => monitor' = 0
         /\ job'[k].at \in {"skip", "mon", "rpc", "behind", "reply"} => job'[k].p \in Pty
  BY <1>2 DEF ConnInv, JobAt
<1>4. \A s \in Sweeper : s = Boot => job'[s].at # "idle"
  BY <1>2 DEF ConnInv, JobAt, Job
<1>5. OneMonitor'
  BY DEF ConnInv, OneMonitor, TypeOK
<1>6. ConnInv'
  BY <1>3, <1>4, <1>5 DEF ConnInv
<1>7. FirstConnection' => FirstConnection
  BY <1>2 DEF FirstConnection, JobAt, Job
<1> QED BY <1>1, <1>6, <1>7

LEMMA CutRecord ==
  ASSUME TypeOK, NEW j \in Job PROVE [job[j] EXCEPT !.at = "cut"] \in JobRecord
<1>1. job[j] \in JobRecord
  BY DEF TypeOK
<1> QED BY <1>1 DEF JobRecord

\* The connection has ended, or the dial was of no use.
LEMMA CutFacts ==
  ASSUME TypeOK, NEW j \in Job
  PROVE /\ Cut(j) \in [at : {"idle", "wait", "skip", "ptys", "cut", "done"},
                        p : Pty \cup {None}, todo : SUBSET Pty]
        /\ Cut(j).at = "idle" <=> job[j].at = "idle"
        /\ Cut(j).at = "skip" => job[j].at = "skip" /\ Cut(j).p = job[j].p
<1>0. job[j] \in JobRecord
  BY DEF TypeOK
<1>1. CASE job[j].at \in {"list", "lists"}
  BY <1>1 DEF Cut, Idle
<1>2. CASE job[j].at \in {"mon", "rpc", "behind", "reply"}
  <2>1. Cut(j) = [job[j] EXCEPT !.at = "cut"]
    BY <1>2 DEF Cut
  <2> QED BY <1>0, <1>2, <2>1 DEF JobRecord
<1>3. CASE job[j].at \notin {"list", "lists", "mon", "rpc", "behind", "reply"}
  <2>1. Cut(j) = job[j]
    BY <1>3 DEF Cut
  <2> QED BY <1>0, <1>3, <2>1 DEF JobRecord
<1> QED BY <1>1, <1>2, <1>3

LEMMA ResumedFacts ==
  ASSUME TypeOK, NEW j \in Job
  PROVE /\ Resumed(j) \in [at : {"idle", "wait", "lists", "skip", "ptys", "rpc",
                                 "behind", "reply", "cut", "done"},
                            p : Pty \cup {None}, todo : SUBSET Pty]
        /\ Resumed(j).at = "idle" <=> job[j].at = "idle"
        /\ Resumed(j).p = job[j].p
        /\ Resumed(j).at = "rpc" => job[j].at \in {"rpc", "mon"}
        /\ Resumed(j).at \in {"skip", "behind", "reply"} => job[j].at = Resumed(j).at
<1>0. job[j] \in JobRecord
  BY DEF TypeOK
<1>1. CASE job[j].at = "list"
  <2>1. Resumed(j) = [job[j] EXCEPT !.at = "lists"]
    BY <1>1 DEF Resumed
  <2> QED BY <1>0, <1>1, <2>1 DEF JobRecord
<1>2. CASE job[j].at = "mon"
  <2>1. Resumed(j) = [job[j] EXCEPT !.at = "rpc"]
    BY <1>2 DEF Resumed
  <2> QED BY <1>0, <1>2, <2>1 DEF JobRecord
<1>3. CASE job[j].at \notin {"list", "mon"}
  <2>1. Resumed(j) = job[j]
    BY <1>3 DEF Resumed
  <2> QED BY <1>0, <1>3, <2>1 DEF JobRecord
<1> QED BY <1>1, <1>2, <1>3
-----------------------------------------------------------------------------
(* What most steps leave alone *)

LEMMA UIKept ==
  ASSUME UIInv, UNCHANGED uiVars PROVE UIInv'
  BY DEF uiVars, UIInv, WaiterNotMissed, ViewMatches

LEMMA ConnKept ==
  ASSUME ConnInv, UNCHANGED <<monitor, dialing, job, closing>>,
         monitor' = 0 => ~subscribed' /\ exits' = {}
  PROVE ConnInv'
  BY DEF ConnInv, OneMonitor

LEMMA DeadKept ==
  ASSUME TypeOK, DeadInv, FirstConnection' => FirstConnection, monitor' = 0 => monitor = 0,
         gone' = gone, attached \subseteq attached',
         \A p \in Pty : status'[p] # "none" => status[p] # "none" \/ p \in attached'
  PROVE DeadInv'
  BY DEF DeadInv, DeadStaysDead, TypeOK

LEMMA SamePlace ==
  ASSUME UNCHANGED <<job, closing>> PROVE FirstConnection' => FirstConnection
  BY DEF FirstConnection

-----------------------------------------------------------------------------
(* Output, ticks and hook files *)

LEMMA DataInv ==
  ASSUME Inv, NEW p \in Pty, NEW c \in Chunk, Data(p, c) PROVE Inv'
<1> DEFINE f == Frame(p, c)
<1>0. f.st \in Status /\ f.work \in BOOLEAN /\ f.prompted \in BOOLEAN /\ f.quiet \in BOOLEAN
  BY FrameFacts DEF Inv
<1> HIDE DEF f
<1>1. /\ prompted' = [prompted EXCEPT ![p] = f.prompted]
      /\ quiet' = [quiet EXCEPT ![p] = f.quiet]
      /\ chunks < MaxChunks /\ chunks' = chunks + 1
      /\ p \in attached
      /\ UNCHANGED <<life, connVars, attached, hook, hooksActive, job, closing, gone, writes>>
      /\ \/ Reads("frame", p, f.st, f.work) /\ UNCHANGED uiVars
         \/ SetStatus(p, f.st) /\ UNCHANGED reads
  BY DEF Data, f
<1>2. prompted' \in [Pty -> BOOLEAN] /\ quiet' \in [Pty -> BOOLEAN]
  BY <1>0, <1>1, Zenon DEF Inv, TypeOK
<1>3. chunks' \in 0 .. MaxChunks
  BY <1>1, EventsHubAssumption DEF Inv, TypeOK
<1>4. ConnInv'
  BY <1>1, ConnKept DEF Inv, ConnInv, connVars
<1>5. CASE Reads("frame", p, f.st, f.work) /\ UNCHANGED uiVars
  <2>1. reads' \subseteq ReadType
    BY <1>0, <1>5, ReadsFacts DEF Inv
  <2>2. TypeOK'
    BY <1>1, <1>2, <1>3, <1>5, <2>1 DEF Inv, TypeOK, connVars, uiVars
  <2>3. UIInv'
    BY <1>5, UIKept DEF Inv
  <2>4. DeadInv'
    BY <1>1, <1>5, DeadKept, SamePlace DEF Inv, connVars, uiVars
  <2> QED BY <1>4, <2>2, <2>3, <2>4 DEF Inv
<1>6. CASE SetStatus(p, f.st) /\ UNCHANGED reads
  <2>1. /\ status' = [status EXCEPT ![p] = f.st]
        /\ view' \in [Client -> [Pty -> Status \cup {"none", "shut"}]]
        /\ waiter' \in [Waiter -> WaiterType]
        /\ UIInv'
    BY <1>0, <1>6, SetStatusFacts DEF Inv
  <2>2. TypeOK'
    BY <1>0, <1>1, <1>2, <1>3, <1>6, <2>1 DEF Inv, TypeOK, connVars
  <2>3. DeadInv'
    BY <1>1, <2>1, DeadKept, SamePlace DEF Inv, TypeOK, connVars
  <2> QED BY <1>4, <2>1, <2>2, <2>3 DEF Inv
<1> QED BY <1>1, <1>5, <1>6

LEMMA TickInv ==
  ASSUME Inv, NEW p \in Pty, Tick(p) PROVE Inv'
<1>0. Silence(p) \in Status
  BY SilenceFacts
<1>1. /\ status[p] # "none"
      /\ UNCHANGED <<life, connVars, attached, niVars, hook, hooksActive, job, closing,
                     gone, chunks, writes>>
      /\ \/ Reads("tick", p, Silence(p), FALSE) /\ UNCHANGED uiVars
         \/ Reads("probe", p, "none", FALSE) /\ SetStatus(p, Silence(p))
  BY DEF Tick
<1>2. reads' \subseteq ReadType
  <2>1. CASE Reads("tick", p, Silence(p), FALSE)
    BY <1>0, <2>1, ReadsFacts DEF Inv
  <2>2. CASE Reads("probe", p, "none", FALSE)
    BY <2>2, ReadsFacts DEF Inv
  <2> QED BY <1>1, <2>1, <2>2
<1>3. ConnInv'
  BY <1>1, ConnKept DEF Inv, ConnInv, connVars
<1>4. CASE UNCHANGED uiVars
  <2>1. TypeOK'
    BY <1>1, <1>2, <1>4 DEF Inv, TypeOK, connVars, uiVars, niVars
  <2>2. UIInv'
    BY <1>4, UIKept DEF Inv
  <2>3. DeadInv'
    BY <1>1, <1>4, DeadKept, SamePlace DEF Inv, connVars, uiVars
  <2> QED BY <1>3, <2>1, <2>2, <2>3 DEF Inv
<1>5. CASE SetStatus(p, Silence(p))
  <2>1. /\ status' = [status EXCEPT ![p] = Silence(p)]
        /\ view' \in [Client -> [Pty -> Status \cup {"none", "shut"}]]
        /\ waiter' \in [Waiter -> WaiterType]
        /\ UIInv'
    BY <1>0, <1>5, SetStatusFacts DEF Inv
  <2>2. TypeOK'
    BY <1>0, <1>1, <1>2, <2>1 DEF Inv, TypeOK, connVars, niVars
  <2>3. DeadInv'
    BY <1>1, <2>1, DeadKept, SamePlace DEF Inv, TypeOK, connVars
  <2> QED BY <1>3, <2>1, <2>2, <2>3 DEF Inv
<1> QED BY <1>1, <1>4, <1>5

LEMMA ReadDoneInv ==
  ASSUME Inv, NEW r \in reads, ReadDone(r) PROVE Inv'
<1>0. /\ r \in ReadType
      /\ r.p \in Pty /\ hook[r.p] \in File
  BY DEF Inv, TypeOK, ReadType, WaiterType
<1>1. /\ reads' = reads \ {r}
      /\ UNCHANGED <<life, connVars, attached, niVars, hook, job, closing, gone,
                     chunks, writes>>
  BY DEF ReadDone
<1>2. hooksActive' \subseteq Pty
  <2>1. hooksActive' \in {hooksActive, hooksActive \ {r.p}, hooksActive \cup {r.p}}
    <3>1. CASE r.kind \in {"tick", "probe"} /\ hook[r.p] = NoFile
      BY <3>1 DEF ReadDone
    <3>2. CASE r.kind \in {"tick", "probe", "seed"} /\ hook[r.p] # NoFile
      BY <3>2 DEF ReadDone
    <3>3. CASE /\ ~(r.kind \in {"tick", "probe"} /\ hook[r.p] = NoFile)
               /\ ~(r.kind \in {"tick", "probe", "seed"} /\ hook[r.p] # NoFile)
      BY <3>3 DEF ReadDone
    <3> QED BY <3>1, <3>2, <3>3
  <2> QED BY <1>0, <2>1 DEF Inv, TypeOK
<1>3. ConnInv'
  BY <1>1, ConnKept DEF Inv, ConnInv, connVars
<1>4. CASE UNCHANGED uiVars
  <2>1. TypeOK'
    BY <1>1, <1>2, <1>4 DEF Inv, TypeOK, connVars, uiVars, niVars
  <2>2. UIInv'
    BY <1>4, UIKept DEF Inv
  <2>3. DeadInv'
    BY <1>1, <1>4, DeadKept, SamePlace DEF Inv, connVars, uiVars
  <2> QED BY <1>3, <2>1, <2>2, <2>3 DEF Inv
<1>5. ASSUME NEW st \in Status \cup {"none"}, r.p \in attached, SetStatus(r.p, st)
      PROVE Inv'
  <2>1. /\ status' = [status EXCEPT ![r.p] = st]
        /\ view' \in [Client -> [Pty -> Status \cup {"none", "shut"}]]
        /\ waiter' \in [Waiter -> WaiterType]
        /\ UIInv'
    BY <1>0, <1>5, SetStatusFacts DEF Inv
  <2>2. TypeOK'
    BY <1>1, <1>2, <1>5, <2>1 DEF Inv, TypeOK, connVars, niVars
  <2>3. DeadInv'
    BY <1>1, <1>5, <2>1, DeadKept, SamePlace DEF Inv, TypeOK, connVars
  <2> QED BY <1>3, <2>1, <2>2, <2>3 DEF Inv
<1>6. CASE r.kind \in {"frame", "tick"} /\ StillAttached(r.p)
  <2>1. SetStatus(r.p, Resolve(hook[r.p], r.heur, r.work))
    BY <1>6 DEF ReadDone
  <2>2. Resolve(hook[r.p], r.heur, r.work) \in Status \cup {"none"}
    <3>1. r.heur \in Status \cup {"none"} /\ r.work \in BOOLEAN
      BY <1>0 DEF ReadType
    <3> QED BY <1>0, <3>1, ResolveFacts
  <2> QED BY <1>5, <1>6, <2>1, <2>2 DEF StillAttached
<1>7. CASE r.kind \in {"seed", "watch"} /\ StillAttached(r.p) /\ hook[r.p].fresh
  <2>1. SetStatus(r.p, hook[r.p].st)
    BY <1>7 DEF ReadDone
  <2>2. hook[r.p].st \in Status \cup {"none"}
    BY <1>0, EventsHubAssumption DEF File, NoFile
  <2> QED BY <1>5, <1>7, <2>1, <2>2 DEF StillAttached
<1>8. CASE /\ ~(r.kind \in {"frame", "tick"} /\ StillAttached(r.p))
           /\ ~(r.kind \in {"seed", "watch"} /\ StillAttached(r.p) /\ hook[r.p].fresh)
  BY <1>4, <1>8 DEF ReadDone
<1> QED BY <1>6, <1>7, <1>8

\* SILENCE_MS pass; a status file is written, and ages.
LEMMA FileInv ==
  ASSUME Inv, NEW p \in Pty,
         \/ Quieten(p) \/ HookAges(p) \/ \E st \in HookStatus : HookWrites(p, st)
  PROVE Inv'
<1>1. UNCHANGED <<life, connVars, attached, prompted, uiVars, job, closing, gone, chunks>>
  BY DEF Quieten, HookAges, HookWrites, niVars
<1>2. UIInv' /\ ConnInv' /\ DeadInv'
  BY <1>1, UIKept, ConnKept, DeadKept, SamePlace DEF Inv, ConnInv, connVars, uiVars
<1>3. CASE Quieten(p)
  <2>1. quiet' \in [Pty -> BOOLEAN]
    BY <1>3, Zenon DEF Quieten, Inv, TypeOK
  <2> QED BY <1>1, <1>2, <1>3, <2>1 DEF Quieten, hookVars, Inv, TypeOK, connVars, uiVars
<1>4. CASE HookAges(p)
  <2>1. hook' \in [Pty -> File]
    <3>1. hook[p] \in [st : HookStatus, fresh : BOOLEAN]
      BY <1>4 DEF HookAges, Inv, TypeOK, File, NoFile
    <3> QED BY <1>4, <3>1 DEF HookAges, Inv, TypeOK, File
  <2> QED BY <1>1, <1>2, <1>4, <2>1 DEF HookAges, niVars, Inv, TypeOK, connVars, uiVars
<1>5. ASSUME NEW st \in HookStatus, HookWrites(p, st) PROVE Inv'
  <2>1. hook' \in [Pty -> File]
    BY <1>5 DEF HookWrites, Inv, TypeOK, File
  <2>2. writes' \in 0 .. MaxWrites
    BY <1>5, EventsHubAssumption DEF HookWrites, Inv, TypeOK
  <2>3. hooksActive' \subseteq Pty
    <3>1. hooksActive' \in {hooksActive, hooksActive \cup {p}}
      BY <1>5 DEF HookWrites
    <3>2. hooksActive \subseteq Pty
      BY DEF Inv, TypeOK
    <3> QED BY <3>1, <3>2
  <2>4. reads' \subseteq ReadType
    <3>1. CASE closing = "no"
      BY <1>5, <3>1, ReadsFacts DEF HookWrites, Inv
    <3>2. CASE closing # "no"
      BY <1>5, <3>2 DEF HookWrites, Inv, TypeOK
    <3> QED BY <3>1, <3>2
  <2> QED BY <1>1, <1>2, <1>5, <2>1, <2>2, <2>3, <2>4
          DEF HookWrites, niVars, Inv, TypeOK, connVars, uiVars
<1> QED BY <1>3, <1>4, <1>5
-----------------------------------------------------------------------------
(* The connection *)

LEMMA DialOkInv ==
  ASSUME Inv, DialOk PROVE Inv'
<1>0. /\ monitor = 0 /\ dialing = 1 /\ dialing' = 0
      /\ UNCHANGED <<life, subscribed, exits, attached, niVars, hookVars, uiVars, closing,
                     gone, chunks, writes>>
  BY DEF DialOk, Inv, TypeOK, ConnInv, OneMonitor
<1>1. UIInv'
  BY <1>0, UIKept DEF Inv
<1>2. CASE Wanted
  <2>1. monitor' = 1 /\ job' = [j \in Job |-> Resumed(j)]
    BY <1>0, <1>2 DEF DialOk
  <2>2. job' \in JobType
    BY <2>1, ResumedFacts DEF Inv, JobType, JobRecord
  <2>3. ConnInv'
    BY <1>0, <1>2, <2>1, ResumedFacts DEF Inv, ConnInv, OneMonitor, Wanted, Job
  <2>4. FirstConnection' => FirstConnection
    BY <1>0, <2>1, ResumedFacts DEF Inv, FirstConnection, Job
  <2>5. DeadInv'
    BY <1>0, <2>1, <2>4, DeadKept DEF Inv, uiVars
  <2>6. TypeOK'
    BY <1>0, <2>1, <2>2 DEF Inv, TypeOK, JobType, JobRecord, niVars, hookVars, uiVars
  <2> QED BY <1>1, <2>3, <2>5, <2>6 DEF Inv
<1>3. CASE ~Wanted
  <2>1. monitor' = 0 /\ job' = [j \in Job |-> Cut(j)]
    BY <1>0, <1>3 DEF DialOk
  <2>2. job' \in JobType
    BY <2>1, CutFacts DEF Inv, JobType, JobRecord
  <2>3. ConnInv'
    BY <1>0, <1>3, <2>1, CutFacts DEF Inv, ConnInv, OneMonitor, Job
  <2>4. FirstConnection' => FirstConnection
    BY <1>0, <1>3 DEF FirstConnection, Wanted
  <2>5. DeadInv'
    BY <1>0, <2>1, <2>4, DeadKept DEF Inv, uiVars
  <2>6. TypeOK'
    BY <1>0, <2>1, <2>2 DEF Inv, TypeOK, JobType, JobRecord, niVars, hookVars, uiVars
  <2> QED BY <1>1, <2>3, <2>5, <2>6 DEF Inv
<1> QED BY <1>2, <1>3

LEMMA DialFailedInv ==
  ASSUME Inv, DialFailed PROVE Inv'
<1>0. /\ monitor = 0 /\ monitor' = 0 /\ dialing = 1 /\ dialing' = 0
      /\ attached' \subseteq attached
      /\ UNCHANGED <<life, subscribed, exits, niVars, hookVars, uiVars, closing, gone,
                     chunks, writes>>
  BY DEF DialFailed, Inv, TypeOK, ConnInv, OneMonitor
<1>1. UIInv'
  BY <1>0, UIKept DEF Inv
<1>2. \A j \in Job : job'[j] = IF job[j].at \in {"list", "mon"}
                                THEN [job[j] EXCEPT !.at = "cut"] ELSE job[j]
  BY DEF DialFailed
<1>3. job' \in JobType
  <2>1. \A j \in Job : [job[j] EXCEPT !.at = "cut"] \in JobRecord
    BY CutRecord DEF Inv
  <2>2. \A j \in Job : job[j] \in JobRecord
    BY DEF Inv, TypeOK
  <2> QED BY <2>1, <2>2 DEF DialFailed, JobType, JobRecord
<1>4. \A j \in Job :
         /\ job'[j].at = "idle" <=> job[j].at = "idle"
         /\ job'[j].p = job[j].p
         /\ job'[j].at # "mon"
         /\ job'[j].at \in {"skip", "rpc", "behind", "reply"} => job[j].at = job'[j].at
  <2> TAKE j \in Job
  <2>1. CASE job[j].at \in {"list", "mon"}
    <3>1. job'[j] = [job[j] EXCEPT !.at = "cut"]
      BY <1>2, <2>1
    <3>2. job'[j].at = "cut" /\ job'[j].p = job[j].p
      BY <3>1 DEF Inv, TypeOK
    <3> QED BY <2>1, <3>2
  <2>2. CASE job[j].at \notin {"list", "mon"}
    <3>1. job'[j] = job[j]
      BY <1>2, <2>2
    <3> QED BY <2>2, <3>1
  <2> QED BY <2>1, <2>2
<1>5. ConnInv'
  <2>1. OneMonitor' /\ (monitor' = 0 => ~subscribed' /\ exits' = {})
    BY <1>0 DEF Inv, ConnInv, OneMonitor
  <2>2. \A j \in Job :
          /\ job'[j].at = "rpc" => monitor' = 1
          /\ job'[j].at = "mon" => monitor' = 0
          /\ job'[j].at \in {"skip", "mon", "rpc", "behind", "reply"} => job'[j].p \in Pty
    BY <1>0, <1>4 DEF Inv, ConnInv
  <2>3. \A s \in Sweeper : s = Boot => job'[s].at # "idle"
    BY <1>4 DEF Inv, ConnInv, Job
  <2> QED BY <2>1, <2>2, <2>3 DEF ConnInv
<1>6. FirstConnection' => FirstConnection
  BY <1>0, <1>4 DEF FirstConnection, Job
<1>7. DeadInv'
  BY <1>0, <1>6 DEF Inv, DeadInv, DeadStaysDead
<1>8. TypeOK'
  BY <1>0, <1>3 DEF Inv, TypeOK, JobType, JobRecord, niVars, hookVars, uiVars
<1> QED BY <1>1, <1>5, <1>7, <1>8 DEF Inv

LEMMA DropInv ==
  ASSUME Inv, NEW crash \in BOOLEAN, Drop(crash) PROVE Inv'
<1>0. /\ monitor' = 0 /\ ~subscribed' /\ subscribed' = FALSE /\ exits' = {} /\ attached' = {}
      /\ UNCHANGED <<dialing, niVars, hookVars, uiVars, closing, gone, chunks, writes>>
  BY DEF Drop, AfterDrop
<1>1. UIInv'
  BY <1>0, UIKept DEF Inv
<1>2. PICK s \in Sweeper :
         /\ job[s].at = "idle"
         /\ job' = [j \in Job |-> IF j = s /\ closing = "no"
                                   THEN [Idle EXCEPT !.at = "wait"] ELSE Cut(j)]
  BY DEF Drop
<1>3. job' \in JobType
  BY <1>2, CutFacts DEF Inv, JobType, JobRecord, Idle
<1>4. life' \in [Pty -> {"unborn", "alive", "dead", "lost"}]
  BY DEF Drop, Inv, TypeOK
<1>5. ConnInv'
  <2>1. \A j \in Job :
           /\ job'[j].at \notin {"mon", "rpc", "behind", "reply"}
           /\ job'[j].at = "idle" => job[j].at = "idle"
           /\ job'[j].at = "skip" => job[j].at = "skip" /\ job'[j].p = job[j].p
    BY <1>2, CutFacts DEF Inv, Idle
  <2>2. OneMonitor' /\ (monitor' = 0 => ~subscribed' /\ exits' = {})
    BY <1>0 DEF Inv, TypeOK, ConnInv, OneMonitor
  <2>3. \A j \in Job :
          /\ job'[j].at # "rpc" /\ job'[j].at # "mon"
          /\ job'[j].at \in {"skip", "mon", "rpc", "behind", "reply"} => job'[j].p \in Pty
    BY <2>1 DEF Inv, ConnInv
  <2>4. \A r \in Sweeper : r = Boot => job'[r].at # "idle"
    BY <2>1 DEF Inv, ConnInv, Job
  <2> QED BY <1>0, <2>2, <2>3, <2>4 DEF ConnInv
<1>6. ~FirstConnection'
  <2>1. CASE closing # "no"
    BY <1>0, <2>1 DEF FirstConnection
  <2>2. CASE closing = "no"
    <3>1. s # Boot
      BY <1>2 DEF Inv, ConnInv
    <3>2. job'[s].at = "wait"
      BY <1>2, <2>2 DEF Idle, Job
    <3> QED BY <3>1, <3>2 DEF FirstConnection
  <2> QED BY <2>1, <2>2
<1>7. DeadInv'
  BY <1>6 DEF DeadInv, DeadStaysDead
<1>8. TypeOK'
  <2>1. monitor' \in 0 .. 1
    BY <1>0
  <2>3. subscribed' \in BOOLEAN
    BY <1>0
  <2>2. exits' \subseteq Pty /\ attached' \subseteq Pty
    BY <1>0
  <2> QED BY <1>0, <1>3, <1>4, <2>1, <2>2, <2>3 DEF Inv, TypeOK, JobType, JobRecord, niVars, hookVars, uiVars
<1> QED BY <1>1, <1>5, <1>7, <1>8 DEF Inv
-----------------------------------------------------------------------------
(* The awaits of attachPty and reattachAll *)

\* An assignment to the place alone.
LEMMA MoveIsJobAt ==
  ASSUME TypeOK, NEW j \in Job, NEW at, job' = [job EXCEPT ![j].at = at]
  PROVE /\ job' = [job EXCEPT ![j] = JobAt(at, job[j].p, job[j].todo)]
        /\ job[j].p \in Pty \cup {None} /\ job[j].todo \in SUBSET Pty
<1>1. job[j] \in JobRecord
  BY DEF TypeOK
<1>2. [job[j] EXCEPT !.at = at] = JobAt(at, job[j].p, job[j].todo)
  BY <1>1 DEF JobAt, JobRecord
<1> QED BY <1>1, <1>2 DEF JobRecord

LEMMA ReattachStartsInv ==
  ASSUME Inv, NEW s \in Sweeper, ReattachStarts(s) PROVE Inv'
<1>0. /\ s \in Job
      /\ UNCHANGED <<life, monitor, subscribed, exits, attached, niVars, hookVars, uiVars,
                     closing, gone, chunks, writes>>
      /\ dialing' \in 0 .. 1 /\ monitor + dialing' <= 1
  <2>1. dialing' = dialing \/ (monitor = 0 /\ dialing = 0 /\ dialing' = 1)
    <3>1. CASE closing # "no"
      BY <3>1 DEF ReattachStarts
    <3>2. CASE closing = "no"
      BY <3>2 DEF ReattachStarts, EnsureMonitor, NeedsDial
    <3> QED BY <3>1, <3>2
  <2>2. dialing' \in 0 .. 1 /\ monitor + dialing' <= 1
    BY <2>1 DEF Inv, TypeOK, ConnInv, OneMonitor
  <2> QED BY <2>2 DEF ReattachStarts, Job
<1>1. PICK at \in {"done", "lists", "list"} : job' = [job EXCEPT ![s].at = at]
  <2>1. CASE closing # "no"
    BY <2>1 DEF ReattachStarts
  <2>2. CASE closing = "no" /\ monitor > 0
    BY <2>2 DEF ReattachStarts
  <2>3. CASE closing = "no" /\ ~(monitor > 0)
    BY <2>3 DEF ReattachStarts
  <2> QED BY <2>1, <2>2, <2>3
<1>2. /\ job' = [job EXCEPT ![s] = JobAt(at, job[s].p, job[s].todo)]
      /\ job[s].p \in Pty \cup {None} /\ job[s].todo \in SUBSET Pty
  BY <1>0, <1>1, MoveIsJobAt DEF Inv
<1>3. job' \in JobType /\ ConnInv' /\ (FirstConnection' => FirstConnection)
  <2>1. monitor' = 0 => ~subscribed' /\ exits' = {}
    BY <1>0 DEF Inv, ConnInv
  <2>2. TypeOK /\ ConnInv /\ monitor' = monitor /\ closing' = closing
    BY <1>0 DEF Inv
  <2> QED BY <1>0, <1>2, <2>1, <2>2, MovedJob
<1>4. UIInv' /\ DeadInv'
  BY <1>0, <1>3, UIKept, DeadKept DEF Inv, uiVars
<1>5. TypeOK'
  BY <1>0, <1>3 DEF Inv, TypeOK, JobType, JobRecord, niVars, hookVars, uiVars
<1> QED BY <1>3, <1>4, <1>5 DEF Inv

LEMMA ListedInv ==
  ASSUME Inv, NEW s \in Sweeper, Listed(s) PROVE Inv'
<1>0. /\ s \in Job
      /\ UNCHANGED <<life, connVars, attached, niVars, hookVars, uiVars, closing, gone,
                     chunks, writes>>
      /\ job' = [job EXCEPT ![s] = JobAt("ptys", None, {p \in Pty : life[p] = "alive"})]
  BY DEF Listed, Job, JobAt
<1>1. monitor + dialing <= 1 /\ dialing \in 0 .. 1
      /\ (monitor = 0 => ~subscribed /\ exits = {})
  BY DEF Inv, TypeOK, ConnInv, OneMonitor
<1>2. {p \in Pty : life[p] = "alive"} \in SUBSET Pty
  OBVIOUS
<1>3. job' \in JobType /\ ConnInv' /\ (FirstConnection' => FirstConnection)
  BY <1>0, <1>1, <1>2, MovedJob DEF Inv, connVars
<1>4. UIInv' /\ DeadInv'
  BY <1>0, <1>3, UIKept, DeadKept DEF Inv, uiVars, connVars
<1>5. TypeOK'
  BY <1>0, <1>3 DEF Inv, TypeOK, JobType, JobRecord, niVars, hookVars, uiVars, connVars
<1> QED BY <1>3, <1>4, <1>5 DEF Inv

\* What the next await leaves of the job, the dial and the attached sessions.
LEMMA NextAwait ==
  ASSUME Inv, NEW j \in Job, UNCHANGED <<monitor, subscribed, exits, closing>>,
         \/ GoesOn(j, job[j].todo, attached)
         \/ job[j].at = "skip" /\ StartsAttach(j, job[j].p, {}, attached)
  PROVE /\ job' \in JobType /\ ConnInv' /\ (FirstConnection' => FirstConnection)
        /\ dialing' \in 0 .. 1 /\ attached' \subseteq Pty /\ attached \subseteq attached'
<1>0. monitor' = 0 => ~subscribed' /\ exits' = {}
  BY DEF Inv, ConnInv
<1>1. CASE GoesOn(j, job[j].todo, attached)
  <2>1. /\ dialing' \in 0 .. 1 /\ monitor + dialing' <= 1
        /\ attached' \in SUBSET Pty /\ attached \subseteq attached'
    BY <1>1, GoesOnFacts DEF Inv, ConnInv
  <2>2. PICK at \in {"mon", "rpc", "done"}, p \in Pty \cup {None}, todo \in SUBSET Pty :
              /\ job' = [job EXCEPT ![j] = JobAt(at, p, todo)]
              /\ at = "mon" => monitor = 0
              /\ at = "rpc" => monitor = 1
              /\ at # "done" => p \in Pty
    BY <1>1, GoesOnFacts DEF Inv, ConnInv
  <2>3. job' \in JobType /\ ConnInv' /\ (FirstConnection' => FirstConnection)
    BY <1>0, <2>1, <2>2, MovedJob DEF Inv
  <2> QED BY <2>1, <2>3
<1>2. CASE job[j].at = "skip" /\ StartsAttach(j, job[j].p, {}, attached)
  <2>0. job[j].p \in Pty /\ attached \in SUBSET Pty /\ {} \in SUBSET Pty
    BY <1>2 DEF Inv, ConnInv, TypeOK
  <2>1. /\ dialing' \in 0 .. 1 /\ monitor + dialing' <= 1
        /\ attached' \in SUBSET Pty /\ attached \subseteq attached'
    BY <1>2, <2>0, StartsAttachFacts DEF Inv, ConnInv
  <2>2. PICK at \in {"mon", "rpc"} :
              /\ job' = [job EXCEPT ![j] = JobAt(at, job[j].p, {})]
              /\ at = "mon" <=> monitor = 0
    BY <1>2, <2>0, StartsAttachFacts DEF Inv, ConnInv
  <2>3. at = "rpc" => monitor = 1
    BY <2>2 DEF Inv, TypeOK
  <2>4. job' \in JobType /\ ConnInv' /\ (FirstConnection' => FirstConnection)
    BY <1>0, <2>0, <2>1, <2>2, <2>3, MovedJob DEF Inv
  <2> QED BY <2>1, <2>4
<1> QED BY <1>1, <1>2

LEMMA SkipReadInv ==
  ASSUME Inv, NEW j \in Job, SkipRead(j) PROVE Inv'
<1>0. UNCHANGED <<life, monitor, subscribed, exits, niVars, hookVars, uiVars, closing, gone,
                  chunks, writes>>
  BY DEF SkipRead
<1>1. /\ job' \in JobType /\ ConnInv' /\ (FirstConnection' => FirstConnection)
      /\ dialing' \in 0 .. 1 /\ attached' \subseteq Pty /\ attached \subseteq attached'
  BY <1>0, NextAwait DEF SkipRead
<1>2. UIInv' /\ DeadInv'
  BY <1>0, <1>1, UIKept, DeadKept DEF Inv, uiVars
<1>3. TypeOK'
  BY <1>0, <1>1 DEF Inv, TypeOK, JobType, JobRecord, niVars, hookVars, uiVars
<1> QED BY <1>1, <1>2, <1>3 DEF Inv

LEMMA AttachHandledInv ==
  ASSUME Inv, NEW j \in Job, AttachHandled(j) PROVE Inv'
<1>0. /\ job[j].at = "rpc" /\ job[j].p \in Pty /\ monitor = 1
      /\ UNCHANGED <<life, monitor, dialing, attached, niVars, hookVars, uiVars, closing,
                     gone, chunks, writes>>
  BY DEF AttachHandled, Inv, ConnInv
<1>1. subscribed' \in BOOLEAN
  <2>1. CASE life[job[j].p] \in {"alive", "dead"}
    BY <2>1 DEF AttachHandled
  <2>2. CASE life[job[j].p] \notin {"alive", "dead"}
    BY <2>2 DEF AttachHandled, Inv, TypeOK
  <2> QED BY <2>1, <2>2
<1>2. exits' \subseteq Pty
  <2>1. exits' \in {exits, exits \cup {job[j].p}}
    BY DEF AttachHandled
  <2> QED BY <1>0, <2>1 DEF Inv, TypeOK
<1>3. PICK at \in {"behind", "reply"} : job' = [job EXCEPT ![j].at = at]
  <2>1. CASE job[j].p \in exits'
    BY <2>1 DEF AttachHandled
  <2>2. CASE job[j].p \notin exits'
    BY <2>2 DEF AttachHandled
  <2> QED BY <2>1, <2>2
<1>4. /\ job' = [job EXCEPT ![j] = JobAt(at, job[j].p, job[j].todo)]
      /\ job[j].todo \in SUBSET Pty
  BY <1>3, MoveIsJobAt DEF Inv
<1>5. monitor + dialing' <= 1 /\ dialing' \in 0 .. 1
  BY <1>0 DEF Inv, TypeOK, ConnInv, OneMonitor
<1>6. job' \in JobType /\ ConnInv' /\ (FirstConnection' => FirstConnection)
  <2>1. TypeOK /\ ConnInv /\ monitor' = monitor /\ closing' = closing /\ monitor' # 0
    BY <1>0 DEF Inv
  <2> QED BY <1>0, <1>4, <1>5, <2>1, MovedJob
<1>7. UIInv' /\ DeadInv'
  BY <1>0, <1>6, UIKept, DeadKept DEF Inv, uiVars
<1>8. TypeOK'
  BY <1>0, <1>1, <1>2, <1>6 DEF Inv, TypeOK, JobType, JobRecord, niVars, hookVars, uiVars
<1> QED BY <1>6, <1>7, <1>8 DEF Inv

LEMMA AttachedInv ==
  ASSUME Inv, NEW j \in Job, Attached(j) PROVE Inv'
<1> DEFINE p == job[j].p
<1>0. /\ p \in Pty \cup {None}
      /\ GoesOn(j, job[j].todo, attached)
      /\ UNCHANGED <<life, monitor, subscribed, exits, niVars, hook, hooksActive, closing,
                     gone, chunks, writes>>
  BY DEF Attached, Inv, TypeOK, JobRecord, WaiterType
<1>1. /\ job' \in JobType /\ ConnInv' /\ (FirstConnection' => FirstConnection)
      /\ dialing' \in 0 .. 1 /\ attached' \subseteq Pty /\ attached \subseteq attached'
  BY <1>0, NextAwait
<1>2. CASE UNCHANGED <<reads, uiVars>>
  <2>1. UIInv' /\ DeadInv'
    BY <1>0, <1>1, <1>2, UIKept, DeadKept DEF Inv, uiVars
  <2>2. TypeOK'
    BY <1>0, <1>1, <1>2 DEF Inv, TypeOK, JobType, JobRecord, niVars, uiVars
  <2> QED BY <1>1, <2>1, <2>2 DEF Inv
<1>3. ASSUME p \in attached, Reads("seed", p, "none", FALSE),
             UNCHANGED uiVars \/ SetStatus(p, "working")
      PROVE Inv'
  <2>0. p \in Pty
    BY <1>3 DEF Inv, TypeOK
  <2>1. reads' \subseteq ReadType
    BY <1>3, <2>0, ReadsFacts DEF Inv
  <2>2. CASE UNCHANGED uiVars
    <3>1. UIInv' /\ DeadInv'
      BY <1>0, <1>1, <2>2, UIKept, DeadKept DEF Inv, uiVars
    <3>2. TypeOK'
      BY <1>0, <1>1, <2>1, <2>2 DEF Inv, TypeOK, JobType, JobRecord, ReadType, niVars, uiVars
    <3> QED BY <1>1, <3>1, <3>2 DEF Inv
  <2>3. CASE SetStatus(p, "working")
    <3>0. "working" \in Status
      BY DEF Status
    <3>1. /\ status' = [status EXCEPT ![p] = "working"]
          /\ view' \in [Client -> [Pty -> Status \cup {"none", "shut"}]]
          /\ waiter' \in [Waiter -> WaiterType]
          /\ UIInv'
      BY <2>0, <2>3, <3>0, SetStatusFacts DEF Inv
    <3>2. DeadInv'
      BY <1>0, <1>1, <1>3, <3>1, DeadKept DEF Inv, TypeOK
    <3>3. TypeOK'
      BY <1>0, <1>1, <2>0, <2>1, <3>0, <3>1
      DEF Inv, TypeOK, JobType, JobRecord, ReadType, WaiterType, niVars
    <3> QED BY <1>1, <3>1, <3>2, <3>3 DEF Inv
  <2> QED BY <1>3, <2>2, <2>3
<1>4. CASE p = None \/ StillDying(p)
  BY <1>2, <1>4 DEF Attached
<1>5. CASE ~(p = None \/ StillDying(p))
  <2>1. p \in attached /\ Reads("seed", p, "none", FALSE)
    BY <1>5 DEF Attached, StillDying
  <2>2. UNCHANGED uiVars \/ SetStatus(p, "working")
    BY <1>5 DEF Attached
  <2> QED BY <1>3, <2>1, <2>2
<1> QED BY <1>4, <1>5
-----------------------------------------------------------------------------
(* Exits, sessions, browsers, waiters and close() *)

LEMMA ExitEventInv ==
  ASSUME Inv, NEW p \in Pty, ExitEvent(p) PROVE Inv'
<1>0. /\ p \in exits /\ exits' = exits \ {p}
      /\ attached' = attached \ {p} /\ hooksActive' = hooksActive \ {p}
      /\ status' = [status EXCEPT ![p] = "none"] /\ Tell(p, "idle")
      /\ gone' = gone \cup {p}
      /\ UNCHANGED <<life, monitor, dialing, subscribed, hook, reads, closing, chunks, writes>>
  BY DEF ExitEvent
<1>1. monitor = 1 /\ monitor' = 1
  BY <1>0 DEF Inv, TypeOK, ConnInv
<1>2. prompted' \in [Pty -> BOOLEAN] /\ quiet' \in [Pty -> BOOLEAN]
  BY Zenon DEF ExitEvent, Inv, TypeOK
<1>3. /\ view' \in [Client -> [Pty -> Status \cup {"none", "shut"}]]
      /\ waiter' \in [Waiter -> WaiterType]
      /\ UIInv'
  <2>1. "idle" \in Status \cup {"none"} /\ "none" \in Status \cup {"none"}
    BY DEF Status
  <2> QED BY <1>0, <2>1, TellFacts DEF Inv
<1>4. \A j \in Job : job'[j] = IF job[j].at = "reply" /\ job[j].p = p
                                THEN [job[j] EXCEPT !.at = "cut"] ELSE job[j]
  BY DEF ExitEvent
<1>5. job' \in JobType
  <2>1. \A j \in Job : [job[j] EXCEPT !.at = "cut"] \in JobRecord
    BY CutRecord DEF Inv
  <2>2. \A j \in Job : job[j] \in JobRecord
    BY DEF Inv, TypeOK
  <2> QED BY <2>1, <2>2 DEF ExitEvent, JobType, JobRecord
<1>6. \A j \in Job :
         /\ job'[j].at = "idle" <=> job[j].at = "idle"
         /\ job'[j].p = job[j].p
         /\ job'[j].at \in {"skip", "mon", "rpc", "behind", "reply"} => job[j].at = job'[j].at
  <2> TAKE j \in Job
  <2>1. CASE job[j].at = "reply" /\ job[j].p = p
    <3>1. job'[j] = [job[j] EXCEPT !.at = "cut"]
      BY <1>4, <2>1
    <3>2. job'[j].at = "cut" /\ job'[j].p = job[j].p
      BY <3>1 DEF Inv, TypeOK
    <3> QED BY <2>1, <3>2
  <2>2. CASE ~(job[j].at = "reply" /\ job[j].p = p)
    <3>1. job'[j] = job[j]
      BY <1>4, <2>2
    <3> QED BY <3>1
  <2> QED BY <2>1, <2>2
<1>7. ConnInv'
  <2>1. OneMonitor'
    BY <1>0 DEF Inv, ConnInv, OneMonitor
  <2>2. \A j \in Job :
          /\ job'[j].at = "rpc" => monitor' = 1
          /\ job'[j].at = "mon" => monitor' = 0
          /\ job'[j].at \in {"skip", "mon", "rpc", "behind", "reply"} => job'[j].p \in Pty
    BY <1>0, <1>6 DEF Inv, ConnInv
  <2>3. \A s \in Sweeper : s = Boot => job'[s].at # "idle"
    BY <1>6 DEF Inv, ConnInv, Job
  <2> QED BY <1>1, <2>1, <2>2, <2>3 DEF ConnInv
<1>8. FirstConnection' => FirstConnection
  BY <1>0, <1>6 DEF FirstConnection, Job
<1>9. DeadInv'
  BY <1>0, <1>1, <1>8 DEF Inv, TypeOK, DeadInv, DeadStaysDead
<1>10. TypeOK'
  BY <1>0, <1>2, <1>3, <1>5 DEF Inv, TypeOK, JobType, JobRecord, WaiterType
<1> QED BY <1>3, <1>7, <1>9, <1>10 DEF Inv

LEMMA SessionInv ==
  ASSUME Inv, NEW p \in Pty, Spawn(p) \/ Track(p) \/ PtyEnds(p) PROVE Inv'
<1>0. UNCHANGED <<monitor, dialing, subscribed, attached, niVars, hookVars, uiVars, closing,
                  gone, chunks, writes>>
  BY DEF Spawn, Track, PtyEnds, connVars
<1>1. UIInv'
  BY <1>0, UIKept DEF Inv
<1>2. CASE Spawn(p) \/ PtyEnds(p)
  <2>1. life' \in [Pty -> {"unborn", "alive", "dead", "lost"}] /\ UNCHANGED job
    BY <1>2 DEF Spawn, PtyEnds, Inv, TypeOK
  <2>2. exits' \subseteq Pty /\ (monitor' = 0 => ~subscribed' /\ exits' = {})
    <3>1. CASE subscribed
      BY <1>0, <1>2, <3>1 DEF Spawn, PtyEnds, connVars, Inv, TypeOK, ConnInv
    <3>2. CASE ~subscribed
      BY <1>0, <1>2, <3>2 DEF Spawn, PtyEnds, connVars, Inv, TypeOK, ConnInv
    <3> QED BY <3>1, <3>2
  <2>3. ConnInv' /\ DeadInv'
    BY <1>0, <2>1, <2>2, ConnKept, DeadKept, SamePlace DEF Inv, uiVars
  <2>4. TypeOK'
    BY <1>0, <2>1, <2>2 DEF Inv, TypeOK, niVars, hookVars, uiVars
  <2> QED BY <1>1, <2>3, <2>4 DEF Inv
<1>3. CASE Track(p)
  <2>0. p \in Job /\ UNCHANGED <<life, exits>>
    BY <1>3 DEF Track, Job, connVars
  <2>1. PICK at \in {"done", "skip"}, q \in Pty \cup {None} :
           job' = [job EXCEPT ![p] = JobAt(at, q, {})] /\ (at = "skip" => q = p)
    <3>1. CASE p \in attached
      <4>1. job' = [job EXCEPT ![p] = JobAt("done", None, {})]
        <5>1. [Idle EXCEPT !.at = "done"] = JobAt("done", None, {})
          BY DEF Idle, JobAt
        <5> QED BY <1>3, <3>1, <5>1 DEF Track
      <4> QED BY <4>1
    <3>2. CASE p \notin attached
      <4>1. job' = [job EXCEPT ![p] = JobAt("skip", p, {})]
        BY <1>3, <3>2 DEF Track, JobAt
      <4> QED BY <4>1
    <3> QED BY <3>1, <3>2
  <2>2. /\ monitor' = monitor /\ closing' = closing
        /\ dialing' \in 0 .. 1 /\ monitor + dialing' <= 1
        /\ monitor' = 0 => ~subscribed' /\ exits' = {}
    BY <1>0, <2>0 DEF Inv, TypeOK, ConnInv, OneMonitor
  <2>3. job' \in JobType /\ ConnInv' /\ (FirstConnection' => FirstConnection)
    <3>1. p \in Pty /\ {} \in SUBSET Pty /\ TypeOK /\ ConnInv
      BY DEF Inv
    <3> QED BY <2>0, <2>1, <2>2, <3>1, MovedJob
  <2>4. DeadInv'
    BY <1>0, <2>3, DeadKept DEF Inv, uiVars
  <2>5. TypeOK'
    BY <1>0, <2>0, <2>3 DEF Inv, TypeOK, JobType, JobRecord, niVars, hookVars, uiVars
  <2> QED BY <1>1, <2>3, <2>4, <2>5 DEF Inv
<1> QED BY <1>2, <1>3

LEMMA ClientInv ==
  ASSUME Inv, NEW c \in Client, AddClient(c) \/ ClientLeaves(c) PROVE Inv'
<1>0. UNCHANGED <<life, connVars, attached, niVars, hookVars, status, waiter, job, closing,
                  gone, chunks, writes>>
  BY DEF AddClient, ClientLeaves
<1>1. view' \in [Client -> [Pty -> Status \cup {"none", "shut"}]]
  BY DEF AddClient, ClientLeaves, Replay, Inv, TypeOK
<1>2. ViewMatches'
  <2> SUFFICES ASSUME NEW d \in Client, NEW p \in Pty
               PROVE \/ view'[d][p] \in {"shut", status[p]}
                     \/ view'[d][p] = "idle" /\ status[p] = "none"
    BY <1>0 DEF ViewMatches
  <2>1. CASE d = c
    <3>1. view'[c] = status \/ view'[c] = [q \in Pty |-> "shut"]
      BY DEF AddClient, ClientLeaves, Replay, Inv, TypeOK
    <3> QED BY <2>1, <3>1
  <2>2. CASE d # c
    <3>1. view'[d] = view[d]
      BY <2>2 DEF AddClient, ClientLeaves, Inv, TypeOK
    <3> QED BY <3>1 DEF Inv, UIInv, ViewMatches
  <2> QED BY <2>1, <2>2
<1>3. UIInv'
  BY <1>0, <1>2 DEF Inv, UIInv, WaiterNotMissed
<1>4. ConnInv' /\ DeadInv'
  BY <1>0, ConnKept, DeadKept, SamePlace DEF Inv, ConnInv, connVars
<1>5. TypeOK'
  BY <1>0, <1>1 DEF Inv, TypeOK, connVars, niVars, hookVars
<1> QED BY <1>3, <1>4, <1>5 DEF Inv

LEMMA WaiterInv ==
  ASSUME Inv, NEW w \in Waiter,
         TimesOut(w) \/ \E p \in Pty, st \in Target : WaitForStatus(w, p, st)
  PROVE Inv'
<1>0. UNCHANGED <<life, connVars, attached, niVars, hookVars, status, view, job, closing,
                  gone, chunks, writes>>
  BY DEF TimesOut, WaitForStatus
<1>1. ConnInv' /\ DeadInv'
  BY <1>0, ConnKept, DeadKept, SamePlace DEF Inv, ConnInv, connVars
<1>2. PICK x \in WaiterType :
         /\ waiter' = [waiter EXCEPT ![w] = x]
         /\ x.p # None => x.target \in Status
         /\ x.p # None /\ x.said = "none" => status[x.p] # x.target
  <2>1. CASE TimesOut(w)
    <3>1. waiter[w] \in WaiterType
      BY DEF Inv, TypeOK
    <3>2. [waiter[w] EXCEPT !.said = "timeout"] \in WaiterType
      BY <3>1 DEF WaiterType
    <3>3. [waiter[w] EXCEPT !.said = "timeout"].p = waiter[w].p
          /\ [waiter[w] EXCEPT !.said = "timeout"].target = waiter[w].target
          /\ [waiter[w] EXCEPT !.said = "timeout"].said = "timeout"
      BY <3>1 DEF WaiterType
    <3>4. waiter' = [waiter EXCEPT ![w] = [waiter[w] EXCEPT !.said = "timeout"]]
      BY <2>1 DEF TimesOut
    <3> QED BY <3>2, <3>3, <3>4 DEF Inv, UIInv
  <2>2. ASSUME NEW p \in Pty, NEW st \in Target, WaitForStatus(w, p, st)
        PROVE \E x \in WaiterType :
                 /\ waiter' = [waiter EXCEPT ![w] = x]
                 /\ x.p # None => x.target \in Status
                 /\ x.p # None /\ x.said = "none" => status[x.p] # x.target
    <3> DEFINE x == [p |-> p, target |-> st, said |-> IF status[p] = st THEN st ELSE "none"]
    <3>1. st \in Status
      BY EventsHubAssumption
    <3>2. x \in WaiterType
      BY <3>1 DEF WaiterType
    <3> QED BY <2>2, <3>1, <3>2 DEF WaitForStatus, Status
  <2> QED BY <2>1, <2>2
<1>3. waiter' \in [Waiter -> WaiterType]
  BY <1>2 DEF Inv, TypeOK
<1>4. UIInv'
  BY <1>0, <1>2 DEF Inv, TypeOK, UIInv, WaiterNotMissed, ViewMatches
<1>5. TypeOK'
  BY <1>0, <1>3 DEF Inv, TypeOK, connVars, niVars, hookVars
<1> QED BY <1>1, <1>4, <1>5 DEF Inv

LEMMA CloseInv ==
  ASSUME Inv, Close \/ CloseMonitor PROVE Inv'
<1>1. CASE Close
  <2>0. /\ closing' = "called"
        /\ UNCHANGED <<life, connVars, attached, niVars, hookVars, uiVars, job, gone, chunks,
                       writes>>
    BY <1>1 DEF Close
  <2>1. UIInv'
    BY <2>0, UIKept DEF Inv
  <2>2. ConnInv'
    BY <2>0 DEF Inv, ConnInv, OneMonitor, connVars
  <2>3. DeadInv'
    BY <2>0 DEF DeadInv, DeadStaysDead, FirstConnection
  <2>4. TypeOK'
    BY <2>0 DEF Inv, TypeOK, connVars, niVars, hookVars, uiVars
  <2> QED BY <2>1, <2>2, <2>3, <2>4 DEF Inv
<1>2. CASE CloseMonitor
  <2>0. /\ closing' = "closed"
        /\ monitor' = 0 /\ subscribed' = FALSE /\ exits' = {}
        /\ attached' \subseteq attached
        /\ UNCHANGED <<life, dialing, niVars, hookVars, status, gone, chunks, writes>>
    BY <1>2 DEF CloseMonitor
  <2>1. view' \in [Client -> [Pty -> Status \cup {"none", "shut"}]] /\ ViewMatches'
    BY <1>2 DEF CloseMonitor, ViewMatches
  <2>2. \A w \in Waiter :
          /\ waiter'[w] \in WaiterType
          /\ waiter'[w].p = waiter[w].p /\ waiter'[w].target = waiter[w].target
          /\ waiter'[w].p # None => waiter'[w].said # "none"
    <3> TAKE w \in Waiter
    <3>0. waiter[w] \in WaiterType
      BY DEF Inv, TypeOK
    <3>1. CASE waiter[w].p # None /\ waiter[w].said = "none"
      <4>1. waiter'[w] = [waiter[w] EXCEPT !.said = "timeout"]
        BY <1>2, <3>1 DEF CloseMonitor
      <4> QED BY <3>0, <4>1 DEF WaiterType
    <3>2. CASE ~(waiter[w].p # None /\ waiter[w].said = "none")
      <4>1. waiter'[w] = waiter[w]
        BY <1>2, <3>2 DEF CloseMonitor
      <4> QED BY <3>0, <3>2, <4>1
    <3> QED BY <3>1, <3>2
  <2>3. waiter' \in [Waiter -> WaiterType]
    <3>1. waiter' = [w \in Waiter |-> waiter'[w]]
      BY <1>2 DEF CloseMonitor
    <3> QED BY <2>2, <3>1
  <2>4. UIInv'
    BY <2>1, <2>2 DEF Inv, UIInv, WaiterNotMissed
  <2>5. job' \in JobType
    BY <1>2, CutFacts DEF CloseMonitor, Inv, TypeOK, JobType, JobRecord
  <2>6. \A j \in Job :
          /\ job'[j].at # "rpc"
          /\ job'[j].at = "mon" => monitor' = 0
          /\ job'[j].at \in {"skip", "mon", "rpc", "behind", "reply"} => job'[j].p \in Pty
          /\ job'[j].at = "idle" => job[j].at = "idle"
    <3>1. CASE monitor > 0
      <4>1. \A j \in Job : job'[j] = Cut(j)
        BY <1>2, <3>1 DEF CloseMonitor
      <4> QED BY <4>1, CutFacts DEF Inv, ConnInv
    <3>2. CASE ~(monitor > 0)
      BY <1>2, <2>0, <3>2 DEF CloseMonitor, Inv, TypeOK, ConnInv
    <3> QED BY <3>1, <3>2
  <2>7. ConnInv'
    <3>1. OneMonitor' /\ (monitor' = 0 => ~subscribed' /\ exits' = {})
      BY <2>0 DEF Inv, TypeOK, ConnInv, OneMonitor
    <3>2. \A s \in Sweeper : s = Boot => job'[s].at # "idle"
      BY <2>6 DEF Inv, ConnInv, Job
    <3> QED BY <2>6, <3>1, <3>2 DEF ConnInv
  <2>8. DeadInv'
    BY <2>0 DEF DeadInv, DeadStaysDead, FirstConnection
  <2>9. TypeOK'
    <3>1. monitor' \in 0 .. 1
      BY <2>0
    <3>2. subscribed' \in BOOLEAN
      BY <2>0
    <3>3. exits' \subseteq Pty /\ attached' \subseteq Pty
      BY <2>0 DEF Inv, TypeOK
    <3> QED BY <2>0, <2>1, <2>3, <2>5, <3>1, <3>2, <3>3
            DEF Inv, TypeOK, WaiterType, JobType, JobRecord, niVars, hookVars
  <2> QED BY <2>4, <2>7, <2>8, <2>9 DEF Inv
<1> QED BY <1>1, <1>2
-----------------------------------------------------------------------------
LEMMA JobStepInv ==
  ASSUME Inv, NEW j \in Job, JobStep(j) PROVE Inv'
  BY SkipReadInv, AttachHandledInv, AttachedInv, ReattachStartsInv, ListedInv DEF JobStep

LEMMA HubStepInv ==
  ASSUME Inv, HubStep PROVE Inv'
<1>1. ASSUME NEW p \in Pty, NEW c \in Chunk, Data(p, c) PROVE Inv'
  BY <1>1, DataInv
<1>2. ASSUME NEW p \in Pty, Tick(p) \/ Quieten(p) \/ HookAges(p) \/ ExitEvent(p) PROVE Inv'
  BY <1>2, TickInv, FileInv, ExitEventInv
<1>3. ASSUME NEW p \in Pty, NEW st \in HookStatus, HookWrites(p, st) PROVE Inv'
  BY <1>3, FileInv
<1>4. ASSUME NEW r \in reads, ReadDone(r) PROVE Inv'
  BY <1>4, ReadDoneInv
<1>5. ASSUME NEW j \in Job, JobStep(j) PROVE Inv'
  BY <1>5, JobStepInv
<1>6. CASE DialOk \/ DialFailed \/ Close \/ CloseMonitor
  BY <1>6, DialOkInv, DialFailedInv, CloseInv
<1>7. ASSUME NEW crash \in BOOLEAN, Drop(crash) PROVE Inv'
  BY <1>7, DropInv
<1> QED BY <1>1, <1>2, <1>3, <1>4, <1>5, <1>6, <1>7 DEF HubStep

LEMMA StepInv == Inv /\ [Next]_vars => Inv'
<1> SUFFICES ASSUME Inv, [Next]_vars PROVE Inv'
  OBVIOUS
<1>1. ASSUME NEW j \in Job, Attached(j) PROVE Inv'
  BY <1>1, AttachedInv
<1>2. CASE HubStep
  BY <1>2, HubStepInv
<1>3. CASE WorldStep
  <2>1. ASSUME NEW p \in Pty, Spawn(p) \/ Track(p) \/ PtyEnds(p) PROVE Inv'
    BY <2>1, SessionInv
  <2>2. ASSUME NEW c \in Client, AddClient(c) \/ ClientLeaves(c) PROVE Inv'
    BY <2>2, ClientInv
  <2>3. ASSUME NEW w \in Waiter,
               TimesOut(w) \/ \E p \in Pty, st \in Target : WaitForStatus(w, p, st)
        PROVE Inv'
    BY <2>3, WaiterInv
  <2> QED BY <1>3, <2>1, <2>2, <2>3 DEF WorldStep
<1>4. CASE UNCHANGED vars
  <2>1. TypeOK'
    BY <1>4 DEF vars, connVars, niVars, hookVars, uiVars, Inv, TypeOK
  <2>2. UIInv' /\ ConnInv' /\ DeadInv'
    BY <1>4, UIKept, ConnKept, DeadKept, SamePlace
    DEF vars, connVars, niVars, hookVars, uiVars, Inv, ConnInv
  <2> QED BY <2>1, <2>2 DEF Inv
<1> QED BY <1>1, <1>2, <1>3, <1>4 DEF Next

THEOREM InvHolds == Spec => []Inv
  BY InitInv, StepInv, PTL DEF Spec

\* Every variable of the hub keeps its type.
THEOREM EventsHubTypeOK == Spec => []TypeOK
  BY InvHolds, PTL DEF Inv

\* One monitor connection, dials included, and none after close()
\* (ensureMonitor, events-hub.ts:376-421).
THEOREM OneMonitorHolds == Spec => []OneMonitor
  BY InvHolds, PTL DEF Inv, ConnInv

\* A waiter never misses the status that it waits for (waitForStatus and
\* settleWaiters, events-hub.ts:224-255).
THEOREM WaiterNotMissedHolds == Spec => []WaiterNotMissed
  BY InvHolds, PTL DEF Inv, UIInv

\* Browsers show what the hub holds (broadcast and the replay to a new client).
THEOREM ViewMatchesHolds == Spec => []ViewMatches
  BY InvHolds, PTL DEF Inv, UIInv

\* Until the first connection drops, nothing gives a session a status again
\* whose exit was handled, but an attach whose exit will be told again.
THEOREM DeadStaysDeadHolds == Spec => []DeadStaysDead
  BY InvHolds, PTL DEF Inv, DeadInv
=============================================================================
