-------------------------- MODULE ApprovalsProofs --------------------------
(***************************************************************************)
(* Proofs that, for any servers, calls, browsers, budget and starts, the   *)
(* state of Approvals is well typed and every step of it is one that the   *)
(* abstract Approval allows.                                               *)
(***************************************************************************)
EXTENDS Approvals, TLAPS

\* How far a call is tells what its connection carries; an answer that was
\* taken is in the connection of its call for good.
CallInv ==
    /\ \A c \in Call : at[c] \in {"idle", "dial"} => wire[c] = "none"
    /\ \A c \in Call : at[c] = "waits" => wire[c] # "none"
    /\ \A c \in Call : wire[c] \in {"request", "open"} => at[c] \in {"waits", "left"}
    /\ \A c \in Call : heard[c] # "none" => wire[c] = heard[c]

Inv == TypeOK /\ CallInv

-----------------------------------------------------------------------------
LEMMA InitInv == Init => Inv
  BY ApprovalsAssumption DEF Init, Inv, TypeOK, CallInv, Answer

LEMMA ServerStepInv ==
  ASSUME Inv, NEW s \in Server, ServerStep(s) PROVE Inv'
<1> USE ApprovalsAssumption
<1>1. CASE StartServer(s)
  BY <1>1 DEF StartServer, Goes, callVars, connVars, pageVars, Inv, TypeOK, CallInv, Answer, Post
<1>2. CASE TryListen(s)
  BY <1>2 DEF TryListen, Goes, callVars, connVars, pageVars, Inv, TypeOK, CallInv, Answer, Post
<1>3. CASE ProbeAlive(s)
  BY <1>3 DEF ProbeAlive, Goes, callVars, connVars, pageVars, Inv, TypeOK, CallInv, Answer, Post
<1>4. CASE UnlinkSocket(s)
  BY <1>4 DEF UnlinkSocket, Goes, callVars, connVars, pageVars, Inv, TypeOK, CallInv, Answer, Post
<1>5. CASE ServerEnds(s)
  <2>1. TypeOK'
    BY <1>5 DEF ServerEnds, Goes, callVars, Inv, TypeOK, Answer, Post
  <2>2. CallInv'
    BY <1>5 DEF ServerEnds, callVars, Inv, TypeOK, CallInv, Answer
  <2> QED BY <2>1, <2>2 DEF Inv
<1> QED BY <1>1, <1>2, <1>3, <1>4, <1>5 DEF ServerStep

LEMMA CallStepInv ==
  ASSUME Inv, NEW c \in Call, CallStep(c) PROVE Inv'
<1> USE ApprovalsAssumption DEF serverVars, callVars, connVars, pageVars
<1>1. ASSUME NEW p \in Call \cup {None}, Ask(c, p) PROVE Inv'
  <2>1. at' \in [Call -> {"idle", "dial", "waits", "runs", "ended", "refused", "left"}]
        /\ hop' \in [Call -> 0 .. Budget]
    BY <1>1 DEF Ask, TooDeep, Inv, TypeOK
  <2> QED BY <1>1, <2>1 DEF Ask, Inv, TypeOK, CallInv
<1>2. CASE Dial(c)
  BY <1>2 DEF Dial, Inv, TypeOK, CallInv, Answer
<1>3. CASE ReadAnswer(c) \/ GiveUp(c) \/ RunEnds(c)
  BY <1>3 DEF ReadAnswer, GiveUp, RunEnds, Inv, TypeOK, CallInv, Answer
<1>4. CASE RequestApproval(c)
  BY <1>4 DEF RequestApproval, Inv, TypeOK, CallInv, Answer
<1>5. CASE TimesOut(c)
  BY <1>5 DEF TimesOut, Expired, Inv, TypeOK, CallInv, Answer
<1> QED BY <1>1, <1>2, <1>3, <1>4, <1>5 DEF CallStep

LEMMA PageStepInv ==
  ASSUME Inv, NEW b \in Browser, PageStep(b) PROVE Inv'
<1> USE ApprovalsAssumption DEF serverVars, callVars, connVars, pageVars
<1>1. CASE Link(b) \/ ToastExpires(b)
  <2>1. linked' \in [Browser -> BOOLEAN] /\ toast' \in [Browser -> Call \cup {None}]
    <3>1. linked \in [Browser -> BOOLEAN] /\ toast \in [Browser -> Call \cup {None}]
      BY DEF Inv, TypeOK
    <3>2. CASE Link(b)
      <4>1. linked' = [linked EXCEPT ![b] = TRUE] /\ toast' = toast
        BY <3>2 DEF Link
      <4> QED BY <3>1, <4>1
    <3>3. CASE ToastExpires(b)
      <4>1. linked' = linked /\ toast' = [toast EXCEPT ![b] = None]
        BY <3>3 DEF ToastExpires
      <4> QED BY <3>1, <4>1
    <3> QED BY <1>1, <3>2, <3>3
  <2>2. UNCHANGED <<serverVars, callVars, connVars, pending, home, inbox, posts, heard>>
    BY <1>1 DEF Link, ToastExpires
  <2>3. CallInv'
    BY <2>2 DEF Inv, CallInv
  <2>4. TypeOK'
    BY <2>1, <2>2 DEF Inv, TypeOK
  <2> QED BY <2>3, <2>4 DEF Inv
<1>2. ASSUME NEW c \in Call, ShowToast(b, c) PROVE Inv'
  BY <1>2 DEF ShowToast, Inv, TypeOK, CallInv
<1>3. ASSUME NEW answer \in Answer, Click(b, answer) PROVE Inv'
  <2>1. posts' \subseteq Post /\ toast' \in [Browser -> Call \cup {None}]
    BY <1>3 DEF Click, Inv, TypeOK, Post
  <2> QED BY <1>3, <2>1 DEF Click, Inv, TypeOK, CallInv
<1> QED BY <1>1, <1>2, <1>3 DEF PageStep

LEMMA ResolveInv ==
  ASSUME Inv, NEW p \in posts, ResolveApproval(p) PROVE Inv'
<1>1. p.call \in Call /\ p.answer \in Answer /\ posts' \subseteq Post
  BY DEF ResolveApproval, Inv, TypeOK, Post
<1> QED
  BY <1>1, ApprovalsAssumption
  DEF ResolveApproval, serverVars, callVars, pageVars, Inv, TypeOK, CallInv, Answer

LEMMA StepInv == Inv /\ [Next]_vars => Inv'
<1> SUFFICES ASSUME Inv, [Next]_vars PROVE Inv'
  OBVIOUS
<1>1. CASE UNCHANGED vars
  BY <1>1 DEF vars, serverVars, callVars, connVars, pageVars, Inv, TypeOK, CallInv
<1> QED
  BY <1>1, ServerStepInv, CallStepInv, PageStepInv, ResolveInv DEF Next

\* Types; a request has an entry in the hub exactly while the listener waits
\* for it, and only a server that listens has the socket or an open request
\* (approval-socket.ts:84-127, events-hub.ts:796-826).
THEOREM ApprovalsTypeOK == Spec => []TypeOK
  BY InitInv, StepInv, PTL DEF Spec, Inv

-----------------------------------------------------------------------------
\* What a step does to the fate of the calls that it leaves alone: nothing.
LEMMA FateKept ==
  ASSUME UNCHANGED <<at, wire, hop, heard>> PROVE UNCHANGED Promise!vars
  BY DEF Promise!vars, Fate

LEMMA ServerStepKept ==
  ASSUME Inv, NEW s \in Server, ServerStep(s) PROVE [Promise!Next]_(Promise!vars)
<1>1. CASE StartServer(s) \/ TryListen(s) \/ ProbeAlive(s) \/ UnlinkSocket(s)
  BY <1>1, FateKept DEF StartServer, TryListen, ProbeAlive, UnlinkSocket, callVars, connVars
<1>2. CASE ServerEnds(s)
  <2> DEFINE C == {c \in Call : to[c] = s /\ at[c] = "waits" /\ wire[c] \in {"request", "open"}}
  <2>1. \A c \in C : Fate(c) = "waiting" /\ Fate(c)' = "refused"
    BY <1>2 DEF ServerEnds, callVars, Fate, Inv, TypeOK
  <2>2. \A c \in Call \ C : Fate(c)' = Fate(c)
    BY <1>2 DEF ServerEnds, callVars, Fate, Inv, TypeOK, CallInv
  <2>3. UNCHANGED <<heard, hop>>
    BY <1>2 DEF ServerEnds, callVars
  <2> QED BY <2>1, <2>2, <2>3 DEF Promise!Next, Promise!Refuse
<1> QED BY <1>1, <1>2 DEF ServerStep

LEMMA CallStepKept ==
  ASSUME Inv, NEW c \in Call, CallStep(c) PROVE [Promise!Next]_(Promise!vars)
<1>0. \A d \in Call \ {c} : Fate(d)' = Fate(d)
  BY DEF CallStep, Ask, Dial, ReadAnswer, GiveUp, RunEnds, RequestApproval, TimesOut,
         connVars, callVars, Fate, Inv, TypeOK
<1>1. ASSUME NEW p \in Call \cup {None}, Ask(c, p) PROVE Promise!Next
  <2> DEFINE incoming == IF p = None THEN 0 ELSE hop[p]
  <2>1. CASE TooDeep(incoming)
    <3>1. Fate(c) = "idle" /\ Fate(c)' = "refused" /\ UNCHANGED <<heard, hop>>
      BY <1>1, <2>1 DEF Ask, Fate, Inv, TypeOK
    <3> QED BY <1>0, <3>1 DEF Promise!Next, Promise!Refuse
  <2>2. CASE ~TooDeep(incoming)
    <3>1. Fate(c) = "idle" /\ Fate(c)' = "waiting" /\ UNCHANGED heard
      BY <1>1, <2>2 DEF Ask, Fate, Inv, TypeOK
    <3>2. p # None => Fate(p) = "runs"
      BY <1>1 DEF Ask, Fate
    <3>3. hop' = [hop EXCEPT ![c] = IF p = None THEN 1 ELSE hop[p] + 1]
      BY <1>1, <2>2 DEF Ask
    <3>4. hop'[c] <= Budget
      BY <1>1, <2>2, ApprovalsAssumption DEF Ask, TooDeep, Inv, TypeOK
    <3> QED BY <1>0, <3>1, <3>2, <3>3, <3>4 DEF Promise!Next, Promise!Ask, Promise!Become
  <2> QED BY <2>1, <2>2
<1>2. CASE Dial(c)
  <2>1. Fate(c) = "waiting" /\ UNCHANGED <<heard, hop>>
    BY <1>2 DEF Dial, Fate
  <2>2. CASE sock \in Server
    <3>1. Fate(c)' = Fate(c)
      BY <1>2, <2>1, <2>2 DEF Dial, Fate, Inv, TypeOK
    <3> QED BY <1>0, <2>1, <3>1 DEF Promise!vars
  <2>3. CASE sock \notin Server
    <3>1. Fate(c)' = "refused"
      BY <1>2, <2>3 DEF Dial, Fate, Inv, TypeOK
    <3> QED BY <1>0, <2>1, <3>1 DEF Promise!Next, Promise!Refuse
  <2> QED BY <2>2, <2>3
<1>3. CASE ReadAnswer(c)
  <2>1. UNCHANGED <<heard, hop>>
    BY <1>3 DEF ReadAnswer
  <2>2. CASE wire[c] = "yes"
    <3>1. Fate(c) = "allowed" /\ Fate(c)' = "runs"
      BY <1>3, <2>2 DEF ReadAnswer, Approved, Fate, Inv, TypeOK
    <3> QED BY <1>0, <2>1, <3>1 DEF Promise!Next, Promise!Run, Promise!Become
  <2>3. CASE wire[c] # "yes"
    <3>1. Fate(c)' = Fate(c)
      BY <1>3, <2>3 DEF ReadAnswer, Approved, Answer, Fate, Inv, TypeOK
    <3> QED BY <1>0, <2>1, <3>1 DEF Promise!vars
  <2> QED BY <2>2, <2>3
<1>4. CASE GiveUp(c)
  <2>1. Fate(c) \in {"waiting", "allowed", "refused"} /\ Fate(c)' = "left" /\ UNCHANGED <<heard, hop>>
    BY <1>4 DEF GiveUp, Fate, Inv, TypeOK, CallInv, Answer
  <2> QED BY <1>0, <2>1 DEF Promise!Next, Promise!Leave, Promise!Become
<1>5. CASE RunEnds(c)
  <2>1. Fate(c) = "runs" /\ Fate(c)' = "ended" /\ UNCHANGED <<heard, hop>>
    BY <1>5 DEF RunEnds, Fate, Inv, TypeOK
  <2> QED BY <1>0, <2>1 DEF Promise!Next, Promise!End, Promise!Become
<1>6. CASE RequestApproval(c)
  <2>1. Fate(c)' = Fate(c) /\ UNCHANGED <<heard, hop>>
    BY <1>6 DEF RequestApproval, callVars, Fate, Inv, TypeOK
  <2> QED BY <1>0, <2>1 DEF Promise!vars
<1>7. CASE TimesOut(c)
  <2>1. /\ UNCHANGED <<heard, hop>>
        /\ \/ Fate(c) = "waiting" /\ Fate(c)' = "refused"
           \/ Fate(c)' = Fate(c)
    BY <1>7 DEF TimesOut, callVars, Fate, Inv, TypeOK
  <2> QED BY <1>0, <2>1 DEF Promise!Next, Promise!Refuse, Promise!vars
<1> QED BY <1>1, <1>2, <1>3, <1>4, <1>5, <1>6, <1>7 DEF CallStep

LEMMA PageStepKept ==
  ASSUME NEW b \in Browser, PageStep(b) PROVE UNCHANGED Promise!vars
  BY FateKept DEF PageStep, Link, ToastExpires, ShowToast, Click, callVars, connVars

LEMMA ResolveKept ==
  ASSUME Inv, NEW p \in posts, ResolveApproval(p) PROVE [Promise!Next]_(Promise!vars)
<1> DEFINE c == p.call
           answer == p.answer
<1>1. c \in Call /\ answer \in Answer
  BY DEF Inv, TypeOK, Post
<1>2. CASE c \in pending /\ to[c] = p.to
  <2>1. wire[c] = "open" /\ at[c] \in {"waits", "left"} /\ heard[c] = "none"
    BY <1>1, <1>2 DEF Inv, TypeOK, CallInv, Answer
  <2>2. /\ wire' = [wire EXCEPT ![c] = answer]
        /\ heard' = [heard EXCEPT ![c] = answer]
        /\ UNCHANGED <<at, hop>>
    BY <1>2 DEF ResolveApproval, callVars
  <2>3. Fate(c) \in {"waiting", "left"}
    BY <2>1 DEF Fate
  <2>4. Fate(c)' = IF Fate(c) = "left" THEN "left"
                  ELSE IF answer = "yes" THEN "allowed" ELSE "refused"
    <3>1. at'[c] = at[c] /\ wire'[c] = answer /\ answer \in {"yes", "no"}
      BY <1>1, <2>2 DEF Inv, TypeOK, Answer
    <3>2. CASE at[c] = "left"
      <4>1. Fate(c) = "left" /\ Fate(c)' = "left"
        BY <3>1, <3>2 DEF Fate
      <4> QED BY <4>1
    <3>3. CASE at[c] = "waits"
      <4>1. Fate(c) = "waiting"
        BY <2>1, <3>3 DEF Fate
      <4>2. Fate(c)' = IF answer = "yes" THEN "allowed" ELSE "refused"
        BY <3>1, <3>3 DEF Fate
      <4> QED BY <4>1, <4>2
    <3> QED BY <2>1, <3>2, <3>3
  <2>5. \A d \in Call \ {c} : Fate(d)' = Fate(d)
    BY <2>2 DEF Fate, Inv, TypeOK
  <2>6. Promise!Hear(c, answer)
    BY <1>1, <2>1, <2>2, <2>3, <2>4, <2>5 DEF Promise!Hear, Promise!Become
  <2> QED BY <1>1, <2>6 DEF Promise!Next, Answer
<1>3. CASE ~(c \in pending /\ to[c] = p.to)
  BY <1>3, FateKept DEF ResolveApproval, callVars
<1> QED BY <1>2, <1>3

\* Approvals fail closed and answers are honest, whatever servers die, start
\* and steal the socket, however many calls nest and people answer
\* (approval-socket.ts:10-12, events-hub.ts:801-802, mcp.ts:131-137).
THEOREM ApprovalsKeepPromise == Spec => IsApproval
<1>1. Init => Promise!Init
  BY DEF Init, Promise!Init, Fate
<1>2. Inv /\ [Next]_vars => [Promise!Next]_(Promise!vars)
  <2> SUFFICES ASSUME Inv, [Next]_vars PROVE [Promise!Next]_(Promise!vars)
    OBVIOUS
  <2>1. CASE UNCHANGED vars
    BY <2>1, FateKept DEF vars, callVars, connVars
  <2> QED
    BY <2>1, ServerStepKept, CallStepKept, PageStepKept, ResolveKept DEF Next
<1> QED
  BY <1>1, <1>2, InitInv, StepInv, PTL DEF Spec, IsApproval, Promise!Spec
=============================================================================
