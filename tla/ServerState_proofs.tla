-------------------------- MODULE ServerState_proofs --------------------------
(* What the cooldowns and the registry of codes promise, they keep in the  *)
(* server as a whole.                                                      *)
EXTENDS ServerState, Cooldowns_proofs, Emails_proofs

-----------------------------------------------------------------------------
LEMMA EndsWithLeaves ==
  ASSUME NEW p \in Proc, EndsWith(p), UNCHANGED clock
  PROVE  [CooldownNext]_cooldownVars
BY DEF EndsWith, CooldownNext, cooldownVars

(* Every step of the server is a step of the cooldowns or leaves them     *)
(* alone.                                                                  *)
LEMMA StepSimulation == [Next]_vars => [CooldownNext]_cooldownVars
<1> SUFFICES ASSUME [Next]_vars PROVE [CooldownNext]_cooldownVars
  OBVIOUS
<1>1. CASE Pass
  BY <1>1 DEF Pass, CooldownNext
<1>2. ASSUME NEW p \in Proc, NEW k \in Key, Receive(p, k)
      PROVE  [CooldownNext]_cooldownVars
  BY <1>2 DEF Receive, CooldownNext
<1>3. ASSUME NEW p \in Proc, Request(p)
      PROVE  [CooldownNext]_cooldownVars
  <2>1. CASE Throttle(p)
    BY <2>1 DEF Throttle, CooldownNext
  <2>2. CASE Handle(p)
    <3>1. UNCHANGED clock
      BY <2>2 DEF Handle, Draw, Deliver, GiveUp, Insert, Compare, Remove
    <3>2. QED
      BY <2>2, <3>1, EndsWithLeaves DEF Handle
  <2>3. CASE StatusLock(p)
    BY <2>3 DEF StatusLock, OnlyJob, cooldownVars
  <2>4. CASE StatusAnswer(p) \/ Timeout(p)
    BY <2>4 DEF StatusAnswer, Timeout, CooldownNext
  <2>5. QED
    BY <1>3, <2>1, <2>2, <2>3, <2>4 DEF Request
<1>4. CASE Maintain
  <2>1. CASE MaintainTick \/ MaintainLock
    BY <2>1 DEF MaintainTick, MaintainLock, cooldownVars
  <2>2. ASSUME NEW s \in Shard, Scan(s)
        PROVE  UNCHANGED cooldownVars
    BY <2>2 DEF Scan, Hang, cooldownVars
  <2>3. CASE Sweep
    BY <2>3 DEF Sweep, CooldownNext
  <2>4. QED
    BY <1>4, <2>1, <2>2, <2>3 DEF Maintain
<1>5. CASE TypeExit \/ Exit \/ Drained
  BY <1>5 DEF TypeExit, Exit, Drained, cooldownVars
<1>6. CASE UNCHANGED vars
  BY <1>6 DEF vars, cooldownVars
<1>7. QED
  BY <1>1, <1>2, <1>3, <1>4, <1>5, <1>6 DEF Next

(* The server uses the cooldowns as Cooldowns specifies them.              *)
THEOREM CooldownsUsed == Spec => CooldownSpec
<1>1. Init => CooldownInit
  BY DEF Init
<1>2. QED
  BY <1>1, StepSimulation, PTL DEF Spec, CooldownSpec

(* Hence admitted requests are a cooldown apart here, too                  *)
(* (cooldowns.rs:39-92, state/mod.rs:84-107).                              *)
THEOREM RequestsApart == Spec => AdmittedApart
BY CooldownsUsed, Apart, PTL

-----------------------------------------------------------------------------
(* The registry of codes. *)
LEMMA BeginEmails ==
  ASSUME EmailInv, NEW p \in Proc, at[p] = "idle", Begin(p), UNCHANGED clock
  PROVE  EmailInv'
<1>1. PICK next \in {"draw", "compare", "lock"} :
        /\ Goto(p, next)
        /\ \/ next = "lock" /\ UNCHANGED job
           \/ \E e \in Email, c \in {NoCode} \cup {m[2] : m \in mailed} :
                /\ next \in {"draw", "compare"}
                /\ job' = [job EXCEPT ![p] = [email |-> e, code |-> c, expires |-> 0]]
  BY DEF Begin
<1>2. {m[2] : m \in mailed} \subseteq drawn
  BY DEF EmailInv, EmailTypeOK
<1>3. UNCHANGED <<registry, held, drawn, mailed, latest, spent, raced, alone>>
  BY DEF Begin
<1>4. QED
  BY <1>1, <1>2, <1>3, BeginKeeps

LEMMA HandleEmails ==
  ASSUME EmailInv, NEW p \in Proc, Handle(p)
  PROVE  EmailInv'
<1>1. CASE GiveUp(p)
  BY <1>1, EndKeeps DEF GiveUp, mail
<1>2. QED
  BY <1>1, DrawKeeps, DeliverKeeps, InsertKeeps, CompareKeeps, RemoveKeeps DEF Handle

LEMMA StepEmails == TypeOK /\ EmailInv /\ [Next]_vars => EmailInv'
<1> SUFFICES ASSUME TypeOK, EmailInv, [Next]_vars PROVE EmailInv'
  OBVIOUS
<1>1. clock \in Nat /\ held \subseteq Shard
  BY DEF EmailInv, EmailTypeOK
<1>2. ASSUME UNCHANGED emails, clock' \in Nat PROVE EmailInv'
  BY <1>1, <1>2, RestKeeps DEF emails, mail, ghost
<1>3. CASE Pass
  BY <1>1, <1>2, <1>3 DEF Pass, Tick
<1>4. ASSUME NEW p \in Proc, NEW k \in Key, Receive(p, k) PROVE EmailInv'
  <2>1. at[p] = "idle" /\ clock' = clock
    BY <1>4 DEF Receive, Arrive, TypeOK
  <2>2. QED
    BY <1>1, <1>2, <1>4, <2>1, BeginEmails DEF Receive
<1>5. ASSUME NEW p \in Proc, Request(p) PROVE EmailInv'
  <2>1. CASE Throttle(p)
    <3>1. at[p] = "idle" /\ clock' = clock
      BY <2>1 DEF Throttle, Admit, Refuse, TypeOK
    <3>2. QED
      BY <1>1, <1>2, <2>1, <3>1, BeginEmails DEF Throttle
  <2>2. CASE StatusLock(p)
    BY <2>2, WaitKeeps DEF StatusLock, OnlyJob
  <2>3. CASE StatusAnswer(p) \/ Timeout(p)
    BY <2>3, EndKeeps DEF StatusAnswer, Timeout, OnlyJob, mail
  <2>4. QED
    BY <1>5, <2>1, <2>2, <2>3, HandleEmails DEF Request
<1>6. CASE Maintain
  <2>1. ASSUME NEW s \in Shard, Hang(s) PROVE EmailInv'
    BY <1>1, <2>1, RestKeeps DEF Hang, mail, ghost
  <2>2. CASE MaintainTick \/ MaintainLock \/ Sweep
    BY <1>1, <1>2, <2>2 DEF MaintainTick, MaintainLock, Sweep, SweepStart, SweepKey, SweepEnd
  <2>3. ASSUME NEW s \in Shard, Scan(s) PROVE EmailInv'
    BY <1>1, <1>2, <2>1, <2>3 DEF Scan
  <2>4. QED
    BY <1>6, <2>2, <2>3 DEF Maintain
<1>7. CASE TypeExit \/ Exit \/ Drained \/ UNCHANGED vars
  BY <1>1, <1>2, <1>7 DEF TypeExit, Exit, Drained, vars
<1>8. QED
  BY <1>3, <1>4, <1>5, <1>6, <1>7 DEF Next

-----------------------------------------------------------------------------
(* The types of the server: a request has a job exactly while it is        *)
(* admitted, and the lock is held by whoever is at work with the status.   *)
ServerTypes ==
  /\ main \in {"select", "lock", "scan", "sweep", "hung", "exited"}
  /\ lock \in Proc \cup {Free, Main}
  /\ unscanned \subseteq Shard
  /\ typed \in BOOLEAN
  /\ draining \in BOOLEAN
  /\ lock = Main <=> main \in {"scan", "sweep", "hung"}
  /\ main = "hung" <=> held # {}
  /\ \A p \in Proc : at[p] = "status" <=> lock = p
  /\ \A p \in Proc : at[p] # "idle" <=> call[p] = "admitted"

LEMMA TypesMeet == TypeOK <=> CooldownTypeOK /\ EmailTypeOK /\ ServerTypes
BY DEF TypeOK, ServerTypes

(* A step of the handler of p keeps the rest of the server as it is.       *)
LEMMA HandlerServer ==
  ASSUME TypeOK, NEW p \in Proc, NEW next, at' = [at EXCEPT ![p] = next],
         at[p] # "status", next # "status", UNCHANGED <<server, held>>,
         \A q \in Proc \ {p} : call'[q] = call[q],
         next # "idle" <=> call'[p] = "admitted"
  PROVE  ServerTypes'
<1>1. at'[p] = next /\ \A q \in Proc \ {p} : at'[q] = at[q]
  BY DEF TypeOK, EmailTypeOK
<1>2. QED
  BY <1>1 DEF TypeOK, ServerTypes, server

LEMMA LeaveCalls ==
  ASSUME CooldownTypeOK, NEW p \in Proc, Leave(p)
  PROVE  call[p] = "admitted" /\ call'[p] = "idle" /\ \A q \in Proc \ {p} : call'[q] = call[q]
BY DEF Leave, CooldownTypeOK

LEMMA ReceiveServer ==
  ASSUME TypeOK, NEW p \in Proc, NEW k \in Key, Receive(p, k)
  PROVE  ServerTypes'
<1>1. call[p] = "idle" /\ at[p] = "idle" /\ UNCHANGED server
  BY DEF Receive, Arrive, TypeOK
<1>2. PICK x \in {"admitted", "stamped"} : call' = [call EXCEPT ![p] = x]
  BY DEF Receive, Arrive
<1>3. call'[p] = x /\ \A q \in Proc \ {p} : call'[q] = call[q]
  BY <1>2 DEF TypeOK, CooldownTypeOK
<1>4. CASE x = "admitted"
  <2>1. PICK next \in {"draw", "compare", "lock"} : at' = [at EXCEPT ![p] = next] /\ UNCHANGED held
    BY <1>3, <1>4 DEF Receive, Begin, Goto
  <2>2. QED
    BY <1>1, <1>3, <1>4, <2>1, HandlerServer
<1>5. CASE x = "stamped"
  <2>1. UNCHANGED <<at, held>>
    BY <1>3, <1>5 DEF Receive, emails
  <2>2. QED
    BY <1>1, <1>3, <1>5, <2>1 DEF TypeOK, ServerTypes, server
<1>6. QED
  BY <1>4, <1>5

LEMMA RequestServer ==
  ASSUME TypeOK, NEW p \in Proc, Request(p)
  PROVE  ServerTypes'
<1>1. CASE Admit(p) /\ Begin(p) /\ UNCHANGED server
  <2>1. call[p] = "stamped" /\ call'[p] = "admitted" /\ \A q \in Proc \ {p} : call'[q] = call[q]
    BY <1>1 DEF Admit, TypeOK, CooldownTypeOK
  <2>2. at[p] = "idle"
    BY <2>1 DEF TypeOK
  <2>3. PICK next \in {"draw", "compare", "lock"} : at' = [at EXCEPT ![p] = next] /\ UNCHANGED held
    BY <1>1 DEF Begin, Goto
  <2>4. QED
    BY <1>1, <2>1, <2>2, <2>3, HandlerServer
<1>2. CASE Refuse(p) /\ UNCHANGED emails /\ UNCHANGED server
  <2>1. call[p] = "stamped" /\ call'[p] = "idle" /\ \A q \in Proc \ {p} : call'[q] = call[q]
    BY <1>2 DEF Refuse, TypeOK, CooldownTypeOK
  <2>2. QED
    BY <1>2, <2>1 DEF TypeOK, ServerTypes, server, emails
<1>3. CASE Handle(p)
  <2>1. PICK next \in {"sending", "insert", "remove", "idle"} :
          /\ at' = [at EXCEPT ![p] = next] /\ UNCHANGED held
          /\ at[p] \in {"draw", "sending", "insert", "compare", "remove"}
    BY <1>3 DEF Handle, Draw, Deliver, GiveUp, Insert, Compare, Remove, End, Race, Goto
  <2>2. at'[p] = next /\ call[p] = "admitted"
    BY <2>1 DEF TypeOK, EmailTypeOK
  <2>3. CASE next = "idle"
    <3>1. Leave(p) /\ UNCHANGED server
      BY <1>3, <2>2, <2>3 DEF Handle, EndsWith
    <3>2. QED
      BY <2>1, <2>3, <3>1, LeaveCalls, HandlerServer DEF TypeOK
  <2>4. CASE next # "idle"
    <3>1. UNCHANGED <<call, server>>
      BY <1>3, <2>2, <2>4 DEF Handle, EndsWith, cooldowns
    <3>2. QED
      BY <2>1, <2>2, <2>4, <3>1, HandlerServer
  <2>5. QED
    BY <2>3, <2>4
<1>4. CASE StatusLock(p)
  <2>1. /\ at[p] = "lock" /\ at'[p] = "status" /\ lock = Free /\ lock' = p
        /\ \A q \in Proc \ {p} : at'[q] = at[q]
        /\ UNCHANGED <<call, held, main, unscanned, typed, draining>>
    BY <1>4 DEF StatusLock, Goto, OnlyJob, cooldowns, TypeOK, EmailTypeOK
  <2>2. Free \notin Proc /\ p # Main /\ Free # Main
    BY ProcType DEF Free, Main
  <2>3. QED
    BY <2>1, <2>2 DEF TypeOK, ServerTypes
<1>5. CASE StatusAnswer(p)
  <2>1. /\ at[p] = "status" /\ at'[p] = "idle" /\ lock' = Free
        /\ \A q \in Proc \ {p} : at'[q] = at[q]
        /\ call[p] = "admitted" /\ call'[p] = "idle" /\ \A q \in Proc \ {p} : call'[q] = call[q]
        /\ UNCHANGED <<held, main, unscanned, typed, draining>>
    BY <1>5, LeaveCalls DEF StatusAnswer, End, Goto, OnlyJob, TypeOK, EmailTypeOK
  <2>2. p # Main /\ Free # Main /\ Free \notin Proc
    BY ProcType DEF Free, Main
  <2>3. QED
    BY <2>1, <2>2 DEF TypeOK, ServerTypes
<1>6. CASE Timeout(p)
  BY <1>6, LeaveCalls, HandlerServer DEF Timeout, End, Goto, OnlyJob, TypeOK
<1>7. QED
  BY <1>1, <1>2, <1>3, <1>4, <1>5, <1>6 DEF Request, Throttle

LEMMA MaintainServer ==
  ASSUME TypeOK, Maintain
  PROVE  ServerTypes'
<1> USE ProcType DEF Free, Main
<1>1. CASE MaintainTick \/ MaintainLock
  BY <1>1 DEF MaintainTick, MaintainLock, TypeOK, ServerTypes, cooldowns, emails
<1>2. ASSUME NEW s \in Shard, Scan(s) PROVE ServerTypes'
  <2>1. UNCHANGED <<at, call, lock, typed, draining>> /\ main = "scan" /\ lock = Main
    BY <1>2 DEF Scan, Hang, cooldowns, emails, TypeOK
  <2>2. \/ main' = "hung" /\ held' = held \cup {s} /\ UNCHANGED unscanned
        \/ main' = main /\ held' = held /\ unscanned' = unscanned \ {s}
    BY <1>2 DEF Scan, Hang, emails
  <2>3. QED
    BY <2>1, <2>2 DEF TypeOK, ServerTypes
<1>3. CASE Sweep
  <2>1. UNCHANGED <<at, held, call, unscanned, typed, draining>>
    BY <1>3 DEF Sweep, SweepStart, SweepKey, SweepEnd, emails
  <2>2. \/ main \in {"scan", "sweep"} /\ main' = "sweep" /\ lock' = lock
        \/ main = "sweep" /\ main' = "select" /\ lock' = Free
    BY <1>3 DEF Sweep
  <2>3. QED
    BY <2>1, <2>2 DEF TypeOK, ServerTypes
<1>4. QED
  BY <1>1, <1>2, <1>3 DEF Maintain

LEMMA StepServer == TypeOK /\ [Next]_vars => ServerTypes'
<1> SUFFICES ASSUME TypeOK, [Next]_vars PROVE ServerTypes'
  OBVIOUS
<1>1. CASE Pass \/ UNCHANGED vars
  BY <1>1 DEF Pass, vars, cooldowns, emails, server, TypeOK, ServerTypes
<1>2. CASE TypeExit \/ Exit \/ Drained
  <2>1. UNCHANGED <<at, held, call, lock, unscanned>>
    BY <1>2 DEF TypeExit, Exit, Drained, cooldowns, emails
  <2>2. /\ main' = main \/ (main' = "exited" /\ main \in {"select", "lock"})
        /\ typed' \in BOOLEAN /\ draining' \in BOOLEAN
    BY <1>2 DEF TypeExit, Exit, Drained, AtRest, TypeOK
  <2>3. QED
    BY <2>1, <2>2 DEF TypeOK, ServerTypes
<1>3. QED
  BY <1>1, <1>2, ReceiveServer, RequestServer, MaintainServer DEF Next

ServerInv == TypeOK /\ CooldownInv /\ EmailInv

LEMMA ServerInvariance == Spec => []ServerInv
<1>1. Init => ServerInv
  <2> SUFFICES ASSUME Init PROVE ServerInv
    OBVIOUS
  <2>1. CooldownInv /\ EmailInv
    BY InitInv, EmailInitInv DEF Init, CooldownInit
  <2>2. ServerTypes
    BY ProcType DEF Init, ServerTypes, CooldownInit, EmailInit, Free, Main
  <2>3. QED
    BY <2>1, <2>2, TypesMeet DEF ServerInv, CooldownInv, EmailInv
<1>2. ServerInv /\ [Next]_vars => ServerInv'
  <2> SUFFICES ASSUME ServerInv, [Next]_vars PROVE ServerInv'
    OBVIOUS
  <2>1. CooldownInv'
    BY StepSimulation, NextTypeOK, NextPast, NextKept DEF ServerInv, CooldownInv
  <2>2. EmailInv' /\ ServerTypes'
    BY StepEmails, StepServer DEF ServerInv
  <2>3. TypeOK'
    BY <2>1, <2>2 DEF TypeOK, ServerTypes, CooldownInv, EmailInv
  <2>4. QED
    BY <2>1, <2>2, <2>3 DEF ServerInv
<1>3. QED
  BY <1>1, <1>2, PTL DEF Spec

(* The types of the server, its cooldowns and its registry of codes; in    *)
(* particular the main task hangs exactly when it holds a shard            *)
(* (email.rs:138).                                                         *)
THEOREM TypeCorrect == Spec => []TypeOK
BY ServerInvariance, PTL DEF ServerInv

(* A code that has been accepted is in the registry no more: nobody enters *)
(* it again, and it was there for one address only (email.rs:107-131).     *)
THEOREM SpentAreGone == Spec => []SpentCodesAreGone
BY ServerInvariance, PTL DEF ServerInv, EmailInv, Codes

-----------------------------------------------------------------------------
(* What one step may do to the registry. *)
LEMMA WritesOnce ==
  ASSUME ServerInv, [Next]_vars, NEW p \in Proc, at[p] = "insert", at'[p] = "idle"
  PROVE  Insert(p)
<1>1. at[p] = "insert" /\ at'[p] = "idle"
  OBVIOUS
<1>2. ASSUME NEW q \in Proc, q # p, NEW next, at' = [at EXCEPT ![q] = next] PROVE FALSE
  BY <1>1, <1>2 DEF ServerInv, EmailInv, EmailTypeOK
<1>3. ASSUME NEW next, next # "idle", at' = [at EXCEPT ![p] = next] PROVE FALSE
  BY <1>1, <1>3 DEF ServerInv, EmailInv, EmailTypeOK
<1>4. ASSUME UNCHANGED at PROVE FALSE
  BY <1>1, <1>4
<1>5. ASSUME NEW q \in Proc, NEW k \in Key, Receive(q, k) PROVE FALSE
  <2>1. at[q] = "idle"
    BY <1>5 DEF Receive, Arrive, ServerInv, TypeOK
  <2>2. UNCHANGED at \/ \E next : at' = [at EXCEPT ![q] = next]
    BY <1>5 DEF Receive, Begin, Goto, emails
  <2>3. QED
    BY <1>1, <1>2, <1>4, <2>1, <2>2
<1>6. ASSUME NEW q \in Proc, Request(q) PROVE Insert(p)
  <2>1. CASE Throttle(q)
    <3>1. at[q] = "idle"
      BY <2>1 DEF Throttle, Admit, Refuse, ServerInv, TypeOK
    <3>2. UNCHANGED at \/ \E next : at' = [at EXCEPT ![q] = next]
      BY <2>1 DEF Throttle, Begin, Goto, emails
    <3>3. QED
      BY <1>1, <1>2, <1>4, <3>1, <3>2
  <2>2. CASE StatusLock(q) \/ StatusAnswer(q) \/ Timeout(q)
    <3>1. at[q] \in {"lock", "status"} /\ \E next : at' = [at EXCEPT ![q] = next]
      BY <2>2 DEF StatusLock, StatusAnswer, Timeout, End, Goto
    <3>2. QED
      BY <1>1, <1>2, <3>1
  <2>3. CASE Handle(q)
    <3>1. \E next : at' = [at EXCEPT ![q] = next]
      BY <2>3 DEF Handle, Draw, Deliver, GiveUp, Insert, Compare, Remove, End, Race, Goto
    <3>2. q = p
      BY <1>2, <3>1
    <3>3. Insert(p)
      BY <1>1, <2>3, <3>2 DEF Handle, Draw, Deliver, GiveUp, Compare, Remove
    <3>4. QED
      BY <3>3
  <2>4. QED
    BY <1>6, <2>1, <2>2, <2>3 DEF Request
<1>7. CASE UNCHANGED at
  BY <1>4, <1>7
<1>8. QED
  BY <1>5, <1>6, <1>7
     DEF Next, Pass, Maintain, MaintainTick, MaintainLock, Scan, Hang, Sweep, TypeExit, Exit,
         Drained, vars, emails

(* A verification that is not overtaken spends a code for the first time,  *)
(* and the entry it removes is that of its code (email.rs:113).            *)
THEOREM VerificationsUnraced == Spec => UnracedVerification
<1>1. ASSUME ServerInv, NEW p \in Proc, Accepts(p), ~raced[p]
      PROVE  job[p].code \notin spent /\ registry[job[p].email].code = job[p].code
  <2>1. at[p] = "remove"
    BY <1>1 DEF Accepts
  <2>2. job[p].email \in Email
    BY <1>1, <2>1, JobFields DEF ServerInv, EmailInv, Verifying
  <2>3. registry[job[p].email].code = job[p].code
    BY <1>1, <2>1 DEF ServerInv, EmailInv, RaceNoted
  <2>4. QED
    BY <1>1, <2>2, <2>3 DEF ServerInv, EmailInv, Codes, SpentCodesAreGone
<1>2. ServerInv =>
        [\A p \in Proc :
           Accepts(p) /\ ~raced[p] =>
             job[p].code \notin spent /\ registry[job[p].email].code = job[p].code]_emails
  BY <1>1
<1>3. QED
  BY <1>2, ServerInvariance, PTL DEF UnracedVerification

(* Whoever registers an address alone leaves the code that was mailed last *)
(* (email.rs:107).                                                         *)
THEOREM LatestWorks == Spec => LatestMailWorks
<1>1. ASSUME ServerInv, [Next]_vars, NEW p \in Proc, at[p] = "insert", at'[p] = "idle", alone[p]
      PROVE  registry'[job[p].email].code = latest[job[p].email]
  <2>1. PICK e, c : e = job[p].email /\ c = job[p].code
    OBVIOUS
  <2>2. e \in Email
    BY <1>1, <2>1, JobFields DEF ServerInv, EmailInv, Registering
  <2>3. registry' = [registry EXCEPT ![e] = [code |-> c, expires |-> job[p].expires]]
    BY <1>1, <2>1, WritesOnce DEF Insert
  <2>4. registry'[e].code = c
    BY <1>1, <2>2, <2>3 DEF ServerInv, EmailInv, EmailTypeOK
  <2>5. latest[e] = c
    BY <1>1, <2>1 DEF ServerInv, EmailInv, AloneKnown
  <2>6. QED
    BY <2>1, <2>4, <2>5
<1>2. ServerInv /\ [Next]_vars =>
        [\A p \in Proc :
           at[p] = "insert" /\ at'[p] = "idle" /\ alone[p] =>
             registry'[job[p].email].code = latest[job[p].email]]_emails
  BY <1>1
<1>3. QED
  BY <1>2, ServerInvariance, PTL DEF Spec, LatestMailWorks
=============================================================================
