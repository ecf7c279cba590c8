------------------------ MODULE Notifications_proofs ------------------------
(***************************************************************************)
(* What is stored and published about the messages of a channel: for every *)
(* number of users, messages and requests in progress.                     *)
(***************************************************************************)
EXTENDS Notifications, TLAPS

-----------------------------------------------------------------------------
(* Types. *)
LEMMA NoReqIsNone == NoReq \notin Request
BY DEF NoReq, Request, SendRequest, DeleteRequest, UpdateRequest

LEMMA RequestFields ==
  ASSUME TypeOK, NEW p \in Proc
  PROVE  /\ Running(p, "send") => req[p].m \in Message /\ req[p].op = "send"
         /\ Running(p, "delete") => req[p].m \in Message /\ req[p].by \in User
         /\ Running(p, "update") => req[p].by \in User
<1>1. pc[p] # "idle" => req[p] \in Request
  BY DEF TypeOK
<1>2. QED
  BY <1>1 DEF Running, Request, SendRequest, DeleteRequest, UpdateRequest

LEMMA InitTypes == Init => TypeOK
BY StartType, FreeIsNobody, MaxRequestsType DEF Init, TypeOK, Statement

LEMMA FinishTypes ==
  ASSUME TypeOK, NEW p \in Proc, Finish(p)
  PROVE  /\ pc' \in [Proc -> Statement]
         /\ req' \in [Proc -> Request \cup {NoReq}]
         /\ todo' \in [Proc -> SUBSET User]
         /\ list' \in [Proc -> SUBSET Message]
         /\ at' \in [Proc -> User \cup {Free}]
         /\ userLock' \in [User -> Proc \cup {Free}]
         /\ pending' \in [User -> SUBSET Message]
         /\ \A q \in Proc : pc'[q] = "idle" <=> req'[q] = NoReq
         /\ \A q \in Proc : pc'[q] = "update" <=> at'[q] # Free
BY DEF TypeOK, Finish, Statement

LEMMA RollbackTypes ==
  ASSUME TypeOK, NEW p \in Proc, Rollback(p)
  PROVE  TypeOK'
<1>1. Finish(p) /\ UNCHANGED <<channel, messages, inbox, expired, made, client>>
  BY DEF Rollback
<1>2. /\ moved' \in [Proc -> BOOLEAN]
      /\ arrived' \in [Proc -> SUBSET Message]
  BY DEF Rollback, TypeOK
<1>3. QED
  BY <1>1, <1>2, FinishTypes DEF TypeOK, channel, client

(* A statement in the middle of a request. *)
LEMMA GotoTypes ==
  ASSUME TypeOK, NEW p \in Proc, pc[p] \notin {"idle", "update"},
         NEW next \in Statement \ {"idle", "update"}, Goto(p, next),
         UNCHANGED <<at, locks>>,
         todo' \in [Proc -> SUBSET User], list' \in [Proc -> SUBSET Message]
  PROVE  TypeOK'
BY DEF TypeOK, Goto, channel, client, locks

LEMMA ReadTypes ==
  ASSUME TypeOK, NEW p \in Proc, NEW stmt \in Statement \ {"idle", "update"},
         NEW next \in Statement \ {"idle", "update"}, NEW ok \in BOOLEAN,
         Read(p, stmt, ok, next)
  PROVE  TypeOK'
<1>1. CASE Rollback(p)
  BY <1>1, RollbackTypes
<1>2. CASE Goto(p, next) /\ UNCHANGED <<todo, list, at, locks>>
  <2>1. todo' \in [Proc -> SUBSET User] /\ list' \in [Proc -> SUBSET Message]
    BY <1>2 DEF TypeOK
  <2>2. QED
    BY <1>2, <2>1, GotoTypes DEF Read
<1>3. QED
  BY <1>1, <1>2 DEF Read

LEMMA SubmitTypes ==
  ASSUME TypeOK, NEW p \in Proc, NEW r \in Requests, Submit(p, r)
  PROVE  TypeOK'
<1>1. r \in Request /\ r # NoReq /\ (r.op = "send" => r.m \in Message)
  BY RequestsType, NoReqIsNone DEF Request, SendRequest, DeleteRequest, UpdateRequest
<1>2. PICK start \in {"channel", "perm", "remove", "find", "snapshot"} :
        pc' = [pc EXCEPT ![p] = start]
  BY <1>1 DEF Submit, Request, SendRequest, DeleteRequest, UpdateRequest
<1>3. made' \in 0..MaxRequests
  <2>1. made \in 0..MaxRequests /\ made < MaxRequests /\ made' = made + 1
    BY DEF Submit, TypeOK
  <2>2. QED
    BY <2>1, MaxRequestsType
<1>7. messages' \in [Message -> {"unused", "taken", "stored", "deleted"}]
  BY <1>1 DEF Submit, TypeOK
<1>8. pc' \in [Proc -> Statement] /\ req' \in [Proc -> Request \cup {NoReq}]
  <2>1. pc \in [Proc -> Statement] /\ start \in Statement
    BY DEF TypeOK, Statement
  <2>2. req' = [req EXCEPT ![p] = r] /\ req \in [Proc -> Request \cup {NoReq}]
    BY DEF Submit, TypeOK
  <2>3. QED
    BY <1>1, <1>2, <2>1, <2>2
<1>4. \A q \in Proc : pc'[q] = "idle" <=> req'[q] = NoReq
  BY <1>1, <1>2 DEF Submit, TypeOK
<1>5. \A q \in Proc : pc'[q] = "update" <=> at'[q] # Free
  BY <1>2 DEF Submit, TypeOK
<1>6. QED
  BY <1>3, <1>4, <1>5, <1>7, <1>8 DEF Submit, TypeOK, channel, locks, client

LEMMA PushReadTypes ==
  ASSUME TypeOK, NEW p \in Proc, Running(p, "send"), PushRead(p)
  PROVE  TypeOK'
<1>1. PICK u \in todo[p] :
        /\ list' = [list EXCEPT ![p] = Extended(u, req[p].m)]
        /\ at' = [at EXCEPT ![p] = u]
        /\ todo' = [todo EXCEPT ![p] = @ \ {u}]
        /\ Publish(u, req[p].m)
  BY DEF PushRead
<1>2. u \in User /\ req[p].m \in Message /\ u # Free
  BY <1>1, RequestFields, FreeIsNobody DEF TypeOK
<1>3. Extended(u, req[p].m) \subseteq Message
  BY <1>2 DEF Extended, TypeOK
<1>4. /\ list' \in [Proc -> SUBSET Message]
      /\ at' \in [Proc -> User \cup {Free}]
      /\ todo' \in [Proc -> SUBSET User]
  BY <1>1, <1>2, <1>3 DEF TypeOK
<1>5. /\ known' \in [User -> SUBSET Message]
      /\ watching' = watching /\ loaded' = loaded /\ underway' = underway
  BY <1>1, <1>2 DEF Publish, TypeOK
<1>6. /\ pc' = [pc EXCEPT ![p] = "update"] /\ pc[p] = "notify"
      /\ UNCHANGED <<channel, messages, inbox, expired, made, req, locks, moved, arrived>>
  BY DEF PushRead
<1>7. pc' \in [Proc -> Statement]
  BY <1>6 DEF TypeOK, Statement
<1>8. /\ \A q \in Proc : pc'[q] = "idle" <=> req'[q] = NoReq
      /\ \A q \in Proc : pc'[q] = "update" <=> at'[q] # Free
  BY <1>1, <1>2, <1>6 DEF TypeOK
<1>9. QED
  BY <1>4, <1>5, <1>6, <1>7, <1>8 DEF TypeOK, channel, locks

LEMMA PushWriteTypes ==
  ASSUME TypeOK, NEW p \in Proc, PushWrite(p)
  PROVE  TypeOK'
<1>1. /\ at[p] \in User /\ list[p] \subseteq Message
      /\ pc[p] = "update" /\ pc' = [pc EXCEPT ![p] = "notify"]
      /\ at' = [at EXCEPT ![p] = Free] /\ list' = [list EXCEPT ![p] = {}]
      /\ UNCHANGED <<channel, messages, inbox, expired, made, req, client, moved, arrived, todo>>
  BY DEF PushWrite, Goto, TypeOK
<1>2. /\ userLock' \in [User -> Proc \cup {Free}]
      /\ pending' \in [User -> SUBSET Message]
  BY <1>1 DEF PushWrite, TypeOK
<1>3. /\ pc' \in [Proc -> Statement]
      /\ at' \in [Proc -> User \cup {Free}]
      /\ list' \in [Proc -> SUBSET Message]
      /\ \A q \in Proc : pc'[q] = "idle" <=> req'[q] = NoReq
      /\ \A q \in Proc : pc'[q] = "update" <=> at'[q] # Free
  BY <1>1 DEF TypeOK, Statement
<1>4. QED
  BY <1>1, <1>2, <1>3 DEF TypeOK, channel, client

LEMMA ArrivalsType ==
  ASSUME TypeOK, NEW p \in Proc, inbox' \in [User -> SUBSET Message]
  PROVE  Arrivals(p) \in [Proc -> SUBSET Message]
BY DEF Arrivals, TypeOK

LEMMA CommitTypes ==
  ASSUME TypeOK, NEW p \in Proc, Finish(p),
         inbox' \in [User -> SUBSET Message],
         messages' \in [Message -> {"unused", "taken", "stored", "deleted"}],
         moved' = [moved EXCEPT ![p] = FALSE],
         arrived' \in [Proc -> SUBSET Message],
         UNCHANGED <<channel, expired, made, client>>
  PROVE  TypeOK'
<1>1. moved' \in [Proc -> BOOLEAN]
  BY DEF TypeOK
<1>2. QED
  BY <1>1, FinishTypes DEF TypeOK, channel, client

LEMMA CommitSendTypes ==
  ASSUME TypeOK, NEW p \in Proc, Running(p, "send"), CommitSend(p)
  PROVE  TypeOK'
<1>1. req[p].m \in Message
  BY RequestFields
<1>2. messages' \in [Message -> {"unused", "taken", "stored", "deleted"}]
  BY <1>1 DEF CommitSend, TypeOK
<1>3. inbox' \in [User -> SUBSET Message]
  BY DEF CommitSend, Stored, TypeOK
<1>4. QED
  BY <1>2, <1>3, ArrivalsType, CommitTypes DEF CommitSend

LEMMA SendTypes ==
  ASSUME TypeOK, NEW p \in Proc, Send(p)
  PROVE  TypeOK'
<1>1. Running(p, "send")
  BY DEF Send
<1>2. CASE Read(p, "perm", MayWrite(Author[req[p].m]), "channel")
  <2>1. MayWrite(Author[req[p].m]) \in BOOLEAN
    BY DEF MayWrite
  <2>2. QED
    BY <1>2, <2>1, ReadTypes DEF Statement
<1>3. CASE Read(p, "channel", live, "members") \/ InsertMessage(p)
  <2>1. live \in BOOLEAN
    BY DEF TypeOK
  <2>2. QED
    BY <1>3, <2>1, ReadTypes DEF Statement, InsertMessage
<1>4. CASE /\ pc[p] = "members"
           /\ todo' = [todo EXCEPT ![p] = Recipients(req[p].m)]
           /\ Goto(p, "insert")
           /\ UNCHANGED <<list, at, locks>>
  <2>1. todo' \in [Proc -> SUBSET User] /\ list' \in [Proc -> SUBSET Message]
    BY <1>4 DEF TypeOK, Recipients, Members
  <2>2. QED
    BY <1>4, <2>1, GotoTypes DEF Statement
<1>5. QED
  BY <1>1, <1>2, <1>3, <1>4, PushReadTypes, PushWriteTypes, CommitSendTypes DEF Send

LEMMA DeleteTypes ==
  ASSUME TypeOK, NEW p \in Proc, DeleteMessage(p)
  PROVE  TypeOK'
<1> DEFINE m == req[p].m
<1>1. m \in Message
  BY RequestFields DEF DeleteMessage
<1>2. CASE Read(p, "find", messages[m] = "stored", "issuer")
  BY <1>2, ReadTypes DEF Statement
<1>3. CASE Read(p, "issuer", MayDelete(req[p].by, m), "remove")
  <2>1. MayDelete(req[p].by, m) \in BOOLEAN
    BY DEF MayDelete
  <2>2. QED
    BY <1>3, <2>1, ReadTypes DEF Statement
<1>4. CASE /\ Finish(p)
           /\ messages' = [messages EXCEPT ![m] = "deleted"]
           /\ moved' = [moved EXCEPT ![p] = FALSE]
           /\ arrived' = [arrived EXCEPT ![p] = {}]
           /\ UNCHANGED <<channel, inbox, expired, made, client>>
  <2>1. /\ messages' \in [Message -> {"unused", "taken", "stored", "deleted"}]
        /\ arrived' \in [Proc -> SUBSET Message]
        /\ inbox' \in [User -> SUBSET Message]
    BY <1>1, <1>4 DEF TypeOK
  <2>2. QED
    BY <1>4, <2>1, CommitTypes
<1>5. CASE Rollback(p)
  BY <1>5, RollbackTypes
<1>6. QED
  BY <1>2, <1>3, <1>4, <1>5 DEF DeleteMessage

LEMMA UpdateTypes ==
  ASSUME TypeOK, NEW p \in Proc, UpdateUser(p)
  PROVE  TypeOK'
<1> DEFINE u == req[p].by
<1>1. u \in User
  BY RequestFields DEF UpdateUser
<1>2. CASE /\ pc[p] = "snapshot"
           /\ list' = [list EXCEPT ![p] = inbox[u]]
           /\ Goto(p, "overwrite")
           /\ UNCHANGED <<todo, at, locks>>
  <2>1. todo' \in [Proc -> SUBSET User] /\ list' \in [Proc -> SUBSET Message]
    BY <1>1, <1>2 DEF TypeOK
  <2>2. QED
    BY <1>2, <2>1, GotoTypes DEF Statement
<1>3. CASE /\ inbox' = [inbox EXCEPT ![u] = list[p]]
           /\ Finish(p)
           /\ moved' = [moved EXCEPT ![p] = FALSE]
           /\ arrived' = Arrivals(p)
           /\ UNCHANGED <<channel, messages, expired, made, client>>
  <2>1. /\ messages' \in [Message -> {"unused", "taken", "stored", "deleted"}]
        /\ inbox' \in [User -> SUBSET Message]
    BY <1>1, <1>3 DEF TypeOK
  <2>2. QED
    BY <1>3, <2>1, ArrivalsType, CommitTypes
<1>4. QED
  BY <1>2, <1>3 DEF UpdateUser

(* What happens around the requests. *)
LEMMA EnvironmentTypes ==
  ASSUME TypeOK,
         \/ \E u \in User : ConsoleUpdate(u)
         \/ \E c \in Changes : ChangeMember(c[1], c[2])
         \/ DeleteChannel
         \/ \E m \in Message : Expire(m)
         \/ \E u \in Client : Subscribe(u)
         \/ \E u \in Client : Load(u)
  PROVE  TypeOK'
<1>1. CASE \E u \in User : ConsoleUpdate(u)
  BY <1>1 DEF ConsoleUpdate, TypeOK, channel, process, locks, client
<1>2. ASSUME NEW c \in Changes, ChangeMember(c[1], c[2]) PROVE TypeOK'
  <2>1. perm' \in [User -> Membership]
    BY <1>2, ChangesType DEF ChangeMember, TypeOK
  <2>2. QED
    BY <1>2, <2>1 DEF ChangeMember, Moved, TypeOK, process, locks, client
<1>3. CASE DeleteChannel
  <2>1. /\ perm' \in [User -> Membership]
        /\ messages' \in [Message -> {"unused", "taken", "stored", "deleted"}]
        /\ moved' \in [Proc -> BOOLEAN]
        /\ live' \in BOOLEAN
    BY <1>3 DEF DeleteChannel, TypeOK, Membership, Moved
  <2>2. QED
    BY <1>3, <2>1 DEF DeleteChannel, TypeOK, process, locks, client
<1>4. CASE \E m \in Message : Expire(m)
  BY <1>4 DEF Expire, TypeOK, channel, process, locks, client
<1>5. CASE \E u \in Client : Subscribe(u)
  BY <1>5 DEF Subscribe, TypeOK, channel, process, locks
<1>6. ASSUME NEW u \in Client, Load(u) PROVE TypeOK'
  <2>1. u \in User /\ CarriedFor(u) \subseteq Message /\ inbox[u] \subseteq Message
    BY ClientType DEF CarriedFor, TypeOK
  <2>2. /\ known' \in [User -> SUBSET Message]
        /\ underway' \in [User -> SUBSET Message]
    BY <1>6, <2>1 DEF Load, TypeOK
  <2>3. QED
    BY <1>6, <2>2 DEF Load, TypeOK, channel, process, locks
<1>7. QED
  BY <1>1, <1>2, <1>3, <1>4, <1>5, <1>6

LEMMA StepTypes == TypeOK /\ [Next]_vars => TypeOK'
<1> SUFFICES ASSUME TypeOK, [Next]_vars PROVE TypeOK'
  OBVIOUS
<1>1. CASE UNCHANGED vars
  BY <1>1 DEF vars, channel, process, locks, client, TypeOK
<1>2. CASE Next
  BY <1>2, SubmitTypes, SendTypes, DeleteTypes, UpdateTypes, RollbackTypes, EnvironmentTypes
     DEF Next, Fail
<1>3. QED
  BY <1>1, <1>2

(* Every variable keeps its type; a request is at a recipient exactly      *)
(* between its read and its write of his list (logic/user.rs:348-371).     *)
THEOREM TypeCorrect == Spec => []TypeOK
BY InitTypes, StepTypes, PTL DEF Spec

-----------------------------------------------------------------------------
(* No message without its channel. *)
InsertedLive == \A p \in Proc : pc[p] \in {"notify", "update"} => live

LEMMA ChannelStep ==
  TypeOK /\ InsertedLive /\ MessagesHaveChannel /\ [Next]_vars
    => InsertedLive' /\ MessagesHaveChannel'
<1> SUFFICES ASSUME TypeOK, InsertedLive, MessagesHaveChannel, [Next]_vars
             PROVE  InsertedLive' /\ MessagesHaveChannel'
  OBVIOUS
<1> USE DEF InsertedLive, MessagesHaveChannel
<1>1. ASSUME NEW p \in Proc, Rollback(p)
      PROVE  InsertedLive' /\ MessagesHaveChannel'
  BY <1>1 DEF Rollback, Finish, channel, TypeOK
<1>2. ASSUME NEW p \in Proc, NEW stmt, NEW ok, NEW next, Read(p, stmt, ok, next),
             next \notin {"notify", "update"}
      PROVE  InsertedLive' /\ MessagesHaveChannel'
  BY <1>1, <1>2 DEF Read, Goto, channel, TypeOK
<1>3. ASSUME NEW p \in Proc, NEW r \in Requests, Submit(p, r)
      PROVE  InsertedLive' /\ MessagesHaveChannel'
  <2>1. r \in Request
    BY RequestsType
  <2>2. PICK start \in {"channel", "perm", "remove", "find", "snapshot"} :
          pc' = [pc EXCEPT ![p] = start]
    BY <1>3, <2>1 DEF Submit, Request, SendRequest, DeleteRequest, UpdateRequest
  <2>3. QED
    BY <1>3, <2>2 DEF Submit, channel, TypeOK
<1>4. ASSUME NEW p \in Proc, Send(p)
      PROVE  InsertedLive' /\ MessagesHaveChannel'
  <2>1. CASE \/ Read(p, "perm", MayWrite(Author[req[p].m]), "channel")
             \/ Read(p, "channel", live, "members")
             \/ InsertMessage(p)
    <3>1. CASE Read(p, "perm", MayWrite(Author[req[p].m]), "channel")
      BY <1>2, <3>1
    <3>2. CASE Read(p, "channel", live, "members")
      BY <1>2, <3>2
    <3>3. CASE Read(p, "insert", live, "notify")
      BY <1>1, <3>3 DEF Read, Goto, channel, TypeOK
    <3>4. QED
      BY <2>1, <3>1, <3>2, <3>3 DEF InsertMessage
  <2>2. CASE pc[p] = "members" /\ Goto(p, "insert")
    BY <2>2 DEF Goto, channel, TypeOK
  <2>3. CASE PushRead(p)
    BY <2>3 DEF PushRead, channel, TypeOK
  <2>4. CASE PushWrite(p)
    BY <2>4 DEF PushWrite, Goto, channel, TypeOK
  <2>5. CASE CommitSend(p)
    BY <2>5 DEF CommitSend, Finish, channel, TypeOK
  <2>6. QED
    BY <1>4, <2>1, <2>2, <2>3, <2>4, <2>5 DEF Send
<1>5. ASSUME NEW p \in Proc, DeleteMessage(p)
      PROVE  InsertedLive' /\ MessagesHaveChannel'
  <2>1. CASE \/ Read(p, "find", messages[req[p].m] = "stored", "issuer")
             \/ Read(p, "issuer", MayDelete(req[p].by, req[p].m), "remove")
             \/ Rollback(p)
    BY <1>1, <1>2, <2>1
  <2>2. CASE messages' = [messages EXCEPT ![req[p].m] = "deleted"] /\ Finish(p) /\ UNCHANGED channel
    BY <2>2 DEF Finish, channel, TypeOK
  <2>3. QED
    BY <1>5, <2>1, <2>2 DEF DeleteMessage
<1>6. ASSUME NEW p \in Proc, UpdateUser(p)
      PROVE  InsertedLive' /\ MessagesHaveChannel'
  BY <1>6 DEF UpdateUser, Goto, Finish, channel, TypeOK
<1>7. CASE DeleteChannel
  BY <1>7 DEF DeleteChannel, TypeOK, process
<1>8. CASE UNCHANGED <<live, pc, messages>>
  BY <1>8
<1>9. QED
  BY <1>1, <1>3, <1>4, <1>5, <1>6, <1>7, <1>8
     DEF Next, Fail, ConsoleUpdate, ChangeMember, Expire, Subscribe, Load, vars, channel, process

(* No message outlives its channel: the transaction that has inserted one  *)
(* keeps the channel until it commits (logic/chat.rs, migrations/).        *)
THEOREM ChannelOutlives == Spec => []MessagesHaveChannel
<1>1. Init => InsertedLive /\ MessagesHaveChannel
  BY DEF Init, InsertedLive, MessagesHaveChannel
<1>2. QED
  BY <1>1, InitTypes, StepTypes, ChannelStep, PTL DEF Spec

-----------------------------------------------------------------------------
(* What a request carries for a user, from the moment it reads his list to *)
(* the moment the list is stored.                                          *)
Sent == {m \in Message : messages[m] \in {"stored", "deleted"}}
MayHold(u) == {m \in Sent : Author[m] # u}
Knows(u) == known[u] \cup underway[u]

(* Nothing that was rolled back, or sent by the user himself. *)
Honest(q) ==
  /\ Running(q, "send") => Author[req[q].m] \notin todo[q]
  /\ \A u \in User : at[q] = u =>
       Running(q, "send") /\ Author[req[q].m] # u /\ list[q] \subseteq MayHold(u) \cup {req[q].m}
  /\ \A u \in User : userLock[u] = q =>
       Running(q, "send") /\ Author[req[q].m] # u /\ pending[u] \subseteq MayHold(u) \cup {req[q].m}
  /\ pc[q] = "overwrite" => Running(q, "update") /\ list[q] \subseteq MayHold(req[q].by)
  /\ pc[q] = "idle" => todo[q] = {} /\ list[q] = {}

(* Nothing is missing but what was stored after it was read. *)
Current(q) ==
  /\ \A u \in User : at[q] = u => inbox[u] \ expired \subseteq list[q] \cup arrived[q]
  /\ \A u \in User : userLock[u] = q => inbox[u] \ expired \subseteq pending[u] \cup arrived[q]
  /\ pc[q] = "overwrite" => inbox[req[q].by] \subseteq list[q] \cup arrived[q]

(* The client knows it, or it was under way when the client loaded. *)
Covered(q) ==
  /\ \A u \in loaded : at[q] = u \/ Updating(q, u) => list[q] \subseteq Knows(u)
  /\ \A u \in loaded : userLock[u] = q => pending[u] \subseteq Knows(u)

Inboxes ==
  /\ \A u \in User : inbox[u] \subseteq MayHold(u)
  /\ \A u \in loaded : inbox[u] \subseteq Knows(u)

Carried == \A q \in Proc : Honest(q) /\ Current(q) /\ Covered(q)

(* What a step of p leaves alone: the other requests, what has been sent,  *)
(* and what clients know; and that the others are told what it stores.     *)
Others(p) ==
  \A q \in Proc \ {p} :
    /\ pc'[q] = pc[q] /\ req'[q] = req[q] /\ todo'[q] = todo[q]
    /\ list'[q] = list[q] /\ at'[q] = at[q]
    /\ \A u \in User : userLock'[u] = q => userLock[u] = q /\ pending'[u] = pending[u]

Told(p) ==
  \A q \in Proc \ {p} : pc[q] # "idle" =>
    arrived[q] \subseteq arrived'[q] /\ \A u \in User : inbox'[u] \subseteq inbox[u] \cup arrived'[q]

Grows ==
  /\ Sent \subseteq Sent'
  /\ \A u \in User : known[u] \subseteq known'[u]
  /\ loaded' = loaded /\ underway' = underway /\ expired' = expired

LEMMA OthersCarry ==
  ASSUME TypeOK, Carried, NEW p \in Proc, Others(p), Told(p), Grows
  PROVE  \A q \in Proc \ {p} : Honest(q)' /\ Current(q)' /\ Covered(q)'
<1> TAKE q \in Proc \ {p}
<1>1. /\ pc'[q] = pc[q] /\ req'[q] = req[q] /\ todo'[q] = todo[q]
      /\ list'[q] = list[q] /\ at'[q] = at[q]
      /\ \A u \in User : userLock'[u] = q => userLock[u] = q /\ pending'[u] = pending[u]
  BY DEF Others
<1>2. \A u : MayHold(u) \subseteq MayHold(u)'
  BY DEF MayHold, Grows
<1>3. \A u \in User : Knows(u) \subseteq Knows(u)'
  BY DEF Knows, Grows
<1>4. loaded' = loaded /\ loaded \subseteq User /\ expired' = expired
  BY ClientType DEF Grows, TypeOK
<1>5. Honest(q) /\ Current(q) /\ Covered(q)
  BY DEF Carried
<1>6. Honest(q)'
  BY <1>1, <1>2, <1>5 DEF Honest, Running
<1>7. Covered(q)'
  BY <1>1, <1>3, <1>4, <1>5 DEF Covered, Updating, Running
<1>8. Current(q)'
  <2>1. CASE pc[q] = "idle"
    <3>1. \A u \in User : at[q] # u /\ userLock[u] # q
      BY <1>5, <2>1 DEF Honest, Running
    <3>2. QED
      BY <1>1, <2>1, <3>1 DEF Current
  <2>2. CASE pc[q] # "idle"
    <3>1. /\ arrived[q] \subseteq arrived'[q]
          /\ \A u \in User : inbox'[u] \subseteq inbox[u] \cup arrived'[q]
      BY <2>2 DEF Told
    <3>2. pc[q] = "overwrite" => req[q].by \in User
      BY <1>5, RequestFields DEF Honest
    <3>3. QED
      BY <1>1, <1>4, <1>5, <3>1, <3>2 DEF Current
  <2>3. QED
    BY <2>1, <2>2
<1>9. QED
  BY <1>6, <1>7, <1>8

(* A request that has ended carries nothing. *)
LEMMA EndedCarries ==
  ASSUME TypeOK, NEW p \in Proc, Finish(p), loaded' = loaded
  PROVE  /\ Honest(p)' /\ Current(p)' /\ Covered(p)'
         /\ Others(p)
<1>1. /\ pc'[p] = "idle" /\ at'[p] = Free /\ todo'[p] = {} /\ list'[p] = {}
      /\ \A u \in User : userLock'[u] # p
  BY FreeIsNobody DEF Finish, TypeOK
<1>2. \A u \in User : at'[p] # u
  BY <1>1, FreeIsNobody
<1>3. Honest(p)'
  BY <1>1, <1>2 DEF Honest, Running
<1>4. Current(p)'
  BY <1>1, <1>2 DEF Current
<1>5. loaded' \subseteq User
  BY ClientType DEF TypeOK
<1>6. Covered(p)'
  BY <1>1, <1>5 DEF Covered
<1>7. Others(p)
  BY FreeIsNobody DEF Others, Finish, TypeOK
<1>8. QED
  BY <1>3, <1>4, <1>6, <1>7

LEMMA InboxesStay == TypeOK /\ Inboxes /\ Grows /\ inbox' = inbox => Inboxes'
<1> SUFFICES ASSUME TypeOK, Inboxes, Grows, inbox' = inbox PROVE Inboxes'
  OBVIOUS
<1>1. \A u : MayHold(u) \subseteq MayHold(u)'
  BY DEF MayHold, Grows
<1>2. loaded' = loaded /\ \A u \in loaded : Knows(u) \subseteq Knows(u)'
  BY ClientType DEF Knows, Grows, TypeOK
<1>3. QED
  BY <1>1, <1>2 DEF Inboxes

LEMMA RollbackCarried ==
  ASSUME TypeOK, Carried, Inboxes, NEW p \in Proc, Rollback(p)
  PROVE  Carried' /\ Inboxes'
<1>1. Finish(p) /\ UNCHANGED <<channel, messages, inbox, expired, made, client>>
  BY DEF Rollback
<1>2. Grows
  BY <1>1 DEF Grows, Sent, client
<1>3. Told(p)
  BY <1>1 DEF Told, Rollback, TypeOK
<1>4. Others(p) /\ Honest(p)' /\ Current(p)' /\ Covered(p)'
  BY <1>1, EndedCarries DEF client
<1>5. QED
  BY <1>1, <1>2, <1>3, <1>4, OthersCarry, InboxesStay DEF Carried

(* A statement that changes nothing but where the request stands, and      *)
(* perhaps whom it has not come to yet.                                    *)
LEMMA GotoCarried ==
  ASSUME TypeOK, Carried, Inboxes, NEW p \in Proc, pc[p] \notin {"idle", "overwrite"},
         NEW next, next \notin {"idle", "overwrite"}, Goto(p, next),
         UNCHANGED <<list, at, locks>>,
         NEW S, todo' = [todo EXCEPT ![p] = S],
         Running(p, "send") => Author[req[p].m] \notin S
  PROVE  Carried' /\ Inboxes'
<1>1. /\ pc'[p] = next /\ req' = req /\ todo'[p] = S
      /\ \A q \in Proc \ {p} : pc'[q] = pc[q] /\ todo'[q] = todo[q]
      /\ UNCHANGED <<inbox, expired, messages, known, loaded, underway, arrived, list, at,
                     userLock, pending>>
  BY DEF Goto, TypeOK, client, locks
<1>2. Grows /\ Told(p) /\ Others(p)
  BY <1>1 DEF Grows, Told, Others, Sent
<1>3. Honest(p) /\ Current(p) /\ Covered(p)
  BY DEF Carried
<1>4. \A op : Running(p, op)' <=> Running(p, op)
  BY <1>1 DEF Running
<1>5. \A u : MayHold(u)' = MayHold(u)
  BY <1>1 DEF MayHold, Sent
<1>6. Honest(p)'
  BY <1>1, <1>3, <1>4, <1>5 DEF Honest
<1>7. Current(p)'
  BY <1>1, <1>3 DEF Current
<1>8. Covered(p)'
  BY <1>1, <1>3, <1>4 DEF Covered, Updating, Knows
<1>9. QED
  BY <1>1, <1>2, <1>6, <1>7, <1>8, OthersCarry, InboxesStay DEF Carried

LEMMA ReadCarried ==
  ASSUME TypeOK, Carried, Inboxes, NEW p \in Proc,
         NEW stmt, stmt \notin {"idle", "overwrite"}, NEW ok,
         NEW next, next \notin {"idle", "overwrite"}, Read(p, stmt, ok, next)
  PROVE  Carried' /\ Inboxes'
<1>1. CASE Rollback(p)
  BY <1>1, RollbackCarried
<1>2. CASE Goto(p, next) /\ UNCHANGED <<todo, list, at, locks>>
  <2>1. todo' = [todo EXCEPT ![p] = todo[p]]
    BY <1>2 DEF TypeOK
  <2>2. Running(p, "send") => Author[req[p].m] \notin todo[p]
    BY DEF Carried, Honest
  <2>3. pc[p] = stmt
    BY DEF Read
  <2>4. QED
    BY <1>2, <2>1, <2>2, <2>3, GotoCarried
<1>3. QED
  BY <1>1, <1>2 DEF Read

LEMMA SubmitCarried ==
  ASSUME TypeOK, Carried, Inboxes, NEW p \in Proc, NEW r \in Requests, Submit(p, r)
  PROVE  Carried' /\ Inboxes'
<1>1. r \in Request /\ (r.op = "send" => r.m \in Message)
  BY RequestsType DEF Request, SendRequest, DeleteRequest, UpdateRequest
<1>2. PICK start \in {"channel", "perm", "remove", "find", "snapshot"} :
        pc' = [pc EXCEPT ![p] = start]
  BY <1>1 DEF Submit, Request, SendRequest, DeleteRequest, UpdateRequest
<1>3. /\ pc[p] = "idle" /\ pc'[p] = start /\ req'[p] = r
      /\ \A q \in Proc \ {p} : pc'[q] = pc[q] /\ req'[q] = req[q]
      /\ UNCHANGED <<inbox, expired, known, loaded, underway, arrived, list, at,
                     userLock, pending, todo>>
  BY <1>2 DEF Submit, TypeOK, client, locks
<1>4. Sent \subseteq Sent'
  BY <1>1 DEF Submit, Sent, TypeOK
<1>5. Grows /\ Told(p) /\ Others(p)
  BY <1>3, <1>4 DEF Grows, Told, Others
<1>6. Honest(p) /\ Current(p) /\ Covered(p)
  BY DEF Carried
<1>7. \A u \in User : at'[p] # u /\ userLock'[u] # p
  BY <1>3, <1>6 DEF Honest, Running
<1>8. list'[p] = {} /\ todo'[p] = {}
  BY <1>3, <1>6 DEF Honest
<1>9. Honest(p)' /\ Current(p)'
  BY <1>3, <1>7, <1>8 DEF Honest, Current, Running
<1>10. Covered(p)'
  BY <1>3, <1>7, <1>8, ClientType DEF Covered, TypeOK
<1>11. QED
  BY <1>3, <1>5, <1>9, <1>10, OthersCarry, InboxesStay DEF Carried

LEMMA PushReadCarried ==
  ASSUME TypeOK, Carried, Inboxes, NEW p \in Proc, Running(p, "send"), PushRead(p)
  PROVE  Carried' /\ Inboxes'
<1> DEFINE m == req[p].m
<1>1. PICK u \in todo[p] :
        /\ list' = [list EXCEPT ![p] = Extended(u, m)]
        /\ at' = [at EXCEPT ![p] = u]
        /\ todo' = [todo EXCEPT ![p] = @ \ {u}]
        /\ Publish(u, m)
  BY DEF PushRead
<1>2. u \in User /\ m \in Message /\ req[p].op = "send" /\ Author[m] \notin todo[p]
  BY <1>1, RequestFields DEF TypeOK, Carried, Honest
<1>3. /\ pc[p] = "notify" /\ pc' = [pc EXCEPT ![p] = "update"] /\ req' = req
      /\ UNCHANGED <<inbox, expired, messages, arrived, userLock, pending>>
  BY DEF PushRead, locks
<1>4. /\ loaded' = loaded /\ underway' = underway
      /\ \A v \in User : known[v] \subseteq known'[v]
      /\ u \in loaded => m \in known'[u]
  BY <1>1, <1>2 DEF Publish, TypeOK
<1>5. Grows /\ Told(p)
  BY <1>3, <1>4 DEF Grows, Told, Sent
<1>6. Others(p)
  BY <1>1, <1>3 DEF Others, TypeOK
<1>7. /\ pc'[p] = "update" /\ at'[p] = u /\ todo'[p] = todo[p] \ {u}
      /\ list'[p] = (inbox[u] \ expired) \cup {m}
  BY <1>1, <1>3 DEF TypeOK, Extended
<1>8. Honest(p) /\ Current(p) /\ Covered(p) /\ inbox[u] \subseteq MayHold(u)
  BY <1>2 DEF Carried, Inboxes
<1>9. \A v : MayHold(v)' = MayHold(v)
  BY <1>3 DEF MayHold, Sent
<1>10. \A op : Running(p, op)' <=> op = "send"
  BY <1>2, <1>3, <1>7 DEF Running
<1>11. Honest(p)'
  BY <1>1, <1>2, <1>3, <1>7, <1>8, <1>9, <1>10 DEF Honest
<1>12. Current(p)'
  BY <1>3, <1>7, <1>8 DEF Current
<1>13. \A v \in User : Knows(v) \subseteq Knows(v)'
  BY <1>4 DEF Knows
<1>14. \A v \in loaded : at'[p] = v => list'[p] \subseteq Knows(v)'
  BY <1>4, <1>7, <1>13, <1>2 DEF Inboxes, Knows
<1>15. Covered(p)'
  BY <1>3, <1>4, <1>8, <1>10, <1>13, <1>14, ClientType DEF Covered, Updating, TypeOK
<1>16. QED
  BY <1>3, <1>5, <1>6, <1>11, <1>12, <1>15, OthersCarry, InboxesStay DEF Carried

LEMMA PushWriteCarried ==
  ASSUME TypeOK, Carried, Inboxes, NEW p \in Proc, Running(p, "send"), PushWrite(p)
  PROVE  Carried' /\ Inboxes'
<1>1. PICK u : u = at[p]
  OBVIOUS
<1>2. u \in User
  BY <1>1 DEF PushWrite, TypeOK
<1>3. /\ pc[p] = "update" /\ pc' = [pc EXCEPT ![p] = "notify"] /\ userLock[u] = Free
      /\ at' = [at EXCEPT ![p] = Free] /\ list' = [list EXCEPT ![p] = {}]
      /\ userLock' = [userLock EXCEPT ![u] = p]
      /\ pending' = [pending EXCEPT ![u] = list[p]]
      /\ UNCHANGED <<inbox, expired, messages, arrived, req, known, loaded, underway, todo>>
  BY <1>1 DEF PushWrite, Goto, client
<1>4. Grows /\ Told(p)
  BY <1>3 DEF Grows, Told, Sent
<1>5. /\ pc'[p] = "notify" /\ at'[p] = Free /\ list'[p] = {}
      /\ \A v \in User : userLock'[v] = p => userLock[v] = p \/ v = u
      /\ \A v \in User \ {u} : pending'[v] = pending[v]
      /\ pending'[u] = list[p]
  BY <1>2, <1>3 DEF TypeOK
<1>6. Others(p)
  BY <1>2, <1>3, <1>5 DEF Others, TypeOK
<1>7. Honest(p) /\ Current(p) /\ Covered(p)
  BY DEF Carried
<1>8. \A v : MayHold(v)' = MayHold(v) /\ Knows(v)' = Knows(v)
  BY <1>3 DEF MayHold, Sent, Knows
<1>9. \A op : Running(p, op)' <=> Running(p, op)
  BY <1>3, <1>5 DEF Running
<1>10. \A v \in User : at'[p] # v
  BY <1>5, FreeIsNobody
<1>11. Honest(p)'
  BY <1>1, <1>2, <1>3, <1>5, <1>7, <1>8, <1>9, <1>10 DEF Honest
<1>12. Current(p)'
  BY <1>1, <1>2, <1>3, <1>5, <1>7, <1>10 DEF Current
<1>13. Covered(p)'
  BY <1>1, <1>2, <1>3, <1>5, <1>7, <1>8, ClientType DEF Covered, TypeOK
<1>14. QED
  BY <1>3, <1>4, <1>6, <1>11, <1>12, <1>13, OthersCarry, InboxesStay DEF Carried

LEMMA StoringTells ==
  ASSUME TypeOK, NEW p \in Proc, arrived' = Arrivals(p), inbox' \in [User -> SUBSET Message]
  PROVE  Told(p)
BY DEF Told, Arrivals, TypeOK

LEMMA CommitSendCarried ==
  ASSUME TypeOK, Carried, Inboxes, NEW p \in Proc, Running(p, "send"), CommitSend(p)
  PROVE  Carried' /\ Inboxes'
<1> DEFINE m == req[p].m
<1>1. m \in Message
  BY RequestFields
<1>2. /\ Finish(p) /\ arrived' = Arrivals(p)
      /\ inbox' = [u \in User |-> IF userLock[u] = p THEN pending[u] ELSE inbox[u]]
      /\ messages' = [messages EXCEPT ![m] = "stored"]
      /\ UNCHANGED <<expired, known, loaded, underway>>
  BY DEF CommitSend, Stored, client
<1>3. inbox' \in [User -> SUBSET Message]
  BY <1>2 DEF TypeOK
<1>4. Sent \cup {m} \subseteq Sent'
  BY <1>1, <1>2 DEF Sent, TypeOK
<1>5. Grows /\ Told(p)
  BY <1>2, <1>3, <1>4, StoringTells DEF Grows
<1>6. Others(p) /\ Honest(p)' /\ Current(p)' /\ Covered(p)'
  BY <1>2, EndedCarries
<1>7. Honest(p) /\ Covered(p)
  BY DEF Carried
<1>8. ASSUME NEW u \in User PROVE inbox'[u] \subseteq MayHold(u)'
  <2>1. MayHold(u) \subseteq MayHold(u)'
    BY <1>4 DEF MayHold
  <2>2. CASE userLock[u] = p
    <3>1. Author[m] # u /\ pending[u] \subseteq MayHold(u) \cup {m}
      BY <1>7, <2>2 DEF Honest
    <3>2. m \in MayHold(u)'
      BY <1>4, <3>1 DEF MayHold
    <3>3. QED
      BY <1>2, <2>1, <2>2, <3>1, <3>2
  <2>3. CASE userLock[u] # p
    BY <1>2, <2>1, <2>3 DEF Inboxes
  <2>4. QED
    BY <2>2, <2>3
<1>9. ASSUME NEW u \in loaded PROVE inbox'[u] \subseteq Knows(u)'
  <2>1. u \in User /\ Knows(u)' = Knows(u)
    BY <1>2, ClientType DEF Knows, TypeOK
  <2>2. QED
    BY <1>2, <1>7, <2>1 DEF Covered, Inboxes
<1>10. Inboxes'
  BY <1>2, <1>8, <1>9 DEF Inboxes
<1>11. QED
  BY <1>5, <1>6, <1>10, OthersCarry DEF Carried

LEMMA SendCarried ==
  ASSUME TypeOK, Carried, Inboxes, NEW p \in Proc, Send(p)
  PROVE  Carried' /\ Inboxes'
<1>1. Running(p, "send")
  BY DEF Send
<1>2. CASE Read(p, "perm", MayWrite(Author[req[p].m]), "channel")
  BY <1>2, ReadCarried
<1>3. CASE Read(p, "channel", live, "members")
  BY <1>3, ReadCarried
<1>4. CASE InsertMessage(p)
  BY <1>4, ReadCarried DEF InsertMessage
<1>5. CASE /\ pc[p] = "members"
           /\ todo' = [todo EXCEPT ![p] = Recipients(req[p].m)]
           /\ Goto(p, "insert")
           /\ UNCHANGED <<list, at, locks>>
  <2>1. Author[req[p].m] \notin Recipients(req[p].m)
    BY DEF Recipients
  <2>2. QED
    BY <1>5, <2>1, GotoCarried
<1>6. QED
  BY <1>1, <1>2, <1>3, <1>4, <1>5, PushReadCarried, PushWriteCarried, CommitSendCarried DEF Send

LEMMA DeleteCarried ==
  ASSUME TypeOK, Carried, Inboxes, NEW p \in Proc, DeleteMessage(p)
  PROVE  Carried' /\ Inboxes'
<1> DEFINE m == req[p].m
<1>1. m \in Message
  BY RequestFields DEF DeleteMessage
<1>2. CASE Read(p, "find", messages[m] = "stored", "issuer")
  BY <1>2, ReadCarried
<1>3. CASE Read(p, "issuer", MayDelete(req[p].by, m), "remove")
  BY <1>3, ReadCarried
<1>4. CASE /\ Finish(p)
           /\ messages' = [messages EXCEPT ![m] = "deleted"]
           /\ arrived' = [arrived EXCEPT ![p] = {}]
           /\ UNCHANGED <<channel, inbox, expired, made, client>>
  <2>1. Grows
    BY <1>1, <1>4 DEF Grows, Sent, TypeOK, client
  <2>2. Told(p)
    BY <1>4 DEF Told, TypeOK
  <2>3. Others(p) /\ Honest(p)' /\ Current(p)' /\ Covered(p)'
    BY <1>4, EndedCarries DEF client
  <2>4. QED
    BY <1>4, <2>1, <2>2, <2>3, OthersCarry, InboxesStay DEF Carried
<1>5. CASE Rollback(p)
  BY <1>5, RollbackCarried
<1>6. QED
  BY <1>2, <1>3, <1>4, <1>5 DEF DeleteMessage

LEMMA UpdateCarried ==
  ASSUME TypeOK, Carried, Inboxes, NEW p \in Proc, UpdateUser(p)
  PROVE  Carried' /\ Inboxes'
<1>1. PICK u : u = req[p].by
  OBVIOUS
<1>2. u \in User /\ req[p].op = "update" /\ pc[p] # "idle"
  BY <1>1, RequestFields DEF UpdateUser, Running
<1>3. Honest(p) /\ Current(p) /\ Covered(p) /\ \A v : ~(at[p] = v /\ v \in User)
  BY <1>2 DEF Carried, Honest, Running
<1>4. CASE /\ pc[p] = "snapshot"
           /\ list' = [list EXCEPT ![p] = inbox[u]]
           /\ Goto(p, "overwrite")
           /\ UNCHANGED <<todo, at, locks>>
  <2>1. /\ pc'[p] = "overwrite" /\ list'[p] = inbox[u]
        /\ \A q \in Proc \ {p} : pc'[q] = pc[q] /\ list'[q] = list[q]
        /\ UNCHANGED <<req, inbox, expired, messages, known, loaded, underway, arrived, at, todo,
                       userLock, pending>>
    BY <1>4 DEF Goto, TypeOK, client, locks
  <2>2. Grows /\ Told(p) /\ Others(p)
    BY <2>1 DEF Grows, Told, Others, Sent
  <2>3. \A op : Running(p, op)' <=> Running(p, op)
    BY <1>2, <2>1 DEF Running
  <2>4. \A v : MayHold(v)' = MayHold(v) /\ Knows(v)' = Knows(v)
    BY <2>1 DEF MayHold, Sent, Knows
  <2>5. Honest(p)'
    BY <1>1, <1>2, <1>3, <2>1, <2>3, <2>4 DEF Honest, Inboxes, Running
  <2>6. Current(p)'
    BY <1>1, <1>3, <2>1 DEF Current
  <2>7. Covered(p)'
    BY <1>1, <1>3, <2>1, <2>3, <2>4, ClientType DEF Covered, Inboxes, Updating, TypeOK
  <2>8. QED
    BY <2>1, <2>2, <2>5, <2>6, <2>7, OthersCarry, InboxesStay DEF Carried
<1>5. CASE /\ pc[p] = "overwrite"
           /\ inbox' = [inbox EXCEPT ![u] = list[p]]
           /\ Finish(p)
           /\ arrived' = Arrivals(p)
           /\ UNCHANGED <<channel, messages, expired, made, client>>
  <2>1. inbox' \in [User -> SUBSET Message]
    BY <1>2, <1>5 DEF TypeOK
  <2>2. Grows /\ Told(p)
    BY <1>5, <2>1, StoringTells DEF Grows, Sent, client
  <2>3. Others(p) /\ Honest(p)' /\ Current(p)' /\ Covered(p)'
    BY <1>5, EndedCarries DEF client
  <2>4. \A v : MayHold(v)' = MayHold(v) /\ Knows(v)' = Knows(v)
    BY <1>5 DEF MayHold, Sent, Knows, client
  <2>5. list[p] \subseteq MayHold(u)
    BY <1>1, <1>3, <1>5 DEF Honest
  <2>6. u \in loaded => list[p] \subseteq Knows(u)
    BY <1>1, <1>2, <1>3 DEF Covered, Updating, Running
  <2>7. \A v \in User : inbox'[v] = IF v = u THEN list[p] ELSE inbox[v]
    BY <1>2, <1>5 DEF TypeOK
  <2>8. loaded' = loaded /\ loaded \subseteq User
    BY <1>5, ClientType DEF client, TypeOK
  <2>9. Inboxes'
    BY <2>4, <2>5, <2>6, <2>7, <2>8 DEF Inboxes
  <2>10. QED
    BY <2>2, <2>3, <2>9, OthersCarry DEF Carried
<1>6. QED
  BY <1>1, <1>4, <1>5 DEF UpdateUser

LEMMA EnvironmentCarried ==
  ASSUME TypeOK, Carried, Inboxes,
         \/ \E u \in User : ConsoleUpdate(u)
         \/ \E c \in Changes : ChangeMember(c[1], c[2])
         \/ DeleteChannel
         \/ \E m \in Message : Expire(m)
         \/ \E u \in Client : Subscribe(u)
         \/ \E u \in Client : Load(u)
         \/ UNCHANGED vars
  PROVE  Carried' /\ Inboxes'
<1>1. ASSUME UNCHANGED <<process, locks, arrived, loaded, known, underway>>,
             Sent' = Sent, expired \subseteq expired',
             \A u \in User : inbox'[u] \subseteq inbox[u]
      PROVE  Carried' /\ Inboxes'
  <2>1. UNCHANGED <<pc, req, todo, list, at, userLock, pending, arrived, loaded, known, underway>>
    BY <1>1 DEF process, locks
  <2>2. \A u : MayHold(u)' = MayHold(u) /\ Knows(u)' = Knows(u)
    BY <1>1 DEF MayHold, Knows
  <2>3. loaded \subseteq User
    BY ClientType DEF TypeOK
  <2>4. Inboxes'
    BY <1>1, <2>1, <2>2, <2>3 DEF Inboxes
  <2>5. ASSUME NEW q \in Proc PROVE Honest(q)' /\ Current(q)' /\ Covered(q)'
    <3>1. Honest(q) /\ Current(q) /\ Covered(q)
      BY DEF Carried
    <3>2. pc[q] = "overwrite" => req[q].by \in User
      BY <3>1, RequestFields DEF Honest
    <3>3. Honest(q)'
      BY <2>1, <2>2, <3>1 DEF Honest, Running
    <3>4. Current(q)'
      BY <1>1, <2>1, <3>1, <3>2 DEF Current
    <3>5. Covered(q)'
      BY <2>1, <2>2, <3>1 DEF Covered, Updating, Running
    <3>6. QED
      BY <3>3, <3>4, <3>5
  <2>6. QED
    BY <2>4, <2>5 DEF Carried
<1>2. CASE \E u \in User : ConsoleUpdate(u)
  BY <1>1, <1>2 DEF ConsoleUpdate, Sent, client, TypeOK
<1>3. CASE \E c \in Changes : ChangeMember(c[1], c[2])
  BY <1>1, <1>3 DEF ChangeMember, Sent, client
<1>4. CASE DeleteChannel
  <2>1. Sent' = Sent
    BY <1>4 DEF DeleteChannel, Sent, TypeOK
  <2>2. QED
    BY <1>1, <1>4, <2>1 DEF DeleteChannel, client
<1>5. CASE \E m \in Message : Expire(m)
  BY <1>1, <1>5 DEF Expire, Sent, client
<1>6. CASE \E u \in Client : Subscribe(u)
  BY <1>1, <1>6 DEF Subscribe, Sent
<1>7. CASE UNCHANGED vars
  BY <1>1, <1>7 DEF vars, Sent, client
<1>8. ASSUME NEW u \in Client, Load(u) PROVE Carried' /\ Inboxes'
  <2>1. u \in User /\ loaded \subseteq User
    BY ClientType DEF TypeOK
  <2>2. /\ loaded' = loaded \cup {u}
        /\ known' = [known EXCEPT ![u] = @ \cup inbox[u]]
        /\ underway' = [underway EXCEPT ![u] = CarriedFor(u)]
        /\ UNCHANGED <<pc, req, todo, list, at, userLock, pending, arrived, inbox, expired, messages>>
    BY <1>8 DEF Load, process, locks
  <2>3. \A v : MayHold(v)' = MayHold(v)
    BY <2>2 DEF MayHold, Sent
  <2>4. \A v \in loaded \ {u} : Knows(v)' = Knows(v)
    BY <2>1, <2>2 DEF Knows, TypeOK
  <2>5. Knows(u)' = known[u] \cup inbox[u] \cup CarriedFor(u)
    BY <2>1, <2>2 DEF Knows, TypeOK
  <2>6. Inboxes'
    BY <2>2, <2>3, <2>4, <2>5 DEF Inboxes
  <2>7. ASSUME NEW q \in Proc PROVE Honest(q)' /\ Current(q)' /\ Covered(q)'
    <3>1. Honest(q) /\ Current(q) /\ Covered(q)
      BY DEF Carried
    <3>2. Honest(q)' /\ Current(q)'
      BY <2>2, <2>3, <3>1 DEF Honest, Current, Running
    <3>3. /\ at[q] = u \/ Updating(q, u) => list[q] \subseteq CarriedFor(u)
          /\ pending[u] \subseteq CarriedFor(u)
      BY DEF CarriedFor
    <3>4. \A v : Updating(q, v)' <=> Updating(q, v)
      BY <2>2 DEF Updating, Running
    <3>5. Covered(q)'
      BY <2>2, <2>4, <2>5, <3>1, <3>3, <3>4 DEF Covered
    <3>6. QED
      BY <3>2, <3>5
  <2>8. QED
    BY <2>6, <2>7 DEF Carried
<1>9. QED
  BY <1>2, <1>3, <1>4, <1>5, <1>6, <1>7, <1>8

LEMMA InitCarried == Init => Carried /\ Inboxes
BY FreeIsNobody DEF Init, Carried, Inboxes, Honest, Current, Covered, Running, Updating

LEMMA StepCarried == TypeOK /\ Carried /\ Inboxes /\ [Next]_vars => Carried' /\ Inboxes'
BY SubmitCarried, SendCarried, DeleteCarried, UpdateCarried, RollbackCarried, EnvironmentCarried
   DEF Next, Fail

LEMMA CarriedAlways == Spec => [](TypeOK /\ Carried /\ Inboxes)
BY InitTypes, InitCarried, StepTypes, StepCarried, PTL DEF Spec

(* A stored notification is about a message that was stored, and not by    *)
(* its recipient, although the list of a user is read by some requests,    *)
(* extended by others and written back (logic/user.rs:348-371).            *)
THEOREM StoredAreSent == Spec => []StoredWasSent
<1>1. TypeOK /\ Carried /\ Inboxes => StoredWasSent
  BY DEF Inboxes, MayHold, Sent, StoredWasSent
<1>2. QED
  BY <1>1, CarriedAlways, PTL

(* A client that subscribes and then loads misses nothing but what was     *)
(* under way when it loaded (logic/user.rs:365).                           *)
THEOREM ClientsMissOnlyUnderway == Spec => []ClientMissesOnlyUnderway
<1>1. TypeOK /\ Carried /\ Inboxes => ClientMissesOnlyUnderway
  BY DEF Inboxes, Knows, ClientMissesOnlyUnderway
<1>2. QED
  BY <1>1, CarriedAlways, PTL

Excused(u, m) ==
  \/ m \in expired
  \/ ConsoleUpdate(u)
  \/ \E p \in Proc : pc[p] # "idle" /\ pc'[p] = "idle" /\ m \in arrived[p]

(* A notification is lost from a stored list by the end of its time, by    *)
(* the console, or by a request that was under way when it was stored and  *)
(* then wrote back what it had read (logic/user.rs:348,                    *)
(* services/user.rs:217).                                                  *)
THEOREM LossesOverlap == Spec => LostOnlyByOverlap
<1>1. ASSUME TypeOK, Carried, [Next]_vars, NEW u \in User, NEW m \in inbox[u] \ inbox'[u]
      PROVE  Excused(u, m)
  <2>1. ASSUME inbox' = inbox PROVE FALSE
    BY <1>1, <2>1
  <2>2. ASSUME NEW p \in Proc, Rollback(p) PROVE FALSE
    BY <2>1, <2>2 DEF Rollback
  <2>3. ASSUME NEW p \in Proc, NEW stmt, NEW ok, NEW next, Read(p, stmt, ok, next) PROVE FALSE
    BY <2>1, <2>2, <2>3 DEF Read, Goto
  <2>4. ASSUME NEW p \in Proc, Send(p) PROVE Excused(u, m)
    <3>1. CASE CommitSend(p)
      <4>1. /\ pc[p] = "notify" /\ pc'[p] = "idle"
            /\ inbox'[u] = IF userLock[u] = p THEN pending[u] ELSE inbox[u]
        BY <1>1, <3>1 DEF CommitSend, Stored, Finish, TypeOK
      <4>2. userLock[u] = p /\ m \notin pending[u]
        BY <1>1, <4>1
      <4>3. inbox[u] \ expired \subseteq pending[u] \cup arrived[p]
        BY <1>1, <4>2 DEF Carried, Current
      <4>4. QED
        BY <1>1, <4>1, <4>2, <4>3 DEF Excused
    <3>2. CASE PushRead(p) \/ PushWrite(p) \/ Goto(p, "insert")
      BY <2>1, <3>2 DEF PushRead, PushWrite, Goto
    <3>3. CASE \/ Read(p, "perm", MayWrite(Author[req[p].m]), "channel")
               \/ Read(p, "channel", live, "members")
               \/ Read(p, "insert", live, "notify")
      BY <2>3, <3>3
    <3>4. QED
      BY <2>4, <3>1, <3>2, <3>3 DEF Send, InsertMessage
  <2>5. ASSUME NEW p \in Proc, DeleteMessage(p) PROVE FALSE
    BY <2>1, <2>2, <2>3, <2>5 DEF DeleteMessage
  <2>6. ASSUME NEW p \in Proc, UpdateUser(p) PROVE Excused(u, m)
    <3>1. PICK v : v = req[p].by
      OBVIOUS
    <3>2. CASE pc[p] = "overwrite"
      <4>1. v \in User
        BY <1>1, <2>6, <3>1, RequestFields DEF UpdateUser
      <4>2. pc'[p] = "idle" /\ inbox' = [inbox EXCEPT ![v] = list[p]]
        BY <1>1, <2>6, <3>1, <3>2 DEF UpdateUser, Finish, TypeOK
      <4>3. u = v /\ m \notin list[p]
        BY <1>1, <4>1, <4>2 DEF TypeOK
      <4>4. inbox[v] \subseteq list[p] \cup arrived[p]
        BY <1>1, <3>1, <3>2 DEF Carried, Current
      <4>5. QED
        BY <1>1, <3>2, <4>2, <4>3, <4>4 DEF Excused
    <3>3. CASE pc[p] # "overwrite"
      BY <2>1, <2>6, <3>3 DEF UpdateUser, Goto
    <3>4. QED
      BY <3>2, <3>3
  <2>7. ASSUME NEW v \in User, ConsoleUpdate(v) PROVE Excused(u, m)
    <3>1. v = u
      BY <1>1, <2>7 DEF ConsoleUpdate, TypeOK
    <3>2. QED
      BY <2>7, <3>1 DEF Excused
  <2>8. QED
    BY <1>1, <2>1, <2>2, <2>4, <2>5, <2>6, <2>7
       DEF Next, Fail, Submit, ChangeMember, DeleteChannel, Expire, Subscribe, Load, vars
<1>2. TypeOK /\ Carried /\ Inboxes /\ [Next]_vars =>
        [\A u \in User : \A m \in inbox[u] \ inbox'[u] :
           \/ m \in expired
           \/ ConsoleUpdate(u)
           \/ \E p \in Proc : pc[p] # "idle" /\ pc'[p] = "idle" /\ m \in arrived[p]]_vars
  BY <1>1 DEF Excused
<1>3. QED
  BY <1>2, CarriedAlways, PTL DEF Spec, LostOnlyByOverlap

-----------------------------------------------------------------------------
(* What a request has read of the members of the channel still holds,      *)
(* unless they have changed since it started.                              *)
StatementsOf(op) ==
  CASE op = "send"   -> {"perm", "channel", "members", "insert", "notify", "update"}
    [] op = "delete" -> {"find", "issuer", "remove"}
    [] op = "update" -> {"snapshot", "overwrite"}

Placed(q) ==
  /\ Running(q, "send") => pc[q] \in StatementsOf("send") /\ messages[req[q].m] = "taken"
  /\ Running(q, "delete") => pc[q] \in StatementsOf("delete")
  /\ Running(q, "update") => pc[q] \in StatementsOf("update")

Checked(q) ==
  /\ Running(q, "send") /\ pc[q] # "perm" =>
       req[q].console \/ moved[q] \/ MayWrite(Author[req[q].m])
  /\ pc[q] = "remove" => req[q].console \/ moved[q] \/ MayDelete(req[q].by, req[q].m)

(* Where the recipients of a message are: still to come, being written to, *)
(* or written to.                                                          *)
Addressed(q) ==
  /\ pc[q] \in {"idle", "perm", "channel", "members"} => todo[q] = {}
  /\ pc[q] \notin {"notify", "update"} => \A u \in User : userLock[u] # q
  /\ \A u \in User :
       /\ at[q] = u => req[q].m \in list[q]
       /\ userLock[u] = q => req[q].m \in pending[u]
       /\ pc[q] \in {"insert", "notify", "update"} /\ ~moved[q] =>
            (u \in Recipients(req[q].m) <=> u \in todo[q] \/ at[q] = u \/ userLock[u] = q)

Informed == \A q \in Proc : Placed(q) /\ Checked(q) /\ Addressed(q)

Distinct ==
  \A p, q \in Proc :
    p # q /\ Running(p, "send") /\ Running(q, "send") => req[p].m # req[q].m

(* A step of p that the other requests do not notice. *)
Steady(p) ==
  /\ perm' = perm
  /\ \A q \in Proc \ {p} :
       /\ pc'[q] = pc[q] /\ req'[q] = req[q] /\ todo'[q] = todo[q]
       /\ list'[q] = list[q] /\ at'[q] = at[q] /\ moved'[q] = moved[q]
       /\ Running(q, "send") => messages'[req[q].m] = messages[req[q].m]
       /\ \A u \in User :
            (userLock'[u] = q <=> userLock[u] = q) /\ (userLock[u] = q => pending'[u] = pending[u])

LEMMA SteadyInforms ==
  ASSUME Informed, NEW p \in Proc, Steady(p)
  PROVE  \A q \in Proc \ {p} : Placed(q)' /\ Checked(q)' /\ Addressed(q)'
<1> TAKE q \in Proc \ {p}
<1>1. Placed(q) /\ Checked(q) /\ Addressed(q)
  BY DEF Informed
<1>2. /\ pc'[q] = pc[q] /\ req'[q] = req[q] /\ todo'[q] = todo[q]
      /\ list'[q] = list[q] /\ at'[q] = at[q] /\ moved'[q] = moved[q] /\ perm' = perm
      /\ Running(q, "send") => messages'[req[q].m] = messages[req[q].m]
  BY DEF Steady
<1>3. \A op : Running(q, op)' <=> Running(q, op)
  BY <1>2 DEF Running
<1>4. /\ \A u : MayWrite(u)' <=> MayWrite(u)
      /\ \A u, m : MayDelete(u, m)' <=> MayDelete(u, m)
      /\ \A m : Recipients(m)' = Recipients(m)
  BY <1>2 DEF MayWrite, MayDelete, Recipients, Members
<1>5. Placed(q)'
  BY <1>1, <1>2, <1>3 DEF Placed
<1>6. Checked(q)'
  BY <1>1, <1>2, <1>3, <1>4 DEF Checked
<1>7. Addressed(q)'
  BY <1>1, <1>2, <1>4 DEF Addressed, Steady
<1>8. QED
  BY <1>5, <1>6, <1>7

(* A request that goes on keeps what it is about; one that ends is about   *)
(* nothing.                                                                *)
LEMMA SteadyDistinct ==
  ASSUME Distinct, NEW p \in Proc, Steady(p),
         Running(p, "send")' => Running(p, "send") /\ req'[p] = req[p]
  PROVE  Distinct'
<1> SUFFICES ASSUME NEW q \in Proc, NEW r \in Proc, q # r, Running(q, "send")', Running(r, "send")'
             PROVE  req'[q].m # req'[r].m
  BY DEF Distinct
<1>1. \A s \in {q, r} : Running(s, "send") /\ req'[s] = req[s]
  BY DEF Steady, Running
<1>2. QED
  BY <1>1 DEF Distinct

LEMMA EndedInforms ==
  ASSUME TypeOK, Informed, Distinct, NEW p \in Proc, Finish(p), perm' = perm,
         \A q \in Proc \ {p} : moved'[q] = moved[q],
         \A q \in Proc \ {p} : Running(q, "send") => messages'[req[q].m] = messages[req[q].m]
  PROVE  Informed' /\ Distinct'
<1>1. /\ pc'[p] = "idle" /\ at'[p] = Free /\ todo'[p] = {}
      /\ \A u \in User : userLock'[u] # p
  BY FreeIsNobody DEF Finish, TypeOK
<1>2. \A op : ~Running(p, op)'
  BY <1>1 DEF Running
<1>3. Placed(p)' /\ Checked(p)'
  BY <1>1, <1>2 DEF Placed, Checked
<1>4. Addressed(p)'
  BY <1>1, FreeIsNobody DEF Addressed
<1>5. \A q \in Proc \ {p} : /\ pc'[q] = pc[q] /\ req'[q] = req[q] /\ todo'[q] = todo[q]
                            /\ list'[q] = list[q] /\ at'[q] = at[q]
  BY DEF Finish, TypeOK
<1>6. \A q \in Proc \ {p} : \A u \in User :
        (userLock'[u] = q <=> userLock[u] = q) /\ (userLock[u] = q => pending'[u] = pending[u])
  BY FreeIsNobody DEF Finish, TypeOK
<1>7. Steady(p)
  BY <1>5, <1>6 DEF Steady
<1>8. Distinct'
  BY <1>2, <1>7, SteadyDistinct
<1>9. QED
  BY <1>3, <1>4, <1>7, <1>8, SteadyInforms DEF Informed

LEMMA RollbackInforms ==
  ASSUME TypeOK, Informed, Distinct, NEW p \in Proc, Rollback(p)
  PROVE  Informed' /\ Distinct'
<1>1. /\ Finish(p) /\ perm' = perm /\ messages' = messages
      /\ \A q \in Proc \ {p} : moved'[q] = moved[q]
  BY DEF Rollback, channel, TypeOK
<1>2. QED
  BY <1>1, EndedInforms

(* A statement in the middle that writes to no row. *)
LEMMA GotoInforms ==
  ASSUME TypeOK, Informed, Distinct, NEW p \in Proc, NEW next, Goto(p, next), pc[p] # "idle",
         UNCHANGED <<at, locks>>,
         \A q \in Proc \ {p} : todo'[q] = todo[q] /\ list'[q] = list[q],
         Placed(p)', Checked(p)', Addressed(p)'
  PROVE  Informed' /\ Distinct'
<1>1. Steady(p)
  BY DEF Steady, Goto, TypeOK, channel, locks
<1>2. Running(p, "send")' => Running(p, "send") /\ req'[p] = req[p]
  BY DEF Running, Goto
<1>3. QED
  BY <1>1, <1>2, SteadyInforms, SteadyDistinct DEF Informed

(* The statements that only check something. *)
Checks ==
  {<<"send", "perm", "channel">>, <<"send", "channel", "members">>, <<"send", "insert", "notify">>,
   <<"delete", "find", "issuer">>, <<"delete", "issuer", "remove">>}

LEMMA ReadInforms ==
  ASSUME TypeOK, Informed, Distinct, NEW p \in Proc, NEW op, NEW stmt, NEW next,
         <<op, stmt, next>> \in Checks, Running(p, op),
         NEW ok, Read(p, stmt, ok, next),
         stmt = "perm" /\ ok => MayWrite(Author[req[p].m]),
         stmt = "issuer" /\ ok => MayDelete(req[p].by, req[p].m)
  PROVE  Informed' /\ Distinct'
<1>1. CASE Rollback(p)
  BY <1>1, RollbackInforms
<1>2. CASE ok /\ Goto(p, next) /\ UNCHANGED <<todo, list, at, locks>>
  <2>1. /\ pc[p] = stmt /\ pc'[p] = next /\ perm' = perm /\ messages' = messages
        /\ UNCHANGED <<req, moved, todo, list, at, userLock, pending>>
    BY <1>2 DEF Read, Goto, TypeOK, channel, locks
  <2>2. Placed(p) /\ Checked(p) /\ Addressed(p)
    BY DEF Informed
  <2>3. req[p].op = op /\ pc[p] # "idle" /\ \A o : Running(p, o) <=> o = op
    BY DEF Running
  <2>4. next # "idle" /\ \A o : Running(p, o)' <=> o = op
    BY <2>1, <2>3 DEF Running, Checks
  <2>5. Placed(p)'
    BY <2>1, <2>2, <2>3, <2>4 DEF Placed, StatementsOf, Checks
  <2>6. Checked(p)'
    <3>1. /\ \A u : MayWrite(u)' <=> MayWrite(u)
          /\ \A u, m : MayDelete(u, m)' <=> MayDelete(u, m)
      BY <2>1 DEF MayWrite, MayDelete
    <3>2. QED
      BY <1>2, <2>1, <2>2, <2>3, <2>4, <3>1 DEF Checked, Checks
  <2>7. Addressed(p)'
    <3>1. \A m : Recipients(m)' = Recipients(m)
      BY <2>1 DEF Recipients, Members
    <3>2. /\ next \in {"idle", "perm", "channel", "members"} => stmt \in {"perm", "channel"}
          /\ stmt \notin {"notify", "update"}
          /\ next \in {"insert", "notify", "update"} => stmt = "insert"
      BY DEF Checks
    <3>3. QED
      BY <2>1, <2>2, <3>1, <3>2 DEF Addressed
  <2>8. QED
    BY <1>2, <2>1, <2>3, <2>5, <2>6, <2>7, GotoInforms
<1>3. QED
  BY <1>1, <1>2 DEF Read

LEMMA SubmitInforms ==
  ASSUME TypeOK, Informed, Distinct, NEW p \in Proc, NEW r \in Requests, Submit(p, r)
  PROVE  Informed' /\ Distinct'
<1>1. r \in Request
  BY RequestsType
<1>2. /\ pc[p] = "idle" /\ req' = [req EXCEPT ![p] = r] /\ todo[p] = {} /\ at[p] = Free
      /\ UNCHANGED <<perm, todo, list, at, userLock, pending, moved>>
  BY DEF Submit, channel, locks, TypeOK, Informed, Addressed
<1>3. PICK start : /\ pc' = [pc EXCEPT ![p] = start]
                   /\ start = CASE r.op = "send" -> IF r.console THEN "channel" ELSE "perm"
                                [] r.op = "delete" -> IF r.console THEN "remove" ELSE "find"
                                [] r.op = "update" -> "snapshot"
  BY DEF Submit
<1>4. /\ start \in {"channel", "perm", "remove", "find", "snapshot"}
      /\ start \in StatementsOf(r.op)
      /\ start \in {"channel", "remove"} => r.console
      /\ r.op \in {"send", "delete", "update"}
      /\ r.op = "send" => r.m \in Message /\ messages[r.m] = "unused"
  BY <1>1, <1>3 DEF Submit, Request, SendRequest, DeleteRequest, UpdateRequest, StatementsOf
<1>5. pc'[p] = start /\ req'[p] = r /\ \A op : Running(p, op)' <=> r.op = op
  BY <1>2, <1>3, <1>4 DEF TypeOK, Running
<1>6. \A q \in Proc \ {p} : Running(q, "send") => messages[req[q].m] = "taken"
  BY DEF Informed, Placed
<1>7. \A q \in Proc \ {p} : Running(q, "send") /\ r.op = "send" => req[q].m # r.m
  BY <1>4, <1>6
<1>8. \A q \in Proc \ {p} : Running(q, "send") => messages'[req[q].m] = messages[req[q].m]
  BY <1>4, <1>7 DEF Submit, TypeOK
<1>9. Steady(p)
  BY <1>2, <1>3, <1>8 DEF Steady, TypeOK
<1>10. Placed(p)'
  BY <1>4, <1>5 DEF Placed, Submit, TypeOK
<1>11. Checked(p)'
  <2>1. r.op = "send" /\ start # "perm" => start = "channel"
    BY <1>4 DEF StatementsOf
  <2>2. start = "remove" \/ (r.op = "send" /\ start # "perm") => r.console = TRUE
    BY <1>1, <1>4, <2>1 DEF Request, SendRequest, DeleteRequest, UpdateRequest, StatementsOf
  <2>3. QED
    BY <1>5, <2>2 DEF Checked
<1>12. Addressed(p)'
  <2>1. Addressed(p)
    BY DEF Informed
  <2>2. QED
    BY <1>2, <1>4, <1>5, <2>1, FreeIsNobody DEF Addressed
<1>13. Distinct'
  <2>1. \A q \in Proc \ {p} : Running(q, "send")' => Running(q, "send") /\ req'[q] = req[q]
    BY <1>9 DEF Steady, Running
  <2>2. QED
    BY <1>5, <1>7, <2>1 DEF Distinct
<1>14. QED
  BY <1>9, <1>10, <1>11, <1>12, <1>13, SteadyInforms DEF Informed

LEMMA PushReadInforms ==
  ASSUME TypeOK, Informed, Distinct, NEW p \in Proc, Running(p, "send"), PushRead(p)
  PROVE  Informed' /\ Distinct'
<1>1. PICK u \in todo[p] :
        /\ list' = [list EXCEPT ![p] = Extended(u, req[p].m)]
        /\ at' = [at EXCEPT ![p] = u]
        /\ todo' = [todo EXCEPT ![p] = @ \ {u}]
  BY DEF PushRead
<1>2. /\ u \in User /\ u # Free /\ req[p].m \in list'[p] /\ at'[p] = u /\ todo'[p] = todo[p] \ {u}
      /\ pc[p] = "notify" /\ pc' = [pc EXCEPT ![p] = "update"] /\ pc'[p] = "update" /\ at[p] = Free
      /\ UNCHANGED <<perm, messages, req, userLock, pending, moved>>
  BY <1>1, FreeIsNobody DEF PushRead, TypeOK, Extended, channel, locks
<1>3. Steady(p)
  BY <1>1, <1>2 DEF Steady, TypeOK
<1>4. \A op : Running(p, op)' <=> Running(p, op)
  BY <1>2 DEF Running
<1>5. Placed(p) /\ Checked(p) /\ Addressed(p) /\ req[p].op = "send"
  BY DEF Informed, Running
<1>6. Placed(p)'
  BY <1>2, <1>4, <1>5 DEF Placed, StatementsOf, Running
<1>7. Checked(p)'
  BY <1>2, <1>4, <1>5 DEF Checked, MayWrite
<1>8. Addressed(p)'
  <2>1. \A m : Recipients(m)' = Recipients(m)
    BY <1>2 DEF Recipients, Members
  <2>2. \A v \in User : at[p] # v
    BY <1>2, FreeIsNobody
  <2>3. QED
    BY <1>1, <1>2, <1>5, <2>1, <2>2 DEF Addressed
<1>9. QED
  BY <1>2, <1>3, <1>4, <1>6, <1>7, <1>8, SteadyInforms, SteadyDistinct DEF Informed

LEMMA PushWriteInforms ==
  ASSUME TypeOK, Informed, Distinct, NEW p \in Proc, Running(p, "send"), PushWrite(p)
  PROVE  Informed' /\ Distinct'
<1>1. PICK u : u = at[p]
  OBVIOUS
<1>2. /\ u \in User /\ userLock[u] = Free /\ pc[p] = "update" /\ u # Free
      /\ userLock' = [userLock EXCEPT ![u] = p] /\ pending' = [pending EXCEPT ![u] = list[p]]
      /\ pc' = [pc EXCEPT ![p] = "notify"] /\ pc'[p] = "notify"
      /\ at' = [at EXCEPT ![p] = Free] /\ at'[p] = Free /\ list' = [list EXCEPT ![p] = {}]
      /\ UNCHANGED <<perm, messages, req, todo, moved>>
  BY <1>1, FreeIsNobody DEF PushWrite, Goto, TypeOK, channel
<1>3. \A v \in User : /\ userLock'[v] = IF v = u THEN p ELSE userLock[v]
                      /\ pending'[v] = IF v = u THEN list[p] ELSE pending[v]
  BY <1>2 DEF TypeOK
<1>4. Steady(p)
  BY <1>2, <1>3, FreeIsNobody DEF Steady, TypeOK
<1>5. \A op : Running(p, op)' <=> Running(p, op)
  BY <1>2 DEF Running
<1>6. Placed(p) /\ Checked(p) /\ Addressed(p) /\ req[p].op = "send"
  BY DEF Informed, Running
<1>7. Placed(p)'
  BY <1>2, <1>5, <1>6 DEF Placed, StatementsOf, Running
<1>8. Checked(p)'
  BY <1>2, <1>5, <1>6 DEF Checked, MayWrite
<1>9. Addressed(p)'
  <2>1. \A m : Recipients(m)' = Recipients(m)
    BY <1>2 DEF Recipients, Members
  <2>2. \A v \in User : at'[p] # v
    BY <1>2, FreeIsNobody
  <2>3. req[p].m \in list[p]
    BY <1>1, <1>2, <1>6 DEF Addressed
  <2>4. \A v \in User : at[p] = v <=> v = u
    BY <1>1
  <2>5. QED
    BY <1>2, <1>3, <1>6, <2>1, <2>2, <2>3, <2>4 DEF Addressed
<1>10. QED
  BY <1>2, <1>4, <1>5, <1>7, <1>8, <1>9, SteadyInforms, SteadyDistinct DEF Informed

LEMMA CommitSendInforms ==
  ASSUME TypeOK, Informed, Distinct, NEW p \in Proc, Running(p, "send"), CommitSend(p)
  PROVE  Informed' /\ Distinct'
<1>1. /\ Finish(p) /\ perm' = perm /\ moved' = [moved EXCEPT ![p] = FALSE]
      /\ messages' = [messages EXCEPT ![req[p].m] = "stored"]
  BY DEF CommitSend, channel
<1>2. \A q \in Proc \ {p} : Running(q, "send") => req[q].m # req[p].m /\ req[q].m \in Message
  BY RequestFields DEF Distinct
<1>3. \A q \in Proc \ {p} : Running(q, "send") => messages'[req[q].m] = messages[req[q].m]
  BY <1>1, <1>2 DEF TypeOK
<1>4. \A q \in Proc \ {p} : moved'[q] = moved[q]
  BY <1>1 DEF TypeOK
<1>5. QED
  BY <1>1, <1>3, <1>4, EndedInforms

LEMMA SendInforms ==
  ASSUME TypeOK, Informed, Distinct, NEW p \in Proc, Send(p)
  PROVE  Informed' /\ Distinct'
<1>1. Running(p, "send")
  BY DEF Send
<1>2. CASE Read(p, "perm", MayWrite(Author[req[p].m]), "channel")
  BY <1>1, <1>2, ReadInforms DEF Checks
<1>3. CASE Read(p, "channel", live, "members")
  BY <1>1, <1>3, ReadInforms DEF Checks
<1>4. CASE InsertMessage(p)
  BY <1>1, <1>4, ReadInforms DEF Checks, InsertMessage
<1>5. CASE /\ pc[p] = "members"
           /\ todo' = [todo EXCEPT ![p] = Recipients(req[p].m)]
           /\ Goto(p, "insert")
           /\ UNCHANGED <<list, at, locks>>
  <2>1. /\ pc'[p] = "insert" /\ todo'[p] = Recipients(req[p].m) /\ at[p] = Free
        /\ UNCHANGED <<perm, messages, req, moved, list, at, userLock, pending>>
    BY <1>5 DEF Goto, TypeOK, channel, locks
  <2>2. Placed(p) /\ Checked(p) /\ Addressed(p) /\ req[p].op = "send"
    BY <1>1 DEF Informed, Running
  <2>3. \A op : Running(p, op)' <=> Running(p, op)
    BY <1>1, <2>1 DEF Running
  <2>4. Placed(p)'
    BY <2>1, <2>2, <2>3 DEF Placed, StatementsOf, Running
  <2>5. Checked(p)'
    BY <1>5, <2>1, <2>2, <2>3 DEF Checked, MayWrite
  <2>6. Addressed(p)'
    <3>1. \A m : Recipients(m)' = Recipients(m)
      BY <2>1 DEF Recipients, Members
    <3>2. \A u \in User : at[p] # u /\ userLock[u] # p
      BY <1>5, <2>1, <2>2, FreeIsNobody DEF Addressed
    <3>3. QED
      BY <2>1, <3>1, <3>2 DEF Addressed
  <2>7. \A q \in Proc \ {p} : todo'[q] = todo[q] /\ list'[q] = list[q]
    BY <1>5 DEF TypeOK
  <2>8. QED
    BY <1>5, <2>4, <2>5, <2>6, <2>7, GotoInforms
<1>6. QED
  BY <1>1, <1>2, <1>3, <1>4, <1>5, PushReadInforms, PushWriteInforms, CommitSendInforms DEF Send

LEMMA DeleteInforms ==
  ASSUME TypeOK, Informed, Distinct, NEW p \in Proc, DeleteMessage(p)
  PROVE  Informed' /\ Distinct'
<1> DEFINE m == req[p].m
<1>1. Running(p, "delete") /\ m \in Message
  BY RequestFields DEF DeleteMessage
<1>2. CASE Read(p, "find", messages[m] = "stored", "issuer")
  BY <1>1, <1>2, ReadInforms DEF Checks
<1>3. CASE Read(p, "issuer", MayDelete(req[p].by, m), "remove")
  BY <1>1, <1>3, ReadInforms DEF Checks
<1>4. CASE /\ messages[m] = "stored"
           /\ messages' = [messages EXCEPT ![m] = "deleted"]
           /\ Finish(p)
           /\ moved' = [moved EXCEPT ![p] = FALSE]
           /\ UNCHANGED channel
  <2>1. \A q \in Proc \ {p} : Running(q, "send") => messages[req[q].m] = "taken"
    BY DEF Informed, Placed
  <2>2. \A q \in Proc \ {p} : Running(q, "send") => messages'[req[q].m] = messages[req[q].m]
    BY <1>4, <2>1, RequestFields DEF TypeOK
  <2>3. perm' = perm /\ \A q \in Proc \ {p} : moved'[q] = moved[q]
    BY <1>4 DEF channel, TypeOK
  <2>4. QED
    BY <1>4, <2>2, <2>3, EndedInforms
<1>5. CASE Rollback(p)
  BY <1>5, RollbackInforms
<1>6. QED
  BY <1>2, <1>3, <1>4, <1>5 DEF DeleteMessage

LEMMA UpdateInforms ==
  ASSUME TypeOK, Informed, Distinct, NEW p \in Proc, UpdateUser(p)
  PROVE  Informed' /\ Distinct'
<1>1. Running(p, "update") /\ req[p].op = "update" /\ ~Running(p, "send")
  BY DEF UpdateUser, Running
<1>2. CASE /\ pc[p] = "snapshot"
           /\ list' = [list EXCEPT ![p] = inbox[req[p].by]]
           /\ Goto(p, "overwrite")
           /\ UNCHANGED <<todo, at, locks>>
  <2>1. /\ pc'[p] = "overwrite" /\ at[p] = Free
        /\ UNCHANGED <<perm, messages, req, moved, todo, at, userLock, pending>>
    BY <1>2 DEF Goto, TypeOK, channel, locks
  <2>2. Placed(p)' /\ Checked(p)'
    BY <1>1, <2>1 DEF Placed, Checked, Running, StatementsOf
  <2>3. Addressed(p)
    BY DEF Informed
  <2>4. Addressed(p)'
    BY <1>2, <2>1, <2>3, FreeIsNobody DEF Addressed
  <2>5. \A q \in Proc \ {p} : todo'[q] = todo[q] /\ list'[q] = list[q]
    BY <1>2 DEF TypeOK
  <2>6. QED
    BY <1>2, <2>2, <2>4, <2>5, GotoInforms
<1>3. CASE /\ Finish(p)
           /\ moved' = [moved EXCEPT ![p] = FALSE]
           /\ UNCHANGED <<channel, messages>>
  <2>1. perm' = perm /\ messages' = messages /\ \A q \in Proc \ {p} : moved'[q] = moved[q]
    BY <1>3 DEF channel, TypeOK
  <2>2. QED
    BY <1>3, <2>1, EndedInforms
<1>4. QED
  BY <1>2, <1>3 DEF UpdateUser

(* A change of the members marks every request in progress. *)
LEMMA EnvironmentInforms ==
  ASSUME TypeOK, Informed, Distinct,
         \/ \E u \in User : ConsoleUpdate(u)
         \/ \E c \in Changes : ChangeMember(c[1], c[2])
         \/ DeleteChannel
         \/ \E m \in Message : Expire(m)
         \/ \E u \in Client : Subscribe(u)
         \/ \E u \in Client : Load(u)
         \/ UNCHANGED vars
  PROVE  Informed' /\ Distinct'
<1>1. UNCHANGED <<pc, req, todo, list, at, userLock, pending>>
  BY DEF ConsoleUpdate, ChangeMember, DeleteChannel, Expire, Subscribe, Load, vars, process, locks
<1>2. \/ UNCHANGED <<perm, moved>>
      \/ \A q \in Proc : pc[q] # "idle" => moved'[q]
  BY DEF ConsoleUpdate, ChangeMember, DeleteChannel, Expire, Subscribe, Load, vars, channel, Moved
<1>3. \A m \in Message : messages[m] = "taken" => messages'[m] = "taken"
  BY DEF ConsoleUpdate, ChangeMember, DeleteChannel, Expire, Subscribe, Load, vars
<1>4. \A q \in Proc : \A op : Running(q, op)' <=> Running(q, op)
  BY <1>1 DEF Running
<1>5. Distinct'
  BY <1>1, <1>4 DEF Distinct
<1>6. ASSUME NEW q \in Proc PROVE Placed(q)' /\ Checked(q)' /\ Addressed(q)'
  <2>1. Placed(q) /\ Checked(q) /\ Addressed(q)
    BY DEF Informed
  <2>2. Placed(q)'
    BY <1>1, <1>3, <1>4, <2>1, RequestFields DEF Placed
  <2>3. CASE UNCHANGED <<perm, moved>>
    <3>1. /\ \A u : MayWrite(u)' <=> MayWrite(u)
          /\ \A u, m : MayDelete(u, m)' <=> MayDelete(u, m)
          /\ \A m : Recipients(m)' = Recipients(m)
      BY <2>3 DEF MayWrite, MayDelete, Recipients, Members
    <3>2. Checked(q)'
      BY <1>1, <1>4, <2>1, <2>3, <3>1 DEF Checked
    <3>3. Addressed(q)'
      BY <1>1, <2>1, <2>3, <3>1 DEF Addressed
    <3>4. QED
      BY <2>2, <3>2, <3>3
  <2>4. CASE pc[q] # "idle" => moved'[q]
    <3>1. Checked(q)'
      BY <1>1, <2>4 DEF Checked, Running
    <3>2. Addressed(q)'
      BY <1>1, <2>1, <2>4 DEF Addressed
    <3>3. QED
      BY <2>2, <3>1, <3>2
  <2>5. QED
    BY <1>2, <2>3, <2>4
<1>7. QED
  BY <1>5, <1>6 DEF Informed

LEMMA InitInforms == Init => Informed /\ Distinct
BY FreeIsNobody DEF Init, Informed, Distinct, Placed, Checked, Addressed, Running

LEMMA StepInforms == TypeOK /\ Informed /\ Distinct /\ [Next]_vars => Informed' /\ Distinct'
BY SubmitInforms, SendInforms, DeleteInforms, UpdateInforms, RollbackInforms, EnvironmentInforms
   DEF Next, Fail

LEMMA InformedAlways == Spec => [](TypeOK /\ Carried /\ Inboxes /\ Informed /\ Distinct)
BY InitTypes, InitCarried, InitInforms, StepTypes, StepCarried, StepInforms, PTL DEF Spec

(* What a step does to a message, and who does it. *)
LEMMA MessageSteps ==
  ASSUME TypeOK, [Next]_vars, NEW m \in Message, messages'[m] # messages[m],
         messages[m] \in {"taken", "stored"}
  PROVE  \/ \E p \in Proc : Running(p, "send") /\ req[p].m = m /\ CommitSend(p) /\ messages'[m] = "stored"
         \/ \E p \in Proc : Running(p, "delete") /\ req[p].m = m /\ pc[p] = "remove" /\ Finish(p)
                            /\ messages[m] = "stored"
         \/ live /\ ~live' /\ messages[m] = "stored"
<1>1. ASSUME NEW p \in Proc, Rollback(p) PROVE FALSE
  BY <1>1 DEF Rollback
<1>2. ASSUME NEW p \in Proc, NEW stmt, NEW ok, NEW next, Read(p, stmt, ok, next) PROVE FALSE
  BY <1>1, <1>2 DEF Read, Goto
<1>3. ASSUME NEW p \in Proc, NEW r \in Requests, Submit(p, r) PROVE FALSE
  <2>1. r.op = "send" => r.m \in Message
    BY RequestsType DEF Request, SendRequest, DeleteRequest, UpdateRequest
  <2>2. QED
    BY <1>3, <2>1 DEF Submit, TypeOK
<1>4. ASSUME NEW p \in Proc, Send(p)
      PROVE  Running(p, "send") /\ req[p].m = m /\ CommitSend(p) /\ messages'[m] = "stored"
  <2>1. Running(p, "send") /\ req[p].m \in Message
    BY <1>4, RequestFields DEF Send
  <2>2. CASE CommitSend(p)
    BY <2>1, <2>2 DEF CommitSend, TypeOK
  <2>3. CASE PushRead(p) \/ PushWrite(p) \/ Goto(p, "insert")
    BY <2>3 DEF PushRead, PushWrite, Goto
  <2>4. CASE \/ Read(p, "perm", MayWrite(Author[req[p].m]), "channel")
             \/ Read(p, "channel", live, "members")
             \/ Read(p, "insert", live, "notify")
    BY <1>2, <2>4
  <2>5. QED
    BY <1>4, <2>2, <2>3, <2>4 DEF Send, InsertMessage
<1>5. ASSUME NEW p \in Proc, DeleteMessage(p)
      PROVE  Running(p, "delete") /\ req[p].m = m /\ pc[p] = "remove" /\ Finish(p) /\ messages[m] = "stored"
  <2>1. Running(p, "delete") /\ req[p].m \in Message
    BY <1>5, RequestFields DEF DeleteMessage
  <2>2. CASE \/ Read(p, "find", messages[req[p].m] = "stored", "issuer")
             \/ Read(p, "issuer", MayDelete(req[p].by, req[p].m), "remove")
             \/ Rollback(p)
    BY <1>1, <1>2, <2>2
  <2>3. CASE /\ pc[p] = "remove" /\ messages[req[p].m] = "stored" /\ Finish(p)
             /\ messages' = [messages EXCEPT ![req[p].m] = "deleted"]
    BY <2>1, <2>3 DEF TypeOK
  <2>4. QED
    BY <1>5, <2>2, <2>3 DEF DeleteMessage
<1>6. ASSUME NEW p \in Proc, UpdateUser(p) PROVE FALSE
  BY <1>6 DEF UpdateUser, Goto
<1>7. CASE DeleteChannel
  BY <1>7 DEF DeleteChannel, TypeOK
<1>8. QED
  BY <1>1, <1>3, <1>4, <1>5, <1>6, <1>7
     DEF Next, Fail, ConsoleUpdate, ChangeMember, Expire, Subscribe, Load, vars

(* A message is stored and deleted by those who may, unless the members of *)
(* the channel change while the request is under way                       *)
(* (services/chat.rs:216, services/chat.rs:260).                           *)
THEOREM Authorised == Spec => IsolatedRequestsAuthorised
<1>1. ASSUME TypeOK, Informed, [Next]_vars, NEW m \in Message
      PROVE  /\ messages[m] = "taken" /\ messages'[m] = "stored" =>
                  \E p \in Proc :
                    /\ Ends(p, "send", m)
                    /\ req[p].console \/ moved[p] \/ perm[Author[m]] \in {ReadWrite, Manager}
             /\ messages[m] = "stored" /\ messages'[m] = "deleted" =>
                  \/ live /\ ~live'
                  \/ \E p \in Proc :
                       /\ Ends(p, "delete", m)
                       /\ req[p].console \/ moved[p] \/ MayDelete(req[p].by, m)
  <2>1. ASSUME NEW p \in Proc, Running(p, "send"), req[p].m = m, CommitSend(p)
        PROVE  /\ Ends(p, "send", m)
               /\ req[p].console \/ moved[p] \/ perm[Author[m]] \in {ReadWrite, Manager}
    <3>1. pc[p] = "notify" /\ pc'[p] = "idle"
      BY <1>1, <2>1 DEF CommitSend, Finish, TypeOK
    <3>2. QED
      BY <1>1, <2>1, <3>1 DEF Ends, Informed, Checked, MayWrite
  <2>2. ASSUME NEW p \in Proc, Running(p, "delete"), req[p].m = m, pc[p] = "remove", Finish(p)
        PROVE  /\ Ends(p, "delete", m)
               /\ req[p].console \/ moved[p] \/ MayDelete(req[p].by, m)
    <3>1. pc'[p] = "idle"
      BY <1>1, <2>2 DEF Finish, TypeOK
    <3>2. QED
      BY <1>1, <2>2, <3>1 DEF Ends, Informed, Checked
  <2>3. CASE messages[m] = "taken" /\ messages'[m] = "stored"
    BY <1>1, <2>1, <2>3, MessageSteps
  <2>4. CASE messages[m] = "stored" /\ messages'[m] = "deleted"
    BY <1>1, <2>2, <2>4, MessageSteps
  <2>5. QED
    BY <2>3, <2>4
<1>2. TypeOK /\ Informed /\ [Next]_vars =>
        [\A m \in Message :
           /\ messages[m] = "taken" /\ messages'[m] = "stored" =>
                \E p \in Proc :
                  /\ Ends(p, "send", m)
                  /\ req[p].console \/ moved[p] \/ perm[Author[m]] \in {ReadWrite, Manager}
           /\ messages[m] = "stored" /\ messages'[m] = "deleted" =>
                \/ live /\ ~live'
                \/ \E p \in Proc :
                     /\ Ends(p, "delete", m)
                     /\ req[p].console \/ moved[p] \/ MayDelete(req[p].by, m)]_vars
  BY <1>1
<1>3. QED
  BY <1>2, InformedAlways, PTL DEF Spec, IsolatedRequestsAuthorised

(* When a message is stored, all the other members of the channel are      *)
(* notified, and nobody else, unless the members change meanwhile          *)
(* (logic/chat.rs:438).                                                    *)
THEOREM AllNotified == Spec => MembersNotified
<1>1. ASSUME TypeOK, Inboxes, Informed, Distinct, [Next]_vars, NEW p \in Proc, NEW m \in Message,
             Ends(p, "send", m), messages'[m] = "stored", ~moved[p], NEW u \in User \ {Author[m]}
      PROVE  m \in inbox'[u] <=> u \in Members
  <2>1. Running(p, "send") /\ req[p].m = m /\ messages[m] = "taken"
    BY <1>1 DEF Ends, Informed, Placed
  <2>2. CommitSend(p)
    BY <1>1, <2>1, MessageSteps DEF Distinct
  <2>3. /\ pc[p] = "notify" /\ todo[p] = {} /\ at[p] = Free
        /\ inbox'[u] = IF userLock[u] = p THEN pending[u] ELSE inbox[u]
    BY <1>1, <2>2 DEF CommitSend, Stored, TypeOK
  <2>4. /\ userLock[u] = p => m \in pending[u]
        /\ u \in Recipients(m) <=> userLock[u] = p
    BY <1>1, <2>1, <2>3, FreeIsNobody DEF Informed, Addressed
  <2>5. m \notin inbox[u]
    BY <1>1, <2>1 DEF Inboxes, MayHold, Sent
  <2>6. u \in Recipients(m) <=> u \in Members
    BY <1>1 DEF Recipients, Members
  <2>7. QED
    BY <2>3, <2>4, <2>5, <2>6
<1>2. TypeOK /\ Inboxes /\ Informed /\ Distinct /\ [Next]_vars =>
        [\A p \in Proc, m \in Message :
           Ends(p, "send", m) /\ messages'[m] = "stored" /\ ~moved[p] =>
             \A u \in User \ {Author[m]} : m \in inbox'[u] <=> u \in Members]_vars
  BY <1>1
<1>3. QED
  BY <1>2, InformedAlways, PTL DEF Spec, MembersNotified

-----------------------------------------------------------------------------
(* Whoever holds the row of a user that a request waits for is a message   *)
(* being sent, which in a deadlock waits for another row itself.           *)
LEMMA HolderSends ==
  ASSUME TypeOK, Carried, Informed, NEW p \in Proc, NEW q \in WaitsFor(p)
  PROVE  /\ q \in Proc \ {p} /\ Running(q, "send") /\ pc[q] \in {"notify", "update"}
         /\ \E u \in User :
              /\ userLock[u] = q
              /\ pc[p] = "update" => u = at[p]
<1>1. q \in Proc \ {p} /\ q # Free
  BY FreeIsNobody DEF WaitsFor
<1>2. PICK u \in User : userLock[u] = q /\ (pc[p] = "update" => u = at[p])
  <2>1. CASE pc[p] = "update"
    BY <2>1, <1>1 DEF WaitsFor, TypeOK
  <2>2. CASE pc[p] = "overwrite"
    <3>1. userLock[req[p].by] = q
      BY <2>2 DEF WaitsFor
    <3>2. Running(p, "update") /\ req[p] \in Request
      BY <2>2 DEF Carried, Honest, TypeOK
    <3>3. req[p].by \in User
      BY <3>2, RequestFields DEF Running
    <3>4. QED
      BY <2>2, <3>1, <3>3
  <2>3. QED
    BY <2>1, <2>2 DEF WaitsFor
<1>3. Running(q, "send")
  BY <1>1, <1>2 DEF Carried, Honest
<1>4. pc[q] \in {"notify", "update"}
  BY <1>1, <1>2 DEF Informed, Addressed
<1>5. QED
  BY <1>1, <1>2, <1>3, <1>4

(* A deadlock is one of messages, each with a recipient it has notified    *)
(* and one it waits for (chat.rs:444, user.rs:376); the update of a user   *)
(* can wait for it but is no part of it.                                   *)
THEOREM OnlyMessagesDeadlock == Spec => []DeadlockShape
<1>1. TypeOK /\ Carried /\ Informed /\ Distinct => DeadlockShape
  <2> SUFFICES ASSUME TypeOK, Carried, Informed, Distinct,
                      NEW S \in SUBSET Proc, DeadlockedSet(S)
               PROVE  \E p, q \in S :
                        /\ Running(p, "send") /\ Running(q, "send") /\ req[p].m # req[q].m
                        /\ pc[p] = "update" /\ pc[q] = "update"
                        /\ at[p] # at[q] /\ userLock[at[p]] = q
                        /\ \E u \in User \ {at[p]} : userLock[u] = p
    BY DEF DeadlockShape
  <2>1. S # {} /\ \A p \in S : \E q \in S : q \in WaitsFor(p)
    BY DEF DeadlockedSet
  <2>2. ASSUME NEW q \in S, pc[q] \in {"notify", "update"}
        PROVE  pc[q] = "update"
    BY <2>1, <2>2 DEF WaitsFor
  <2>3. PICK w \in S, p \in S : p \in WaitsFor(w)
    BY <2>1
  <2>4. PICK q \in S : q \in WaitsFor(p)
    BY <2>1
  <2>5. PICK r \in S : r \in WaitsFor(q)
    BY <2>1
  <2>6. Running(p, "send") /\ pc[p] = "update"
    BY <2>2, <2>3, HolderSends
  <2>7. PICK u \in User : userLock[u] = p
    BY <2>3, HolderSends
  <2>8. q # p /\ Running(q, "send") /\ pc[q] = "update" /\ userLock[at[p]] = q
    BY <2>2, <2>4, <2>6, HolderSends
  <2>9. r # q /\ userLock[at[q]] = r
    BY <2>5, <2>8, HolderSends
  <2>10. at[p] # at[q] /\ u # at[p]
    BY <2>7, <2>8, <2>9
  <2>11. req[p].m # req[q].m
    BY <2>6, <2>8 DEF Distinct
  <2>12. QED
    BY <2>6, <2>7, <2>8, <2>10, <2>11
<1>2. QED
  BY <1>1, InformedAlways, PTL
=============================================================================
