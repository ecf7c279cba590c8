--------------------------- MODULE Posting_proofs ---------------------------
(***************************************************************************)
(* The properties of Posting for every number of users, posts, requests,   *)
(* connections and permits.  A step is first brought into a shape of its   *)
(* own: what the request p that takes it changes, for p alone (Moved).     *)
(* The invariants are then proved of the shapes:                           *)
(*   TInv  the types, and where a request is;                              *)
(*   LInv  who holds which lock, and that what an uncommitted row refers   *)
(*         to stays there;                                                 *)
(*   BlocksRegistered  with these two, that a step is one of Board;        *)
(*   SInv  what a query has seen;                                          *)
(*   VInv  what a request is about to write to a vector;                   *)
(*   RInv  what the reactions of a user who does one thing at a time leave *)
(*         in his vector.                                                  *)
(***************************************************************************)
EXTENDS Posting, FiniteSetTheorems, TLAPS

-----------------------------------------------------------------------------
(* The embedder: a request waits for one job at most. *)
Waiting(q) ==
  \/ \E i \in DOMAIN queue : queue[i] = q
  \/ hand = q
  \/ \E i \in DOMAIN running : running[i] = q

OneJob ==
  /\ \A i, j \in DOMAIN queue : queue[i] = queue[j] /\ queue[i] # Orphan => i = j
  /\ \A i, j \in DOMAIN running : running[i] = running[j] /\ running[i] # Orphan => i = j
  /\ \A i \in DOMAIN queue : queue[i] = hand => hand = Orphan
  /\ \A i \in DOMAIN running : running[i] = hand => hand = Orphan
  /\ \A i \in DOMAIN queue, j \in DOMAIN running : queue[i] = running[j] => queue[i] = Orphan

LEMMA WaitingIs ==
  ASSUME NEW q
  PROVE  Waiting(q) <=> q \in ToSet(queue) \cup {hand} \cup ToSet(running)
BY DEF Waiting, ToSet

LEMMA RemoveAtSeq ==
  ASSUME NEW S, NEW s \in Seq(S), NEW i \in DOMAIN s
  PROVE  /\ RemoveAt(s, i) \in Seq(S)
         /\ Len(RemoveAt(s, i)) = Len(s) - 1
         /\ \A j \in 1..(Len(s) - 1) : RemoveAt(s, i)[j] = IF j < i THEN s[j] ELSE s[j + 1]
<1> DEFINE a == SubSeq(s, 1, i - 1)
           b == SubSeq(s, i + 1, Len(s))
<1>1. i \in 1..Len(s) /\ Len(s) \in Nat
  OBVIOUS
<1>2. a \in Seq(S) /\ Len(a) = i - 1 /\ \A j \in 1..(i - 1) : a[j] = s[j]
  BY <1>1
<1>3. b \in Seq(S) /\ Len(b) = Len(s) - i /\ \A j \in 1..(Len(s) - i) : b[j] = s[j + i]
  BY <1>1
<1> HIDE DEF a, b
<1>4. RemoveAt(s, i) = a \o b
  BY DEF RemoveAt, a, b
<1>5. a \o b \in Seq(S) /\ Len(a \o b) = Len(s) - 1
  BY <1>1, <1>2, <1>3
<1>6. ASSUME NEW j \in 1..(Len(s) - 1) PROVE (a \o b)[j] = IF j < i THEN s[j] ELSE s[j + 1]
  BY <1>1, <1>2, <1>3, <1>6
<1>7. QED
  BY <1>4, <1>5, <1>6

LEMMA AskWaits ==
  ASSUME EmbedderTypeOK, OneJob, NEW p \in Proc, ~Waiting(p), Ask(p)
  PROVE  EmbedderTypeOK' /\ OneJob' /\ \A q \in Proc : Waiting(q)' <=> Waiting(q) \/ q = p
<1>1. /\ queue \in Seq(Job) /\ hand' = hand /\ running' = running /\ p \in Job /\ p # Orphan
      /\ queue' = Append(queue, p) /\ Len(queue) < QueueSize /\ QueueSize \in Nat
  BY QueueSizeType, ProcNotJob DEF EmbedderTypeOK, Ask, Job
<1>2. /\ Len(queue') = Len(queue) + 1 /\ queue' \in Seq(Job)
      /\ \A i \in 1..Len(queue) : queue'[i] = queue[i]
      /\ queue'[Len(queue) + 1] = p
      /\ DOMAIN queue = 1..Len(queue) /\ DOMAIN queue' = 1..(Len(queue) + 1) /\ Len(queue) \in Nat
  BY <1>1
<1>3. EmbedderTypeOK'
  BY <1>1, <1>2 DEF EmbedderTypeOK
<1>4. OneJob'
  BY <1>1, <1>2 DEF OneJob, Waiting
<1>5. \A q \in Proc : Waiting(q)' <=> Waiting(q) \/ q = p
  BY <1>1, <1>2 DEF Waiting
<1>6. QED
  BY <1>3, <1>4, <1>5

LEMMA ReceiveWaits ==
  ASSUME EmbedderTypeOK, OneJob, Receive
  PROVE  EmbedderTypeOK' /\ OneJob' /\ \A q \in Proc : Waiting(q)' <=> Waiting(q)
<1>1. /\ queue \in Seq(Job) /\ hand = NoJob /\ running' = running /\ queue # <<>>
      /\ queue' = Tail(queue) /\ hand' = queue[1] /\ Len(queue) <= QueueSize /\ QueueSize \in Nat
  BY QueueSizeType DEF EmbedderTypeOK, Receive
<1>2. /\ Len(queue') = Len(queue) - 1 /\ queue' \in Seq(Job) /\ Len(queue) \in Nat \ {0}
      /\ \A i \in 1..(Len(queue) - 1) : queue'[i] = queue[i + 1]
      /\ DOMAIN queue = 1..Len(queue) /\ DOMAIN queue' = 1..(Len(queue) - 1)
  BY <1>1
<1>3. hand' \in Job
  BY <1>1, <1>2
<1>4. EmbedderTypeOK'
  BY <1>1, <1>2, <1>3 DEF EmbedderTypeOK
<1>5. OneJob'
  BY <1>1, <1>2 DEF OneJob
<1>6. ASSUME NEW q \in Proc PROVE Waiting(q)' <=> Waiting(q)
  <2>1. q # NoJob
    BY ProcNotJob
  <2>2. ASSUME NEW i \in 1..Len(queue), queue[i] = q PROVE Waiting(q)'
    <3>1. i = 1 \/ (i - 1 \in 1..(Len(queue) - 1) /\ queue'[i - 1] = queue[i])
      BY <1>2
    <3>2. QED
      BY <1>1, <1>2, <2>2, <3>1 DEF Waiting
  <2>3. QED
    BY <1>1, <1>2, <2>1, <2>2 DEF Waiting
<1>7. QED
  BY <1>4, <1>5, <1>6

LEMMA AcquireWaits ==
  ASSUME EmbedderTypeOK, OneJob, Acquire
  PROVE  EmbedderTypeOK' /\ OneJob' /\ \A q \in Proc : Waiting(q)' <=> Waiting(q)
<1>1. /\ running \in Seq(Job) /\ hand' = NoJob /\ hand \in Job /\ queue' = queue
      /\ running' = Append(running, hand) /\ Len(running) < Permits /\ Permits \in Nat
  BY PermitsType DEF EmbedderTypeOK, Acquire
<1>2. /\ Len(running') = Len(running) + 1 /\ running' \in Seq(Job)
      /\ \A i \in 1..Len(running) : running'[i] = running[i]
      /\ running'[Len(running) + 1] = hand
      /\ DOMAIN running = 1..Len(running) /\ DOMAIN running' = 1..(Len(running) + 1)
      /\ Len(running) \in Nat
  BY <1>1
<1>3. EmbedderTypeOK'
  BY <1>1, <1>2 DEF EmbedderTypeOK
<1>4. /\ queue \in Seq(Job) /\ NoJob \notin Job
  BY ProcNotJob DEF EmbedderTypeOK, Job, Orphan, NoJob
<1>5. OneJob'
  BY <1>1, <1>2, <1>4 DEF OneJob
<1>6. \A q \in Proc : Waiting(q)' <=> Waiting(q)
  BY <1>1, <1>2, ProcNotJob DEF Waiting
<1>7. QED
  BY <1>3, <1>5, <1>6

LEMMA RespondWaits ==
  ASSUME EmbedderTypeOK, OneJob, NEW i \in DOMAIN running, Respond(i)
  PROVE  /\ EmbedderTypeOK' /\ OneJob'
         /\ \A q \in Proc : Waiting(q)' <=> Waiting(q) /\ q # running[i]
         /\ Waiting(running[i]) /\ running[i] \in Job
<1>1. /\ running \in Seq(Job) /\ hand' = hand /\ queue' = queue /\ i \in 1..Len(running)
      /\ running' = RemoveAt(running, i) /\ Len(running) <= Permits /\ Permits \in Nat
      /\ Len(running) \in Nat /\ DOMAIN running = 1..Len(running)
  BY PermitsType DEF EmbedderTypeOK, Respond
<1>2. /\ Len(running') = Len(running) - 1 /\ running' \in Seq(Job)
      /\ \A j \in 1..(Len(running) - 1) : running'[j] = IF j < i THEN running[j] ELSE running[j + 1]
  BY <1>1, RemoveAtSeq
<1>3. DOMAIN running' = 1..(Len(running) - 1)
  BY <1>1, <1>2
<1>4. EmbedderTypeOK'
  BY <1>1, <1>2 DEF EmbedderTypeOK
<1>5. \A j \in DOMAIN running' : \E k \in DOMAIN running \ {i} :
        running'[j] = running[k] /\ k = IF j < i THEN j ELSE j + 1
  BY <1>1, <1>2, <1>3
<1>6. \A k \in DOMAIN running \ {i} : \E j \in DOMAIN running' : running'[j] = running[k]
  <2> TAKE k \in DOMAIN running \ {i}
  <2>1. CASE k < i
    BY <1>1, <1>2, <1>3, <2>1
  <2>2. CASE k > i
    <3>1. k - 1 \in 1..(Len(running) - 1) /\ ~(k - 1 < i) /\ (k - 1) + 1 = k
      BY <1>1, <2>2
    <3>2. running'[k - 1] = running[k]
      BY <1>2, <3>1
    <3>3. QED
      BY <1>3, <3>1, <3>2
  <2>3. QED
    BY <1>1, <2>1, <2>2
<1>7. OneJob'
  <2>1. ASSUME NEW j \in DOMAIN running', NEW k \in DOMAIN running',
               running'[j] = running'[k], running'[j] # Orphan
        PROVE  j = k
    BY <1>1, <1>3, <1>5, <2>1 DEF OneJob
  <2>2. QED
    BY <1>1, <1>5, <2>1 DEF OneJob
<1>8. ASSUME NEW q \in Proc PROVE Waiting(q)' <=> Waiting(q) /\ q # running[i]
  <2>1. q # Orphan
    BY ProcNotJob
  <2>2. Waiting(q)' => Waiting(q) /\ q # running[i]
    BY <1>1, <1>5, <2>1 DEF Waiting, OneJob
  <2>3. Waiting(q) /\ q # running[i] => Waiting(q)'
    BY <1>1, <1>6 DEF Waiting
  <2>4. QED
    BY <2>2, <2>3
<1>9. QED
  BY <1>1, <1>4, <1>7, <1>8 DEF Waiting

LEMMA AbandonWaits ==
  ASSUME EmbedderTypeOK, OneJob, NEW p \in Proc, Abandon(p)
  PROVE  EmbedderTypeOK' /\ OneJob' /\ \A q \in Proc : Waiting(q)' <=> Waiting(q) /\ q # p
<1>1. /\ queue \in Seq(Job) /\ running \in Seq(Job) /\ p # Orphan /\ Orphan \in Job
      /\ DOMAIN queue = 1..Len(queue) /\ DOMAIN running = 1..Len(running)
      /\ Len(queue) \in Nat /\ Len(running) \in Nat
  BY ProcNotJob DEF EmbedderTypeOK, Job
<1>2. /\ queue' = [i \in DOMAIN queue |-> IF queue[i] = p THEN Orphan ELSE queue[i]]
      /\ hand' = IF hand = p THEN Orphan ELSE hand
      /\ running' = [i \in DOMAIN running |-> IF running[i] = p THEN Orphan ELSE running[i]]
  BY DEF Abandon
<1>3. /\ queue' \in Seq(Job) /\ Len(queue') = Len(queue) /\ DOMAIN queue' = DOMAIN queue
      /\ running' \in Seq(Job) /\ Len(running') = Len(running) /\ DOMAIN running' = DOMAIN running
  BY <1>1, <1>2
<1>4. EmbedderTypeOK'
  BY <1>1, <1>2, <1>3 DEF EmbedderTypeOK
<1>5. OneJob'
  BY <1>2, <1>3 DEF OneJob
<1>6. \A q \in Proc : Waiting(q)' <=> Waiting(q) /\ q # p
  BY <1>1, <1>2, <1>3, ProcNotJob DEF Waiting
<1>7. QED
  BY <1>4, <1>5, <1>6

-----------------------------------------------------------------------------
(* Where a request can be, and what it keeps there. *)
Places(op) ==
  {"connect"} \cup
  CASE op = "publish"   -> {"parent", "embed", "embedding", "insert", "vector", "write", "commit"}
    [] op = "unpublish" -> {"author", "remove", "cascade"}
    [] op = "react"     -> {"post", "previous", "upsert", "refer", "vector", "write", "commit"}
    [] op = "get"       -> {"posts", "blocks", "counts", "own", "comments"}
    [] op = "getOf"     -> {"posts", "counts", "own", "comments"}
    [] op = "search"    -> {"posts", "counts", "own", "comments"}
    [] op = "feed"      -> {"liked", "candidates", "counts"}
    [] op = "block"     -> {"target", "row"}
    [] op = "update"    -> {"reset", "embed", "embedding", "init", "code", "overwrite"}
    [] op = "drop"      -> {"drop", "cascade"}

Ops == {"publish", "unpublish", "react", "get", "getOf", "search", "feed", "block", "update", "drop"}

Placed(q) ==
  /\ pc[q] # "idle" => req[q].op \in Ops /\ pc[q] \in Places(req[q].op)
  /\ pc[q] \in {"vector", "write"} => TheMove(req[q], previous[q]) # NoMove
  /\ pc[q] = "idle" => wrote[q] = {} /\ held[q] = {} /\ found[q] = {} /\ todo[q] = {} /\ base[q] = <<>>

Types ==
  /\ accounts \subseteq User
  /\ posts \in [Post -> {"unused", "taken", "stored", "deleted"}]
  /\ reaction \in [Post -> [User -> Reaction]]
  /\ vector \in [User -> Seq(Move)]
  /\ blocks \subseteq User \X User
  /\ ahead \subseteq Request
  /\ pc \in [Proc -> Statement]
  /\ req \in [Proc -> Request \cup {NoReq}]
  /\ \A p \in Proc : pc[p] = "idle" <=> req[p] = NoReq
  /\ wrote \in [Proc -> SUBSET {"row", "post", "key", "user"}]
  /\ held \in [Proc -> SUBSET Row]
  /\ previous \in [Proc -> Reaction]
  /\ base \in [Proc -> Seq(Move)]
  /\ found \in [Proc -> SUBSET Post]
  /\ todo \in [Proc -> SUBSET User]
  /\ counted \in [Proc -> SUBSET (Post \X Reaction)]
  /\ overlapped \in [Proc -> BOOLEAN]
  /\ moved \in [Proc -> SUBSET Post]
  /\ blocked \in [Proc -> SUBSET User]
  /\ clean \subseteq User
  /\ interrupted \subseteq User

LocalTypes ==
  /\ ahead \subseteq Request
  /\ pc \in [Proc -> Statement]
  /\ req \in [Proc -> Request \cup {NoReq}]
  /\ wrote \in [Proc -> SUBSET {"row", "post", "key", "user"}]
  /\ held \in [Proc -> SUBSET Row]
  /\ previous \in [Proc -> Reaction]
  /\ base \in [Proc -> Seq(Move)]
  /\ found \in [Proc -> SUBSET Post]
  /\ todo \in [Proc -> SUBSET User]
  /\ counted \in [Proc -> SUBSET (Post \X Reaction)]

Linked == \A p \in Proc : pc[p] = "embedding" <=> Waiting(p)

TInv == EmbedderTypeOK /\ OneJob /\ Types /\ Linked /\ \A q \in Proc : Placed(q)

LEMMA TInvTypes == TInv => TypeOK
BY WaitingIs DEF TInv, Types, Linked, TypeOK

LEMMA RequestFields ==
  ASSUME NEW r \in Request
  PROVE  /\ r.op \in Ops /\ r.by \in User
         /\ r.op = "publish" => r.m \in Post /\ r.by = Author[r.m] /\ r.text \in BOOLEAN
         /\ r.op = "unpublish" => r.m \in Post
         /\ r.op = "react" => r.m \in Post /\ r.reaction \in Reaction
         /\ r.op \in {"get", "search"} => r.of \subseteq Post
         /\ r.op = "getOf" => r.author \in User
         /\ r.op = "block" => r.to \in User /\ r.on \in BOOLEAN
         /\ r.op = "update" => r.tags \in BOOLEAN /\ r.email \in BOOLEAN
BY DEF Request, PublishRequest, UnpublishRequest, ReactRequest, GetRequest, GetOfRequest,
       SearchRequest, FeedRequest, BlockRequest, UpdateRequest, DropRequest, Ops

LEMMA NoReqIsNone == NoReq \notin Request
BY RequestFields DEF NoReq, Ops

LEMMA MoveType ==
  ASSUME NEW r \in Request, r.op \in {"publish", "react"}, NEW prev \in Reaction
  PROVE  TheMove(r, prev) \in Move \cup {NoMove}
         /\ (r.op = "publish" => TheMove(r, prev) # NoMove)
BY RequestFields, ParentType DEF TheMove, Move, NoMove

-----------------------------------------------------------------------------
(* The steps of a request, each written out for the request that takes it. *)
Kept(p) ==
  /\ wrote'[p] = wrote[p] /\ held'[p] = held[p] /\ previous'[p] = previous[p] /\ base'[p] = base[p]
  /\ found'[p] = found[p] /\ todo'[p] = todo[p] /\ counted'[p] = counted[p]

KeptBut(p) ==
  /\ req'[p] = req[p] /\ held'[p] = held[p]
  /\ found'[p] = found[p] /\ todo'[p] = todo[p] /\ counted'[p] = counted[p]

(* Nothing of the other requests changes. *)
Aside(p) ==
  \A q \in Proc \ {p} :
    /\ pc'[q] = pc[q] /\ req'[q] = req[q] /\ wrote'[q] = wrote[q] /\ previous'[q] = previous[q]
    /\ base'[q] = base[q] /\ found'[q] = found[q] /\ todo'[q] = todo[q] /\ counted'[q] = counted[q]
    /\ held'[q] = held[q]

Passes(p) ==
  LET r == req[p]
      from(at, to) == pc[p] = at /\ pc'[p] = to
  IN /\ Kept(p)
     /\ \/ from("connect", First(r)) /\ r.by \in accounts
        \/ pc[p] = "parent" /\ pc'[p] \in {"embed", "insert"} /\ r.op = "publish"
        \/ from("embed", "embedding")
        \/ from("embedding", Answered(r))
        \/ from("post", "previous") /\ r.op = "react" /\ Stored(r.m)
        \/ from("author", "remove")
        \/ from("target", "row")
        \/ from("code", "overwrite")
        \/ from("liked", "candidates")
        \/ from("own", "comments")
        \/ from("blocks", "counts") /\ todo[p] = {}
        \/ /\ from("vector", "commit") /\ r.by \in accounts /\ vector[r.by] = <<>>
           /\ Away(TheMove(r, previous[p]))

Inserts(p) ==
  LET r == req[p]
  IN /\ pc[p] = "insert" /\ pc'[p] = "vector" /\ r.op = "publish" /\ Free(p)
     /\ r.by \in accounts /\ (Parent[r.m] # NoPost => Stored(Parent[r.m]))
     /\ wrote'[p] = wrote[p] \cup {"post", "key"}
     /\ previous'[p] = previous[p] /\ base'[p] = base[p] /\ KeptBut(p)

ReadsVector(p) ==
  LET r == req[p]
  IN /\ pc[p] = "vector" /\ pc'[p] = "write" /\ r.by \in accounts
     /\ base'[p] = Append(vector[r.by], TheMove(r, previous[p]))
     /\ wrote'[p] = wrote[p] /\ previous'[p] = previous[p] /\ KeptBut(p)

WritesVector(p) ==
  /\ pc[p] = "write" /\ pc'[p] = "commit" /\ Free(p)
  /\ wrote'[p] = wrote[p] \cup {"user"}
  /\ base'[p] = base[p] /\ previous'[p] = previous[p] /\ KeptBut(p)

ReadsPrevious(p) ==
  LET r == req[p]
  IN /\ pc[p] = "previous" /\ pc'[p] = "upsert" /\ r.op = "react"
     /\ previous'[p] = reaction[r.m][r.by]
     /\ wrote'[p] = wrote[p] /\ base'[p] = base[p] /\ KeptBut(p)

Upserts(p) ==
  LET r == req[p]
      exists == reaction[r.m][r.by] # "none"
      inserts == ~exists /\ r.reaction # "none"
  IN /\ pc[p] = "upsert" /\ r.op = "react" /\ Free(p)
     /\ pc'[p] = IF inserts THEN "refer" ELSE AfterUpsert(p)
     /\ inserts => Stored(r.m)
     /\ wrote'[p] = wrote[p] \cup
          IF exists THEN {"row"} ELSE IF inserts THEN {"row", "post"} ELSE {}
     /\ previous'[p] = previous[p] /\ base'[p] = base[p] /\ KeptBut(p)

RefersUser(p) ==
  /\ pc[p] = "refer" /\ pc'[p] = AfterUpsert(p) /\ req[p].op = "react" /\ Free(p)
  /\ req[p].by \in accounts
  /\ wrote'[p] = wrote[p] \cup {"key"}
  /\ previous'[p] = previous[p] /\ base'[p] = base[p] /\ KeptBut(p)

LocksUser(p) ==
  /\ pc[p] = "drop" /\ pc'[p] = "cascade" /\ req[p].op = "drop" /\ Free(p)
  /\ wrote'[p] = {"user"}
  /\ previous'[p] = previous[p] /\ base'[p] = base[p] /\ KeptBut(p)

LocksPost(p) ==
  /\ pc[p] = "remove" /\ pc'[p] = "cascade" /\ req[p].op = "unpublish" /\ Free(p)
  /\ Stored(req[p].m)
  /\ held'[p] = {PostRow(req[p].m)}
  /\ wrote'[p] = wrote[p] /\ previous'[p] = previous[p] /\ base'[p] = base[p]
  /\ found'[p] = found[p] /\ todo'[p] = todo[p] /\ counted'[p] = counted[p]

LocksRow(p) ==
  /\ pc[p] = "cascade" /\ pc'[p] = "cascade"
  /\ \E row \in Doomed(p) \ held[p] :
       (\A q \in Proc \ {p} : ~Holds(q, row)) /\ held'[p] = held[p] \cup {row}
  /\ wrote'[p] = wrote[p] /\ previous'[p] = previous[p] /\ base'[p] = base[p]
  /\ found'[p] = found[p] /\ todo'[p] = todo[p] /\ counted'[p] = counted[p]

Serves(p) ==
  LET r == req[p]
  IN /\ held'[p] = held[p]
     /\ wrote'[p] = wrote[p] /\ previous'[p] = previous[p] /\ base'[p] = base[p]
     /\ counted'[p] = counted[p]
     /\ found'[p] \subseteq Post
     /\ \/ /\ r.op = "get" /\ pc[p] = "posts" /\ pc'[p] = "blocks"
           /\ todo'[p] = {Author[m] : m \in found'[p]}
        \/ /\ r.op \in {"getOf", "search", "feed"} /\ pc[p] \in {"posts", "candidates"}
           /\ pc'[p] = "counts" /\ todo'[p] = {}
           /\ \A m \in found'[p] : Author[m] \notin BlockedBy(r.by)

AsksAuthor(p) ==
  /\ pc[p] = "blocks" /\ pc'[p] = "blocks" /\ held'[p] = held[p]
  /\ wrote'[p] = wrote[p] /\ previous'[p] = previous[p] /\ base'[p] = base[p]
  /\ found'[p] = found[p] /\ counted'[p] = counted[p]
  /\ \E u \in todo[p] : u \notin BlockedBy(req[p].by) /\ todo'[p] = todo[p] \ {u}

CountsThem(p) ==
  /\ pc[p] = "counts" /\ pc'[p] = "own" /\ req[p].op # "feed" /\ held'[p] = held[p]
  /\ counted'[p] = Counts(found[p])
  /\ wrote'[p] = wrote[p] /\ previous'[p] = previous[p] /\ base'[p] = base[p]
  /\ found'[p] = found[p] /\ todo'[p] = todo[p]

Quiet(p) ==
  /\ UNCHANGED <<tables, aux>>
  /\ pc[p] # "idle" /\ req'[p] = req[p]
  /\ \/ Passes(p) \/ Inserts(p) \/ ReadsVector(p) \/ WritesVector(p) \/ ReadsPrevious(p)
     \/ Upserts(p) \/ RefersUser(p) \/ LocksUser(p) \/ LocksPost(p) \/ LocksRow(p)
     \/ Serves(p) \/ AsksAuthor(p) \/ CountsThem(p)

(* The end of a request without a result, and its beginning. *)
Blank(p) ==
  /\ pc'[p] = "idle" /\ req'[p] = NoReq /\ wrote'[p] = {} /\ held'[p] = {} /\ previous'[p] = "none"
  /\ base'[p] = <<>> /\ found'[p] = {} /\ todo'[p] = {} /\ counted'[p] = {}

Ended(p) ==
  /\ pc[p] # "idle" /\ Blank(p) /\ Note(p) /\ UNCHANGED tables
  /\ interrupted \subseteq interrupted' /\ interrupted' \subseteq User
  /\ Running(p, "update") /\ pc[p] \in {"embed", "embedding", "init"} => req[p].by \in interrupted'

Began(p, r) ==
  /\ r \in Request /\ pc[p] = "idle" /\ pc'[p] = "connect" /\ req'[p] = r /\ Kept(p)
  /\ r.op = "publish" => posts[r.m] = "unused"
  /\ posts' = IF r.op = "publish" THEN [posts EXCEPT ![r.m] = "taken"] ELSE posts
  /\ blocked' = [blocked EXCEPT ![p] = {u \in User : <<r.by, u>> \in blocks}]
  /\ clean' = IF \E q \in Proc : pc[q] # "idle" /\ req[q].by = r.by /\ Writing(req[q]) /\ Writing(r)
              THEN clean \ {r.by} ELSE clean
  /\ UNCHANGED <<accounts, reaction, vector, blocks, overlapped, moved, interrupted>>

(* What is committed. *)
CommitsMove(p) ==
  LET r == req[p]
  IN /\ pc[p] = "commit" /\ Blank(p)
     /\ posts' = IF r.op = "publish" THEN [posts EXCEPT ![r.m] = "stored"] ELSE posts
     /\ reaction' = IF "row" \in wrote[p] /\ r.op = "react"
                    THEN [reaction EXCEPT ![r.m][r.by] = r.reaction] ELSE reaction
     /\ vector' = IF "user" \in wrote[p] /\ r.by \in accounts
                  THEN [vector EXCEPT ![r.by] = base[p]] ELSE vector
     /\ UNCHANGED <<accounts, blocks, interrupted>>

CommitsRemoval(p) ==
  /\ pc[p] = "cascade" /\ req[p].op = "unpublish" /\ Blank(p)
  /\ Cascaded(p)
  /\ UNCHANGED <<accounts, vector, interrupted>>

CommitsBlock(p) ==
  LET r == req[p]
  IN /\ pc[p] = "row" /\ Blank(p)
     /\ blocks' \in {blocks \cup {<<r.by, r.to>>}, blocks \ {<<r.by, r.to>>}}
     /\ blocks' = blocks \ {<<r.by, r.to>>} \/ (r.by # r.to /\ {r.by, r.to} \subseteq accounts)
     /\ UNCHANGED <<accounts, posts, reaction, vector, interrupted>>

CommitsVector(p, to) ==
  LET r == req[p]
  IN /\ r.op = "update" /\ Free(p) /\ Kept(p) /\ req'[p] = r
     /\ vector' = IF r.by \in accounts THEN [vector EXCEPT ![r.by] = to] ELSE vector
     /\ UNCHANGED <<accounts, posts, reaction, blocks>>
     /\ \/ /\ to = <<>> /\ pc[p] = "reset" /\ pc'[p] = "embed" /\ UNCHANGED interrupted
        \/ /\ to = <<Tags>> /\ pc[p] = "init" /\ pc'[p] \in {"code", "overwrite"}
           /\ interrupted' = interrupted \ {r.by}

(* The profile, or the removal of a post that is gone. *)
CommitsProfile(p) ==
  pc[p] \in {"overwrite", "remove"} /\ Blank(p) /\ UNCHANGED <<tables, interrupted>>

CommitsDrop(p) ==
  LET u == req[p].by
  IN /\ pc[p] = "cascade" /\ req[p].op = "drop" /\ Blank(p)
     /\ Cascaded(p)
     /\ accounts' = accounts \ {u}
     /\ vector' = [vector EXCEPT ![u] = <<>>]
     /\ UNCHANGED interrupted

CommitsAny(p) ==
  \/ CommitsMove(p) \/ CommitsRemoval(p) \/ CommitsBlock(p)
  \/ CommitsVector(p, <<>>) \/ CommitsVector(p, <<Tags>>) \/ CommitsProfile(p) \/ CommitsDrop(p)

Moved(p) ==
  /\ Aside(p) /\ LocalTypes'
  /\ \/ Quiet(p) \/ Ended(p) \/ \E r : Began(p, r)
     \/ pc[p] # "idle" /\ Note(p) /\ CommitsAny(p)

Still == UNCHANGED <<tables, pc, req, locals, aux>>

-----------------------------------------------------------------------------
LEMMA FailsMoves ==
  ASSUME TInv, NEW p \in Proc, pc[p] # "idle", Fails(p)
  PROVE  Moved(p) /\ pc'[p] = "idle"
<1>1. Types
  BY DEF TInv
<1>2. Finish(p) /\ Note(p) /\ UNCHANGED tables
  BY DEF Fails
<1>3. Aside(p) /\ LocalTypes' /\ Blank(p)
  BY <1>1, <1>2 DEF Finish, Aside, LocalTypes, Blank, Types, Statement, Reaction
<1>4. req[p] \in Request
  BY <1>1 DEF Types
<1>5. Ended(p)
  BY <1>1, <1>2, <1>3, <1>4, RequestFields DEF Ended, Fails, Types
<1>6. QED
  BY <1>3, <1>5 DEF Moved, Blank

(* A step of p that changes no local variable of another request. *)
Varies(p) ==
  /\ \A q \in Proc \ {p} :
       /\ wrote'[q] = wrote[q] /\ previous'[q] = previous[q] /\ base'[q] = base[q]
       /\ found'[q] = found[q] /\ todo'[q] = todo[q] /\ counted'[q] = counted[q]
       /\ held'[q] = held[q]
  /\ wrote' \in [Proc -> SUBSET {"row", "post", "key", "user"}]
  /\ held' \in [Proc -> SUBSET Row]
  /\ previous' \in [Proc -> Reaction]
  /\ base' \in [Proc -> Seq(Move)]
  /\ found' \in [Proc -> SUBSET Post]
  /\ todo' \in [Proc -> SUBSET User]
  /\ counted' \in [Proc -> SUBSET (Post \X Reaction)]

LEMMA GotoMoves ==
  ASSUME TInv, NEW p \in Proc, NEW next \in Statement, Goto(p, next), Varies(p)
  PROVE  Aside(p) /\ LocalTypes' /\ UNCHANGED <<tables, aux>> /\ req'[p] = req[p] /\ pc'[p] = next
<1>1. Types /\ pc' = [pc EXCEPT ![p] = next] /\ UNCHANGED <<ahead, req, tables, aux>>
  BY DEF TInv, Goto
<1>2. UNCHANGED <<tables, aux>> /\ req'[p] = req[p] /\ pc'[p] = next
  BY <1>1 DEF Types
<1>3. Aside(p)
  BY <1>1 DEF Aside, Types, Varies
<1>4. pc' \in [Proc -> Statement] /\ req' \in [Proc -> Request \cup {NoReq}] /\ ahead' \subseteq Request
  BY <1>1 DEF Types
<1>5. QED
  BY <1>2, <1>3, <1>4 DEF LocalTypes, Varies

LEMMA KeptVaries ==
  ASSUME TInv, UNCHANGED locals, NEW p \in Proc
  PROVE  Varies(p) /\ Kept(p)
BY DEF TInv, Types, Varies, Kept, locals

LEMMA ReadMoves ==
  ASSUME TInv, NEW p \in Proc, NEW at \in Statement \ {"idle"}, NEW ok, NEW next \in Statement,
         Read(p, at, ok, next)
  PROVE  \/ Moved(p) /\ pc'[p] = "idle" /\ UNCHANGED embedder
         \/ /\ Aside(p) /\ LocalTypes' /\ UNCHANGED <<tables, aux>> /\ req'[p] = req[p]
            /\ pc[p] = at /\ pc'[p] = next /\ Kept(p) /\ ok /\ UNCHANGED embedder
<1>1. pc[p] = at /\ pc[p] # "idle"
  BY DEF Read
<1>2. CASE Rollback(p)
  BY <1>1, <1>2, FailsMoves DEF Rollback
<1>3. CASE ok /\ Goto(p, next) /\ UNCHANGED locals
  BY <1>1, <1>3, KeptVaries, GotoMoves DEF Goto
<1>4. QED
  BY <1>2, <1>3 DEF Read

LEMMA RequestIs ==
  ASSUME TInv, NEW p \in Proc, pc[p] # "idle"
  PROVE  /\ req[p] \in Request /\ req[p].op \in Ops /\ req[p].by \in User
         /\ pc[p] \in Places(req[p].op) /\ previous[p] \in Reaction
         /\ \A op : Running(p, op) <=> req[p].op = op
<1>1. req[p] \in Request /\ previous[p] \in Reaction
  BY DEF TInv, Types
<1>2. QED
  BY <1>1, RequestFields DEF TInv, Placed, Running

(* What a step of p does to the embedder. *)
Asked(p) ==
  IF pc[p] = "embed" /\ pc'[p] = "embedding" THEN Ask(p)
  ELSE IF pc[p] = "embedding"
       THEN Abandon(p) \/ \E i \in DOMAIN running : running[i] = p /\ Respond(i)
       ELSE UNCHANGED embedder

LEMMA ConnectMoves ==
  ASSUME TInv, NEW p \in Proc, Connect(p)
  PROVE  Moved(p) /\ Asked(p)
<1>1. Read(p, "connect", req[p].by \in accounts, First(req[p]))
  BY DEF Connect
<1>2. pc[p] = "connect"
  BY <1>1 DEF Read
<1>3. First(req[p]) \in Statement
  BY <1>2, RequestIs DEF First, Statement, Ops
<1>4. "connect" \in Statement \ {"idle"}
  BY DEF Statement
<1>5. CASE Moved(p) /\ pc'[p] = "idle" /\ UNCHANGED embedder
  BY <1>2, <1>5 DEF Asked
<1>6. CASE /\ Aside(p) /\ LocalTypes' /\ UNCHANGED <<tables, aux>> /\ req'[p] = req[p]
           /\ pc'[p] = First(req[p]) /\ Kept(p) /\ req[p].by \in accounts /\ UNCHANGED embedder
  BY <1>2, <1>6 DEF Moved, Quiet, Passes, Asked
<1>7. \/ Moved(p) /\ pc'[p] = "idle" /\ UNCHANGED embedder
      \/ /\ Aside(p) /\ LocalTypes' /\ UNCHANGED <<tables, aux>> /\ req'[p] = req[p]
         /\ pc'[p] = First(req[p]) /\ Kept(p) /\ req[p].by \in accounts /\ UNCHANGED embedder
  BY <1>1, <1>3, <1>4, ReadMoves
<1>8. QED
  BY <1>5, <1>6, <1>7

(* The statements that only check something. *)
LEMMA CheckMoves ==
  ASSUME TInv, NEW p \in Proc, NEW at, NEW ok, NEW next, Read(p, at, ok, next),
         \/ at = "parent" /\ next \in {"embed", "insert"} /\ req[p].op = "publish"
         \/ at = "post" /\ next = "previous" /\ req[p].op = "react" /\ (ok => Stored(req[p].m))
         \/ <<at, next>> \in {<<"author", "remove">>, <<"target", "row">>, <<"code", "overwrite">>,
                              <<"liked", "candidates">>, <<"own", "comments">>}
  PROVE  Moved(p) /\ Asked(p)
<1>1. at \in Statement \ {"idle"} /\ next \in Statement
  BY DEF Statement
<1>2. at \notin {"embed", "embedding"}
  OBVIOUS
<1>3. pc[p] = at
  BY DEF Read
<1>4. CASE Moved(p) /\ pc'[p] = "idle" /\ UNCHANGED embedder
  BY <1>2, <1>3, <1>4 DEF Asked
<1>5. CASE /\ Aside(p) /\ LocalTypes' /\ UNCHANGED <<tables, aux>> /\ req'[p] = req[p]
           /\ pc'[p] = next /\ Kept(p) /\ ok /\ UNCHANGED embedder
  <2>1. Passes(p)
    BY <1>3, <1>5 DEF Passes
  <2>2. pc[p] # "idle"
    BY <1>1, <1>3
  <2>3. QED
    BY <1>2, <1>3, <1>5, <2>1, <2>2 DEF Moved, Quiet, Asked
<1>6. QED
  BY <1>1, <1>4, <1>5, ReadMoves

LEMMA EmbedMoves ==
  ASSUME TInv, NEW p \in Proc, Embed(p)
  PROVE  Moved(p) /\ Asked(p)
<1>1. pc[p] = "embed" /\ Ask(p) /\ pc' = [pc EXCEPT ![p] = "embedding"]
      /\ UNCHANGED <<tables, ahead, req, locals, aux>>
  BY DEF Embed
<1>2. Types
  BY DEF TInv
<1>3. pc'[p] = "embedding" /\ pc' \in [Proc -> Statement] /\ \A q \in Proc \ {p} : pc'[q] = pc[q]
  BY <1>1, <1>2 DEF Types, Statement
<1>4. Aside(p) /\ LocalTypes' /\ Kept(p) /\ req'[p] = req[p]
  BY <1>1, <1>2, <1>3 DEF Aside, LocalTypes, Types, Kept, locals
<1>5. QED
  BY <1>1, <1>3, <1>4 DEF Moved, Quiet, Passes, Asked

LEMMA AnswerMoves ==
  ASSUME TInv, NEW i, Answer(i)
  PROVE  \/ Still /\ ahead' = ahead /\ running[i] = Orphan
         \/ running[i] \in Proc /\ Moved(running[i]) /\ Asked(running[i])
<1>1. i \in DOMAIN running /\ Respond(i) /\ Waiting(running[i]) /\ running[i] \in Job
  BY RespondWaits DEF TInv, Answer
<1>2. CASE running[i] = Orphan
  BY <1>2 DEF Answer, Still
<1>3. CASE running[i] \in Proc
  <2> DEFINE p == running[i]
  <2>1. pc[p] = "embedding" /\ p # Orphan
    BY <1>1, <1>3, ProcNotJob DEF TInv, Linked
  <2>2. Asked(p)
    BY <1>1, <2>1 DEF Asked
  <2>3. CASE Fails(p)
    BY <1>3, <2>1, <2>2, <2>3, FailsMoves
  <2>4. CASE pc' = [pc EXCEPT ![p] = Answered(req[p])] /\ UNCHANGED <<tables, ahead, req, locals, aux>>
    <3>1. Types
      BY DEF TInv
    <3>2. pc'[p] = Answered(req[p]) /\ pc' \in [Proc -> Statement] /\ \A q \in Proc \ {p} : pc'[q] = pc[q]
      BY <1>3, <2>4, <3>1 DEF Types, Statement, Answered
    <3>3. Aside(p) /\ LocalTypes' /\ Kept(p) /\ req'[p] = req[p]
      BY <1>3, <2>4, <3>1, <3>2 DEF Aside, LocalTypes, Types, Kept, locals
    <3>4. QED
      BY <1>3, <2>1, <2>2, <2>4, <3>2, <3>3 DEF Moved, Quiet, Passes
  <2>5. QED
    BY <2>1, <2>3, <2>4 DEF Answer
<1>4. QED
  BY <1>1, <1>2, <1>3 DEF Job

LEMMA InsertMoves ==
  ASSUME TInv, NEW p \in Proc, Running(p, "publish"), InsertPost(p)
  PROVE  Moved(p) /\ Asked(p)
<1>1. pc[p] = "insert" /\ req[p].op = "publish"
  BY DEF InsertPost, Running
<1>2. CASE Rollback(p)
  BY <1>1, <1>2, FailsMoves DEF Rollback, Asked
<1>3. CASE /\ wrote' = [wrote EXCEPT ![p] = @ \cup {"post", "key"}]
           /\ Goto(p, "vector")
           /\ UNCHANGED <<held, previous, base, found, todo, counted>>
           /\ req[p].by \in accounts /\ (Parent[req[p].m] # NoPost => Stored(Parent[req[p].m]))
  <2>2. "vector" \in Statement
    BY DEF Statement
  <2>5. Varies(p) /\ wrote'[p] = wrote[p] \cup {"post", "key"}
    BY <1>3 DEF TInv, Types, Varies
  <2>3. /\ Aside(p) /\ LocalTypes' /\ UNCHANGED <<tables, aux>> /\ req'[p] = req[p]
        /\ pc'[p] = "vector"
    BY <1>3, <2>2, <2>5, GotoMoves
  <2>4. Inserts(p)
    BY <1>1, <1>3, <2>3, <2>5 DEF InsertPost, Inserts, KeptBut
  <2>6. QED
    BY <1>1, <1>3, <2>3, <2>4 DEF Moved, Quiet, Asked, Goto
<1>4. QED
  BY <1>1, <1>2, <1>3 DEF InsertPost

LEMMA ReadVectorMoves ==
  ASSUME TInv, NEW p \in Proc, ReadVector(p)
  PROVE  Moved(p) /\ Asked(p)
<1> DEFINE r == req[p]
           mv == TheMove(r, previous[p])
<1>1. pc[p] = "vector" /\ r \in Request /\ r.op \in {"publish", "react"} /\ r.by \in User
      /\ previous[p] \in Reaction
  BY RequestIs DEF ReadVector, Places, Ops
<1>2. mv \in Move
  BY <1>1, MoveType DEF TInv, Placed
<1>3. CASE Rollback(p)
  BY <1>1, <1>3, FailsMoves DEF Rollback, Asked
<1>4. CASE r.by \in accounts /\ vector[r.by] = <<>> /\ Away(mv) /\ Goto(p, "commit") /\ UNCHANGED locals
  <2>1. "commit" \in Statement
    BY DEF Statement
  <2>2. Passes(p) /\ Aside(p) /\ LocalTypes' /\ UNCHANGED <<tables, aux>> /\ req'[p] = req[p]
    BY <1>1, <1>4, <2>1, KeptVaries, GotoMoves DEF Passes
  <2>3. QED
    BY <1>1, <1>4, <2>2 DEF Moved, Quiet, Asked, Goto
<1>5. CASE /\ r.by \in accounts
           /\ base' = [base EXCEPT ![p] = Append(vector[r.by], mv)]
           /\ Goto(p, "write")
           /\ UNCHANGED <<wrote, held, previous, found, todo, counted>>
  <2>1. vector[r.by] \in Seq(Move)
    BY <1>1 DEF TInv, Types
  <2>2. Append(vector[r.by], mv) \in Seq(Move)
    BY <1>2, <2>1
  <2>3. "write" \in Statement
    BY DEF Statement
  <2>4. PICK b \in Seq(Move) : b = Append(vector[r.by], mv) /\ base' = [base EXCEPT ![p] = b]
    BY <1>5, <2>2
  <2>5. Varies(p) /\ base'[p] = b
    BY <1>5, <2>4 DEF TInv, Types, Varies
  <2>6. /\ Aside(p) /\ LocalTypes' /\ UNCHANGED <<tables, aux>> /\ req'[p] = req[p]
        /\ pc'[p] = "write"
    BY <1>5, <2>3, <2>5, GotoMoves
  <2>7. ReadsVector(p)
    BY <1>1, <1>5, <2>4, <2>5, <2>6 DEF ReadsVector, KeptBut
  <2>8. QED
    BY <1>1, <1>5, <2>6, <2>7 DEF Moved, Quiet, Asked, Goto
<1>6. QED
  BY <1>1, <1>3, <1>4, <1>5 DEF ReadVector, Blend

LEMMA WriteVectorMoves ==
  ASSUME TInv, NEW p \in Proc, WriteVector(p)
  PROVE  Moved(p) /\ Asked(p)
<1>1. pc[p] = "write" /\ Free(p) /\ Goto(p, "commit")
      /\ wrote' = [wrote EXCEPT ![p] = wrote[p] \cup {"user"}]
      /\ UNCHANGED <<held, previous, base, found, todo, counted>>
  BY DEF WriteVector
<1>2. "commit" \in Statement
  BY DEF Statement
<1>3. Varies(p) /\ wrote'[p] = wrote[p] \cup {"user"}
  BY <1>1 DEF TInv, Types, Varies
<1>4. Aside(p) /\ LocalTypes' /\ UNCHANGED <<tables, aux>> /\ req'[p] = req[p] /\ pc'[p] = "commit"
  BY <1>1, <1>2, <1>3, GotoMoves
<1>5. WritesVector(p)
  BY <1>1, <1>3, <1>4 DEF WritesVector, KeptBut
<1>6. QED
  BY <1>1, <1>4, <1>5 DEF Moved, Quiet, Asked, Goto

LEMMA ReadPreviousMoves ==
  ASSUME TInv, NEW p \in Proc, Running(p, "react"), ReadPrevious(p)
  PROVE  Moved(p) /\ Asked(p)
<1> DEFINE x == reaction[req[p].m][req[p].by]
<1>1. pc[p] = "previous" /\ req[p].op = "react" /\ Goto(p, "upsert")
      /\ previous' = [previous EXCEPT ![p] = x]
      /\ UNCHANGED <<wrote, held, base, found, todo, counted>>
  BY DEF ReadPrevious, Running
<1>2. "upsert" \in Statement /\ req[p] \in Request
  BY <1>1, RequestIs DEF Statement
<1>3. x \in Reaction
  BY <1>1, <1>2, RequestFields DEF TInv, Types
<1>4. Varies(p) /\ previous'[p] = x
  BY <1>1, <1>3 DEF TInv, Types, Varies
<1>5. Aside(p) /\ LocalTypes' /\ UNCHANGED <<tables, aux>> /\ req'[p] = req[p] /\ pc'[p] = "upsert"
  BY <1>1, <1>2, <1>4, GotoMoves
<1>6. ReadsPrevious(p)
  BY <1>1, <1>4, <1>5 DEF ReadsPrevious, KeptBut
<1>7. QED
  BY <1>1, <1>5, <1>6 DEF Moved, Quiet, Asked, Goto

LEMMA UpsertMoves ==
  ASSUME TInv, NEW p \in Proc, Running(p, "react"), Upsert(p)
  PROVE  Moved(p) /\ Asked(p)
<1> DEFINE r == req[p]
           exists == reaction[r.m][r.by] # "none"
           inserts == ~exists /\ r.reaction # "none"
           lk == IF exists THEN {"row"} ELSE IF inserts THEN {"row", "post"} ELSE {}
           next == IF inserts THEN "refer" ELSE AfterUpsert(p)
<1>1. pc[p] = "upsert" /\ r.op = "react" /\ Free(p)
  BY DEF Upsert, Running
<1>2. CASE Rollback(p)
  BY <1>1, <1>2, FailsMoves DEF Rollback, Asked
<1>3. CASE /\ inserts => Stored(r.m)
           /\ wrote' = [wrote EXCEPT ![p] = wrote[p] \cup lk]
           /\ Goto(p, next)
           /\ UNCHANGED <<held, previous, base, found, todo, counted>>
  <2>1. lk \subseteq {"row", "post"}
    OBVIOUS
  <2>2. next \in Statement
    BY DEF Statement, AfterUpsert
  <2> HIDE DEF next, lk
  <2>3. Varies(p) /\ wrote'[p] = wrote[p] \cup lk
    BY <1>3, <2>1 DEF TInv, Types, Varies
  <2>4. Aside(p) /\ LocalTypes' /\ UNCHANGED <<tables, aux>> /\ req'[p] = req[p] /\ pc'[p] = next
    BY <1>3, <2>2, <2>3, GotoMoves
  <2>5. Upserts(p)
    BY <1>1, <1>3, <2>3, <2>4 DEF Upserts, KeptBut, next, lk
  <2>6. QED
    BY <1>1, <1>3, <2>4, <2>5 DEF Moved, Quiet, Asked, Goto
<1>4. QED
  BY <1>1, <1>2, <1>3 DEF Upsert

LEMMA ReferMoves ==
  ASSUME TInv, NEW p \in Proc, Running(p, "react"), Refer(p)
  PROVE  Moved(p) /\ Asked(p)
<1>1. pc[p] = "refer" /\ req[p].op = "react" /\ Free(p)
  BY DEF Refer, Running
<1>2. CASE Rollback(p)
  BY <1>1, <1>2, FailsMoves DEF Rollback, Asked
<1>3. CASE /\ req[p].by \in accounts
           /\ wrote' = [wrote EXCEPT ![p] = wrote[p] \cup {"key"}]
           /\ Goto(p, AfterUpsert(p))
           /\ UNCHANGED <<held, previous, base, found, todo, counted>>
  <2>1. AfterUpsert(p) \in Statement
    BY DEF Statement, AfterUpsert
  <2>2. Varies(p) /\ wrote'[p] = wrote[p] \cup {"key"}
    BY <1>3 DEF TInv, Types, Varies
  <2>3. /\ Aside(p) /\ LocalTypes' /\ UNCHANGED <<tables, aux>> /\ req'[p] = req[p]
        /\ pc'[p] = AfterUpsert(p)
    BY <1>3, <2>1, <2>2, GotoMoves
  <2>4. RefersUser(p)
    BY <1>1, <1>3, <2>2, <2>3 DEF RefersUser, KeptBut
  <2>5. QED
    BY <1>1, <1>3, <2>3, <2>4 DEF Moved, Quiet, Asked, Goto
<1>4. QED
  BY <1>1, <1>2, <1>3 DEF Refer

(* What ends a request with something committed. *)
LEMMA FinishMoves ==
  ASSUME TInv, NEW p \in Proc, Finish(p)
  PROVE  Aside(p) /\ LocalTypes' /\ Blank(p)
<1>1. Types
  BY DEF TInv
<1>2. QED
  BY <1>1 DEF Finish, Aside, LocalTypes, Blank, Types, Statement, Reaction

LEMMA CommitsMoves ==
  ASSUME TInv, NEW p \in Proc, Commits(p, "idle")
  PROVE  Aside(p) /\ LocalTypes' /\ Blank(p) /\ Note(p) /\ UNCHANGED embedder
BY FinishMoves DEF Commits

LEMMA CommitMoves ==
  ASSUME TInv, NEW p \in Proc, Commit(p)
  PROVE  Moved(p) /\ Asked(p)
<1>1. Aside(p) /\ LocalTypes' /\ Blank(p) /\ Note(p) /\ UNCHANGED embedder /\ pc[p] = "commit"
  BY CommitsMoves DEF Commit
<1>2. CommitsMove(p)
  BY <1>1 DEF Commit, CommitsMove
<1>3. QED
  BY <1>1, <1>2 DEF Moved, CommitsAny, Asked

LEMMA PublishMoves ==
  ASSUME TInv, NEW p \in Proc, Publish(p)
  PROVE  Moved(p) /\ Asked(p)
<1>1. Running(p, "publish") /\ req[p].op = "publish"
  BY DEF Publish, Running
<1>2. CASE Read(p, "parent", Stored(Parent[req[p].m]), IF req[p].text THEN "embed" ELSE "insert")
  <2>1. PICK next \in {"embed", "insert"} : next = IF req[p].text THEN "embed" ELSE "insert"
    OBVIOUS
  <2>2. Read(p, "parent", Stored(Parent[req[p].m]), next)
    BY <1>2, <2>1
  <2>3. QED
    BY <1>1, <2>2, CheckMoves
<1>3. QED
  BY <1>1, <1>2, EmbedMoves, InsertMoves, ReadVectorMoves, WriteVectorMoves, CommitMoves DEF Publish

LEMMA ReactMoves ==
  ASSUME TInv, NEW p \in Proc, React(p)
  PROVE  Moved(p) /\ Asked(p)
<1>1. Running(p, "react") /\ req[p].op = "react"
  BY DEF React, Running
<1>2. CASE Read(p, "post", Stored(req[p].m), "previous")
  BY <1>1, <1>2, CheckMoves
<1>3. QED
  BY <1>1, <1>2, ReadPreviousMoves, UpsertMoves, ReferMoves, ReadVectorMoves, WriteVectorMoves, CommitMoves DEF React

(* The rows a cascade locks are rows. *)
LEMMA DoomedRows ==
  ASSUME TInv, NEW p \in Proc
  PROVE  Doomed(p) \subseteq Row
<1>1. \A m \in Post : PostRow(m) \in Row
  BY DEF PostRow, Row
<1>2. \A mu \in Post \X User : ReactionRow(mu[1], mu[2]) \in Row
  BY DEF ReactionRow, Row
<1>3. \A b \in User \X User : BlockRow(b[1], b[2]) \in Row
  BY DEF BlockRow, Row
<1>4. DoomedPosts(p) \subseteq Post /\ DoomedReactions(p) \subseteq Post \X User
      /\ DoomedBlocks(p) \subseteq User \X User
  BY DEF TInv, Types, DoomedPosts, DoomedReactions, DoomedBlocks
<1>5. QED
  BY <1>1, <1>2, <1>3, <1>4 DEF Doomed

LEMMA CascadeMoves ==
  ASSUME TInv, NEW p \in Proc, Cascade(p)
  PROVE  Moved(p) /\ Asked(p)
<1>1. PICK row \in Doomed(p) \ held[p] :
        /\ \A q \in Proc \ {p} : ~Holds(q, row)
        /\ held' = [held EXCEPT ![p] = held[p] \cup {row}]
  BY DEF Cascade
<1>2. pc[p] = "cascade" /\ Goto(p, "cascade") /\ UNCHANGED <<wrote, previous, base, found, todo, counted>>
  BY DEF Cascade
<1>3. row \in Row
  BY DoomedRows
<1>4. Varies(p) /\ held'[p] = held[p] \cup {row}
  BY <1>1, <1>2, <1>3 DEF TInv, Types, Varies
<1>5. "cascade" \in Statement
  BY DEF Statement
<1>6. Aside(p) /\ LocalTypes' /\ UNCHANGED <<tables, aux>> /\ req'[p] = req[p] /\ pc'[p] = "cascade"
  BY <1>2, <1>4, <1>5, GotoMoves
<1>7. LocksRow(p)
  BY <1>1, <1>2, <1>4, <1>6 DEF LocksRow
<1>8. QED
  BY <1>2, <1>6, <1>7 DEF Moved, Quiet, Asked, Goto

LEMMA UnpublishMoves ==
  ASSUME TInv, NEW p \in Proc, Unpublish(p)
  PROVE  Moved(p) /\ Asked(p)
<1>0. req[p].op = "unpublish"
  BY DEF Unpublish, Running
<1>1. CASE Read(p, "author", Stored(req[p].m) /\ Author[req[p].m] = req[p].by, "remove")
  BY <1>1, CheckMoves
<1>2. ASSUME pc[p] = "remove", Free(p), Stored(req[p].m),
             held' = [held EXCEPT ![p] = {PostRow(req[p].m)}], Goto(p, "cascade"),
             UNCHANGED <<wrote, previous, base, found, todo, counted>>
      PROVE  Moved(p) /\ Asked(p)
  <2>1. req[p].m \in Post
    BY <1>0, <1>2, RequestIs, RequestFields
  <2>2. {PostRow(req[p].m)} \in SUBSET Row
    BY <2>1 DEF PostRow, Row
  <2>3. Varies(p) /\ held'[p] = {PostRow(req[p].m)}
    BY <1>2, <2>2 DEF TInv, Types, Varies
  <2>4. "cascade" \in Statement
    BY DEF Statement
  <2>5. Aside(p) /\ LocalTypes' /\ UNCHANGED <<tables, aux>> /\ req'[p] = req[p] /\ pc'[p] = "cascade"
    BY <1>2, <2>3, <2>4, GotoMoves
  <2>6. LocksPost(p)
    BY <1>0, <1>2, <2>3, <2>5 DEF LocksPost
  <2>7. QED
    BY <1>2, <2>5, <2>6 DEF Moved, Quiet, Asked, Goto
<1>3. CASE pc[p] = "remove" /\ UNCHANGED <<tables, interrupted>> /\ Commits(p, "idle")
  BY <1>3, CommitsMoves DEF Moved, CommitsAny, CommitsProfile, Asked
<1>4. CASE Cascaded(p) /\ UNCHANGED <<accounts, vector, interrupted>> /\ Commits(p, "idle")
  <2>1. Commits(p, "idle") /\ CommitsRemoval(p) /\ pc[p] = "cascade"
    BY <1>0, <1>4, CommitsMoves DEF Cascaded, CommitsRemoval
  <2>2. QED
    BY <2>1, CommitsMoves DEF Moved, CommitsAny, Asked
<1>5. QED
  BY <1>1, <1>2, <1>3, <1>4, CascadeMoves DEF Unpublish

LEMMA BlockMoves ==
  ASSUME TInv, NEW p \in Proc, Block(p)
  PROVE  Moved(p) /\ Asked(p)
<1>1. CASE Read(p, "target", req[p].to \in accounts, "row")
  BY <1>1, CheckMoves
<1>2. CASE pc[p] = "row" /\ Rollback(p)
  BY <1>2, FailsMoves DEF Rollback, Asked
<1>3. CASE /\ pc[p] = "row"
           /\ blocks' = IF req[p].on THEN blocks \cup {<<req[p].by, req[p].to>>}
                        ELSE blocks \ {<<req[p].by, req[p].to>>}
           /\ req[p].on => req[p].by # req[p].to /\ {req[p].by, req[p].to} \subseteq accounts
           /\ UNCHANGED <<accounts, posts, reaction, vector, interrupted>>
           /\ Commits(p, "idle")
  <2>1. CommitsBlock(p)
    BY <1>3, CommitsMoves DEF CommitsBlock
  <2>2. QED
    BY <1>3, <2>1, CommitsMoves DEF Moved, CommitsAny, Asked
<1>4. QED
  BY <1>1, <1>2, <1>3 DEF Block

LEMMA SetVectorMoves ==
  ASSUME TInv, NEW p \in Proc, req[p].op = "update", NEW to, NEW next \in Statement \ {"idle"},
         SetVector(p, to, next),
         \/ to = <<>> /\ pc[p] = "reset" /\ next = "embed" /\ UNCHANGED interrupted
         \/ /\ to = <<Tags>> /\ pc[p] = "init" /\ next \in {"code", "overwrite"}
            /\ interrupted' = interrupted \ {req[p].by}
  PROVE  Moved(p) /\ Asked(p)
<1>1. /\ pc' = [pc EXCEPT ![p] = next] /\ UNCHANGED <<ahead, req, locals>> /\ Note(p) /\ UNCHANGED embedder
      /\ Free(p) /\ UNCHANGED <<accounts, posts, reaction, blocks>>
      /\ vector' = IF req[p].by \in accounts THEN [vector EXCEPT ![req[p].by] = to] ELSE vector
  BY DEF SetVector, Commits
<1>2. Types
  BY DEF TInv
<1>3. pc'[p] = next /\ req'[p] = req[p] /\ Kept(p)
  BY <1>1, <1>2, KeptVaries DEF Types
<1>4. Aside(p) /\ LocalTypes'
  BY <1>1, <1>2 DEF Aside, LocalTypes, Types, locals
<1>5. CommitsVector(p, to)
  BY <1>1, <1>3 DEF CommitsVector
<1>6. pc[p] \notin {"idle", "embed", "embedding"} /\ (to = <<>> \/ to = <<Tags>>)
  OBVIOUS
<1>7. QED
  BY <1>1, <1>4, <1>5, <1>6 DEF Moved, CommitsAny, Asked

LEMMA UpdateMoves ==
  ASSUME TInv, NEW p \in Proc, Update(p)
  PROVE  Moved(p) /\ Asked(p)
<1>1. req[p].op = "update"
  BY DEF Update, Running
<1>2. CASE pc[p] = "reset" /\ SetVector(p, <<>>, "embed") /\ UNCHANGED interrupted
  <2>1. "embed" \in Statement \ {"idle"}
    BY DEF Statement
  <2>2. QED
    BY <1>1, <1>2, <2>1, SetVectorMoves
<1>3. CASE /\ pc[p] = "init"
           /\ SetVector(p, <<Tags>>, IF req[p].email THEN "code" ELSE "overwrite")
           /\ interrupted' = interrupted \ {req[p].by}
  <2>1. PICK next \in {"code", "overwrite"} : next = IF req[p].email THEN "code" ELSE "overwrite"
    OBVIOUS
  <2>2. SetVector(p, <<Tags>>, next)
    BY <1>3, <2>1
  <2>3. next \in Statement \ {"idle"}
    BY DEF Statement
  <2>4. QED
    BY <1>1, <1>3, <2>2, <2>3, SetVectorMoves
<1>4. ASSUME NEW ok \in BOOLEAN, Read(p, "code", ok, "overwrite") PROVE Moved(p) /\ Asked(p)
  BY <1>4, CheckMoves
<1>5. CASE pc[p] = "overwrite" /\ UNCHANGED <<tables, interrupted>> /\ Commits(p, "idle")
  BY <1>5, CommitsMoves DEF Moved, CommitsAny, CommitsProfile, Asked
<1>6. QED
  BY <1>1, <1>2, <1>3, <1>4, <1>5, EmbedMoves DEF Update

LEMMA DropMoves ==
  ASSUME TInv, NEW p \in Proc, Drop(p)
  PROVE  Moved(p) /\ Asked(p)
<1>1. req[p].op = "drop"
  BY DEF Drop, Running
<1>2. CASE /\ pc[p] = "drop" /\ Free(p) /\ wrote' = [wrote EXCEPT ![p] = {"user"}]
           /\ Goto(p, "cascade") /\ UNCHANGED <<held, previous, base, found, todo, counted>>
  <2>1. Varies(p) /\ wrote'[p] = {"user"}
    BY <1>2 DEF TInv, Types, Varies
  <2>2. "cascade" \in Statement
    BY DEF Statement
  <2>3. Aside(p) /\ LocalTypes' /\ UNCHANGED <<tables, aux>> /\ req'[p] = req[p] /\ pc'[p] = "cascade"
    BY <1>2, <2>1, <2>2, GotoMoves
  <2>4. LocksUser(p)
    BY <1>1, <1>2, <2>1, <2>3 DEF LocksUser, KeptBut
  <2>5. QED
    BY <1>2, <2>3, <2>4 DEF Moved, Quiet, Asked, Goto
<1>3. CASE Cascaded(p) /\ accounts' = accounts \ {req[p].by} /\ vector' = [vector EXCEPT ![req[p].by] = <<>>]
           /\ UNCHANGED interrupted /\ Commits(p, "idle")
  <2>1. Commits(p, "idle") /\ CommitsDrop(p) /\ pc[p] = "cascade"
    BY <1>1, <1>3, CommitsMoves DEF Cascaded, CommitsDrop
  <2>2. QED
    BY <2>1, CommitsMoves DEF Moved, CommitsAny, Asked
<1>4. QED
  BY <1>2, <1>3, CascadeMoves DEF Drop

LEMMA ServeMoves ==
  ASSUME TInv, NEW p \in Proc, NEW posting \in SUBSET Post, NEW next, Serve(p, posting, next),
         \/ next = "blocks" /\ req[p].op = "get" /\ pc[p] = "posts"
         \/ /\ next = "counts" /\ req[p].op \in {"getOf", "search", "feed"}
            /\ pc[p] \in {"posts", "candidates"}
            /\ \A m \in posting : Author[m] \notin BlockedBy(req[p].by)
  PROVE  Moved(p) /\ Asked(p)
<1> DEFINE t == IF next = "blocks" THEN {Author[m] : m \in posting} ELSE {}
<1>1. t \in SUBSET User /\ next \in Statement
  BY AuthorType DEF Statement
<1> HIDE DEF t
<1>2. /\ found' = [found EXCEPT ![p] = posting] /\ todo' = [todo EXCEPT ![p] = t] /\ Goto(p, next)
      /\ UNCHANGED <<wrote, held, previous, base, counted>>
  BY DEF Serve, t
<1>3. Varies(p) /\ found'[p] = posting /\ todo'[p] = t
  BY <1>1, <1>2 DEF TInv, Types, Varies
<1>4. Aside(p) /\ LocalTypes' /\ UNCHANGED <<tables, aux>> /\ req'[p] = req[p] /\ pc'[p] = next
  BY <1>1, <1>2, <1>3, GotoMoves
<1>5. Serves(p)
  BY <1>2, <1>3, <1>4 DEF Serves, t
<1>6. QED
  BY <1>2, <1>4, <1>5 DEF Moved, Quiet, Asked, Goto

LEMMA FoundMoves ==
  ASSUME TInv, NEW p \in Proc, NEW posting \in SUBSET Post, NEW next, Found(p, posting, next),
         \/ next = "blocks" /\ req[p].op = "get" /\ pc[p] = "posts"
         \/ /\ next = "counts" /\ req[p].op \in {"getOf", "search", "feed"}
            /\ pc[p] \in {"posts", "candidates"}
            /\ \A m \in posting : Author[m] \notin BlockedBy(req[p].by)
  PROVE  Moved(p) /\ Asked(p)
<1>1. CASE Rollback(p)
  BY <1>1, FailsMoves DEF Rollback, Asked
<1>2. QED
  BY <1>1, ServeMoves DEF Found

LEMMA QueryMoves ==
  ASSUME TInv, NEW p \in Proc, Query(p)
  PROVE  Moved(p) /\ Asked(p)
<1> DEFINE u == req[p].by
<1>1. pc[p] # "idle"
  BY DEF Query
<1>2. CASE FindByIds(p)
  <2>1. {m \in req[p].of : Stored(m)} \in SUBSET Post
    BY <1>2, <1>1, RequestIs, RequestFields DEF FindByIds
  <2>2. QED
    BY <1>2, <2>1, FoundMoves DEF FindByIds
<1>3. CASE FindPostsOf(p)
  <2> DEFINE S == PostsOf(req[p].author) \cap Visible(u)
  <2>1. S \in SUBSET Post /\ \A m \in S : Author[m] \notin BlockedBy(u)
    BY DEF Visible
  <2>2. Found(p, S, "counts") /\ pc[p] = "posts" /\ req[p].op = "getOf"
    BY <1>3 DEF FindPostsOf
  <2> HIDE DEF S
  <2>3. QED
    BY <2>1, <2>2, FoundMoves
<1>4. CASE FindByText(p)
  <2> DEFINE S == req[p].of \cap Visible(u)
  <2>1. S \in SUBSET Post /\ \A m \in S : Author[m] \notin BlockedBy(u)
    BY DEF Visible
  <2>2. Found(p, S, "counts") /\ pc[p] = "posts" /\ req[p].op = "search"
    BY <1>4 DEF FindByText
  <2> HIDE DEF S
  <2>3. QED
    BY <2>1, <2>2, FoundMoves
<1>5. CASE FindCandidates(p)
  <2> DEFINE rows == {m \in Visible(u) : reaction[m][u] = "none"}
             S == Ranked(u, rows)
  <2>1. S \in SUBSET Post /\ \A m \in S : Author[m] \notin BlockedBy(u)
    BY DEF Visible, Ranked
  <2>2. pc[p] = "candidates" /\ (Serve(p, S, "counts") \/ Rollback(p))
    BY <1>5 DEF FindCandidates
  <2>3. req[p].op = "feed"
    BY <1>1, <2>2, RequestIs DEF Places, Ops
  <2>4. CASE Rollback(p)
    BY <2>2, <2>4, FailsMoves DEF Rollback, Asked
  <2> HIDE DEF S
  <2>5. QED
    BY <2>1, <2>2, <2>3, <2>4, ServeMoves
<1>6. CASE CheckBlock(p)
  <2>1. pc[p] = "blocks"
    BY <1>6 DEF CheckBlock
  <2>2. CASE Rollback(p)
    BY <2>1, <2>2, FailsMoves DEF Rollback, Asked
  <2>3. ASSUME todo[p] = {}, Goto(p, "counts"), UNCHANGED locals PROVE Moved(p) /\ Asked(p)
    <3>1. "counts" \in Statement
      BY DEF Statement
    <3>2. /\ Aside(p) /\ LocalTypes' /\ UNCHANGED <<tables, aux>> /\ req'[p] = req[p]
          /\ pc'[p] = "counts" /\ Kept(p)
      BY <2>3, <3>1, KeptVaries, GotoMoves
    <3>3. Passes(p)
      BY <2>1, <2>3, <3>2 DEF Passes
    <3>4. QED
      BY <2>1, <2>3, <3>2, <3>3 DEF Moved, Quiet, Asked, Goto
  <2>4. ASSUME NEW v \in todo[p], v \in accounts \ BlockedBy(u),
               todo' = [todo EXCEPT ![p] = @ \ {v}],
               UNCHANGED <<tables, ahead, pc, req, wrote, held, previous, base, found, counted, aux, embedder>>
        PROVE  Moved(p) /\ Asked(p)
    <3>1. Aside(p) /\ LocalTypes' /\ todo'[p] = todo[p] \ {v}
      BY <2>4 DEF TInv, Types, Aside, LocalTypes
    <3>2. AsksAuthor(p)
      BY <2>1, <2>4, <3>1 DEF AsksAuthor
    <3>3. QED
      BY <1>1, <2>1, <2>4, <3>1, <3>2 DEF Moved, Quiet, Asked
  <2>5. QED
    BY <1>6, <2>2, <2>3, <2>4 DEF CheckBlock
<1>7. CASE CountReactions(p)
  <2>1. pc[p] = "counts"
    BY <1>7 DEF CountReactions
  <2>2. CASE Rollback(p)
    BY <2>1, <2>2, FailsMoves DEF Rollback, Asked
  <2>3. ASSUME req[p].op # "feed", counted' = [counted EXCEPT ![p] = Counts(found[p])],
               Goto(p, "own"), UNCHANGED <<wrote, held, previous, base, found, todo>>
        PROVE  Moved(p) /\ Asked(p)
    <3>1. Counts(found[p]) \in SUBSET (Post \X Reaction)
      BY DEF Counts, TInv, Types
    <3>2. Varies(p) /\ counted'[p] = Counts(found[p])
      BY <2>3, <3>1 DEF TInv, Types, Varies
    <3>3. "own" \in Statement
      BY DEF Statement
    <3>4. Aside(p) /\ LocalTypes' /\ UNCHANGED <<tables, aux>> /\ req'[p] = req[p] /\ pc'[p] = "own"
      BY <2>3, <3>2, <3>3, GotoMoves
    <3>5. CountsThem(p)
      BY <2>1, <2>3, <3>2, <3>4 DEF CountsThem
    <3>6. QED
      BY <2>1, <2>3, <3>4, <3>5 DEF Moved, Quiet, Asked, Goto
  <2>4. QED
    BY <1>7, <2>2, <2>3 DEF CountReactions
<1>8. CASE Read(p, "own", TRUE, "comments") \/ Read(p, "liked", TRUE, "candidates")
  BY <1>8, CheckMoves
<1>9. CASE pc[p] = "comments" /\ Rollback(p)
  BY <1>9, FailsMoves DEF Rollback, Asked
<1>10. QED
  BY <1>2, <1>3, <1>4, <1>5, <1>6, <1>7, <1>8, <1>9 DEF Query, ReadLiked

LEMMA FailMoves ==
  ASSUME TInv, NEW p \in Proc, Fail(p)
  PROVE  Moved(p) /\ Asked(p)
BY FailsMoves DEF Fail, Asked

LEMMA SubmitMoves ==
  ASSUME TInv, NEW p \in Proc, NEW r \in ahead, Submit(p, r)
  PROVE  Moved(p) /\ Asked(p)
<1>1. Types
  BY DEF TInv
<1>2. r \in Request
  BY <1>1 DEF Types
<1>3. /\ ahead' \subseteq ahead
      /\ pc[p] = "idle" /\ pc' = [pc EXCEPT ![p] = "connect"] /\ req' = [req EXCEPT ![p] = r]
      /\ UNCHANGED <<accounts, reaction, vector, blocks, locals, overlapped, moved, interrupted, embedder>>
  BY DEF Submit
<1>4. Varies(p) /\ Kept(p)
  BY <1>3, KeptVaries
<1>5. pc'[p] = "connect" /\ req'[p] = r
  BY <1>1, <1>3 DEF Types
<1>6. Aside(p)
  BY <1>1, <1>3, <1>4 DEF Aside, Types, Varies
<1>7. LocalTypes'
  BY <1>1, <1>2, <1>3, <1>4 DEF LocalTypes, Types, Varies, Statement
<1>8. Began(p, r)
  BY <1>2, <1>3, <1>4, <1>5 DEF Began, Submit
<1>9. QED
  BY <1>3, <1>6, <1>7, <1>8 DEF Moved, Asked

LEMMA StepMoves ==
  ASSUME TInv, [Next]_vars
  PROVE  \/ Still /\ ahead' = ahead /\ EmbedderTypeOK' /\ OneJob' /\ \A q \in Proc : Waiting(q)' <=> Waiting(q)
         \/ \E p \in Proc : Moved(p) /\ Asked(p)
<1>1. CASE UNCHANGED vars
  <2>1. Still /\ ahead' = ahead /\ UNCHANGED embedder
    BY <1>1 DEF vars, Still
  <2>2. QED
    BY <2>1 DEF TInv, embedder, EmbedderTypeOK, OneJob, Waiting
<1>2. CASE (Receive \/ Acquire) /\ UNCHANGED <<tables, ahead, pc, req, locals, aux>>
  BY <1>2, ReceiveWaits, AcquireWaits DEF TInv, Still
<1>3. ASSUME NEW i, Answer(i), Still, ahead' = ahead, running[i] = Orphan
      PROVE  EmbedderTypeOK' /\ OneJob' /\ \A q \in Proc : Waiting(q)' <=> Waiting(q)
  BY <1>3, RespondWaits, ProcNotJob DEF TInv, Answer
<1>4. CASE EmbedderStep
  BY <1>2, <1>3, <1>4, AnswerMoves DEF EmbedderStep
<1>5. QED
  BY <1>1, <1>4, SubmitMoves, ConnectMoves, PublishMoves, ReactMoves, UnpublishMoves, BlockMoves,
     UpdateMoves, DropMoves, QueryMoves, FailMoves DEF Next

-----------------------------------------------------------------------------
(* Types. *)
LEMMA NoteTypes ==
  ASSUME Types, NEW p \in Proc, Note(p)
  PROVE  /\ overlapped' \in [Proc -> BOOLEAN] /\ moved' \in [Proc -> SUBSET Post]
         /\ blocked' \in [Proc -> SUBSET User] /\ clean' \subseteq clean /\ clean' \subseteq User
<1>1. overlapped' \in [Proc -> BOOLEAN]
  BY DEF Note, Types
<1>2. moved' \in [Proc -> SUBSET Post] /\ blocked' \in [Proc -> SUBSET User]
  BY DEF Note, Types
<1>3. QED
  BY <1>1, <1>2 DEF Note, Types

LEMMA CascadeTypes ==
  ASSUME Types, NEW p, Cascaded(p)
  PROVE  /\ posts' \in [Post -> {"unused", "taken", "stored", "deleted"}]
         /\ reaction' \in [Post -> [User -> Reaction]]
         /\ blocks' \subseteq blocks
<1>1. posts' \in [Post -> {"unused", "taken", "stored", "deleted"}] /\ blocks' \subseteq blocks
  BY DEF Cascaded, Types
<1>2. "none" \in Reaction
  BY DEF Reaction
<1>3. ASSUME NEW m \in Post PROVE reaction'[m] \in [User -> Reaction]
  <2>1. reaction'[m] = [u \in User |-> IF ReactionRow(m, u) \in held[p] THEN "none" ELSE reaction[m][u]]
    BY DEF Cascaded
  <2>2. QED
    BY <1>2, <2>1 DEF Types
<1>4. reaction' \in [Post -> [User -> Reaction]]
  BY <1>3 DEF Cascaded
<1>5. QED
  BY <1>1, <1>4

TableTypes ==
  /\ accounts \subseteq User
  /\ posts \in [Post -> {"unused", "taken", "stored", "deleted"}]
  /\ reaction \in [Post -> [User -> Reaction]]
  /\ vector \in [User -> Seq(Move)]
  /\ blocks \subseteq User \X User
  /\ overlapped \in [Proc -> BOOLEAN]
  /\ moved \in [Proc -> SUBSET Post]
  /\ blocked \in [Proc -> SUBSET User]
  /\ clean \subseteq User
  /\ interrupted \subseteq User

LEMMA MovedTables ==
  ASSUME TInv, NEW p \in Proc, Moved(p)
  PROVE  TableTypes'
<1>1. Types /\ TableTypes
  BY DEF TInv, Types, TableTypes
<1>2. CASE Quiet(p)
  BY <1>1, <1>2 DEF Quiet, TableTypes, tables, aux
<1>3. CASE Ended(p)
  BY <1>1, <1>3, NoteTypes DEF Ended, TableTypes, tables
<1>4. ASSUME NEW r, Began(p, r) PROVE TableTypes'
  <2>1. r.by \in User /\ (r.op = "publish" => r.m \in Post)
    BY <1>4, RequestFields DEF Began
  <2>2. posts' \in [Post -> {"unused", "taken", "stored", "deleted"}]
    BY <1>1, <1>4, <2>1 DEF Began, TableTypes
  <2>3. blocked' \in [Proc -> SUBSET User] /\ clean' \subseteq User
    BY <1>1, <1>4, <2>1 DEF Began, TableTypes
  <2>4. QED
    BY <1>1, <1>4, <2>2, <2>3 DEF Began, TableTypes
<1>5. ASSUME pc[p] # "idle", Note(p), CommitsAny(p) PROVE TableTypes'
  <2> DEFINE r == req[p]
  <2>1. r \in Request /\ r.by \in User
    BY <1>5, RequestIs
  <2>2. /\ overlapped' \in [Proc -> BOOLEAN] /\ moved' \in [Proc -> SUBSET Post]
        /\ blocked' \in [Proc -> SUBSET User] /\ clean' \subseteq User
    BY <1>1, <1>5, NoteTypes
  <2> DEFINE Rest == /\ accounts' \subseteq User /\ interrupted' \subseteq User
                     /\ posts' \in [Post -> {"unused", "taken", "stored", "deleted"}]
                     /\ reaction' \in [Post -> [User -> Reaction]]
                     /\ vector' \in [User -> Seq(Move)]
                     /\ blocks' \subseteq User \X User
  <2>3. CASE CommitsMove(p)
    <3>1. r.op \in {"publish", "react"}
      BY <1>5, <2>3, RequestIs DEF CommitsMove, Places, Ops
    <3>2. r.m \in Post /\ (r.op = "react" => r.reaction \in Reaction)
      BY <2>1, <3>1, RequestFields
    <3>3. posts' \in [Post -> {"unused", "taken", "stored", "deleted"}]
      BY <1>1, <2>3, <3>2 DEF CommitsMove, TableTypes
    <3>4. reaction' \in [Post -> [User -> Reaction]]
      BY <1>1, <2>1, <2>3, <3>2 DEF CommitsMove, TableTypes
    <3>5. vector' \in [User -> Seq(Move)]
      BY <1>1, <2>1, <2>3 DEF CommitsMove, Types
    <3>6. Rest
      BY <1>1, <2>3, <3>3, <3>4, <3>5 DEF CommitsMove, TableTypes
    <3>7. QED
      BY <2>2, <3>6 DEF TableTypes
  <2>4. CASE CommitsRemoval(p)
    <3>1. /\ posts' \in [Post -> {"unused", "taken", "stored", "deleted"}]
          /\ reaction' \in [Post -> [User -> Reaction]] /\ blocks' \subseteq blocks
      BY <1>1, <2>4, CascadeTypes DEF CommitsRemoval
    <3>2. QED
      BY <1>1, <2>2, <2>4, <3>1 DEF CommitsRemoval, TableTypes
  <2>5. CASE CommitsBlock(p)
    <3>1. r.op = "block"
      BY <1>5, <2>5, RequestIs DEF CommitsBlock, Places, Ops
    <3>2. blocks' \subseteq User \X User
      <4>1. r.to \in User
        BY <2>1, <3>1, RequestFields
      <4>2. <<r.by, r.to>> \in User \X User
        BY <2>1, <4>1
      <4>3. QED
        BY <1>1, <2>5, <4>2 DEF CommitsBlock, TableTypes
    <3>3. QED
      BY <1>1, <2>2, <2>5, <3>2 DEF CommitsBlock, TableTypes
  <2>6. ASSUME NEW to \in {<<>>, <<Tags>>}, CommitsVector(p, to) PROVE TableTypes'
    <3>1. to \in Seq(Move)
      <4>1. Tags \in Move
        BY DEF Tags, Move
      <4>2. <<Tags>> \in Seq(Move) /\ <<>> \in Seq(Move)
        BY <4>1
      <4>3. QED
        BY <4>2
    <3>2. vector' \in [User -> Seq(Move)]
      BY <1>1, <2>1, <2>6, <3>1 DEF CommitsVector, TableTypes
    <3>3. QED
      BY <1>1, <2>2, <2>6, <3>2 DEF CommitsVector, TableTypes
  <2>7. CASE CommitsProfile(p)
    BY <1>1, <2>2, <2>7 DEF CommitsProfile, TableTypes, tables
  <2>8. CASE CommitsDrop(p)
    <3>1. vector' \in [User -> Seq(Move)]
      <4>1. <<>> \in Seq(Move)
        OBVIOUS
      <4>2. QED
        BY <1>1, <2>8, <4>1 DEF CommitsDrop, TableTypes
    <3>2. /\ posts' \in [Post -> {"unused", "taken", "stored", "deleted"}]
          /\ reaction' \in [Post -> [User -> Reaction]] /\ blocks' \subseteq blocks
      BY <1>1, <2>8, CascadeTypes DEF CommitsDrop
    <3>3. accounts' \subseteq User /\ interrupted' \subseteq User
      BY <1>1, <2>8 DEF CommitsDrop, TableTypes
    <3>4. QED
      BY <1>1, <2>2, <3>1, <3>2, <3>3 DEF TableTypes
  <2>9. QED
    BY <1>5, <2>3, <2>4, <2>5, <2>6, <2>7, <2>8 DEF CommitsAny
<1>6. QED
  BY <1>2, <1>3, <1>4, <1>5 DEF Moved

(* Where a request of this kind goes next. *)
LEMMA MovedPlaces ==
  ASSUME TInv, NEW p \in Proc, Moved(p)
  PROVE  Placed(p)' /\ (pc'[p] = "idle" <=> req'[p] = NoReq)
<1>1. /\ pc[p] = "idle" <=> req[p] = NoReq
      /\ Placed(p)
  BY DEF TInv, Types
<1>2. CASE Quiet(p)
  <2> DEFINE r == req[p]
  <2>1. /\ pc[p] # "idle" /\ req'[p] = r /\ r \in Request /\ r.op \in Ops /\ pc[p] \in Places(r.op)
        /\ previous[p] \in Reaction
    BY <1>2, RequestIs DEF Quiet
  <2>2. CASE Passes(p)
    <3>1. pc'[p] \in Places(r.op) /\ pc'[p] # "idle"
      BY <2>1, <2>2 DEF Passes, Places, Ops, First, Answered
    <3>2. pc'[p] \notin {"vector", "write"}
      BY <2>1, <2>2 DEF Passes, Ops, First, Answered
    <3>3. QED
      BY <1>1, <2>1, <3>1, <3>2 DEF Placed
  <2>3. CASE Inserts(p)
    <3>1. pc'[p] = "vector" /\ r.op = "publish" /\ previous'[p] = previous[p]
      BY <2>3 DEF Inserts
    <3>2. TheMove(r, previous[p]) # NoMove
      BY <2>1, <3>1, MoveType
    <3>3. pc'[p] \in Places(r.op)
      BY <3>1 DEF Places
    <3>4. QED
      BY <1>1, <2>1, <3>1, <3>2, <3>3 DEF Placed
  <2>4. CASE ReadsVector(p)
    <3>1. pc'[p] = "write" /\ pc[p] = "vector" /\ previous'[p] = previous[p]
      BY <2>4 DEF ReadsVector
    <3>2. r.op \in {"publish", "react"} /\ pc'[p] \in Places(r.op)
      BY <2>1, <3>1 DEF Places, Ops
    <3>3. QED
      BY <1>1, <2>1, <3>1, <3>2 DEF Placed
  <2>5. CASE WritesVector(p)
    <3>1. pc'[p] = "commit" /\ pc[p] = "write"
      BY <2>5 DEF WritesVector
    <3>2. pc'[p] \in Places(r.op)
      BY <2>1, <3>1 DEF Places, Ops
    <3>3. QED
      BY <1>1, <2>1, <3>1, <3>2 DEF Placed
  <2>6. CASE ReadsPrevious(p)
    BY <1>1, <2>1, <2>6 DEF ReadsPrevious, Placed, Places
  <2>7. CASE Upserts(p)
    <3>1. r.op = "react" /\ previous'[p] = previous[p]
          /\ \/ pc'[p] = "refer"
             \/ pc'[p] = IF TheMove(r, previous[p]) = NoMove THEN "commit" ELSE "vector"
      BY <2>7 DEF Upserts, AfterUpsert
    <3>2. pc'[p] \in Places(r.op)
      BY <3>1 DEF Places
    <3>3. QED
      BY <1>1, <2>1, <3>1, <3>2 DEF Placed
  <2>8. CASE LocksUser(p) \/ LocksPost(p) \/ LocksRow(p)
    <3>1. pc'[p] \in Places(r.op) /\ pc'[p] = "cascade"
      BY <2>1, <2>8 DEF LocksUser, LocksPost, LocksRow, Places, Ops
    <3>2. QED
      BY <1>1, <2>1, <3>1 DEF Placed
  <2>11. CASE RefersUser(p)
    <3>1. r.op = "react" /\ previous'[p] = previous[p]
          /\ pc'[p] = IF TheMove(r, previous[p]) = NoMove THEN "commit" ELSE "vector"
      BY <2>11 DEF RefersUser, AfterUpsert
    <3>2. pc'[p] \in Places(r.op)
      BY <3>1 DEF Places
    <3>3. QED
      BY <1>1, <2>1, <3>1, <3>2 DEF Placed
  <2>9. CASE Serves(p) \/ AsksAuthor(p) \/ CountsThem(p)
    <3>1. pc'[p] \in Places(r.op) /\ pc'[p] \notin {"idle", "vector", "write"}
      BY <2>1, <2>9 DEF Serves, AsksAuthor, CountsThem, Places, Ops
    <3>2. QED
      BY <1>1, <2>1, <3>1 DEF Placed
  <2>10. QED
    BY <1>2, <2>2, <2>3, <2>4, <2>5, <2>6, <2>7, <2>8, <2>9, <2>11 DEF Quiet
<1>3. CASE Blank(p)
  BY <1>3 DEF Blank, Placed
<1>4. ASSUME NEW r, Began(p, r) PROVE Placed(p)' /\ (pc'[p] = "idle" <=> req'[p] = NoReq)
  <2>1. r # NoReq /\ r.op \in Ops /\ pc'[p] = "connect" /\ req'[p] = r
    BY <1>4, NoReqIsNone, RequestFields DEF Began
  <2>2. QED
    BY <2>1 DEF Placed, Places
<1>5. ASSUME NEW to, CommitsVector(p, to), pc[p] # "idle"
      PROVE  Placed(p)' /\ (pc'[p] = "idle" <=> req'[p] = NoReq)
  BY <1>1, <1>5 DEF CommitsVector, Placed, Places, Ops
<1>6. QED
  BY <1>2, <1>3, <1>4, <1>5
     DEF Moved, Ended, CommitsAny, CommitsMove, CommitsRemoval, CommitsBlock, CommitsProfile, CommitsDrop

LEMMA MovedLinks ==
  ASSUME TInv, NEW p \in Proc, Moved(p), Asked(p)
  PROVE  EmbedderTypeOK' /\ OneJob' /\ Linked'
<1>1. EmbedderTypeOK /\ OneJob /\ Linked /\ Aside(p)
  BY DEF TInv, Moved
<1>2. pc'[p] = "embedding" => pc[p] = "embed"
  <2>1. CASE Quiet(p)
    <3>1. pc[p] # "idle" /\ req[p].op \in Ops
      BY <2>1, RequestIs DEF Quiet
    <3>2. First(req[p]) # "embedding" /\ Answered(req[p]) # "embedding"
      BY <3>1 DEF First, Answered, Ops
    <3>3. QED
      BY <2>1, <3>2 DEF Quiet, Passes, Inserts, ReadsVector, WritesVector, ReadsPrevious, Upserts,
                        RefersUser, AfterUpsert, LocksUser, LocksPost, LocksRow, Serves, AsksAuthor,
                        CountsThem
  <2>2. CASE ~Quiet(p)
    BY <2>2 DEF Moved, Ended, Blank, Began, CommitsAny, CommitsMove, CommitsRemoval, CommitsBlock,
                CommitsVector, CommitsProfile, CommitsDrop
  <2>3. QED
    BY <2>1, <2>2
<1>3. CASE pc[p] = "embed" /\ pc'[p] = "embedding"
  <2>1. Ask(p) /\ ~Waiting(p)
    BY <1>1, <1>3 DEF Asked, Linked
  <2>2. EmbedderTypeOK' /\ OneJob' /\ \A q \in Proc : Waiting(q)' <=> Waiting(q) \/ q = p
    BY <1>1, <2>1, AskWaits
  <2>3. QED
    BY <1>1, <1>3, <2>2 DEF Linked, Aside
<1>4. CASE pc[p] = "embedding"
  <2>1. EmbedderTypeOK' /\ OneJob' /\ \A q \in Proc : Waiting(q)' <=> Waiting(q) /\ q # p
    BY <1>1, <1>4, AbandonWaits, RespondWaits DEF Asked
  <2>2. QED
    BY <1>1, <1>2, <1>4, <2>1 DEF Linked, Aside
<1>5. CASE pc[p] # "embedding" /\ ~(pc[p] = "embed" /\ pc'[p] = "embedding")
  <2>1. UNCHANGED embedder
    BY <1>5 DEF Asked
  <2>2. EmbedderTypeOK' /\ OneJob' /\ \A q \in Proc : Waiting(q)' <=> Waiting(q)
    BY <1>1, <2>1 DEF embedder, EmbedderTypeOK, OneJob, Waiting
  <2>3. QED
    BY <1>1, <1>2, <1>5, <2>2 DEF Linked, Aside
<1>6. QED
  BY <1>3, <1>4, <1>5

LEMMA StepTypes == TInv /\ [Next]_vars => TInv'
<1> SUFFICES ASSUME TInv, [Next]_vars PROVE TInv'
  OBVIOUS
<1>1. ASSUME Still, ahead' = ahead, EmbedderTypeOK', OneJob', \A q \in Proc : Waiting(q)' <=> Waiting(q)
      PROVE  TInv'
  <2>1. Types'
    BY <1>1 DEF TInv, Types, Still, tables, locals, aux
  <2>2. Linked' /\ \A q \in Proc : Placed(q)'
    BY <1>1 DEF TInv, Linked, Placed, Still, locals
  <2>3. QED
    BY <1>1, <2>1, <2>2 DEF TInv
<1>2. ASSUME NEW p \in Proc, Moved(p), Asked(p) PROVE TInv'
  <2>1. \A q \in Proc \ {p} : Placed(q)' /\ (pc'[q] = "idle" <=> req'[q] = NoReq)
    BY <1>2 DEF TInv, Types, Placed, Moved, Aside
  <2>2. \A q \in Proc : Placed(q)' /\ (pc'[q] = "idle" <=> req'[q] = NoReq)
    BY <1>2, <2>1, MovedPlaces
  <2>3. Types'
    BY <1>2, <2>2, MovedTables DEF Types, TableTypes, Moved, LocalTypes
  <2>4. QED
    BY <1>2, <2>2, <2>3, MovedLinks DEF TInv
<1>3. QED
  BY <1>1, <1>2, StepMoves

LEMMA InitTypes == Init => TInv
<1> SUFFICES ASSUME Init PROVE TInv
  OBVIOUS
<1>1. EmbedderTypeOK /\ OneJob
  BY QueueSizeType, PermitsType DEF Init, EmbedderInit, EmbedderTypeOK, OneJob
<1>2. Linked
  BY ProcNotJob DEF Init, EmbedderInit, Linked, Waiting
<1>3. vector \in [User -> Seq(Move)] /\ base \in [Proc -> Seq(Move)]
  <2>1. Tags \in Move
    BY DEF Tags, Move
  <2>2. <<Tags>> \in Seq(Move) /\ <<>> \in Seq(Move)
    BY <2>1
  <2>3. QED
    BY <2>2 DEF Init
<1>4. Types
  BY <1>3, StartType, WorkloadsType DEF Init, Types, Statement, Reaction
<1>5. \A q \in Proc : Placed(q)
  BY DEF Init, Placed
<1>6. QED
  BY <1>1, <1>2, <1>4, <1>5 DEF TInv

(* Every variable keeps its type; a request waits for the embedder exactly *)
(* while one job of it is in the channel, in the hand of the task or being *)
(* computed (state/embedder.rs:30-74).                                     *)
THEOREM TypeCorrect == Spec => []TypeOK
BY InitTypes, StepTypes, TInvTypes, PTL DEF Spec

-----------------------------------------------------------------------------
(* Comments below a post. *)
LEMMA BelowFacts ==
  ASSUME NEW m \in Post
  PROVE  /\ m \in Below(m) /\ Below(m) \subseteq Post
         /\ \A y \in Post : Parent[y] \in Below(m) => y \in Below(m)
<1>1. m \in Below(m) /\ Below(m) \subseteq Post
  BY DEF Below
<1>2. ASSUME NEW y \in Post, Parent[y] \in Below(m) PROVE y \in Below(m)
  <2>1. ASSUME NEW S \in SUBSET Post, m \in S, \A z \in Post : Parent[z] \in S => z \in S
        PROVE  y \in S
    BY <1>2, <2>1 DEF Below
  <2>2. QED
    BY <2>1 DEF Below
<1>3. QED
  BY <1>1, <1>2

(* The posts a deletion takes away at most. *)
Reach(r) == IF r.op = "unpublish" THEN Below(r.m) ELSE UNION {Below(m) : m \in PostsOf(r.by)}

LEMMA ReachFacts ==
  ASSUME NEW r \in Request, r.op \in {"unpublish", "drop"}
  PROVE  /\ \A y \in Post : Parent[y] \in Reach(r) => y \in Reach(r)
         /\ r.op = "unpublish" => r.m \in Reach(r)
         /\ r.op = "drop" => \A y \in Post : Author[y] = r.by => y \in Reach(r)
<1>1. CASE r.op = "unpublish"
  <2>1. r.m \in Post /\ Reach(r) = Below(r.m)
    BY <1>1, RequestFields DEF Reach
  <2>2. QED
    BY <1>1, <2>1, BelowFacts
<1>2. CASE r.op = "drop"
  <2>1. Reach(r) = UNION {Below(m) : m \in PostsOf(r.by)}
    BY <1>2 DEF Reach
  <2>2. \A y \in Post : Author[y] = r.by => y \in Reach(r)
    BY <2>1, BelowFacts DEF PostsOf
  <2>3. ASSUME NEW y \in Post, Parent[y] \in Reach(r) PROVE y \in Reach(r)
    <3>1. PICK m \in PostsOf(r.by) : Parent[y] \in Below(m)
      BY <2>1, <2>3
    <3>2. y \in Below(m)
      BY <3>1, BelowFacts DEF PostsOf
    <3>3. QED
      BY <2>1, <3>1, <3>2
  <2>4. QED
    BY <1>2, <2>2, <2>3
<1>3. QED
  BY <1>1, <1>2

(* The rows of a post, of a reaction and of a block are different ones. *)
LEMMA RowsDiffer ==
  /\ \A m, n : PostRow(m) = PostRow(n) => m = n
  /\ \A m, n, u, v : ReactionRow(m, u) = ReactionRow(n, v) => m = n /\ u = v
  /\ \A u, v, x, y : BlockRow(u, v) = BlockRow(x, y) => u = x /\ v = y
  /\ \A m, n, u : PostRow(m) # ReactionRow(n, u)
  /\ \A m, u, v : PostRow(m) # BlockRow(u, v)
  /\ \A m, u, x, y : ReactionRow(m, u) # BlockRow(x, y)
BY DEF PostRow, ReactionRow, BlockRow

LEMMA PostRowIs ==
  ASSUME NEW m, PostRow(m) \in Row
  PROVE  m \in Post
BY DEF PostRow, Row

(* What a deletion has come to. *)
LEMMA DoomedIs ==
  ASSUME TInv, NEW p \in Proc
  PROVE  /\ \A m : PostRow(m) \in Doomed(p) <=> m \in DoomedPosts(p)
         /\ \A m, u : ReactionRow(m, u) \in Doomed(p) <=> <<m, u>> \in DoomedReactions(p)
         /\ \A u, v : BlockRow(u, v) \in Doomed(p) <=> <<u, v>> \in DoomedBlocks(p)
<1>1. DoomedReactions(p) \subseteq Post \X User /\ DoomedBlocks(p) \subseteq User \X User
  BY DEF TInv, Types, DoomedReactions, DoomedBlocks
<1>2. \A m : PostRow(m) \in Doomed(p) <=> m \in DoomedPosts(p)
  BY RowsDiffer DEF Doomed
<1>3. \A m, u : ReactionRow(m, u) \in Doomed(p) <=> <<m, u>> \in DoomedReactions(p)
  BY <1>1, RowsDiffer DEF Doomed
<1>4. \A u, v : BlockRow(u, v) \in Doomed(p) <=> <<u, v>> \in DoomedBlocks(p)
  BY <1>1, RowsDiffer DEF Doomed
<1>5. QED
  BY <1>2, <1>3, <1>4

-----------------------------------------------------------------------------
(* Who holds what, and what it stands for. *)
Locks(q) ==
  /\ "row" \in wrote[q] \/ "post" \in wrote[q] \/ "key" \in wrote[q] =>
       req[q].op \in {"publish", "react"} /\ pc[q] \in {"refer", "vector", "write", "commit"}
  /\ "row" \in wrote[q] => req[q].op = "react"
  /\ "user" \in wrote[q] => pc[q] = "commit" \/ (pc[q] = "cascade" /\ req[q].op = "drop")
  /\ pc[q] = "cascade" /\ req[q].op = "drop" => "user" \in wrote[q]
  /\ pc[q] \in {"vector", "write", "commit"} /\ req[q].op = "publish" => {"post", "key"} \subseteq wrote[q]
  /\ pc[q] = "refer" => {"row", "post"} \subseteq wrote[q]
  /\ pc[q] \in {"vector", "write", "commit"} /\ req[q].op = "react" =>
       "row" \in wrote[q] \/ req[q].reaction = "none"
  /\ "post" \in wrote[q] /\ pc[q] # "refer" => "key" \in wrote[q]

(* What an uncommitted row refers to is there, and so is one that is       *)
(* changed.                                                                *)
Refers(q) ==
  LET r == req[q]
  IN /\ r.op = "publish" => posts[r.m] = "taken"
     /\ "post" \in wrote[q] /\ Referred(r) # NoPost => Stored(Referred(r))
     /\ "key" \in wrote[q] => r.by \in accounts
     /\ "row" \in wrote[q] /\ "post" \notin wrote[q] => reaction[r.m][r.by] # "none"

(* What a cascade has locked is there and depends on what is deleted. *)
Cascades(q) ==
  /\ held[q] # {} => pc[q] = "cascade"
  /\ \A m \in Post : PostRow(m) \in held[q] => Stored(m) /\ m \in Reach(req[q])
  /\ \A m \in Post, u \in User : ReactionRow(m, u) \in held[q] => Leaves(q, u) \/ PostRow(m) \in held[q]
  /\ \A u, v \in User : BlockRow(u, v) \in held[q] => Leaves(q, u) \/ Leaves(q, v)
  /\ pc[q] = "cascade" /\ req[q].op = "unpublish" => PostRow(req[q].m) \in held[q]

(* Nobody refers to a user who is being deleted. *)
Reserved ==
  \A p, q \in Proc : p # q /\ pc[p] = "cascade" /\ req[p].op = "drop" => ~HoldsKey(q, req[p].by)

(* A row that one has locked nobody else holds. *)
Exclusive ==
  \A p, q \in Proc : p # q =>
    /\ \A row \in held[p] : ~Holds(q, row)
    /\ ~("row" \in wrote[p] /\ "row" \in wrote[q] /\ req[p].m = req[q].m /\ req[p].by = req[q].by)

Distinct ==
  \A p, q \in Proc :
    p # q /\ req[p].op = "publish" /\ req[q].op = "publish" => req[p].m # req[q].m

LInv ==
  /\ \A q \in Proc : Locks(q) /\ Refers(q) /\ Cascades(q)
  /\ Reserved /\ Exclusive /\ Distinct /\ PostIntegrity

LEMMA StillLocks ==
  ASSUME LInv, Still
  PROVE  LInv'
<1>1. \A q \in Proc : (Locks(q) /\ Refers(q))'
  BY DEF Still, LInv, Locks, Refers, Stored, Referred, tables, locals
<1>2. \A q \in Proc : Cascades(q)'
  BY DEF Still, LInv, Cascades, Stored, Leaves, Running, Reach, tables, locals
<1>3. Reserved' /\ Distinct' /\ PostIntegrity'
  BY DEF Still, LInv, Reserved, Distinct, PostIntegrity, Stored, HoldsKey, tables, locals
<1>4. Exclusive'
  BY DEF Still, LInv, Exclusive, Holds, Referred, locals
<1>5. QED
  BY <1>1, <1>2, <1>3, <1>4 DEF LInv

LEMMA MovedLocks ==
  ASSUME TInv, LInv, NEW p \in Proc, Moved(p)
  PROVE  \A q \in Proc : Locks(q)'
<1>1. \A q \in Proc \ {p} : Locks(q)'
  BY DEF LInv, Locks, Moved, Aside
<1>2. Locks(p)
  BY DEF LInv
<1>3. ASSUME Quiet(p) PROVE Locks(p)'
  <2> DEFINE r == req[p]
  <2>1. pc[p] # "idle" /\ req'[p] = r /\ r.op \in Ops /\ pc[p] \in Places(r.op)
    BY <1>3, RequestIs DEF Quiet
  <2> HIDE DEF r
  <2>ops. /\ pc[p] \in {"vector", "write", "commit"} => r.op \in {"publish", "react"}
          /\ pc[p] = "insert" => r.op = "publish"
          /\ pc[p] \in {"upsert", "refer"} => r.op = "react"
          /\ pc[p] = "cascade" => r.op \in {"unpublish", "drop"}
    BY <2>1 DEF Places, Ops
  <2>same. req[p] = r
    BY DEF r
  <2>2. CASE Passes(p)
    <3>1. wrote'[p] = wrote[p]
      BY <2>2 DEF Passes, Kept
    <3>2. \/ pc[p] \notin {"refer", "vector", "write", "commit", "cascade"}
             /\ pc'[p] \notin {"refer", "vector", "write", "commit", "cascade"}
          \/ pc[p] = "vector" /\ pc'[p] = "commit"
      BY <2>1, <2>same, <2>2 DEF Passes, First, Answered, Ops
    <3>3. QED
      BY <1>2, <2>1, <2>ops, <2>same, <3>1, <3>2 DEF Locks
  <2>3. CASE Inserts(p)
    BY <1>2, <2>1, <2>ops, <2>same, <2>3 DEF Locks, Inserts
  <2>4. CASE ReadsVector(p)
    BY <1>2, <2>1, <2>ops, <2>same, <2>4 DEF Locks, ReadsVector
  <2>5. CASE WritesVector(p)
    BY <1>2, <2>1, <2>ops, <2>same, <2>5 DEF Locks, WritesVector
  <2>6. CASE ReadsPrevious(p)
    BY <1>2, <2>1, <2>ops, <2>same, <2>6 DEF Locks, ReadsPrevious
  <2>7. CASE Upserts(p)
    BY <1>2, <2>1, <2>ops, <2>same, <2>7 DEF Locks, Upserts, AfterUpsert
  <2>8. CASE RefersUser(p)
    BY <1>2, <2>1, <2>ops, <2>same, <2>8 DEF Locks, RefersUser, AfterUpsert
  <2>9. CASE LocksUser(p)
    BY <1>2, <2>1, <2>ops, <2>same, <2>9 DEF Locks, LocksUser
  <2>10. CASE LocksPost(p) \/ LocksRow(p)
    BY <1>2, <2>1, <2>ops, <2>same, <2>10 DEF Locks, LocksPost, LocksRow
  <2>11. CASE Serves(p) \/ AsksAuthor(p) \/ CountsThem(p)
    BY <1>2, <2>1, <2>ops, <2>same, <2>11 DEF Locks, Serves, AsksAuthor, CountsThem
  <2>12. QED
    BY <1>3, <2>2, <2>3, <2>4, <2>5, <2>6, <2>7, <2>8, <2>9, <2>10, <2>11 DEF Quiet
<1>4. ASSUME Blank(p) PROVE Locks(p)'
  BY <1>4 DEF Blank, Locks
<1>5. ASSUME NEW r, Began(p, r) PROVE Locks(p)'
  BY <1>5 DEF Began, Kept, Locks, TInv, Placed
<1>6. ASSUME NEW to, CommitsVector(p, to) PROVE Locks(p)'
  BY <1>2, <1>6 DEF CommitsVector, Kept, Locks
<1>7. Locks(p)'
  BY <1>3, <1>4, <1>5, <1>6
     DEF Moved, Ended, CommitsAny, CommitsMove, CommitsRemoval, CommitsBlock, CommitsProfile, CommitsDrop
<1>8. QED
  BY <1>1, <1>7

(* A step of p takes a lock only when nobody else is in the way. *)
LEMMA MovedReserves ==
  ASSUME TInv, LInv, NEW p \in Proc, Moved(p)
  PROVE  Reserved'
<1>1. /\ \A q \in Proc \ {p} : pc'[q] = pc[q] /\ req'[q] = req[q] /\ wrote'[q] = wrote[q]
  BY DEF Moved, Aside
<1>2. pc'[p] = "cascade" /\ req'[p].op = "drop" => \A q \in Proc \ {p} : ~HoldsKey(q, req'[p].by)
  <2>1. pc'[p] = "cascade" => (LocksUser(p) \/ LocksPost(p) \/ LocksRow(p)) /\ req'[p] = req[p]
    <3>1. CASE Quiet(p)
      <4>1. req[p].op \in Ops
        BY <3>1, RequestIs DEF Quiet
      <4>2. First(req[p]) # "cascade" /\ Answered(req[p]) # "cascade"
        BY <4>1 DEF First, Answered, Ops
      <4>3. QED
        BY <3>1, <4>2 DEF Quiet, Passes, Inserts, ReadsVector, WritesVector, ReadsPrevious, Upserts,
                          RefersUser, AfterUpsert, Serves, AsksAuthor, CountsThem
    <3>2. CASE ~Quiet(p)
      BY <3>2 DEF Moved, Ended, Blank, Began, CommitsAny, CommitsMove, CommitsRemoval, CommitsBlock,
                  CommitsVector, CommitsProfile, CommitsDrop
    <3>3. QED
      BY <3>1, <3>2
  <2>2. LocksUser(p) => \A q \in Proc \ {p} : ~HoldsKey(q, req[p].by)
    BY DEF LocksUser, Free, WaitsFor
  <2>3. LocksRow(p) /\ req[p].op = "drop" => \A q \in Proc \ {p} : ~HoldsKey(q, req[p].by)
    BY DEF LocksRow, LInv, Reserved
  <2>4. LocksPost(p) => req[p].op # "drop"
    BY DEF LocksPost
  <2>5. QED
    BY <2>1, <2>2, <2>3, <2>4
<1>3. ASSUME NEW q \in Proc \ {p}, pc[q] = "cascade", req[q].op = "drop" PROVE ~HoldsKey(p, req[q].by)'
  <2>1. ~HoldsKey(p, req[q].by)
    BY <1>3 DEF LInv, Reserved
  <2>2. Leaving(q, req[q].by)
    BY <1>3, RequestIs DEF Leaving, HoldsUser, Running, LInv, Locks
  <2>3. CASE Quiet(p)
    <3>1. req'[p] = req[p] /\ pc[p] # "idle"
      BY <2>3 DEF Quiet
    <3>2. CASE "key" \in wrote'[p] => "key" \in wrote[p]
      BY <1>1, <2>1, <3>1, <3>2 DEF HoldsKey
    <3>3. CASE Inserts(p)
      <4>1. req[p].by # req[q].by
        BY <2>2, <3>3 DEF Inserts, Free, WaitsFor
      <4>2. QED
        BY <1>1, <3>1, <4>1 DEF HoldsKey
    <3>4. CASE RefersUser(p)
      <4>1. req[p].by # req[q].by
        BY <2>2, <3>4 DEF RefersUser, Free, WaitsFor
      <4>2. QED
        BY <1>1, <3>1, <4>1 DEF HoldsKey
    <3>5. CASE Upserts(p) \/ WritesVector(p)
      BY <3>2, <3>5 DEF Upserts, WritesVector
    <3>6. QED
      BY <2>3, <3>2, <3>3, <3>4, <3>5
         DEF Quiet, Passes, Kept, ReadsVector, ReadsPrevious, LocksUser, LocksPost, LocksRow, Serves,
             AsksAuthor, CountsThem
  <2>4. CASE Blank(p)
    BY <2>4 DEF Blank, HoldsKey
  <2>5. ASSUME NEW r, Began(p, r) PROVE ~HoldsKey(p, req[q].by)'
    BY <2>5 DEF Began, Kept, HoldsKey, TInv, Placed
  <2>6. ASSUME NEW to, CommitsVector(p, to) PROVE ~HoldsKey(p, req[q].by)'
    BY <1>1, <2>1, <2>6 DEF CommitsVector, Kept, HoldsKey
  <2>7. QED
    BY <2>3, <2>4, <2>5, <2>6
       DEF Moved, Ended, CommitsAny, CommitsMove, CommitsRemoval, CommitsBlock, CommitsProfile, CommitsDrop
<1>4. QED
  BY <1>1, <1>2, <1>3 DEF Reserved, HoldsKey, LInv

(* The rows p holds after a step: those it held, and those nobody else     *)
(* held.                                                                   *)
LEMMA MovedExclusive ==
  ASSUME TInv, LInv, NEW p \in Proc, Moved(p)
  PROVE  Exclusive'
<1>1. \A q \in Proc \ {p} : req'[q] = req[q] /\ wrote'[q] = wrote[q] /\ held'[q] = held[q]
  BY DEF Moved, Aside
<1>2. \A q \in Proc \ {p} : \A row : Holds(q, row)' <=> Holds(q, row)
  BY <1>1 DEF Holds, Referred
<1>3. Exclusive /\ Locks(p)
  BY DEF LInv
<1> DEFINE Takes(w, h) == wrote'[p] \subseteq wrote[p] \cup w \cup {"user", "key"} /\ held'[p] \subseteq held[p] \cup h
<1>4. \/ wrote'[p] = {} /\ held'[p] = {}
      \/ req'[p] = req[p] /\ \/ Takes({}, {})
                             \/ Inserts(p) /\ Takes({"post"}, {})
                             \/ Upserts(p) /\ Takes({"row", "post"}, {})
                             \/ LocksPost(p) /\ Takes({}, {PostRow(req[p].m)})
                             \/ LocksRow(p)
  <2>1. CASE Quiet(p)
    <3>1. req'[p] = req[p]
      BY <2>1 DEF Quiet
    <3>2. CASE Inserts(p) \/ Upserts(p) \/ LocksPost(p) \/ LocksRow(p)
      BY <3>1, <3>2 DEF Inserts, Upserts, LocksPost, KeptBut
    <3>3. CASE ~(Inserts(p) \/ Upserts(p) \/ LocksPost(p) \/ LocksRow(p))
      BY <2>1, <3>1, <3>3 DEF Quiet, Passes, Kept, KeptBut, ReadsVector, WritesVector, ReadsPrevious,
                              RefersUser, LocksUser, Serves, AsksAuthor, CountsThem
    <3>4. QED
      BY <3>2, <3>3
  <2>2. ASSUME NEW r, Began(p, r) PROVE wrote'[p] = {} /\ held'[p] = {}
    BY <2>2 DEF Began, Kept, TInv, Placed
  <2>3. ASSUME NEW to, CommitsVector(p, to) PROVE req'[p] = req[p] /\ Takes({}, {})
    BY <2>3 DEF CommitsVector, Kept
  <2>4. Blank(p) => wrote'[p] = {} /\ held'[p] = {}
    BY DEF Blank
  <2> HIDE DEF Takes
  <2>5. QED
    BY <2>1, <2>2, <2>3, <2>4
       DEF Moved, Ended, CommitsAny, CommitsMove, CommitsRemoval, CommitsBlock, CommitsProfile, CommitsDrop
<1>5. ASSUME NEW q \in Proc \ {p}
      PROVE  /\ \A row \in held[q] : ~Holds(p, row)'
             /\ \A row \in held'[p] : ~Holds(q, row)
             /\ ~("row" \in wrote'[p] /\ "row" \in wrote[q] /\ req'[p].m = req[q].m /\ req'[p].by = req[q].by)
  <2>0. /\ \A row \in held[q] : ~Holds(p, row)
        /\ \A row \in held[p] : ~Holds(q, row)
        /\ ~("row" \in wrote[p] /\ "row" \in wrote[q] /\ req[p].m = req[q].m /\ req[p].by = req[q].by)
    BY <1>3 DEF Exclusive
  <2>1. CASE wrote'[p] = {} /\ held'[p] = {}
    BY <2>1 DEF Holds
  <2>2. CASE req'[p] = req[p] /\ Takes({}, {})
    BY <2>0, <2>2 DEF Holds, Referred
  <2>3. CASE req'[p] = req[p] /\ Inserts(p) /\ Takes({"post"}, {})
    <3>1. PostRow(Referred(req[p])) \notin held[q]
      BY <2>3 DEF Inserts, Free, WaitsFor, Referred
    <3>2. QED
      BY <2>0, <2>3, <3>1 DEF Holds, Referred
  <2>4. CASE req'[p] = req[p] /\ Upserts(p) /\ Takes({"row", "post"}, {})
    <3> DEFINE r == req[p]
               exists == reaction[r.m][r.by] # "none"
    <3>1. /\ r.op = "react" /\ Referred(r) = r.m
          /\ "row" \in wrote'[p] => "row" \in wrote[p] \/ ~Holds(q, ReactionRow(r.m, r.by))
          /\ "post" \in wrote'[p] => "post" \in wrote[p] \/ PostRow(r.m) \notin held[q]
      <4>1. r.op = "react" /\ Referred(r) = r.m /\ Free(p) /\ pc[p] = "upsert"
        BY <2>4 DEF Upserts, Referred
      <4>2. exists \/ r.reaction # "none" => ~Holds(q, ReactionRow(r.m, r.by))
        BY <4>1 DEF Free, WaitsFor
      <4>3. ~exists /\ r.reaction # "none" => PostRow(r.m) \notin held[q]
        BY <4>1 DEF Free, WaitsFor
      <4>4. /\ "row" \in wrote'[p] => "row" \in wrote[p] \/ exists \/ r.reaction # "none"
            /\ "post" \in wrote'[p] => "post" \in wrote[p] \/ (~exists /\ r.reaction # "none")
        BY <2>4 DEF Upserts
      <4>5. QED
        BY <4>1, <4>2, <4>3, <4>4
    <3>2. "row" \in wrote[q] /\ r.m = req[q].m /\ r.by = req[q].by => Holds(q, ReactionRow(r.m, r.by))
      BY DEF Holds
    <3>3. ReactionRow(r.m, r.by) \in held[q] => Holds(q, ReactionRow(r.m, r.by))
      BY DEF Holds
    <3> HIDE DEF r
    <3>same. r = req[p] /\ r = req'[p]
      BY <2>4 DEF r
    <3>4. \A row \in held[q] : ~Holds(p, row)'
      BY <2>0, <2>4, <3>1, <3>3, <3>same DEF Holds, Referred
    <3>5. \A row \in held'[p] : ~Holds(q, row)
      BY <2>0, <2>4
    <3>6. QED
      BY <2>0, <3>1, <3>2, <3>4, <3>5, <3>same
  <2>5. CASE req'[p] = req[p] /\ LocksPost(p) /\ Takes({}, {PostRow(req[p].m)})
    <3>1. ~Holds(q, PostRow(req[p].m))
      BY <2>5 DEF LocksPost, Free, WaitsFor
    <3>2. PostRow(req[p].m) \notin held[q]
      BY <3>1 DEF Holds
    <3>3. \A row \in held[q] : ~Holds(p, row)'
      BY <2>0, <2>5, <3>2 DEF Holds, Referred
    <3>4. QED
      BY <2>0, <2>5, <3>1, <3>3
  <2>6. CASE req'[p] = req[p] /\ LocksRow(p)
    <3>1. PICK row : ~Holds(q, row) /\ held'[p] = held[p] \cup {row}
      BY <2>6 DEF LocksRow
    <3>2. row \notin held[q]
      BY <3>1 DEF Holds
    <3>3. wrote'[p] = wrote[p]
      BY <2>6 DEF LocksRow
    <3>4. \A x \in held[q] : ~Holds(p, x)'
      BY <2>0, <2>6, <3>1, <3>2, <3>3 DEF Holds, Referred
    <3>5. QED
      BY <2>0, <2>6, <3>1, <3>3, <3>4
  <2>7. QED
    BY <1>4, <2>1, <2>2, <2>3, <2>4, <2>5, <2>6
<1>6. QED
  <2>1. ASSUME NEW a \in Proc, NEW b \in Proc, a # b
        PROVE  /\ \A row \in held'[a] : ~Holds(b, row)'
               /\ ~("row" \in wrote'[a] /\ "row" \in wrote'[b] /\ req'[a].m = req'[b].m /\ req'[a].by = req'[b].by)
    <3>1. CASE a # p /\ b # p
      BY <1>1, <1>2, <1>3, <2>1, <3>1 DEF Exclusive
    <3>2. CASE a = p
      BY <1>1, <1>2, <1>5, <2>1, <3>2
    <3>3. CASE b = p
      BY <1>1, <1>2, <1>5, <2>1, <3>3
    <3>4. QED
      BY <3>1, <3>2, <3>3
  <2>2. QED
    BY <2>1 DEF Exclusive

LEMMA MovedRequest ==
  ASSUME TInv, NEW p \in Proc, Moved(p)
  PROVE  \/ pc[p] # "idle" /\ req'[p] = req[p]
         \/ pc'[p] = "idle" /\ req'[p] = NoReq
         \/ pc'[p] = "connect" /\ \E r : Began(p, r) /\ req'[p] = r
BY DEF Moved, Quiet, Ended, Blank, Began, CommitsAny, CommitsMove, CommitsRemoval, CommitsBlock,
       CommitsVector, CommitsProfile, CommitsDrop

(* What a step of p does to the posts. *)
LEMMA MovedPosts ==
  ASSUME TInv, LInv, NEW p \in Proc, Moved(p), NEW m \in Post
  PROVE  \/ posts'[m] = posts[m]
         \/ posts[m] = "unused" /\ posts'[m] = "taken"
            /\ \E r : Began(p, r) /\ r.op = "publish" /\ r.m = m
         \/ posts[m] = "taken" /\ posts'[m] = "stored" /\ CommitsMove(p) /\ req[p].op = "publish"
            /\ req[p].m = m
         \/ posts[m] = "stored" /\ posts'[m] = "deleted"
            /\ (CommitsRemoval(p) \/ CommitsDrop(p))
<1>1. posts \in [Post -> {"unused", "taken", "stored", "deleted"}]
  BY DEF TInv, Types
<1>2. CASE Quiet(p) \/ Ended(p) \/ CommitsBlock(p) \/ CommitsProfile(p)
           \/ CommitsVector(p, <<>>) \/ CommitsVector(p, <<Tags>>)
  BY <1>2 DEF Quiet, Ended, CommitsBlock, CommitsProfile, CommitsVector, tables
<1>3. ASSUME NEW r, Began(p, r)
      PROVE  posts'[m] = posts[m] \/ (posts[m] = "unused" /\ posts'[m] = "taken" /\ r.op = "publish" /\ r.m = m)
  BY <1>1, <1>3 DEF Began
<1>4. CASE CommitsMove(p) /\ pc[p] # "idle"
  <2>1. req[p].op = "publish" => posts[req[p].m] = "taken"
    BY DEF LInv, Refers
  <2>2. QED
    BY <1>1, <1>4, <2>1 DEF CommitsMove
<1>5. CASE CommitsRemoval(p) \/ CommitsDrop(p)
  <2>1. PostRow(m) \in held[p] => posts[m] = "stored"
    BY DEF LInv, Cascades, Stored
  <2>2. QED
    BY <1>1, <1>5, <2>1 DEF CommitsRemoval, CommitsDrop, Cascaded
<1>6. QED
  BY <1>2, <1>3, <1>4, <1>5 DEF Moved, CommitsAny

LEMMA MovedDistinct ==
  ASSUME TInv, LInv, NEW p \in Proc, Moved(p)
  PROVE  Distinct' /\ \A q \in Proc : req'[q].op = "publish" => posts'[req'[q].m] = "taken"
<1>1. \A q \in Proc \ {p} : req'[q] = req[q]
  BY DEF Moved, Aside
<1>2. \A q \in Proc : req[q].op = "publish" =>
        req[q].m \in Post /\ posts[req[q].m] = "taken" /\ pc[q] # "idle"
  <2> TAKE q \in Proc
  <2>1. CASE req[q] = NoReq
    BY <2>1 DEF NoReq
  <2>2. CASE req[q] # NoReq
    BY <2>2, RequestFields DEF LInv, Refers, TInv, Types
  <2>3. QED
    BY <2>1, <2>2
<1>3. Distinct
  BY DEF LInv
<1>4. CASE pc[p] # "idle" /\ req'[p] = req[p]
  <2>1. Distinct'
    BY <1>1, <1>3, <1>4 DEF Distinct
  <2>2. \A q \in Proc : req[q].op = "publish" => posts'[req[q].m] = "taken"
    <3> SUFFICES ASSUME NEW q \in Proc, req[q].op = "publish" PROVE posts'[req[q].m] = "taken"
      OBVIOUS
    <3>1. CASE CommitsMove(p)
      BY <1>4, <3>1, RequestIs DEF CommitsMove, Blank, NoReq, TInv, Types
    <3>2. CASE \E r : Began(p, r)
      BY <1>4, <3>2 DEF Began
    <3>3. QED
      BY <1>2, <3>1, <3>2, MovedPosts
  <2>3. QED
    BY <1>1, <1>4, <2>1, <2>2
<1>5. CASE req'[p] = NoReq
  <2>1. NoReq.op # "publish"
    BY DEF NoReq
  <2>2. Distinct'
    BY <1>1, <1>3, <1>5, <2>1 DEF Distinct
  <2>3. ASSUME NEW q \in Proc \ {p}, req[q].op = "publish" PROVE posts'[req[q].m] = "taken"
    <3>1. CASE \E r : Began(p, r)
      BY <1>5, <3>1, NoReqIsNone DEF Began
    <3>2. req[p].op = "publish" => req[p].m # req[q].m
      BY <1>3, <2>3 DEF Distinct
    <3>3. QED
      BY <1>2, <2>3, <3>1, <3>2, MovedPosts
  <2>4. QED
    BY <1>1, <1>5, <2>1, <2>2, <2>3
<1>6. ASSUME NEW r, Began(p, r), req'[p] = r
      PROVE  Distinct' /\ \A q \in Proc : req'[q].op = "publish" => posts'[req'[q].m] = "taken"
  <2>1. r.op = "publish" => r.m \in Post /\ posts[r.m] = "unused" /\ posts'[r.m] = "taken"
    BY <1>6, RequestFields DEF Began, TInv, Types
  <2>2. \A x \in Post : posts[x] = "taken" => posts'[x] = "taken"
    BY <1>6, <2>1 DEF Began, TInv, Types
  <2>3. Distinct'
    BY <1>1, <1>2, <1>3, <1>6, <2>1 DEF Distinct
  <2>4. QED
    BY <1>1, <1>2, <1>6, <2>1, <2>2, <2>3
<1>7. QED
  BY <1>4, <1>5, <1>6, MovedRequest

-----------------------------------------------------------------------------
(* What a deletion takes away, and nothing else does. *)
Gone(p) == {m \in Post : PostRow(m) \in held[p]}

LEMMA GoneIs ==
  ASSUME TInv, LInv, NEW p \in Proc, CommitsRemoval(p) \/ CommitsDrop(p)
  PROVE  /\ \A m \in Post : Stored(m) /\ Parent[m] \in Gone(p) => m \in Gone(p)
         /\ CommitsDrop(p) => \A m \in Post : Stored(m) /\ Author[m] = req[p].by => m \in Gone(p)
         /\ \A m \in Post, u \in User :
              reaction[m][u] # "none" /\ (m \in Gone(p) \/ (CommitsDrop(p) /\ u = req[p].by)) =>
                ReactionRow(m, u) \in held[p]
         /\ \A m \in Post, u \in User : ReactionRow(m, u) \in held[p] =>
              m \in Gone(p) \/ (CommitsDrop(p) /\ u = req[p].by)
         /\ \A b \in blocks : BlockRow(b[1], b[2]) \in held[p] <=>
              CommitsDrop(p) /\ req[p].by \in {b[1], b[2]}
         /\ Gone(p) \subseteq Reach(req[p]) /\ \A m \in Gone(p) : Stored(m)
<1>1. Doomed(p) \subseteq held[p] /\ pc[p] = "cascade" /\ Cascades(p)
  BY DEF CommitsRemoval, CommitsDrop, Cascaded, LInv
<1>2. \A u : Leaves(p, u) <=> CommitsDrop(p) /\ u = req[p].by
  BY <1>1 DEF Leaves, Running, CommitsDrop, CommitsRemoval
<1>3. ASSUME NEW m \in Post, Stored(m), Parent[m] \in Gone(p) \/ (CommitsDrop(p) /\ Author[m] = req[p].by)
      PROVE  m \in Gone(p)
  <2>1. m \in DoomedPosts(p)
    BY <1>2, <1>3 DEF DoomedPosts, Gone
  <2>2. QED
    BY <1>1, <2>1, DoomedIs DEF Gone
<1>4. ASSUME NEW m \in Post, NEW u \in User, reaction[m][u] # "none",
             m \in Gone(p) \/ (CommitsDrop(p) /\ u = req[p].by)
      PROVE  ReactionRow(m, u) \in held[p]
  <2>1. <<m, u>> \in DoomedReactions(p)
    BY <1>2, <1>4 DEF DoomedReactions, Gone
  <2>2. QED
    BY <1>1, <2>1, DoomedIs
<1>5. \A m \in Post, u \in User : ReactionRow(m, u) \in held[p] =>
        m \in Gone(p) \/ (CommitsDrop(p) /\ u = req[p].by)
  BY <1>1, <1>2 DEF Cascades, Gone
<1>6. ASSUME NEW b \in blocks
      PROVE  BlockRow(b[1], b[2]) \in held[p] <=> CommitsDrop(p) /\ req[p].by \in {b[1], b[2]}
  <2>1. b \in User \X User /\ b = <<b[1], b[2]>> /\ b[1] \in User /\ b[2] \in User
    BY DEF TInv, Types
  <2>2. CommitsDrop(p) /\ req[p].by \in {b[1], b[2]} => b \in DoomedBlocks(p)
    BY <1>2 DEF DoomedBlocks
  <2>3. b \in DoomedBlocks(p) => BlockRow(b[1], b[2]) \in held[p]
    BY <1>1, <2>1, DoomedIs
  <2>4. BlockRow(b[1], b[2]) \in held[p] => Leaves(p, b[1]) \/ Leaves(p, b[2])
    BY <1>1, <2>1 DEF Cascades
  <2>5. QED
    BY <1>2, <2>2, <2>3, <2>4
<1>7. Gone(p) \subseteq Reach(req[p]) /\ \A m \in Gone(p) : Stored(m)
  BY <1>1 DEF Cascades, Gone
<1>8. QED
  BY <1>3, <1>4, <1>5, <1>6, <1>7

LEMMA MovedStored ==
  ASSUME TInv, LInv, NEW p \in Proc, Moved(p)
  PROVE  /\ \/ CommitsRemoval(p) \/ CommitsDrop(p)
            \/ \A m \in Post : Stored(m) => Stored(m)'
         /\ CommitsRemoval(p) \/ CommitsDrop(p) =>
              \A m \in Post :
                /\ Stored(m)' <=> Stored(m) /\ m \notin Gone(p)
                /\ \A u \in User : reaction'[m][u] =
                     IF ReactionRow(m, u) \in held[p] THEN "none" ELSE reaction[m][u]
         /\ CommitsDrop(p) \/ accounts' = accounts
<1>1. \/ CommitsRemoval(p) \/ CommitsDrop(p)
      \/ \A m \in Post : Stored(m) => Stored(m)'
  BY MovedPosts DEF Stored
<1>2. ASSUME CommitsRemoval(p) \/ CommitsDrop(p), NEW m \in Post
      PROVE  /\ Stored(m)' <=> Stored(m) /\ m \notin Gone(p)
             /\ \A u \in User : reaction'[m][u] =
                  IF ReactionRow(m, u) \in held[p] THEN "none" ELSE reaction[m][u]
  <2>1. Cascaded(p)
    BY <1>2 DEF CommitsRemoval, CommitsDrop
  <2>2. QED
    BY <2>1 DEF Cascaded, Stored, Gone
<1>3. CommitsDrop(p) \/ accounts' = accounts
  BY DEF Moved, Quiet, Ended, Began, CommitsAny, CommitsMove, CommitsRemoval, CommitsBlock,
         CommitsVector, CommitsProfile, tables
<1>4. QED
  BY <1>1, <1>2, <1>3

(* What a step of p does to a reaction somebody else holds: nothing. *)
LEMMA MovedReaction ==
  ASSUME TInv, LInv, NEW p \in Proc, Moved(p), NEW q \in Proc \ {p}, "row" \in wrote[q]
  PROVE  reaction'[req[q].m][req[q].by] = reaction[req[q].m][req[q].by]
<1> DEFINE m == req[q].m
           u == req[q].by
<1>1. /\ m \in Post /\ u \in User /\ Holds(q, ReactionRow(m, u))
      /\ ReactionRow(m, u) \notin held[p]
      /\ "row" \in wrote[p] => req[p].m # m \/ req[p].by # u
  <2>1. req[q].op = "react" /\ pc[q] # "idle" /\ Exclusive
    BY DEF LInv, Locks
  <2>2. m \in Post /\ u \in User
    BY <2>1, RequestIs, RequestFields
  <2>3. Holds(q, ReactionRow(m, u))
    BY DEF Holds
  <2>4. QED
    BY <2>1, <2>2, <2>3 DEF Exclusive
<1>2. CASE CommitsRemoval(p) \/ CommitsDrop(p)
  BY <1>1, <1>2, MovedStored
<1>3. CASE CommitsMove(p) /\ pc[p] # "idle"
  <2>1. reaction' = reaction \/ ("row" \in wrote[p] /\ reaction' = [reaction EXCEPT ![req[p].m][req[p].by] = req[p].reaction])
    BY <1>3 DEF CommitsMove
  <2>2. reaction \in [Post -> [User -> Reaction]]
    BY DEF TInv, Types
  <2> HIDE DEF m, u
  <2>3. reaction'[m][u] = reaction[m][u]
    BY <1>1, <2>1, <2>2
  <2>4. QED
    BY <2>3 DEF m, u
<1>4. CASE reaction' = reaction
  BY <1>4
<1>5. QED
  BY <1>2, <1>3, <1>4
     DEF Moved, Quiet, Ended, Began, CommitsAny, CommitsBlock, CommitsVector, CommitsProfile, tables

LEMMA MovedRefers ==
  ASSUME TInv, LInv, NEW p \in Proc, Moved(p)
  PROVE  \A q \in Proc : Refers(q)'
<1>1. \A q \in Proc : req'[q].op = "publish" => posts'[req'[q].m] = "taken"
  BY MovedDistinct
<1>2. ASSUME NEW q \in Proc \ {p} PROVE Refers(q)'
  <2>1. req'[q] = req[q] /\ wrote'[q] = wrote[q]
    BY DEF Moved, Aside
  <2>2. Refers(q) /\ Locks(q) /\ Exclusive /\ Reserved
    BY DEF LInv
  <2>3. ASSUME "post" \in wrote[q], Referred(req[q]) # NoPost PROVE Stored(Referred(req[q]))'
    <3> DEFINE about == Referred(req[q])
    <3>1. pc[q] # "idle" /\ req[q].op \in {"publish", "react"}
      BY <2>2, <2>3 DEF Locks
    <3>2. req[q] \in Request
      BY <3>1, RequestIs
    <3>3. about \in Post /\ Stored(about)
      BY <2>2, <2>3, <3>1, <3>2, RequestFields, ParentType DEF Referred, Refers
    <3>4. PostRow(about) \notin held[p]
      BY <2>2, <2>3 DEF Exclusive, Holds
    <3>5. PICK m \in Post : m = about
      BY <3>3
    <3>6. Stored(m) /\ m \notin Gone(p)
      BY <3>3, <3>4, <3>5 DEF Gone
    <3>7. Stored(m)'
      BY <3>6, MovedStored
    <3>8. QED
      BY <2>1, <3>5, <3>7 DEF Stored, Referred
  <2>4. ASSUME "key" \in wrote[q] PROVE req[q].by \in accounts'
    <3>1. pc[q] # "idle" /\ req[q].by \in accounts
      BY <2>2, <2>4 DEF Locks, Refers
    <3>2. CASE CommitsDrop(p)
      BY <2>2, <2>4, <3>1, <3>2 DEF CommitsDrop, Reserved, HoldsKey
    <3>3. QED
      BY <3>1, <3>2, MovedStored
  <2>5. "row" \in wrote[q] /\ "post" \notin wrote[q] => reaction'[req[q].m][req[q].by] # "none"
    BY <2>2, MovedReaction DEF Refers
  <2>6. QED
    BY <1>1, <2>1, <2>3, <2>4, <2>5 DEF Refers, Referred, Stored
<1>3. Refers(p)'
  <2>1. CASE Quiet(p)
    <3>1. /\ req'[p] = req[p] /\ accounts' = accounts /\ posts' = posts /\ reaction' = reaction
          /\ Refers(p) /\ Locks(p) /\ pc[p] # "idle"
      BY <2>1 DEF Quiet, tables, LInv
    <3>2. CASE wrote'[p] \subseteq wrote[p] \cup {"user"} /\ ("post" \in wrote[p] => "post" \in wrote'[p])
      BY <3>1, <3>2 DEF Refers, Referred, Stored
    <3>3. CASE Inserts(p)
      BY <1>1, <3>1, <3>3 DEF Refers, Referred, Locks, Inserts, Stored
    <3>4. CASE Upserts(p)
      <4>1. /\ req[p].op = "react" /\ "post" \notin wrote[p] /\ "key" \notin wrote[p]
        BY <3>1, <3>4 DEF Upserts, Locks
      <4>2. QED
        BY <3>1, <3>4, <4>1 DEF Refers, Referred, Upserts, Stored
    <3>5. CASE RefersUser(p)
      BY <3>1, <3>5 DEF Refers, Referred, RefersUser, Stored
    <3>6. CASE LocksUser(p)
      BY <3>1, <3>6 DEF Refers, Referred, LocksUser, Stored
    <3>7. QED
      BY <2>1, <3>2, <3>3, <3>4, <3>5, <3>6
         DEF Quiet, Passes, Kept, ReadsVector, WritesVector, ReadsPrevious, LocksPost, LocksRow, Serves,
             AsksAuthor, CountsThem
  <2>2. CASE Blank(p)
    BY <2>2 DEF Refers, Blank, NoReq
  <2>3. ASSUME NEW r, Began(p, r) PROVE Refers(p)'
    BY <1>1, <2>3 DEF Refers, Began, Kept, TInv, Placed
  <2>4. ASSUME NEW to, CommitsVector(p, to) PROVE Refers(p)'
    BY <2>4 DEF Refers, CommitsVector, Kept, Referred, Stored, LInv
  <2>5. QED
    BY <2>1, <2>2, <2>3, <2>4
       DEF Moved, Ended, CommitsAny, CommitsMove, CommitsRemoval, CommitsBlock, CommitsProfile,
           CommitsDrop
<1>4. QED
  BY <1>2, <1>3

LEMMA MovedCascades ==
  ASSUME TInv, LInv, NEW p \in Proc, Moved(p)
  PROVE  \A q \in Proc : Cascades(q)'
<1>1. ASSUME NEW q \in Proc \ {p} PROVE Cascades(q)'
  <2>1. req'[q] = req[q] /\ held'[q] = held[q] /\ pc'[q] = pc[q] /\ Cascades(q)
    BY DEF Moved, Aside, LInv
  <2>2. ASSUME NEW m \in Post, PostRow(m) \in held[q] PROVE Stored(m)'
    <3>1. Stored(m)
      BY <2>1, <2>2 DEF Cascades
    <3>2. PostRow(m) \notin held[p]
      BY <2>2 DEF LInv, Exclusive, Holds
    <3>3. QED
      BY <3>1, <3>2, MovedStored DEF Gone
  <2>3. QED
    BY <2>1, <2>2 DEF Cascades, Leaves, Running, Reach
<1>2. Cascades(p)'
  <2>1. CASE Blank(p)
    BY <2>1 DEF Blank, Cascades, NoReq
  <2>2. ASSUME NEW r, Began(p, r) PROVE Cascades(p)'
    <3>1. held'[p] = {} /\ pc'[p] = "connect"
      BY <2>2 DEF Began, Kept, TInv, Placed
    <3>2. QED
      BY <3>1 DEF Cascades
  <2>3. ASSUME NEW to, CommitsVector(p, to) PROVE Cascades(p)'
    <3>1. held'[p] = {} /\ pc'[p] # "cascade"
      BY <2>3 DEF CommitsVector, Kept, LInv, Cascades
    <3>2. QED
      BY <3>1 DEF Cascades
  <2>4. CASE Quiet(p)
    <3>1. /\ req'[p] = req[p] /\ UNCHANGED <<posts, reaction>> /\ Cascades(p) /\ pc[p] # "idle"
          /\ held[p] \subseteq Row
      BY <2>4 DEF Quiet, tables, LInv, TInv, Types
    <3>2. req[p] \in Request /\ req[p].op \in Ops
      BY <3>1, RequestIs
    <3>3. CASE LocksPost(p)
      <4>1. /\ req[p].op = "unpublish" /\ Stored(req[p].m) /\ pc'[p] = "cascade"
            /\ held'[p] = {PostRow(req[p].m)}
        BY <3>3 DEF LocksPost
      <4>2. req[p].m \in Reach(req[p])
        BY <3>2, <4>1, ReachFacts
      <4>3. \A m \in Post : PostRow(m) \in held'[p] => Stored(m) /\ m \in Reach(req[p])
        BY <4>1, <4>2, RowsDiffer
      <4>4. /\ \A m \in Post, u \in User : ReactionRow(m, u) \notin held'[p]
            /\ \A u, v \in User : BlockRow(u, v) \notin held'[p]
        BY <4>1, RowsDiffer
      <4>5. QED
        BY <3>1, <4>1, <4>3, <4>4 DEF Cascades, Stored, Reach
    <3>4. CASE LocksRow(p)
      <4>1. PICK row \in Doomed(p) : held'[p] = held[p] \cup {row} /\ pc'[p] = "cascade" /\ pc[p] = "cascade"
        BY <3>4 DEF LocksRow
      <4>2. req[p].op \in {"unpublish", "drop"}
        BY <3>1, <4>1, RequestIs DEF Places, Ops
      <4>3. ASSUME NEW m \in Post, PostRow(m) \in held'[p] PROVE Stored(m) /\ m \in Reach(req[p])
        <5>1. CASE PostRow(m) \in held[p]
          BY <3>1, <5>1 DEF Cascades
        <5>2. CASE PostRow(m) = row
          <6>1. m \in DoomedPosts(p)
            BY <4>1, <5>2, DoomedIs
          <6>2. CASE Leaves(p, Author[m])
            BY <3>2, <6>1, <6>2, ReachFacts DEF DoomedPosts, Leaves, Running
          <6>3. CASE PostRow(Parent[m]) \in held[p]
            <7>1. Parent[m] \in Post
              BY <3>1, <6>3, PostRowIs
            <7>2. Parent[m] \in Reach(req[p])
              BY <3>1, <6>3, <7>1 DEF Cascades
            <7>3. QED
              BY <3>2, <4>2, <6>1, <7>2, ReachFacts DEF DoomedPosts
          <6>4. QED
            BY <6>1, <6>2, <6>3 DEF DoomedPosts
        <5>3. QED
          BY <4>1, <4>3, <5>1, <5>2
      <4>4. ASSUME NEW m \in Post, NEW u \in User, ReactionRow(m, u) \in held'[p]
            PROVE  Leaves(p, u) \/ PostRow(m) \in held[p]
        <5>1. CASE ReactionRow(m, u) = row
          <6>1. <<m, u>> \in DoomedReactions(p)
            BY <4>1, <5>1, DoomedIs
          <6>2. QED
            BY <6>1 DEF DoomedReactions
        <5>2. QED
          BY <3>1, <4>1, <4>4, <5>1 DEF Cascades
      <4>5. ASSUME NEW u \in User, NEW v \in User, BlockRow(u, v) \in held'[p]
            PROVE  Leaves(p, u) \/ Leaves(p, v)
        <5>1. CASE BlockRow(u, v) = row
          <6>1. <<u, v>> \in DoomedBlocks(p)
            BY <4>1, <5>1, DoomedIs
          <6>2. QED
            BY <6>1 DEF DoomedBlocks
        <5>2. QED
          BY <3>1, <4>1, <4>5, <5>1 DEF Cascades
      <4>6. req[p].op = "unpublish" => PostRow(req[p].m) \in held'[p]
        BY <3>1, <4>1 DEF Cascades
      <4>7. \A u : Leaves(p, u)' <=> Leaves(p, u)
        BY <3>1, <4>1 DEF Leaves, Running
      <4>8. QED
        BY <3>1, <4>1, <4>3, <4>4, <4>5, <4>6, <4>7 DEF Cascades, Stored, Reach
    <3>5. CASE LocksUser(p)
      <4>1. held'[p] = {} /\ req[p].op = "drop"
        BY <3>1, <3>5 DEF LocksUser, KeptBut, Cascades
      <4>2. QED
        BY <3>1, <4>1 DEF Cascades
    <3>6. CASE ~(LocksPost(p) \/ LocksRow(p) \/ LocksUser(p))
      <4>1. held'[p] = held[p] /\ pc[p] # "cascade" /\ pc'[p] # "cascade"
        <5>1. First(req[p]) # "cascade" /\ Answered(req[p]) # "cascade"
          BY <3>2 DEF First, Answered, Ops
        <5>2. QED
          BY <2>4, <3>2, <3>6, <5>1 DEF Quiet, Passes, Kept, KeptBut, Inserts, ReadsVector, WritesVector,
            ReadsPrevious, Upserts, RefersUser, AfterUpsert, Serves, AsksAuthor, CountsThem
      <4>2. held'[p] = {}
        BY <3>1, <4>1 DEF Cascades
      <4>3. QED
        BY <4>1, <4>2 DEF Cascades
    <3>7. QED
      BY <3>3, <3>4, <3>5, <3>6
  <2>5. QED
    BY <2>1, <2>2, <2>3, <2>4
       DEF Moved, Ended, CommitsAny, CommitsMove, CommitsRemoval, CommitsBlock, CommitsProfile, CommitsDrop
<1>3. QED
  BY <1>1, <1>2

(* A reaction under way has its post and, once it refers to him, its user. *)
LEMMA ReactionStands ==
  ASSUME TInv, LInv, NEW q \in Proc, "row" \in wrote[q]
  PROVE  /\ req[q].op = "react" /\ req[q].m \in Post /\ req[q].by \in User /\ Stored(req[q].m)
         /\ pc[q] # "refer" => req[q].by \in accounts
<1>1. Locks(q) /\ Refers(q) /\ PostIntegrity
  BY DEF LInv
<1>2. req[q].op = "react" /\ pc[q] # "idle"
  BY <1>1 DEF Locks
<1>3. req[q].m \in Post /\ req[q].by \in User
  BY <1>2, RequestIs, RequestFields
<1>4. CASE "post" \in wrote[q]
  BY <1>1, <1>2, <1>3, <1>4, ParentType DEF Refers, Referred, Locks
<1>5. CASE "post" \notin wrote[q]
  BY <1>1, <1>2, <1>3, <1>5 DEF Refers, PostIntegrity
<1>6. QED
  BY <1>2, <1>3, <1>4, <1>5

LEMMA MovedIntegrity ==
  ASSUME TInv, LInv, NEW p \in Proc, Moved(p)
  PROVE  PostIntegrity'
<1> DEFINE r == req[p]
<1>1. /\ PostIntegrity /\ Refers(p) /\ Locks(p)
      /\ posts \in [Post -> {"unused", "taken", "stored", "deleted"}]
      /\ reaction \in [Post -> [User -> Reaction]]
  BY DEF LInv, TInv, Types
<1>2. CASE CommitsRemoval(p) \/ CommitsDrop(p)
  <2>1. ASSUME NEW m \in Post, Stored(m)'
        PROVE  Author[m] \in accounts' /\ (Parent[m] # NoPost => Stored(Parent[m])')
    <3>1. Stored(m) /\ m \notin Gone(p)
      BY <1>2, <2>1, MovedStored
    <3>2. Parent[m] \in Post \cup {NoPost} /\ Parent[m] \notin Gone(p)
      BY <1>2, <3>1, ParentType, GoneIs
    <3>3. Author[m] \in accounts'
      BY <1>1, <1>2, <3>1, GoneIs, MovedStored DEF PostIntegrity, CommitsDrop
    <3>4. Parent[m] # NoPost => Stored(Parent[m])'
      BY <1>1, <1>2, <3>1, <3>2, MovedStored DEF PostIntegrity
    <3>5. QED
      BY <3>3, <3>4
  <2>2. ASSUME NEW m \in Post, NEW u \in User, reaction'[m][u] # "none"
        PROVE  Stored(m)' /\ u \in accounts'
    <3>1. reaction[m][u] # "none" /\ ReactionRow(m, u) \notin held[p]
      BY <1>2, <2>2, MovedStored
    <3>2. Stored(m) /\ u \in accounts
      BY <1>1, <3>1 DEF PostIntegrity
    <3>3. m \notin Gone(p) /\ (CommitsDrop(p) => u # req[p].by)
      BY <1>2, <3>1, GoneIs
    <3>4. QED
      BY <1>2, <3>2, <3>3, MovedStored DEF CommitsDrop
  <2>3. QED
    BY <2>1, <2>2 DEF PostIntegrity
<1>3. CASE CommitsMove(p) /\ pc[p] # "idle"
  <2>1. r \in Request /\ r.op \in {"publish", "react"} /\ accounts' = accounts /\ pc[p] = "commit"
    BY <1>3, RequestIs DEF CommitsMove, TInv, Types, Places, Ops
  <2>2. CASE r.op = "publish"
    <3>1. r.m \in Post /\ r.by = Author[r.m] /\ r.by \in accounts
          /\ (Parent[r.m] # NoPost => Stored(Parent[r.m]))
      BY <1>1, <2>1, <2>2, RequestFields DEF Locks, Refers, Referred
    <3>2. posts' = [posts EXCEPT ![r.m] = "stored"] /\ reaction' = reaction
      BY <1>3, <2>2 DEF CommitsMove
    <3>3. \A m \in Post : Stored(m)' <=> Stored(m) \/ m = r.m
      BY <1>1, <3>1, <3>2 DEF Stored
    <3>4. \A m \in Post : Parent[m] \in Post \cup {NoPost}
      BY ParentType
    <3> HIDE DEF r
    <3>5. QED
      BY <1>1, <2>1, <3>1, <3>2, <3>3, <3>4 DEF PostIntegrity
  <2>3. CASE r.op = "react"
    <3>1. r.m \in Post /\ r.by \in User /\ ("row" \in wrote[p] => r.by \in accounts /\ Stored(r.m))
      BY <2>1, <2>3, RequestFields, ReactionStands
    <3>2. posts' = posts /\ (reaction' = reaction
                             \/ ("row" \in wrote[p] /\ reaction' = [reaction EXCEPT ![r.m][r.by] = r.reaction]))
      BY <1>3, <2>3 DEF CommitsMove
    <3>3. \A m \in Post, u \in User : reaction'[m][u] # "none" =>
            reaction[m][u] # "none" \/ ("row" \in wrote[p] /\ m = r.m /\ u = r.by)
      BY <1>1, <3>1, <3>2
    <3> HIDE DEF r
    <3>4. QED
      BY <1>1, <2>1, <3>1, <3>2, <3>3 DEF PostIntegrity, Stored
  <2>4. QED
    BY <2>1, <2>2, <2>3
<1>4. ASSUME NEW b, Began(p, b) PROVE PostIntegrity'
  <2>1. \A m \in Post : Stored(m)' <=> Stored(m)
    BY <1>1, <1>4 DEF Began, Stored
  <2>2. accounts' = accounts /\ reaction' = reaction
    BY <1>4 DEF Began
  <2>3. \A m \in Post : Parent[m] \in Post \cup {NoPost}
    BY ParentType
  <2>4. QED
    BY <1>1, <2>1, <2>2, <2>3 DEF PostIntegrity
<1>5. CASE accounts' = accounts /\ posts' = posts /\ reaction' = reaction
  BY <1>1, <1>5 DEF PostIntegrity, Stored
<1>6. QED
  BY <1>2, <1>3, <1>4, <1>5
     DEF Moved, Quiet, Ended, CommitsAny, CommitsBlock, CommitsVector, CommitsProfile, tables

LEMMA StepLocks == TInv /\ LInv /\ [Next]_vars => LInv'
<1> SUFFICES ASSUME TInv, LInv, [Next]_vars PROVE LInv'
  OBVIOUS
<1>1. ASSUME NEW p \in Proc, Moved(p) PROVE LInv'
  BY <1>1, MovedLocks, MovedRefers, MovedCascades, MovedReserves, MovedExclusive, MovedDistinct,
     MovedIntegrity DEF LInv
<1>2. QED
  BY <1>1, StillLocks, StepMoves

LEMMA InitLocks == Init => LInv
<1> SUFFICES ASSUME Init PROVE LInv
  OBVIOUS
<1>1. /\ accounts = User /\ \A m \in Post, u \in User : reaction[m][u] = "none"
      /\ \A m \in Post : posts[m] = IF m \in Start THEN "stored" ELSE "unused"
      /\ \A q \in Proc : wrote[q] = {} /\ held[q] = {} /\ pc[q] = "idle" /\ req[q] = NoReq
  BY DEF Init
<1>2. \A m \in Post : Stored(m) <=> m \in Start
  BY <1>1 DEF Stored
<1>3. PostIntegrity
  BY <1>1, <1>2, StartType, AuthorType, ParentType DEF PostIntegrity
<1>4. \A q \in Proc : Locks(q) /\ Refers(q) /\ Cascades(q)
  BY <1>1 DEF Locks, Refers, Cascades, NoReq
<1>5. QED
  BY <1>1, <1>3, <1>4 DEF LInv, Reserved, Exclusive, Distinct, NoReq

(* A stored comment has a stored parent, every stored post a registered    *)
(* author, every reaction a stored post and a registered user, whatever    *)
(* create, react, delete and the deletion of accounts do at the same time. *)
THEOREM Integrity == Spec => []PostIntegrity
<1>1. Init => TInv /\ LInv
  BY InitTypes, InitLocks
<1>2. TInv /\ LInv /\ [Next]_vars => TInv' /\ LInv'
  BY StepTypes, StepLocks
<1>3. LInv => PostIntegrity
  BY DEF LInv
<1>4. QED
  BY <1>1, <1>2, <1>3, PTL DEF Spec

-----------------------------------------------------------------------------
(* A request that is waited for and waits itself is about to move the      *)
(* vector of its user, or to refer to him, or a deletion that has come to  *)
(* some of its rows.                                                       *)
LEMMA HolderWaits ==
  ASSUME TInv, LInv, NEW p \in Proc, NEW q \in Proc, q \in WaitsFor(p), WaitsFor(q) # {}
  PROVE  /\ q # p
         /\ \/ pc[q] = "cascade"
            \/ pc[q] = "refer"
            \/ pc[q] = "write" /\ ("row" \in wrote[q] \/ "post" \in wrote[q] \/ "key" \in wrote[q])
<1>1. Locks(q) /\ Cascades(q)
  BY DEF LInv
<1>2. q # p /\ (held[q] # {} \/ wrote[q] \cap {"row", "post", "key", "user"} # {})
  BY DEF WaitsFor, HoldsUser, HoldsKey, Holds, Leaving
<1>3. pc[q] \in {"write", "reset", "init", "overwrite", "insert", "upsert", "refer", "remove",
                 "row", "drop", "cascade"}
  BY DEF WaitsFor
<1>4. CASE held[q] # {}
  BY <1>1, <1>2, <1>4 DEF Cascades
<1>5. CASE "row" \in wrote[q] \/ "post" \in wrote[q] \/ "key" \in wrote[q]
  BY <1>1, <1>2, <1>3, <1>5 DEF Locks
<1>6. CASE "user" \in wrote[q]
  BY <1>1, <1>2, <1>3, <1>6 DEF Locks
<1>7. QED
  BY <1>2, <1>4, <1>5, <1>6

(* One that is about to move the vector, or to refer to the user, waits    *)
(* for the deletion of the user; a row it has inserted, and that refers to *)
(* the user, would have kept the deletion from coming to him.              *)
LEMMA WriterWaits ==
  ASSUME TInv, LInv, NEW w \in Proc, NEW d \in Proc, d \in WaitsFor(w), WaitsFor(d) # {},
         pc[w] \in {"refer", "write"}
  PROVE  /\ pc[d] = "cascade" /\ Running(d, "drop") /\ req[d].by = req[w].by /\ d # w
         /\ "key" \notin wrote[w]
<1>1. d # w /\ HoldsUser(d, req[w].by)
  BY DEF WaitsFor, Leaving
<1>2. Locks(d) /\ pc[d] # "commit"
  BY DEF LInv, WaitsFor
<1>3. pc[d] = "cascade" /\ Running(d, "drop") /\ req[d].by = req[w].by
  BY <1>1, <1>2 DEF Locks, HoldsUser, Running
<1>4. "key" \notin wrote[w]
  BY <1>1, <1>3 DEF LInv, Reserved, HoldsKey, Running
<1>5. QED
  BY <1>1, <1>3, <1>4

(* If it holds a row when it is about to move the vector, this is a        *)
(* reaction it changes or takes back, and the deletion of the user has to  *)
(* wait for it.                                                            *)
LEMMA DropWaits ==
  ASSUME TInv, LInv, NEW w \in Proc, NEW d \in Proc, d \in WaitsFor(w), WaitsFor(d) # {},
         pc[w] = "write", "row" \in wrote[w] \/ "post" \in wrote[w] \/ "key" \in wrote[w]
  PROVE  /\ Running(d, "drop") /\ Running(w, "react") /\ req[w].by = req[d].by
         /\ w \in WaitsFor(d)
<1> DEFINE m == req[w].m
           u == req[w].by
<1>1. /\ pc[d] = "cascade" /\ Running(d, "drop") /\ req[d].by = u /\ d # w
      /\ "key" \notin wrote[w]
  BY WriterWaits
<1>2. Locks(w) /\ Refers(w) /\ Exclusive
  BY DEF LInv
<1>3. "row" \in wrote[w] /\ "post" \notin wrote[w] /\ Running(w, "react")
  BY <1>1, <1>2 DEF Locks, Running
<1>4. m \in Post /\ u \in User /\ reaction[m][u] # "none"
  BY <1>2, <1>3, RequestIs, RequestFields DEF Running, Refers
<1>5. ReactionRow(m, u) \in Doomed(d)
  <2>1. <<m, u>> \in DoomedReactions(d)
    BY <1>1, <1>4 DEF DoomedReactions, Leaves
  <2>2. QED
    BY <2>1, DoomedIs
<1>6. Holds(w, ReactionRow(m, u))
  BY <1>3 DEF Holds
<1>7. ReactionRow(m, u) \notin held[d]
  BY <1>1, <1>2, <1>6 DEF Exclusive
<1>8. w \in WaitsFor(d)
  BY <1>1, <1>5, <1>6, <1>7 DEF WaitsFor
<1>9. QED
  BY <1>1, <1>3, <1>8

LEMMA DeadlockLocks == TInv /\ LInv => DeadlockShape
<1> DEFINE Crossed(d, w) == /\ Running(d, "drop") /\ Running(w, "react") /\ req[w].by = req[d].by
                            /\ d \in WaitsFor(w) /\ w \in WaitsFor(d)
           Cascading(c, d) == c # d /\ pc[c] = "cascade" /\ pc[d] = "cascade"
<1> SUFFICES ASSUME TInv, LInv, NEW S \in SUBSET Proc, DeadlockedSet(S)
             PROVE  (\E d, w \in S : Crossed(d, w)) \/ (\E c, d \in S : Cascading(c, d))
  BY DEF DeadlockShape
<1>1. ASSUME NEW q \in S PROVE WaitsFor(q) # {} /\ \E x \in S : x \in WaitsFor(q)
  BY DEF DeadlockedSet
<1>2. PICK c \in S : pc[c] = "cascade"
  <2>1. PICK p \in S : TRUE
    BY DEF DeadlockedSet
  <2>2. PICK q \in S : q \in WaitsFor(p)
    BY <1>1
  <2>3. PICK d \in S : d \in WaitsFor(q)
    BY <1>1
  <2>4. WaitsFor(q) # {} /\ WaitsFor(d) # {}
    BY <1>1
  <2>5. pc[q] = "cascade" \/ pc[q] \in {"refer", "write"}
    BY <2>2, <2>4, HolderWaits
  <2>6. CASE pc[q] \in {"refer", "write"}
    BY <2>3, <2>4, <2>6, WriterWaits
  <2>7. QED
    BY <2>5, <2>6
<1>3. PICK q \in S : q \in WaitsFor(c)
  BY <1>1
<1>4. PICK d \in S : d \in WaitsFor(q)
  BY <1>1
<1>5. WaitsFor(q) # {} /\ WaitsFor(d) # {}
  BY <1>1
<1>6. q # c
  BY <1>3, <1>5, HolderWaits
<1>7. CASE pc[q] = "cascade"
  BY <1>2, <1>6, <1>7
<1>8. CASE pc[q] = "write" /\ ("row" \in wrote[q] \/ "post" \in wrote[q] \/ "key" \in wrote[q])
  <2>1. Crossed(d, q)
    BY <1>4, <1>5, <1>8, DropWaits
  <2>2. QED
    BY <2>1
<1>9. CASE pc[q] = "refer"
  <2>1. pc[d] = "cascade" /\ Running(d, "drop") /\ req[d].by = req[q].by
    BY <1>4, <1>5, <1>9, WriterWaits
  <2>2. CASE d # c
    BY <1>2, <2>1, <2>2
  <2>3. CASE d = c
    <3>1. Locks(q) /\ Placed(q)
      BY DEF LInv, TInv
    <3>2. Running(q, "react")
      BY <1>9, <3>1 DEF Locks, Running
    <3>3. Crossed(d, q)
      BY <1>3, <1>4, <2>1, <2>3, <3>2
    <3>4. QED
      BY <3>3
  <2>4. QED
    BY <2>2, <2>3
<1>10. QED
  BY <1>3, <1>5, <1>7, <1>8, <1>9, HolderWaits

(* Whatever requests there are, every deadlock among them has one of the   *)
(* two shapes: the deletion of an account and a reaction of its user, or   *)
(* two deletions that lock row by row what depends on an account or on a   *)
(* post (posting.rs:118, :346, user.rs:84, create_posts up.sql:13-30).     *)
THEOREM DeadlocksOfTwoKinds == Spec => []DeadlockShape
<1>1. Init => TInv /\ LInv
  BY InitTypes, InitLocks
<1>2. TInv /\ LInv /\ [Next]_vars => TInv' /\ LInv'
  BY StepTypes, StepLocks
<1>3. TInv /\ LInv => DeadlockShape
  BY DeadlockLocks
<1>4. QED
  BY <1>1, <1>2, <1>3, PTL DEF Spec

-----------------------------------------------------------------------------
(* The tables alone: each step is one of Board, or changes nothing there.  *)
BlocksRegistered == \A b \in blocks : {b[1], b[2]} \subseteq accounts

LEMMA MovedBlocks ==
  ASSUME TInv, LInv, BlocksRegistered, NEW p \in Proc, Moved(p)
  PROVE  BlocksRegistered'
<1>1. blocks \subseteq User \X User
  BY DEF TInv, Types
<1>2. CASE CommitsBlock(p)
  BY <1>1, <1>2 DEF CommitsBlock, BlocksRegistered
<1>3. CASE CommitsDrop(p)
  <2>1. \A b \in blocks' : b \in blocks /\ req[p].by \notin {b[1], b[2]}
    BY <1>3, GoneIs DEF CommitsDrop, Cascaded
  <2>2. QED
    BY <1>1, <1>3, <2>1 DEF CommitsDrop, BlocksRegistered
<1>4. CASE CommitsRemoval(p)
  BY <1>4 DEF CommitsRemoval, Cascaded, BlocksRegistered
<1>5. CASE blocks' = blocks /\ accounts' = accounts
  BY <1>5 DEF BlocksRegistered
<1>6. QED
  BY <1>2, <1>3, <1>4, <1>5
     DEF Moved, Quiet, Ended, Began, CommitsAny, CommitsMove, CommitsVector, CommitsProfile, tables

LEMMA SameThreads ==
  /\ Abstract!NoPost = NoPost
  /\ \A m : Abstract!Below(m) = Below(m)
  /\ \A u : Abstract!PostsOf(u) = PostsOf(u)
BY DEF Abstract!NoPost, NoPost, Abstract!Below, Below, Abstract!PostsOf, PostsOf

LEMMA PublishedIs ==
  ASSUME TInv
  PROVE  /\ Published \in [Post -> {"unused", "stored", "deleted"}]
         /\ \A m \in Post : Published[m] = IF posts[m] = "taken" THEN "unused" ELSE posts[m]
         /\ \A m \in Post : Abstract!On(m) <=> Stored(m)
BY DEF TInv, Types, Published, Abstract!On, Stored

(* A deleted post has nothing stored below it. *)
LEMMA NothingBelow ==
  ASSUME TInv, PostIntegrity, NEW m \in Post, ~Stored(m)
  PROVE  \A x \in Below(m) : ~Stored(x)
<1> DEFINE N == {y \in Post : ~Stored(y)}
<1>1. ASSUME NEW y \in Post, Parent[y] \in N PROVE y \in N
  BY <1>1, ParentType DEF PostIntegrity
<1>2. m \in N /\ N \in SUBSET Post
  OBVIOUS
<1>3. Below(m) \subseteq N
  <2> HIDE DEF N
  <2>1. QED
    BY <1>1, <1>2 DEF Below
<1>4. QED
  BY <1>3

LEMMA MoveOnBoard ==
  ASSUME TInv, LInv, TInv', NEW p \in Proc, CommitsMove(p), pc[p] # "idle"
  PROVE  [Abstract!Next]_(Abstract!board)
<1> DEFINE r == req[p]
<1>1. /\ r.op \in {"publish", "react"} /\ r \in Request /\ r.by \in User /\ r.m \in Post
      /\ Locks(p) /\ Refers(p) /\ pc[p] = "commit"
  BY RequestIs, RequestFields DEF CommitsMove, LInv, Places, Ops
<1>2. /\ posts \in [Post -> {"unused", "taken", "stored", "deleted"}]
      /\ UNCHANGED <<accounts, blocks>>
  BY DEF TInv, Types, CommitsMove
<1>3. CASE r.op = "publish"
  <2>1. /\ posts[r.m] = "taken" /\ Author[r.m] = r.by /\ r.by \in accounts
        /\ Parent[r.m] # NoPost => Stored(Parent[r.m])
    BY <1>1, <1>3, RequestFields DEF Locks, Refers, Referred
  <2>2. reaction' = reaction /\ posts' = [posts EXCEPT ![r.m] = "stored"]
    BY <1>3 DEF CommitsMove
  <2>3. Published' = [Published EXCEPT ![r.m] = "stored"]
    BY <1>1, <1>2, <2>1, <2>2 DEF Published
  <2>4. Published[r.m] = "unused" /\ (Parent[r.m] = Abstract!NoPost \/ Abstract!On(Parent[r.m]))
    BY <1>1, <2>1, PublishedIs, SameThreads, ParentType
  <2>5. Abstract!Publish(r.m)
    BY <1>2, <2>1, <2>2, <2>3, <2>4 DEF Abstract!Publish
  <2>6. QED
    BY <1>1, <2>5 DEF Abstract!Next
<1>4. CASE r.op = "react" /\ "row" \in wrote[p]
  <2>1. r.by \in accounts /\ Abstract!On(r.m)
    BY <1>1, <1>4, PublishedIs, ReactionStands
  <2>2. Published' = Published
    BY <1>4 DEF CommitsMove, Published
  <2>3. reaction' = [reaction EXCEPT ![r.m][r.by] = r.reaction]
    BY <1>4 DEF CommitsMove
  <2>4. Abstract!React(r.m, r.by, r.reaction)
    BY <1>2, <2>1, <2>2, <2>3 DEF Abstract!React
  <2>5. r.reaction \in Abstract!Reaction
    BY <1>1, <1>4, RequestFields DEF Reaction, Abstract!Reaction
  <2>6. QED
    BY <1>1, <2>4, <2>5 DEF Abstract!Next
<1>5. CASE r.op = "react" /\ "row" \notin wrote[p]
  <2>1. Published' = Published /\ reaction' = reaction
    BY <1>5 DEF CommitsMove, Published
  <2>2. QED
    BY <1>2, <2>1 DEF Abstract!board
<1>6. QED
  BY <1>1, <1>3, <1>4, <1>5

(* What a deletion has taken when it is done is all that depends on what   *)
(* it removes, as long as references hold.                                 *)
LEMMA GoneIsReach ==
  ASSUME TInv, LInv, NEW p \in Proc, CommitsRemoval(p) \/ CommitsDrop(p)
  PROVE  \A m \in Post : Stored(m) => (m \in Gone(p) <=> m \in Reach(req[p]))
<1> DEFINE C == {y \in Post : Stored(y) => y \in Gone(p)}
<1>1. ASSUME NEW y \in Post, Parent[y] \in C PROVE y \in C
  <2>1. Stored(y) => Stored(Parent[y])
    BY <1>1, ParentType DEF LInv, PostIntegrity
  <2>2. Stored(y) => Parent[y] \in Gone(p)
    BY <1>1, <2>1
  <2>3. QED
    BY <2>2, GoneIs
<1>2. C \in SUBSET Post
  OBVIOUS
<1> HIDE DEF C
<1>3. ASSUME NEW m \in C PROVE Below(m) \subseteq C
  BY <1>1, <1>2, <1>3 DEF Below
<1>4. Reach(req[p]) \subseteq C
  <2>1. CASE CommitsRemoval(p)
    <3>1. req[p].op = "unpublish" /\ req[p].m \in Post
      BY <2>1, RequestIs, RequestFields DEF CommitsRemoval
    <3>2. req[p].m \in Gone(p)
      BY <2>1, <3>1 DEF CommitsRemoval, LInv, Cascades, Gone
    <3>3. req[p].m \in C
      BY <3>1, <3>2 DEF C
    <3>4. QED
      BY <1>3, <3>1, <3>3 DEF Reach
  <2>2. CASE CommitsDrop(p)
    <3>1. \A m \in PostsOf(req[p].by) : m \in C
      BY <2>2, GoneIs DEF PostsOf, C
    <3>2. req[p].op # "unpublish"
      BY <2>2 DEF CommitsDrop
    <3>3. QED
      BY <1>3, <3>1, <3>2 DEF Reach
  <2>3. QED
    BY <2>1, <2>2
<1>5. Gone(p) \subseteq Reach(req[p])
  BY GoneIs
<1>6. QED
  BY <1>4, <1>5 DEF C

(* What it does to the tables is what Board says. *)
LEMMA CascadeOnBoard ==
  ASSUME TInv, LInv, NEW p \in Proc, CommitsRemoval(p) \/ CommitsDrop(p),
         NEW gone, gone = IF CommitsDrop(p) THEN {req[p].by} ELSE {}
  PROVE  Abstract!Leave(Reach(req[p]), gone)
<1> DEFINE S == Reach(req[p])
<1>1. /\ posts \in [Post -> {"unused", "taken", "stored", "deleted"}]
      /\ reaction \in [Post -> [User -> Reaction]]
      /\ PostIntegrity /\ Cascaded(p)
  BY DEF TInv, Types, LInv, CommitsRemoval, CommitsDrop
<1>2. \A m \in Post : (m \in S /\ Stored(m)) <=> m \in Gone(p)
  BY GoneIsReach, GoneIs
<1>3. posts' = [m \in Post |-> IF m \in Gone(p) THEN "deleted" ELSE posts[m]]
  BY <1>1 DEF Cascaded, Gone
<1>4. Published' = [m \in Post |-> IF m \in S /\ Abstract!On(m) THEN "deleted" ELSE Published[m]]
  <2>1. \A m \in Post : Published'[m] =
          IF m \in S /\ Abstract!On(m) THEN "deleted" ELSE Published[m]
    BY <1>1, <1>2, <1>3, PublishedIs DEF Published
  <2>2. QED
    BY <2>1 DEF Published
<1>5. \A m \in Post, u \in User : reaction[m][u] # "none" =>
        (ReactionRow(m, u) \in held[p] <=> m \in S \/ u \in gone)
  <2> TAKE m \in Post, u \in User
  <2> HAVE reaction[m][u] # "none"
  <2>1. Stored(m)
    BY <1>1 DEF PostIntegrity
  <2>2. m \in S <=> m \in Gone(p)
    BY <1>2, <2>1
  <2>3. u \in gone <=> CommitsDrop(p) /\ u = req[p].by
    OBVIOUS
  <2>4. ReactionRow(m, u) \in held[p] <=> m \in Gone(p) \/ (CommitsDrop(p) /\ u = req[p].by)
    BY GoneIs
  <2>5. QED
    BY <2>2, <2>3, <2>4
<1>6. reaction' = [m \in Post |-> [u \in User |->
                     IF m \in S \/ u \in gone THEN "none" ELSE reaction[m][u]]]
  <2> HIDE DEF S
  <2>1. QED
    BY <1>1, <1>5 DEF Cascaded
<1>7. QED
  BY <1>4, <1>6 DEF Abstract!Leave

LEMMA RemovalOnBoard ==
  ASSUME TInv, LInv, NEW p \in Proc, CommitsRemoval(p)
  PROVE  [Abstract!Next]_(Abstract!board)
<1> DEFINE m == req[p].m
<1>1. m \in Post /\ req[p].op = "unpublish" /\ ~CommitsDrop(p)
  BY RequestIs, RequestFields DEF CommitsRemoval, CommitsDrop
<1>2. Abstract!Leave(Abstract!Below(m), {})
  BY <1>1, CascadeOnBoard, SameThreads DEF Reach
<1>3. Abstract!On(m)
  <2>1. m \in Gone(p)
    BY <1>1 DEF CommitsRemoval, LInv, Cascades, Gone
  <2>2. QED
    BY <1>1, <2>1, GoneIs, PublishedIs
<1>4. blocks' = blocks
  <2>1. \A b \in blocks : BlockRow(b[1], b[2]) \notin held[p]
    BY <1>1, GoneIs
  <2>2. QED
    BY <2>1 DEF CommitsRemoval, Cascaded
<1>5. QED
  BY <1>1, <1>2, <1>3, <1>4 DEF CommitsRemoval, Abstract!Unpublish, Abstract!Next

LEMMA DropOnBoard ==
  ASSUME TInv, LInv, BlocksRegistered, NEW p \in Proc, CommitsDrop(p)
  PROVE  [Abstract!Next]_(Abstract!board)
<1> DEFINE u == req[p].by
<1>1. u \in User /\ req[p].op = "drop" /\ accounts' = accounts \ {u}
  BY RequestIs DEF CommitsDrop
<1>2. blocks' = {b \in blocks : u \notin {b[1], b[2]}}
  <2>1. \A b \in blocks : BlockRow(b[1], b[2]) \in held[p] <=> u \in {b[1], b[2]}
    BY GoneIs
  <2>2. QED
    BY <2>1 DEF CommitsDrop, Cascaded
<1>3. Abstract!Leave(Reach(req[p]), {u})
  BY CascadeOnBoard
<1>4. CASE u \in accounts
  <2>1. Reach(req[p]) = UNION {Abstract!Below(m) : m \in Abstract!PostsOf(u)}
    BY <1>1, SameThreads DEF Reach
  <2>2. Abstract!Leave(UNION {Abstract!Below(m) : m \in Abstract!PostsOf(u)}, {u})
    BY <1>3, <2>1
  <2>3. Abstract!Drop(u)
    BY <1>1, <1>2, <1>4, <2>2 DEF Abstract!Drop
  <2>4. QED
    BY <1>1, <2>3 DEF Abstract!Next
<1>5. CASE u \notin accounts
  <2>1. ASSUME NEW x \in Reach(req[p]) PROVE ~Stored(x)
    <3>1. PICK m \in Post : Author[m] = u /\ x \in Below(m)
      BY <1>1, <2>1 DEF Reach, PostsOf
    <3>2. ~Stored(m)
      BY <1>5, <3>1 DEF LInv, PostIntegrity
    <3>3. QED
      BY <3>1, <3>2, NothingBelow DEF LInv
  <2>2. \A m \in Post : ~(m \in Reach(req[p]) /\ Abstract!On(m))
    BY <2>1, PublishedIs
  <2>3. Published' = Published
    BY <1>3, <2>2, PublishedIs DEF Abstract!Leave
  <2>4. \A m \in Post, v \in User : m \in Reach(req[p]) \/ v \in {u} => reaction[m][v] = "none"
    BY <1>5, <2>1 DEF LInv, PostIntegrity
  <2>5. reaction' = reaction
    BY <1>3, <2>4 DEF Abstract!Leave, TInv, Types
  <2>6. accounts' = accounts /\ blocks' = blocks
    BY <1>1, <1>2, <1>5 DEF BlocksRegistered
  <2>7. QED
    BY <2>3, <2>5, <2>6 DEF Abstract!board
<1>6. QED
  BY <1>4, <1>5

LEMMA BlockOnBoard ==
  ASSUME TInv, NEW p \in Proc, CommitsBlock(p)
  PROVE  [Abstract!Next]_(Abstract!board)
<1> DEFINE u == req[p].by
           v == req[p].to
<1>1. u \in User /\ v \in User
  BY RequestIs, RequestFields DEF CommitsBlock, Places, Ops
<1>2. Published' = Published /\ UNCHANGED <<accounts, reaction>>
  BY DEF CommitsBlock, Published
<1>3. CASE blocks' = blocks \ {<<u, v>>}
  <2>1. <<u, v>> \in blocks \/ blocks' = blocks
    BY <1>3
  <2>2. CASE <<u, v>> \in blocks
    BY <1>1, <1>2, <1>3, <2>2 DEF Abstract!Unblock, Abstract!Next
  <2>3. CASE blocks' = blocks
    BY <1>2, <2>3 DEF Abstract!board
  <2>4. QED
    BY <2>1, <2>2, <2>3
<1>4. CASE u # v /\ {u, v} \subseteq accounts /\ blocks' = blocks \cup {<<u, v>>}
  <2>1. Abstract!Block(u, v)
    BY <1>2, <1>4 DEF Abstract!Block
  <2>2. QED
    BY <1>1, <2>1 DEF Abstract!Next
<1>5. QED
  BY <1>3, <1>4 DEF CommitsBlock

LEMMA MovedBoard ==
  ASSUME TInv, LInv, BlocksRegistered, TInv', NEW p \in Proc, Moved(p)
  PROVE  [Abstract!Next]_(Abstract!board)
<1>1. ASSUME UNCHANGED <<accounts, posts, reaction, blocks>>
      PROVE  UNCHANGED Abstract!board
  BY <1>1 DEF Abstract!board, Published
<1>2. ASSUME NEW r, Began(p, r) PROVE UNCHANGED Abstract!board
  <2>1. posts \in [Post -> {"unused", "taken", "stored", "deleted"}]
    BY DEF TInv, Types
  <2>2. r.op = "publish" => r.m \in Post
    BY <1>2, RequestFields DEF Began
  <2>3. Published' = Published
    BY <1>2, <2>1, <2>2 DEF Began, Published
  <2>4. QED
    BY <1>2, <2>3 DEF Began, Abstract!board
<1>3. CASE CommitsAny(p) /\ pc[p] # "idle"
  <2>1. CASE CommitsVector(p, <<>>) \/ CommitsVector(p, <<Tags>>) \/ CommitsProfile(p)
    BY <1>1, <2>1 DEF CommitsVector, CommitsProfile, tables
  <2>2. QED
    BY <1>3, <2>1, MoveOnBoard, RemovalOnBoard, BlockOnBoard, DropOnBoard DEF CommitsAny
<1>4. CASE Quiet(p) \/ Ended(p)
  BY <1>1, <1>4 DEF Quiet, Ended, tables
<1>5. QED
  BY <1>2, <1>3, <1>4 DEF Moved

LEMMA InitBoard == Init => Abstract!Init /\ BlocksRegistered
<1> SUFFICES ASSUME Init PROVE Abstract!Init /\ BlocksRegistered
  OBVIOUS
<1>1. Published = [m \in Post |-> IF m \in Start THEN "stored" ELSE "unused"]
  BY DEF Init, Published
<1>2. QED
  BY <1>1 DEF Init, Abstract!Init, BlocksRegistered

(* Seen from the tables, create, react, delete, block and the deletion of  *)
(* accounts each take effect at one instant, and what they refer to exists *)
(* then, for every number of them in progress (posting.rs:55, :113, :339,  *)
(* user.rs:83, :284).                                                      *)
THEOREM TakesEffectAtOnce == Spec => BoardSpec
<1>1. Init => TInv /\ LInv /\ BlocksRegistered /\ Abstract!Init
  BY InitTypes, InitLocks, InitBoard
<1>2. ASSUME TInv, LInv, BlocksRegistered, [Next]_vars
      PROVE  /\ TInv' /\ LInv' /\ BlocksRegistered'
             /\ [Abstract!Next]_(Abstract!board)
  <2>1. TInv' /\ LInv'
    BY <1>2, StepTypes, StepLocks
  <2>2. CASE Still
    <3>1. UNCHANGED <<accounts, posts, reaction, blocks>>
      BY <2>2 DEF Still, tables
    <3>2. BlocksRegistered'
      BY <1>2, <3>1 DEF BlocksRegistered
    <3>3. Published' = Published
      BY <3>1 DEF Published
    <3>4. UNCHANGED Abstract!board
      BY <3>1, <3>3 DEF Abstract!board
    <3>5. QED
      BY <2>1, <3>2, <3>4
  <2>3. ASSUME NEW p \in Proc, Moved(p)
        PROVE  BlocksRegistered' /\ [Abstract!Next]_(Abstract!board)
    BY <1>2, <2>1, <2>3, MovedBlocks, MovedBoard
  <2>4. QED
    BY <1>2, <2>1, <2>2, <2>3, StepMoves
<1>3. QED
  BY <1>1, <1>2, PTL DEF Spec, BoardSpec, Abstract!Spec

-----------------------------------------------------------------------------
(* What a query has seen holds until somebody has changed it. *)
Shown(q) ==
  /\ pc[q] # "idle" => blocked[q] \subseteq BlockedBy(req[q].by)
  /\ pc[q] = "blocks" => \A m \in found[q] : Author[m] \in todo[q] \/ Author[m] \notin blocked[q]
  /\ pc[q] \in {"counts", "own", "comments"} => \A m \in found[q] : Author[m] \notin blocked[q]
  /\ pc[q] = "own" => \A m \in found[q] \ moved[q], u \in User :
       reaction[m][u] # "none" => <<m, reaction[m][u]>> \in counted[q]

SInv == \A q \in Proc : Shown(q)

LEMMA NoteShows ==
  ASSUME TInv, NEW p \in Proc, NEW q \in Proc, Note(p), pc[q] # "idle", q # p \/ pc'[p] # "idle",
         SInv, req'[q] = req[q], found'[q] = found[q], todo'[q] = todo[q], counted'[q] = counted[q],
         pc'[q] = pc[q] \/ pc'[q] \notin {"blocks", "counts", "own", "comments"}
  PROVE  Shown(q)'
<1>1. req[q].by \in User /\ found[q] \subseteq Post /\ blocked[q] \subseteq User
  BY RequestIs DEF TInv, Types
<1>2. /\ blocked'[q] = {u \in blocked[q] : <<req[q].by, u>> \in blocks'}
      /\ moved'[q] = moved[q] \cup {m \in Post : reaction'[m] # reaction[m]}
  BY DEF Note
<1>3. Shown(q)
  BY DEF SInv
<1>4. ASSUME pc[q] = "own", NEW m \in found[q] \ moved'[q], NEW u \in User, reaction'[m][u] # "none"
      PROVE  <<m, reaction'[m][u]>> \in counted[q]
  BY <1>1, <1>2, <1>3, <1>4 DEF Shown
<1>5. blocked'[q] \subseteq BlockedBy(req[q].by)'
  BY <1>1, <1>2 DEF BlockedBy
<1>6. QED
  BY <1>2, <1>3, <1>4, <1>5 DEF Shown

LEMMA MovedShown ==
  ASSUME TInv, SInv, NEW p \in Proc, Moved(p)
  PROVE  SInv'
<1>1. Aside(p)
  BY DEF Moved
<1>2. ASSUME NEW q \in Proc, q # p, pc[q] = "idle" PROVE Shown(q)'
  BY <1>1, <1>2 DEF Aside, Shown
<1>3. CASE Quiet(p)
  <2>1. UNCHANGED <<blocks, reaction, blocked, moved>> /\ req'[p] = req[p] /\ pc[p] # "idle"
    BY <1>3 DEF Quiet, tables, aux
  <2>2. ASSUME NEW q \in Proc, q # p PROVE Shown(q)'
    BY <1>1, <2>1, <2>2 DEF Aside, Shown, SInv, BlockedBy
  <2>3. /\ Shown(p) /\ req[p].by \in User /\ found[p] \subseteq Post /\ blocked[p] \subseteq User
        /\ reaction \in [Post -> [User -> Reaction]] /\ found'[p] \subseteq Post
    BY <2>1, RequestIs DEF SInv, TInv, Types, Moved, LocalTypes
  <2>4. blocked'[p] \subseteq BlockedBy(req[p].by)'
    BY <2>1, <2>3 DEF Shown, BlockedBy
  <2>5. ASSUME Passes(p) PROVE Shown(p)'
    <3>1. req[p].op \in Ops /\ First(req[p]) \notin {"blocks", "counts", "own", "comments"}
          /\ Answered(req[p]) \notin {"blocks", "counts", "own", "comments"}
      BY <2>1, RequestIs DEF Ops, First, Answered
    <3>2. QED
      BY <2>1, <2>3, <2>4, <2>5, <3>1 DEF Passes, Kept, Shown
  <2>6. ASSUME Serves(p) PROVE Shown(p)'
    <3>1. pc'[p] = "counts" => \A m \in found'[p] : Author[m] \notin blocked[p]
      BY <2>1, <2>3, <2>6 DEF Serves, Shown
    <3>2. pc'[p] = "blocks" => \A m \in found'[p] : Author[m] \in todo'[p]
      BY <2>6 DEF Serves
    <3>3. pc'[p] \in {"blocks", "counts"}
      BY <2>6 DEF Serves
    <3>4. QED
      BY <2>1, <2>4, <3>1, <3>2, <3>3 DEF Shown
  <2>7. ASSUME AsksAuthor(p) PROVE Shown(p)'
    BY <2>1, <2>3, <2>4, <2>7 DEF AsksAuthor, Shown
  <2>8. ASSUME CountsThem(p) PROVE Shown(p)'
    <3>1. ASSUME NEW m \in found[p], NEW u \in User, reaction[m][u] # "none"
          PROVE  <<m, reaction[m][u]>> \in Counts(found[p])
      BY <2>3, <3>1 DEF Counts
    <3>2. QED
      BY <2>1, <2>3, <2>4, <2>8, <3>1 DEF CountsThem, Shown
  <2>9. ASSUME pc'[p] \notin {"blocks", "counts", "own", "comments"} PROVE Shown(p)'
    BY <2>1, <2>4, <2>9 DEF Shown
  <2>10. Shown(p)'
    <3>1. CASE Upserts(p) \/ RefersUser(p)
      <4>1. pc'[p] \in {"refer", "commit", "vector"}
        BY <3>1 DEF Upserts, RefersUser, AfterUpsert
      <4>2. QED
        BY <2>9, <4>1
    <3>2. QED
      BY <1>3, <2>5, <2>6, <2>7, <2>8, <2>9, <3>1
         DEF Quiet, Inserts, ReadsVector, WritesVector, ReadsPrevious, LocksUser, LocksPost, LocksRow
  <2>11. QED
    BY <2>2, <2>10 DEF SInv
<1>4. ASSUME NEW r, Began(p, r) PROVE SInv'
  <2>1. UNCHANGED <<blocks, reaction, moved>> /\ req'[p] = r /\ pc'[p] = "connect"
        /\ blocked' = [blocked EXCEPT ![p] = {u \in User : <<r.by, u>> \in blocks}]
    BY <1>4 DEF Began
  <2>2. blocked \in [Proc -> SUBSET User]
    BY DEF TInv, Types
  <2>3. ASSUME NEW q \in Proc, q # p PROVE Shown(q)'
    BY <1>1, <2>1, <2>2, <2>3 DEF Aside, Shown, SInv, BlockedBy
  <2>4. Shown(p)'
    BY <2>1, <2>2 DEF Shown, BlockedBy
  <2>5. QED
    BY <2>3, <2>4 DEF SInv
<1>5. ASSUME Note(p), pc[p] # "idle", Blank(p) PROVE SInv'
  <2>1. ASSUME NEW q \in Proc, q # p, pc[q] # "idle" PROVE Shown(q)'
    BY <1>1, <1>5, <2>1, NoteShows DEF Aside
  <2>2. Shown(p)'
    BY <1>5 DEF Blank, Shown
  <2>3. QED
    BY <1>2, <2>1, <2>2 DEF SInv
<1>6. ASSUME Note(p), pc[p] # "idle", NEW to, CommitsVector(p, to) PROVE SInv'
  <2>1. ASSUME NEW q \in Proc, pc[q] # "idle" PROVE Shown(q)'
    <3>1. CASE q = p
      <4>1. /\ req'[p] = req[p] /\ found'[p] = found[p] /\ todo'[p] = todo[p] /\ counted'[p] = counted[p]
            /\ pc'[p] \in {"embed", "code", "overwrite"}
        BY <1>6 DEF CommitsVector, Kept
      <4>2. QED
        BY <1>6, <3>1, <4>1, NoteShows
    <3>2. CASE q # p
      BY <1>1, <1>6, <2>1, <3>2, NoteShows DEF Aside
    <3>3. QED
      BY <3>1, <3>2
  <2>2. QED
    BY <1>2, <1>6, <2>1 DEF SInv
<1>7. QED
  BY <1>3, <1>4, <1>5, <1>6
     DEF Moved, Ended, CommitsAny, CommitsMove, CommitsRemoval, CommitsBlock, CommitsProfile, CommitsDrop

LEMMA StepShown == TInv /\ SInv /\ [Next]_vars => SInv'
<1> SUFFICES ASSUME TInv, SInv, [Next]_vars PROVE SInv'
  OBVIOUS
<1>1. CASE Still
  BY <1>1 DEF Still, SInv, Shown, BlockedBy, tables, locals, aux
<1>2. QED
  BY <1>1, MovedShown, StepMoves

(* No query is answered with a post of an author the user had blocked      *)
(* before he asked, whatever is published, blocked and deleted meanwhile.  *)
THEOREM BlockedHidden == Spec => []BlockedNotServed
<1>1. Init => SInv
  BY DEF Init, SInv, Shown
<1>2. SInv => BlockedNotServed
  BY DEF SInv, Shown, BlockedNotServed
<1>3. QED
  BY <1>1, <1>2, InitTypes, StepTypes, StepShown, PTL DEF Spec

(* The reaction an answer names is among those it counts, unless somebody  *)
(* has reacted in between.                                                 *)
THEOREM OwnReaction == Spec => OwnReactionCounted
<1>1. Init => SInv
  BY DEF Init, SInv, Shown
<1>2. ASSUME TInv, SInv, NEW p \in Proc, pc[p] = "own", NEW m \in found[p] \ moved[p],
             reaction[m][req[p].by] # "none"
      PROVE  <<m, reaction[m][req[p].by]>> \in counted[p]
  BY <1>2, RequestIs DEF SInv, Shown
<1>3. TInv /\ SInv /\ [Next]_vars =>
        [\A p \in Proc : pc[p] = "own" /\ pc'[p] = "comments" =>
           \A m \in found[p] \ moved[p] :
             reaction[m][req[p].by] # "none" => <<m, reaction[m][req[p].by]>> \in counted[p]]_vars
  BY <1>2
<1>4. QED
  BY <1>1, <1>3, InitTypes, StepTypes, StepShown, PTL DEF Spec, OwnReactionCounted

-----------------------------------------------------------------------------
(* What a request is about to write to the vector of its user. *)
Rewrites(q) == pc[q] = "write" \/ (pc[q] = "commit" /\ "user" \in wrote[q])
Renews(q) == req[q].op = "update" /\ pc[q] \in {"embed", "embedding", "init"}

Blends(q) ==
  /\ Rewrites(q) => base[q] # <<>>
  /\ Rewrites(q) /\ ~overlapped[q] =>
       base[q] = Append(vector[req[q].by], TheMove(req[q], previous[q]))
         /\ TheMove(req[q], previous[q]) \in Move
  /\ Renews(q) /\ ~overlapped[q] => vector[req[q].by] = <<>>

VInv ==
  /\ \A q \in Proc : Blends(q)
  /\ \A u \in User : u \notin accounts => vector[u] = <<>>
  /\ VectorlessForAReason

LEMMA AppendFacts ==
  ASSUME NEW S, NEW s \in Seq(S), NEW e \in S
  PROVE  Append(s, e) # <<>> /\ IsPrefix(s, Append(s, e))
<1> DEFINE t == Append(s, e)
<1>1. /\ t \in Seq(S) /\ Len(t) = Len(s) + 1 /\ Len(s) \in Nat
      /\ \A i \in 1..Len(s) : t[i] = s[i]
  OBVIOUS
<1> HIDE DEF t
<1>2. SubSeq(s, 1, Len(s)) = s
  OBVIOUS
<1>3. /\ SubSeq(t, 1, Len(s)) \in Seq(S) /\ Len(SubSeq(t, 1, Len(s))) = Len(s)
      /\ \A i \in 1..Len(s) : SubSeq(t, 1, Len(s))[i] = s[i]
  BY <1>1
<1>4. SubSeq(t, 1, Len(s)) = s
  BY <1>1, <1>3
<1>5. t # <<>> /\ IsPrefix(s, t)
  BY <1>1, <1>2, <1>4 DEF IsPrefix
<1>6. QED
  BY <1>5 DEF t

(* Of all steps, these alone change vectors: each the one of its user. *)
LEMMA MovedVector ==
  ASSUME TInv, VInv, NEW p \in Proc, Moved(p)
  PROVE  \/ vector' = vector
         \/ /\ pc[p] # "idle" /\ Note(p) /\ pc'[p] # pc[p]
            /\ \A u \in User \ {req[p].by} : vector'[u] = vector[u]
            /\ \/ /\ CommitsMove(p) /\ Rewrites(p) /\ vector'[req[p].by] = base[p]
                  /\ req[p].by \in accounts
               \/ CommitsVector(p, <<>>) /\ vector'[req[p].by] = <<>>
               \/ /\ CommitsVector(p, <<Tags>>) /\ vector'[req[p].by] = <<Tags>>
                  /\ req[p].by \in accounts
               \/ CommitsDrop(p) /\ vector'[req[p].by] = <<>>
<1>1. vector \in [User -> Seq(Move)]
  BY DEF TInv, Types
<1>2. CASE pc[p] # "idle" /\ Note(p) /\ CommitsAny(p)
  <2>1. req[p].by \in User
    BY <1>2, RequestIs
  <2>2. CASE CommitsMove(p)
    BY <1>1, <1>2, <2>1, <2>2 DEF CommitsMove, Blank, Rewrites
  <2>3. CASE CommitsVector(p, <<>>)
    BY <1>1, <1>2, <2>1, <2>3 DEF CommitsVector
  <2>4. CASE CommitsVector(p, <<Tags>>)
    BY <1>1, <1>2, <2>1, <2>4 DEF CommitsVector
  <2>5. CASE CommitsDrop(p)
    BY <1>1, <1>2, <2>1, <2>5 DEF CommitsDrop, Blank
  <2>6. QED
    BY <1>2, <2>2, <2>3, <2>4, <2>5
       DEF CommitsAny, CommitsRemoval, CommitsBlock, CommitsProfile, tables
<1>3. QED
  BY <1>2 DEF Moved, Quiet, Ended, Began, tables

LEMMA MovedBlends ==
  ASSUME TInv, LInv, VInv, NEW p \in Proc, Moved(p)
  PROVE  \A q \in Proc : Blends(q)'
<1>1. vector \in [User -> Seq(Move)] /\ \A q \in Proc : Blends(q)
  BY DEF TInv, Types, VInv
<1>2. ASSUME NEW q \in Proc, q # p PROVE Blends(q)'
  <2>1. pc'[q] = pc[q] /\ req'[q] = req[q] /\ wrote'[q] = wrote[q] /\ previous'[q] = previous[q]
        /\ base'[q] = base[q]
    BY <1>2 DEF Moved, Aside
  <2>2. CASE pc[q] = "idle"
    BY <2>1, <2>2 DEF Blends, Rewrites, Renews
  <2>3. CASE pc[q] # "idle"
    <3>1. req[q].by \in User
      BY <2>3, RequestIs
    <3>2. CASE Note(p)
      <4>1. overlapped'[q] <=> overlapped[q] \/ vector'[req[q].by] # vector[req[q].by]
        BY <1>2, <2>3, <3>2 DEF Note, TInv, Types
      <4>2. QED
        BY <1>1, <2>1, <4>1 DEF Blends, Rewrites, Renews
    <3>3. CASE ~Note(p)
      <4>1. overlapped' = overlapped /\ vector' = vector
        BY <3>3 DEF Moved, Ended, Quiet, Began, tables, aux
      <4>2. QED
        BY <1>1, <2>1, <4>1 DEF Blends, Rewrites, Renews
    <3>4. QED
      BY <3>2, <3>3
  <2>4. QED
    BY <2>2, <2>3
<1>3. ASSUME pc'[p] \in {"idle", "connect", "code", "overwrite"} PROVE Blends(p)'
  BY <1>3 DEF Blends, Rewrites, Renews
<1>4. ASSUME Quiet(p) PROVE Blends(p)'
  <2>1. vector' = vector /\ overlapped' = overlapped /\ req'[p] = req[p] /\ pc[p] # "idle"
        /\ Blends(p)
    BY <1>1, <1>4 DEF Quiet, tables, aux
  <2>2. req[p] \in Request /\ req[p].op \in Ops /\ req[p].by \in User /\ pc[p] \in Places(req[p].op)
        /\ previous[p] \in Reaction /\ Placed(p)
    BY <2>1, RequestIs DEF TInv
  <2>3. ASSUME Passes(p) PROVE Blends(p)'
    <3>1. wrote'[p] = wrote[p] /\ base'[p] = base[p] /\ previous'[p] = previous[p]
      BY <2>3 DEF Passes, Kept
    <3>2. ~Rewrites(p)'
      <4>1. First(req[p]) \notin {"write", "commit"} /\ Answered(req[p]) \notin {"write", "commit"}
        BY <2>2 DEF First, Answered, Ops
      <4>2. pc'[p] # "write" /\ (pc'[p] = "commit" => pc[p] = "vector")
        BY <2>3, <4>1 DEF Passes
      <4>3. pc[p] = "vector" => "user" \notin wrote[p]
        BY DEF LInv, Locks
      <4>4. QED
        BY <3>1, <4>2, <4>3 DEF Rewrites
    <3>3. Renews(p)' => Renews(p)
      <4>1. req[p].op = "update" => First(req[p]) \notin {"embed", "embedding", "init"}
        BY DEF First
      <4>2. req[p].op = "update" => pc[p] \notin {"parent", "post", "author", "target", "liked", "own",
                                                  "blocks", "vector"}
        BY <2>2 DEF Places
      <4>3. QED
        BY <2>1, <2>3, <4>1, <4>2 DEF Passes, Renews
    <3>4. QED
      BY <2>1, <3>2, <3>3 DEF Blends
  <2>4. ASSUME ReadsVector(p) PROVE Blends(p)'
    <3>1. TheMove(req[p], previous[p]) \in Move /\ pc[p] = "vector" /\ pc'[p] = "write"
      BY <2>2, <2>4, MoveType DEF ReadsVector, Placed, Places, Ops
    <3>2. base'[p] = Append(vector[req[p].by], TheMove(req[p], previous[p]))
          /\ previous'[p] = previous[p]
      BY <2>4 DEF ReadsVector
    <3>3. base'[p] # <<>>
      BY <1>1, <2>2, <3>1, <3>2, AppendFacts
    <3>4. QED
      BY <2>1, <3>1, <3>2, <3>3 DEF Blends, Renews
  <2>5. ASSUME WritesVector(p) PROVE Blends(p)'
    <3>1. Rewrites(p) /\ ~Renews(p)'
      BY <2>5 DEF Rewrites, WritesVector, Renews
    <3>2. base'[p] = base[p] /\ previous'[p] = previous[p]
      BY <2>5 DEF WritesVector
    <3>3. QED
      BY <2>1, <3>1, <3>2 DEF Blends
  <2>6. ASSUME Upserts(p) \/ RefersUser(p) PROVE Blends(p)'
    <3>1. pc'[p] \in {"refer", "commit", "vector"} /\ "user" \notin wrote'[p]
      BY <2>6 DEF Upserts, RefersUser, AfterUpsert, LInv, Locks
    <3>2. QED
      BY <3>1 DEF Blends, Rewrites, Renews
  <2>7. QED
    <3>1. Serves(p) => pc'[p] \in {"blocks", "counts"}
      BY DEF Serves
    <3>2. pc'[p] \in {"vector", "upsert", "cascade", "blocks", "counts", "own"} => Blends(p)'
      BY DEF Blends, Rewrites, Renews
    <3>3. QED
      BY <1>4, <2>3, <2>4, <2>5, <2>6, <3>1, <3>2
         DEF Quiet, Inserts, ReadsPrevious, LocksUser, LocksPost, LocksRow, AsksAuthor, CountsThem
<1>5. ASSUME pc[p] # "idle", Note(p), CommitsVector(p, <<>>) PROVE Blends(p)'
  <2>1. req'[p] = req[p] /\ pc'[p] = "embed" /\ req[p].by \in User
    BY <1>5, RequestIs DEF CommitsVector
  <2>2. vector'[req[p].by] = <<>>
    BY <1>1, <1>5, <2>1 DEF CommitsVector, VInv
  <2>3. QED
    BY <2>1, <2>2 DEF Blends, Rewrites, Renews
<1>6. QED
  <2>1. CommitsVector(p, <<Tags>>) => pc'[p] \in {"code", "overwrite"}
    BY DEF CommitsVector
  <2>2. Blends(p)'
    BY <1>3, <1>4, <1>5, <2>1
       DEF Moved, Ended, Blank, Began, CommitsAny, CommitsMove, CommitsRemoval, CommitsBlock, CommitsProfile,
           CommitsDrop
  <2>3. QED
    BY <1>2, <2>2

LEMMA MovedReasons ==
  ASSUME TInv, VInv, NEW p \in Proc, Moved(p)
  PROVE  VectorlessForAReason' /\ \A u \in User : u \notin accounts' => vector'[u] = <<>>
<1>1. /\ accounts \subseteq User /\ accounts' \subseteq accounts /\ Aside(p)
      /\ accounts' = accounts \/ (CommitsDrop(p) /\ accounts' = accounts \ {req[p].by})
  BY DEF TInv, Types, Moved, Quiet, Ended, Began, CommitsAny, CommitsMove, CommitsRemoval, CommitsBlock,
         CommitsVector, CommitsProfile, CommitsDrop, tables
<1>2. \A u \in User : u \notin accounts => vector[u] = <<>>
  BY DEF VInv
<1>3. CommitsDrop(p) => vector' = [vector EXCEPT ![req[p].by] = <<>>]
  BY DEF CommitsDrop
<1>4. vector \in [User -> Seq(Move)]
  BY DEF TInv, Types
<1>5. ASSUME NEW u \in User, u \notin accounts' PROVE vector'[u] = <<>>
  <2>1. CASE CommitsDrop(p)
    BY <1>1, <1>2, <1>3, <1>4, <1>5, <2>1
  <2>2. CASE ~CommitsDrop(p)
    <3>1. u \notin accounts
      BY <1>1, <1>5, <2>2
    <3>2. vector' = vector \/ (pc[p] # "idle" /\ (u # req[p].by => vector'[u] = vector[u]))
      BY MovedVector
    <3>3. QED
      BY <1>2, <2>2, <3>1, <3>2, MovedVector
  <2>3. QED
    BY <2>1, <2>2
<1>6. ASSUME NEW u \in accounts', vector'[u] = <<>>
      PROVE  u \in interrupted' \/ \E q \in Proc : (Running(q, "update") /\ req[q].by = u
                                                   /\ pc[q] \in {"embed", "embedding", "init"})'
  <2> DEFINE Busy(q) == Running(q, "update") /\ req[q].by = u /\ pc[q] \in {"embed", "embedding", "init"}
  <2>1. CASE pc[p] # "idle" /\ CommitsVector(p, <<>>) /\ u = req[p].by
    BY <2>1 DEF CommitsVector, Running
  <2>2. CASE vector[u] = <<>> /\ ~(CommitsVector(p, <<Tags>>) /\ u = req[p].by)
    <3>1. interrupted \ {req[p].by} \subseteq interrupted'
          /\ (CommitsVector(p, <<Tags>>) \/ interrupted \subseteq interrupted')
      BY DEF Moved, Quiet, Ended, Began, CommitsAny, CommitsMove, CommitsRemoval, CommitsBlock,
             CommitsVector, CommitsProfile, CommitsDrop, aux
    <3>2. u \in interrupted => u \in interrupted'
      BY <2>2, <3>1
    <3>3. ASSUME NEW q \in Proc, Busy(q), q # p PROVE Busy(q)'
      BY <1>1, <3>3 DEF Aside, Running
    <3>4. ASSUME Busy(p) PROVE Busy(p)' \/ u \in interrupted'
      <4>1. req[p].op = "update" /\ pc[p] \in {"embed", "embedding", "init"} /\ Running(p, "update")
            /\ req[p].by = u
        BY <3>4 DEF Running
      <4>2. Answered(req[p]) = "init"
        BY <4>1 DEF Answered
      <4>3. CASE Quiet(p)
        <5>1. pc'[p] \in {"embedding", "init"} /\ req'[p] = req[p]
          BY <4>1, <4>2, <4>3 DEF Quiet, Passes, Inserts, ReadsVector, WritesVector, ReadsPrevious, Upserts,
                                  RefersUser, LocksUser, LocksPost, LocksRow, Serves, AsksAuthor, CountsThem
        <5>2. QED
          BY <4>1, <5>1 DEF Running
      <4>4. CASE Ended(p)
        BY <4>1, <4>4 DEF Ended
      <4>5. QED
        BY <2>2, <4>1, <4>3, <4>4
           DEF Moved, Began, CommitsAny, CommitsMove, CommitsRemoval, CommitsBlock, CommitsVector,
               CommitsProfile, CommitsDrop
    <3>5. u \in interrupted \/ \E q \in Proc : Busy(q)
      BY <1>1, <1>6, <2>2 DEF VInv, VectorlessForAReason
    <3>6. QED
      BY <3>2, <3>3, <3>4, <3>5
  <2>3. CASE vector'[u] # vector[u] /\ ~CommitsVector(p, <<>>)
    <3>1. ~CommitsDrop(p) \/ u # req[p].by
      BY <1>6 DEF CommitsDrop
    <3>2. u = req[p].by
      BY <1>1, <1>6, <2>3, MovedVector
    <3>3. base[p] # <<>> \/ ~Rewrites(p)
      BY DEF VInv, Blends
    <3>4. vector' # vector /\ <<Tags>> # <<>> /\ vector'[req[p].by] = <<>>
      BY <1>6, <2>3, <3>2
    <3>5. QED
      BY <2>3, <3>1, <3>2, <3>3, <3>4, MovedVector
  <2>4. CASE CommitsVector(p, <<Tags>>) /\ u = req[p].by
    <3>1. u \in accounts /\ vector' = [vector EXCEPT ![u] = <<Tags>>]
      BY <1>1, <1>6, <2>4 DEF CommitsVector
    <3>2. QED
      BY <1>1, <1>4, <1>6, <3>1
  <2>5. QED
    <3>1. vector'[u] # vector[u] => u = req[p].by /\ pc[p] # "idle"
      BY <1>1, <1>6, MovedVector
    <3>2. QED
      BY <1>6, <2>1, <2>2, <2>3, <2>4, <3>1
<1>7. QED
  BY <1>5, <1>6 DEF VectorlessForAReason

LEMMA StepVectors == TInv /\ LInv /\ VInv /\ [Next]_vars => VInv'
<1> SUFFICES ASSUME TInv, LInv, VInv, [Next]_vars PROVE VInv'
  OBVIOUS
<1>1. CASE Still
  BY <1>1 DEF Still, VInv, Blends, Rewrites, Renews, VectorlessForAReason, Running, tables, locals, aux
<1>2. ASSUME NEW p \in Proc, Moved(p) PROVE VInv'
  BY <1>2, MovedBlends, MovedReasons DEF VInv
<1>3. QED
  BY <1>1, <1>2, StepMoves

LEMMA InitVectors == Init => VInv
BY DEF Init, VInv, Blends, Rewrites, Renews, NoReq, VectorlessForAReason

(* A registered user is without a vector only while an update is between   *)
(* reset and init, or after one that ended there.                          *)
THEOREM Vectorless == Spec => []VectorlessForAReason
<1>1. VInv => VectorlessForAReason
  BY DEF VInv
<1>2. QED
  BY <1>1, InitTypes, InitLocks, InitVectors, StepTypes, StepLocks, StepVectors, PTL DEF Spec

(* What a vector loses, it loses to the reset, the deletion of the account *)
(* or a request another one of the same user has overtaken.                *)
THEOREM LostOnlyByOverlap == Spec => VectorLostOnlyByOverlap
<1>1. ASSUME TInv, VInv, [Next]_vars, NEW u \in User, vector'[u] # vector[u], vector'[u] # <<>>,
             ~IsPrefix(vector[u], vector'[u])
      PROVE  \E p \in Proc : pc'[p] # pc[p] /\ req[p].by = u /\ overlapped[p]
  <2>1. PICK p \in Proc : Moved(p)
    BY <1>1, StepMoves DEF Still, tables
  <2>2. pc[p] # "idle" /\ pc'[p] # pc[p] /\ u = req[p].by
    BY <1>1, <2>1, MovedVector
  <2>3. /\ vector[u] \in Seq(Move) /\ Blends(p) /\ req[p] \in Request /\ previous[p] \in Reaction
        /\ overlapped[p] \in BOOLEAN
    BY <1>1, <2>2, RequestIs DEF TInv, Types, VInv
  <2>4. CASE Rewrites(p) /\ CommitsMove(p) /\ vector'[u] = base[p]
    BY <1>1, <2>2, <2>3, <2>4, AppendFacts DEF Blends
  <2>5. CASE CommitsVector(p, <<Tags>>) /\ vector'[u] = <<Tags>>
    <3>1. Renews(p)
      BY <2>5 DEF CommitsVector, Renews
    <3>2. IsPrefix(<<>>, <<Tags>>)
      BY DEF IsPrefix
    <3>3. QED
      BY <1>1, <2>2, <2>3, <2>5, <3>1, <3>2, AppendFacts DEF Blends
  <2>6. QED
    BY <1>1, <2>1, <2>2, <2>4, <2>5, MovedVector
<1>2. TInv /\ VInv /\ [Next]_vars =>
        [\A u \in User : vector'[u] # vector[u] =>
           \/ IsPrefix(vector[u], vector'[u])
           \/ vector'[u] = <<>>
           \/ \E p \in Proc : pc'[p] # pc[p] /\ req[p].by = u /\ overlapped[p]]_vars
  BY <1>1
<1>3. QED
  BY <1>2, InitTypes, InitLocks, InitVectors, StepTypes, StepLocks, StepVectors, PTL
     DEF Spec, VectorLostOnlyByOverlap

-----------------------------------------------------------------------------
(* How often a move occurs in a vector. *)
Occurs(s, x) == Cardinality({i \in DOMAIN s : s[i] = x})

LEMMA OccursFinite ==
  ASSUME NEW s \in Seq(Move), NEW x
  PROVE  IsFiniteSet({i \in DOMAIN s : s[i] = x}) /\ Occurs(s, x) \in Nat
<1>1. DOMAIN s = 1..Len(s) /\ Len(s) \in Nat
  OBVIOUS
<1>2. IsFiniteSet(1..Len(s))
  BY <1>1, FS_Interval
<1>3. IsFiniteSet({i \in DOMAIN s : s[i] = x})
  BY <1>1, <1>2, FS_Subset
<1>4. QED
  BY <1>3, FS_CardinalityType DEF Occurs

LEMMA OccursAppend ==
  ASSUME NEW s \in Seq(Move), NEW e \in Move, NEW x
  PROVE  Occurs(Append(s, e), x) = Occurs(s, x) + IF e = x THEN 1 ELSE 0
<1> DEFINE old == {i \in DOMAIN s : s[i] = x}
           new == {i \in DOMAIN Append(s, e) : Append(s, e)[i] = x}
           n == Len(s) + 1
<1>1. /\ DOMAIN s = 1..Len(s) /\ Len(s) \in Nat /\ DOMAIN Append(s, e) = 1..n
      /\ Append(s, e)[n] = e /\ \A i \in 1..Len(s) : Append(s, e)[i] = s[i]
  OBVIOUS
<1>2. n \notin old /\ n \in 1..n /\ \A i \in 1..n : i = n \/ i \in 1..Len(s)
  BY <1>1
<1>3. new = IF e = x THEN old \cup {n} ELSE old
  BY <1>1, <1>2
<1>4. IsFiniteSet(old) /\ Occurs(s, x) = Cardinality(old) /\ Occurs(Append(s, e), x) = Cardinality(new)
      /\ Occurs(s, x) \in Nat
  BY OccursFinite DEF Occurs
<1> HIDE DEF old, new, n
<1>5. CASE e = x
  BY <1>2, <1>3, <1>4, <1>5, FS_AddElement
<1>6. CASE e # x
  BY <1>3, <1>4, <1>6
<1>7. QED
  BY <1>5, <1>6

LEMMA MovesAppended ==
  ASSUME TInv, NEW u \in User, NEW m, NEW why, NEW e \in Move,
         vector'[u] = Append(vector[u], e)
  PROVE  Moves(u, m, why)' = Moves(u, m, why) + IF e = [post |-> m, why |-> why] THEN 1 ELSE 0
<1>1. vector[u] \in Seq(Move)
  BY DEF TInv, Types
<1>2. /\ Moves(u, m, why) = Occurs(vector[u], [post |-> m, why |-> why])
      /\ Moves(u, m, why)' = Occurs(Append(vector[u], e), [post |-> m, why |-> why])
  BY DEF Moves, Occurs
<1>3. QED
  BY <1>1, <1>2, OccursAppend

LEMMA MovesKept ==
  ASSUME NEW u \in User, NEW m, NEW why, vector'[u] = vector[u]
  PROVE  Moves(u, m, why)' = Moves(u, m, why)
BY DEF Moves

LEMMA MovesType ==
  ASSUME TInv, NEW u \in User, NEW m, NEW why
  PROVE  Moves(u, m, why) \in Nat
<1>1. vector[u] \in Seq(Move)
  BY DEF TInv, Types
<1>2. QED
  BY <1>1, OccursFinite DEF Moves, Occurs

-----------------------------------------------------------------------------
(* A clean user has one writing request at most, which nobody overtakes. *)
Writer(q) == pc[q] # "idle" /\ Writing(req[q])

Lone ==
  /\ \A q \in Proc : pc[q] = "idle" => ~overlapped[q]
  /\ \A p, q \in Proc : p # q /\ Writer(p) /\ Writer(q) /\ req[p].by = req[q].by => req[q].by \notin clean
  /\ \A u \in clean : vector[u] # <<>>
  /\ \A q \in Proc : Writer(q) /\ req[q].by \in clean => ~overlapped[q]

(* What the reaction of a clean user has read is what there is. *)
Fresh(q) ==
  LET r == req[q]
  IN /\ r.op = "react" /\ pc[q] \in {"previous", "upsert", "refer", "vector", "write", "commit"} =>
          posts[r.m] \in {"stored", "deleted"}
     /\ r.op = "react" /\ r.by \in clean =>
          /\ pc[q] \in {"upsert", "refer", "vector", "write", "commit"} /\ Stored(r.m) =>
               previous[q] = reaction[r.m][r.by]
          /\ pc[q] = "commit" => "user" \in wrote[q] \/ TheMove(r, previous[q]) = NoMove
          /\ pc[q] \in {"vector", "write", "commit"} /\ Stored(r.m) /\ previous[q] # "none" =>
               "row" \in wrote[q]

Balanced(u, m) ==
  /\ Stored(m) => Moves(u, m, "react") = Moves(u, m, "undo") + IF reaction[m][u] = "none" THEN 0 ELSE 1
  /\ posts[m] \in {"unused", "taken"} => Moves(u, m, "react") = 0 /\ Moves(u, m, "undo") = 0

RInv == Lone /\ (\A q \in Proc : Fresh(q)) /\ \A u \in clean, m \in Post : Balanced(u, m)

LEMMA MovedClean ==
  ASSUME TInv, NEW p \in Proc, Moved(p), Lone
  PROVE  clean' \subseteq clean /\ \A u \in clean' : vector'[u] # <<>>
<1>1. CASE Note(p)
  BY <1>1 DEF Note
<1>2. CASE ~Note(p)
  <2>1. vector' = vector /\ clean' \subseteq clean
    BY <1>2 DEF Moved, Quiet, Ended, Began, tables, aux
  <2>2. QED
    BY <2>1 DEF Lone
<1>3. QED
  BY <1>1, <1>2

(* Of all steps, these alone change a reaction. *)
LEMMA ReactionMoves ==
  ASSUME TInv, LInv, NEW p \in Proc, Moved(p), NEW m \in Post, NEW u \in User
  PROVE  \/ reaction'[m][u] = reaction[m][u]
         \/ /\ CommitsMove(p) /\ pc[p] # "idle" /\ req[p].op = "react" /\ m = req[p].m /\ u = req[p].by
            /\ "row" \in wrote[p] /\ reaction'[m][u] = req[p].reaction
         \/ (CommitsRemoval(p) \/ CommitsDrop(p)) /\ ~Stored(m)'
         \/ CommitsDrop(p) /\ u = req[p].by
<1>1. reaction \in [Post -> [User -> Reaction]]
  BY DEF TInv, Types
<1>2. CASE CommitsMove(p) /\ pc[p] # "idle"
  <2>1. req[p].op = "react" => req[p].m \in Post /\ req[p].by \in User
    BY <1>2, RequestIs, RequestFields
  <2>2. QED
    BY <1>1, <1>2, <2>1 DEF CommitsMove
<1>3. CASE CommitsRemoval(p) \/ CommitsDrop(p)
  <2>1. reaction'[m][u] = IF ReactionRow(m, u) \in held[p] THEN "none" ELSE reaction[m][u]
    BY <1>3, MovedStored
  <2>2. ReactionRow(m, u) \in held[p] => m \in Gone(p) \/ (CommitsDrop(p) /\ u = req[p].by)
    BY <1>3, GoneIs
  <2>3. m \in Gone(p) => ~Stored(m)'
    BY <1>3, MovedStored
  <2>4. QED
    BY <1>3, <2>1, <2>2, <2>3
<1>4. QED
  BY <1>2, <1>3 DEF Moved, Quiet, Ended, Began, CommitsAny, CommitsBlock, CommitsVector, CommitsProfile, tables

LEMMA QuietGoesOn ==
  ASSUME TInv, NEW p \in Proc, Quiet(p)
  PROVE  pc'[p] # "idle"
<1>1. First(req[p]) # "idle" /\ Answered(req[p]) # "idle"
  BY RequestIs DEF Quiet, First, Answered, Ops
<1>2. QED
  BY <1>1 DEF Quiet, Passes, Inserts, ReadsVector, WritesVector, ReadsPrevious, Upserts,
              RefersUser, AfterUpsert, LocksUser, LocksPost, LocksRow, Serves, AsksAuthor, CountsThem

LEMMA MovedLone ==
  ASSUME TInv, VInv, Lone, NEW p \in Proc, Moved(p)
  PROVE  Lone'
<1>1. Aside(p) /\ clean' \subseteq clean /\ (\A u \in clean' : vector'[u] # <<>>)
      /\ clean \subseteq User /\ overlapped \in [Proc -> BOOLEAN]
  BY MovedClean DEF Moved, TInv, Types
<1>2. ASSUME NEW q \in Proc, pc'[q] = "idle" PROVE ~overlapped'[q]
  <2>1. CASE Note(p)
    BY <1>1, <1>2, <2>1 DEF Note, Aside
  <2>2. CASE ~Note(p)
    <3>1. pc'[p] # "idle"
      BY <2>2, QuietGoesOn DEF Moved, Ended, Began
    <3>2. overlapped' = overlapped
      BY <2>2 DEF Moved, Quiet, Ended, Began, aux
    <3>3. QED
      BY <1>1, <1>2, <3>1, <3>2 DEF Aside, Lone
  <2>3. QED
    BY <2>1, <2>2
<1>3. ASSUME NEW q \in Proc, Writer(q)'
      PROVE  \/ Writer(q) /\ req'[q] = req[q]
             \/ q = p /\ Began(p, req'[p]) /\ Writing(req'[p])
  <2>1. CASE q = p
    <3>1. NoReq.op \notin {"publish", "react", "update"}
      BY DEF NoReq
    <3>2. QED
      BY <1>3, <2>1, <3>1, MovedRequest DEF Writer, Writing
  <2>2. CASE q # p
    BY <1>1, <1>3, <2>2 DEF Writer, Aside
  <2>3. QED
    BY <2>1, <2>2
<1>4. ASSUME NEW q \in Proc, Writer(q), Began(p, req'[p]), Writing(req'[p]), req[q].by = req'[p].by
      PROVE  req[q].by \notin clean'
  BY <1>1, <1>4 DEF Began, Writer
<1>5. ASSUME NEW a \in Proc, NEW b \in Proc, a # b, Writer(a)', Writer(b)', req'[a].by = req'[b].by
      PROVE  req'[b].by \notin clean'
  BY <1>1, <1>3, <1>4, <1>5 DEF Lone
<1>6. ASSUME NEW q \in Proc, Writer(q)', req'[q].by \in clean' PROVE ~overlapped'[q]
  <2>1. CASE q = p /\ Began(p, req'[p])
    BY <1>1, <2>1 DEF Began, Lone
  <2>2. CASE Writer(q) /\ req'[q] = req[q]
    <3>1. ~overlapped[q] /\ pc[q] # "idle" /\ req[q].by \in User
      BY <1>1, <1>6, <2>2 DEF Lone, Writer
    <3>2. CASE Note(p)
      <4>1. q = p \/ vector'[req[q].by] = vector[req[q].by]
        <5>1. ASSUME q # p, vector'[req[q].by] # vector[req[q].by] PROVE FALSE
          <6>1. /\ req[p].by = req[q].by /\ pc[p] # "idle"
                /\ \/ CommitsMove(p) \/ CommitsVector(p, <<>>) \/ CommitsVector(p, <<Tags>>)
                   \/ vector'[req[p].by] = <<>>
            BY <3>1, <5>1, MovedVector
          <6>2. Writer(p)
            BY <1>1, <1>6, <2>2, <6>1, RequestIs DEF CommitsMove, CommitsVector, Writer, Writing, Places, Ops
          <6>3. QED
            BY <1>1, <1>6, <2>2, <5>1, <6>1, <6>2 DEF Lone
        <5>2. QED
          BY <5>1
      <4>2. QED
        BY <3>1, <3>2, <4>1 DEF Note
    <3>3. CASE ~Note(p)
      <4>1. overlapped' = overlapped
        BY <3>3 DEF Moved, Quiet, Ended, Began, aux
      <4>2. QED
        BY <3>1, <4>1
    <3>4. QED
      BY <3>2, <3>3
  <2>3. QED
    BY <1>3, <1>6, <2>1, <2>2
<1>7. QED
  BY <1>1, <1>2, <1>5, <1>6 DEF Lone

LEMMA MovedFresh ==
  ASSUME TInv, LInv, VInv, RInv, NEW p \in Proc, Moved(p)
  PROVE  \A q \in Proc : Fresh(q)'
<1>1. /\ clean' \subseteq clean /\ (\A u \in clean' : vector'[u] # <<>>) /\ Lone
      /\ posts \in [Post -> {"unused", "taken", "stored", "deleted"}]
  BY MovedClean DEF RInv, TInv, Types
<1>2. ASSUME NEW q \in Proc, q # p PROVE Fresh(q)'
  <2>1. pc'[q] = pc[q] /\ req'[q] = req[q] /\ wrote'[q] = wrote[q] /\ previous'[q] = previous[q]
    BY <1>2 DEF Moved, Aside
  <2>2. CASE ~(req[q].op = "react" /\ pc[q] \in {"previous", "upsert", "refer", "vector", "write", "commit"})
    BY <2>1, <2>2 DEF Fresh
  <2>3. CASE req[q].op = "react" /\ pc[q] \in {"previous", "upsert", "refer", "vector", "write", "commit"}
    <3>1. req[q].m \in Post /\ req[q].by \in User /\ Fresh(q) /\ Writer(q)
      BY <2>3, RequestIs, RequestFields DEF RInv, Writer, Writing
    <3>2. posts'[req[q].m] \in {"stored", "deleted"}
          /\ (posts'[req[q].m] = "stored" => posts[req[q].m] = "stored")
      <4>1. posts[req[q].m] \in {"stored", "deleted"}
        BY <2>3, <3>1 DEF Fresh
      <4>2. QED
        BY <3>1, <4>1, MovedPosts
    <3>3. req[q].by \in clean' /\ posts'[req[q].m] = "stored" =>
            reaction'[req[q].m][req[q].by] = reaction[req[q].m][req[q].by]
      <4>1. ASSUME req[q].by \in clean', CommitsMove(p), pc[p] # "idle", req[p].op = "react"
            PROVE  req[p].by # req[q].by
        BY <1>1, <1>2, <3>1, <4>1 DEF Lone, Writer, Writing
      <4>2. ASSUME req[q].by \in clean', CommitsDrop(p) PROVE req[p].by # req[q].by
        <5>1. vector \in [User -> Seq(Move)]
          BY DEF TInv, Types
        <5>2. QED
          BY <1>1, <3>1, <4>2, <5>1 DEF CommitsDrop
      <4>3. QED
        BY <3>1, <4>1, <4>2, ReactionMoves DEF Stored
    <3>4. QED
      BY <1>1, <2>1, <2>3, <3>1, <3>2, <3>3 DEF Fresh, Stored
  <2>4. QED
    BY <2>2, <2>3
<1>3. ASSUME ~(pc'[p] \in {"previous", "upsert", "refer", "vector", "write", "commit"}) PROVE Fresh(p)'
  BY <1>3 DEF Fresh
<1>4. ASSUME Quiet(p) PROVE Fresh(p)'
  <2>1. posts' = posts /\ reaction' = reaction /\ vector' = vector /\ clean' = clean /\ req'[p] = req[p]
        /\ pc[p] # "idle" /\ Fresh(p)
    BY <1>4 DEF Quiet, tables, aux, RInv
  <2> DEFINE r == req[p]
  <2>2. CASE r.op # "react"
    BY <2>1, <2>2 DEF Fresh
  <2>3. CASE r.op = "react"
    <3>1. r.m \in Post /\ r.by \in User /\ pc[p] \in {"connect", "post", "previous", "upsert", "refer", "vector", "write", "commit"}
          /\ previous[p] \in Reaction /\ r.reaction \in Reaction
      BY <2>1, <2>3, RequestIs, RequestFields DEF Places
    <3>2. req'[p] = r /\ req[p] = r
      BY <2>1
    <3> HIDE DEF r
    <3>3. ASSUME Passes(p) PROVE Fresh(p)'
      <4>1. First(r) = "post"
        BY <2>3 DEF First
      <4>2. r.by \in clean => vector[r.by] # <<>>
        BY <1>1 DEF Lone
      <4>3. \/ pc'[p] = "post"
            \/ pc'[p] = "previous" /\ Stored(r.m)
            \/ pc[p] = "vector" /\ pc'[p] = "commit" /\ r.by \notin clean /\ wrote'[p] = wrote[p]
        BY <2>3, <3>1, <3>2, <3>3, <4>1, <4>2 DEF Passes, Kept
      <4>4. QED
        BY <2>1, <2>3, <3>2, <4>3 DEF Fresh, Stored
    <3>4. ASSUME ReadsPrevious(p) PROVE Fresh(p)'
      BY <2>1, <2>3, <3>2, <3>4 DEF Fresh, Stored, ReadsPrevious
    <3>5. ASSUME Upserts(p) PROVE Fresh(p)'
      <4>1. /\ pc[p] = "upsert" /\ previous'[p] = previous[p]
            /\ \/ pc'[p] = "refer"
               \/ pc'[p] = IF TheMove(r, previous[p]) = NoMove THEN "commit" ELSE "vector"
            /\ reaction[r.m][r.by] # "none" => "row" \in wrote'[p]
        BY <3>2, <3>5 DEF Upserts, AfterUpsert
      <4>2. QED
        BY <2>1, <2>3, <3>2, <4>1 DEF Fresh, Stored
    <3>refer. ASSUME RefersUser(p) PROVE Fresh(p)'
      <4>1. /\ pc[p] = "refer" /\ previous'[p] = previous[p] /\ "row" \in wrote'[p]
            /\ pc'[p] = IF TheMove(r, previous[p]) = NoMove THEN "commit" ELSE "vector"
        BY <3>2, <3>refer DEF RefersUser, AfterUpsert, LInv, Locks
      <4>2. QED
        BY <2>1, <2>3, <3>2, <4>1 DEF Fresh, Stored
    <3>6. ASSUME ReadsVector(p) PROVE Fresh(p)'
      BY <2>1, <2>3, <3>2, <3>6 DEF Fresh, Stored, ReadsVector
    <3>7. ASSUME WritesVector(p) PROVE Fresh(p)'
      BY <2>1, <2>3, <3>2, <3>7 DEF Fresh, Stored, WritesVector
    <3>8. QED
      BY <1>3, <1>4, <2>3, <3>1, <3>2, <3>3, <3>4, <3>5, <3>refer, <3>6, <3>7
         DEF Quiet, Inserts, LocksUser, LocksPost, LocksRow, Serves, AsksAuthor, CountsThem
  <2>4. QED
    BY <2>2, <2>3
<1>5. Fresh(p)'
  <2>1. ASSUME NEW to, CommitsVector(p, to) PROVE Fresh(p)'
    BY <2>1 DEF CommitsVector, Fresh
  <2>2. QED
    BY <1>3, <1>4, <2>1
       DEF Moved, Ended, Blank, Began, CommitsAny, CommitsMove, CommitsRemoval, CommitsBlock, CommitsProfile,
           CommitsDrop
<1>6. QED
  BY <1>2, <1>5

(* The vector of a clean user changes by one move at a time. *)
LEMMA CleanVector ==
  ASSUME TInv, LInv, VInv, RInv, NEW p \in Proc, Moved(p), NEW u \in clean', u \in User
  PROVE  \/ vector'[u] = vector[u] /\ ~(CommitsMove(p) /\ u = req[p].by /\ Rewrites(p))
         \/ /\ CommitsMove(p) /\ pc[p] # "idle" /\ u = req[p].by /\ Rewrites(p)
            /\ vector'[u] = Append(vector[u], TheMove(req[p], previous[p]))
            /\ TheMove(req[p], previous[p]) \in Move
<1>1. u \in clean /\ vector'[u] # <<>> /\ vector[u] # <<>> /\ Lone /\ VInv
  BY MovedClean DEF RInv, Lone
<1>2. CASE CommitsMove(p) /\ pc[p] # "idle" /\ u = req[p].by /\ Rewrites(p)
  <2>1. Writer(p)
    BY <1>2, RequestIs DEF CommitsMove, Writer, Writing, Places, Ops
  <2>2. ~overlapped[p] /\ Blends(p)
    BY <1>1, <1>2, <2>1 DEF Lone, VInv
  <2>3. u \in accounts /\ vector \in [User -> Seq(Move)] /\ "user" \in wrote[p]
    BY <1>1, <1>2 DEF VInv, TInv, Types, Rewrites, CommitsMove
  <2>4. vector'[u] = base[p]
    BY <1>2, <2>3 DEF CommitsMove
  <2>5. QED
    BY <1>2, <2>2, <2>4 DEF Blends
<1>3. ASSUME vector'[u] # vector[u], ~(CommitsMove(p) /\ pc[p] # "idle" /\ u = req[p].by /\ Rewrites(p))
      PROVE  FALSE
  <2>1. u = req[p].by /\ pc[p] # "idle" /\ CommitsVector(p, <<Tags>>)
    BY <1>1, <1>3, MovedVector
  <2>2. Writer(p) /\ Renews(p)
    BY <2>1 DEF CommitsVector, Writer, Writing, Renews, Tags
  <2>3. ~overlapped[p] /\ Blends(p)
    BY <1>1, <2>1, <2>2 DEF Lone, VInv
  <2>4. QED
    BY <1>1, <2>1, <2>2, <2>3 DEF Blends
<1>4. CommitsMove(p) => pc[p] # "idle"
  BY DEF CommitsMove
<1>5. QED
  BY <1>2, <1>3, <1>4

LEMMA MovedBalanced ==
  ASSUME TInv, LInv, VInv, RInv, NEW p \in Proc, Moved(p), NEW u \in clean', NEW m \in Post
  PROVE  Balanced(u, m)'
<1> DEFINE r == req[p]
           mv == TheMove(r, previous[p])
<1>1. u \in clean /\ u \in User /\ vector'[u] # <<>> /\ Balanced(u, m) /\ PostIntegrity
      /\ posts \in [Post -> {"unused", "taken", "stored", "deleted"}]
      /\ vector \in [User -> Seq(Move)]
  BY MovedClean DEF RInv, LInv, TInv, Types
<1>2. /\ Moves(u, m, "react") \in Nat /\ Moves(u, m, "undo") \in Nat
  BY <1>1, MovesType
<1>3. CASE CommitsMove(p) /\ u = r.by /\ r.op = "react"
  <2>1. /\ pc[p] = "commit" /\ r.m \in Post /\ r.reaction \in Reaction /\ previous[p] \in Reaction
        /\ Fresh(p) /\ Locks(p) /\ Writer(p) /\ r.by \in User
    BY <1>3, RequestIs, RequestFields DEF CommitsMove, RInv, LInv, Writer, Writing
  <2>2. posts' = posts /\ posts[r.m] \in {"stored", "deleted"}
    BY <1>3, <2>1 DEF CommitsMove, Fresh
  <2>3. reaction'[m][u] = IF m = r.m /\ "row" \in wrote[p] THEN r.reaction ELSE reaction[m][u]
    BY <1>1, <1>3, <2>1 DEF CommitsMove, TInv, Types
  <2>4. mv = IF r.reaction = "none" /\ previous[p] # "none" THEN [post |-> r.m, why |-> "undo"]
             ELSE IF r.reaction # "none" /\ previous[p] = "none" THEN [post |-> r.m, why |-> "react"]
             ELSE NoMove
    BY <1>3 DEF TheMove
  <2>5. /\ Stored(r.m) => previous[p] = reaction[r.m][u]
        /\ "user" \in wrote[p] \/ mv = NoMove
        /\ Stored(r.m) /\ previous[p] # "none" => "row" \in wrote[p]
        /\ "row" \in wrote[p] \/ r.reaction = "none"
    BY <1>1, <1>3, <2>1 DEF Fresh, Locks
  <2>6. NoMove \notin Move /\ \A x : NoMove # [post |-> x, why |-> "react"] /\ NoMove # [post |-> x, why |-> "undo"]
    BY DEF NoMove, Move
  <2> HIDE DEF r, mv
  <2>7. CASE mv = NoMove
    <3>1. vector'[u] = vector[u]
      BY <1>1, <2>6, <2>7, CleanVector DEF r, mv
    <3>2. Moves(u, m, "react")' = Moves(u, m, "react") /\ Moves(u, m, "undo")' = Moves(u, m, "undo")
      BY <1>1, <3>1, MovesKept
    <3>3. Stored(m) => (reaction'[m][u] = "none" <=> reaction[m][u] = "none")
      BY <2>3, <2>4, <2>5, <2>6, <2>7
    <3>4. QED
      BY <1>1, <2>2, <3>2, <3>3 DEF Balanced, Stored
  <2>8. CASE mv # NoMove
    <3>1. vector'[u] = Append(vector[u], mv) /\ mv \in Move
      BY <1>1, <1>3, <2>1, <2>5, <2>8, CleanVector DEF r, mv, Rewrites
    <3>2. /\ Moves(u, m, "react")' = Moves(u, m, "react") + IF mv = [post |-> m, why |-> "react"] THEN 1 ELSE 0
          /\ Moves(u, m, "undo")' = Moves(u, m, "undo") + IF mv = [post |-> m, why |-> "undo"] THEN 1 ELSE 0
      BY <1>1, <3>1, MovesAppended
    <3>3. CASE m # r.m
      <4>1. /\ Moves(u, m, "react")' = Moves(u, m, "react")
            /\ Moves(u, m, "undo")' = Moves(u, m, "undo")
        BY <1>2, <2>4, <2>6, <2>8, <3>2, <3>3
      <4>2. QED
        BY <1>1, <2>2, <2>3, <3>3, <4>1 DEF Balanced, Stored
    <3>4. CASE m = r.m /\ r.reaction = "none" /\ previous[p] # "none"
      <4>1. mv = [post |-> m, why |-> "undo"] /\ mv # [post |-> m, why |-> "react"]
        BY <2>4, <3>4
      <4>2. Stored(m) => reaction'[m][u] = "none" /\ reaction[m][u] # "none"
        BY <2>3, <2>5, <3>4
      <4>3. QED
        BY <1>1, <1>2, <2>2, <3>2, <3>4, <4>1, <4>2 DEF Balanced, Stored
    <3>5. CASE m = r.m /\ r.reaction # "none" /\ previous[p] = "none"
      <4>1. mv = [post |-> m, why |-> "react"] /\ mv # [post |-> m, why |-> "undo"]
        BY <2>4, <3>5
      <4>2. Stored(m) => reaction'[m][u] # "none" /\ reaction[m][u] = "none"
        BY <2>3, <2>5, <3>5
      <4>3. QED
        BY <1>1, <1>2, <2>2, <3>2, <3>5, <4>1, <4>2 DEF Balanced, Stored
    <3>6. QED
      BY <2>4, <2>8, <3>3, <3>4, <3>5
  <2>9. QED
    BY <2>7, <2>8
<1>4. CASE ~(CommitsMove(p) /\ u = r.by /\ r.op = "react")
  <2>1. /\ Moves(u, m, "react")' = Moves(u, m, "react")
        /\ Moves(u, m, "undo")' = Moves(u, m, "undo")
    <3>1. CASE vector'[u] = vector[u]
      BY <1>1, <3>1, MovesKept
    <3>2. CASE vector'[u] # vector[u]
      <4>1. /\ CommitsMove(p) /\ pc[p] # "idle" /\ u = r.by
            /\ vector'[u] = Append(vector[u], mv) /\ mv \in Move
        BY <1>1, <3>2, CleanVector
      <4>2. r.op = "publish"
        BY <1>4, <4>1, RequestIs DEF CommitsMove, Places, Ops
      <4>3. \A why \in {"react", "undo"} : mv # [post |-> m, why |-> why]
        BY <4>2 DEF TheMove
      <4>typed. u \in User /\ vector'[u] = Append(vector[u], mv) /\ mv \in Move
        BY <1>1, <4>1
      <4> HIDE DEF r, mv
      <4>4. /\ Moves(u, m, "react")' = Moves(u, m, "react") + IF mv = [post |-> m, why |-> "react"] THEN 1 ELSE 0
            /\ Moves(u, m, "undo")' = Moves(u, m, "undo") + IF mv = [post |-> m, why |-> "undo"] THEN 1 ELSE 0
        BY <4>typed, MovesAppended
      <4>5. QED
        BY <1>2, <4>3, <4>4
    <3>3. QED
      BY <3>1, <3>2
  <2>2. ASSUME Stored(m)' PROVE reaction'[m][u] = reaction[m][u]
    <3>1. CommitsDrop(p) => u # req[p].by
      BY <1>1 DEF CommitsDrop
    <3>2. QED
      BY <1>1, <1>4, <2>2, <3>1, ReactionMoves
  <2>3. \/ Stored(m)' /\ Stored(m)
        \/ Stored(m)' /\ posts[m] = "taken" /\ reaction[m][u] = "none"
        \/ posts'[m] \in {"unused", "taken"} /\ posts[m] \in {"unused", "taken"}
        \/ posts'[m] = "deleted"
    BY <1>1, MovedPosts DEF Stored, PostIntegrity
  <2>4. QED
    BY <1>1, <1>2, <2>1, <2>2, <2>3 DEF Balanced, Stored
<1>5. QED
  BY <1>3, <1>4

LEMMA StepBalanced == TInv /\ LInv /\ VInv /\ RInv /\ [Next]_vars => RInv'
<1> SUFFICES ASSUME TInv, LInv, VInv, RInv, [Next]_vars PROVE RInv'
  OBVIOUS
<1>1. CASE Still
  BY <1>1 DEF Still, RInv, Lone, Writer, Fresh, Balanced, Moves, Stored, tables, locals, aux
<1>2. ASSUME NEW p \in Proc, Moved(p) PROVE RInv'
  BY <1>2, MovedLone, MovedFresh, MovedBalanced DEF RInv
<1>3. QED
  BY <1>1, <1>2, StepMoves

LEMMA InitBalanced == Init => RInv
<1> SUFFICES ASSUME Init PROVE RInv
  OBVIOUS
<1>1. Lone /\ \A q \in Proc : Fresh(q)
  BY DEF Init, Lone, Writer, Fresh, NoReq
<1>2. ASSUME NEW u \in User, NEW m \in Post, NEW why \in {"react", "undo"} PROVE Moves(u, m, why) = 0
  <2>1. vector[u] = <<Tags>>
    BY DEF Init
  <2>2. {i \in DOMAIN vector[u] : vector[u][i] = [post |-> m, why |-> why]} = {}
    BY <2>1 DEF Tags
  <2>3. QED
    BY <2>2, FS_EmptySet DEF Moves
<1>3. ASSUME NEW u \in User, NEW m \in Post PROVE Balanced(u, m)
  BY <1>2 DEF Init, Balanced
<1>4. QED
  BY <1>1, <1>3 DEF Init, RInv

(* For a user who never had two writing requests in progress and whose     *)
(* vector was not reset, the moves made and taken back say whether there   *)
(* is a reaction.                                                          *)
THEOREM MoveOnce == Spec => []ReactionsMoveOnce
<1>1. TInv /\ RInv => ReactionsMoveOnce
  BY DEF TInv, Types, RInv, Balanced, ReactionsMoveOnce
<1>2. QED
  BY <1>1, InitTypes, InitLocks, InitVectors, InitBalanced, StepTypes, StepLocks, StepVectors,
     StepBalanced, PTL DEF Spec
=============================================================================
