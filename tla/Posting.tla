------------------------------- MODULE Posting -------------------------------
(***************************************************************************)
(* Posts, comments and reactions, the vector of interests each user has,   *)
(* and what is read of them.                                               *)
(*                                                                         *)
(* Requests interleave statement by statement, at READ COMMITTED, as in    *)
(* ChannelTx.  create and react are transactions; delete, block and        *)
(* update are not.  Each request holds a connection of the pool from its   *)
(* first statement to its last one, also while it waits for the embedder.  *)
(*                                                                         *)
(* A vector is the sequence of moves it is the result of, <<>> being NULL: *)
(* the blend and the normalisation are left out, the weights the users set *)
(* are positive.  A vector is stored in a column vector(384), which an     *)
(* empty one does not fit: a post without text cannot be stored.           *)
(***************************************************************************)
EXTENDS Embedder, Threads, FiniteSets

CONSTANTS
  Workloads,   \* bound: the sets of requests that are made together
  PoolSize     \* the connections of the pool

ASSUME PoolSizeType == PoolSize \in Nat \ {0}

VARIABLES
  accounts,     \* the users that are registered
  posts,        \* each id: "unused", "taken", "stored" row, "deleted" row
  reaction,     \* post_reactions; "none" is no row
  vector,       \* users.embedding
  blocks,       \* user_blocks
  ahead,        \* the requests that are still to be made
  pc, req,      \* the statement each process executes next, for which request
  wrote,        \* the rows it has written or locked, uncommitted
  held,         \* the rows its cascade has locked
  previous,     \* the reaction it has read
  base,         \* the vector it has read
  found,        \* the posts it is about to return
  todo,         \* the authors it has not asked about yet
  counted,      \* the reactions it has counted
  overlapped,   \* auxiliary: the user's vector has changed since it started
  moved,        \* auxiliary: the posts whose reactions changed since it started
  blocked,      \* auxiliary: whom its user has blocked ever since it started
  clean,        \* auxiliary: users who do one thing at a time
  interrupted   \* auxiliary: users whose update ended between reset and init

tables == <<accounts, posts, reaction, vector, blocks>>
locals == <<wrote, held, previous, base, found, todo, counted>>
aux == <<overlapped, moved, blocked, clean, interrupted>>
vars == <<tables, ahead, pc, req, locals, aux, embedder>>

(* The requests of the posting service and of user.update, block, delete.  *)
PublishRequest ==
  {r \in [op : {"publish"}, m : Post, by : User, text : BOOLEAN] : r.by = Author[r.m]}
UnpublishRequest == [op : {"unpublish"}, m : Post, by : User]
ReactRequest  == [op : {"react"}, m : Post, by : User, reaction : Reaction]
GetRequest    == [op : {"get"}, by : User, of : SUBSET Post]
GetOfRequest  == [op : {"getOf"}, by : User, author : User]
SearchRequest == [op : {"search"}, by : User, of : SUBSET Post]
FeedRequest   == [op : {"feed"}, by : User]
BlockRequest  == [op : {"block"}, by : User, to : User, on : BOOLEAN]
UpdateRequest == [op : {"update"}, by : User, tags : BOOLEAN, email : BOOLEAN]
DropRequest   == [op : {"drop"}, by : User]
Request ==
  UNION {PublishRequest, UnpublishRequest, ReactRequest, GetRequest, GetOfRequest,
         SearchRequest, FeedRequest, BlockRequest, UpdateRequest, DropRequest}

ASSUME WorkloadsType == \A w \in Workloads : w \subseteq Request

NoReq == [op |-> "none"]

(* The rows a cascade locks, one after the other. *)
PostRow(m) == <<"post", m>>
ReactionRow(m, u) == <<"reaction", m, u>>
BlockRow(u, v) == <<"block", u, v>>
Row == ({"post"} \X Post) \cup ({"reaction"} \X Post \X User) \cup ({"block"} \X User \X User)

Move == [post : Post \cup {NoPost}, why : {"tags", "publish", "comment", "react", "undo"}]
Tags == [post |-> NoPost, why |-> "tags"]
NoMove == [post |-> NoPost, why |-> "none"]

Statement ==
  {"idle", "connect", "parent", "embed", "embedding", "insert", "vector", "write",
   "commit", "post", "previous", "upsert", "refer", "author", "remove", "posts", "blocks",
   "liked", "candidates", "counts", "own", "comments", "target", "row",
   "reset", "init", "code", "overwrite", "drop", "cascade"}

TypeOK ==
  /\ EmbedderTypeOK
  /\ accounts \subseteq User
  /\ posts \in [Post -> {"unused", "taken", "stored", "deleted"}]
  /\ reaction \in [Post -> [User -> Reaction]]
  /\ vector \in [User -> Seq(Move)]
  /\ blocks \subseteq User \X User
  /\ ahead \subseteq Request
  /\ pc \in [Proc -> Statement]
  /\ req \in [Proc -> Request \cup {NoReq}]
  /\ \A p \in Proc :
       /\ pc[p] = "idle" <=> req[p] = NoReq
       /\ pc[p] = "embedding" <=> p \in ToSet(queue) \cup {hand} \cup ToSet(running)
  /\ wrote \in [Proc -> SUBSET {"row", "post", "key", "user"}]
  /\ held \in [Proc -> SUBSET Row]
  /\ previous \in [Proc -> Reaction]
  /\ base \in [Proc -> Seq(Move)]
  /\ found \in [Proc -> SUBSET Post]
  /\ todo \in [Proc -> SUBSET User]
  /\ counted \in [Proc -> SUBSET (Post \X Reaction)]
  /\ overlapped \in [Proc -> BOOLEAN]
  /\ moved \in [Proc -> SUBSET Post]
  /\ blocked \in [Proc -> SUBSET User]
  /\ clean \subseteq User
  /\ interrupted \subseteq User

Running(p, op) == pc[p] # "idle" /\ req[p].op = op
Stored(m) == posts[m] = "stored"
Connected == {p \in Proc : pc[p] \notin {"idle", "connect"}}

Init ==
  /\ EmbedderInit
  /\ accounts = User
  /\ posts = [m \in Post |-> IF m \in Start THEN "stored" ELSE "unused"]
  /\ reaction = [m \in Post |-> [u \in User |-> "none"]]
  /\ vector = [u \in User |-> <<Tags>>]
  /\ blocks = {}
  /\ ahead \in Workloads
  /\ pc = [p \in Proc |-> "idle"]
  /\ req = [p \in Proc |-> NoReq]
  /\ wrote = [p \in Proc |-> {}]
  /\ held = [p \in Proc |-> {}]
  /\ previous = [p \in Proc |-> "none"]
  /\ base = [p \in Proc |-> <<>>]
  /\ found = [p \in Proc |-> {}]
  /\ todo = [p \in Proc |-> {}]
  /\ counted = [p \in Proc |-> {}]
  /\ overlapped = [p \in Proc |-> FALSE]
  /\ moved = [p \in Proc |-> {}]
  /\ blocked = [p \in Proc |-> {}]
  /\ clean = User
  /\ interrupted = {}

-----------------------------------------------------------------------------
(* The end of a request, with a result or an error. *)
Finish(p) ==
  /\ pc' = [pc EXCEPT ![p] = "idle"]
  /\ req' = [req EXCEPT ![p] = NoReq]
  /\ wrote' = [wrote EXCEPT ![p] = {}]
  /\ held' = [held EXCEPT ![p] = {}]
  /\ previous' = [previous EXCEPT ![p] = "none"]
  /\ base' = [base EXCEPT ![p] = <<>>]
  /\ found' = [found EXCEPT ![p] = {}]
  /\ todo' = [todo EXCEPT ![p] = {}]
  /\ counted' = [counted EXCEPT ![p] = {}]
  /\ UNCHANGED ahead

(* What the auxiliary variables note of a step of p: the end of p itself,  *)
(* and what the step has committed.                                        *)
Note(p) ==
  LET ends(q) == q = p /\ pc'[q] = "idle"
  IN /\ overlapped' = [q \in Proc |->
          ~ends(q) /\ pc[q] # "idle" /\ (overlapped[q] \/
             (q # p /\ vector'[req[q].by] # vector[req[q].by]))]
     /\ moved' = [q \in Proc |->
          IF ends(q) \/ pc[q] = "idle" THEN {}
          ELSE moved[q] \cup {m \in Post : reaction'[m] # reaction[m]}]
     /\ blocked' = [q \in Proc |->
          IF ends(q) \/ pc[q] = "idle" THEN {}
          ELSE {u \in blocked[q] : <<req[q].by, u>> \in blocks'}]
     /\ clean' = {u \in clean : vector'[u] # <<>>}

Fails(p) ==
  /\ Finish(p)
  /\ UNCHANGED tables
  /\ Note(p)
  /\ interrupted' = IF /\ Running(p, "update")
                       /\ pc[p] \in {"embed", "embedding", "init"}
                    THEN interrupted \cup {req[p].by} ELSE interrupted

Rollback(p) == Fails(p) /\ UNCHANGED embedder

Goto(p, next) ==
  /\ pc' = [pc EXCEPT ![p] = next]
  /\ UNCHANGED <<tables, ahead, req, aux, embedder>>

Read(p, at, ok, next) ==
  /\ pc[p] = at
  /\ \/ ok /\ Goto(p, next) /\ UNCHANGED locals
     \/ ~ok /\ Rollback(p)

(* A statement outside a transaction, or COMMIT: what p has written        *)
(* becomes visible; p goes on at next.                                     *)
Commits(p, next) ==
  /\ \/ next = "idle" /\ Finish(p)
     \/ next # "idle" /\ pc' = [pc EXCEPT ![p] = next] /\ UNCHANGED <<ahead, req, locals>>
  /\ Note(p)
  /\ UNCHANGED embedder

-----------------------------------------------------------------------------
(* Requests and connections. *)
Writing(r) == r.op \in {"publish", "react", "update"}

(* Processes are interchangeable: the next request gets any free one. *)
Submit(p, r) ==
  /\ pc[p] = "idle"
  /\ p = CHOOSE q \in Proc : pc[q] = "idle"
  /\ ahead' = ahead \ {r}
  /\ r.op = "publish" => posts[r.m] = "unused"
  /\ pc' = [pc EXCEPT ![p] = "connect"]
  /\ req' = [req EXCEPT ![p] = r]
  /\ posts' = IF r.op = "publish" THEN [posts EXCEPT ![r.m] = "taken"] ELSE posts
  /\ blocked' = [blocked EXCEPT ![p] = {u \in User : <<r.by, u>> \in blocks}]
  /\ clean' = IF \E q \in Proc : pc[q] # "idle" /\ req[q].by = r.by /\ Writing(req[q]) /\ Writing(r)
              THEN clean \ {r.by} ELSE clean
  /\ UNCHANGED <<accounts, reaction, vector, blocks, locals, overlapped, moved,
                 interrupted, embedder>>

(* What a request does first, after auth::verify has found its user. *)
First(r) ==
  CASE r.op = "publish" -> IF Parent[r.m] # NoPost THEN "parent"
                           ELSE IF r.text THEN "embed" ELSE "insert"
    [] r.op = "unpublish" -> "author"
    [] r.op = "react" -> "post"
    [] r.op \in {"get", "getOf", "search"} -> "posts"
    [] r.op = "feed" -> "liked"
    [] r.op = "block" -> "target"
    [] r.op = "update" -> IF r.tags THEN "reset" ELSE IF r.email THEN "code" ELSE "overwrite"
    [] r.op = "drop" -> "drop"

(* Database::get waits for one of the connections of the pool. *)
Connect(p) ==
  /\ Cardinality(Connected) < PoolSize
  /\ Read(p, "connect", req[p].by \in accounts, First(req[p]))

-----------------------------------------------------------------------------
(* Locks.  "row": p has written to the reaction row.  "post" and "key": it *)
(* has inserted a row that references a post and its user, neither of them *)
(* can be deleted until it ends.  "user": it has written to the row of its *)
(* user, or deletes it.  What a row references is locked in the order of   *)
(* the columns: a post has its author before its parent, a reaction its    *)
(* post before its user.  The insert of a post takes both in one step: as  *)
(* long as it waits for the parent, only a deletion of its user that has   *)
(* not begun can be waiting for it.                                        *)
Referred(r) == IF r.op = "publish" THEN Parent[r.m] ELSE r.m

Holds(q, row) ==
  \/ row \in held[q]
  \/ "row" \in wrote[q] /\ row = ReactionRow(req[q].m, req[q].by)
  \/ "post" \in wrote[q] /\ row = PostRow(Referred(req[q]))

HoldsUser(q, u) == pc[q] # "idle" /\ req[q].by = u /\ "user" \in wrote[q]
HoldsKey(q, u) == pc[q] # "idle" /\ req[q].by = u /\ "key" \in wrote[q]

MutLeaving(q, u) == FALSE  \* a mutant: an insert does not wait for the deletion

(* A row that references u is not inserted before a deletion of u under    *)
(* way has ended.                                                          *)
Leaving(q, u) == HoldsUser(q, u) /\ Running(q, "drop")

(* The rows the deletion p has come to: those that reference the account   *)
(* it deletes, or a post it has locked, directly.                          *)
Leaves(p, u) == Running(p, "drop") /\ req[p].by = u

DoomedPosts(p) ==
  {m \in Post : Stored(m) /\ (Leaves(p, Author[m]) \/ PostRow(Parent[m]) \in held[p])}

DoomedReactions(p) ==
  {mu \in Post \X User :
     reaction[mu[1]][mu[2]] # "none" /\ (Leaves(p, mu[2]) \/ PostRow(mu[1]) \in held[p])}

DoomedBlocks(p) == {b \in blocks : Leaves(p, b[1]) \/ Leaves(p, b[2])}

Doomed(p) ==
  {PostRow(m) : m \in DoomedPosts(p)}
  \cup {ReactionRow(mu[1], mu[2]) : mu \in DoomedReactions(p)}
  \cup {BlockRow(b[1], b[2]) : b \in DoomedBlocks(p)}

(* Those whose commit the next statement of p waits for. *)
WaitsFor(p) ==
  LET r == req[p]
      exists == reaction[r.m][r.by] # "none"
  IN {q \in Proc \ {p} :
       \/ pc[p] \in {"write", "reset", "init", "overwrite"} /\ HoldsUser(q, r.by)
       \/ pc[p] = "insert" /\ (Leaving(q, r.by) \/ PostRow(Parent[r.m]) \in held[q])
       \/ /\ pc[p] = "upsert"
          /\ exists \/ r.reaction # "none"
          /\ \/ Holds(q, ReactionRow(r.m, r.by))
             \/ ~exists /\ PostRow(r.m) \in held[q]
       \/ pc[p] = "refer" /\ Leaving(q, r.by)
       \/ pc[p] = "remove" /\ Holds(q, PostRow(r.m))
       \/ /\ pc[p] = "row" /\ r.on /\ <<r.by, r.to>> \notin blocks
          /\ Leaving(q, r.by) \/ Leaving(q, r.to)
       \/ pc[p] = "row" /\ BlockRow(r.by, r.to) \in held[q]
       \/ pc[p] = "drop" /\ (HoldsUser(q, r.by) \/ HoldsKey(q, r.by))
       \/ pc[p] = "cascade" /\ \E row \in Doomed(p) \ held[p] : Holds(q, row)}

Free(p) == WaitsFor(p) = {}

(* A deletion locks the rows one by one, each when nobody else holds it,   *)
(* in any order in which a row comes after the one it references.          *)
Cascade(p) ==
  /\ pc[p] = "cascade"
  /\ \E row \in Doomed(p) \ held[p] :
       /\ \A q \in Proc \ {p} : ~Holds(q, row)
       /\ held' = [held EXCEPT ![p] = @ \cup {row}]
  /\ Goto(p, "cascade")
  /\ UNCHANGED <<wrote, previous, base, found, todo, counted>>

(* The rows it has locked are gone when it has come to no other one. *)
Cascaded(p) ==
  /\ pc[p] = "cascade"
  /\ Doomed(p) \subseteq held[p]
  /\ posts' = [m \in Post |-> IF PostRow(m) \in held[p] THEN "deleted" ELSE posts[m]]
  /\ reaction' = [m \in Post |-> [u \in User |->
                    IF ReactionRow(m, u) \in held[p] THEN "none" ELSE reaction[m][u]]]
  /\ blocks' = {b \in blocks : BlockRow(b[1], b[2]) \notin held[p]}

-----------------------------------------------------------------------------
(* The two ends of a wait for the embedder. *)
Embed(p) ==
  /\ pc[p] = "embed"
  /\ Ask(p)
  /\ pc' = [pc EXCEPT ![p] = "embedding"]
  /\ UNCHANGED <<tables, ahead, req, locals, aux>>

(* A mutant of Answered: the vector of the tags is not stored.  *)
MutAnswered(r) ==
  IF r.op = "publish" THEN "insert" ELSE "overwrite"

Answered(r) == IF r.op = "publish" THEN "insert" ELSE "init"

Answer(i) ==
  /\ i \in DOMAIN running
  /\ Respond(i)
  /\ LET p == running[i]
     IN IF p = Orphan THEN UNCHANGED <<tables, ahead, pc, req, locals, aux>>
        ELSE \/ /\ pc' = [pc EXCEPT ![p] = Answered(req[p])]
                /\ UNCHANGED <<tables, ahead, req, locals, aux>>
             \/ Fails(p)

EmbedderStep ==
  \/ (Receive \/ Acquire) /\ UNCHANGED <<tables, ahead, pc, req, locals, aux>>
  \/ \E i \in 1..Permits : Answer(i)

-----------------------------------------------------------------------------
(* update_user_vector: the vector is read, and if the move does anything   *)
(* to it, the result is written back.  A move away from a post does        *)
(* nothing to a vector that is NULL.                                       *)
(* A mutant of TheMove: taking back a reaction always moves the vector.  *)
MutTheMove(r, prev) ==
  CASE r.op = "publish" ->
         IF Parent[r.m] = NoPost THEN [post |-> r.m, why |-> "publish"]
         ELSE [post |-> Parent[r.m], why |-> "comment"]
    [] r.op = "react" /\ r.reaction = "none" -> [post |-> r.m, why |-> "undo"]
    [] r.op = "react" /\ r.reaction # "none" /\ prev = "none" -> [post |-> r.m, why |-> "react"]
    [] OTHER -> NoMove

TheMove(r, prev) ==
  CASE r.op = "publish" ->
         IF Parent[r.m] = NoPost THEN [post |-> r.m, why |-> "publish"]
         ELSE [post |-> Parent[r.m], why |-> "comment"]
    [] r.op = "react" /\ r.reaction = "none" /\ prev # "none" -> [post |-> r.m, why |-> "undo"]
    [] r.op = "react" /\ r.reaction # "none" /\ prev = "none" -> [post |-> r.m, why |-> "react"]
    [] OTHER -> NoMove

Away(mv) == mv.why = "react"  \* revert = true

(* A mutant of Blend: the post replaces the vector.  *)
MutBlend(old, mv) == <<mv>>

Blend(old, mv) == Append(old, mv)

MutReadVector(p) ==  \* a mutant: the vector is read FOR SHARE
  /\ pc[p] = "vector"
  /\ \/ /\ req[p].by \in accounts
        /\ base' = [base EXCEPT ![p] = Blend(vector[req[p].by], TheMove(req[p], previous[p]))]
        /\ wrote' = [wrote EXCEPT ![p] = @ \cup {"user"}]
        /\ Goto(p, "write")
        /\ UNCHANGED <<held, previous, found, todo, counted>>
     \/ req[p].by \notin accounts /\ Rollback(p)

ReadVector(p) ==
  /\ pc[p] = "vector"
  /\ \/ /\ req[p].by \in accounts
        /\ LET old == vector[req[p].by]
               mv == TheMove(req[p], previous[p])
           IN IF old = <<>> /\ Away(mv)
              THEN Goto(p, "commit") /\ UNCHANGED locals
              ELSE /\ base' = [base EXCEPT ![p] = Blend(old, mv)]
                   /\ Goto(p, "write")
                   /\ UNCHANGED <<wrote, held, previous, found, todo, counted>>
     \/ req[p].by \notin accounts /\ Rollback(p)

WriteVector(p) ==
  /\ pc[p] = "write"
  /\ Free(p)
  /\ wrote' = [wrote EXCEPT ![p] = @ \cup {"user"}]
  /\ Goto(p, "commit")
  /\ UNCHANGED <<held, previous, base, found, todo, counted>>

(* COMMIT of create and of react. *)
Commit(p) ==
  LET r == req[p]
  IN /\ pc[p] = "commit"
     /\ posts' = IF r.op = "publish" THEN [posts EXCEPT ![r.m] = "stored"] ELSE posts
     /\ reaction' = IF "row" \in wrote[p] /\ r.op = "react"
                    THEN [reaction EXCEPT ![r.m][r.by] = r.reaction] ELSE reaction
     /\ vector' = IF "user" \in wrote[p] /\ r.by \in accounts
                  THEN [vector EXCEPT ![r.by] = base[p]] ELSE vector
     /\ UNCHANGED <<accounts, blocks, interrupted>>
     /\ Commits(p, "idle")

-----------------------------------------------------------------------------
(* posting::create.  The embedding of the parent is all it takes of it. *)
InsertPost(p) ==
  LET r == req[p]
  IN /\ pc[p] = "insert"
     /\ Free(p)
     /\ \/ /\ r.text
           /\ r.by \in accounts
           /\ Parent[r.m] # NoPost => Stored(Parent[r.m])
           /\ wrote' = [wrote EXCEPT ![p] = @ \cup {"post", "key"}]
           /\ Goto(p, "vector")
           /\ UNCHANGED <<held, previous, base, found, todo, counted>>
        \/ /\ \/ ~r.text
              \/ r.by \notin accounts
              \/ Parent[r.m] # NoPost /\ ~Stored(Parent[r.m])
           /\ Rollback(p)

Publish(p) ==
  /\ Running(p, "publish")
  /\ \/ Read(p, "parent", Stored(Parent[req[p].m]), IF req[p].text THEN "embed" ELSE "insert")
     \/ Embed(p)
     \/ InsertPost(p)
     \/ ReadVector(p)
     \/ WriteVector(p)
     \/ Commit(p)

-----------------------------------------------------------------------------
(* posting::react. *)
ReadPrevious(p) ==
  /\ pc[p] = "previous"
  /\ previous' = [previous EXCEPT ![p] = reaction[req[p].m][req[p].by]]
  /\ Goto(p, "upsert")
  /\ UNCHANGED <<wrote, held, base, found, todo, counted>>

(* "none" deletes the row, if there is one it can see.  A new row needs    *)
(* the post and the user it references, in this order.                     *)
AfterUpsert(p) == IF TheMove(req[p], previous[p]) = NoMove THEN "commit" ELSE "vector"

Upsert(p) ==
  LET r == req[p]
      exists == reaction[r.m][r.by] # "none"
      inserts == ~exists /\ r.reaction # "none"
  IN /\ pc[p] = "upsert"
     /\ Free(p)
     /\ \/ /\ inserts => Stored(r.m)
           /\ wrote' = [wrote EXCEPT ![p] = @ \cup IF exists THEN {"row"}
                                                  ELSE IF inserts THEN {"row", "post"} ELSE {}]
           /\ Goto(p, IF inserts THEN "refer" ELSE AfterUpsert(p))
           /\ UNCHANGED <<held, previous, base, found, todo, counted>>
        \/ inserts /\ ~Stored(r.m) /\ Rollback(p)

Refer(p) ==
  /\ pc[p] = "refer"
  /\ Free(p)
  /\ \/ /\ req[p].by \in accounts
        /\ wrote' = [wrote EXCEPT ![p] = @ \cup {"key"}]
        /\ Goto(p, AfterUpsert(p))
        /\ UNCHANGED <<held, previous, base, found, todo, counted>>
     \/ req[p].by \notin accounts /\ Rollback(p)

React(p) ==
  /\ Running(p, "react")
  /\ \/ Read(p, "post", Stored(req[p].m), "previous")
     \/ ReadPrevious(p)
     \/ Upsert(p)
     \/ Refer(p)
     \/ ReadVector(p)
     \/ WriteVector(p)
     \/ Commit(p)

-----------------------------------------------------------------------------
(* posting::delete: not a transaction, and no error if the post is gone by *)
(* the second statement.                                                   *)
Unpublish(p) ==
  LET r == req[p]
  IN /\ Running(p, "unpublish")
     /\ \/ Read(p, "author", Stored(r.m) /\ Author[r.m] = r.by, "remove")
        \/ /\ pc[p] = "remove"
           /\ Free(p)
           /\ \/ /\ Stored(r.m)
                 /\ held' = [held EXCEPT ![p] = {PostRow(r.m)}]
                 /\ Goto(p, "cascade")
                 /\ UNCHANGED <<wrote, previous, base, found, todo, counted>>
              \/ ~Stored(r.m) /\ UNCHANGED <<tables, interrupted>> /\ Commits(p, "idle")
        \/ Cascade(p)
        \/ /\ Cascaded(p)
           /\ UNCHANGED <<accounts, vector, interrupted>>
           /\ Commits(p, "idle")

-----------------------------------------------------------------------------
(* user.block.  Nobody can block himself (a check of the table). *)
Block(p) ==
  LET r == req[p]
      ok == r.on => r.by # r.to /\ {r.by, r.to} \subseteq accounts
  IN /\ Running(p, "block")
     /\ \/ Read(p, "target", r.to \in accounts, "row")
        \/ /\ pc[p] = "row"
           /\ Free(p)
           /\ \/ /\ ok
                 /\ blocks' = IF r.on THEN blocks \cup {<<r.by, r.to>>}
                              ELSE blocks \ {<<r.by, r.to>>}
                 /\ UNCHANGED <<accounts, posts, reaction, vector, interrupted>>
                 /\ Commits(p, "idle")
              \/ ~ok /\ Rollback(p)

(* user.update, as far as the vector is concerned: three statements that   *)
(* commit on their own, with the embedder and the check of a code between. *)
SetVector(p, to, next) ==
  /\ Free(p)
  /\ vector' = IF req[p].by \in accounts THEN [vector EXCEPT ![req[p].by] = to] ELSE vector
  /\ UNCHANGED <<accounts, posts, reaction, blocks>>
  /\ Commits(p, next)

Update(p) ==
  LET r == req[p]
  IN /\ Running(p, "update")
     /\ \/ pc[p] = "reset" /\ SetVector(p, <<>>, "embed") /\ UNCHANGED interrupted
        \/ Embed(p)
        \/ /\ pc[p] = "init"
           /\ SetVector(p, <<Tags>>, IF r.email THEN "code" ELSE "overwrite")
           /\ interrupted' = interrupted \ {r.by}
        \/ \E ok \in BOOLEAN : Read(p, "code", ok, "overwrite")
        \/ /\ pc[p] = "overwrite"
           /\ Free(p)
           /\ UNCHANGED <<tables, interrupted>>
           /\ Commits(p, "idle")

(* user::delete: one statement, that locks the row of the user and then    *)
(* deletes all that depends on it.                                         *)
Drop(p) ==
  LET u == req[p].by
  IN /\ Running(p, "drop")
     /\ \/ /\ pc[p] = "drop"
           /\ Free(p)
           /\ wrote' = [wrote EXCEPT ![p] = {"user"}]
           /\ Goto(p, "cascade")
           /\ UNCHANGED <<held, previous, base, found, todo, counted>>
        \/ Cascade(p)
        \/ /\ Cascaded(p)
           /\ accounts' = accounts \ {u}
           /\ vector' = [vector EXCEPT ![u] = <<>>]
           /\ UNCHANGED interrupted
           /\ Commits(p, "idle")

-----------------------------------------------------------------------------
(* Queries.  get asks for posts by id and refuses the whole answer when    *)
(* one of the authors is blocked; get_of, search and the feed leave the    *)
(* posts of blocked authors out.  Reactions, the own reactions and the     *)
(* comments are queries of their own.                                      *)
MutBlockedBy(u) == {v \in User : <<v, u>> \in blocks}  \* a mutant: who has blocked u

BlockedBy(u) == {v \in User : <<u, v>> \in blocks}

Serve(p, posting, next) ==
  /\ found' = [found EXCEPT ![p] = posting]
  /\ todo' = [todo EXCEPT ![p] = IF next = "blocks" THEN {Author[m] : m \in posting} ELSE {}]
  /\ Goto(p, next)
  /\ UNCHANGED <<wrote, held, previous, base, counted>>

Found(p, shown, next) ==
  \/ shown # {} /\ Serve(p, shown, next)
  \/ shown = {} /\ Rollback(p)

Visible(u) == {m \in Post : Stored(m) /\ Author[m] \notin BlockedBy(u)}

FindByIds(p) ==
  /\ pc[p] = "posts" /\ req[p].op = "get"
  /\ Found(p, {m \in req[p].of : Stored(m)}, "blocks")

FindPostsOf(p) ==
  /\ pc[p] = "posts" /\ req[p].op = "getOf"
  /\ Found(p, PostsOf(req[p].author) \cap Visible(req[p].by), "counts")

FindByText(p) ==
  /\ pc[p] = "posts" /\ req[p].op = "search"
  /\ Found(p, req[p].of \cap Visible(req[p].by), "counts")

(* The authors are asked about one by one, in any order. *)
CheckBlock(p) ==
  /\ pc[p] = "blocks"
  /\ \/ \E u \in todo[p] :
           \/ /\ u \in accounts \ BlockedBy(req[p].by)
              /\ todo' = [todo EXCEPT ![p] = @ \ {u}]
              /\ UNCHANGED <<tables, ahead, pc, req, wrote, held, previous, base, found,
                             counted, aux, embedder>>
           \/ u \notin accounts \ BlockedBy(req[p].by) /\ Rollback(p)
     \/ todo[p] = {} /\ Goto(p, "counts") /\ UNCHANGED locals

(* The feed averages the vectors of the posts the user likes, fetches what *)
(* he has not reacted to, and ranks it, his own posts left out.            *)
ReadLiked(p) == Read(p, "liked", TRUE, "candidates")

Ranked(u, rows) == rows \ PostsOf(u)

FindCandidates(p) ==
  LET u == req[p].by
      rows == {m \in Visible(u) : reaction[m][u] = "none"}
  IN /\ pc[p] = "candidates"
     /\ \/ rows # {} /\ Serve(p, Ranked(u, rows), "counts")
        \/ rows = {} /\ Rollback(p)

MutCounts(S) ==  \* a mutant: dislikes are not counted
  {mr \in S \X {"like"} : \E u \in User : reaction[mr[1]][u] = mr[2]}

Counts(S) ==
  {mr \in S \X (Reaction \ {"none"}) : \E u \in User : reaction[mr[1]][u] = mr[2]}

CountReactions(p) ==
  /\ pc[p] = "counts"
  /\ \/ /\ req[p].op # "feed"
        /\ counted' = [counted EXCEPT ![p] = Counts(found[p])]
        /\ Goto(p, "own")
        /\ UNCHANGED <<wrote, held, previous, base, found, todo>>
     \/ req[p].op = "feed" /\ Rollback(p)

Query(p) ==
  /\ pc[p] # "idle"
  /\ req[p].op \in {"get", "getOf", "search", "feed"}
  /\ \/ FindByIds(p)
     \/ CheckBlock(p)
     \/ FindPostsOf(p)
     \/ FindByText(p)
     \/ ReadLiked(p)
     \/ FindCandidates(p)
     \/ CountReactions(p)
     \/ Read(p, "own", TRUE, "comments")
     \/ pc[p] = "comments" /\ Rollback(p)

-----------------------------------------------------------------------------
(* A lost connection, the timeout of the request, a deadlock the database  *)
(* breaks: anything may end a request early.                               *)
Fail(p) ==
  /\ pc[p] # "idle"
  /\ Fails(p)
  /\ IF pc[p] = "embedding" THEN Abandon(p) ELSE UNCHANGED embedder

Step(p) ==
  \/ Connect(p) \/ Publish(p) \/ React(p) \/ Unpublish(p) \/ Block(p) \/ Update(p)
  \/ Drop(p) \/ Query(p)

Next ==
  \/ \E p \in Proc, r \in ahead : Submit(p, r)
  \/ \E p \in Proc : Connect(p)
  \/ \E p \in Proc : Publish(p)
  \/ \E p \in Proc : React(p)
  \/ \E p \in Proc : Unpublish(p)
  \/ \E p \in Proc : Block(p)
  \/ \E p \in Proc : Update(p)
  \/ \E p \in Proc : Drop(p)
  \/ \E p \in Proc : Query(p)
  \/ \E p \in Proc : Fail(p)
  \/ EmbedderStep

Spec == Init /\ [][Next]_vars

DeadlockedSet(S) == S # {} /\ \A p \in S : WaitsFor(p) \cap S # {}
Deadlocked(p) == \E S \in SUBSET Proc : p \in S /\ DeadlockedSet(S)

(* A request goes on when it can: the pool, the channel, the semaphore and *)
(* the locks of the database serve those who wait in their order, and the  *)
(* database breaks a deadlock.  A job that is computed ends.               *)
Fairness ==
  /\ \A p \in Proc : SF_vars(Step(p)) /\ WF_vars(Deadlocked(p) /\ Fail(p))
  /\ WF_vars(EmbedderStep)

FairSpec == Spec /\ Fairness

-----------------------------------------------------------------------------
(* A stored comment has a stored parent, every stored post a registered    *)
(* author, every reaction a stored post and a registered user, while posts *)
(* and accounts are deleted under create (posting.rs:57) and react         *)
(* (posting.rs:360), which have checked before that there is one.          *)
PostIntegrity ==
  /\ \A m \in Post : Stored(m) =>
       /\ Author[m] \in accounts
       /\ Parent[m] # NoPost => Stored(Parent[m])
  /\ \A m \in Post, u \in User : reaction[m][u] # "none" => Stored(m) /\ u \in accounts

(* The moves react has made and taken back say whether the user has a      *)
(* reaction on the post, for a user who never had two writing requests in  *)
(* progress and whose vector was not reset (posting.rs:369-382); with two, *)
(* each may have seen the state before the other (posting.rs:337).         *)
Moves(u, m, why) == Cardinality({i \in DOMAIN vector[u] : vector[u][i] = [post |-> m, why |-> why]})

ReactionsMoveOnce ==
  \A u \in clean \cap accounts, m \in Post :
    Stored(m) =>
      Moves(u, m, "react") = Moves(u, m, "undo") + IF reaction[m][u] = "none" THEN 0 ELSE 1

(* A move once committed is lost from a vector only by the reset, by the   *)
(* deletion of the account, or by a request that has been overtaken by     *)
(* another one of the same user (feed.rs:262-304).                         *)
VectorLostOnlyByOverlap ==
  [][\A u \in User : vector'[u] # vector[u] =>
       \/ IsPrefix(vector[u], vector'[u])
       \/ vector'[u] = <<>>
       \/ \E p \in Proc : pc'[p] # pc[p] /\ req[p].by = u /\ overlapped[p]]_vars

(* A registered user is without a vector only while an update is between   *)
(* reset and init, or after one that ended there (services/user.rs:228).   *)
VectorlessForAReason ==
  \A u \in accounts : vector[u] = <<>> =>
    \/ u \in interrupted
    \/ \E p \in Proc : Running(p, "update") /\ req[p].by = u
                        /\ pc[p] \in {"embed", "embedding", "init"}

(* No query is answered with a post of an author the user had blocked      *)
(* before he asked and has not unblocked since (posting.rs:154, :247,      *)
(* :293, feed.rs:158).                                                     *)
BlockedNotServed ==
  \A p \in Proc : pc[p] \in {"counts", "own", "comments"} =>
    \A m \in found[p] : Author[m] \notin blocked[p]

(* The reaction of the user that an answer names is among those it counts, *)
(* unless somebody reacted in between (posting.rs:163-190, :409-434: two   *)
(* queries that see two states).                                           *)
OwnReactionCounted ==
  [][\A p \in Proc : pc[p] = "own" /\ pc'[p] = "comments" =>
       \A m \in found[p] \ moved[p] :
         reaction[m][req[p].by] # "none" => <<m, reaction[m][req[p].by]>> \in counted[p]]_vars

(* Requests deadlock in two ways.  The deletion of an account has locked   *)
(* the row of the user and waits for a reaction the user changes or takes  *)
(* back, or for the post he reacts to for the first time, and the request  *)
(* to react waits for that row, to move the vector or to refer to the user *)
(* (posting.rs:346, :369).  Or two deletions, of accounts or of posts, are *)
(* both under way: their cascades lock posts, reactions and blocks row by  *)
(* row, and each may have come first to a row the other one needs          *)
(* (user.rs:84, posting.rs:118).  Every other order of locks is the same   *)
(* for all: what a new row references, the row of the user last.           *)
DeadlockShape ==
  \A S \in SUBSET Proc : DeadlockedSet(S) =>
    \/ \E d, w \in S :
         /\ Running(d, "drop") /\ Running(w, "react") /\ req[w].by = req[d].by
         /\ d \in WaitsFor(w) /\ w \in WaitsFor(d)
    \/ \E c, d \in S : c # d /\ pc[c] = "cascade" /\ pc[d] = "cascade"

(* Whoever looks at the tables alone sees Board: a request takes effect at *)
(* one instant, or not at all, and finds there and then that the user, the *)
(* post and the parent it refers to exist, though it has checked them some *)
(* statements before (posting.rs:55, :339, user.rs:284) and their deletion *)
(* may be under way; an id that is taken is not seen before it is stored.  *)
Published == [m \in Post |-> IF posts[m] = "taken" THEN "unused" ELSE posts[m]]

Abstract == INSTANCE Board WITH posts <- Published

BoardSpec == Abstract!Spec

(* Every request ends, although those who wait for the embedder hold       *)
(* connections others wait for (posting.rs:44, embedder.rs:30).            *)
RequestsEnd == \A p \in Proc : pc[p] # "idle" ~> pc[p] = "idle"
=============================================================================
