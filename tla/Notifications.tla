---------------------------- MODULE Notifications ----------------------------
(***************************************************************************)
(* The messages of one chat channel and the notifications they leave.      *)
(*                                                                         *)
(* A notification is published on the NATS subject of its user and added   *)
(* to the list in the column users.notifications.  chat::send does both    *)
(* for every member of the channel, inside the transaction that inserts    *)
(* the message; the list is read, extended and written back as a whole.    *)
(* user.update writes back a list it read when the user authenticated.     *)
(* Requests interleave statement by statement, as in ChannelTx; what the   *)
(* handlers of the channel do to its members is the environment here.      *)
(*                                                                         *)
(* Accounts are not deleted, and a notification is known by its message.   *)
(***************************************************************************)
EXTENDS ChannelPermissions, Naturals

CONSTANTS
  User,
  Message,   \* the message ids the id factory hands out
  Author,    \* the user that sends each of them
  Client,    \* the users with a client that watches their notifications
  Start,     \* the members the channel is created with
  Changes,   \* the changes of one member's row that happen later
  Proc,      \* the requests that can be in progress at the same time
  Requests,  \* the requests that are made
  MaxRequests \* bound: how many of them

ASSUME AuthorType == Author \in [Message -> User]
ASSUME ClientType == Client \subseteq User
ASSUME StartType == Start \in [User -> Membership]
ASSUME ChangesType == Changes \subseteq User \X Membership

VARIABLES
  live, perm,   \* the channel and its members
  messages,     \* each id: "unused", "taken", "stored" row, "deleted" row
  inbox,        \* users.notifications, as committed
  expired,      \* the messages whose notifications are past their time
  made,         \* the number of requests made so far
  pc, req,      \* the statement each process executes next, for which request
  todo,         \* the recipients it has not come to yet
  list,         \* the list of notifications it is about to write
  at,           \* the user whose list that is
  userLock,     \* who has written to a row of users, uncommitted
  pending,      \* the list written there
  watching,     \* the clients that have subscribed
  loaded,       \* the clients that have then loaded the stored list
  known,        \* what each of them has received or loaded
  moved,        \* auxiliary: the members have changed since the process started
  arrived,      \* auxiliary: notifications stored since the process started
  underway      \* auxiliary: what requests in progress carried when a client loaded

channel == <<live, perm>>
process == <<made, pc, req, todo, list, at>>
locks == <<userLock, pending>>
client == <<watching, loaded, known, underway>>
vars == <<channel, messages, inbox, expired, process, locks, client, moved, arrived>>

SendRequest   == [op : {"send"}, m : Message, console : BOOLEAN]
DeleteRequest == [op : {"delete"}, m : Message, by : User, console : BOOLEAN]
UpdateRequest == [op : {"update"}, by : User]
Request == SendRequest \cup DeleteRequest \cup UpdateRequest

ASSUME RequestsType == Requests \subseteq Request
ASSUME MaxRequestsType == MaxRequests \in Nat

NoReq == [op |-> "none"]
Free == "Free"
ASSUME FreeIsNobody == Free \notin Proc \cup User

Statement ==
  {"idle", "perm", "channel", "members", "insert", "notify", "update",
   "find", "issuer", "remove", "snapshot", "overwrite"}

TypeOK ==
  /\ live \in BOOLEAN
  /\ perm \in [User -> Membership]
  /\ messages \in [Message -> {"unused", "taken", "stored", "deleted"}]
  /\ inbox \in [User -> SUBSET Message]
  /\ expired \subseteq Message
  /\ made \in 0..MaxRequests
  /\ pc \in [Proc -> Statement]
  /\ req \in [Proc -> Request \cup {NoReq}]
  /\ todo \in [Proc -> SUBSET User]
  /\ list \in [Proc -> SUBSET Message]
  /\ at \in [Proc -> User \cup {Free}]
  /\ userLock \in [User -> Proc \cup {Free}]
  /\ pending \in [User -> SUBSET Message]
  /\ watching \subseteq Client
  /\ loaded \subseteq watching
  /\ known \in [User -> SUBSET Message]
  /\ moved \in [Proc -> BOOLEAN]
  /\ arrived \in [Proc -> SUBSET Message]
  /\ underway \in [User -> SUBSET Message]
  /\ \A p \in Proc : pc[p] = "idle" <=> req[p] = NoReq
  /\ \A p \in Proc : pc[p] = "update" <=> at[p] # Free

Running(p, op) == pc[p] # "idle" /\ req[p].op = op
Members == {u \in User : perm[u] # NoRow}

Init ==
  /\ live = TRUE
  /\ perm = Start
  /\ messages = [m \in Message |-> "unused"]
  /\ inbox = [u \in User |-> {}]
  /\ expired = {}
  /\ made = 0
  /\ pc = [p \in Proc |-> "idle"]
  /\ req = [p \in Proc |-> NoReq]
  /\ todo = [p \in Proc |-> {}]
  /\ list = [p \in Proc |-> {}]
  /\ at = [p \in Proc |-> Free]
  /\ userLock = [u \in User |-> Free]
  /\ pending = [u \in User |-> {}]
  /\ watching = {}
  /\ loaded = {}
  /\ known = [u \in User |-> {}]
  /\ moved = [p \in Proc |-> FALSE]
  /\ arrived = [p \in Proc |-> {}]
  /\ underway = [u \in User |-> {}]

-----------------------------------------------------------------------------
(* A mutant of Finish: where the request stood is remembered.  *)
MutFinish(p) ==
  /\ pc' = [pc EXCEPT ![p] = "idle"]
  /\ req' = [req EXCEPT ![p] = NoReq]
  /\ todo' = [todo EXCEPT ![p] = {}]
  /\ list' = [list EXCEPT ![p] = {}]
  /\ userLock' = [u \in User |-> IF userLock[u] = p THEN Free ELSE userLock[u]]
  /\ pending' = [u \in User |-> IF userLock[u] = p THEN {} ELSE pending[u]]
  /\ UNCHANGED at

(* The end of a request: its locks are released.  What it has written to   *)
(* the lists of users is stored if it commits, and forgotten otherwise.    *)
Finish(p) ==
  /\ pc' = [pc EXCEPT ![p] = "idle"]
  /\ req' = [req EXCEPT ![p] = NoReq]
  /\ todo' = [todo EXCEPT ![p] = {}]
  /\ list' = [list EXCEPT ![p] = {}]
  /\ at' = [at EXCEPT ![p] = Free]
  /\ userLock' = [u \in User |-> IF userLock[u] = p THEN Free ELSE userLock[u]]
  /\ pending' = [u \in User |-> IF userLock[u] = p THEN {} ELSE pending[u]]

Stored(p) == [u \in User |-> IF userLock[u] = p THEN pending[u] ELSE inbox[u]]

(* What the others are told, for the auxiliary variables. *)
Arrivals(p) ==
  [q \in Proc |->
     IF q = p \/ pc[q] = "idle" THEN {}
     ELSE arrived[q] \cup UNION {inbox'[u] \ inbox[u] : u \in User}]

MutRollback(p) ==  \* a mutant: a request that fails keeps its locks
  /\ pc' = [pc EXCEPT ![p] = "idle"]
  /\ req' = [req EXCEPT ![p] = NoReq]
  /\ todo' = [todo EXCEPT ![p] = {}]
  /\ list' = [list EXCEPT ![p] = {}]
  /\ at' = [at EXCEPT ![p] = Free]
  /\ moved' = [moved EXCEPT ![p] = FALSE]
  /\ arrived' = [arrived EXCEPT ![p] = {}]
  /\ UNCHANGED <<channel, messages, inbox, expired, made, client, locks>>

Rollback(p) ==
  /\ Finish(p)
  /\ moved' = [moved EXCEPT ![p] = FALSE]
  /\ arrived' = [arrived EXCEPT ![p] = {}]
  /\ UNCHANGED <<channel, messages, inbox, expired, made, client>>

(* The statements before the last one change nothing that others see. *)
Goto(p, next) ==
  /\ pc' = [pc EXCEPT ![p] = next]
  /\ UNCHANGED <<channel, messages, inbox, expired, made, req, client, moved, arrived>>

Read(p, stmt, ok, next) ==
  /\ pc[p] = stmt
  /\ \/ ok /\ Goto(p, next) /\ UNCHANGED <<todo, list, at, locks>>
     \/ ~ok /\ Rollback(p)

(* A service request starts with its checks, a console command without. *)
Submit(p, r) ==
  /\ pc[p] = "idle"
  /\ made < MaxRequests
  /\ made' = made + 1
  /\ r.op = "send" => messages[r.m] = "unused"
  /\ pc' = [pc EXCEPT ![p] = CASE r.op = "send" -> IF r.console THEN "channel" ELSE "perm"
                               [] r.op = "delete" -> IF r.console THEN "remove" ELSE "find"
                               [] r.op = "update" -> "snapshot"]
  /\ req' = [req EXCEPT ![p] = r]
  /\ messages' = IF r.op = "send" THEN [messages EXCEPT ![r.m] = "taken"] ELSE messages
  /\ UNCHANGED <<channel, inbox, expired, todo, list, at, locks, client, moved, arrived>>

-----------------------------------------------------------------------------
(* is_write_authorized, as _send spells it out. *)
MutMayWrite(u) == perm[u] # NoRow \* a mutant: any member may

MayWrite(u) == perm[u] \in {ReadWrite, Manager}

(* A mutant of Recipients: only members who could answer.  *)
MutRecipients(m) == {u \in User : perm[u] \in {ReadWrite, Manager}} \ {Author[m]}

Recipients(m) == Members \ {Author[m]}

(* The message references its channel: a deleted channel refuses it. *)
InsertMessage(p) == Read(p, "insert", live, "notify")

(* A mutant of Publish: only what the list does not hold yet is sent out.  *)
MutPublish(u, m) == UNCHANGED client

(* Whoever watches receives it now, whatever becomes of the transaction. *)
Publish(u, m) ==
  /\ known' = IF u \in watching THEN [known EXCEPT ![u] = @ \cup {m}] ELSE known
  /\ UNCHANGED <<watching, loaded, underway>>

(* The list push_notifications writes back. *)
MutExtended(u, m) == {m} \* a mutant: the list starts anew

Extended(u, m) == (inbox[u] \ expired) \cup {m}

(* push_notifications, for one recipient after the other: the list is read *)
(* as committed, the notification is published; the write waits for        *)
(* whoever has written to the row.                                         *)
PushRead(p) ==
  /\ pc[p] = "notify"
  /\ \E u \in todo[p] :
       /\ list' = [list EXCEPT ![p] = Extended(u, req[p].m)]
       /\ at' = [at EXCEPT ![p] = u]
       /\ todo' = [todo EXCEPT ![p] = @ \ {u}]
       /\ Publish(u, req[p].m)
  /\ pc' = [pc EXCEPT ![p] = "update"]
  /\ UNCHANGED <<channel, messages, inbox, expired, made, req, locks, moved, arrived>>

(* A mutant of PushWrite: on a connection outside the transaction.  *)
MutPushWrite(p) ==
  /\ pc[p] = "update"
  /\ userLock[at[p]] = Free
  /\ inbox' = [inbox EXCEPT ![at[p]] = list[p]]
  /\ pc' = [pc EXCEPT ![p] = "notify"]
  /\ list' = [list EXCEPT ![p] = {}]
  /\ at' = [at EXCEPT ![p] = Free]
  /\ UNCHANGED <<channel, messages, expired, made, req, todo, locks, client, moved, arrived>>

PushWrite(p) ==
  /\ pc[p] = "update"
  /\ userLock[at[p]] = Free
  /\ userLock' = [userLock EXCEPT ![at[p]] = p]
  /\ pending' = [pending EXCEPT ![at[p]] = list[p]]
  /\ list' = [list EXCEPT ![p] = {}]
  /\ at' = [at EXCEPT ![p] = Free]
  /\ Goto(p, "notify")
  /\ UNCHANGED todo

(* COMMIT: the message and the lists of all its recipients at once. *)
CommitSend(p) ==
  /\ pc[p] = "notify"
  /\ todo[p] = {}
  /\ messages' = [messages EXCEPT ![req[p].m] = "stored"]
  /\ inbox' = Stored(p)
  /\ Finish(p)
  /\ moved' = [moved EXCEPT ![p] = FALSE]
  /\ arrived' = Arrivals(p)
  /\ UNCHANGED <<channel, expired, made, client>>

Send(p) ==
  /\ Running(p, "send")
  /\ \/ Read(p, "perm", MayWrite(Author[req[p].m]), "channel")
     \/ Read(p, "channel", live, "members")
     \/ /\ pc[p] = "members"
        /\ todo' = [todo EXCEPT ![p] = Recipients(req[p].m)]
        /\ Goto(p, "insert")
        /\ UNCHANGED <<list, at, locks>>
     \/ InsertMessage(p)
     \/ PushRead(p)
     \/ PushWrite(p)
     \/ CommitSend(p)

-----------------------------------------------------------------------------
MayDelete(u, m) ==
  \/ perm[u] = Manager
  \/ perm[u] = ReadWrite /\ Author[m] = u

(* _delete_message: three statements, none in a transaction.  The copy of  *)
(* the message in the lists of notifications stays.                        *)
DeleteMessage(p) ==
  LET m == req[p].m
  IN /\ Running(p, "delete")
     /\ \/ Read(p, "find", messages[m] = "stored", "issuer")
        \/ Read(p, "issuer", MayDelete(req[p].by, m), "remove")
        \/ /\ pc[p] = "remove"
           /\ messages[m] = "stored"
           /\ messages' = [messages EXCEPT ![m] = "deleted"]
           /\ Finish(p)
           /\ moved' = [moved EXCEPT ![p] = FALSE]
           /\ arrived' = [arrived EXCEPT ![p] = {}]
           /\ UNCHANGED <<channel, inbox, expired, made, client>>
        \/ pc[p] = "remove" /\ messages[m] # "stored" /\ Rollback(p)

(* user.update: the whole row, as auth::verify has read it.  In between    *)
(* the request may wait for embeddings and for the row.                    *)
UpdateUser(p) ==
  LET u == req[p].by
  IN /\ Running(p, "update")
     /\ \/ /\ pc[p] = "snapshot"
           /\ list' = [list EXCEPT ![p] = inbox[u]]
           /\ Goto(p, "overwrite")
           /\ UNCHANGED <<todo, at, locks>>
        \/ /\ pc[p] = "overwrite"
           /\ userLock[u] = Free
           /\ inbox' = [inbox EXCEPT ![u] = list[p]]
           /\ Finish(p)
           /\ moved' = [moved EXCEPT ![p] = FALSE]
           /\ arrived' = Arrivals(p)
           /\ UNCHANGED <<channel, messages, expired, made, client>>

(* The console command create-user --update writes a new user over the old *)
(* one: no notifications.                                                  *)
ConsoleUpdate(u) ==
  /\ userLock[u] = Free
  /\ inbox' = [inbox EXCEPT ![u] = {}]
  /\ UNCHANGED <<channel, messages, expired, process, locks, client, moved, arrived>>

Fail(p) == pc[p] # "idle" /\ Rollback(p)

-----------------------------------------------------------------------------
(* What the handlers of the channel commit meanwhile. *)
Moved == [p \in Proc |-> pc[p] # "idle"]

ChangeMember(u, x) ==
  /\ live
  /\ x # perm[u]
  /\ perm' = [perm EXCEPT ![u] = x]
  /\ moved' = Moved
  /\ UNCHANGED <<live, messages, inbox, expired, process, locks, client, arrived>>

(* The deletion of the channel takes its messages along.  It waits for the *)
(* transactions that have inserted one.                                    *)
DeleteChannel ==
  /\ live
  /\ ~\E p \in Proc : pc[p] \in {"notify", "update"}
  /\ live' = FALSE
  /\ perm' = [u \in User |-> NoRow]
  /\ messages' = [m \in Message |-> IF messages[m] = "stored" THEN "deleted" ELSE messages[m]]
  /\ moved' = Moved
  /\ UNCHANGED <<inbox, expired, process, locks, client, arrived>>

(* notification_expiration_time is days, a request is seconds. *)
Expire(m) ==
  /\ messages[m] \in {"stored", "deleted"}
  /\ expired' = expired \cup {m}
  /\ UNCHANGED <<channel, messages, inbox, process, locks, client, moved, arrived>>

(* A client subscribes (user.subscribe) and then loads what is stored       *)
(* (user.auth).                                                            *)
Subscribe(u) ==
  /\ u \notin watching
  /\ watching' = watching \cup {u}
  /\ UNCHANGED <<channel, messages, inbox, expired, process, locks, moved, arrived,
                 loaded, known, underway>>

Updating(q, u) == Running(q, "update") /\ req[q].by = u
CarriedFor(u) ==
  pending[u] \cup
    UNION {list[p] : p \in {q \in Proc : at[q] = u \/ Updating(q, u)}}

Load(u) ==
  /\ u \in watching \ loaded
  /\ loaded' = loaded \cup {u}
  /\ known' = [known EXCEPT ![u] = @ \cup inbox[u]]
  /\ underway' = [underway EXCEPT ![u] = CarriedFor(u)]
  /\ UNCHANGED <<channel, messages, inbox, expired, process, locks, moved, arrived,
                 watching>>

Step(p) == Send(p) \/ DeleteMessage(p) \/ UpdateUser(p)

Next ==
  \/ \E p \in Proc, r \in Requests : Submit(p, r)
  \/ \E p \in Proc : Send(p)
  \/ \E p \in Proc : DeleteMessage(p)
  \/ \E p \in Proc : UpdateUser(p)
  \/ \E p \in Proc : Fail(p)
  \/ \E u \in User : ConsoleUpdate(u)
  \/ \E c \in Changes : ChangeMember(c[1], c[2])
  \/ DeleteChannel
  \/ \E m \in Message : Expire(m)
  \/ \E u \in Client : Subscribe(u)
  \/ \E u \in Client : Load(u)

Spec == Init /\ [][Next]_vars

(* Whose commit a statement waits for: of whoever has written to the row   *)
(* of the user it writes to.                                               *)
WaitsFor(p) ==
  {q \in Proc \ {p} :
     \/ pc[p] = "update" /\ userLock[at[p]] = q
     \/ pc[p] = "overwrite" /\ userLock[req[p].by] = q}

DeadlockedSet(S) == S # {} /\ \A p \in S : WaitsFor(p) \cap S # {}
Deadlocked(p) == \E S \in SUBSET Proc : p \in S /\ DeadlockedSet(S)

(* A request goes on when it can: the database queues the waiters of a row *)
(* and breaks a deadlock by failing one of the requests in it.             *)
Fairness ==
  \A p \in Proc : SF_vars(Step(p)) /\ WF_vars(Deadlocked(p) /\ Fail(p))

FairSpec == Spec /\ Fairness

-----------------------------------------------------------------------------
(* A stored notification is about a message that has been stored, never    *)
(* one that was rolled back, and its recipient is not its author.          *)
StoredWasSent ==
  \A u \in User : \A m \in inbox[u] :
    messages[m] \in {"stored", "deleted"} /\ Author[m] # u

(* No message outlives its channel, whatever is sent while it is deleted. *)
MessagesHaveChannel == \A m \in Message : messages[m] = "stored" => live

(* A notification leaves the stored list of a user for three reasons only: *)
(* its time is over, the console resets the user, or a request in progress *)
(* since before it was stored writes back the list it read (user.rs:348,   *)
(* services/user.rs:217).                                                  *)
LostOnlyByOverlap ==
  [][\A u \in User : \A m \in inbox[u] \ inbox'[u] :
       \/ m \in expired
       \/ ConsoleUpdate(u)
       \/ \E p \in Proc : pc[p] # "idle" /\ pc'[p] = "idle" /\ m \in arrived[p]]_vars

Ends(p, op, m) == Running(p, op) /\ pc'[p] = "idle" /\ req[p].m = m

(* A message is stored and deleted by those who may, unless the members of *)
(* the channel change while the request is under way: the checks are not   *)
(* in the transaction (services/chat.rs:216, services/chat.rs:260).        *)
IsolatedRequestsAuthorised ==
  [][\A m \in Message :
       /\ messages[m] = "taken" /\ messages'[m] = "stored" =>
            \E p \in Proc :
              /\ Ends(p, "send", m)
              /\ req[p].console \/ moved[p] \/ perm[Author[m]] \in {ReadWrite, Manager}
       /\ messages[m] = "stored" /\ messages'[m] = "deleted" =>
            \/ live /\ ~live'
            \/ \E p \in Proc :
                 /\ Ends(p, "delete", m)
                 /\ req[p].console \/ moved[p] \/ MayDelete(req[p].by, m)]_vars

(* When a message is stored, all the other members of the channel are      *)
(* notified, and nobody else, unless the members change meanwhile.         *)
MembersNotified ==
  [][\A p \in Proc, m \in Message :
       Ends(p, "send", m) /\ messages'[m] = "stored" /\ ~moved[p] =>
         \A u \in User \ {Author[m]} : m \in inbox'[u] <=> u \in Members]_vars

(* A client that subscribes before it loads the stored list knows every    *)
(* notification stored later on, except what a request in progress at that *)
(* moment carried: it published before the client subscribed and commits   *)
(* after the client has loaded (user.rs:365).                              *)
ClientMissesOnlyUnderway ==
  \A u \in loaded : inbox[u] \subseteq known[u] \cup underway[u]

(* Only messages deadlock, never the update of a user: push_notifications  *)
(* keeps the row of each recipient until send commits, and takes them in   *)
(* the order of a query that has none (chat.rs:444).  In a deadlock there  *)
(* are two messages, one waiting for the other, each of which has at least *)
(* two recipients: one it has written to, one it waits for.                *)
DeadlockShape ==
  \A S \in SUBSET Proc : DeadlockedSet(S) =>
    \E p, q \in S :
      /\ Running(p, "send") /\ Running(q, "send") /\ req[p].m # req[q].m
      /\ pc[p] = "update" /\ pc[q] = "update"
      /\ at[p] # at[q] /\ userLock[at[p]] = q
      /\ \E u \in User \ {at[p]} : userLock[u] = p

(* Every request ends, with a result or with an error, whoever holds the   *)
(* rows of the users it writes to.                                         *)
EveryRequestEnds == \A p \in Proc : pc[p] # "idle" ~> pc[p] = "idle"
=============================================================================
