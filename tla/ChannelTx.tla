------------------------------ MODULE ChannelTx ------------------------------
(***************************************************************************)
(* The handlers of Channels, statement by statement.  Several requests run *)
(* at once, each on a database connection of its own; a request is a       *)
(* sequence of SQL statements, and the statements of different requests    *)
(* interleave.                                                             *)
(*                                                                         *)
(* The database runs at its default level, READ COMMITTED: a statement     *)
(* reads what is committed when it starts, nothing it read is locked, a    *)
(* row that is written stays locked until the transaction ends, and        *)
(* inserting a row that references a user or a channel keeps those from    *)
(* being deleted.  The deletion of a user or of a channel cascades to the  *)
(* memberships and the messages, whose rows it locks one by one, keeping   *)
(* those it has while it waits for the next.  A request that fails, at any *)
(* point, is rolled back.                                                  *)
(***************************************************************************)
EXTENDS ChannelPermissions, FiniteSets, Integers

CONSTANTS
  User, Channel, Grants, Leaver, Shy,   \* as in Channels
  Message,   \* the messages that may be sent, each with channel and author
  Proc,      \* the requests that can be in progress at the same time
  Requests   \* the requests that are made

VARIABLES
  users, allowInvites, status, member,  \* the committed tables, as in Channels
  messages,  \* the committed rows of the table messages
  pc,        \* the statement each process is about to execute
  req,       \* the request it serves
  todo,      \* the users it still has to check (create) or to notify
  rowLock,   \* who has written to a row of channel_members, uncommitted
  userLock,  \* who has written to a row of users, uncommitted
  messageLock,  \* whose cascade has reached a row of messages, uncommitted
  stale      \* auxiliary: another request has committed a change to the tables
             \* this one depends on, since it started

tables == <<users, allowInvites, status, member>>
mail == <<messages, messageLock>>
vars == <<tables, pc, req, todo, rowLock, userLock, stale, mail>>

Serial == INSTANCE Channels WITH
            users <- users, allowInvites <- allowInvites, status <- status, member <- member

IsMember(c, u) == member[c][u] # NoRow

(* The requests of the chat service and user.delete. *)
CreateRequest   == [op : {"create"}, c : Channel, by : User, grants : Grants]
DeleteRequest   == [op : {"delete"}, c : Channel, by : User]
InviteRequest   == [op : {"invite"}, c : Channel, by : User, to : User]
UninviteRequest == [op : {"uninvite"}, c : Channel, by : User, to : User]
SetPermRequest  == [op : {"setPerm"}, c : Channel, by : User, to : User, perm : Perm]
DropUserRequest == [op : {"dropUser"}, by : Leaver]
Request ==
  CreateRequest \cup DeleteRequest \cup InviteRequest
    \cup UninviteRequest \cup SetPermRequest \cup DropUserRequest

ASSUME TxGrantsType == Grants \subseteq [User -> Membership]
ASSUME TxLeaverType == Leaver \subseteq User
ASSUME RequestsType == Requests \subseteq Request
ASSUME TxUserFinite == IsFiniteSet(User)
ASSUME MessageType == \A m \in Message : m.c \in Channel /\ m.by \in User

NoReq == [op |-> "none"]
Free == "Free"
ASSUME ProcNotFree == Free \notin Proc

Statement ==
  {"idle", "check", "exists", "issuer", "absent", "target", "count", "settings",
   "write", "cascade", "notify", "commit"}

TypeOK ==
  /\ Serial!TypeOK
  /\ pc \in [Proc -> Statement]
  /\ req \in [Proc -> Request \cup {NoReq}]
  /\ \A p \in Proc : pc[p] = "idle" <=> req[p] = NoReq
  /\ todo \in [Proc -> SUBSET User]
  /\ rowLock \in [Channel -> [User -> Proc \cup {Free}]]
  /\ userLock \in [User -> Proc \cup {Free}]
  /\ messages \subseteq Message
  /\ messageLock \in [Message -> Proc \cup {Free}]
  /\ stale \in [Proc -> BOOLEAN]

Running(p, op) == pc[p] # "idle" /\ req[p].op = op

-----------------------------------------------------------------------------
Init ==
  /\ Serial!Init
  /\ pc = [p \in Proc |-> "idle"]
  /\ req = [p \in Proc |-> NoReq]
  /\ todo = [p \in Proc |-> {}]
  /\ rowLock = [c \in Channel |-> [u \in User |-> Free]]
  /\ userLock = [u \in User |-> Free]
  /\ messages = {}
  /\ messageLock = [m \in Message |-> Free]
  /\ stale = [p \in Proc |-> FALSE]

(* A mutant of Finish: a connection given back with its transaction open.  *)
MutFinishKeepsUserLock(p) ==
  /\ pc' = [pc EXCEPT ![p] = "idle"]
  /\ req' = [req EXCEPT ![p] = NoReq]
  /\ todo' = [todo EXCEPT ![p] = {}]
  /\ rowLock' = [c \in Channel |->
                  [u \in User |-> IF rowLock[c][u] = p THEN Free ELSE rowLock[c][u]]]
  /\ messageLock' = [m \in Message |-> IF messageLock[m] = p THEN Free ELSE messageLock[m]]
  /\ UNCHANGED userLock

(* A mutant of Finish: the request is not forgotten.  *)
MutFinishKeepsRequest(p) ==
  /\ pc' = [pc EXCEPT ![p] = "idle"]
  /\ UNCHANGED <<req, todo, rowLock, userLock, messageLock>>

(* The end of a request, committed or not: its locks are gone. *)
Finish(p) ==
  /\ pc' = [pc EXCEPT ![p] = "idle"]
  /\ req' = [req EXCEPT ![p] = NoReq]
  /\ todo' = [todo EXCEPT ![p] = {}]
  /\ rowLock' = [c \in Channel |->
                  [u \in User |-> IF rowLock[c][u] = p THEN Free ELSE rowLock[c][u]]]
  /\ userLock' = [u \in User |-> IF userLock[u] = p THEN Free ELSE userLock[u]]
  /\ messageLock' = [m \in Message |-> IF messageLock[m] = p THEN Free ELSE messageLock[m]]

Rollback(p) ==
  /\ Finish(p)
  /\ stale' = [stale EXCEPT ![p] = FALSE]
  /\ UNCHANGED <<tables, messages>>

(* A statement that only reads: with the right answer the handler goes on  *)
(* to the next one, otherwise it returns an error.                         *)
Read(p, at, ok, next) ==
  /\ pc[p] = at
  /\ \/ /\ ok
        /\ pc' = [pc EXCEPT ![p] = next]
        /\ UNCHANGED <<tables, req, todo, rowLock, userLock, stale, mail>>
     \/ ~ok /\ Rollback(p)

(* The commit of p leaves these requests with answers that may be untrue. *)
Outdated(p) ==
  {q \in Proc \ {p} :
     /\ pc[q] # "idle"
     /\ \/ req[p].op = "dropUser"
        \/ req[q].op # "dropUser" /\ req[q].c = req[p].c}

Commit(p) ==
  /\ Finish(p)
  /\ stale' = [q \in Proc |-> q # p /\ (stale[q] \/ q \in Outdated(p))]

-----------------------------------------------------------------------------
(* Two statements that are transactions of their own: user::create and     *)
(* user::update.  Both wait for an uncommitted write to the row.           *)
Register(u, open) ==
  /\ userLock[u] = Free
  /\ Serial!Register(u, open)
  /\ UNCHANGED <<pc, req, todo, rowLock, userLock, stale, mail>>

ChangeSettings(u, open) ==
  /\ userLock[u] = Free
  /\ Serial!ChangeSettings(u, open)
  /\ stale' = [p \in Proc |-> stale[p] \/ pc[p] # "idle"]
  /\ UNCHANGED <<pc, req, todo, rowLock, userLock, mail>>

(* A user or a channel that is being deleted makes an insert that          *)
(* references it wait; such an insert, uncommitted, keeps the deletion     *)
(* waiting.                                                                *)
MutBeingDeletedBy(u, q) == FALSE \* a mutant: no foreign key to users

BeingDeletedBy(u, q) == userLock[u] = q /\ Running(q, "dropUser")
BeingDeleted(u) == \E q \in Proc : BeingDeletedBy(u, q)
Referencing(u, q) ==
  /\ \E c \in Channel : rowLock[c][u] = q
  /\ Running(q, "invite") \/ Running(q, "create")

ChannelDeletedBy(c, q) == Running(q, "delete") /\ pc[q] = "cascade" /\ req[q].c = c
ChannelDeleted(c) == \E q \in Proc : ChannelDeletedBy(c, q)
Extending(c, q) == Running(q, "invite") /\ \E u \in User : rowLock[c][u] = q

(* A message is sent, or deleted.  Of the transaction of chat::send, which *)
(* is in Notifications, only the row counts here; the permission it needs  *)
(* was read by an earlier statement, the foreign keys are what is left.    *)
Send(m) ==
  /\ m \notin messages
  /\ status[m.c] = "live" /\ ~ChannelDeleted(m.c)
  /\ m.by \in users /\ ~BeingDeleted(m.by)
  /\ messages' = messages \cup {m}
  /\ UNCHANGED <<tables, pc, req, todo, rowLock, userLock, stale, messageLock>>

DeleteMessage(m) ==
  /\ m \in messages
  /\ messageLock[m] = Free
  /\ messages' = messages \ {m}
  /\ UNCHANGED <<tables, pc, req, todo, rowLock, userLock, stale, messageLock>>

(* A request arrives.  The id of a new channel comes from the id factory:  *)
(* no other request has it.  The service checks the members it is given.   *)
Submit(p, r) ==
  /\ pc[p] = "idle"
  /\ r.op = "create" =>
       /\ status[r.c] = "unused"
       /\ ~\E q \in Proc : Running(q, "create") /\ req[q].c = r.c
  /\ pc' = [pc EXCEPT ![p] = CASE r.op = "create" -> "check"
                               [] r.op = "dropUser" -> "write"
                               [] OTHER -> "exists"]
  /\ req' = [req EXCEPT ![p] = r]
  /\ todo' = [todo EXCEPT ![p] = IF r.op = "create"
                                 THEN {u \in User : r.grants[u] # NoRow} ELSE {}]
  /\ UNCHANGED <<tables, rowLock, userLock, stale, mail>>

-----------------------------------------------------------------------------
Holds(p, c, u) == rowLock[c][u] = p
HeldByOther(p, c, u) == rowLock[c][u] \notin {p, Free}

(* push_notifications, for each of the users left to notify: it reads the  *)
(* user's notifications and writes them back, and the row stays locked.    *)
Notify(p) ==
  /\ pc[p] = "notify"
  /\ \/ /\ todo[p] = {}
        /\ pc' = [pc EXCEPT ![p] = "commit"]
        /\ UNCHANGED <<tables, req, todo, rowLock, userLock, stale, mail>>
     \/ \E u \in todo[p] :
          /\ u \in users
          /\ userLock[u] \in {p, Free}
          /\ userLock' = [userLock EXCEPT ![u] = p]
          /\ todo' = [todo EXCEPT ![p] = @ \ {u}]
          /\ UNCHANGED <<tables, pc, req, rowLock, stale, mail>>
     \/ \E u \in todo[p] : u \notin users /\ Rollback(p)

(* What a transaction has written to the row of u. *)
Written(r, u) ==
  CASE r.op = "create" -> IF u = r.by THEN Manager ELSE r.grants[u]
    [] r.op = "invite" -> ReadWrite
    [] r.op = "uninvite" -> NoRow
    [] r.op = "setPerm" -> r.perm

(* COMMIT: the rows p has written become visible to everyone at once. *)
CommitRows(p) ==
  /\ pc[p] = "commit"
  /\ member' = [c \in Channel |->
                 [u \in User |-> IF Holds(p, c, u) THEN Written(req[p], u)
                                 ELSE member[c][u]]]
  /\ status' = IF req[p].op = "create" THEN [status EXCEPT ![req[p].c] = "live"]
               ELSE status
  /\ UNCHANGED <<users, allowInvites, messages>>
  /\ Commit(p)

(* A mutant of WriteRow: the issuer is notified too.  *)
MutWriteRowNotifyBoth(p, next, recipients) ==
  LET c == req[p].c
      u == req[p].to
  IN /\ pc[p] = "write"
     /\ IsMember(c, u) => ~HeldByOther(p, c, u)
     /\ rowLock' = IF IsMember(c, u) THEN [rowLock EXCEPT ![c][u] = p] ELSE rowLock
     /\ pc' = [pc EXCEPT ![p] = next]
     /\ todo' = [todo EXCEPT ![p] = recipients \cup {req[p].by}]
     /\ UNCHANGED <<tables, req, userLock, stale, mail>>

(* A write to the row of the target, which waits for whoever has written   *)
(* to it; an UPDATE or DELETE of a row that is gone by now, or that is not *)
(* committed yet, changes nothing and is no error.                         *)
WriteRow(p, next, recipients) ==
  LET c == req[p].c
      u == req[p].to
  IN /\ pc[p] = "write"
     /\ IsMember(c, u) => ~HeldByOther(p, c, u)
     /\ rowLock' = IF IsMember(c, u) THEN [rowLock EXCEPT ![c][u] = p] ELSE rowLock
     /\ pc' = [pc EXCEPT ![p] = next]
     /\ todo' = [todo EXCEPT ![p] = recipients]
     /\ UNCHANGED <<tables, req, userLock, stale, mail>>

-----------------------------------------------------------------------------
(* get_channel_member_perm, asked of the issuer who has to be a manager. *)
MutMayManage(c, by) == IsMember(c, by) \* a mutant: any member may

MayManage(c, by) == member[c][by] = Manager

(* create_channel, with the checks the service makes before it. *)
CheckMember(p) ==
  /\ pc[p] = "check"
  /\ \/ /\ todo[p] = {}
        /\ pc' = [pc EXCEPT ![p] = "write"]
        /\ UNCHANGED <<tables, req, todo, rowLock, userLock, stale, mail>>
     \/ \E u \in todo[p] :
          /\ u \in allowInvites
          /\ todo' = [todo EXCEPT ![p] = @ \ {u}]
          /\ UNCHANGED <<tables, pc, req, rowLock, userLock, stale, mail>>
     \/ \E u \in todo[p] : u \notin allowInvites /\ Rollback(p)

InsertChannel(p) ==
  LET r == req[p]
      rows == Serial!Invited(r.grants, r.by) \cup {r.by}
  IN /\ pc[p] = "write"
     /\ ~\E u \in rows : BeingDeleted(u)
     /\ \/ /\ rows \subseteq users
           /\ rowLock' = [rowLock EXCEPT ![r.c] =
                [u \in User |-> IF u \in rows THEN p ELSE rowLock[r.c][u]]]
           /\ pc' = [pc EXCEPT ![p] = "notify"]
           /\ todo' = [todo EXCEPT ![p] = rows \ {r.by}]
           /\ UNCHANGED <<tables, req, userLock, stale, mail>>
        \/ ~(rows \subseteq users) /\ Rollback(p)

CreateChannel(p) == Running(p, "create") /\ (CheckMember(p) \/ InsertChannel(p))

(* ON DELETE CASCADE, once the row of the user or of the channel is        *)
(* locked: the committed rows that reference it are locked one by one, in  *)
(* an order that is the database's, each as soon as nobody else holds it.  *)
Doomed(r, c, u) == IF r.op = "delete" THEN c = r.c ELSE u = r.by

Cascade(p) ==
  /\ pc[p] = "cascade"
  /\ \/ \E c \in Channel, u \in User :
          /\ Doomed(req[p], c, u) /\ IsMember(c, u)
          /\ rowLock[c][u] = Free
          /\ rowLock' = [rowLock EXCEPT ![c][u] = p]
          /\ UNCHANGED <<tables, pc, req, todo, userLock, stale, mail>>
     \/ \E m \in messages :
          /\ Doomed(req[p], m.c, m.by)
          /\ messageLock[m] = Free
          /\ messageLock' = [messageLock EXCEPT ![m] = p]
          /\ UNCHANGED <<tables, pc, req, todo, rowLock, userLock, stale, messages>>

(* The last row is locked, and the statement is over.                      *)
Cascaded(p) ==
  /\ pc[p] = "cascade"
  /\ \A c \in Channel, u \in User :
       Doomed(req[p], c, u) /\ IsMember(c, u) => Holds(p, c, u)
  /\ \A m \in messages : Doomed(req[p], m.c, m.by) => messageLock[m] = p
  /\ messages' = {m \in messages : ~Doomed(req[p], m.c, m.by)}

(* delete_channel is no transaction: its last statement commits by itself. *)
DeleteChannel(p) ==
  LET c == req[p].c
  IN /\ Running(p, "delete")
     /\ \/ Read(p, "exists", status[c] = "live", "issuer")
        \/ Read(p, "issuer", MayManage(c, req[p].by), "write")
        \/ /\ pc[p] = "write"
           /\ ~\E q \in Proc : ChannelDeletedBy(c, q) \/ Extending(c, q)
           /\ \/ /\ status[c] = "live"
                 /\ pc' = [pc EXCEPT ![p] = "cascade"]
                 /\ UNCHANGED <<tables, req, todo, rowLock, userLock, stale, mail>>
              \/ status[c] # "live" /\ Rollback(p)
        \/ Cascade(p)
        \/ /\ Cascaded(p)
           /\ status' = [status EXCEPT ![c] = "deleted"]
           /\ member' = [member EXCEPT ![c] = [u \in User |-> NoRow]]
           /\ UNCHANGED <<users, allowInvites>>
           /\ Commit(p)

Invite(p) ==
  LET c == req[p].c
      to == req[p].to
  IN /\ Running(p, "invite")
     /\ \/ Read(p, "exists", status[c] = "live", "issuer")
        \/ Read(p, "issuer", MayManage(c, req[p].by), "absent")
        \/ Read(p, "absent", ~IsMember(c, to), "settings")
        \/ Read(p, "settings", to \in users, "write")
        \/ /\ pc[p] = "write"
           /\ ~HeldByOther(p, c, to)
           /\ ~BeingDeleted(to) /\ ~ChannelDeleted(c)
           /\ \/ /\ ~IsMember(c, to) /\ status[c] = "live" /\ to \in users
                 /\ rowLock' = [rowLock EXCEPT ![c][to] = p]
                 /\ pc' = [pc EXCEPT ![p] = "notify"]
                 /\ todo' = [todo EXCEPT ![p] = {to}]
                 /\ UNCHANGED <<tables, req, userLock, stale, mail>>
              \/ ~(~IsMember(c, to) /\ status[c] = "live" /\ to \in users) /\ Rollback(p)

(* The count that protects the only manager: a statement of its own, on    *)
(* what is committed when it runs.                                         *)
CountManagers(p) == Read(p, "count", Serial!NotOnlyManager(req[p].c), "write")

Uninvite(p) ==
  LET c == req[p].c
      by == req[p].by
      to == req[p].to
  IN /\ Running(p, "uninvite")
     /\ \/ Read(p, "exists", status[c] = "live", "issuer")
        \/ Read(p, "issuer",
             IsMember(c, by) /\ (by # to => MayManage(c, by)), "target")
        \/ Read(p, "target",
             IsMember(c, to) /\ (by # to => member[c][to] # Manager),
             IF member[c][to] = Manager THEN "count" ELSE "write")
        \/ CountManagers(p)
        \/ WriteRow(p, "settings", {to})
        \/ Read(p, "settings", to \in users, "notify")

SetPerm(p) ==
  LET c == req[p].c
      by == req[p].by
      to == req[p].to
  IN /\ Running(p, "setPerm")
     /\ \/ Read(p, "exists", status[c] = "live", "issuer")
        \/ Read(p, "issuer", MayManage(c, by), "target")
        \/ Read(p, "target",
             IsMember(c, to) /\ (by # to => member[c][to] # Manager),
             IF member[c][to] = Manager /\ req[p].perm # Manager
             THEN "count" ELSE "write")
        \/ CountManagers(p)
        \/ WriteRow(p, "commit", {})

(* user::delete: one statement, which locks the row of the user and then   *)
(* those of the memberships and the messages.                              *)
DropUser(p) ==
  LET u == req[p].by
  IN /\ Running(p, "dropUser")
     /\ \/ /\ pc[p] = "write"
           /\ userLock[u] = Free
           /\ ~\E q \in Proc : Referencing(u, q)
           /\ \/ /\ u \in users
                 /\ userLock' = [userLock EXCEPT ![u] = p]
                 /\ pc' = [pc EXCEPT ![p] = "cascade"]
                 /\ UNCHANGED <<tables, req, todo, rowLock, stale, mail>>
              \/ u \notin users /\ Rollback(p)
        \/ Cascade(p)
        \/ /\ Cascaded(p)
           /\ Serial!DeleteUser(u)
           /\ Commit(p)

(* A lost connection, a failed publication, a deadlock the database breaks *)
(* by aborting one of the transactions: anything may end a request early.  *)
Fail(p) == pc[p] # "idle" /\ Rollback(p)

Step(p) ==
  \/ CreateChannel(p) \/ DeleteChannel(p) \/ Invite(p) \/ Uninvite(p) \/ SetPerm(p)
  \/ DropUser(p) \/ Notify(p) \/ CommitRows(p)

Next ==
  \/ \E u \in User, open \in BOOLEAN : Register(u, open)
  \/ \E u \in User, open \in BOOLEAN : ChangeSettings(u, open)
  \/ \E m \in Message : Send(m)
  \/ \E m \in Message : DeleteMessage(m)
  \/ \E p \in Proc, r \in Requests : Submit(p, r)
  \/ \E p \in Proc : CreateChannel(p)
  \/ \E p \in Proc : DeleteChannel(p)
  \/ \E p \in Proc : Invite(p)
  \/ \E p \in Proc : Uninvite(p)
  \/ \E p \in Proc : SetPerm(p)
  \/ \E p \in Proc : DropUser(p)
  \/ \E p \in Proc : Notify(p)
  \/ \E p \in Proc : CommitRows(p)
  \/ \E p \in Proc : Fail(p)

Spec == Init /\ [][Next]_vars

-----------------------------------------------------------------------------
(* Who p is waiting for: the processes that hold what its next statement   *)
(* needs.  The order in which users are notified is that of an unordered   *)
(* query, and that of a cascade the database's: p may be waiting for any   *)
(* of those it still has to notify, and for any row it still has to lock.  *)
WaitsFor(p) ==
  {q \in Proc \ {p} :
     \/ /\ pc[p] = "write"
        /\ \/ /\ req[p].op \in {"uninvite", "setPerm"}
              /\ IsMember(req[p].c, req[p].to) /\ Holds(q, req[p].c, req[p].to)
           \/ /\ Running(p, "invite")
              /\ \/ Holds(q, req[p].c, req[p].to)
                 \/ BeingDeletedBy(req[p].to, q)
                 \/ ChannelDeletedBy(req[p].c, q)
           \/ /\ Running(p, "delete")
              /\ ChannelDeletedBy(req[p].c, q) \/ Extending(req[p].c, q)
           \/ /\ Running(p, "create")
              /\ \E u \in Serial!Invited(req[p].grants, req[p].by) \cup {req[p].by} :
                   BeingDeletedBy(u, q)
           \/ /\ Running(p, "dropUser")
              /\ userLock[req[p].by] = q \/ Referencing(req[p].by, q)
     \/ pc[p] = "notify" /\ \E u \in todo[p] : userLock[u] = q
     \/ /\ pc[p] = "cascade"
        /\ \/ \E c \in Channel, u \in User :
                Doomed(req[p], c, u) /\ IsMember(c, u) /\ Holds(q, c, u)
           \/ \E m \in messages : Doomed(req[p], m.c, m.by) /\ messageLock[m] = q}

(* Everyone in S waits for someone in S. *)
DeadlockedSet(S) == S # {} /\ \A p \in S : WaitsFor(p) \cap S # {}
Deadlocked(p) == \E S \in SUBSET Proc : p \in S /\ DeadlockedSet(S)

(* A request goes on when it can: the database queues the waiters of a     *)
(* lock, so none of them is passed over for ever, and it breaks a deadlock *)
(* by failing one of the requests in it.                                   *)
Fairness ==
  \A p \in Proc : SF_vars(Step(p)) /\ WF_vars(Deadlocked(p) /\ Fail(p))

FairSpec == Spec /\ Fairness

-----------------------------------------------------------------------------
(* No membership and no message without its channel and its user, also     *)
(* while users and channels are deleted under the requests that insert     *)
(* such rows (the foreign keys of migrations/, taken by chat.rs:51,        *)
(* chat.rs:173 and chat.rs:425).                                           *)
ReferentialIntegrity ==
  /\ Serial!ReferentialIntegrity
  /\ \A m \in messages : status[m.c] = "live" /\ m.by \in users

(* What a request asks for, as the one step of its handler in Channels.    *)
Handler(r) ==
  CASE r.op = "create" -> Serial!CreateChannel(r.c, r.by, r.grants)
    [] r.op = "delete" -> Serial!DeleteChannel(r.c, r.by)
    [] r.op = "invite" -> Serial!Invite(r.c, r.by, r.to)
    [] r.op = "uninvite" -> Serial!Uninvite(r.c, r.by, r.to)
    [] r.op = "setPerm" -> Serial!SetPerm(r.c, r.by, r.to, r.perm)
    [] r.op = "dropUser" -> Serial!DeleteUser(r.by)

(* A request during which no other request changed the tables it depends   *)
(* on does exactly what its own handler does when it runs alone, for its   *)
(* own issuer, target and permission, or nothing: every anomaly of these   *)
(* handlers needs another commit between their reads and their commit.     *)
IsolatedCommitsAreSerial ==
  [][\A p \in Proc :
       pc[p] # "idle" /\ pc'[p] = "idle" /\ ~stale[p] =>
         Handler(req[p]) \/ UNCHANGED tables]_vars

(* Once a channel has no manager and no request that has passed its        *)
(* manager check is about to make one, no one ever becomes a manager.      *)
Promoting(c) ==
  \E p \in Proc : /\ Running(p, "setPerm") /\ req[p].c = c /\ req[p].perm = Manager
                 /\ pc[p] \notin {"exists", "issuer"}

OrphanStaysOrphan ==
  [][\A c \in Channel :
       Serial!Orphan(c) /\ ~Promoting(c) =>
         ~Serial!HasManager(c)' /\ ~Promoting(c)']_vars

(* Every deadlock of these requests has in it two that create channels and *)
(* notify the same users in different orders (chat.rs:71-89), or the       *)
(* deletion of an account whose cascade waits: for a request that removes  *)
(* this very user from a channel (chat.rs:257-289), or for the cascade of  *)
(* the deletion of a channel (chat.rs:114), with which it shares rows.     *)
(* Without these, requests never block each other for good: no invitation, *)
(* promotion, demotion or removal deadlocks with another one.  Messages    *)
(* count here by their rows alone; what deadlocks their transactions have  *)
(* among themselves, Notifications says.                                   *)
DeadlockShape ==
  \A S \in SUBSET Proc :
    DeadlockedSet(S) =>
      \E p, q \in S :
        \/ p # q /\ Running(p, "create") /\ Running(q, "create")
        \/ /\ Running(p, "dropUser") /\ q \in WaitsFor(p)
           /\ \/ Running(q, "uninvite") /\ req[q].to = req[p].by
              \/ Running(q, "delete")

(* Every request ends, with a result or with an error: none waits for a    *)
(* lock for ever.                                                          *)
EveryRequestEnds == \A p \in Proc : pc[p] # "idle" ~> pc[p] = "idle"

(* With one request at a time the handlers implement Channels. *)
SerialSpec == Serial!Spec

(* What the handlers promise with "The only channel manager cannot leave   *)
(* the channel" (chat.rs:252) and "Cannot remove the only manager from a   *)
(* channel" (chat.rs:339).  READ COMMITTED does not give it: two managers  *)
(* who both count two and both go leave the channel without one.           *)
EveryChannelManaged == Serial!EveryChannelManaged
=============================================================================
