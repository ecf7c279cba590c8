-------------------------- MODULE ChannelTx_proofs --------------------------
(***************************************************************************)
(* What ChannelTx guarantees for every number of requests in progress,     *)
(* users and channels.  The invariant says who holds the lock of a row and *)
(* what that keeps the others from doing; the last part adds what a        *)
(* request has read and may rely on until another commit overtakes it.     *)
(***************************************************************************)
EXTENDS ChannelTx, TLAPS

-----------------------------------------------------------------------------
Rows(r) == Serial!Invited(r.grants, r.by) \cup {r.by}
Writers == {"create", "invite", "uninvite", "setPerm"}

(* Whoever has written to a row of channel_members is in the second half   *)
(* of its transaction, or in the cascade of a deletion; what it writes it  *)
(* may write, since the deletions of the channel and of the user wait.     *)
RowHolder(p, c, u) ==
  /\ \/ pc[p] \in {"notify", "commit"} /\ req[p].op \in Writers
     \/ pc[p] = "settings" /\ req[p].op = "uninvite"
     \/ pc[p] = "cascade" /\ req[p].op \in {"delete", "dropUser"}
  /\ req[p].op \in Writers => req[p].c = c
  /\ req[p].op \in {"invite", "uninvite", "setPerm"} => req[p].to = u
  /\ req[p].op \in {"delete", "dropUser"} => Doomed(req[p], c, u)
  /\ req[p].op # "create" => status[c] = "live"
  /\ req[p].op \in {"create", "invite"} => u \in users
  /\ req[p].op \in {"uninvite", "setPerm", "delete", "dropUser"} => IsMember(c, u)

RowsHeld ==
  \A c \in Channel, u \in User, p \in Proc : rowLock[c][u] = p => RowHolder(p, c, u)

(* Locks on rows of users: notifiers have them, and the deletions of       *)
(* accounts; such an account is referenced by nothing uncommitted.         *)
UsersHeld ==
  \A u \in User, p \in Proc :
    userLock[u] = p =>
      /\ \/ pc[p] \in {"notify", "commit"}
         \/ pc[p] = "cascade" /\ req[p].op = "dropUser"
      /\ req[p].op = "dropUser" => \A q \in Proc : ~Referencing(u, q)

(* The deletions of accounts and channels, and only they, cascade; that of *)
(* an account has the user's row.                                          *)
Deleting ==
  \A p \in Proc :
    /\ pc[p] = "cascade" => req[p].op \in {"delete", "dropUser"}
    /\ Running(p, "delete") => pc[p] \in {"exists", "issuer", "write", "cascade"}
    /\ Running(p, "dropUser") =>
         /\ pc[p] \in {"write", "cascade"}
         /\ pc[p] = "cascade" => userLock[req[p].by] = p

(* A channel that is being deleted is there, nobody else deletes it, and   *)
(* nothing uncommitted references it.                                      *)
Emptying ==
  \A p \in Proc :
    Running(p, "delete") /\ pc[p] = "cascade" =>
      /\ status[req[p].c] = "live"
      /\ \A q \in Proc :
           ~Extending(req[p].c, q) /\ (ChannelDeletedBy(req[p].c, q) => q = p)

(* The id of a channel that is being created belongs to one request. *)
Creating ==
  \A p \in Proc :
    Running(p, "create") =>
      /\ status[req[p].c] = "unused"
      /\ \A q \in Proc : Running(q, "create") /\ req[q].c = req[p].c => q = p


-----------------------------------------------------------------------------
(* The words of Channels are the words of ChannelTx. *)
LEMMA SerialWords ==
  /\ Serial!NoRow = NoRow /\ Serial!Manager = Manager /\ Serial!ReadWrite = ReadWrite
  /\ Serial!Perm = Perm /\ Serial!Membership = Membership
  /\ NoRow \notin Perm /\ {Manager, ReadWrite} \subseteq Perm
BY DEF Serial!NoRow, Serial!Manager, Serial!ReadWrite, Serial!ReadOnly, Serial!Perm,
       Serial!Membership, NoRow, Manager, ReadWrite, ReadOnly, Perm, Membership

(* The tables, in those words. *)
Tables ==
  /\ users \subseteq User
  /\ allowInvites \subseteq users
  /\ status \in [Channel -> {"unused", "live", "deleted"}]
  /\ member \in [Channel -> [User -> Membership]]

LEMMA SerialTypes == (Serial!TypeOK <=> Tables) /\ (Serial!TypeOK <=> Tables)'
BY SerialWords DEF Serial!TypeOK, Tables

NoDangling ==
  \A c \in Channel, u \in User : IsMember(c, u) => status[c] = "live" /\ u \in users

LEMMA SerialIntegrity ==
  /\ (Serial!ReferentialIntegrity <=> NoDangling)
  /\ (Serial!ReferentialIntegrity <=> NoDangling)'
BY SerialWords DEF NoDangling, Serial!ReferentialIntegrity, Serial!IsMember, IsMember

(* The invariant of everything but the messages. *)
Types ==
  /\ Tables
  /\ pc \in [Proc -> Statement]
  /\ req \in [Proc -> Request \cup {NoReq}]
  /\ \A p \in Proc : pc[p] = "idle" <=> req[p] = NoReq
  /\ todo \in [Proc -> SUBSET User]
  /\ rowLock \in [Channel -> [User -> Proc \cup {Free}]]
  /\ userLock \in [User -> Proc \cup {Free}]
  /\ stale \in [Proc -> BOOLEAN]

IInv ==
  Types /\ NoDangling /\ RowsHeld /\ UsersHeld /\ Deleting /\ Emptying /\ Creating

-----------------------------------------------------------------------------
(* A running request is one of the requests, and has the fields of its kind. *)
LEMMA RequestFields ==
  ASSUME NEW r \in Request
  PROVE  /\ r # NoReq
         /\ r.op \in Writers \cup {"delete", "dropUser"}
         /\ r.by \in User
         /\ r.op # "dropUser" => r.c \in Channel
         /\ r.op = "create" => r.grants \in [User -> Membership]
         /\ r.op \in {"invite", "uninvite", "setPerm"} => r.to \in User
         /\ r.op = "setPerm" => r.perm \in Perm
BY TxGrantsType, TxLeaverType
   DEF Request, CreateRequest, DeleteRequest, InviteRequest, UninviteRequest,
       SetPermRequest, DropUserRequest, NoReq, Writers

LEMMA InitIInv == Init => IInv
<1> SUFFICES ASSUME Init PROVE IInv
  OBVIOUS
<1>1. /\ users = {} /\ allowInvites = {} /\ status = [c \in Channel |-> "unused"]
      /\ member = [c \in Channel |-> [u \in User |-> NoRow]]
  BY SerialWords DEF Init, Serial!Init
<1>2. Types
  <2>1. Tables
    BY <1>1 DEF Tables, Membership
  <2>2. QED
    BY <2>1 DEF Init, Types, Statement
<1>3. NoDangling
  BY <1>1 DEF IsMember, NoDangling
<1>4. RowsHeld /\ UsersHeld /\ Deleting /\ Emptying /\ Creating
  BY ProcNotFree DEF Init, RowsHeld, UsersHeld, Deleting, Emptying, Creating, Running
<1>5. QED
  BY <1>2, <1>3, <1>4 DEF IInv

-----------------------------------------------------------------------------
(* The parts of the invariant after a step. *)
LEMMA Together ==
  ASSUME Tables', NoDangling', RowsHeld', UsersHeld', Deleting', Emptying', Creating',
         pc' \in [Proc -> Statement],
         req' \in [Proc -> Request \cup {NoReq}],
         \A p \in Proc : pc'[p] = "idle" <=> req'[p] = NoReq,
         todo' \in [Proc -> SUBSET User],
         rowLock' \in [Channel -> [User -> Proc \cup {Free}]],
         userLock' \in [User -> Proc \cup {Free}],
         stale' \in [Proc -> BOOLEAN]
  PROVE  IInv'
BY DEF IInv, Types

(* The parts of the invariant before it. *)
LEMMA Parts ==
  ASSUME IInv
  PROVE  /\ Tables /\ NoDangling
         /\ RowsHeld /\ UsersHeld /\ Deleting /\ Emptying /\ Creating
         /\ pc \in [Proc -> Statement]
         /\ req \in [Proc -> Request \cup {NoReq}]
         /\ \A p \in Proc : pc[p] = "idle" <=> req[p] = NoReq
         /\ todo \in [Proc -> SUBSET User]
         /\ rowLock \in [Channel -> [User -> Proc \cup {Free}]]
         /\ userLock \in [User -> Proc \cup {Free}]
         /\ stale \in [Proc -> BOOLEAN]
BY DEF IInv, Types

(* What a running request is, in a state of the invariant. *)
LEMMA Serving ==
  ASSUME IInv, NEW p \in Proc, pc[p] # "idle"
  PROVE  req[p] \in Request
BY DEF IInv, Types

(* A request that goes on without writing, or after having written.        *)
LEMMA AdvanceKeeps ==
  ASSUME IInv, NEW p \in Proc, NEW next \in Statement \ {"idle", "cascade"}, pc[p] # "idle",
         Running(p, "delete") => next \in {"issuer", "write"},
         \/ pc[p] \in {"check", "exists", "issuer", "absent", "target", "count"}
         \/ pc[p] = "settings" /\ Running(p, "invite")
         \/ next \in {"notify", "commit"},
         ~Running(p, "dropUser"),
         pc' = [pc EXCEPT ![p] = next], todo' \in [Proc -> SUBSET User],
         UNCHANGED <<tables, req, rowLock, userLock, stale>>
  PROVE  IInv'
<1> USE Parts
<1>0. UNCHANGED <<users, allowInvites, status, member, req, rowLock, userLock, stale>>
  BY DEF tables
<1>1. Tables' /\ NoDangling'
  BY <1>0 DEF Tables, NoDangling, IsMember
<1>2. pc' \in [Proc -> Statement] /\ \A q \in Proc : pc'[q] = "idle" <=> req'[q] = NoReq
  BY <1>0
<1>3. \A q \in Proc : \A op : Running(q, op) <=> Running(q, op)'
  BY <1>0 DEF Running
<1>4. RowsHeld'
  <2> SUFFICES ASSUME NEW c \in Channel, NEW u \in User, NEW q \in Proc, rowLock[c][u] = q
               PROVE  RowHolder(q, c, u)'
    BY <1>0 DEF RowsHeld
  <2>1. RowHolder(q, c, u)
    BY DEF RowsHeld
  <2>2. CASE q = p
    <3>1. next \in {"notify", "commit"} /\ req[p].op \in Writers
      BY <2>1, <2>2 DEF RowHolder, Running, Writers
    <3>2. pc'[p] = next
      OBVIOUS
    <3>3. QED
      BY <1>0, <2>1, <2>2, <3>1, <3>2 DEF RowHolder, IsMember, Writers
  <2>3. CASE q # p
    BY <1>0, <2>1, <2>3 DEF RowHolder, IsMember
  <2>4. QED
    BY <2>2, <2>3
<1>5. UsersHeld'
  <2>1. \A u \in User, q \in Proc : Referencing(u, q) <=> Referencing(u, q)'
    BY <1>0, <1>3 DEF Referencing
  <2>2. \A u \in User : userLock[u] = p => next \in {"notify", "commit"}
    BY DEF UsersHeld
  <2>3. QED
    BY <1>0, <2>1, <2>2 DEF UsersHeld
<1>6. Deleting'
  <2>1. \A q \in Proc \ {p} : pc'[q] = pc[q]
    OBVIOUS
  <2>2. pc'[p] = next /\ next # "cascade"
    OBVIOUS
  <2>3. QED
    BY <1>0, <1>3, <2>1, <2>2 DEF Deleting, Running
<1>7. Emptying'
  <2>1. \A q \in Proc : pc'[q] = "cascade" => pc[q] = "cascade"
    OBVIOUS
  <2>2. \A c \in Channel, q \in Proc : Extending(c, q) <=> Extending(c, q)'
    BY <1>0, <1>3 DEF Extending
  <2>3. \A q \in Proc : Running(q, "delete") => req[q].c \in Channel
    BY Serving, RequestFields DEF Running
  <2>4. QED
    BY <1>0, <1>3, <2>1, <2>2, <2>3 DEF Emptying, ChannelDeletedBy
<1>8. Creating'
  BY <1>0, <1>3 DEF Creating
<1>9. QED
  BY <1>0, <1>1, <1>2, <1>4, <1>5, <1>6, <1>7, <1>8, Together

(* A request that ends, with or without a commit, as long as the commit    *)
(* respects what others have written.                                      *)
LEMMA FinishKeeps ==
  ASSUME IInv, NEW p \in Proc, Finish(p), stale' \in [Proc -> BOOLEAN],
         Tables', NoDangling',
         \A c \in Channel, u \in User :
           rowLock[c][u] \in Proc \ {p} =>
             /\ status[c] = "live" => status'[c] = "live"
             /\ u \in users => u \in users'
             /\ IsMember(c, u) => IsMember(c, u)',
         \A q \in Proc \ {p} :
           Running(q, "create") => status'[req[q].c] = "unused",
         \A q \in Proc \ {p} :
           Running(q, "delete") /\ pc[q] = "cascade" => status'[req[q].c] = "live"
  PROVE  IInv'
<1> USE Parts
<1>1. /\ pc' \in [Proc -> Statement]
      /\ req' \in [Proc -> Request \cup {NoReq}]
      /\ \A q \in Proc : pc'[q] = "idle" <=> req'[q] = NoReq
      /\ todo' \in [Proc -> SUBSET User]
      /\ rowLock' \in [Channel -> [User -> Proc \cup {Free}]]
      /\ userLock' \in [User -> Proc \cup {Free}]
  BY DEF Finish, Statement
<1>2. /\ pc'[p] = "idle" /\ req'[p] = NoReq
      /\ \A q \in Proc \ {p} : pc'[q] = pc[q] /\ req'[q] = req[q]
  BY DEF Finish
<1>3. /\ \A c \in Channel, u \in User :
           rowLock'[c][u] = IF rowLock[c][u] = p THEN Free ELSE rowLock[c][u]
      /\ \A u \in User : userLock'[u] = IF userLock[u] = p THEN Free ELSE userLock[u]
  BY DEF Finish
<1>4. RowsHeld'
  <2> SUFFICES ASSUME NEW c \in Channel, NEW u \in User, NEW q \in Proc, rowLock'[c][u] = q
               PROVE  RowHolder(q, c, u)'
    BY DEF RowsHeld
  <2>1. rowLock[c][u] = q /\ q # p
    BY <1>3, ProcNotFree
  <2>2. RowHolder(q, c, u)
    BY <2>1 DEF RowsHeld
  <2>3. QED
    BY <1>2, <2>1, <2>2 DEF RowHolder
<1>5. UsersHeld'
  <2> SUFFICES ASSUME NEW u \in User, NEW q \in Proc, userLock'[u] = q
               PROVE  /\ \/ pc'[q] \in {"notify", "commit"}
                         \/ pc'[q] = "cascade" /\ req'[q].op = "dropUser"
                      /\ req'[q].op = "dropUser" => \A r \in Proc : ~Referencing(u, r)'
    BY DEF UsersHeld
  <2>1. userLock[u] = q /\ q # p
    BY <1>3, ProcNotFree
  <2>2. \A r \in Proc : Referencing(u, r)' => Referencing(u, r)
    BY <1>2, <1>3, ProcNotFree DEF Referencing, Running
  <2>3. QED
    BY <1>2, <2>1, <2>2 DEF UsersHeld
<1>6. Deleting'
  <2>1. \A q \in Proc : \A op : Running(q, op)' => q # p /\ Running(q, op)
    BY <1>2 DEF Running
  <2>2. \A q \in Proc : Running(q, "dropUser") => req[q].by \in User
    BY Serving, RequestFields DEF Running
  <2>3. \A q \in Proc \ {p}, u \in User : userLock[u] = q => userLock'[u] = q
    BY <1>3
  <2>4. QED
    BY <1>2, <2>1, <2>2, <2>3 DEF Deleting
<1>7. Emptying'
  <2>1. \A q \in Proc : \A op : Running(q, op)' => q # p /\ Running(q, op)
    BY <1>2 DEF Running
  <2>2. \A c \in Channel, q \in Proc : Extending(c, q)' => Extending(c, q)
    BY <1>3, <2>1, ProcNotFree DEF Extending
  <2>3. \A q \in Proc : Running(q, "delete") => req[q].c \in Channel
    BY Serving, RequestFields DEF Running
  <2>4. QED
    BY <1>2, <2>1, <2>2, <2>3 DEF Emptying, ChannelDeletedBy
<1>8. Creating'
  <2>1. \A q \in Proc : Running(q, "create")' => q # p /\ Running(q, "create")
    BY <1>2 DEF Running
  <2>2. QED
    BY <1>2, <2>1 DEF Creating
<1>9. QED
  BY <1>1, <1>4, <1>5, <1>6, <1>7, <1>8, Together

LEMMA RollbackKeeps ==
  ASSUME IInv, NEW p \in Proc, Rollback(p)
  PROVE  IInv'
<1> USE Parts
<1>1. UNCHANGED <<users, allowInvites, status, member>>
  BY DEF Rollback, tables
<1>2. Tables' /\ NoDangling'
  BY <1>1 DEF Tables, NoDangling, IsMember
<1>3. \A q \in Proc :
        /\ Running(q, "create") => status'[req[q].c] = "unused"
        /\ Running(q, "delete") /\ pc[q] = "cascade" => status'[req[q].c] = "live"
  BY <1>1 DEF Creating, Emptying
<1>4. QED
  BY <1>1, <1>2, <1>3, FinishKeeps DEF Rollback, IsMember

-----------------------------------------------------------------------------
(* Steps outside the requests. *)
LEMMA RegisterKeeps ==
  ASSUME IInv, NEW u \in User, NEW open \in BOOLEAN, Register(u, open)
  PROVE  IInv'
<1> USE Parts
<1>1. /\ users' = users \cup {u}
      /\ allowInvites' = IF open THEN allowInvites \cup {u} ELSE allowInvites
      /\ UNCHANGED <<status, member, pc, req, todo, rowLock, userLock, stale>>
  BY DEF Register, Serial!Register
<1>2. Tables' /\ NoDangling'
  BY <1>1 DEF Tables, NoDangling, IsMember
<1>3. RowsHeld'
  BY <1>1 DEF RowsHeld, RowHolder, IsMember
<1>4. UsersHeld' /\ Deleting' /\ Emptying' /\ Creating'
  BY <1>1 DEF UsersHeld, Deleting, Emptying, Creating, Running, Referencing, Extending,
              ChannelDeletedBy
<1>5. QED
  BY <1>1, <1>2, <1>3, <1>4, Together

LEMMA ChangeSettingsKeeps ==
  ASSUME IInv, NEW u \in User, NEW open \in BOOLEAN, ChangeSettings(u, open)
  PROVE  IInv'
<1> USE Parts
<1>1. /\ u \in users
      /\ allowInvites' = IF open THEN allowInvites \cup {u} ELSE allowInvites \ {u}
      /\ UNCHANGED <<users, status, member, pc, req, todo, rowLock, userLock>>
      /\ stale' = [p \in Proc |-> stale[p] \/ pc[p] # "idle"]
  BY DEF ChangeSettings, Serial!ChangeSettings
<1>2. Tables' /\ NoDangling'
  BY <1>1 DEF Tables, NoDangling, IsMember
<1>3. RowsHeld'
  BY <1>1 DEF RowsHeld, RowHolder, IsMember
<1>4. UsersHeld' /\ Deleting' /\ Emptying' /\ Creating'
  BY <1>1 DEF UsersHeld, Deleting, Emptying, Creating, Running, Referencing, Extending,
              ChannelDeletedBy
<1>5. QED
  BY <1>1, <1>2, <1>3, <1>4, Together

LEMMA SubmitKeeps ==
  ASSUME IInv, NEW p \in Proc, NEW r \in Requests, Submit(p, r)
  PROVE  IInv'
<1> USE Parts
<1>0. r \in Request /\ r # NoReq
  BY RequestsType, RequestFields
<1>1. /\ UNCHANGED <<users, allowInvites, status, member, rowLock, userLock, stale>>
      /\ req' = [req EXCEPT ![p] = r] /\ todo' \in [Proc -> SUBSET User]
  BY DEF Submit, tables
<1>2. /\ pc[p] = "idle" /\ \A q \in Proc \ {p} : pc'[q] = pc[q] /\ req'[q] = req[q]
      /\ pc' \in [Proc -> Statement] /\ pc'[p] \in {"check", "write", "exists"}
      /\ req'[p] = r
      /\ r.op = "dropUser" => pc'[p] = "write"
  <2>1. \E at \in {"check", "write", "exists"} :
          /\ pc' = [pc EXCEPT ![p] = at]
          /\ r.op = "dropUser" => at = "write"
    <3>1. CASE r.op = "create"
      BY <3>1 DEF Submit
    <3>2. CASE r.op = "dropUser"
      BY <3>2 DEF Submit
    <3>3. CASE r.op # "create" /\ r.op # "dropUser"
      BY <3>3 DEF Submit
    <3>4. QED
      BY <3>1, <3>2, <3>3
  <2>2. QED
    BY <1>1, <2>1 DEF Submit, Statement
<1>3. Tables' /\ NoDangling'
  BY <1>1 DEF Tables, NoDangling, IsMember
<1>4. \A q \in Proc : pc'[q] = "idle" <=> req'[q] = NoReq
  BY <1>0, <1>1, <1>2
<1>5. RowsHeld'
  <2> SUFFICES ASSUME NEW c \in Channel, NEW u \in User, NEW q \in Proc, rowLock[c][u] = q
               PROVE  RowHolder(q, c, u)'
    BY <1>1 DEF RowsHeld
  <2>1. RowHolder(q, c, u)
    BY DEF RowsHeld
  <2>2. q # p
    BY <1>2, <2>1 DEF RowHolder
  <2>3. QED
    BY <1>1, <1>2, <2>1, <2>2 DEF RowHolder, IsMember
<1>6. \A u \in User, q \in Proc : Referencing(u, q)' => Referencing(u, q)
  <2> SUFFICES ASSUME NEW u \in User, NEW q \in Proc, Referencing(u, q)'
               PROVE  Referencing(u, q)
    OBVIOUS
  <2>1. PICK c \in Channel : rowLock[c][u] = q
    BY <1>1 DEF Referencing
  <2>2. RowHolder(q, c, u)
    BY <2>1 DEF RowsHeld
  <2>3. q # p
    BY <1>2, <2>2 DEF RowHolder
  <2>4. QED
    BY <1>2, <2>1, <2>3 DEF Referencing, Running
<1>7. UsersHeld'
  <2>1. \A u \in User : userLock[u] # p
    BY <1>2 DEF UsersHeld
  <2>2. QED
    BY <1>1, <1>2, <1>6, <2>1 DEF UsersHeld
<1>8. Deleting'
  <2>1. r.op = "delete" => pc'[p] = "exists"
    BY <1>1, <1>2 DEF Submit
  <2>2. QED
    BY <1>1, <1>2, <2>1 DEF Deleting, Running
<1>9. Emptying'
  <2>1. \A q \in Proc : pc'[q] = "cascade" => q # p
    BY <1>2
  <2>2. ASSUME NEW c \in Channel, NEW q \in Proc, Extending(c, q)' PROVE Extending(c, q)
    <3>1. PICK u \in User : rowLock[c][u] = q
      BY <1>1, <2>2 DEF Extending
    <3>2. q # p
      BY <1>2, <3>1 DEF RowsHeld, RowHolder
    <3>3. QED
      BY <1>2, <2>2, <3>1, <3>2 DEF Extending, Running
  <2>3. \A q \in Proc : Running(q, "delete") => req[q].c \in Channel
    BY Serving, RequestFields DEF Running
  <2>4. QED
    BY <1>1, <1>2, <2>1, <2>2, <2>3 DEF Emptying, ChannelDeletedBy, Running
<1>10. Creating'
  BY <1>1, <1>2 DEF Creating, Running, Submit
<1>11. QED
  BY <1>0, <1>1, <1>2, <1>3, <1>4, <1>5, <1>7, <1>8, <1>9, <1>10, Together

-----------------------------------------------------------------------------
(* Steps that lock rows. *)
LEMMA NotifyKeeps ==
  ASSUME IInv, NEW p \in Proc, Notify(p)
  PROVE  IInv'
<1> USE Parts
<1>0. pc[p] = "notify" /\ ~Running(p, "dropUser") /\ ~Running(p, "delete")
  BY DEF Notify, Deleting
<1>1. CASE Rollback(p)
  BY <1>1, RollbackKeeps
<1>2. CASE pc' = [pc EXCEPT ![p] = "commit"]
           /\ UNCHANGED <<tables, req, todo, rowLock, userLock, stale>>
  BY <1>0, <1>2, AdvanceKeeps DEF Statement
<1>3. ASSUME NEW u \in todo[p], u \in users, userLock[u] \in {p, Free},
             userLock' = [userLock EXCEPT ![u] = p], todo' = [todo EXCEPT ![p] = @ \ {u}],
             UNCHANGED <<tables, pc, req, rowLock, stale>>
      PROVE  IInv'
  <2>1. /\ UNCHANGED <<users, allowInvites, status, member, pc, req, rowLock, stale>>
        /\ todo' \in [Proc -> SUBSET User] /\ u \in User
        /\ userLock' \in [User -> Proc \cup {Free}]
    BY <1>3 DEF tables
  <2>2. Tables' /\ NoDangling'
    BY <2>1 DEF Tables, NoDangling, IsMember
  <2>3. RowsHeld' /\ Emptying' /\ Creating'
    BY <2>1 DEF RowsHeld, RowHolder, IsMember, Emptying, Extending, ChannelDeletedBy,
                Creating, Running
  <2>4. UsersHeld'
    <3>1. \A v \in User, q \in Proc : Referencing(v, q) <=> Referencing(v, q)'
      BY <2>1 DEF Referencing, Running
    <3>2. \A v \in User, q \in Proc : userLock'[v] = q => userLock[v] = q \/ q = p
      BY <1>3, <2>1
    <3>3. QED
      BY <1>0, <2>1, <3>1, <3>2 DEF UsersHeld, Running
  <2>5. Deleting'
    <3>1. \A q \in Proc : Running(q, "dropUser")' => Running(q, "dropUser") /\ q # p
      BY <1>0, <2>1 DEF Running
    <3>2. \A v \in User, q \in Proc \ {p} : userLock[v] = q => userLock'[v] = q
      BY <1>3, <2>1, ProcNotFree
    <3>3. \A q \in Proc : Running(q, "dropUser") => req[q].by \in User
      BY Serving, RequestFields DEF Running
    <3>4. QED
      BY <2>1, <3>1, <3>2, <3>3 DEF Deleting, Running
  <2>6. QED
    BY <2>1, <2>2, <2>3, <2>4, <2>5, Together
<1>4. QED
  BY <1>1, <1>2, <1>3 DEF Notify

(* A statement that locks rows of channel_members. *)
LEMMA LockRowsKeeps ==
  ASSUME IInv, NEW p \in Proc, pc[p] = "write", req[p].op \in Writers,
         NEW next \in {"settings", "notify", "commit"}, pc' = [pc EXCEPT ![p] = next],
         todo' \in [Proc -> SUBSET User],
         rowLock' \in [Channel -> [User -> Proc \cup {Free}]],
         UNCHANGED <<tables, req, userLock, stale>>,
         \A c \in Channel, u \in User :
           rowLock'[c][u] # rowLock[c][u] =>
             /\ rowLock'[c][u] = p
             /\ RowHolder(p, c, u)'
             /\ req[p].op \in {"invite", "create"} => ~BeingDeleted(u)
             /\ req[p].op = "invite" => ~ChannelDeleted(c)
  PROVE  IInv'
<1> USE Parts
<1>0. pc[p] = "write"
  OBVIOUS
<1>1. /\ UNCHANGED <<users, allowInvites, status, member, req, userLock, stale>>
      /\ pc' \in [Proc -> Statement] /\ pc'[p] = next
      /\ \A q \in Proc \ {p} : pc'[q] = pc[q]
      /\ \A q \in Proc : pc'[q] = "idle" <=> req'[q] = NoReq
      /\ \A q \in Proc : \A op : Running(q, op) <=> Running(q, op)'
  BY DEF tables, Statement, Running
<1>2. Tables' /\ NoDangling'
  BY <1>1 DEF Tables, NoDangling, IsMember
<1>3. RowsHeld'
  <2> SUFFICES ASSUME NEW c \in Channel, NEW u \in User, NEW q \in Proc, rowLock'[c][u] = q
               PROVE  RowHolder(q, c, u)'
    BY DEF RowsHeld
  <2>1. CASE rowLock[c][u] # q
    <3>1. q = p /\ RowHolder(p, c, u)'
      BY <2>1
    <3>2. QED
      BY <3>1
  <2>2. CASE rowLock[c][u] = q
    <3>1. RowHolder(q, c, u)
      BY <2>2 DEF RowsHeld
    <3>2. q # p
      BY <1>0, <3>1 DEF RowHolder
    <3>3. QED
      BY <1>1, <3>1, <3>2 DEF RowHolder, IsMember
  <2>3. QED
    BY <2>1, <2>2
<1>4. UsersHeld'
  <2> SUFFICES ASSUME NEW u \in User, NEW q \in Proc, userLock[u] = q
               PROVE  /\ \/ pc'[q] \in {"notify", "commit"}
                         \/ pc'[q] = "cascade" /\ req'[q].op = "dropUser"
                      /\ req[q].op = "dropUser" => \A r \in Proc : ~Referencing(u, r)'
    BY <1>1 DEF UsersHeld
  <2>1. /\ \/ pc[q] \in {"notify", "commit"}
           \/ pc[q] = "cascade" /\ req[q].op = "dropUser"
        /\ q # p
    BY <1>0 DEF UsersHeld
  <2>2. ASSUME req[q].op = "dropUser", NEW r \in Proc, Referencing(u, r)'
        PROVE  FALSE
    <3>1. ~Referencing(u, r)
      BY <2>2 DEF UsersHeld
    <3>2. PICK c \in Channel : rowLock'[c][u] = r
      BY <2>2 DEF Referencing
    <3>3. Running(r, "invite") \/ Running(r, "create")
      BY <1>1, <2>2 DEF Referencing
    <3>4. rowLock[c][u] # r
      BY <3>1, <3>3 DEF Referencing
    <3>5. r = p /\ ~BeingDeleted(u)
      BY <3>2, <3>3, <3>4 DEF Running
    <3>6. BeingDeletedBy(u, q)
      BY <2>1, <2>2 DEF BeingDeletedBy, Running
    <3>7. QED
      BY <3>5, <3>6 DEF BeingDeleted
  <2>3. QED
    BY <1>1, <2>1, <2>2
<1>5. Deleting'
  <2>1. req[p].op # "delete" /\ req[p].op # "dropUser"
    BY DEF Writers
  <2>2. \A q \in Proc \ {p} : pc'[q] = pc[q] /\ req'[q] = req[q]
    BY <1>1
  <2>3. QED
    BY <1>1, <2>1, <2>2 DEF Deleting, Running
<1>6. Emptying'
  <2>1. \A q \in Proc : pc'[q] = "cascade" => pc[q] = "cascade"
    BY <1>1
  <2>2. ASSUME NEW q \in Proc, Running(q, "delete"), pc[q] = "cascade",
               NEW r \in Proc, Extending(req[q].c, r)'
        PROVE  Extending(req[q].c, r)
    <3>1. req[q].c \in Channel
      BY <2>2, Serving, RequestFields DEF Running
    <3>2. PICK u \in User : rowLock'[req[q].c][u] = r
      BY <1>1, <2>2 DEF Extending
    <3>3. Running(r, "invite")
      BY <1>1, <2>2 DEF Extending
    <3>4. CASE rowLock[req[q].c][u] # r
      <4>1. ~ChannelDeleted(req[q].c)
        BY <3>1, <3>2, <3>3, <3>4 DEF Running
      <4>2. QED
        BY <2>2, <4>1 DEF ChannelDeleted, ChannelDeletedBy
    <3>5. QED
      BY <3>2, <3>3, <3>4 DEF Extending
  <2>3. QED
    BY <1>1, <2>1, <2>2 DEF Emptying, ChannelDeletedBy
<1>7. Creating'
  BY <1>1 DEF Creating
<1>8. QED
  BY <1>1, <1>2, <1>3, <1>4, <1>5, <1>6, <1>7, Together

-----------------------------------------------------------------------------
(* The requests, operation by operation. *)
LEMMA WriteRowKeeps ==
  ASSUME IInv, NEW p \in Proc, NEW next \in Statement, NEW recipients \in SUBSET User,
         WriteRow(p, next, recipients),
         \/ Running(p, "uninvite") /\ next = "settings"
         \/ Running(p, "setPerm") /\ next = "commit"
  PROVE  IInv'
<1> USE Parts
<1> DEFINE c == req[p].c
           u == req[p].to
<1>1. req[p] \in Request /\ c \in Channel /\ u \in User
  BY Serving, RequestFields DEF Running
<1>2. /\ pc[p] = "write"
      /\ rowLock' = IF IsMember(c, u) THEN [rowLock EXCEPT ![c][u] = p] ELSE rowLock
      /\ pc' = [pc EXCEPT ![p] = next]
      /\ todo' \in [Proc -> SUBSET User]
      /\ UNCHANGED <<tables, req, userLock, stale>>
  BY DEF WriteRow
<1>3. req[p].op \in Writers /\ req[p].op \in {"uninvite", "setPerm"}
      /\ next \in {"settings", "notify", "commit"}
  BY DEF Running, Writers
<1>4. rowLock' \in [Channel -> [User -> Proc \cup {Free}]]
  BY <1>1, <1>2
<1>5. ASSUME NEW d \in Channel, NEW v \in User, rowLock'[d][v] # rowLock[d][v]
      PROVE  rowLock'[d][v] = p /\ RowHolder(p, d, v)'
  <2>1. d = c /\ v = u /\ IsMember(c, u) /\ rowLock'[d][v] = p
    BY <1>1, <1>2, <1>5
  <2>2. status[c] = "live" /\ u \in users
    BY <1>1, <2>1 DEF NoDangling
  <2>3. pc'[p] = next
    BY <1>2
  <2>4. QED
    BY <1>1, <1>2, <1>3, <2>1, <2>2, <2>3 DEF RowHolder, Writers, tables, IsMember, Running
<1>6. QED
  BY <1>2, <1>3, <1>4, <1>5, LockRowsKeeps

LEMMA CreateChannelKeeps ==
  ASSUME IInv, NEW p \in Proc, CreateChannel(p)
  PROVE  IInv'
<1> USE Parts
<1> DEFINE r == req[p]
           rows == Rows(r)
<1>1. /\ Running(p, "create") /\ ~Running(p, "dropUser") /\ pc[p] # "idle"
      /\ r.op = "create" /\ ~Running(p, "delete")
      /\ r \in Request /\ r.c \in Channel /\ rows \subseteq User
  BY Serving, RequestFields DEF CreateChannel, Running, Rows, Serial!Invited
<1>2. CASE Rollback(p)
  BY <1>2, RollbackKeeps
<1>3. CASE CheckMember(p) /\ ~Rollback(p)
  <2>1. CASE pc' = [pc EXCEPT ![p] = "write"]
             /\ UNCHANGED <<tables, req, todo, rowLock, userLock, stale>>
    BY <1>1, <1>3, <2>1, AdvanceKeeps DEF CheckMember, Statement
  <2>2. CASE /\ pc[p] = "check"
             /\ \E u \in todo[p] :
                  /\ todo' = [todo EXCEPT ![p] = @ \ {u}]
                  /\ UNCHANGED <<tables, pc, req, rowLock, userLock, stale>>
    <3>1. todo' \in [Proc -> SUBSET User] /\ pc' = [pc EXCEPT ![p] = "check"]
          /\ UNCHANGED <<tables, req, rowLock, userLock, stale>>
      BY <2>2
    <3>2. QED
      BY <1>1, <2>2, <3>1, AdvanceKeeps DEF Statement
  <2>3. QED
    BY <1>3, <2>1, <2>2 DEF CheckMember
<1>4. CASE InsertChannel(p) /\ ~Rollback(p)
  <2>1. /\ pc[p] = "write" /\ \A u \in rows : ~BeingDeleted(u)
        /\ rows \subseteq users
        /\ rowLock' = [rowLock EXCEPT ![r.c] =
             [u \in User |-> IF u \in rows THEN p ELSE rowLock[r.c][u]]]
        /\ pc' = [pc EXCEPT ![p] = "notify"]
        /\ todo' = [todo EXCEPT ![p] = rows \ {r.by}]
        /\ UNCHANGED <<tables, req, userLock, stale>>
    BY <1>4 DEF InsertChannel, Rows
  <2>2. /\ rowLock' \in [Channel -> [User -> Proc \cup {Free}]]
        /\ todo' \in [Proc -> SUBSET User]
    <3>1. rows \ {r.by} \in SUBSET User
      BY <1>1
    <3>2. [u \in User |-> IF u \in rows THEN p ELSE rowLock[r.c][u]] \in [User -> Proc \cup {Free}]
      BY <1>1
    <3> HIDE DEF rows
    <3>3. QED
      BY <1>1, <2>1, <3>1, <3>2
  <2>3. ASSUME NEW d \in Channel, NEW v \in User, rowLock'[d][v] # rowLock[d][v]
        PROVE  rowLock'[d][v] = p /\ RowHolder(p, d, v)' /\ ~BeingDeleted(v)
    <3>1. d = r.c /\ v \in rows /\ rowLock'[d][v] = p
      BY <1>1, <2>1, <2>3
    <3>2. pc'[p] = "notify" /\ req' = req /\ users' = users
      BY <2>1 DEF tables
    <3>3. QED
      BY <1>1, <2>1, <3>1, <3>2 DEF RowHolder, Writers, Running
  <2>4. QED
    BY <1>1, <2>1, <2>2, <2>3, LockRowsKeeps DEF Writers
<1>5. QED
  BY <1>2, <1>3, <1>4 DEF CreateChannel

LEMMA InviteKeeps ==
  ASSUME IInv, NEW p \in Proc, Invite(p)
  PROVE  IInv'
<1> USE Parts
<1> DEFINE c == req[p].c
           to == req[p].to
<1>1. /\ Running(p, "invite") /\ ~Running(p, "dropUser") /\ pc[p] # "idle"
      /\ req[p].op = "invite" /\ ~Running(p, "delete")
  BY DEF Invite, Running
<1>2. c \in Channel /\ to \in User
  BY <1>1, Serving, RequestFields
<1> HIDE DEF c, to
<1>3. CASE Rollback(p)
  BY <1>3, RollbackKeeps
<1>4. ASSUME pc[p] \in {"exists", "issuer", "absent", "settings"},
             NEW next \in {"issuer", "absent", "settings", "write"},
             pc' = [pc EXCEPT ![p] = next],
             UNCHANGED <<tables, req, todo, rowLock, userLock, stale>>
      PROVE  IInv'
  BY <1>1, <1>4, AdvanceKeeps DEF Statement
<1>5. CASE /\ pc[p] = "write" /\ ~BeingDeleted(to) /\ ~ChannelDeleted(c)
           /\ ~IsMember(c, to) /\ status[c] = "live" /\ to \in users
           /\ rowLock' = [rowLock EXCEPT ![c][to] = p]
           /\ pc' = [pc EXCEPT ![p] = "notify"]
           /\ todo' = [todo EXCEPT ![p] = {to}]
           /\ UNCHANGED <<tables, req, userLock, stale>>
  <2>1. /\ rowLock' \in [Channel -> [User -> Proc \cup {Free}]]
        /\ todo' \in [Proc -> SUBSET User]
    BY <1>2, <1>5
  <2>2. ASSUME NEW d \in Channel, NEW v \in User, rowLock'[d][v] # rowLock[d][v]
        PROVE  rowLock'[d][v] = p /\ RowHolder(p, d, v)' /\ ~BeingDeleted(v) /\ ~ChannelDeleted(d)
    <3>1. d = c /\ v = to /\ rowLock'[d][v] = p
      BY <1>2, <1>5, <2>2
    <3>2. pc'[p] = "notify" /\ req' = req /\ users' = users /\ status' = status
      BY <1>5 DEF tables
    <3>3. QED
      BY <1>1, <1>5, <3>1, <3>2 DEF RowHolder, Writers, c, to
  <2>3. QED
    BY <1>1, <1>5, <2>1, <2>2, LockRowsKeeps DEF Writers
<1>6. QED
  <2>1. CASE pc[p] = "write"
    BY <1>3, <1>5, <2>1 DEF Invite, c, to, Read
  <2>2. CASE pc[p] # "write"
    BY <1>3, <1>4, <2>2 DEF Invite, Read
  <2>3. QED
    BY <2>1, <2>2

LEMMA UninviteKeeps ==
  ASSUME IInv, NEW p \in Proc, Uninvite(p)
  PROVE  IInv'
<1> USE Parts
<1>1. /\ Running(p, "uninvite") /\ ~Running(p, "dropUser") /\ ~Running(p, "delete")
      /\ pc[p] # "idle"
  BY DEF Uninvite, Running
<1>2. CASE Rollback(p)
  BY <1>2, RollbackKeeps
<1>3. ASSUME NEW next \in Statement \ {"idle", "cascade"},
             \/ pc[p] \in {"exists", "issuer", "target", "count"}
             \/ next = "notify",
             pc' = [pc EXCEPT ![p] = next],
             UNCHANGED <<tables, req, todo, rowLock, userLock, stale>>
      PROVE  IInv'
  BY <1>1, <1>3, AdvanceKeeps
<1>4. CASE WriteRow(p, "settings", {req[p].to})
  <2>1. {req[p].to} \in SUBSET User
    BY <1>1, Serving, RequestFields DEF Running
  <2>2. QED
    BY <1>1, <1>4, <2>1, WriteRowKeeps DEF Statement
<1>5. CASE \/ Read(p, "exists", status[req[p].c] = "live", "issuer")
           \/ CountManagers(p)
           \/ Read(p, "settings", req[p].to \in users, "notify")
  BY <1>2, <1>3, <1>5 DEF Read, CountManagers, Statement
<1>6. CASE Read(p, "issuer",
             IsMember(req[p].c, req[p].by)
               /\ (req[p].by # req[p].to => MayManage(req[p].c, req[p].by)), "target")
  BY <1>2, <1>3, <1>6 DEF Read, Statement
<1>7. CASE Read(p, "target",
             IsMember(req[p].c, req[p].to)
               /\ (req[p].by # req[p].to => member[req[p].c][req[p].to] # Manager),
             IF member[req[p].c][req[p].to] = Manager THEN "count" ELSE "write")
  BY <1>2, <1>3, <1>7 DEF Read, Statement
<1>8. QED
  BY <1>4, <1>5, <1>6, <1>7 DEF Uninvite

LEMMA SetPermKeeps ==
  ASSUME IInv, NEW p \in Proc, SetPerm(p)
  PROVE  IInv'
<1> USE Parts
<1>1. /\ Running(p, "setPerm") /\ ~Running(p, "dropUser") /\ ~Running(p, "delete")
      /\ pc[p] # "idle"
  BY DEF SetPerm, Running
<1>2. CASE Rollback(p)
  BY <1>2, RollbackKeeps
<1>3. ASSUME NEW next \in Statement \ {"idle", "cascade"},
             pc[p] \in {"exists", "issuer", "target", "count"},
             pc' = [pc EXCEPT ![p] = next],
             UNCHANGED <<tables, req, todo, rowLock, userLock, stale>>
      PROVE  IInv'
  BY <1>1, <1>3, AdvanceKeeps
<1>4. CASE WriteRow(p, "commit", {})
  BY <1>1, <1>4, WriteRowKeeps DEF Statement
<1>5. CASE \/ Read(p, "exists", status[req[p].c] = "live", "issuer")
           \/ CountManagers(p)
           \/ Read(p, "issuer", MayManage(req[p].c, req[p].by), "target")
  BY <1>2, <1>3, <1>5 DEF Read, CountManagers, Statement
<1>6. CASE Read(p, "target",
             IsMember(req[p].c, req[p].to)
               /\ (req[p].by # req[p].to => member[req[p].c][req[p].to] # Manager),
             IF member[req[p].c][req[p].to] = Manager /\ req[p].perm # Manager
             THEN "count" ELSE "write")
  BY <1>2, <1>3, <1>6 DEF Read, Statement
<1>7. QED
  BY <1>4, <1>5, <1>6 DEF SetPerm

(* One more row is locked by a cascade. *)
LEMMA CascadeKeeps ==
  ASSUME IInv, NEW p \in Proc, Cascade(p)
  PROVE  IInv'
<1> USE Parts
<1>1. /\ pc[p] = "cascade" /\ req[p].op \in {"delete", "dropUser"}
      /\ UNCHANGED <<users, allowInvites, status, member, pc, req, todo, userLock, stale>>
  BY DEF Cascade, Deleting, tables
<1>2. CASE rowLock' = rowLock
  <2>1. Tables' /\ NoDangling' /\ RowsHeld'
    BY <1>1, <1>2 DEF Tables, NoDangling, IsMember, RowsHeld, RowHolder
  <2>2. UsersHeld' /\ Deleting' /\ Emptying' /\ Creating'
    BY <1>1, <1>2 DEF UsersHeld, Deleting, Emptying, Creating, Running, Referencing,
                      Extending, ChannelDeletedBy
  <2>3. QED
    BY <1>1, <1>2, <2>1, <2>2, Together
<1>3. ASSUME NEW c \in Channel, NEW u \in User, Doomed(req[p], c, u), IsMember(c, u),
             rowLock' = [rowLock EXCEPT ![c][u] = p]
      PROVE  IInv'
  <2>1. rowLock' \in [Channel -> [User -> Proc \cup {Free}]]
    BY <1>3
  <2>2. \A d \in Channel, v \in User :
          rowLock'[d][v] # rowLock[d][v] => d = c /\ v = u /\ rowLock'[d][v] = p
    BY <1>3
  <2>3. \A q \in Proc : \A op : Running(q, op) <=> Running(q, op)'
    BY <1>1 DEF Running
  <2>4. ~Running(p, "invite") /\ ~Running(p, "create")
    BY <1>1 DEF Running
  <2>5. Tables' /\ NoDangling'
    BY <1>1 DEF Tables, NoDangling, IsMember
  <2>6. RowsHeld'
    <3> SUFFICES ASSUME NEW d \in Channel, NEW v \in User, NEW q \in Proc, rowLock'[d][v] = q
                 PROVE  RowHolder(q, d, v)'
      BY DEF RowsHeld
    <3>1. CASE rowLock[d][v] = q
      BY <1>1, <3>1 DEF RowsHeld, RowHolder, IsMember
    <3>2. CASE rowLock[d][v] # q
      <4>1. d = c /\ v = u /\ q = p
        BY <2>2, <3>2
      <4>2. status[c] = "live"
        BY <1>3 DEF NoDangling
      <4>3. QED
        BY <1>1, <1>3, <4>1, <4>2 DEF RowHolder, IsMember, Writers
    <3>3. QED
      BY <3>1, <3>2
  <2>7. \A q \in Proc, v \in User : Referencing(v, q)' => Referencing(v, q)
    BY <2>2, <2>3, <2>4 DEF Referencing
  <2>8. \A q \in Proc, d \in Channel : Extending(d, q)' => Extending(d, q)
    BY <2>2, <2>3, <2>4 DEF Extending
  <2>9. UsersHeld' /\ Deleting' /\ Creating'
    BY <1>1, <2>3, <2>7 DEF UsersHeld, Deleting, Creating
  <2>10. Emptying'
    <3>1. \A q \in Proc : Running(q, "delete") => req[q].c \in Channel
      BY Serving, RequestFields DEF Running
    <3>2. QED
      BY <1>1, <2>3, <2>8, <3>1 DEF Emptying, ChannelDeletedBy
  <2>11. QED
    BY <1>1, <2>1, <2>5, <2>6, <2>9, <2>10, Together
<1>4. QED
  BY <1>2, <1>3 DEF Cascade

(* Once a cascade has the committed rows, whoever else has written to a    *)
(* row of those inserts it.                                                *)
LEMMA CascadedRows ==
  ASSUME IInv, NEW p \in Proc, Cascaded(p), NEW c \in Channel, NEW u \in User,
         Doomed(req[p], c, u), rowLock[c][u] \in Proc \ {p}
  PROVE  /\ ~IsMember(c, u) /\ req[rowLock[c][u]].op \in {"create", "invite"}
         /\ pc[rowLock[c][u]] # "idle"
<1>1. ~IsMember(c, u)
  BY DEF Cascaded, Holds
<1>2. RowHolder(rowLock[c][u], c, u)
  BY Parts DEF RowsHeld
<1>3. QED
  BY <1>1, <1>2 DEF RowHolder, Writers

(* DELETE of a channel: nobody extends it while its rows are locked.       *)
LEMMA DeleteChannelKeeps ==
  ASSUME IInv, NEW p \in Proc, DeleteChannel(p)
  PROVE  IInv'
<1> USE Parts
<1> DEFINE c == req[p].c
<1>1. /\ Running(p, "delete") /\ ~Running(p, "dropUser") /\ pc[p] # "idle"
      /\ req[p].op = "delete"
  BY DEF DeleteChannel, Running
<1>2. c \in Channel
  BY <1>1, Serving, RequestFields
<1> HIDE DEF c
<1>3. CASE Rollback(p)
  BY <1>3, RollbackKeeps
<1>4. ASSUME pc[p] \in {"exists", "issuer"}, NEW next \in {"issuer", "write"},
             pc' = [pc EXCEPT ![p] = next],
             UNCHANGED <<tables, req, todo, rowLock, userLock, stale>>
      PROVE  IInv'
  BY <1>1, <1>4, AdvanceKeeps DEF Statement
<1>5. CASE /\ pc[p] = "write" /\ status[c] = "live"
           /\ \A q \in Proc : ~ChannelDeletedBy(c, q) /\ ~Extending(c, q)
           /\ pc' = [pc EXCEPT ![p] = "cascade"]
           /\ UNCHANGED <<tables, req, todo, rowLock, userLock, stale>>
  <2>1. /\ UNCHANGED <<users, allowInvites, status, member, req, todo, rowLock, userLock, stale>>
        /\ pc' \in [Proc -> Statement] /\ pc'[p] = "cascade"
        /\ \A q \in Proc \ {p} : pc'[q] = pc[q]
        /\ \A q \in Proc : pc'[q] = "idle" <=> req'[q] = NoReq
        /\ \A q \in Proc : \A op : Running(q, op) <=> Running(q, op)'
    BY <1>5 DEF tables, Statement, Running
  <2>2. Tables' /\ NoDangling' /\ Creating'
    BY <2>1 DEF Tables, NoDangling, IsMember, Creating
  <2>3. RowsHeld'
    <3> SUFFICES ASSUME NEW d \in Channel, NEW v \in User, NEW q \in Proc, rowLock[d][v] = q
                 PROVE  RowHolder(q, d, v)'
      BY <2>1 DEF RowsHeld
    <3>1. RowHolder(q, d, v)
      BY DEF RowsHeld
    <3>2. q # p
      BY <1>5, <3>1 DEF RowHolder
    <3>3. QED
      BY <2>1, <3>1, <3>2 DEF RowHolder, IsMember
  <2>4. UsersHeld'
    <3>1. \A v \in User, q \in Proc : Referencing(v, q) <=> Referencing(v, q)'
      BY <2>1 DEF Referencing
    <3>2. \A v \in User : userLock[v] # p
      BY <1>5 DEF UsersHeld
    <3>3. QED
      BY <2>1, <3>1, <3>2 DEF UsersHeld
  <2>5. Deleting'
    BY <1>1, <2>1 DEF Deleting, Running
  <2>6. Emptying'
    <3>1. \A d \in Channel, q \in Proc : Extending(d, q) <=> Extending(d, q)'
      BY <2>1 DEF Extending
    <3>2. \A q \in Proc : Running(q, "delete") => req[q].c \in Channel
      BY Serving, RequestFields DEF Running
    <3>3. ASSUME NEW q \in Proc, Running(q, "delete"), pc'[q] = "cascade"
          PROVE  /\ status[req[q].c] = "live"
                 /\ \A r \in Proc :
                      ~Extending(req[q].c, r) /\ (ChannelDeletedBy(req[q].c, r)' => r = q)
      <4>1. CASE q = p
        BY <1>5, <2>1, <4>1 DEF ChannelDeletedBy, c
      <4>2. CASE q # p
        <5>1. pc[q] = "cascade"
          BY <2>1, <3>3, <4>2
        <5>2. ChannelDeletedBy(req[q].c, q)
          BY <3>3, <5>1 DEF ChannelDeletedBy
        <5>3. req[q].c # c
          BY <1>5, <5>2
        <5>4. QED
          BY <2>1, <3>3, <5>1, <5>3 DEF Emptying, ChannelDeletedBy, c
      <4>3. QED
        BY <4>1, <4>2
    <3>4. QED
      BY <2>1, <3>1, <3>2, <3>3 DEF Emptying
  <2>7. QED
    BY <2>1, <2>2, <2>3, <2>4, <2>5, <2>6, Together
<1>6. CASE /\ Cascaded(p)
           /\ status' = [status EXCEPT ![c] = "deleted"]
           /\ member' = [member EXCEPT ![c] = [u \in User |-> NoRow]]
           /\ UNCHANGED <<users, allowInvites>>
           /\ Commit(p)
  <2>1. Tables'
    BY <1>2, <1>6 DEF Tables, Membership
  <2>2. NoDangling'
    BY <1>2, <1>6 DEF NoDangling, IsMember, Tables
  <2>3. status[c] = "live" /\ \A q \in Proc : ~Extending(c, q) /\ (ChannelDeletedBy(c, q) => q = p)
    BY <1>1, <1>6 DEF Cascaded, Emptying, c
  <2>4. ASSUME NEW d \in Channel, NEW u \in User, rowLock[d][u] \in Proc \ {p}
        PROVE  d # c
    <3>1. ASSUME d = c PROVE FALSE
      <4> DEFINE q == rowLock[d][u]
      <4>1. Doomed(req[p], d, u)
        BY <1>1, <3>1 DEF Doomed, c
      <4>2. req[q].op \in {"create", "invite"} /\ pc[q] # "idle"
        BY <1>6, <2>4, <4>1, CascadedRows
      <4>3. RowHolder(q, c, u)
        BY <1>2, <2>4, <3>1 DEF RowsHeld
      <4>4. Running(q, "create") => status[c] = "unused"
        BY <2>4, <4>3 DEF Creating, RowHolder, Writers, Running
      <4>5. QED
        BY <1>2, <2>3, <2>4, <3>1, <4>2, <4>4 DEF Extending, Running
    <3>2. QED
      BY <3>1
  <2>5. \A d \in Channel \ {c}, u \in User :
          status'[d] = status[d] /\ (IsMember(d, u) => IsMember(d, u)')
    BY <1>2, <1>6 DEF IsMember, Tables
  <2>6. ASSUME NEW q \in Proc \ {p}, Running(q, "create")
        PROVE  status'[req[q].c] = "unused"
    <3>1. status[req[q].c] = "unused" /\ req[q].c \in Channel
      BY <2>6, Serving, RequestFields DEF Creating, Running
    <3>2. req[q].c # c
      BY <2>3, <3>1
    <3>3. QED
      BY <1>6, <3>1, <3>2 DEF Tables
  <2>7. ASSUME NEW q \in Proc \ {p}, Running(q, "delete"), pc[q] = "cascade"
        PROVE  status'[req[q].c] = "live"
    <3>1. status[req[q].c] = "live" /\ req[q].c \in Channel
      BY <2>7, Serving, RequestFields DEF Emptying, Running
    <3>2. ChannelDeletedBy(req[q].c, q)
      BY <2>7 DEF ChannelDeletedBy
    <3>3. req[q].c # c
      BY <2>3, <3>2
    <3>4. QED
      BY <1>6, <3>1, <3>3 DEF Tables
  <2>8. stale' \in [Proc -> BOOLEAN] /\ Finish(p)
    BY <1>6 DEF Commit
  <2>9. \A d \in Channel, u \in User :
          rowLock[d][u] \in Proc \ {p} =>
            /\ status[d] = "live" => status'[d] = "live"
            /\ u \in users => u \in users'
            /\ IsMember(d, u) => IsMember(d, u)'
    BY <1>6, <2>4, <2>5
  <2>10. QED
    BY <2>1, <2>2, <2>6, <2>7, <2>8, <2>9, FinishKeeps
<1>7. QED
  <2>1. CASE pc[p] = "write"
    BY <1>3, <1>5, <2>1 DEF DeleteChannel, Cascade, Cascaded, c, Read
  <2>2. CASE pc[p] # "write"
    <3>1. CASE Cascade(p)
      BY <3>1, CascadeKeeps
    <3>2. CASE ~Cascade(p)
      BY <1>3, <1>4, <1>6, <2>2, <3>2 DEF DeleteChannel, Read, c
    <3>3. QED
      BY <3>1, <3>2
  <2>3. QED
    BY <2>1, <2>2

(* DELETE of a user: memberships others have written to are waited for,    *)
(* and nothing uncommitted references the user.                            *)
LEMMA DropUserKeeps ==
  ASSUME IInv, NEW p \in Proc, DropUser(p)
  PROVE  IInv'
<1> USE Parts
<1> DEFINE u == req[p].by
<1>1. Running(p, "dropUser") /\ pc[p] # "idle" /\ req[p].op = "dropUser"
  BY DEF DropUser, Running
<1>2. u \in User
  BY <1>1, Serving, RequestFields
<1> HIDE DEF u
<1>3. CASE Rollback(p)
  BY <1>3, RollbackKeeps
<1>4. CASE /\ pc[p] = "write"
           /\ userLock[u] = Free
           /\ ~\E q \in Proc : Referencing(u, q)
           /\ userLock' = [userLock EXCEPT ![u] = p]
           /\ pc' = [pc EXCEPT ![p] = "cascade"]
           /\ UNCHANGED <<tables, req, todo, rowLock, stale>>
  <2>1. /\ UNCHANGED <<users, allowInvites, status, member, req, todo, rowLock, stale>>
        /\ userLock' \in [User -> Proc \cup {Free}]
        /\ pc' \in [Proc -> Statement] /\ pc'[p] = "cascade"
        /\ \A q \in Proc \ {p} : pc'[q] = pc[q]
        /\ \A q \in Proc : pc'[q] = "idle" <=> req'[q] = NoReq
        /\ \A q \in Proc : \A op : Running(q, op) <=> Running(q, op)'
    BY <1>2, <1>4 DEF tables, Statement, Running
  <2>2. Tables' /\ NoDangling' /\ Creating'
    BY <2>1 DEF Tables, NoDangling, IsMember, Creating
  <2>3. RowsHeld'
    <3> SUFFICES ASSUME NEW c \in Channel, NEW v \in User, NEW q \in Proc, rowLock[c][v] = q
                 PROVE  RowHolder(q, c, v)'
      BY <2>1 DEF RowsHeld
    <3>1. RowHolder(q, c, v)
      BY DEF RowsHeld
    <3>2. q # p
      BY <1>1, <1>4, <3>1 DEF RowHolder
    <3>3. QED
      BY <2>1, <3>1, <3>2 DEF RowHolder, IsMember
  <2>4. UsersHeld'
    <3> SUFFICES ASSUME NEW v \in User, NEW q \in Proc, userLock'[v] = q
                 PROVE  /\ \/ pc'[q] \in {"notify", "commit"}
                           \/ pc'[q] = "cascade" /\ req[q].op = "dropUser"
                        /\ req[q].op = "dropUser" => \A r \in Proc : ~Referencing(v, r)'
      BY <2>1 DEF UsersHeld
    <3>1. \A r \in Proc : Referencing(v, r)' <=> Referencing(v, r)
      BY <2>1 DEF Referencing
    <3>2. CASE v = u
      <4>1. q = p
        BY <1>2, <1>4, <3>2
      <4>2. QED
        BY <1>1, <1>4, <2>1, <3>1, <3>2, <4>1
    <3>3. CASE v # u
      <4>1. userLock[v] = q
        BY <1>2, <1>4, <3>3
      <4>2. q # p
        BY <1>4, <4>1 DEF UsersHeld
      <4>3. pc'[q] = pc[q]
        BY <2>1, <4>2
      <4>4. QED
        BY <3>1, <4>1, <4>3 DEF UsersHeld
    <3>4. QED
      BY <3>2, <3>3
  <2>5. Deleting'
    <3>1. \A q \in Proc : Running(q, "dropUser") => req[q].by \in User
      BY Serving, RequestFields DEF Running
    <3>2. \A v \in User, q \in Proc \ {p} : userLock[v] = q => userLock'[v] = q
      BY <1>2, <1>4, ProcNotFree
    <3>3. userLock'[u] = p
      BY <1>2, <1>4
    <3>4. QED
      BY <1>1, <2>1, <3>1, <3>2, <3>3 DEF Deleting, Running, u
  <2>6. Emptying'
    <3>1. \A d \in Channel, q \in Proc : Extending(d, q) <=> Extending(d, q)'
      BY <2>1 DEF Extending
    <3>2. \A q \in Proc : Running(q, "delete") => q # p /\ req[q].c \in Channel
      BY <1>1, Serving, RequestFields DEF Running
    <3>3. QED
      BY <2>1, <3>1, <3>2 DEF Emptying, ChannelDeletedBy
  <2>7. QED
    BY <2>1, <2>2, <2>3, <2>4, <2>5, <2>6, Together
<1>5. CASE /\ Cascaded(p)
           /\ Serial!DeleteUser(u)
           /\ Commit(p)
  <2>1. /\ users' = users \ {u} /\ allowInvites' = allowInvites \ {u} /\ status' = status
        /\ member' = [c \in Channel |-> [member[c] EXCEPT ![u] = NoRow]]
    BY <1>5, SerialWords DEF Serial!DeleteUser
  <2>2. Tables'
    BY <1>2, <2>1 DEF Tables, Membership
  <2>3. NoDangling'
    BY <1>2, <2>1 DEF NoDangling, IsMember, Tables
  <2>4. ASSUME NEW c \in Channel, NEW v \in User, rowLock[c][v] \in Proc \ {p}
        PROVE  /\ v \in users => v \in users'
               /\ IsMember(c, v) => IsMember(c, v)'
    <3> DEFINE q == rowLock[c][v]
    <3>1. userLock[u] = p /\ \A r \in Proc : ~Referencing(u, r)
      BY <1>1, <1>2, <1>5 DEF Deleting, UsersHeld, Cascaded, u
    <3>2. v # u
      <4>1. ASSUME v = u PROVE FALSE
        <5>1. Doomed(req[p], c, v)
          BY <1>1, <4>1 DEF Doomed, u
        <5>2. req[q].op \in {"invite", "create"} /\ pc[q] # "idle"
          BY <1>5, <2>4, <5>1, CascadedRows
        <5>3. Referencing(u, q)
          BY <1>2, <4>1, <5>2 DEF Referencing, Running
        <5>4. QED
          BY <2>4, <3>1, <5>3
      <4>2. QED
        BY <4>1
    <3>3. QED
      BY <1>2, <2>1, <2>4, <3>2 DEF IsMember, Tables
  <2>5. ASSUME NEW q \in Proc \ {p}
        PROVE  /\ Running(q, "create") => status'[req[q].c] = "unused"
               /\ Running(q, "delete") /\ pc[q] = "cascade" => status'[req[q].c] = "live"
    BY <2>1, <2>5 DEF Creating, Emptying
  <2>6. stale' \in [Proc -> BOOLEAN] /\ Finish(p)
    BY <1>5 DEF Commit
  <2>7. QED
    BY <2>1, <2>2, <2>3, <2>4, <2>5, <2>6, FinishKeeps
<1>6. QED
  <2>1. CASE pc[p] = "write"
    BY <1>3, <1>4, <2>1 DEF DropUser, Cascade, Cascaded, u
  <2>2. CASE pc[p] # "write"
    BY <1>5, <2>2, CascadeKeeps DEF DropUser, u
  <2>3. QED
    BY <2>1, <2>2

(* COMMIT: what a request has written becomes visible, and nothing else. *)
LEMMA WrittenRows ==
  ASSUME IInv, NEW p \in Proc, CommitRows(p), NEW c \in Channel, NEW u \in User
  PROVE  /\ rowLock[c][u] = p => /\ c = req[p].c /\ u \in users
                                 /\ member'[c][u] = Written(req[p], u)
                                 /\ member'[c][u] \in Membership
         /\ rowLock[c][u] # p => member'[c][u] = member[c][u]
<1> USE Parts
<1>1. member'[c][u] = IF Holds(p, c, u) THEN Written(req[p], u) ELSE member[c][u]
  BY DEF CommitRows
<1>2. ASSUME rowLock[c][u] = p
      PROVE  c = req[p].c /\ u \in users /\ Written(req[p], u) \in Membership
  <2>1. RowHolder(p, c, u) /\ pc[p] = "commit" /\ req[p].op \in Writers
    BY <1>2 DEF RowsHeld, RowHolder, CommitRows
  <2>2. req[p] \in Request
    BY <2>1, Serving
  <2>3. Written(req[p], u) \in Membership
    <3>1. CASE req[p].op = "create"
      BY <2>2, <3>1, RequestFields, SerialWords DEF Written, Membership
    <3>2. CASE req[p].op = "invite"
      BY <3>2, SerialWords DEF Written, Membership
    <3>3. CASE req[p].op = "uninvite"
      BY <3>3, SerialWords DEF Written, Membership
    <3>4. CASE req[p].op = "setPerm"
      BY <2>2, <3>4, RequestFields DEF Written, Membership
    <3>5. QED
      BY <2>1, <3>1, <3>2, <3>3, <3>4 DEF Writers
  <2>4. u \in users
    BY <2>1 DEF RowHolder, Writers, NoDangling
  <2>5. QED
    BY <2>1, <2>3, <2>4 DEF RowHolder
<1>3. QED
  BY <1>1, <1>2 DEF Holds

LEMMA CommitRowsKeeps ==
  ASSUME IInv, NEW p \in Proc, CommitRows(p)
  PROVE  IInv'
<1> USE Parts
<1>1. /\ pc[p] = "commit" /\ req[p] \in Request /\ req[p].op # "dropUser"
      /\ req[p].c \in Channel
  BY Serving, RequestFields DEF CommitRows, Deleting, Running
<1>2. /\ status' = IF req[p].op = "create" THEN [status EXCEPT ![req[p].c] = "live"] ELSE status
      /\ UNCHANGED <<users, allowInvites>>
      /\ Finish(p) /\ stale' \in [Proc -> BOOLEAN]
      /\ member' = [c \in Channel |->
                     [u \in User |-> IF Holds(p, c, u) THEN Written(req[p], u) ELSE member[c][u]]]
  BY DEF CommitRows, Commit
<1>3. Tables'
  <2>1. \A c \in Channel, u \in User : member'[c][u] \in Membership
    BY WrittenRows DEF Tables
  <2>2. member' \in [Channel -> [User -> Membership]]
    BY <1>2, <2>1
  <2>3. QED
    BY <1>1, <1>2, <2>2 DEF Tables
<1>4. \A c \in Channel : status[c] = "live" => status'[c] = "live"
  BY <1>1, <1>2 DEF Tables
<1>5. NoDangling'
  <2> SUFFICES ASSUME NEW c \in Channel, NEW u \in User, member'[c][u] # NoRow
               PROVE  status'[c] = "live" /\ u \in users
    BY <1>2 DEF NoDangling, IsMember
  <2>1. CASE rowLock[c][u] = p
    <3>1. c = req[p].c /\ u \in users /\ RowHolder(p, c, u)
      BY <2>1, WrittenRows DEF RowsHeld
    <3>2. CASE req[p].op = "create"
      BY <1>1, <1>2, <3>1, <3>2 DEF Tables
    <3>3. CASE req[p].op # "create"
      BY <1>4, <3>1, <3>3 DEF RowHolder
    <3>4. QED
      BY <3>1, <3>2, <3>3
  <2>2. CASE rowLock[c][u] # p
    BY <1>4, <2>2, WrittenRows DEF NoDangling, IsMember
  <2>3. QED
    BY <2>1, <2>2
<1>6. ASSUME NEW c \in Channel, NEW u \in User, rowLock[c][u] \in Proc \ {p}
      PROVE  IsMember(c, u) => IsMember(c, u)'
  BY <1>6, WrittenRows DEF IsMember
<1>7. ASSUME NEW q \in Proc \ {p}, Running(q, "create")
      PROVE  status'[req[q].c] = "unused"
  <2>1. status[req[q].c] = "unused" /\ (req[p].op = "create" => req[q].c # req[p].c)
    BY <1>1, <1>7 DEF Creating, Running
  <2>2. req[q].c \in Channel
    BY <1>7, Serving, RequestFields DEF Running
  <2>3. QED
    BY <1>1, <1>2, <2>1, <2>2 DEF Tables
<1>8. ASSUME NEW q \in Proc \ {p}, Running(q, "delete"), pc[q] = "cascade"
      PROVE  status'[req[q].c] = "live"
  BY <1>4, <1>8, Serving, RequestFields DEF Emptying, Running
<1>9. QED
  BY <1>2, <1>3, <1>4, <1>5, <1>6, <1>7, <1>8, FinishKeeps

-----------------------------------------------------------------------------
(* Steps that are about messages only. *)
LEMMA Unchanged ==
  ASSUME IInv,
         UNCHANGED <<users, allowInvites, status, member, pc, req, todo, rowLock, userLock, stale>>
  PROVE  IInv'
<1>1. Tables' /\ NoDangling' /\ RowsHeld'
  BY Parts DEF Tables, NoDangling, IsMember, RowsHeld, RowHolder
<1>2. UsersHeld' /\ Deleting' /\ Emptying' /\ Creating'
  BY Parts DEF UsersHeld, Deleting, Emptying, Creating, Running, Referencing,
               Extending, ChannelDeletedBy
<1>3. QED
  BY <1>1, <1>2, Parts, Together

LEMMA NextIInv == IInv /\ [Next]_vars => IInv'
<1> SUFFICES ASSUME IInv, [Next]_vars PROVE IInv'
  OBVIOUS
<1>1. CASE \E u \in User, open \in BOOLEAN : Register(u, open)
  BY <1>1, RegisterKeeps
<1>2. CASE \E u \in User, open \in BOOLEAN : ChangeSettings(u, open)
  BY <1>2, ChangeSettingsKeeps
<1>3. CASE \E p \in Proc, r \in Requests : Submit(p, r)
  BY <1>3, SubmitKeeps
<1>4. ASSUME NEW p \in Proc,
             \/ CreateChannel(p) \/ DeleteChannel(p) \/ Invite(p) \/ Uninvite(p)
             \/ SetPerm(p) \/ DropUser(p) \/ Notify(p) \/ CommitRows(p)
      PROVE  IInv'
  BY <1>4, CreateChannelKeeps, DeleteChannelKeeps, InviteKeeps, UninviteKeeps,
     SetPermKeeps, DropUserKeeps, NotifyKeeps, CommitRowsKeeps
<1>5. CASE \E p \in Proc : Fail(p)
  BY <1>5, RollbackKeeps DEF Fail
<1>6. CASE UNCHANGED vars
  <2>1. UNCHANGED <<users, allowInvites, status, member, pc, req, todo, rowLock, userLock, stale>>
    BY <1>6 DEF vars, tables
  <2>2. QED
    BY <2>1, Unchanged
<1>7. CASE \E m \in Message : Send(m) \/ DeleteMessage(m)
  <2>1. UNCHANGED <<users, allowInvites, status, member, pc, req, todo, rowLock, userLock, stale>>
    BY <1>7 DEF Send, DeleteMessage, tables
  <2>2. QED
    BY <2>1, Unchanged
<1>8. QED
  BY <1>1, <1>2, <1>3, <1>4, <1>5, <1>6, <1>7 DEF Next

LEMMA Invariance == Spec => []IInv
BY InitIInv, NextIInv, PTL DEF Spec

-----------------------------------------------------------------------------
(* The messages: each has its channel and its author, and only a cascade   *)
(* that deletes them locks their rows.                                     *)
MailInv ==
  /\ messages \subseteq Message
  /\ messageLock \in [Message -> Proc \cup {Free}]
  /\ \A m \in messages : status[m.c] = "live" /\ m.by \in users
  /\ \A m \in Message, p \in Proc :
       messageLock[m] = p => pc[p] = "cascade" /\ Doomed(req[p], m.c, m.by)

LEMMA InitMailInv == Init => MailInv
BY ProcNotFree DEF Init, MailInv

(* A step that leaves the messages alone, and the cascades. *)
LEMMA MailStays ==
  ASSUME MailInv, UNCHANGED mail, users \subseteq users',
         \A c \in Channel : status[c] = "live" => status'[c] = "live",
         \A q \in Proc : pc[q] = "cascade" => pc'[q] = "cascade" /\ req'[q] = req[q]
  PROVE  MailInv'
<1>1. messages' = messages /\ messageLock' = messageLock
  BY DEF mail
<1>2. \A m \in messages : m.c \in Channel
  BY MessageType DEF MailInv
<1>3. \A m \in messages' : status'[m.c] = "live" /\ m.by \in users'
  BY <1>1, <1>2 DEF MailInv
<1>4. \A m \in Message, p \in Proc :
        messageLock'[m] = p => pc'[p] = "cascade" /\ Doomed(req[p], m.c, m.by)'
  BY <1>1 DEF MailInv, Doomed
<1>5. QED
  BY <1>1, <1>3, <1>4 DEF MailInv

(* The end of a request: the others keep their locks. *)
LEMMA MailFinish ==
  ASSUME IInv, MailInv, NEW p \in Proc, Finish(p), messages' \subseteq messages,
         \A m \in messages' : status'[m.c] = "live" /\ m.by \in users'
  PROVE  MailInv'
<1>1. \A q \in Proc \ {p} : pc'[q] = pc[q] /\ req'[q] = req[q]
  BY Parts DEF Finish
<1>2. \A m \in Message :
        messageLock'[m] = IF messageLock[m] = p THEN Free ELSE messageLock[m]
  BY DEF Finish
<1>3. \A m \in Message, q \in Proc :
        messageLock'[m] = q => pc'[q] = "cascade" /\ Doomed(req[q], m.c, m.by)'
  BY <1>1, <1>2, ProcNotFree DEF MailInv, Doomed
<1>4. messageLock' \in [Message -> Proc \cup {Free}]
  BY DEF Finish, MailInv
<1>5. QED
  BY <1>3, <1>4 DEF MailInv

LEMMA MailRollback ==
  ASSUME IInv, MailInv, NEW p \in Proc, Rollback(p)
  PROVE  MailInv'
BY MailFinish DEF Rollback, tables, MailInv

LEMMA MailCommitRows ==
  ASSUME IInv, MailInv, NEW p \in Proc, CommitRows(p)
  PROVE  MailInv'
<1> USE Parts
<1>1. pc[p] = "commit" /\ req[p] \in Request /\ req[p].c \in Channel
  BY Serving, RequestFields DEF CommitRows, Deleting, Running
<1>2. \A c \in Channel : status[c] = "live" => status'[c] = "live"
  BY <1>1 DEF CommitRows, Tables
<1>3. \A m \in messages : m.c \in Channel
  BY MessageType DEF MailInv
<1>4. Finish(p) /\ messages' = messages /\ users' = users
  BY DEF CommitRows, Commit
<1>5. QED
  BY <1>2, <1>3, <1>4, MailFinish DEF MailInv

LEMMA MailCascade ==
  ASSUME IInv, MailInv, NEW p \in Proc, Cascade(p)
  PROVE  MailInv'
<1>1. CASE UNCHANGED <<tables, pc, req, mail>>
  BY <1>1, MailStays DEF tables
<1>2. ASSUME NEW m \in messages, Doomed(req[p], m.c, m.by), pc[p] = "cascade",
             messageLock' = [messageLock EXCEPT ![m] = p],
             UNCHANGED <<tables, pc, req, messages>>
      PROVE  MailInv'
  BY <1>2 DEF MailInv, tables, Doomed
<1>3. QED
  BY <1>1, <1>2 DEF Cascade

(* What the cascade leaves references neither the channel nor the user. *)
LEMMA MailCascaded ==
  ASSUME IInv, MailInv, NEW p \in Proc, DeleteChannel(p) \/ DropUser(p), Cascaded(p)
  PROVE  MailInv'
<1> USE Parts
<1>1. /\ pc[p] = "cascade" /\ req[p] \in Request
      /\ messages' = {m \in messages : ~Doomed(req[p], m.c, m.by)}
  BY Serving DEF Cascaded, DeleteChannel, DropUser
<1>2. \A m \in messages : m.c \in Channel
  BY MessageType DEF MailInv
<1>3. CASE Rollback(p)
  BY <1>3, MailRollback
<1>4. CASE DeleteChannel(p) /\ ~Rollback(p)
  <2>1. req[p].op = "delete" /\ req[p].c \in Channel
    BY <1>1, <1>4, RequestFields DEF DeleteChannel, Running
  <2>2. \/ /\ status' = [status EXCEPT ![req[p].c] = "deleted"]
           /\ users' = users /\ Finish(p)
        \/ Cascade(p)
    BY <1>1, <1>4 DEF DeleteChannel, Read, Commit
  <2>3. \A m \in messages' : m.c # req[p].c /\ m \in messages
    BY <1>1, <2>1 DEF Doomed
  <2>4. CASE /\ status' = [status EXCEPT ![req[p].c] = "deleted"]
             /\ users' = users /\ Finish(p)
    <3>1. \A m \in messages' : status'[m.c] = "live" /\ m.by \in users'
      BY <1>2, <2>3, <2>4 DEF MailInv, Tables
    <3>2. QED
      BY <1>1, <2>4, <3>1, MailFinish
  <2>5. QED
    BY <2>2, <2>4, MailCascade
<1>5. CASE DropUser(p) /\ ~Rollback(p)
  <2>1. req[p].op = "dropUser"
    BY <1>5 DEF DropUser, Running
  <2>2. \/ users' = users \ {req[p].by} /\ status' = status /\ Finish(p)
        \/ Cascade(p)
    BY <1>1, <1>5 DEF DropUser, Commit, Serial!DeleteUser
  <2>3. \A m \in messages' : m.by # req[p].by /\ m \in messages
    BY <1>1, <2>1 DEF Doomed
  <2>4. CASE users' = users \ {req[p].by} /\ status' = status /\ Finish(p)
    <3>1. \A m \in messages' : status'[m.c] = "live" /\ m.by \in users'
      BY <2>3, <2>4 DEF MailInv
    <3>2. QED
      BY <1>1, <2>4, <3>1, MailFinish
  <2>5. QED
    BY <2>2, <2>4, MailCascade
<1>6. QED
  BY <1>4, <1>5, <1>3

(* Every other statement neither ends a request nor belongs to a cascade.  *)
LEMMA MailStatement ==
  ASSUME IInv, MailInv, NEW p \in Proc, UNCHANGED <<tables, req, mail>>,
         NEW next, pc' = [pc EXCEPT ![p] = next], pc[p] # "cascade" \/ next = "cascade"
  PROVE  MailInv'
<1>1. \A q \in Proc : pc[q] = "cascade" => pc'[q] = "cascade"
  BY Parts
<1>2. QED
  BY <1>1, MailStays DEF tables

LEMMA MailRead ==
  ASSUME IInv, MailInv, NEW p \in Proc, NEW at, NEW ok, NEW next, at # "cascade",
         Read(p, at, ok, next)
  PROVE  MailInv'
<1>1. CASE Rollback(p)
  BY <1>1, MailRollback
<1>2. CASE pc[p] = at /\ pc' = [pc EXCEPT ![p] = next]
           /\ UNCHANGED <<tables, req, todo, rowLock, userLock, stale, mail>>
  BY <1>2, MailStatement
<1>3. QED
  BY <1>1, <1>2 DEF Read

LEMMA StepMail ==
  ASSUME IInv, MailInv, NEW p \in Proc, Step(p) \/ Fail(p)
  PROVE  MailInv'
<1> USE Parts
<1>1. CASE Rollback(p)
  BY <1>1, MailRollback
<1>2. ASSUME NEW next, pc' = [pc EXCEPT ![p] = next], pc[p] # "cascade",
             UNCHANGED <<tables, req, mail>>
      PROVE  MailInv'
  BY <1>2, MailStatement
<1>3. CASE UNCHANGED <<tables, pc, req, mail>>
  BY <1>3, MailStays DEF tables
<1>4. CASE CreateChannel(p)
  <2>1. CASE CheckMember(p)
    BY <1>1, <1>2, <1>3, <2>1 DEF CheckMember
  <2>2. CASE InsertChannel(p)
    BY <1>1, <1>2, <2>2 DEF InsertChannel
  <2>3. QED
    BY <1>4, <2>1, <2>2 DEF CreateChannel
<1>5. CASE DeleteChannel(p)
  <2>1. CASE pc[p] = "write"
    BY <1>1, <1>2, <1>5, <2>1 DEF DeleteChannel, Read, Cascade, Cascaded
  <2>2. CASE Cascade(p)
    BY <2>2, MailCascade
  <2>3. CASE Cascaded(p)
    BY <1>5, <2>3, MailCascaded
  <2>4. CASE pc[p] # "write" /\ ~Cascade(p) /\ ~Cascaded(p)
    BY <1>5, <2>4, MailRead DEF DeleteChannel
  <2>5. QED
    BY <2>1, <2>2, <2>3, <2>4
<1>6. CASE Invite(p)
  <2>1. CASE pc[p] = "write"
    BY <1>1, <1>2, <1>6, <2>1 DEF Invite, Read
  <2>2. CASE pc[p] # "write"
    BY <1>6, <2>2, MailRead DEF Invite
  <2>3. QED
    BY <2>1, <2>2
<1>7. ASSUME NEW next, NEW recipients, WriteRow(p, next, recipients) PROVE MailInv'
  BY <1>2, <1>7 DEF WriteRow
<1>8. CASE Uninvite(p)
  <2>1. CASE WriteRow(p, "settings", {req[p].to})
    BY <1>7, <2>1
  <2>2. CASE ~WriteRow(p, "settings", {req[p].to})
    BY <1>8, <2>2, MailRead DEF Uninvite, CountManagers
  <2>3. QED
    BY <2>1, <2>2
<1>9. CASE SetPerm(p)
  <2>1. CASE WriteRow(p, "commit", {})
    BY <1>7, <2>1
  <2>2. CASE ~WriteRow(p, "commit", {})
    BY <1>9, <2>2, MailRead DEF SetPerm, CountManagers
  <2>3. QED
    BY <2>1, <2>2
<1>10. CASE DropUser(p)
  <2>1. CASE pc[p] = "write"
    BY <1>1, <1>2, <1>10, <2>1 DEF DropUser, Cascade, Cascaded
  <2>2. CASE pc[p] # "write"
    BY <1>10, <2>2, MailCascade, MailCascaded DEF DropUser
  <2>3. QED
    BY <2>1, <2>2
<1>11. CASE Notify(p)
  BY <1>1, <1>2, <1>3, <1>11 DEF Notify
<1>12. CASE CommitRows(p) \/ Fail(p)
  BY <1>1, <1>12, MailCommitRows DEF Fail
<1>13. QED
  BY <1>4, <1>5, <1>6, <1>8, <1>9, <1>10, <1>11, <1>12 DEF Step

LEMMA NextMailInv == IInv /\ MailInv /\ [Next]_vars => MailInv'
<1> SUFFICES ASSUME IInv, MailInv, [Next]_vars PROVE MailInv'
  OBVIOUS
<1>1. ASSUME NEW u \in User, NEW open \in BOOLEAN, Register(u, open) \/ ChangeSettings(u, open)
      PROVE  MailInv'
  BY <1>1, MailStays DEF Register, ChangeSettings, Serial!Register, Serial!ChangeSettings
<1>2. ASSUME NEW m \in Message, Send(m) \/ DeleteMessage(m) PROVE MailInv'
  <2>1. UNCHANGED <<users, status, pc, req, messageLock>>
    BY <1>2 DEF Send, DeleteMessage, tables
  <2>2. /\ messages' \subseteq messages \cup {m}
        /\ m \in messages' => m \in messages \/ (status[m.c] = "live" /\ m.by \in users)
    BY <1>2 DEF Send, DeleteMessage
  <2>3. QED
    BY <2>1, <2>2 DEF MailInv, Doomed
<1>3. ASSUME NEW p \in Proc, NEW r \in Requests, Submit(p, r) PROVE MailInv'
  <2>1. /\ pc[p] = "idle" /\ UNCHANGED <<users, status, mail>>
        /\ \A q \in Proc \ {p} : pc'[q] = pc[q] /\ req'[q] = req[q]
    BY <1>3, Parts DEF Submit, tables
  <2>2. QED
    BY <2>1, MailStays
<1>4. ASSUME NEW p \in Proc, Step(p) \/ Fail(p) PROVE MailInv'
  BY <1>4, StepMail
<1>5. CASE UNCHANGED vars
  BY <1>5, MailStays DEF vars, tables
<1>6. QED
  BY <1>1, <1>2, <1>3, <1>4, <1>5 DEF Next, Step

LEMMA MailInvariance == Spec => [](IInv /\ MailInv)
BY InitIInv, InitMailInv, NextIInv, NextMailInv, PTL DEF Spec

-----------------------------------------------------------------------------
(* Type correctness, whatever statements interleave and fail. *)
THEOREM TypeCorrect == Spec => []TypeOK
<1>1. IInv /\ MailInv => TypeOK
  BY SerialTypes DEF IInv, Types, MailInv, TypeOK
<1>2. QED
  BY <1>1, MailInvariance, PTL

(* Memberships and messages have their live channel and their user,        *)
(* however many transactions insert, change and delete them at the same    *)
(* time: the foreign keys give under READ COMMITTED what Channels gives    *)
(* serially.                                                               *)
THEOREM Integrity == Spec => []ReferentialIntegrity
<1>1. IInv /\ MailInv => ReferentialIntegrity
  BY SerialIntegrity DEF IInv, MailInv, ReferentialIntegrity
<1>2. QED
  BY <1>1, MailInvariance, PTL

-----------------------------------------------------------------------------
(* A step of a request that does not end it: the tables and the other      *)
(* requests stay as they are.                                              *)
GoesOn(q) ==
  /\ UNCHANGED <<users, allowInvites, status, member, req, stale>>
  /\ pc[q] # "idle" /\ pc'[q] # "idle"
  /\ \A p \in Proc \ {q} : pc'[p] = pc[p] /\ todo'[p] = todo[p]
  /\ \A c \in Channel, u \in User :
       rowLock'[c][u] # rowLock[c][u] => rowLock[c][u] = Free /\ rowLock'[c][u] = q

(* Reading, and whatever else changes one statement to another. *)
LEMMA AdvanceGoesOn ==
  ASSUME IInv, NEW q \in Proc, NEW next, next # "idle", pc[q] # "idle",
         pc' = [pc EXCEPT ![q] = next], UNCHANGED <<tables, req, todo, rowLock, userLock, stale>>
  PROVE  GoesOn(q)
BY Parts DEF GoesOn, tables

LEMMA ReadGoesOn ==
  ASSUME IInv, NEW q \in Proc, NEW at, NEW ok, NEW next, at # "idle", next # "idle",
         Read(q, at, ok, next)
  PROVE  GoesOn(q) \/ Rollback(q)
BY AdvanceGoesOn DEF Read

LEMMA WriteRowGoesOn ==
  ASSUME IInv, NEW q \in Proc, NEW next, NEW recipients, next # "idle",
         WriteRow(q, next, recipients), req[q].op \in {"uninvite", "setPerm"}
  PROVE  GoesOn(q)
<1> USE Parts
<1>1. req[q].c \in Channel /\ req[q].to \in User /\ pc[q] = "write"
  BY Serving, RequestFields DEF WriteRow
<1>2. rowLock[req[q].c][req[q].to] # q
  BY <1>1 DEF RowsHeld, RowHolder
<1>3. CASE IsMember(req[q].c, req[q].to)
  <2>1. rowLock[req[q].c][req[q].to] = Free
    BY <1>1, <1>2, <1>3 DEF WriteRow, HeldByOther
  <2>2. QED
    BY <1>1, <1>3, <2>1 DEF WriteRow, GoesOn, tables
<1>4. CASE ~IsMember(req[q].c, req[q].to)
  BY <1>1, <1>4 DEF WriteRow, GoesOn, tables
<1>5. QED
  BY <1>3, <1>4

(* The rows of a new channel are locked by nobody else. *)
LEMMA NewRowsFree ==
  ASSUME IInv, NEW q \in Proc, Running(q, "create"), pc[q] \in {"check", "write"},
         NEW u \in User
  PROVE  rowLock[req[q].c][u] = Free
<1> USE Parts
<1>1. req[q].c \in Channel /\ status[req[q].c] = "unused"
  BY Serving, RequestFields DEF Running, Creating
<1>2. SUFFICES ASSUME NEW p \in Proc, rowLock[req[q].c][u] = p PROVE FALSE
  BY <1>1
<1>3. RowHolder(p, req[q].c, u)
  BY <1>1, <1>2 DEF RowsHeld
<1>4. Running(p, "create") /\ req[p].c = req[q].c
  BY <1>1, <1>3 DEF RowHolder, Writers, Running
<1>5. p = q
  BY <1>4 DEF Creating
<1>6. QED
  BY <1>3, <1>5 DEF RowHolder, Running

LEMMA CreateChannelShape ==
  ASSUME IInv, NEW q \in Proc, CreateChannel(q)
  PROVE  GoesOn(q) \/ Rollback(q)
<1> USE Parts
<1>1. Running(q, "create") /\ pc[q] # "idle" /\ req[q].c \in Channel
  BY Serving, RequestFields DEF CreateChannel, Running
<1>2. CASE CheckMember(q)
  <2>1. CASE pc' = [pc EXCEPT ![q] = "write"]
             /\ UNCHANGED <<tables, req, todo, rowLock, userLock, stale>>
    BY <1>1, <2>1, AdvanceGoesOn
  <2>2. CASE \E u \in todo[q] :
                /\ todo' = [todo EXCEPT ![q] = @ \ {u}]
                /\ UNCHANGED <<tables, pc, req, rowLock, userLock, stale>>
    BY <1>1, <2>2 DEF GoesOn, tables
  <2>3. QED
    BY <1>2, <2>1, <2>2 DEF CheckMember
<1>3. CASE InsertChannel(q) /\ ~Rollback(q)
  <2>1. /\ pc[q] = "write"
        /\ rowLock' = [rowLock EXCEPT ![req[q].c] =
             [u \in User |-> IF u \in Rows(req[q]) THEN q ELSE rowLock[req[q].c][u]]]
        /\ pc' = [pc EXCEPT ![q] = "notify"]
        /\ todo' = [todo EXCEPT ![q] = Rows(req[q]) \ {req[q].by}]
        /\ UNCHANGED <<tables, req, userLock, stale>>
    BY <1>3 DEF InsertChannel, Rows
  <2>2. \A u \in User : rowLock[req[q].c][u] = Free
    BY <1>1, <2>1, NewRowsFree
  <2>3. \A c \in Channel, u \in User :
          rowLock'[c][u] # rowLock[c][u] => c = req[q].c /\ rowLock'[c][u] = q
    BY <1>1, <2>1
  <2>4. /\ UNCHANGED <<users, allowInvites, status, member, req, stale>>
        /\ pc'[q] # "idle"
        /\ \A p \in Proc \ {q} : pc'[p] = pc[p] /\ todo'[p] = todo[p]
    BY <2>1 DEF tables
  <2>5. QED
    BY <1>1, <2>2, <2>3, <2>4 DEF GoesOn
<1>4. QED
  BY <1>2, <1>3 DEF CreateChannel

(* The requests to delete a channel and an account end with their cascade. *)
CommitsDeletion(q) ==
  LET c == req[q].c
  IN /\ Running(q, "delete")
     /\ pc[q] = "cascade"
     /\ status[c] = "live"
     /\ status' = [status EXCEPT ![c] = "deleted"]
     /\ member' = [member EXCEPT ![c] = [u \in User |-> NoRow]]
     /\ UNCHANGED <<users, allowInvites>>
     /\ Commit(q)

CommitsDrop(q) ==
  /\ Running(q, "dropUser") /\ Serial!DeleteUser(req[q].by) /\ Commit(q)

LEMMA CascadeGoesOn ==
  ASSUME IInv, NEW q \in Proc, Cascade(q)
  PROVE  GoesOn(q)
<1> USE Parts
<1>1. pc[q] = "cascade" /\ UNCHANGED <<tables, pc, req, todo, stale>>
  BY DEF Cascade
<1>2. \A c \in Channel, u \in User :
        rowLock'[c][u] # rowLock[c][u] => rowLock[c][u] = Free /\ rowLock'[c][u] = q
  BY DEF Cascade
<1>3. QED
  BY <1>1, <1>2 DEF GoesOn, tables

LEMMA DeletionShape ==
  ASSUME IInv, NEW q \in Proc, DeleteChannel(q) \/ DropUser(q)
  PROVE  GoesOn(q) \/ Rollback(q) \/ CommitsDeletion(q) \/ CommitsDrop(q)
<1> USE Parts
<1>1. CASE DeleteChannel(q)
  <2>1. CASE Read(q, "exists", status[req[q].c] = "live", "issuer")
    BY <2>1, ReadGoesOn
  <2>2. CASE Read(q, "issuer", MayManage(req[q].c, req[q].by), "write")
    BY <2>2, ReadGoesOn
  <2>3. CASE /\ pc[q] = "write" /\ pc' = [pc EXCEPT ![q] = "cascade"]
             /\ UNCHANGED <<tables, req, todo, rowLock, userLock, stale>>
    BY <2>3, AdvanceGoesOn
  <2>4. CASE /\ pc[q] = "cascade"
             /\ status' = [status EXCEPT ![req[q].c] = "deleted"]
             /\ member' = [member EXCEPT ![req[q].c] = [u \in User |-> NoRow]]
             /\ UNCHANGED <<users, allowInvites>>
             /\ Commit(q)
    BY <1>1, <2>4 DEF DeleteChannel, CommitsDeletion, Emptying
  <2>5. QED
    BY <1>1, <2>1, <2>2, <2>3, <2>4, CascadeGoesOn DEF DeleteChannel, Cascaded
<1>2. CASE DropUser(q)
  <2>1. CASE /\ userLock' = [userLock EXCEPT ![req[q].by] = q]
             /\ pc' = [pc EXCEPT ![q] = "cascade"]
             /\ UNCHANGED <<tables, req, todo, rowLock, stale>>
    BY <1>2, <2>1 DEF GoesOn, tables, DropUser, Running
  <2>2. QED
    BY <1>2, <2>1, CascadeGoesOn DEF DropUser, CommitsDrop
<1>3. QED
  BY <1>1, <1>2

LEMMA InviteShape ==
  ASSUME IInv, NEW q \in Proc, Invite(q)
  PROVE  GoesOn(q) \/ Rollback(q)
<1> USE Parts
<1> DEFINE c == req[q].c
           to == req[q].to
<1>1. Running(q, "invite") /\ pc[q] # "idle" /\ c \in Channel /\ to \in User
  BY Serving, RequestFields DEF Invite, Running
<1>2. CASE Read(q, "exists", status[c] = "live", "issuer")
  BY <1>2, ReadGoesOn
<1>3. CASE Read(q, "issuer", MayManage(c, req[q].by), "absent")
  BY <1>3, ReadGoesOn
<1>4. CASE Read(q, "absent", ~IsMember(c, to), "settings")
  BY <1>4, ReadGoesOn
<1>5. CASE Read(q, "settings", to \in users, "write")
  BY <1>5, ReadGoesOn
<1>6. CASE /\ pc[q] = "write" /\ ~HeldByOther(q, c, to)
           /\ rowLock' = [rowLock EXCEPT ![c][to] = q]
           /\ pc' = [pc EXCEPT ![q] = "notify"]
           /\ todo' = [todo EXCEPT ![q] = {to}]
           /\ UNCHANGED <<tables, req, userLock, stale>>
  <2>1. rowLock[c][to] # q
    <3>1. ~RowHolder(q, c, to)
      BY <1>6 DEF RowHolder
    <3>2. QED
      BY <1>1, <3>1 DEF RowsHeld
  <2>2. rowLock[c][to] \in Proc \cup {Free}
    BY <1>1
  <2>3. rowLock[c][to] = Free
    BY <1>6, <2>1, <2>2 DEF HeldByOther
  <2>4. QED
    BY <1>1, <1>6, <2>3 DEF GoesOn, tables
<1>7. QED
  BY <1>2, <1>3, <1>4, <1>5, <1>6 DEF Invite

LEMMA MemberShape ==
  ASSUME IInv, NEW q \in Proc, Uninvite(q) \/ SetPerm(q)
  PROVE  GoesOn(q) \/ Rollback(q)
<1> USE Parts
<1> DEFINE c == req[q].c
           by == req[q].by
           to == req[q].to
<1>1. CASE Uninvite(q)
  <2>1. CASE Read(q, "exists", status[c] = "live", "issuer")
    BY <2>1, ReadGoesOn
  <2>2. CASE Read(q, "issuer", IsMember(c, by) /\ (by # to => MayManage(c, by)), "target")
    BY <2>2, ReadGoesOn
  <2>3. CASE Read(q, "target", IsMember(c, to) /\ (by # to => member[c][to] # Manager),
                  IF member[c][to] = Manager THEN "count" ELSE "write")
    BY <2>3, AdvanceGoesOn DEF Read
  <2>4. CASE CountManagers(q)
    BY <2>4, ReadGoesOn DEF CountManagers
  <2>5. CASE WriteRow(q, "settings", {to})
    BY <1>1, <2>5, WriteRowGoesOn DEF Uninvite, Running
  <2>6. CASE Read(q, "settings", to \in users, "notify")
    BY <2>6, ReadGoesOn
  <2>7. QED
    BY <1>1, <2>1, <2>2, <2>3, <2>4, <2>5, <2>6 DEF Uninvite
<1>2. CASE SetPerm(q)
  <2>1. CASE Read(q, "exists", status[c] = "live", "issuer")
    BY <2>1, ReadGoesOn
  <2>2. CASE Read(q, "issuer", MayManage(c, by), "target")
    BY <2>2, ReadGoesOn
  <2>3. CASE Read(q, "target", IsMember(c, to) /\ (by # to => member[c][to] # Manager),
                  IF member[c][to] = Manager /\ req[q].perm # Manager THEN "count" ELSE "write")
    BY <2>3, AdvanceGoesOn DEF Read
  <2>4. CASE CountManagers(q)
    BY <2>4, ReadGoesOn DEF CountManagers
  <2>5. CASE WriteRow(q, "commit", {})
    BY <1>2, <2>5, WriteRowGoesOn DEF SetPerm, Running
  <2>6. QED
    BY <1>2, <2>1, <2>2, <2>3, <2>4, <2>5 DEF SetPerm
<1>3. QED
  BY <1>1, <1>2

LEMMA NotifyShape ==
  ASSUME IInv, NEW q \in Proc, Notify(q)
  PROVE  GoesOn(q) \/ Rollback(q)
<1> USE Parts
<1>1. CASE pc' = [pc EXCEPT ![q] = "commit"]
           /\ UNCHANGED <<tables, req, todo, rowLock, userLock, stale>>
  BY <1>1, AdvanceGoesOn DEF Notify
<1>2. CASE \E u \in todo[q] :
              /\ todo' = [todo EXCEPT ![q] = @ \ {u}]
              /\ UNCHANGED <<tables, pc, req, rowLock, stale>>
  BY <1>2 DEF GoesOn, tables, Notify
<1>3. QED
  BY <1>1, <1>2 DEF Notify

(* What a step of a request can be. *)
LEMMA StepShape ==
  ASSUME IInv, NEW q \in Proc, Step(q) \/ Fail(q)
  PROVE  GoesOn(q) \/ Rollback(q) \/ CommitsDeletion(q) \/ CommitsDrop(q) \/ CommitRows(q)
BY CreateChannelShape, DeletionShape, InviteShape, MemberShape, NotifyShape DEF Step, Fail

-----------------------------------------------------------------------------
(* A promotion has passed its check of the issuer, who was a manager.      *)
LEMMA PromotionNeedsManager ==
  ASSUME IInv, [Next]_vars, NEW c \in Channel, ~Promoting(c), ~Serial!HasManager(c)
  PROVE  ~Promoting(c)'
<1> USE Parts
<1>1. SUFFICES ASSUME NEW p \in Proc, Running(p, "setPerm")', req'[p].c = c,
                      req'[p].perm = Manager, pc'[p] \notin {"exists", "issuer"}
               PROVE  FALSE
  BY DEF Promoting
<1>2. ASSUME pc'[p] = pc[p], req'[p] = req[p] PROVE FALSE
  BY <1>1, <1>2 DEF Promoting, Running
<1>3. ASSUME NEW q \in Proc, Finish(q) PROVE FALSE
  BY <1>1, <1>2, <1>3 DEF Finish, Running
<1>4. ASSUME NEW q \in Proc, NEW r \in Requests, Submit(q, r) PROVE FALSE
  <2>1. q # p => pc'[p] = pc[p] /\ req'[p] = req[p]
    BY <1>4 DEF Submit
  <2>2. req'[q] = r
    BY <1>4 DEF Submit
  <2>3. r.op = "setPerm" => pc'[q] = "exists"
    BY <1>4 DEF Submit
  <2>4. QED
    BY <1>1, <1>2, <2>1, <2>2, <2>3 DEF Running
<1>5. ASSUME NEW q \in Proc, GoesOn(q), Step(q) PROVE FALSE
  <2>1. q = p /\ req' = req /\ Running(p, "setPerm") /\ pc[p] \in {"exists", "issuer"}
    BY <1>1, <1>2, <1>5 DEF GoesOn, Promoting, Running
  <2>2. SetPerm(p)
    BY <1>5, <2>1 DEF Step, CreateChannel, DeleteChannel, Invite, Uninvite, DropUser,
                      Notify, CommitRows, Running
  <2>3. MayManage(c, req[p].by)
    BY <1>1, <1>3, <2>1, <2>2 DEF SetPerm, Read, Rollback, CountManagers, WriteRow
  <2>4. req[p].by \in User
    BY <2>1, Serving, RequestFields DEF Running
  <2>5. QED
    BY <2>3, <2>4, SerialWords DEF MayManage, Serial!HasManager
<1>6. ASSUME NEW q \in Proc, Step(q) \/ Fail(q) PROVE FALSE
  <2>1. CASE GoesOn(q)
    <3>1. ~Fail(q)
      BY <1>3 DEF Fail, Rollback
    <3>2. QED
      BY <1>5, <1>6, <2>1, <3>1
  <2>2. CASE Finish(q)
    BY <1>3, <2>2
  <2>3. QED
    BY <1>6, <2>1, <2>2, StepShape DEF Rollback, CommitsDeletion, CommitsDrop, CommitRows, Commit
<1>7. CASE \/ \E u \in User, open \in BOOLEAN : Register(u, open) \/ ChangeSettings(u, open)
           \/ \E m \in Message : Send(m) \/ DeleteMessage(m)
           \/ UNCHANGED vars
  BY <1>2, <1>7 DEF Register, ChangeSettings, Send, DeleteMessage, vars
<1>8. QED
  BY <1>4, <1>6, <1>7 DEF Next, Step

LEMMA NoNewManager ==
  ASSUME IInv, [Next]_vars, NEW c \in Channel, ~Promoting(c), Serial!Orphan(c)
  PROVE  ~Serial!HasManager(c)'
<1> USE Parts
<1>0. status[c] = "live" /\ \A u \in User : member[c][u] # Manager
  BY SerialWords DEF Serial!Orphan, Serial!HasManager
<1>1. SUFFICES ASSUME NEW u \in User PROVE member'[c][u] # Manager
  BY SerialWords DEF Serial!HasManager
<1>2. CASE member' = member
  BY <1>0, <1>2
<1>3. ASSUME NEW q \in Proc, CommitRows(q) PROVE member'[c][u] # Manager
  <2>1. CASE rowLock[c][u] # q
    BY <1>0, <1>3, <2>1, WrittenRows
  <2>2. CASE rowLock[c][u] = q
    <3>1. member'[c][u] = Written(req[q], u) /\ RowHolder(q, c, u) /\ pc[q] = "commit"
      BY <1>3, <2>2, WrittenRows DEF RowsHeld, CommitRows
    <3>2. req[q].op # "create"
      BY <1>0, <3>1 DEF RowHolder, Creating, Running
    <3>3. req[q].op = "setPerm" => req[q].perm # Manager
      BY <3>1 DEF RowHolder, Promoting, Running
    <3>4. QED
      BY <3>1, <3>2, <3>3 DEF RowHolder, Writers, Written, NoRow, ReadWrite, Manager
  <2>3. QED
    BY <2>1, <2>2
<1>4. ASSUME NEW q \in Proc, CommitsDeletion(q) PROVE member'[c][u] # Manager
  <2>1. req[q].c \in Channel
    BY <1>4, Serving, RequestFields DEF CommitsDeletion, Running
  <2>2. QED
    BY <1>0, <1>4, <2>1 DEF CommitsDeletion, Tables, NoRow, Manager
<1>5. ASSUME NEW q \in Proc, CommitsDrop(q) PROVE member'[c][u] # Manager
  BY <1>0, <1>5, SerialWords DEF CommitsDrop, Serial!DeleteUser, Tables, NoRow, Manager
<1>6. ASSUME NEW q \in Proc, Step(q) \/ Fail(q) PROVE member'[c][u] # Manager
  BY <1>2, <1>3, <1>4, <1>5, <1>6, StepShape DEF GoesOn, Rollback, tables
<1>7. CASE \/ \E v \in User, open \in BOOLEAN : Register(v, open) \/ ChangeSettings(v, open)
           \/ \E m \in Message : Send(m) \/ DeleteMessage(m)
           \/ \E q \in Proc, r \in Requests : Submit(q, r)
           \/ UNCHANGED vars
  BY <1>2, <1>7 DEF Register, ChangeSettings, Serial!Register, Serial!ChangeSettings,
                    Send, DeleteMessage, Submit, vars, tables
<1>8. QED
  BY <1>6, <1>7 DEF Next, Step

(* A channel without manager gets one only by a promotion that passed its  *)
(* check while there still was one (chat.rs:318-367).                      *)
THEOREM OrphanStays == Spec => OrphanStaysOrphan
<1>1. IInv /\ [Next]_vars =>
        \A c \in Channel :
          Serial!Orphan(c) /\ ~Promoting(c) => ~Serial!HasManager(c)' /\ ~Promoting(c)'
  BY PromotionNeedsManager, NoNewManager DEF Serial!Orphan
<1>2. QED
  BY <1>1, Invariance, PTL DEF Spec, OrphanStaysOrphan

-----------------------------------------------------------------------------
(* What a request that is not stale has learned from its statements and    *)
(* still relies on when it commits, kind by kind.                          *)
Past(p, S) == pc[p] \notin S

SeenCreate(p) ==
  LET r == req[p]
  IN /\ \A u \in User : r.grants[u] # NoRow =>
          u \in allowInvites \/ (pc[p] = "check" /\ u \in todo[p])
     /\ Past(p, {"check", "write"}) =>
          r.by \in users /\ \A u \in User : Holds(p, r.c, u) <=> u \in Rows(r)

SeenDelete(p) ==
  LET c == req[p].c
  IN /\ Past(p, {"exists"}) => status[c] = "live"
     /\ Past(p, {"exists", "issuer"}) => MayManage(c, req[p].by)

SeenInvite(p) ==
  LET c == req[p].c
      to == req[p].to
  IN /\ Past(p, {"exists"}) => status[c] = "live"
     /\ Past(p, {"exists", "issuer"}) => MayManage(c, req[p].by)
     /\ Past(p, {"exists", "issuer", "absent"}) => ~IsMember(c, to)
     /\ Past(p, {"exists", "issuer", "absent", "settings"}) => to \in users
     /\ Past(p, {"exists", "issuer", "absent", "settings", "write"}) => Holds(p, c, to)

SeenUninvite(p) ==
  LET c == req[p].c
      by == req[p].by
      to == req[p].to
  IN /\ Past(p, {"exists"}) => status[c] = "live"
     /\ Past(p, {"exists", "issuer"}) =>
          IsMember(c, by) /\ (by # to => MayManage(c, by))
     /\ Past(p, {"exists", "issuer", "target"}) =>
          IsMember(c, to) /\ (by # to => member[c][to] # Manager)
     /\ Past(p, {"exists", "issuer", "target", "count"}) =>
          (member[c][to] = Manager => Serial!NotOnlyManager(c))
     /\ Past(p, {"exists", "issuer", "target", "count", "write"}) => Holds(p, c, to)

SeenSetPerm(p) ==
  LET c == req[p].c
      by == req[p].by
      to == req[p].to
  IN /\ Past(p, {"exists"}) => status[c] = "live"
     /\ Past(p, {"exists", "issuer"}) => MayManage(c, by)
     /\ Past(p, {"exists", "issuer", "target"}) =>
          IsMember(c, to) /\ (by # to => member[c][to] # Manager)
     /\ Past(p, {"exists", "issuer", "target", "count"}) =>
          (member[c][to] = Manager /\ req[p].perm # Manager => Serial!NotOnlyManager(c))
     /\ Past(p, {"exists", "issuer", "target", "count", "write"}) => Holds(p, c, to)

Seen(p) ==
  /\ req[p].op = "create" => SeenCreate(p)
  /\ req[p].op = "delete" => SeenDelete(p)
  /\ req[p].op = "invite" => SeenInvite(p)
  /\ req[p].op = "uninvite" => SeenUninvite(p)
  /\ req[p].op = "setPerm" => SeenSetPerm(p)

Informed == \A p \in Proc : pc[p] # "idle" /\ ~stale[p] => Seen(p)

(* It stays true while nobody commits to the tables it is about. *)
LEMMA SeenStays ==
  ASSUME IInv, NEW p \in Proc, pc[p] # "idle", Seen(p),
         pc'[p] = pc[p], req'[p] = req[p], todo'[p] = todo[p],
         users \subseteq users', allowInvites \subseteq allowInvites',
         req[p].op # "dropUser" =>
           /\ status'[req[p].c] = status[req[p].c]
           /\ \A u \in User : member'[req[p].c][u] = member[req[p].c][u],
         \A c \in Channel, u \in User : Holds(p, c, u)' <=> Holds(p, c, u)
  PROVE  Seen(p)'
<1> USE Parts
<1>1. req[p] \in Request
  BY Serving
<1> DEFINE r == req[p]
           c == req[p].c
<1>2. r.op # "dropUser" => c \in Channel /\ (Serial!NotOnlyManager(c)' <=> Serial!NotOnlyManager(c))
  <2>1. ASSUME r.op # "dropUser" PROVE Serial!Managers(c)' = Serial!Managers(c)
    BY <2>1, SerialWords DEF Serial!Managers
  <2>2. QED
    BY <1>1, <2>1, RequestFields DEF Serial!NotOnlyManager
<1>3. \A S : Past(p, S)' <=> Past(p, S)
  BY DEF Past
<1>4. r.by \in User /\ (r.op \in {"invite", "uninvite", "setPerm"} => r.to \in User)
  BY <1>1, RequestFields
<1>5. ASSUME r.op = "create" PROVE SeenCreate(p)'
  BY <1>2, <1>3, <1>5 DEF Seen, SeenCreate
<1>6. ASSUME r.op = "delete" PROVE SeenDelete(p)'
  BY <1>2, <1>3, <1>4, <1>6 DEF Seen, SeenDelete, MayManage
<1>7. ASSUME r.op = "invite" PROVE SeenInvite(p)'
  BY <1>2, <1>3, <1>4, <1>7 DEF Seen, SeenInvite, MayManage, IsMember
<1>8. ASSUME r.op = "uninvite" PROVE SeenUninvite(p)'
  BY <1>2, <1>3, <1>4, <1>8 DEF Seen, SeenUninvite, MayManage, IsMember
<1>9. ASSUME r.op = "setPerm" PROVE SeenSetPerm(p)'
  BY <1>2, <1>3, <1>4, <1>9 DEF Seen, SeenSetPerm, MayManage, IsMember
<1>10. QED
  BY <1>5, <1>6, <1>7, <1>8, <1>9 DEF Seen

-----------------------------------------------------------------------------
(* Each statement adds what it has read to what its request knows. *)
LEMMA NotifyLearns ==
  ASSUME IInv, NEW p \in Proc, Seen(p), GoesOn(p), Notify(p)
  PROVE  Seen(p)'
<1> USE Parts
<1>1. /\ UNCHANGED <<users, allowInvites, status, member, req, rowLock>>
      /\ pc[p] = "notify" /\ pc'[p] \in {"notify", "commit"}
  BY DEF GoesOn, Notify, Rollback, Finish, tables
<1>2. \A S \in {{"check", "write"}, {"exists"}, {"exists", "issuer"},
                {"exists", "issuer", "absent"}, {"exists", "issuer", "absent", "settings"},
                {"exists", "issuer", "absent", "settings", "write"},
                {"exists", "issuer", "target"}, {"exists", "issuer", "target", "count"},
                {"exists", "issuer", "target", "count", "write"}} :
        Past(p, S) /\ Past(p, S)'
  BY <1>1 DEF Past
<1>3. \A c : Serial!NotOnlyManager(c)' <=> Serial!NotOnlyManager(c)
  BY <1>1 DEF Serial!NotOnlyManager, Serial!Managers
<1>4. req[p].op = "create" => SeenCreate(p)'
  BY <1>1, <1>2 DEF Seen, SeenCreate, Holds
<1>5. req[p].op = "delete" => SeenDelete(p)'
  BY <1>1, <1>2 DEF Seen, SeenDelete, MayManage
<1>6. req[p].op = "invite" => SeenInvite(p)'
  BY <1>1, <1>2 DEF Seen, SeenInvite, MayManage, IsMember, Holds
<1>7. req[p].op = "uninvite" => SeenUninvite(p)'
  BY <1>1, <1>2, <1>3 DEF Seen, SeenUninvite, MayManage, IsMember, Holds
<1>8. req[p].op = "setPerm" => SeenSetPerm(p)'
  BY <1>1, <1>2, <1>3 DEF Seen, SeenSetPerm, MayManage, IsMember, Holds
<1>9. QED
  BY <1>1, <1>4, <1>5, <1>6, <1>7, <1>8 DEF Seen

LEMMA CreateLearns ==
  ASSUME IInv, NEW p \in Proc, Seen(p), GoesOn(p), CreateChannel(p)
  PROVE  Seen(p)'
<1> USE Parts
<1> DEFINE r == req[p]
<1>1. /\ Running(p, "create") /\ r.op = "create" /\ req' = req /\ ~Rollback(p)
      /\ r.c \in Channel /\ UNCHANGED <<users, allowInvites>>
  BY Serving, RequestFields DEF CreateChannel, Running, GoesOn, Rollback, Finish
<1>2. CASE CheckMember(p) /\ pc' = [pc EXCEPT ![p] = "write"] /\ todo[p] = {}
  <2>1. pc[p] = "check" /\ pc'[p] = "write"
    BY <1>2 DEF CheckMember
  <2>2. SeenCreate(p)'
    BY <1>1, <1>2, <2>1 DEF Seen, SeenCreate, Past
  <2>3. QED
    BY <1>1, <2>2 DEF Seen
<1>3. ASSUME NEW u \in todo[p], u \in allowInvites, pc[p] = "check",
             todo' = [todo EXCEPT ![p] = @ \ {u}], pc' = pc
      PROVE  Seen(p)'
  <2>1. SeenCreate(p)'
    BY <1>1, <1>3 DEF Seen, SeenCreate, Past
  <2>2. QED
    BY <1>1, <2>1 DEF Seen
<1>4. CASE InsertChannel(p)
  <2>1. /\ pc[p] = "write" /\ pc'[p] = "notify" /\ Rows(r) \subseteq users
        /\ rowLock' = [rowLock EXCEPT ![r.c] =
             [u \in User |-> IF u \in Rows(r) THEN p ELSE rowLock[r.c][u]]]
    BY <1>1, <1>4 DEF InsertChannel, Rows
  <2>2. \A u \in User : rowLock[r.c][u] = Free
    BY <1>1, <2>1, NewRowsFree
  <2>3. \A u \in User : Holds(p, r.c, u)' <=> u \in Rows(r)
    BY <1>1, <2>1, <2>2, ProcNotFree DEF Holds
  <2>4. r.by \in users
    BY <2>1 DEF Rows
  <2>5. \A u \in User : r.grants[u] # NoRow => u \in allowInvites
    BY <1>1, <2>1 DEF Seen, SeenCreate
  <2>6. SeenCreate(p)'
    BY <1>1, <2>1, <2>3, <2>4, <2>5 DEF SeenCreate, Past
  <2>7. QED
    BY <1>1, <2>6 DEF Seen
<1>5. QED
  BY <1>1, <1>2, <1>3, <1>4 DEF CreateChannel, CheckMember

LEMMA DeleteLearns ==
  ASSUME IInv, NEW p \in Proc, Seen(p), GoesOn(p), DeleteChannel(p)
  PROVE  Seen(p)'
<1> USE Parts
<1>1. /\ Running(p, "delete") /\ req[p].op = "delete" /\ req' = req
      /\ ~Rollback(p) /\ ~Commit(p) /\ UNCHANGED <<status, member>>
  BY DEF DeleteChannel, Running, GoesOn, Rollback, Finish, Commit
<1>2. \/ pc[p] = "exists" /\ pc'[p] = "issuer" /\ status[req[p].c] = "live"
      \/ pc[p] = "issuer" /\ pc'[p] = "write" /\ MayManage(req[p].c, req[p].by)
      \/ pc[p] \in {"write", "cascade"} /\ pc'[p] = "cascade"
  BY <1>1 DEF DeleteChannel, Read, Cascade
<1>3. SeenDelete(p)'
  BY <1>1, <1>2 DEF Seen, SeenDelete, Past, MayManage
<1>4. QED
  BY <1>1, <1>3 DEF Seen

LEMMA InviteLearns ==
  ASSUME IInv, NEW p \in Proc, Seen(p), GoesOn(p), Invite(p)
  PROVE  Seen(p)'
<1> USE Parts
<1> DEFINE c == req[p].c
           to == req[p].to
<1>1. /\ Running(p, "invite") /\ req[p].op = "invite" /\ req' = req /\ ~Rollback(p)
      /\ UNCHANGED <<users, status, member>> /\ c \in Channel /\ to \in User
  BY Serving, RequestFields DEF Invite, Running, GoesOn, Rollback, Finish
<1>2. \/ pc[p] = "exists" /\ pc'[p] = "issuer" /\ status[c] = "live"
      \/ pc[p] = "issuer" /\ pc'[p] = "absent" /\ MayManage(c, req[p].by)
      \/ pc[p] = "absent" /\ pc'[p] = "settings" /\ ~IsMember(c, to)
      \/ pc[p] = "settings" /\ pc'[p] = "write" /\ to \in users
      \/ pc[p] = "write" /\ pc'[p] = "notify" /\ rowLock'[c][to] = p
  BY <1>1 DEF Invite, Read
<1>3. SeenInvite(p)'
  BY <1>1, <1>2 DEF Seen, SeenInvite, Past, MayManage, IsMember, Holds
<1>4. QED
  BY <1>1, <1>3 DEF Seen

LEMMA UninviteLearns ==
  ASSUME IInv, NEW p \in Proc, Seen(p), GoesOn(p), Uninvite(p)
  PROVE  Seen(p)'
<1> USE Parts
<1> DEFINE c == req[p].c
           by == req[p].by
           to == req[p].to
<1>1. /\ Running(p, "uninvite") /\ req[p].op = "uninvite" /\ req' = req /\ ~Rollback(p)
      /\ UNCHANGED <<users, status, member>> /\ c \in Channel /\ to \in User
  BY Serving, RequestFields DEF Uninvite, Running, GoesOn, Rollback, Finish
<1>2. Serial!NotOnlyManager(c)' <=> Serial!NotOnlyManager(c)
  BY <1>1 DEF Serial!NotOnlyManager, Serial!Managers
<1>3. \/ pc[p] = "exists" /\ pc'[p] = "issuer" /\ status[c] = "live"
      \/ pc[p] = "issuer" /\ pc'[p] = "target"
           /\ IsMember(c, by) /\ (by # to => MayManage(c, by))
      \/ pc[p] = "target" /\ pc'[p] = (IF member[c][to] = Manager THEN "count" ELSE "write")
           /\ IsMember(c, to) /\ (by # to => member[c][to] # Manager)
      \/ pc[p] = "count" /\ pc'[p] = "write" /\ Serial!NotOnlyManager(c)
      \/ pc[p] = "write" /\ pc'[p] = "settings" /\ (IsMember(c, to) => rowLock'[c][to] = p)
      \/ pc[p] = "settings" /\ pc'[p] = "notify" /\ rowLock' = rowLock
  <2>1. CASE WriteRow(p, "settings", {to})
    BY <1>1, <2>1 DEF WriteRow
  <2>2. CASE ~WriteRow(p, "settings", {to})
    BY <1>1, <2>2 DEF Uninvite, Read, CountManagers
  <2>3. QED
    BY <2>1, <2>2
<1>4. SeenUninvite(p)'
  <2>1. SeenUninvite(p)
    BY <1>1 DEF Seen
  <2>2. QED
    BY <1>1, <1>2, <1>3, <2>1 DEF SeenUninvite, Past, MayManage, IsMember, Holds
<1>5. QED
  BY <1>1, <1>4 DEF Seen

LEMMA SetPermLearns ==
  ASSUME IInv, NEW p \in Proc, Seen(p), GoesOn(p), SetPerm(p)
  PROVE  Seen(p)'
<1> USE Parts
<1> DEFINE c == req[p].c
           by == req[p].by
           to == req[p].to
<1>1. /\ Running(p, "setPerm") /\ req[p].op = "setPerm" /\ req' = req /\ ~Rollback(p)
      /\ UNCHANGED <<users, status, member>> /\ c \in Channel /\ to \in User
  BY Serving, RequestFields DEF SetPerm, Running, GoesOn, Rollback, Finish
<1>2. Serial!NotOnlyManager(c)' <=> Serial!NotOnlyManager(c)
  BY <1>1 DEF Serial!NotOnlyManager, Serial!Managers
<1>3. \/ pc[p] = "exists" /\ pc'[p] = "issuer" /\ status[c] = "live"
      \/ pc[p] = "issuer" /\ pc'[p] = "target" /\ MayManage(c, by)
      \/ pc[p] = "target"
           /\ pc'[p] = (IF member[c][to] = Manager /\ req[p].perm # Manager
                        THEN "count" ELSE "write")
           /\ IsMember(c, to) /\ (by # to => member[c][to] # Manager)
      \/ pc[p] = "count" /\ pc'[p] = "write" /\ Serial!NotOnlyManager(c)
      \/ pc[p] = "write" /\ pc'[p] = "commit" /\ (IsMember(c, to) => rowLock'[c][to] = p)
  <2>1. CASE WriteRow(p, "commit", {})
    BY <1>1, <2>1 DEF WriteRow
  <2>2. CASE ~WriteRow(p, "commit", {})
    BY <1>1, <2>2 DEF SetPerm, Read, CountManagers
  <2>3. QED
    BY <2>1, <2>2
<1>4. SeenSetPerm(p)'
  <2>1. SeenSetPerm(p)
    BY <1>1 DEF Seen
  <2>2. QED
    BY <1>1, <1>2, <1>3, <2>1 DEF SeenSetPerm, Past, MayManage, IsMember, Holds
<1>5. QED
  BY <1>1, <1>4 DEF Seen

-----------------------------------------------------------------------------
(* A commit that leaves a request its answers has written elsewhere.       *)
LEMMA OtherChannels ==
  ASSUME IInv, NEW q \in Proc, NEW p \in Proc \ {q}, pc[p] # "idle", ~stale'[p],
         CommitsDeletion(q) \/ CommitsDrop(q) \/ CommitRows(q)
  PROVE  /\ ~stale[p] /\ users' = users /\ allowInvites' = allowInvites
         /\ req[p].op # "dropUser" =>
              /\ status'[req[p].c] = status[req[p].c]
              /\ \A u \in User : member'[req[p].c][u] = member[req[p].c][u]
<1> USE Parts
<1>1. /\ Commit(q) /\ req[q] \in Request /\ pc[q] # "idle"
  BY Serving DEF CommitsDeletion, CommitsDrop, CommitRows, Running
<1>2. stale'[p] = (stale[p] \/ p \in Outdated(q))
  BY <1>1 DEF Commit
<1>3. /\ ~stale[p] /\ req[q].op # "dropUser"
      /\ req[p].op # "dropUser" => req[p].c # req[q].c
  BY <1>2 DEF Outdated
<1>4. /\ req[q].c \in Channel /\ (req[p].op # "dropUser" => req[p].c \in Channel)
  BY <1>1, <1>3, Serving, RequestFields
<1>5. CASE CommitsDeletion(q)
  BY <1>3, <1>4, <1>5 DEF CommitsDeletion, Tables
<1>6. CASE CommitRows(q)
  <2>1. \A u \in User : req[p].op # "dropUser" => member'[req[p].c][u] = member[req[p].c][u]
    BY <1>3, <1>4, <1>6, WrittenRows
  <2>2. /\ status' = IF req[q].op = "create" THEN [status EXCEPT ![req[q].c] = "live"] ELSE status
        /\ users' = users /\ allowInvites' = allowInvites
    BY <1>6 DEF CommitRows
  <2>3. QED
    BY <1>3, <1>4, <2>1, <2>2 DEF Tables
<1>7. CASE CommitsDrop(q)
  BY <1>3, <1>7 DEF CommitsDrop, Running
<1>8. QED
  BY <1>5, <1>6, <1>7

LEMMA InformedStays ==
  ASSUME IInv, Informed, NEW q \in Proc, Step(q) \/ Fail(q)
  PROVE  Informed'
<1> USE Parts
<1> SUFFICES ASSUME NEW p \in Proc, pc'[p] # "idle", ~stale'[p] PROVE Seen(p)'
  BY DEF Informed
<1>1. CASE GoesOn(q)
  <2>1. stale' = stale /\ pc[q] # "idle" /\ pc'[q] # "idle"
    BY <1>1 DEF GoesOn
  <2>2. CASE p = q
    <3>1. Seen(p) /\ ~Fail(q)
      BY <2>1, <2>2 DEF Informed, Fail, Rollback, Finish
    <3>2. ~DropUser(q) => Seen(p)'
      <4>1. ~CommitRows(q)
        BY <2>1 DEF CommitRows, Commit, Finish
      <4>2. QED
        BY <1>1, <2>2, <3>1, <4>1, NotifyLearns, CreateLearns, DeleteLearns, InviteLearns,
           UninviteLearns, SetPermLearns DEF Step
    <3>3. DropUser(q) => Seen(p)'
      BY <1>1, <2>2 DEF DropUser, Running, Seen, GoesOn
    <3>4. QED
      BY <3>2, <3>3
  <2>3. CASE p # q
    <3>1. \A c \in Channel, u \in User : Holds(p, c, u)' <=> Holds(p, c, u)
      BY <1>1, <2>3, ProcNotFree DEF GoesOn, Holds
    <3>2. /\ pc'[p] = pc[p] /\ req'[p] = req[p] /\ todo'[p] = todo[p]
          /\ UNCHANGED <<users, allowInvites, status, member>>
      BY <1>1, <2>3 DEF GoesOn
    <3>3. Seen(p)
      BY <2>1, <3>2 DEF Informed
    <3>4. QED
      BY <3>1, <3>2, <3>3, SeenStays
  <2>4. QED
    BY <2>2, <2>3
<1>2. CASE ~GoesOn(q)
  <2>1. Finish(q)
    BY <1>2, StepShape DEF Rollback, CommitsDeletion, CommitsDrop, CommitRows, Commit
  <2>2. /\ p # q /\ pc'[p] = pc[p] /\ req'[p] = req[p] /\ todo'[p] = todo[p]
        /\ \A c \in Channel, u \in User : Holds(p, c, u)' <=> Holds(p, c, u)
    BY <2>1, ProcNotFree DEF Finish, Holds
  <2>3. /\ ~stale[p] /\ users' = users /\ allowInvites' = allowInvites
        /\ req[p].op # "dropUser" =>
             /\ status'[req[p].c] = status[req[p].c]
             /\ \A u \in User : member'[req[p].c][u] = member[req[p].c][u]
    <3>1. CASE Rollback(q)
      BY <2>2, <3>1 DEF Rollback, tables
    <3>2. CASE ~Rollback(q)
      BY <1>2, <2>2, <3>2, StepShape, OtherChannels
    <3>3. QED
      BY <3>1, <3>2
  <2>4. Seen(p)
    BY <2>2, <2>3 DEF Informed
  <2>5. QED
    BY <2>2, <2>3, <2>4, SeenStays
<1>3. QED
  BY <1>1, <1>2

LEMMA NextInformed == IInv /\ Informed /\ [Next]_vars => Informed'
<1> SUFFICES ASSUME IInv, Informed, [Next]_vars PROVE Informed'
  OBVIOUS
<1> USE Parts
<1>1. ASSUME NEW q \in Proc, Step(q) \/ Fail(q) PROVE Informed'
  BY <1>1, InformedStays
<1>2. ASSUME NEW q \in Proc, NEW r \in Requests, Submit(q, r) PROVE Informed'
  <2> SUFFICES ASSUME NEW p \in Proc, pc'[p] # "idle", ~stale'[p] PROVE Seen(p)'
    BY DEF Informed
  <2>1. /\ UNCHANGED <<users, allowInvites, status, member, rowLock, stale>>
        /\ req'[q] = r /\ pc[q] = "idle"
        /\ p # q => pc'[p] = pc[p] /\ req'[p] = req[p] /\ todo'[p] = todo[p]
    BY <1>2 DEF Submit, tables
  <2>2. CASE p = q
    <3>1. r.op = "create" => pc'[p] = "check" /\ todo'[p] = {u \in User : r.grants[u] # NoRow}
      BY <1>2, <2>2 DEF Submit
    <3>2. r.op \notin {"create", "dropUser"} => pc'[p] = "exists"
      BY <1>2, <2>2 DEF Submit
    <3>3. r.op = "create" => SeenCreate(p)'
      BY <2>1, <2>2, <3>1 DEF SeenCreate, Past
    <3>4. r.op = "delete" => SeenDelete(p)'
      BY <2>2, <3>2 DEF SeenDelete, Past
    <3>5. r.op = "invite" => SeenInvite(p)'
      BY <2>2, <3>2 DEF SeenInvite, Past
    <3>6. r.op = "uninvite" => SeenUninvite(p)'
      BY <2>2, <3>2 DEF SeenUninvite, Past
    <3>7. r.op = "setPerm" => SeenSetPerm(p)'
      BY <2>2, <3>2 DEF SeenSetPerm, Past
    <3>8. QED
      BY <2>1, <2>2, <3>3, <3>4, <3>5, <3>6, <3>7 DEF Seen
  <2>3. CASE p # q
    <3>1. Seen(p)
      BY <2>1, <2>3 DEF Informed
    <3>2. QED
      BY <2>1, <2>3, <3>1, SeenStays DEF Holds
  <2>4. QED
    BY <2>2, <2>3
<1>3. ASSUME \/ \E u \in User, open \in BOOLEAN : Register(u, open) \/ ChangeSettings(u, open)
             \/ \E m \in Message : Send(m) \/ DeleteMessage(m)
             \/ UNCHANGED vars
      PROVE Informed'
  <2> SUFFICES ASSUME NEW p \in Proc, pc'[p] # "idle", ~stale'[p] PROVE Seen(p)'
    BY DEF Informed
  <2>1. /\ UNCHANGED <<status, member, pc, req, todo, rowLock>>
        /\ users \subseteq users' /\ allowInvites \subseteq allowInvites' /\ ~stale[p]
    BY <1>3 DEF Register, ChangeSettings, Serial!Register, Serial!ChangeSettings, Send,
                DeleteMessage, vars, tables
  <2>2. Seen(p)
    BY <2>1 DEF Informed
  <2>3. QED
    BY <2>1, <2>2, SeenStays DEF Holds
<1>4. QED
  BY <1>1, <1>2, <1>3 DEF Next, Step

LEMMA InformedInvariance == Spec => [](IInv /\ Informed)
<1>1. Init => Informed
  BY DEF Init, Informed
<1>2. QED
  BY <1>1, InitIInv, NextIInv, NextInformed, PTL DEF Spec

-----------------------------------------------------------------------------
(* What a request commits that is not stale is the step of its handler.    *)
LEMMA CreateIsSerial ==
  ASSUME IInv, NEW p \in Proc, CommitRows(p), Seen(p), req[p].op = "create"
  PROVE  Serial!CreateChannel(req[p].c, req[p].by, req[p].grants)
<1> USE Parts
<1> DEFINE r == req[p]
           c == req[p].c
<1>1. /\ pc[p] = "commit" /\ r \in Request /\ c \in Channel /\ r.by \in User
      /\ r.grants \in [User -> Membership] /\ status[c] = "unused"
  BY Serving, RequestFields DEF CommitRows, Creating, Running
<1>2. /\ \A u \in User : r.grants[u] # NoRow => u \in allowInvites
      /\ r.by \in users
      /\ \A u \in User : rowLock[c][u] = p <=> u \in Rows(r)
  BY <1>1 DEF Seen, SeenCreate, Past, Holds
<1>3. status' = [status EXCEPT ![c] = "live"] /\ UNCHANGED <<users, allowInvites>>
  BY DEF CommitRows
<1>4. ASSUME NEW u \in User PROVE member'[c][u] = [r.grants EXCEPT ![r.by] = Manager][u]
  <2>1. CASE u \in Rows(r)
    <3>1. member'[c][u] = IF u = r.by THEN Manager ELSE r.grants[u]
      BY <1>1, <1>2, <2>1, WrittenRows DEF Written
    <3>2. QED
      BY <1>1, <3>1
  <2>2. CASE u \notin Rows(r)
    <3>1. member'[c][u] = NoRow
      BY <1>1, <1>2, <2>2, WrittenRows DEF NoDangling, IsMember
    <3>2. u # r.by /\ r.grants[u] = NoRow
      BY <2>2, SerialWords DEF Rows, Serial!Invited
    <3>3. QED
      BY <1>1, <3>1, <3>2
  <2>3. QED
    BY <2>1, <2>2
<1>5. ASSUME NEW d \in Channel \ {c}, NEW u \in User PROVE member'[d][u] = member[d][u]
  BY <1>5, WrittenRows
<1>6. member' \in [Channel -> [User -> Membership]]
  BY CommitRowsKeeps DEF IInv, Types, Tables
<1>7. member' = [member EXCEPT ![c] = [r.grants EXCEPT ![r.by] = Manager]]
  <2>1. [r.grants EXCEPT ![r.by] = Manager] \in [User -> Membership]
    BY <1>1, SerialWords DEF Membership
  <2> DEFINE row == [r.grants EXCEPT ![r.by] = Manager]
  <2>2. member'[c] = row
    <3> HIDE DEF row
    <3>1. row \in [User -> Membership] /\ \A u \in User : member'[c][u] = row[u]
      BY <1>4, <2>1 DEF row
    <3>2. QED
      BY <1>1, <1>6, <3>1
  <2>3. \A d \in Channel \ {c} : member'[d] = member[d]
    BY <1>5, <1>6 DEF Tables
  <2> HIDE DEF row
  <2>4. member' = [member EXCEPT ![c] = row]
    BY <1>1, <1>6, <2>2, <2>3 DEF Tables
  <2>5. QED
    BY <2>4 DEF row
<1>8. QED
  BY <1>1, <1>2, <1>3, <1>7, SerialWords DEF Serial!CreateChannel

(* One row written: the others are as they were. *)
LEMMA OneRow ==
  ASSUME IInv, NEW p \in Proc, CommitRows(p),
         req[p].op \in {"invite", "uninvite", "setPerm"}, Holds(p, req[p].c, req[p].to)
  PROVE  /\ member' = [member EXCEPT ![req[p].c][req[p].to] = Written(req[p], req[p].to)]
         /\ UNCHANGED <<users, allowInvites, status>>
<1> USE Parts
<1> DEFINE c == req[p].c
           to == req[p].to
           w == Written(req[p], to)
<1>1. /\ c \in Channel /\ to \in User /\ rowLock[c][to] = p
  BY Serving, RequestFields DEF CommitRows, Holds
<1>2. member'[c][to] = w /\ w \in Membership
  BY <1>1, WrittenRows
<1>3. ASSUME NEW d \in Channel, NEW u \in User, d # c \/ u # to
      PROVE  member'[d][u] = member[d][u]
  <2>1. rowLock[d][u] # p
    BY <1>3 DEF RowsHeld, RowHolder, Writers
  <2>2. QED
    BY <2>1, WrittenRows
<1>4. member' \in [Channel -> [User -> Membership]]
  BY CommitRowsKeeps DEF IInv, Types, Tables
<1> HIDE DEF w, c, to
<1>5. member' = [member EXCEPT ![c][to] = w]
  <2>1. member'[c] = [member[c] EXCEPT ![to] = w]
    BY <1>1, <1>2, <1>3, <1>4 DEF Tables
  <2>2. \A d \in Channel \ {c} : member'[d] = member[d]
    BY <1>3, <1>4 DEF Tables
  <2>3. QED
    BY <1>1, <1>4, <2>1, <2>2 DEF Tables
<1>6. QED
  BY <1>5 DEF CommitRows, c, to, w

LEMMA CommitIsSerial ==
  ASSUME IInv, NEW p \in Proc, CommitRows(p), Seen(p)
  PROVE  Handler(req[p])
<1> USE Parts
<1> DEFINE r == req[p]
           c == req[p].c
<1>1. /\ pc[p] = "commit" /\ r \in Request /\ r.op # "dropUser"
      /\ c \in Channel /\ r.by \in User /\ r.op \in Writers
  BY Serving, RequestFields DEF CommitRows, Deleting, Running
<1>2. CASE r.op = "create"
  BY <1>2, CreateIsSerial DEF Handler
<1>3. CASE r.op = "invite"
  <2>1. /\ status[c] = "live" /\ MayManage(c, r.by) /\ ~IsMember(c, r.to)
        /\ r.to \in users /\ Holds(p, c, r.to) /\ r.to \in User
    BY <1>1, <1>3, RequestFields DEF Seen, SeenInvite, Past
  <2>2. /\ member' = [member EXCEPT ![c][r.to] = ReadWrite]
        /\ UNCHANGED <<users, allowInvites, status>>
    BY <1>3, <2>1, OneRow DEF Written
  <2>3. Serial!Invite(c, r.by, r.to)
    BY <2>1, <2>2, SerialWords DEF Serial!Invite, Serial!IsMember, IsMember, MayManage
  <2>4. QED
    BY <1>3, <2>3 DEF Handler
<1>4. CASE r.op = "uninvite"
  <2>1. /\ status[c] = "live" /\ Holds(p, c, r.to) /\ r.to \in User
        /\ IsMember(c, r.by) /\ (r.by # r.to => MayManage(c, r.by))
        /\ IsMember(c, r.to) /\ (r.by # r.to => member[c][r.to] # Manager)
        /\ member[c][r.to] = Manager => Serial!NotOnlyManager(c)
    BY <1>1, <1>4, RequestFields DEF Seen, SeenUninvite, Past
  <2>2. /\ member' = [member EXCEPT ![c][r.to] = NoRow]
        /\ UNCHANGED <<users, allowInvites, status>>
    BY <1>4, <2>1, OneRow DEF Written
  <2>3. Serial!Uninvite(c, r.by, r.to)
    BY <2>1, <2>2, SerialWords DEF Serial!Uninvite, Serial!IsMember, IsMember, MayManage
  <2>4. QED
    BY <1>4, <2>3 DEF Handler
<1>5. CASE r.op = "setPerm"
  <2>1. /\ status[c] = "live" /\ MayManage(c, r.by) /\ Holds(p, c, r.to) /\ r.to \in User
        /\ IsMember(c, r.to) /\ (r.by # r.to => member[c][r.to] # Manager)
        /\ member[c][r.to] = Manager /\ r.perm # Manager => Serial!NotOnlyManager(c)
        /\ r.perm \in Perm
    BY <1>1, <1>5, RequestFields DEF Seen, SeenSetPerm, Past
  <2>2. /\ member' = [member EXCEPT ![c][r.to] = r.perm]
        /\ UNCHANGED <<users, allowInvites, status>>
    BY <1>5, <2>1, OneRow DEF Written
  <2>3. Serial!SetPerm(c, r.by, r.to, r.perm)
    BY <2>1, <2>2, SerialWords DEF Serial!SetPerm, Serial!IsMember, IsMember, MayManage
  <2>4. QED
    BY <1>5, <2>3 DEF Handler
<1>6. QED
  BY <1>1, <1>2, <1>3, <1>4, <1>5 DEF Writers

LEMMA DeletionIsSerial ==
  ASSUME NEW p \in Proc, CommitsDeletion(p), Seen(p)
  PROVE  Handler(req[p])
<1>1. MayManage(req[p].c, req[p].by) /\ req[p].op = "delete"
  BY DEF CommitsDeletion, Running, Seen, SeenDelete, Past
<1>2. Serial!DeleteChannel(req[p].c, req[p].by)
  BY <1>1, SerialWords DEF CommitsDeletion, Serial!DeleteChannel, MayManage
<1>3. QED
  BY <1>1, <1>2 DEF Handler

LEMMA DropIsSerial ==
  ASSUME NEW p \in Proc, CommitsDrop(p)
  PROVE  Handler(req[p])
BY DEF CommitsDrop, Running, Handler

(* Whatever a request asks for is a step of Channels. *)
LEMMA HandlerIsSerial ==
  ASSUME NEW r \in Request, Handler(r)
  PROVE  Serial!Next
<1>1. /\ r.op \in Writers \cup {"delete", "dropUser"} /\ r.by \in User
      /\ r.op # "dropUser" => r.c \in Channel
      /\ r.op \in {"invite", "uninvite", "setPerm"} => r.to \in User
      /\ r.op = "setPerm" => r.perm \in Perm
  BY RequestFields
<1>2. r.op = "create" => r.grants \in Grants
  BY DEF Request, CreateRequest, DeleteRequest, InviteRequest, UninviteRequest,
         SetPermRequest, DropUserRequest
<1>3. CASE r.op = "create"
  BY <1>1, <1>2, <1>3 DEF Handler, Serial!Next
<1>4. CASE r.op = "delete"
  BY <1>1, <1>4 DEF Handler, Serial!Next
<1>5. CASE r.op = "invite"
  BY <1>1, <1>5 DEF Handler, Serial!Next
<1>6. CASE r.op = "uninvite"
  BY <1>1, <1>6 DEF Handler, Serial!Next
<1>7. CASE r.op = "setPerm"
  BY <1>1, <1>7, SerialWords DEF Handler, Serial!Next
<1>8. CASE r.op = "dropUser"
  BY <1>1, <1>8 DEF Handler, Serial!Next
<1>9. QED
  BY <1>1, <1>3, <1>4, <1>5, <1>6, <1>7, <1>8 DEF Writers

(* A request that no other commit overtakes does exactly what its own      *)
(* handler does when it runs alone, on its own issuer, target and          *)
(* permission, or nothing: the interleaving of statements adds nothing but *)
(* what staleness explains (chat.rs:24-379).                               *)
THEOREM IsolatedIsSerial == Spec => IsolatedCommitsAreSerial
<1>1. ASSUME IInv, Informed, [Next]_vars, NEW p \in Proc,
             pc[p] # "idle", pc'[p] = "idle", ~stale[p]
      PROVE  Handler(req[p]) \/ UNCHANGED tables
  <2>1. Seen(p)
    BY <1>1 DEF Informed
  <2>2. Step(p) \/ Fail(p)
    <3>1. ASSUME NEW q \in Proc \ {p}, Step(q) \/ Fail(q) PROVE FALSE
      <4>1. pc'[p] = pc[p]
        BY <1>1, <3>1, StepShape, Parts
           DEF GoesOn, Rollback, CommitsDeletion, CommitsDrop, CommitRows, Commit, Finish
      <4>2. QED
        BY <1>1, <4>1
    <3>2. ASSUME NEW q \in Proc, NEW r \in Requests, Submit(q, r) PROVE FALSE
      <4>1. CASE q = p
        BY <1>1, <3>2, <4>1 DEF Submit
      <4>2. CASE q # p
        BY <1>1, <3>2, <4>2, Parts DEF Submit
      <4>3. QED
        BY <4>1, <4>2
    <3>3. pc' # pc
      BY <1>1
    <3>4. QED
      BY <1>1, <3>1, <3>2, <3>3
         DEF Next, Step, Register, ChangeSettings, Send, DeleteMessage, vars
  <2>3. CASE GoesOn(p)
    BY <1>1, <2>3 DEF GoesOn
  <2>4. CASE Rollback(p)
    BY <2>4 DEF Rollback
  <2>5. QED
    BY <1>1, <2>1, <2>2, <2>3, <2>4, StepShape, CommitIsSerial, DeletionIsSerial, DropIsSerial
<1>2. IInv /\ Informed /\ [Next]_vars =>
        \A p \in Proc :
          pc[p] # "idle" /\ pc'[p] = "idle" /\ ~stale[p] =>
            Handler(req[p]) \/ UNCHANGED tables
  BY <1>1
<1>3. QED
  BY <1>2, InformedInvariance, PTL DEF Spec, IsolatedCommitsAreSerial

-----------------------------------------------------------------------------
(* Everyone who notifies but the creator of a channel has one recipient,   *)
(* and nobody left to notify once that recipient's row is locked.          *)
Recipient(p) ==
  todo[p] # {} =>
    \/ req[p].op = "create"
    \/ /\ req[p].op \in {"invite", "uninvite"}
       /\ todo[p] = {req[p].to}
       /\ \A u \in User : userLock[u] # p

OneRecipient == \A p \in Proc : Recipient(p)

LEMMA InitOneRecipient == Init => OneRecipient
BY DEF Init, OneRecipient, Recipient

(* The requests that do not take the step keep what they have. *)
LEMMA RecipientStays ==
  ASSUME OneRecipient, NEW p \in Proc, req'[p] = req[p], todo'[p] = todo[p],
         \A u \in User : userLock'[u] = p => userLock[u] = p
  PROVE  Recipient(p)'
BY DEF OneRecipient, Recipient

(* A step of q that ends nothing. *)
LEMMA RecipientKept ==
  ASSUME OneRecipient, NEW q \in Proc, req' = req,
         \A p \in Proc \ {q} : todo'[p] = todo[p],
         \A u \in User : userLock'[u] \in {userLock[u], q},
         Recipient(q)'
  PROVE  OneRecipient'
<1> SUFFICES ASSUME NEW p \in Proc, p # q PROVE Recipient(p)'
  BY DEF OneRecipient
<1>1. \A u \in User : userLock'[u] = p => userLock[u] = p
  OBVIOUS
<1>2. QED
  BY <1>1, RecipientStays

LEMMA FinishRecipient ==
  ASSUME IInv, OneRecipient, NEW q \in Proc, Finish(q)
  PROVE  OneRecipient'
<1> USE Parts
<1> SUFFICES ASSUME NEW p \in Proc PROVE Recipient(p)'
  BY DEF OneRecipient
<1>1. CASE p = q
  BY <1>1 DEF Finish, Recipient
<1>2. CASE p # q
  <2>1. req'[p] = req[p] /\ todo'[p] = todo[p]
    BY <1>2 DEF Finish
  <2>2. \A u \in User : userLock'[u] = p => userLock[u] = p
    BY ProcNotFree DEF Finish
  <2>3. QED
    BY <2>1, <2>2, RecipientStays
<1>3. QED
  BY <1>1, <1>2

(* The statements that lock no row of users: the recipient is set before   *)
(* the first of these rows is locked.                                      *)
LEMMA QuietRecipient ==
  ASSUME IInv, OneRecipient, NEW q \in Proc, req' = req, userLock' = userLock,
         NEW recipients, todo' = [todo EXCEPT ![q] = recipients],
         \/ recipients \in {todo[q], {}}
         \/ req[q].op = "create"
         \/ /\ req[q].op \in {"invite", "uninvite"} /\ pc[q] = "write"
            /\ recipients = {req[q].to}
  PROVE  OneRecipient'
<1> USE Parts
<1>1. todo'[q] = recipients /\ \A p \in Proc \ {q} : todo'[p] = todo[p]
  OBVIOUS
<1>2. pc[q] = "write" => \A u \in User : userLock[u] # q
  BY DEF UsersHeld
<1>3. Recipient(q)'
  BY <1>1, <1>2 DEF OneRecipient, Recipient
<1>4. QED
  BY <1>1, <1>3, RecipientKept

LEMMA SameRecipient ==
  ASSUME OneRecipient, UNCHANGED <<req, todo, userLock>>
  PROVE  OneRecipient'
BY DEF OneRecipient, Recipient

LEMMA StepRecipient ==
  ASSUME IInv, OneRecipient, NEW q \in Proc, Step(q) \/ Fail(q)
  PROVE  OneRecipient'
<1> USE Parts
<1>1. CASE Finish(q)
  BY <1>1, FinishRecipient
<1>2. CASE UNCHANGED <<req, todo, userLock>>
  BY <1>2, SameRecipient
<1>3. CASE CreateChannel(q)
  <2>1. req[q].op = "create"
    BY <1>3 DEF CreateChannel, Running
  <2>2. ASSUME NEW recipients, todo' = [todo EXCEPT ![q] = recipients],
               req' = req, userLock' = userLock
        PROVE  OneRecipient'
    BY <2>1, <2>2, QuietRecipient
  <2>3. CASE CheckMember(q)
    BY <1>1, <1>2, <2>2, <2>3 DEF CheckMember, Rollback
  <2>4. CASE InsertChannel(q)
    BY <1>1, <2>2, <2>4 DEF InsertChannel, Rollback
  <2>5. QED
    BY <1>3, <2>3, <2>4 DEF CreateChannel
<1>4. CASE DeleteChannel(q)
  BY <1>1, <1>2, <1>4 DEF DeleteChannel, Read, Rollback, Cascade, Commit
<1>5. CASE Invite(q)
  <2>1. CASE /\ pc[q] = "write" /\ todo' = [todo EXCEPT ![q] = {req[q].to}]
             /\ UNCHANGED <<tables, req, userLock, stale>>
    <3>1. req[q].op = "invite"
      BY <1>5 DEF Invite, Running
    <3>2. QED
      BY <2>1, <3>1, QuietRecipient
  <2>2. QED
    BY <1>1, <1>2, <1>5, <2>1 DEF Invite, Read, Rollback
<1>6. CASE Uninvite(q)
  <2>1. CASE WriteRow(q, "settings", {req[q].to})
    <3>1. req[q].op = "uninvite"
      BY <1>6 DEF Uninvite, Running
    <3>2. QED
      BY <2>1, <3>1, QuietRecipient DEF WriteRow
  <2>2. QED
    BY <1>1, <1>2, <1>6, <2>1 DEF Uninvite, CountManagers, Read, Rollback
<1>7. CASE SetPerm(q)
  <2>1. CASE WriteRow(q, "commit", {})
    BY <2>1, QuietRecipient DEF WriteRow
  <2>2. QED
    BY <1>1, <1>2, <1>7, <2>1 DEF SetPerm, CountManagers, Read, Rollback
<1>8. CASE DropUser(q)
  <2>1. CASE UNCHANGED <<req, todo>> /\ userLock' = [userLock EXCEPT ![req[q].by] = q]
    <3>1. todo[q] = {}
      BY <1>8 DEF OneRecipient, Recipient, DropUser, Running
    <3>2. \A u \in User : userLock'[u] \in {userLock[u], q}
      BY <2>1
    <3>3. QED
      BY <2>1, <3>1, <3>2, RecipientKept DEF Recipient
  <2>2. QED
    BY <1>1, <1>2, <1>8, <2>1 DEF DropUser, Rollback, Cascade, Commit
<1>9. CASE Notify(q)
  <2>1. ASSUME NEW u \in todo[q], userLock' = [userLock EXCEPT ![u] = q],
               todo' = [todo EXCEPT ![q] = @ \ {u}], req' = req
        PROVE  OneRecipient'
    <3>1. \A v \in User : userLock'[v] \in {userLock[v], q}
      BY <2>1
    <3>2. \A p \in Proc \ {q} : todo'[p] = todo[p]
      BY <2>1
    <3>3. todo'[q] = {} \/ req'[q].op = "create"
      BY <2>1 DEF OneRecipient, Recipient
    <3>4. QED
      BY <2>1, <3>1, <3>2, <3>3, RecipientKept DEF Recipient
  <2>2. QED
    BY <1>1, <1>2, <1>9, <2>1 DEF Notify, Rollback
<1>10. CASE CommitRows(q) \/ Fail(q)
  BY <1>1, <1>10 DEF CommitRows, Commit, Fail, Rollback
<1>11. QED
  BY <1>3, <1>4, <1>5, <1>6, <1>7, <1>8, <1>9, <1>10 DEF Step

LEMMA NextOneRecipient == IInv /\ OneRecipient /\ [Next]_vars => OneRecipient'
<1> SUFFICES ASSUME IInv, OneRecipient, [Next]_vars PROVE OneRecipient'
  OBVIOUS
<1> USE Parts
<1>1. ASSUME NEW q \in Proc, Step(q) \/ Fail(q) PROVE OneRecipient'
  BY <1>1, StepRecipient
<1>2. ASSUME NEW q \in Proc, NEW r \in Requests, Submit(q, r) PROVE OneRecipient'
  <2> SUFFICES ASSUME NEW p \in Proc PROVE Recipient(p)'
    BY DEF OneRecipient
  <2>1. CASE p = q
    BY <1>2, <2>1 DEF Submit, Recipient
  <2>2. CASE p # q
    <3>1. req'[p] = req[p] /\ todo'[p] = todo[p] /\ userLock' = userLock
      BY <1>2, <2>2 DEF Submit
    <3>2. QED
      BY <3>1, RecipientStays
  <2>3. QED
    BY <2>1, <2>2
<1>3. CASE UNCHANGED <<req, todo, userLock>>
  BY <1>3, SameRecipient
<1>4. QED
  BY <1>1, <1>2, <1>3
     DEF Next, Step, Register, ChangeSettings, Send, DeleteMessage, vars

LEMMA OneRecipientInvariance == Spec => []OneRecipient
BY InitIInv, InitOneRecipient, NextIInv, NextOneRecipient, PTL DEF Spec

-----------------------------------------------------------------------------
(* A deadlock, from the bottom up: of each kind of request that may be in  *)
(* it, that its presence makes the deadlock one of those of DeadlockShape. *)
Shape(S) ==
  \E p, q \in S :
    \/ p # q /\ Running(p, "create") /\ Running(q, "create")
    \/ /\ Running(p, "dropUser") /\ q \in WaitsFor(p)
       /\ \/ Running(q, "uninvite") /\ req[q].to = req[p].by
          \/ Running(q, "delete")

(* Whoever is in a deadlock waits for another one in it, at one of three   *)
(* statements; at its notifications it has somebody left to notify.        *)
LEMMA Stuck ==
  ASSUME NEW S \in SUBSET Proc, DeadlockedSet(S), NEW p \in S
  PROVE  /\ pc[p] \in {"write", "notify", "cascade"}
         /\ pc[p] = "notify" => todo[p] # {}
         /\ \E q \in S : q \in WaitsFor(p) /\ q # p
<1>1. PICK q \in S : q \in WaitsFor(p)
  BY DEF DeadlockedSet
<1>2. QED
  BY <1>1 DEF WaitsFor

(* The cascade of an account waits for the removal of this very user or    *)
(* for the deletion of a channel: an invitation or a new channel would     *)
(* keep it from starting, a change of role commits, and nobody else        *)
(* deletes the same account.                                               *)
LEMMA DropInDeadlock ==
  ASSUME IInv, OneRecipient, MailInv, NEW S \in SUBSET Proc, DeadlockedSet(S),
         NEW p \in S, pc[p] = "cascade", req[p].op = "dropUser"
  PROVE  Shape(S)
<1> USE Parts
<1>1. Running(p, "dropUser") /\ p \in Proc
  BY DEF Running
<1>2. req[p].by \in User /\ userLock[req[p].by] = p
  BY <1>1, Serving, RequestFields DEF Deleting
<1>3. PICK q \in S : q \in WaitsFor(p) /\ q # p
  BY Stuck
<1>4. /\ q \in Proc /\ pc[q] \in {"write", "notify", "cascade"}
      /\ pc[q] = "notify" => todo[q] # {}
  BY Stuck
<1>5. ~(Running(q, "dropUser") /\ pc[q] = "cascade" /\ req[q].by = req[p].by)
  BY <1>2, <1>3, <1>4 DEF Deleting
<1>6. ASSUME NEW c \in Channel, IsMember(c, req[p].by), rowLock[c][req[p].by] = q
      PROVE  Shape(S)
  <2>1. RowHolder(q, c, req[p].by) /\ status[c] = "live"
    BY <1>2, <1>4, <1>6 DEF RowsHeld, NoDangling
  <2>2. CASE pc[q] = "cascade"
    <3>1. Running(q, "delete")
      BY <1>5, <2>1, <2>2 DEF RowHolder, Doomed, Writers, Running
    <3>2. QED
      BY <1>1, <1>3, <3>1 DEF Shape
  <2>3. CASE pc[q] = "notify"
    <3>1. req[q].op \in {"create", "invite", "uninvite"}
      BY <1>4, <2>3 DEF OneRecipient, Recipient
    <3>2. req[q].op # "create"
      <4>1. ASSUME req[q].op = "create" PROVE FALSE
        <5>1. req[q].c = c
          BY <2>1, <4>1 DEF RowHolder, Writers
        <5>2. status[c] = "unused"
          BY <1>4, <2>3, <4>1, <5>1 DEF Creating, Running
        <5>3. QED
          BY <2>1, <5>2
      <4>2. QED
        BY <4>1
    <3>3. req[q].op # "invite"
      BY <1>1, <1>2, <1>4, <1>6, <2>3 DEF UsersHeld, Referencing, Running
    <3>4. Running(q, "uninvite") /\ req[q].to = req[p].by
      BY <2>1, <2>3, <3>1, <3>2, <3>3 DEF RowHolder, Running
    <3>5. QED
      BY <1>1, <1>3, <3>4 DEF Shape
  <2>4. QED
    BY <1>4, <2>1, <2>2, <2>3 DEF RowHolder
<1>7. ASSUME NEW m \in messages, m.by = req[p].by, messageLock[m] = q
      PROVE  Shape(S)
  <2>1. pc[q] = "cascade" /\ Doomed(req[q], m.c, m.by)
    BY <1>4, <1>7 DEF MailInv
  <2>2. Running(q, "delete")
    BY <1>4, <1>5, <1>7, <2>1 DEF Deleting, Doomed, Running
  <2>3. QED
    BY <1>1, <1>3, <2>2 DEF Shape
<1>8. \/ \E c \in Channel : IsMember(c, req[p].by) /\ rowLock[c][req[p].by] = q
      \/ \E m \in messages : m.by = req[p].by /\ messageLock[m] = q
  BY <1>3 DEF WaitsFor, Doomed, Holds
<1>9. QED
  BY <1>6, <1>7, <1>8

(* Whoever has the row of a user and waits creates a channel, or deletes   *)
(* the account: other notifiers have nothing left to wait for.             *)
LEMMA UserHolder ==
  ASSUME IInv, OneRecipient, MailInv, NEW S \in SUBSET Proc, DeadlockedSet(S),
         NEW q \in S, NEW u \in User, userLock[u] = q
  PROVE  Shape(S) \/ (pc[q] = "notify" /\ req[q].op = "create")
<1> USE Parts
<1>1. /\ q \in Proc /\ pc[q] \in {"write", "notify", "cascade"}
      /\ pc[q] = "notify" => todo[q] # {}
  BY Stuck
<1>2. CASE pc[q] = "notify"
  BY <1>1, <1>2 DEF OneRecipient, Recipient
<1>3. CASE pc[q] = "cascade" /\ req[q].op = "dropUser"
  BY <1>3, DropInDeadlock
<1>4. QED
  BY <1>1, <1>2, <1>3 DEF UsersHeld

LEMMA NotifierInDeadlock ==
  ASSUME IInv, OneRecipient, MailInv, NEW S \in SUBSET Proc, DeadlockedSet(S),
         NEW p \in S, pc[p] = "notify"
  PROVE  Shape(S)
<1> USE Parts
<1>1. ASSUME NEW a \in S, pc[a] = "notify"
      PROVE  \/ Shape(S)
             \/ \E b \in S \ {a} : pc[b] = "notify" /\ req[b].op = "create"
  <2>1. PICK b \in S : b \in WaitsFor(a) /\ b # a
    BY Stuck
  <2>2. \E u \in User : userLock[u] = b
    BY <1>1, <2>1 DEF WaitsFor
  <2>3. QED
    BY <2>1, <2>2, UserHolder
<1>2. ASSUME ~Shape(S) PROVE FALSE
  <2>1. PICK b \in S : pc[b] = "notify" /\ req[b].op = "create"
    BY <1>1, <1>2
  <2>2. PICK d \in S \ {b} : pc[d] = "notify" /\ req[d].op = "create"
    BY <1>1, <1>2, <2>1
  <2>3. QED
    BY <1>2, <2>1, <2>2 DEF Shape, Running
<1>3. QED
  BY <1>2

(* The cascade of a channel waits for a notifier or for another cascade,   *)
(* which is that of an account: nobody else deletes this channel.          *)
LEMMA CascadeInDeadlock ==
  ASSUME IInv, OneRecipient, MailInv, NEW S \in SUBSET Proc, DeadlockedSet(S),
         NEW p \in S, pc[p] = "cascade"
  PROVE  Shape(S)
<1> USE Parts
<1>1. SUFFICES ASSUME req[p].op = "delete" PROVE Shape(S)
  BY DropInDeadlock DEF Deleting
<1>2. PICK q \in S : q \in WaitsFor(p) /\ q # p
  BY Stuck
<1>3. q \in Proc /\ pc[q] \in {"write", "notify", "cascade"}
  BY Stuck
<1>4. ~(pc[q] = "cascade" /\ req[q].op = "delete" /\ req[q].c = req[p].c)
  BY <1>1, <1>2, <1>3 DEF Emptying, ChannelDeletedBy, Running
<1>5. \/ \E u \in User, c \in Channel : c = req[p].c /\ rowLock[c][u] = q
      \/ \E m \in messages : m.c = req[p].c /\ messageLock[m] = q
  BY <1>1, <1>2 DEF WaitsFor, Doomed, Holds
<1>6. \/ pc[q] = "notify"
      \/ pc[q] = "cascade" /\ req[q].op = "dropUser"
  <2>1. ASSUME NEW u \in User, NEW c \in Channel, c = req[p].c, rowLock[c][u] = q
        PROVE  \/ pc[q] = "notify"
               \/ pc[q] = "cascade" /\ req[q].op = "dropUser"
    <3>1. RowHolder(q, c, u)
      BY <1>3, <2>1 DEF RowsHeld
    <3>2. QED
      BY <1>3, <1>4, <2>1, <3>1 DEF RowHolder, Doomed
  <2>2. ASSUME NEW m \in messages, m.c = req[p].c, messageLock[m] = q
        PROVE  pc[q] = "cascade" /\ req[q].op = "dropUser"
    <3>1. pc[q] = "cascade" /\ Doomed(req[q], m.c, m.by)
      BY <1>3, <2>2 DEF MailInv
    <3>2. QED
      BY <1>3, <1>4, <2>2, <3>1 DEF Deleting, Doomed
  <2>3. QED
    BY <1>5, <2>1, <2>2
<1>7. QED
  BY <1>6, DropInDeadlock, NotifierInDeadlock

(* Whoever is at its write waits for one who has its write behind it.      *)
LEMMA WriterInDeadlock ==
  ASSUME IInv, OneRecipient, MailInv, NEW S \in SUBSET Proc, DeadlockedSet(S),
         NEW p \in S, pc[p] = "write"
  PROVE  Shape(S)
<1> USE Parts
<1>1. PICK q \in S : q \in WaitsFor(p) /\ q # p
  BY Stuck
<1>2. q \in Proc /\ pc[q] \in {"write", "notify", "cascade"}
  BY Stuck
<1>3. ASSUME NEW c \in Channel, NEW u \in User, rowLock[c][u] = q PROVE pc[q] # "write"
  <2>1. RowHolder(q, c, u)
    BY <1>2, <1>3 DEF RowsHeld
  <2>2. QED
    BY <2>1 DEF RowHolder
<1>4. ASSUME NEW u \in User, userLock[u] = q PROVE pc[q] # "write"
  BY <1>2, <1>4 DEF UsersHeld
<1>5. /\ req[p] \in Request /\ req[p].by \in User
      /\ req[p].op # "dropUser" => req[p].c \in Channel
      /\ req[p].op \in {"invite", "uninvite", "setPerm"} => req[p].to \in User
  BY Serving, RequestFields
<1>6. pc[q] # "write"
  <2>1. CASE req[p].op \in {"uninvite", "setPerm"}
    BY <1>1, <1>3, <1>5, <2>1 DEF WaitsFor, Running, Holds
  <2>2. CASE req[p].op = "invite"
    BY <1>1, <1>3, <1>4, <1>5, <2>2
       DEF WaitsFor, Running, Holds, BeingDeletedBy, ChannelDeletedBy
  <2>3. CASE req[p].op = "delete"
    BY <1>1, <1>3, <1>5, <2>3 DEF WaitsFor, Running, ChannelDeletedBy, Extending
  <2>4. CASE req[p].op = "create"
    <3>1. \E u \in Rows(req[p]) : userLock[u] = q
      BY <1>1, <2>4 DEF WaitsFor, Running, Rows, BeingDeletedBy
    <3>2. Rows(req[p]) \subseteq User
      BY <1>5 DEF Rows, Serial!Invited
    <3>3. QED
      BY <1>4, <3>1, <3>2
  <2>5. CASE req[p].op = "dropUser"
    BY <1>1, <1>3, <1>4, <1>5, <2>5 DEF WaitsFor, Running, Referencing
  <2>6. QED
    BY <1>5, <2>1, <2>2, <2>3, <2>4, <2>5, RequestFields DEF Writers
<1>7. QED
  BY <1>2, <1>6, NotifierInDeadlock, CascadeInDeadlock

(* However many requests there are, every deadlock among them has two that *)
(* create channels in it, or a deletion of an account whose cascade waits  *)
(* for a removal of that user or for a deletion of a channel               *)
(* (chat.rs:71-89, chat.rs:114, chat.rs:257-289).                          *)
THEOREM DeadlocksOfThreeKinds == Spec => []DeadlockShape
<1>1. IInv /\ OneRecipient /\ MailInv => DeadlockShape
  <2> SUFFICES ASSUME IInv, OneRecipient, MailInv, NEW S \in SUBSET Proc, DeadlockedSet(S)
               PROVE  Shape(S)
    BY DEF DeadlockShape, Shape
  <2>1. PICK p \in S : TRUE
    BY DEF DeadlockedSet
  <2>2. pc[p] \in {"write", "notify", "cascade"}
    BY Stuck
  <2>3. QED
    BY <2>2, WriterInDeadlock, NotifierInDeadlock, CascadeInDeadlock
<1>2. QED
  BY <1>1, OneRecipientInvariance, MailInvariance, PTL

-----------------------------------------------------------------------------
(* A step of a request that is not stale is a step of Channels, or leaves  *)
(* the tables alone; so is every step that ends no request.                *)
LEMMA FreshStepIsSerial ==
  ASSUME IInv, Informed, NEW p \in Proc, Step(p) \/ Fail(p),
         pc[p] # "idle" /\ pc'[p] = "idle" => ~stale[p] \/ UNCHANGED tables
  PROVE  Serial!Next \/ UNCHANGED tables
<1> USE Parts
<1>1. CASE GoesOn(p)
  BY <1>1 DEF GoesOn, tables
<1>2. CASE Rollback(p)
  BY <1>2 DEF Rollback
<1>3. CASE CommitsDeletion(p) \/ CommitsDrop(p) \/ CommitRows(p)
  <2>1. pc[p] # "idle" /\ pc'[p] = "idle"
    BY <1>3 DEF CommitsDeletion, CommitsDrop, CommitRows, Commit, Finish, Running
  <2>2. CASE ~stale[p]
    <3>1. Seen(p)
      BY <2>1, <2>2 DEF Informed
    <3>2. Handler(req[p])
      BY <1>3, <3>1, CommitIsSerial, DeletionIsSerial, DropIsSerial
    <3>3. QED
      BY <2>1, <3>2, Serving, HandlerIsSerial
  <2>3. QED
    BY <2>1, <2>2
<1>4. QED
  BY <1>1, <1>2, <1>3, StepShape

(* What a request finds has changed since it started, it does not commit:  *)
(* what the database would enforce at a stricter level than its default.   *)
StaleCommitNothing ==
  [][\A p \in Proc :
       pc[p] # "idle" /\ pc'[p] = "idle" /\ stale[p] => UNCHANGED tables]_vars

LEMMA SerialVars == (Serial!vars = tables) /\ (Serial!vars = tables)'
BY DEF Serial!vars, tables

(* The statements of any number of requests interleave, and yet, as long   *)
(* as no request commits on an answer that another commit has overtaken,   *)
(* the tables go through what the handlers do one at a time (chat.rs:24-   *)
(* 379): staleness is the only price of READ COMMITTED.                    *)
THEOREM FreshIsSerial == Spec /\ StaleCommitNothing => SerialSpec
<1>1. Init => Serial!Init
  BY DEF Init
<1>2. ASSUME IInv, Informed, [Next]_vars,
             [\A p \in Proc :
                pc[p] # "idle" /\ pc'[p] = "idle" /\ stale[p] => UNCHANGED tables]_vars
      PROVE  [Serial!Next]_Serial!vars
  <2>1. CASE UNCHANGED vars
    BY <2>1, SerialVars DEF vars
  <2>2. CASE \E u \in User, open \in BOOLEAN : Register(u, open)
    BY <2>2 DEF Register, Serial!Next
  <2>3. CASE \E u \in User, open \in BOOLEAN : ChangeSettings(u, open)
    BY <2>3 DEF ChangeSettings, Serial!Next
  <2>4. CASE \E p \in Proc, r \in Requests : Submit(p, r)
    BY <2>4, SerialVars DEF Submit
  <2>5. ASSUME NEW p \in Proc, Step(p) \/ Fail(p) PROVE [Serial!Next]_Serial!vars
    <3>1. pc[p] # "idle" /\ pc'[p] = "idle" => ~stale[p] \/ UNCHANGED tables
      BY <1>2, <2>1 DEF vars
    <3>2. Serial!Next \/ UNCHANGED tables
      BY <1>2, <2>5, <3>1, FreshStepIsSerial
    <3>3. QED
      BY <3>2, SerialVars
  <2>6. CASE \E m \in Message : Send(m) \/ DeleteMessage(m)
    BY <2>6, SerialVars DEF Send, DeleteMessage
  <2>7. QED
    BY <1>2, <2>1, <2>2, <2>3, <2>4, <2>5, <2>6 DEF Next, Step
<1>3. QED
  BY <1>1, <1>2, InformedInvariance, PTL
     DEF Spec, StaleCommitNothing, SerialSpec, Serial!Spec

(* One request at a time, and settings that stay: nothing is ever stale,   *)
(* and the handlers, statement by statement, implement Channels.           *)
Isolated == \A p \in Proc : ~stale[p]

LEMMA AloneIsolated ==
  ASSUME \A p, q \in Proc : p = q, Shy = {}
  PROVE  Spec => []Isolated
<1>1. Init => Isolated
  BY DEF Init, Isolated
<1>2. IInv /\ Isolated /\ [Next]_vars => Isolated'
  <2> SUFFICES ASSUME IInv, Isolated, [Next]_vars PROVE Isolated'
    OBVIOUS
  <2> USE Parts
  <2>1. CASE UNCHANGED stale
    BY <2>1 DEF Isolated
  <2>2. ASSUME NEW p \in Proc, Rollback(p) \/ Commit(p) PROVE Isolated'
    <3>1. stale'[p] = FALSE
      BY <2>2 DEF Rollback, Commit
    <3>2. QED
      BY <3>1 DEF Isolated
  <2>3. ASSUME NEW p \in Proc, Step(p) \/ Fail(p) PROVE Isolated'
    BY <2>1, <2>2, <2>3, StepShape DEF GoesOn, CommitsDeletion, CommitsDrop, CommitRows
  <2>4. ~\E u \in User, open \in BOOLEAN : ChangeSettings(u, open)
    BY DEF ChangeSettings, Serial!ChangeSettings
  <2>5. QED
    BY <2>1, <2>3, <2>4 DEF Next, Step, Register, Send, DeleteMessage, Submit, vars
<1>3. QED
  BY <1>1, <1>2, Invariance, PTL DEF Spec

(* With one request at a time, and nobody who may change his settings in   *)
(* between, nothing is ever stale: the handlers, statement by statement,   *)
(* do what Channels says of them (chat.rs:24-379).                         *)
THEOREM AloneIsSerial ==
  (\A p, q \in Proc : p = q) /\ Shy = {} => (Spec => SerialSpec)
<1> SUFFICES ASSUME \A p, q \in Proc : p = q, Shy = {} PROVE Spec => SerialSpec
  OBVIOUS
<1>1. Isolated /\ [Next]_vars =>
        [\A p \in Proc :
           pc[p] # "idle" /\ pc'[p] = "idle" /\ stale[p] => UNCHANGED tables]_vars
  BY DEF Isolated
<1>2. QED
  BY <1>1, AloneIsolated, FreshIsSerial, PTL DEF Spec, StaleCommitNothing

(* What is proved of Channels holds of ChannelTx as far as it is serial. *)
Proved == INSTANCE Channels_proofs WITH
            users <- users, allowInvites <- allowInvites, status <- status, member <- member

(* The assumptions of Channels are those of ChannelTx, and its words, in   *)
(* either instance, the same.                                              *)
LEMMA ProvedAssumptions ==
  Proved!IsFiniteSet(User) /\ Grants \subseteq [User -> Proved!Membership]
<1>1. Proved!IsFiniteSet(User)
  BY TxUserFinite DEF IsFiniteSet, Proved!IsFiniteSet
<1>2. Grants \subseteq [User -> Proved!Membership]
  BY TxGrantsType
     DEF Membership, Proved!Membership, Perm, Proved!Perm, NoRow, Proved!NoRow,
         Manager, Proved!Manager, ReadOnly, Proved!ReadOnly, ReadWrite, Proved!ReadWrite
<1>3. QED
  BY <1>1, <1>2

LEMMA ProvedWords ==
  /\ Proved!NoRow = Serial!NoRow /\ Proved!Manager = Serial!Manager
  /\ Proved!ReadWrite = Serial!ReadWrite /\ Proved!Perm = Serial!Perm
BY DEF Serial!NoRow, Proved!NoRow, Serial!Manager, Proved!Manager, Serial!ReadOnly,
       Proved!ReadOnly, Serial!ReadWrite, Proved!ReadWrite, Serial!Perm, Proved!Perm

LEMMA ProvedCount ==
  ASSUME NEW c
  PROVE  Proved!NotOnlyManager(c) <=> Serial!NotOnlyManager(c)
<1>1. \A S : Proved!Cardinality(S) = Serial!Cardinality(S)
  BY DEF Proved!Cardinality, Serial!Cardinality
<1>2. Proved!Managers(c) = Serial!Managers(c)
  BY ProvedWords DEF Proved!Managers, Serial!Managers
<1>3. QED
  BY <1>1, <1>2 DEF Proved!NotOnlyManager, Serial!NotOnlyManager

LEMMA ProvedSteps == [Serial!Next]_Serial!vars => [Proved!Next]_Proved!vars
<1> USE ProvedWords
<1>1. ASSUME NEW u \in User, NEW open \in BOOLEAN,
             Serial!Register(u, open) \/ Serial!ChangeSettings(u, open) \/ Serial!DeleteUser(u)
      PROVE  Proved!Register(u, open) \/ Proved!ChangeSettings(u, open) \/ Proved!DeleteUser(u)
  BY <1>1 DEF Serial!Register, Proved!Register, Serial!ChangeSettings, Proved!ChangeSettings,
              Serial!DeleteUser, Proved!DeleteUser
<1>2. ASSUME NEW c \in Channel, NEW u \in User, NEW g \in Grants,
             Serial!CreateChannel(c, u, g)
      PROVE  Proved!CreateChannel(c, u, g)
  BY <1>2 DEF Serial!CreateChannel, Proved!CreateChannel
<1>3. ASSUME NEW c \in Channel, NEW u \in User, Serial!DeleteChannel(c, u)
      PROVE  Proved!DeleteChannel(c, u)
  BY <1>3 DEF Serial!DeleteChannel, Proved!DeleteChannel
<1>4. ASSUME NEW c \in Channel, NEW u \in User, NEW v \in User, Serial!Invite(c, u, v)
      PROVE  Proved!Invite(c, u, v)
  BY <1>4 DEF Serial!Invite, Proved!Invite, Serial!IsMember, Proved!IsMember
<1>5. ASSUME NEW c \in Channel, NEW u \in User, NEW v \in User, Serial!Uninvite(c, u, v)
      PROVE  Proved!Uninvite(c, u, v)
  BY <1>5, ProvedCount DEF Serial!Uninvite, Proved!Uninvite, Serial!IsMember, Proved!IsMember
<1>6. ASSUME NEW c \in Channel, NEW u \in User, NEW v \in User, NEW p \in Serial!Perm,
             Serial!SetPerm(c, u, v, p)
      PROVE  Proved!SetPerm(c, u, v, p)
  BY <1>6, ProvedCount DEF Serial!SetPerm, Proved!SetPerm, Serial!IsMember, Proved!IsMember
<1>7. Serial!Next => Proved!Next
  BY <1>1, <1>2, <1>3, <1>4, <1>5, <1>6 DEF Serial!Next, Proved!Next
<1>8. QED
  BY <1>7 DEF Serial!vars, Proved!vars

(* The check on the number of managers holds what it promises when no      *)
(* account is deleted and no request commits on a count that another       *)
(* commit has overtaken (chat.rs:252, chat.rs:339).                        *)
THEOREM FreshIsManaged ==
  Leaver = {} => (Spec /\ StaleCommitNothing => []EveryChannelManaged)
<1> SUFFICES ASSUME Leaver = {} PROVE Spec /\ StaleCommitNothing => []EveryChannelManaged
  OBVIOUS
<1>1. Proved!Spec => []Proved!EveryChannelManaged
  BY Proved!Managed, ProvedAssumptions, TxLeaverType, PTL
<1>2. Serial!Init => Proved!Init
  BY ProvedWords DEF Serial!Init, Proved!Init
<1>3. Proved!EveryChannelManaged => EveryChannelManaged
  BY ProvedWords DEF Proved!EveryChannelManaged, EveryChannelManaged,
                     Serial!EveryChannelManaged, Proved!HasManager, Serial!HasManager
<1>4. QED
  BY <1>1, <1>2, <1>3, ProvedSteps, FreshIsSerial, PTL DEF SerialSpec, Serial!Spec, Proved!Spec
=============================================================================
