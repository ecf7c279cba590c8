-------------------------------- MODULE Emails --------------------------------
(***************************************************************************)
(* The registry of verification codes: one entry per address, in a DashMap *)
(* whose shards are locked one at a time.                                  *)
(*                                                                         *)
(* register_email draws a code, mails it and then enters it; verify_email  *)
(* reads the code of the entry, compares it, and then removes the entry.   *)
(* maintain goes through the shards, each locked for reading while it is   *)
(* looked at, and removes what has expired, for which it wants to lock the *)
(* same shard for writing.                                                 *)
(*                                                                         *)
(* A code is drawn once: that two draws agree, or that somebody enters a   *)
(* code that was never mailed, is left out.                                *)
(***************************************************************************)
EXTENDS Requests

CONSTANTS
  Email,
  Code,     \* the codes the random generator draws, one after the other
  Shard,
  ShardOf,  \* the shard of the map that an address falls into
  Exp       \* how long a code is said to be valid

ASSUME ShardOfType == ShardOf \in [Email -> Shard]
ASSUME ExpType == Exp \in Nat

VARIABLES
  registry,  \* the entry of each address
  at,        \* what each request does next
  job,       \* the address, the code and, when it registers, the expiry
  held,      \* the shards maintain holds for ever
  drawn,     \* the codes that have been drawn
  mailed,    \* auxiliary: which code has been mailed where
  latest,    \* auxiliary: the code that was mailed last
  spent,     \* auxiliary: the codes that have been accepted
  raced,     \* auxiliary: the entry has changed since the request read it
  alone      \* auxiliary: no other request has registered the address since

mail == <<drawn, mailed, latest>>
ghost == <<raced, alone>>
emails == <<registry, at, job, held, mail, spent, ghost>>

NoCode == "NoCode"
ASSUME CodeIsCode == NoCode \notin Code

Entry == [code : Code, expires : Nat]
NoEntry == [code |-> NoCode, expires |-> 0]
NoJob == [email |-> "NoEmail"]
Job == [email : Email, code : Code \cup {NoCode}, expires : Nat]

Registering == {"draw", "sending", "insert"}
Verifying == {"compare", "remove"}

EmailTypeOK ==
  /\ clock \in Nat
  /\ registry \in [Email -> Entry \cup {NoEntry}]
  /\ at \in [Proc -> {"idle", "lock", "status"} \cup Registering \cup Verifying]
  /\ job \in [Proc -> Job \cup {NoJob}]
  /\ held \subseteq Shard
  /\ drawn \subseteq Code
  /\ mailed \subseteq Email \X drawn
  /\ latest \in [Email -> drawn \cup {NoCode}]
  /\ spent \subseteq drawn
  /\ raced \in [Proc -> BOOLEAN]
  /\ alone \in [Proc -> BOOLEAN]
  /\ \A p \in Proc : at[p] \in Registering \cup Verifying <=> job[p] # NoJob

EmailInit ==
  /\ registry = [e \in Email |-> NoEntry]
  /\ at = [p \in Proc |-> "idle"]
  /\ job = [p \in Proc |-> NoJob]
  /\ held = {}
  /\ drawn = {}
  /\ mailed = {}
  /\ latest = [e \in Email |-> NoCode]
  /\ spent = {}
  /\ raced = [p \in Proc |-> FALSE]
  /\ alone = [p \in Proc |-> FALSE]

-----------------------------------------------------------------------------
Goto(p, next) == at' = [at EXCEPT ![p] = next]

End(p) ==
  /\ Goto(p, "idle")
  /\ job' = [job EXCEPT ![p] = NoJob]
  /\ raced' = [raced EXCEPT ![p] = FALSE]
  /\ alone' = [alone EXCEPT ![p] = FALSE]

Registers(q, e) == at[q] \in {"sending", "insert"} /\ job[q].email = e

(* The expiry is counted from before the mail is sent. *)
Draw(p, c) ==
  LET e == job[p].email
  IN /\ at[p] = "draw"
     /\ c \in Code \ drawn
     /\ drawn' = drawn \cup {c}
     /\ job' = [job EXCEPT ![p].code = c, ![p].expires = clock + Exp]
     /\ Goto(p, "sending")
     /\ alone' = [q \in Proc |-> IF q = p THEN ~\E r \in Proc : Registers(r, e)
                                 ELSE alone[q] /\ ~Registers(q, e)]
     /\ UNCHANGED <<clock, registry, held, mailed, latest, spent, raced>>

Delivered(p) ==
  /\ mailed' = mailed \cup {<<job[p].email, job[p].code>>}
  /\ latest' = [latest EXCEPT ![job[p].email] = job[p].code]
  /\ UNCHANGED drawn

Deliver(p) ==
  /\ at[p] = "sending"
  /\ Delivered(p)
  /\ Goto(p, "insert")
  /\ UNCHANGED <<clock, registry, job, held, spent, ghost>>

(* The transport reports an error, which is a panic, or the request is     *)
(* given up: the mail may be on its way all the same.                      *)
GiveUp(p) ==
  /\ at[p] = "sending"
  /\ Delivered(p) \/ UNCHANGED mail
  /\ End(p)
  /\ UNCHANGED <<clock, registry, held, spent>>

(* The entry of e changes under whoever has just read it. *)
Race(p, e) ==
  /\ Goto(p, "idle")
  /\ job' = [job EXCEPT ![p] = NoJob]
  /\ raced' = [q \in Proc |-> q # p /\ (raced[q] \/ (at[q] = "remove" /\ job[q].email = e))]
  /\ alone' = [alone EXCEPT ![p] = FALSE]

Locked(e) == ShardOf[e] \in held

(* A mutant of Insert: an entry that is there stays.  *)
MutInsert(p) ==
  LET e == job[p].email
  IN /\ at[p] = "insert"
     /\ ~Locked(e)
     /\ registry' =
          IF registry[e] # NoEntry THEN registry
          ELSE [registry EXCEPT ![e] = [code |-> job[p].code, expires |-> job[p].expires]]
     /\ Race(p, e)
     /\ UNCHANGED <<clock, held, mail, spent>>

Insert(p) ==
  LET e == job[p].email
  IN /\ at[p] = "insert"
     /\ ~Locked(e)
     /\ registry' = [registry EXCEPT ![e] = [code |-> job[p].code, expires |-> job[p].expires]]
     /\ Race(p, e)
     /\ UNCHANGED <<clock, held, mail, spent>>

(* A mutant of Matches: any code does for an address that has one.  *)
MutMatches(p) == registry[job[p].email] # NoEntry

Matches(p) == registry[job[p].email] # NoEntry /\ registry[job[p].email].code = job[p].code

(* The first half of verify_email, with a lock for reading. *)
Compare(p) ==
  /\ at[p] = "compare"
  /\ \/ Matches(p) /\ Goto(p, "remove") /\ UNCHANGED <<job, ghost>>
     \/ ~Matches(p) /\ End(p)
  /\ UNCHANGED <<clock, registry, held, mail, spent>>

(* A mutant of Remove: the entry stays until it expires.  *)
MutRemove(p) ==
  LET e == job[p].email
  IN /\ at[p] = "remove"
     /\ ~Locked(e)
     /\ spent' = spent \cup {job[p].code}
     /\ Race(p, e)
     /\ UNCHANGED <<clock, registry, held, mail>>

(* The second half, with a lock for writing: the code is accepted. *)
Remove(p) ==
  LET e == job[p].email
  IN /\ at[p] = "remove"
     /\ ~Locked(e)
     /\ registry' = [registry EXCEPT ![e] = NoEntry]
     /\ spent' = spent \cup {job[p].code}
     /\ Race(p, e)
     /\ UNCHANGED <<clock, held, mail>>

Expired(e) == registry[e] # NoEntry /\ registry[e].expires <= clock

(* maintain comes to a shard with an expired entry: the lock it wants for  *)
(* the removal is never free, since it holds the shard for reading itself. *)
Hang(s) ==
  /\ \E e \in Email : ShardOf[e] = s /\ Expired(e)
  /\ held' = held \cup {s}
  /\ UNCHANGED <<clock, registry, at, job, mail, spent, ghost>>

-----------------------------------------------------------------------------
Accepts(p) == at[p] = "remove" /\ at'[p] = "idle"

(* A code that has been accepted is in the registry no more.               *)
SpentCodesAreGone == \A e \in Email : registry[e].code \notin spent

(* A request that is accepted spends a code for the first time and removes *)
(* the entry of that code and of no other, unless the entry has changed    *)
(* between the two halves of verify_email (email.rs:113).                  *)
UnracedVerification ==
  [][\A p \in Proc :
       Accepts(p) /\ ~raced[p] =>
         job[p].code \notin spent /\ registry[job[p].email].code = job[p].code]_emails

(* Whoever registers an address without anybody else doing so meanwhile    *)
(* leaves the code that was mailed last in the registry; it can be         *)
(* otherwise when two do (email.rs:107).                                   *)
LatestMailWorks ==
  [][\A p \in Proc :
       at[p] = "insert" /\ at'[p] = "idle" /\ alone[p] =>
         registry'[job[p].email].code = latest[job[p].email]]_emails

(* A code stops working when the time comes that the mail names ("This     *)
(* code will expire in ...", email.rs:151).                                *)
ExpiredRefused ==
  [][\A p \in Proc :
       at[p] = "compare" /\ at'[p] = "remove" => ~Expired(job[p].email)]_emails
=============================================================================
