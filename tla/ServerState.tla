----------------------------- MODULE ServerState -----------------------------
(***************************************************************************)
(* The state the server keeps in memory, and the end of the server.        *)
(*                                                                         *)
(* The main task runs three futures in one select!: the gRPC server, the   *)
(* console and the maintenance loop; it ends with the first of them.  The  *)
(* handlers of requests are tasks of their own and run in parallel.  A     *)
(* request passes the cooldown of its method and then asks for a code      *)
(* (user.verify_email), presents one (user.create, user.update), or asks   *)
(* for the status, whose lock the maintenance takes too.                   *)
(*                                                                         *)
(* Composes Cooldowns and Emails.                                          *)
(***************************************************************************)
EXTENDS Cooldowns, Emails, FiniteSets

(* One address, with the methods that matter here: its keys. *)
ASSUME KeysAreMethods == Key \subseteq {"mail", "verify", "status"}

VARIABLES
  main,      \* where the main task is
  lock,      \* who holds the lock of the status
  unscanned, \* the shards maintain has not come to yet
  typed,     \* "exit" has been typed and not been executed yet
  draining   \* the server has been told to stop

server == <<main, lock, unscanned, typed, draining>>
vars == <<clock, cooldowns, emails, server>>

Free == "Free"
Main == "Main"
ASSUME ProcType == Free \notin Proc /\ Main \notin Proc

TypeOK ==
  /\ CooldownTypeOK
  /\ EmailTypeOK
  /\ main \in {"select", "lock", "scan", "sweep", "hung", "exited"}
  /\ lock \in Proc \cup {Free, Main}
  /\ unscanned \subseteq Shard
  /\ typed \in BOOLEAN
  /\ draining \in BOOLEAN
  /\ lock = Main <=> main \in {"scan", "sweep", "hung"}
  /\ main = "hung" <=> held # {}
  /\ \A p \in Proc : at[p] = "status" <=> lock = p
  /\ \A p \in Proc : at[p] # "idle" <=> call[p] = "admitted"

Init ==
  /\ CooldownInit
  /\ EmailInit
  /\ main = "select"
  /\ lock = Free
  /\ unscanned = {}
  /\ typed = FALSE
  /\ draining = FALSE

Pass == Tick /\ UNCHANGED <<cooldowns, emails, server>>

-----------------------------------------------------------------------------
(* The handler of an admitted request starts.  The code it presents is one *)
(* that its user got in some mail, or none at all.                         *)
Begin(p) ==
  /\ \/ /\ key'[p] = "mail"
        /\ Goto(p, "draw")
        /\ \E e \in Email : job' = [job EXCEPT ![p] = [email |-> e, code |-> NoCode, expires |-> 0]]
     \/ /\ key'[p] = "verify"
        /\ Goto(p, "compare")
        /\ \E e \in Email : \E c \in {NoCode} \cup {m[2] : m \in mailed} :
             job' = [job EXCEPT ![p] = [email |-> e, code |-> c, expires |-> 0]]
     \/ /\ key'[p] = "status"
        /\ Goto(p, "lock")
        /\ UNCHANGED job
  /\ UNCHANGED <<registry, held, drawn, mailed, latest, spent, raced, alone>>

(* Bound: there is a code for everyone who may come to draw one. *)
CodeLeft ==
  Cardinality({p \in Proc : key[p] = "mail" /\ at[p] \in {"idle", "draw"}})
    < Cardinality(Code \ drawn)

(* A server that drains accepts no request. *)
Receive(p, k) ==
  /\ ~draining
  /\ k = "mail" => CodeLeft
  /\ Arrive(p, k)
  /\ \/ call'[p] = "admitted" /\ Begin(p)
     \/ call'[p] = "stamped" /\ UNCHANGED emails
  /\ UNCHANGED server

Throttle(p) ==
  /\ \/ Admit(p) /\ Begin(p)
     \/ Refuse(p) /\ UNCHANGED emails
  /\ UNCHANGED server

EndsWith(p) == IF at'[p] = "idle" THEN Leave(p) ELSE UNCHANGED cooldowns

Handle(p) ==
  /\ \/ \E c \in Code : Draw(p, c)
     \/ Deliver(p)
     \/ GiveUp(p)
     \/ Insert(p)
     \/ Compare(p)
     \/ Remove(p)
  /\ EndsWith(p)
  /\ UNCHANGED server

OnlyJob == UNCHANGED <<clock, registry, held, drawn, mailed, latest, spent>>

(* status takes the lock and reports, among others, how many entries the   *)
(* registry has.                                                           *)
StatusLock(p) ==
  /\ at[p] = "lock"
  /\ lock = Free
  /\ lock' = p
  /\ Goto(p, "status")
  /\ OnlyJob
  /\ UNCHANGED <<cooldowns, job, raced, alone, main, unscanned, typed, draining>>

StatusAnswer(p) ==
  /\ at[p] = "status"
  /\ lock' = Free
  /\ End(p)
  /\ Leave(p)
  /\ OnlyJob
  /\ UNCHANGED <<main, unscanned, typed, draining>>

(* A mutant of Timeout: none is configured.  *)
MutTimeout(p) == FALSE

(* The timeout of the server, for a request that waits for the lock. *)
Timeout(p) ==
  /\ at[p] = "lock"
  /\ End(p)
  /\ Leave(p)
  /\ OnlyJob
  /\ UNCHANGED server

Request(p) == Throttle(p) \/ Handle(p) \/ StatusLock(p) \/ StatusAnswer(p) \/ Timeout(p)

-----------------------------------------------------------------------------
(* maintain: the interval ticks, the status is locked, the emails are      *)
(* maintained and then the cooldowns.  Only the first of these waits.      *)
MaintainTick ==
  /\ main = "select"
  /\ main' = "lock"
  /\ UNCHANGED <<clock, cooldowns, emails, lock, unscanned, typed, draining>>

(* A mutant of MaintainLock: it does not wait for the lock.  *)
MutMaintainLock ==
  /\ main = "lock"
  /\ lock' = Main
  /\ main' = "scan"
  /\ unscanned' = Shard
  /\ UNCHANGED <<clock, cooldowns, emails, typed, draining>>

MaintainLock ==
  /\ main = "lock"
  /\ lock = Free
  /\ lock' = Main
  /\ main' = "scan"
  /\ unscanned' = Shard
  /\ UNCHANGED <<clock, cooldowns, emails, typed, draining>>

Scan(s) ==
  /\ main = "scan"
  /\ s \in unscanned
  /\ \/ /\ Hang(s)
        /\ main' = "hung"
        /\ UNCHANGED <<cooldowns, lock, unscanned>>
     \/ /\ \A e \in Email : ShardOf[e] = s => ~Expired(e)
        /\ unscanned' = unscanned \ {s}
        /\ UNCHANGED <<clock, cooldowns, emails, main, lock>>
  /\ UNCHANGED <<typed, draining>>

Sweep ==
  /\ \/ /\ main = "scan"
        /\ unscanned = {}
        /\ SweepStart
        /\ main' = "sweep"
        /\ UNCHANGED lock
     \/ /\ main = "sweep"
        /\ \E k \in Key : SweepKey(k)
        /\ UNCHANGED <<main, lock>>
     \/ /\ main = "sweep"
        /\ SweepEnd
        /\ main' = "select"
        /\ lock' = Free
  /\ UNCHANGED <<emails, unscanned, typed, draining>>

Maintain == MaintainTick \/ MaintainLock \/ (\E s \in Shard : Scan(s)) \/ Sweep

-----------------------------------------------------------------------------
TypeExit ==
  /\ ~typed
  /\ typed' = TRUE
  /\ UNCHANGED <<clock, cooldowns, emails, main, lock, unscanned, draining>>

AtRest == main \in {"select", "lock"}

(* A mutant of Exit: the server does not wait for the notification.  *)
MutExit ==
  /\ AtRest
  /\ typed
  /\ typed' = FALSE
  /\ main' = IF main = "select" THEN "exited" ELSE main
  /\ UNCHANGED <<clock, cooldowns, emails, lock, unscanned, draining>>

(* set_exit wakes those who wait for it now: the server, which stops to    *)
(* accept, and maintain if it is in its select!; then the main task ends.  *)
Exit ==
  /\ AtRest
  /\ typed
  /\ typed' = FALSE
  /\ draining' = TRUE
  /\ main' = IF main = "select" THEN "exited" ELSE main
  /\ UNCHANGED <<clock, cooldowns, emails, lock, unscanned>>

(* The last connection of the server is closed. *)
Drained ==
  /\ AtRest
  /\ draining
  /\ \A p \in Proc : call[p] = "idle"
  /\ main' = "exited"
  /\ UNCHANGED <<clock, cooldowns, emails, lock, unscanned, typed, draining>>

Alive == main # "exited"

Next ==
  /\ Alive
  /\ \/ Pass
     \/ \E p \in Proc, k \in Key : Receive(p, k)
     \/ \E p \in Proc : Request(p)
     \/ Maintain
     \/ TypeExit
     \/ Exit
     \/ Drained

Spec == Init /\ [][Next]_vars

(* A task that can go on does.  The status lock is first come, first       *)
(* served, and so are the shards, nearly; the main task sleeps between two *)
(* ticks of its interval, where it executes what was typed.  Connections   *)
(* have a maximal age.                                                     *)
FairSpec ==
  /\ Spec
  /\ \A p \in Proc : SF_vars(Alive /\ Request(p))
  /\ SF_vars(Alive /\ Maintain)
  /\ SF_vars(Alive /\ Exit)
  /\ SF_vars(Alive /\ Drained)

-----------------------------------------------------------------------------
(* A thread that wants to write to a shard maintain holds, for ever. *)
Blocked(p) == at[p] \in {"insert", "remove"} /\ ShardOf[job[p].email] \in held

(* Every request ends, even when the main task hangs, except those that    *)
(* need to write to the very shard it holds (email.rs:138).                *)
RequestsEnd ==
  \A p \in Proc : call[p] # "idle" ~> call[p] = "idle" \/ Blocked(p) \/ ~Alive

(* The server stops after "exit", whether or not maintain was there to be  *)
(* notified (mod.rs:110), unless maintain hangs or a request does.         *)
ExitStops == typed ~> main \in {"exited", "hung"}

(* "exit" ends the server (console/general.rs:10). *)
ExitCompletes == typed ~> main = "exited"
=============================================================================
