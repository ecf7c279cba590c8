-------------------------------- MODULE Store --------------------------------
(***************************************************************************)
(* What the resources of channels and posts are to those who download      *)
(* them: objects that appear at one instant, whole, and are never changed  *)
(* again, until their owner leaves.  A key is used once.                   *)
(***************************************************************************)
CONSTANTS
  User,
  Fresh,      \* the keys the id factory hands out
  Content,    \* what can be stored
  Members     \* who is there in the beginning

VARIABLES
  owners,     \* the users that are registered
  object,     \* what there is under each key: whose, and which content
  spent       \* the keys nothing will be stored under any more

store == <<owners, object, spent>>

NoObject == [by |-> "nobody", holds |-> {}]

Init ==
  /\ owners = Members
  /\ object = [f \in Fresh |-> NoObject]
  /\ spent = {}

Put(f, u, c) ==
  /\ f \notin spent /\ u \in owners
  /\ object' = [object EXCEPT ![f] = [by |-> u, holds |-> {c}]]
  /\ spent' = spent \cup {f}
  /\ UNCHANGED owners

GiveUp(f) ==
  /\ f \notin spent
  /\ spent' = spent \cup {f}
  /\ UNCHANGED <<owners, object>>

Join(u) ==
  /\ u \notin owners
  /\ owners' = owners \cup {u}
  /\ UNCHANGED <<object, spent>>

Leave(u) ==
  /\ u \in owners
  /\ owners' = owners \ {u}
  /\ object' = [f \in Fresh |-> IF object[f] # NoObject /\ object[f].by = u THEN NoObject
                                ELSE object[f]]
  /\ UNCHANGED spent

Next ==
  \/ \E f \in Fresh, u \in User, c \in Content : Put(f, u, c)
  \/ \E f \in Fresh : GiveUp(f)
  \/ \E u \in User : Join(u) \/ Leave(u)

Spec == Init /\ [][Next]_store
=============================================================================
