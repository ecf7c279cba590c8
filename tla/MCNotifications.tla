--------------------------- MODULE MCNotifications ---------------------------
(* A small instance of Notifications for TLC. *)
EXTENDS Notifications, TLC

CONSTANTS u1, u2, u3, m1, m2, p1, p2

MCUser == {u1, u2, u3}
MCAuthor == (m1 :> u1) @@ (m2 :> u2)
MCStart == (u1 :> Manager) @@ (u2 :> ReadWrite) @@ (u3 :> NoRow)

(* The manager can lose the right to write, and the receiver comes and     *)
(* goes.                                                                   *)
MCChanges == {<<u1, ReadOnly>>, <<u3, ReadWrite>>, <<u3, NoRow>>}

(* Everything about the messages, and updates of the user who receives.    *)
MCRequests ==
  {r \in Request :
     \/ r.op = "send" /\ (r.console => r.m = m1)
     \/ r.op = "delete" /\ r.m = m1 /\ r.by = u1
     \/ r.op = "update" /\ r.by = u3}

(* Two messages to the same two recipients, and an update of one of them.  *)
MCOneAuthor == (m1 :> u1) @@ (m2 :> u1)
MCAllMembers == (u1 :> Manager) @@ (u2 :> ReadOnly) @@ (u3 :> ReadOnly)
MCLockingRequests ==
  {r \in Request :
     \/ r.op = "send" /\ ~r.console
     \/ r.op = "delete" /\ r.m = m1 /\ r.by = u1
     \/ r.op = "update" /\ r.by = u3}

MCSymmetry == Permutations(Proc)
=============================================================================
