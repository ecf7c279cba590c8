---------------------------- MODULE MCChannelTx ----------------------------
(* Small instances of ChannelTx for TLC. *)
EXTENDS ChannelTx, TLC

CONSTANTS u1, u2, u3, c1, c2, p1, p2

MCUser == {u1, u2, u3}
MCTwoUsers == {u1, u2}

Granted(g) == {u \in User : g[u] # NoRow}

(* No members, as from the console, or everyone as a plain member. *)
MCGrants ==
  {g \in [User -> {NoRow, ReadWrite}] : Granted(g) \in {{}, User}}

MCRequests == Request
MCMembershipRequests == {r \in Request : r.op # "dropUser"}

(* One message, of u1 or of u3, in c1. *)
MCMessage == {[c |-> c1, by |-> u1]}
MCMessageOfLeaver == {[c |-> c1, by |-> u3]}

(* The requests that lock rows of users, and those that delete users and   *)
(* channels: two channels created by u1, of all users, which u1 deletes    *)
(* again, and u3, who is removed or leaves.                                *)
MCLockingRequests ==
  {r \in Request :
     \/ r.op = "create" /\ r.by = u1 /\ Granted(r.grants) = User
     \/ r.op = "delete" /\ r.by = u1 /\ r.c = c1
     \/ r.op = "uninvite" /\ r.to = u3
     \/ r.op = "dropUser"}

MCSymmetry == Permutations(Proc)
=============================================================================
