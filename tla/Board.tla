-------------------------------- MODULE Board --------------------------------
(***************************************************************************)
(* What the tables of posts promise to those who do not see how requests   *)
(* interleave: every request takes effect at one instant or not at all, on *)
(* a board whose references hold at that instant, and takes with it what   *)
(* refers to what it removes.                                              *)
(***************************************************************************)
EXTENDS Threads

VARIABLES
  accounts,    \* the users that are registered
  posts,       \* each id: "unused", "stored", "deleted"
  reaction,    \* of each user on each post; "none" is no row
  blocks       \* who blocks whom

board == <<accounts, posts, reaction, blocks>>

On(m) == posts[m] = "stored"

Init ==
  /\ accounts = User
  /\ posts = [m \in Post |-> IF m \in Start THEN "stored" ELSE "unused"]
  /\ reaction = [m \in Post |-> [u \in User |-> "none"]]
  /\ blocks = {}

Publish(m) ==
  /\ posts[m] = "unused"
  /\ Author[m] \in accounts
  /\ Parent[m] = NoPost \/ On(Parent[m])
  /\ posts' = [posts EXCEPT ![m] = "stored"]
  /\ UNCHANGED <<accounts, reaction, blocks>>

React(m, u, x) ==
  /\ On(m) /\ u \in accounts
  /\ reaction' = [reaction EXCEPT ![m][u] = x]
  /\ UNCHANGED <<accounts, posts, blocks>>

(* The posts S leave, and the reactions on them and of the users gone. *)
Leave(S, gone) ==
  /\ posts' = [m \in Post |-> IF m \in S /\ On(m) THEN "deleted" ELSE posts[m]]
  /\ reaction' = [m \in Post |-> [u \in User |->
                    IF m \in S \/ u \in gone THEN "none" ELSE reaction[m][u]]]

Unpublish(m) ==
  /\ On(m)
  /\ Leave(Below(m), {})
  /\ UNCHANGED <<accounts, blocks>>

Block(u, v) ==
  /\ u # v /\ {u, v} \subseteq accounts
  /\ blocks' = blocks \cup {<<u, v>>}
  /\ UNCHANGED <<accounts, posts, reaction>>

Unblock(u, v) ==
  /\ <<u, v>> \in blocks
  /\ blocks' = blocks \ {<<u, v>>}
  /\ UNCHANGED <<accounts, posts, reaction>>

Drop(u) ==
  /\ u \in accounts
  /\ Leave(UNION {Below(m) : m \in PostsOf(u)}, {u})
  /\ accounts' = accounts \ {u}
  /\ blocks' = {b \in blocks : u \notin {b[1], b[2]}}

Next ==
  \/ \E m \in Post : Publish(m) \/ Unpublish(m)
  \/ \E m \in Post, u \in User, x \in Reaction : React(m, u, x)
  \/ \E u, v \in User : Block(u, v) \/ Unblock(u, v)
  \/ \E u \in User : Drop(u)

Spec == Init /\ [][Next]_board
=============================================================================
