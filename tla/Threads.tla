------------------------------- MODULE Threads -------------------------------
(***************************************************************************)
(* The posts there can be: who publishes each of them, which post it       *)
(* comments on, and the posts that are deleted together with it.           *)
(***************************************************************************)
CONSTANTS
  User,
  Post,        \* the post ids the id factory hands out
  Author,      \* who publishes each of them
  Parent,      \* the post it comments on
  Start        \* the posts there are in the beginning

NoPost == "NoPost"
Reaction == {"none", "like", "dislike"}

ASSUME AuthorType == Author \in [Post -> User]
ASSUME ParentType == Parent \in [Post -> Post \cup {NoPost}] /\ NoPost \notin Post
ASSUME StartType ==
  Start \subseteq Post /\ \A m \in Start : Parent[m] \in Start \cup {NoPost}

(* m is deleted together with everything below it. *)
Below(m) ==
  {x \in Post : \A S \in SUBSET Post :
     m \in S /\ (\A y \in Post : Parent[y] \in S => y \in S) => x \in S}

PostsOf(u) == {m \in Post : Author[m] = u}
=============================================================================
