----------------------------- MODULE MCPosting ------------------------------
(* Small instances of Posting for TLC. *)
EXTENDS Posting, TLC

CONSTANTS u1, u2, m1, m2, p1, p2, p3

MCUser == {u1, u2}
MCPost == {m1, m2}

(* u1 has published m1, u2 comments on it. *)
MCAuthor == (m1 :> u1) @@ (m2 :> u2)
MCParent == (m1 :> NoPost) @@ (m2 :> m1)

Publish2 == [op |-> "publish", m |-> m2, by |-> u2, text |-> TRUE]
Picture2 == [op |-> "publish", m |-> m2, by |-> u2, text |-> FALSE]
React1 == [op |-> "react", m |-> m1, by |-> u1, reaction |-> "like"]
React2(x) == [op |-> "react", m |-> m1, by |-> u2, reaction |-> x]
Unpublish1 == [op |-> "unpublish", m |-> m1, by |-> u1]
Block2(on) == [op |-> "block", by |-> u2, to |-> u1, on |-> on]
Retag(u) == [op |-> "update", by |-> u, tags |-> TRUE, email |-> u = u2]
Delete(u) == [op |-> "drop", by |-> u]
Queries == {[op |-> "get", by |-> u2, of |-> MCPost], [op |-> "search", by |-> u2, of |-> MCPost],
            [op |-> "getOf", by |-> u2, author |-> u1], [op |-> "feed", by |-> u2]}

All ==
  {Publish2, Picture2, Unpublish1, Block2(TRUE), Block2(FALSE),
   Retag(u1), Retag(u2), Delete(u1), Delete(u2)}
  \cup {React2(x) : x \in Reaction} \cup Queries

(* Every two requests, and a reaction to the own post of a user who        *)
(* leaves.  Three where the third one matters: a reaction that is taken    *)
(* back, a block that is, more jobs than the embedder takes, a post, its   *)
(* comment and the account of one of them deleted together.  And four: two *)
(* deletions of accounts whose cascades share rows, a block and a reaction *)
(* that have been written before.                                          *)
MCWorkloads ==
  {{r, s} : r \in All, s \in All} \cup {{React1, Delete(u1)}}
  \cup {{React2("like"), React2("none"), r} : r \in {React2("dislike"), Delete(u2)}}
  \cup {{Block2(TRUE), Block2(FALSE), r} : r \in Queries}
  \cup {{Publish2, Retag(u1), Retag(u2)}, {Publish2, React2("like"), Delete(u1)}}
  \cup {{Block2(TRUE), React2("like"), Delete(u1), Delete(u2)}}
=============================================================================
