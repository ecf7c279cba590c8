---------------------------- MODULE MCResources -----------------------------
(* Small instances of Resources for TLC. *)
EXTENDS Resources, TLC

CONSTANTS u1, u2, e1, e2, e3, c1, c2, f1, f2, p1, p2, p3

(* u1 has an account; it may be deleted and registered again, by whoever   *)
(* reads e2 or e3.                                                         *)
MCMailboxes == (u1 :> e1) @@ (u2 :> NoEmail)

MCRequests ==
  [op : {"upload"}, by : {u1, u2}, to : {u1}, c : {c1}]
  \cup [op : {"upload"}, by : {u1}, to : {u1} \cup Space, c : {c2}]
  \cup [op : {"download"}, by : {u1}, of : {f1}]
  \cup [op : {"register"}, by : {u1}, email : {e2, e3}]
  \cup [op : {"register"}, by : {u2}, email : {e2}]
  \cup [op : {"delete"}, by : {u1}]
=============================================================================
