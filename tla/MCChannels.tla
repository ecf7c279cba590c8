----------------------------- MODULE MCChannels -----------------------------
(* Small instances of Channels for TLC. *)
EXTENDS Channels, TLC

CONSTANTS u1, u2, u3, c1, c2

MCUser == {u1, u2, u3}
MCChannels == {c1, c2}

(* Lists of at most two members, with any permission each. *)
MCGrants ==
  {g \in [User -> Membership] : Cardinality({u \in User : g[u] # NoRow}) <= 2}

MCSymmetry == Permutations(MCUser) \cup Permutations(MCChannels)
=============================================================================
