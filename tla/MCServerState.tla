---------------------------- MODULE MCServerState ----------------------------
(* Small instances of ServerState for TLC. *)
EXTENDS ServerState, TLC

CONSTANTS e1, e2, s1, s2

(* Two addresses fall into different shards. *)
MCShardOf == [e \in Email |-> IF e = e1 THEN s1 ELSE s2]

(* Presenting a code has a cooldown, and nothing else has. *)
MCCooldown == [k \in Key |-> IF k = "verify" THEN 1 ELSE 0]

MCNoCooldown == [k \in Key |-> 0]

MCSymmetry == Permutations(Proc) \cup Permutations(Code)
=============================================================================
