------------------------------ MODULE Cooldowns ------------------------------
(***************************************************************************)
(* The cooldowns of methods: an address that has been admitted to a method *)
(* is refused until the cooldown of the method is over.                    *)
(*                                                                         *)
(* throttle takes the time first and then waits for the entry of its key   *)
(* in the map, where it compares, admits or refuses, and stores the time   *)
(* it took.  maintain takes the time once and then goes through the map,   *)
(* dropping the entries whose cooldown is over.  A key is an address       *)
(* together with a method.                                                 *)
(***************************************************************************)
EXTENDS Requests

CONSTANTS
  Key,
  Cooldown  \* of each key, 0 where no cooldown is configured

ASSUME CooldownType == Cooldown \in [Key -> Nat]

VARIABLES
  map,       \* the time stored for each key
  call,      \* the state of each request: "idle", "stamped", "admitted"
  key, stamp,  \* its key, and the time it took
  sweep,     \* the time maintain took, while it goes through the map
  unswept,   \* the entries it has not come to yet
  last       \* auxiliary: the time taken by the request last admitted

cooldowns == <<map, call, key, stamp, sweep, unswept, last>>
cooldownVars == <<clock, cooldowns>>

NoKey == "NoKey"
ASSUME KeyIsKey == NoKey \notin Key

Vacant == -1
Time == Nat \cup {Vacant}

CooldownTypeOK ==
  /\ clock \in Nat
  /\ map \in [Key -> Time]
  /\ call \in [Proc -> {"idle", "stamped", "admitted"}]
  /\ key \in [Proc -> Key \cup {NoKey}]
  /\ stamp \in [Proc -> Time]
  /\ sweep \in Time
  /\ unswept \subseteq Key
  /\ last \in [Key -> Time]
  /\ \A p \in Proc : key[p] = NoKey <=> call[p] = "idle"

CooldownInit ==
  /\ clock = 0
  /\ map = [k \in Key |-> Vacant]
  /\ call = [p \in Proc |-> "idle"]
  /\ key = [p \in Proc |-> NoKey]
  /\ stamp = [p \in Proc |-> Vacant]
  /\ sweep = Vacant
  /\ unswept = {}
  /\ last = [k \in Key |-> Vacant]

(* The first half of throttle.  A method without a cooldown is admitted.   *)
Arrive(p, k) ==
  /\ call[p] = "idle"
  /\ key' = [key EXCEPT ![p] = k]
  /\ \/ /\ Cooldown[k] = 0
        /\ call' = [call EXCEPT ![p] = "admitted"]
        /\ UNCHANGED stamp
     \/ /\ Cooldown[k] > 0
        /\ call' = [call EXCEPT ![p] = "stamped"]
        /\ stamp' = [stamp EXCEPT ![p] = clock]
  /\ UNCHANGED <<clock, map, sweep, unswept, last>>

(* A mutant of Over: the cooldown runs from the start of the server.  *)
MutOver(k, now) == Cooldown[k] <= now

Over(k, now) == map[k] + Cooldown[k] <= now

(* The second half, under the lock of the entry. *)
Admit(p) ==
  LET k == key[p]
  IN /\ call[p] = "stamped"
     /\ map[k] = Vacant \/ Over(k, stamp[p])
     /\ map' = [map EXCEPT ![k] = stamp[p]]
     /\ last' = [last EXCEPT ![k] = stamp[p]]
     /\ call' = [call EXCEPT ![p] = "admitted"]
     /\ stamp' = [stamp EXCEPT ![p] = Vacant]
     /\ UNCHANGED <<clock, key, sweep, unswept>>

Refuse(p) ==
  /\ call[p] = "stamped"
  /\ map[key[p]] # Vacant /\ ~Over(key[p], stamp[p])
  /\ call' = [call EXCEPT ![p] = "idle"]
  /\ key' = [key EXCEPT ![p] = NoKey]
  /\ stamp' = [stamp EXCEPT ![p] = Vacant]
  /\ UNCHANGED <<clock, map, sweep, unswept, last>>

(* The handler, at the end of the request. *)
Leave(p) ==
  /\ call[p] = "admitted"
  /\ call' = [call EXCEPT ![p] = "idle"]
  /\ key' = [key EXCEPT ![p] = NoKey]
  /\ UNCHANGED <<clock, map, stamp, sweep, unswept, last>>

SweepStart ==
  /\ sweep = Vacant
  /\ sweep' = clock
  /\ unswept' = {k \in Key : Cooldown[k] > 0}
  /\ UNCHANGED <<clock, map, call, key, stamp, last>>

SweepKey(k) ==
  /\ k \in unswept
  /\ unswept' = unswept \ {k}
  /\ map' = IF map[k] # Vacant /\ Over(k, sweep) THEN [map EXCEPT ![k] = Vacant] ELSE map
  /\ UNCHANGED <<clock, call, key, stamp, sweep, last>>

SweepEnd ==
  /\ sweep # Vacant
  /\ unswept = {}
  /\ sweep' = Vacant
  /\ UNCHANGED <<clock, map, call, key, stamp, unswept, last>>

CooldownNext ==
  \/ Tick /\ UNCHANGED cooldowns
  \/ \E p \in Proc, k \in Key : Arrive(p, k)
  \/ \E p \in Proc : Admit(p) \/ Refuse(p) \/ Leave(p)
  \/ SweepStart
  \/ \E k \in Key : SweepKey(k)
  \/ SweepEnd

CooldownSpec == CooldownInit /\ [][CooldownNext]_cooldownVars

-----------------------------------------------------------------------------
(* A request is admitted no sooner than a cooldown after the time that the *)
(* one admitted before it, on the same key, had taken, however long either *)
(* waited for the entry and whatever maintain dropped meanwhile.  The      *)
(* times they took may be closer (cooldowns.rs:54).                        *)
AdmittedApart ==
  [][\A p \in Proc :
       call[p] = "stamped" /\ call'[p] = "admitted" =>
         LET k == key[p] IN last[k] = Vacant \/ clock >= last[k] + Cooldown[k]]_cooldownVars
=============================================================================
