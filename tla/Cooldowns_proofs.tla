--------------------------- MODULE Cooldowns_proofs ---------------------------
(* Cooldowns for every set of keys and requests, and without its bound. *)
EXTENDS Cooldowns, TLAPS

-----------------------------------------------------------------------------
(* No time lies in the future, and a key whose entry has been dropped is   *)
(* past the cooldown of whoever was admitted last.                         *)
Past == \A t \in {sweep} \cup {stamp[p] : p \in Proc} : t <= clock

Kept ==
  \A k \in Key :
    \/ map[k] = last[k]
    \/ map[k] = Vacant /\ last[k] + Cooldown[k] <= clock

Stamped == \A p \in Proc : call[p] = "stamped" => stamp[p] \in Nat /\ key[p] \in Key

CooldownInv == CooldownTypeOK /\ Past /\ Kept /\ Stamped

LEMMA InitInv == CooldownInit => CooldownInv
BY DEF CooldownInit, CooldownInv, CooldownTypeOK, Past, Kept, Stamped, Time, Vacant

LEMMA NextTypeOK == CooldownTypeOK /\ Stamped /\ [CooldownNext]_cooldownVars => CooldownTypeOK'
<1> SUFFICES ASSUME CooldownTypeOK, Stamped, [CooldownNext]_cooldownVars PROVE CooldownTypeOK'
  OBVIOUS
<1> USE KeyIsKey DEF CooldownTypeOK, Time, Vacant
<1>1. CASE Tick /\ UNCHANGED cooldowns
  BY <1>1 DEF Tick, cooldowns
<1>2. ASSUME NEW p \in Proc, NEW k \in Key, Arrive(p, k) PROVE CooldownTypeOK'
  BY <1>2 DEF Arrive
<1>3. ASSUME NEW p \in Proc, Admit(p) PROVE CooldownTypeOK'
  BY <1>3 DEF Admit, Stamped
<1>4. ASSUME NEW p \in Proc, Refuse(p) PROVE CooldownTypeOK'
  BY <1>4 DEF Refuse
<1>5. ASSUME NEW p \in Proc, Leave(p) PROVE CooldownTypeOK'
  BY <1>5 DEF Leave
<1>6. CASE SweepStart
  BY <1>6 DEF SweepStart
<1>7. ASSUME NEW k \in Key, SweepKey(k) PROVE CooldownTypeOK'
  BY <1>7 DEF SweepKey
<1>8. CASE SweepEnd
  BY <1>8 DEF SweepEnd
<1>9. CASE UNCHANGED cooldownVars
  BY <1>9 DEF cooldownVars, cooldowns
<1>10. QED
  BY <1>1, <1>2, <1>3, <1>4, <1>5, <1>6, <1>7, <1>8, <1>9 DEF CooldownNext

LEMMA NextPast == CooldownInv /\ [CooldownNext]_cooldownVars => Past' /\ Stamped'
<1> SUFFICES ASSUME CooldownInv, [CooldownNext]_cooldownVars PROVE Past' /\ Stamped'
  OBVIOUS
<1> USE KeyIsKey DEF CooldownInv, CooldownTypeOK, Past, Stamped, Time, Vacant
<1>1. CASE Tick /\ UNCHANGED cooldowns
  BY <1>1 DEF Tick, cooldowns
<1>2. ASSUME NEW p \in Proc, NEW k \in Key, Arrive(p, k) PROVE Past' /\ Stamped'
  BY <1>2 DEF Arrive
<1>3. ASSUME NEW p \in Proc, Admit(p) PROVE Past' /\ Stamped'
  BY <1>3 DEF Admit
<1>4. ASSUME NEW p \in Proc, Refuse(p) PROVE Past' /\ Stamped'
  BY <1>4 DEF Refuse
<1>5. ASSUME NEW p \in Proc, Leave(p) PROVE Past' /\ Stamped'
  BY <1>5 DEF Leave
<1>6. CASE SweepStart
  BY <1>6 DEF SweepStart
<1>7. ASSUME NEW k \in Key, SweepKey(k) PROVE Past' /\ Stamped'
  BY <1>7 DEF SweepKey
<1>8. CASE SweepEnd
  BY <1>8 DEF SweepEnd
<1>9. CASE UNCHANGED cooldownVars
  BY <1>9 DEF cooldownVars, cooldowns
<1>10. QED
  BY <1>1, <1>2, <1>3, <1>4, <1>5, <1>6, <1>7, <1>8, <1>9 DEF CooldownNext

(* The clock, an admission and a sweep are what matters. *)
LEMMA NextKept == CooldownInv /\ [CooldownNext]_cooldownVars => Kept'
<1> SUFFICES ASSUME CooldownInv, [CooldownNext]_cooldownVars PROVE Kept'
  OBVIOUS
<1> USE CooldownType DEF CooldownInv, CooldownTypeOK, Past, Kept, Stamped, Time, Vacant
<1>1. CASE Tick /\ UNCHANGED cooldowns
  BY <1>1 DEF Tick, cooldowns
<1>2. ASSUME NEW p \in Proc, Admit(p) PROVE Kept'
  BY <1>2 DEF Admit
<1>3. ASSUME NEW k \in Key, SweepKey(k) PROVE Kept'
  <2>1. CASE map[k] # Vacant /\ Over(k, sweep)
    BY <1>3, <2>1 DEF SweepKey, Over
  <2>2. CASE ~(map[k] # Vacant /\ Over(k, sweep))
    BY <1>3, <2>2 DEF SweepKey
  <2>3. QED
    BY <2>1, <2>2
<1>4. CASE UNCHANGED <<clock, map, last>>
  BY <1>4
<1>5. QED
  BY <1>1, <1>2, <1>3, <1>4
  DEF CooldownNext, cooldownVars, cooldowns, Arrive, Refuse, Leave, SweepStart, SweepEnd

LEMMA Invariance == CooldownSpec => []CooldownInv
<1>1. CooldownInv /\ [CooldownNext]_cooldownVars => CooldownInv'
  BY NextTypeOK, NextPast, NextKept DEF CooldownInv
<1>2. QED
  BY InitInv, <1>1, PTL DEF CooldownSpec

(* The only step that admits a stamped request is Admit. *)
LEMMA StepApart ==
  ASSUME CooldownInv, [CooldownNext]_cooldownVars, NEW p \in Proc, call[p] = "stamped", call'[p] = "admitted"
  PROVE  last[key[p]] = Vacant \/ clock >= last[key[p]] + Cooldown[key[p]]
<1> USE CooldownType DEF CooldownInv, CooldownTypeOK, Past, Kept, Stamped, Time, Vacant
<1>1. CASE Admit(p)
  BY <1>1 DEF Admit, Over
<1>2. ASSUME NEW q \in Proc, q # p, Admit(q) PROVE FALSE
  BY <1>2 DEF Admit
<1>3. ASSUME NEW q \in Proc, NEW k \in Key, Arrive(q, k) PROVE FALSE
  BY <1>3 DEF Arrive
<1>4. ASSUME NEW q \in Proc, Refuse(q) \/ Leave(q) PROVE FALSE
  BY <1>4 DEF Refuse, Leave
<1>5. ASSUME UNCHANGED call PROVE FALSE
  BY <1>5
<1>6. QED
  BY <1>1, <1>2, <1>3, <1>4, <1>5 DEF CooldownNext, cooldownVars, cooldowns, Tick, SweepStart, SweepKey, SweepEnd

(* Two admissions on one key are a cooldown apart, counted from the time   *)
(* the first one took: throttle and maintain together, cooldowns.rs:39-92. *)
THEOREM Apart == CooldownSpec => AdmittedApart
<1>1. CooldownInv /\ [CooldownNext]_cooldownVars =>
        [\A p \in Proc :
           call[p] = "stamped" /\ call'[p] = "admitted" =>
             LET k == key[p] IN last[k] = Vacant \/ clock >= last[k] + Cooldown[k]]_cooldownVars
  BY StepApart
<1>2. QED
  BY Invariance, <1>1, PTL DEF CooldownSpec, AdmittedApart
=============================================================================
