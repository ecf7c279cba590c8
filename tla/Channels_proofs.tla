--------------------------- MODULE Channels_proofs ---------------------------
(* What Channels guarantees for every set of users and channels. *)
EXTENDS Channels, FiniteSetTheorems, TLAPS

-----------------------------------------------------------------------------
(* A manager who is not the only one leaves another behind. *)
LEMMA AnotherManager ==
  ASSUME NEW c \in Channel, NEW u \in Managers(c), NotOnlyManager(c)
  PROVE  \E w \in Managers(c) : w # u
<1>1. SUFFICES ASSUME Managers(c) = {u} PROVE FALSE
  OBVIOUS
<1>2. Cardinality({u}) = 1
  BY FS_Singleton
<1>3. QED
  BY <1>1, <1>2 DEF NotOnlyManager

(* The tables always hold what their columns allow. *)
LEMMA InitTypeOK == Init => TypeOK
BY DEF Init, TypeOK, Membership

LEMMA NextTypeOK == TypeOK /\ [Next]_vars => TypeOK'
<1> SUFFICES ASSUME TypeOK, [Next]_vars PROVE TypeOK'
  OBVIOUS
<1> USE DEF TypeOK
<1>1. ASSUME NEW u \in User, NEW open \in BOOLEAN, Register(u, open)
      PROVE  TypeOK'
  BY <1>1 DEF Register
<1>2. ASSUME NEW u \in User, NEW open \in BOOLEAN, ChangeSettings(u, open)
      PROVE  TypeOK'
  BY <1>2 DEF ChangeSettings
<1>3. ASSUME NEW u \in User, DeleteUser(u)
      PROVE  TypeOK'
  BY <1>3 DEF DeleteUser, Membership
<1>4. ASSUME NEW c \in Channel, NEW u \in User, NEW g \in Grants, CreateChannel(c, u, g)
      PROVE  TypeOK'
  <2>1. [g EXCEPT ![u] = Manager] \in [User -> Membership]
    BY GrantsType DEF Membership, Perm
  <2>2. QED
    BY <1>4, <2>1 DEF CreateChannel
<1>5. ASSUME NEW c \in Channel, NEW u \in User, DeleteChannel(c, u)
      PROVE  TypeOK'
  BY <1>5 DEF DeleteChannel, Membership
<1>6. ASSUME NEW c \in Channel, NEW u \in User, NEW v \in User, Invite(c, u, v)
      PROVE  TypeOK'
  BY <1>6 DEF Invite, Membership, Perm
<1>7. ASSUME NEW c \in Channel, NEW u \in User, NEW v \in User, Uninvite(c, u, v)
      PROVE  TypeOK'
  BY <1>7 DEF Uninvite, Membership
<1>8. ASSUME NEW c \in Channel, NEW u \in User, NEW v \in User, NEW p \in Perm,
             SetPerm(c, u, v, p)
      PROVE  TypeOK'
  BY <1>8 DEF SetPerm, Membership
<1>9. CASE UNCHANGED vars
  BY <1>9 DEF vars
<1>10. QED
  BY <1>1, <1>2, <1>3, <1>4, <1>5, <1>6, <1>7, <1>8, <1>9 DEF Next

(* Type correctness of the tables, whatever the sequence of handlers. *)
THEOREM TypeCorrect == Spec => []TypeOK
BY InitTypeOK, NextTypeOK, PTL DEF Spec

-----------------------------------------------------------------------------
(* Membership rows never dangle: referential integrity is preserved by     *)
(* every handler and by both cascades.                                     *)
THEOREM Integrity == Spec => []ReferentialIntegrity
<1>1. Init => ReferentialIntegrity
  BY DEF Init, ReferentialIntegrity, IsMember
<1>2. TypeOK /\ ReferentialIntegrity /\ [Next]_vars => ReferentialIntegrity'
  <2> SUFFICES ASSUME TypeOK, ReferentialIntegrity, [Next]_vars
               PROVE  ReferentialIntegrity'
    OBVIOUS
  <2> USE DEF TypeOK, ReferentialIntegrity, IsMember
  <2>1. ASSUME NEW u \in User, NEW open \in BOOLEAN, Register(u, open)
        PROVE  ReferentialIntegrity'
    BY <2>1 DEF Register
  <2>2. ASSUME NEW u \in User, NEW open \in BOOLEAN, ChangeSettings(u, open)
        PROVE  ReferentialIntegrity'
    BY <2>2 DEF ChangeSettings
  <2>3. ASSUME NEW u \in User, DeleteUser(u)
        PROVE  ReferentialIntegrity'
    BY <2>3 DEF DeleteUser
  <2>4. ASSUME NEW c \in Channel, NEW u \in User, NEW g \in Grants,
               CreateChannel(c, u, g)
        PROVE  ReferentialIntegrity'
    <3>1. \A v \in User : member'[c][v] # NoRow => v \in users
      BY <2>4, GrantsType DEF CreateChannel
    <3>2. QED
      BY <2>4, <3>1 DEF CreateChannel
  <2>5. ASSUME NEW c \in Channel, NEW u \in User, DeleteChannel(c, u)
        PROVE  ReferentialIntegrity'
    BY <2>5 DEF DeleteChannel
  <2>6. ASSUME NEW c \in Channel, NEW u \in User, NEW v \in User, Invite(c, u, v)
        PROVE  ReferentialIntegrity'
    BY <2>6 DEF Invite
  <2>7. ASSUME NEW c \in Channel, NEW u \in User, NEW v \in User, Uninvite(c, u, v)
        PROVE  ReferentialIntegrity'
    BY <2>7 DEF Uninvite
  <2>8. ASSUME NEW c \in Channel, NEW u \in User, NEW v \in User, NEW p \in Perm,
               SetPerm(c, u, v, p)
        PROVE  ReferentialIntegrity'
    BY <2>8 DEF SetPerm
  <2>9. CASE UNCHANGED vars
    BY <2>9 DEF vars
  <2>10. QED
    BY <2>1, <2>2, <2>3, <2>4, <2>5, <2>6, <2>7, <2>8, <2>9 DEF Next
<1>3. QED
  BY <1>1, <1>2, TypeCorrect, PTL DEF Spec

-----------------------------------------------------------------------------
(* A channel that has a manager keeps one in every step that deletes       *)
(* neither the channel nor the account of one of its managers.             *)
LEMMA ManagerStays ==
  ASSUME TypeOK, [Next]_vars, NEW c \in Channel, HasManager(c),
         status'[c] = "live",
         \A u \in users \ users' : member[c][u] # Manager
  PROVE  HasManager(c)'
<1> USE DEF TypeOK, HasManager
<1>1. ASSUME NEW u \in User, NEW open \in BOOLEAN, Register(u, open)
      PROVE  HasManager(c)'
  BY <1>1 DEF Register
<1>2. ASSUME NEW u \in User, NEW open \in BOOLEAN, ChangeSettings(u, open)
      PROVE  HasManager(c)'
  BY <1>2 DEF ChangeSettings
<1>3. ASSUME NEW u \in User, DeleteUser(u)
      PROVE  HasManager(c)'
  BY <1>3 DEF DeleteUser
<1>4. ASSUME NEW d \in Channel, NEW u \in User, NEW g \in Grants, CreateChannel(d, u, g)
      PROVE  HasManager(c)'
  <2>1. CASE c = d
    BY <1>4, <2>1, GrantsType DEF CreateChannel
  <2>2. CASE c # d
    BY <1>4, <2>2 DEF CreateChannel
  <2>3. QED
    BY <2>1, <2>2
<1>5. ASSUME NEW d \in Channel, NEW u \in User, DeleteChannel(d, u)
      PROVE  HasManager(c)'
  BY <1>5 DEF DeleteChannel
<1>6. ASSUME NEW d \in Channel, NEW u \in User, NEW v \in User, Invite(d, u, v)
      PROVE  HasManager(c)'
  BY <1>6 DEF Invite, IsMember, NoRow, Manager
<1>7. ASSUME NEW d \in Channel, NEW u \in User, NEW v \in User, Uninvite(d, u, v)
      PROVE  HasManager(c)'
  <2>1. PICK m \in User : member[c][m] = Manager
    OBVIOUS
  <2>2. CASE d = c /\ m = v
    <3>1. v \in Managers(c) /\ NotOnlyManager(c)
      BY <1>7, <2>1, <2>2 DEF Uninvite, Managers
    <3>2. PICK w \in User : member[c][w] = Manager /\ w # v
      BY <3>1, AnotherManager DEF Managers
    <3>3. QED
      BY <1>7, <3>2, <2>2 DEF Uninvite
  <2>3. CASE ~(d = c /\ m = v)
    BY <1>7, <2>1, <2>3 DEF Uninvite
  <2>4. QED
    BY <2>2, <2>3
<1>8. ASSUME NEW d \in Channel, NEW u \in User, NEW v \in User, NEW p \in Perm,
             SetPerm(d, u, v, p)
      PROVE  HasManager(c)'
  <2>1. PICK m \in User : member[c][m] = Manager
    OBVIOUS
  <2>2. CASE d = c /\ m = v /\ p # Manager
    <3>1. v \in Managers(c) /\ NotOnlyManager(c)
      BY <1>8, <2>1, <2>2 DEF SetPerm, Managers
    <3>2. PICK w \in User : member[c][w] = Manager /\ w # v
      BY <3>1, AnotherManager DEF Managers
    <3>3. QED
      BY <1>8, <3>2, <2>2 DEF SetPerm
  <2>3. CASE ~(d = c /\ m = v /\ p # Manager)
    BY <1>8, <2>1, <2>3 DEF SetPerm
  <2>4. QED
    BY <2>2, <2>3
<1>9. CASE UNCHANGED vars
  BY <1>9 DEF vars
<1>10. QED
  BY <1>1, <1>2, <1>3, <1>4, <1>5, <1>6, <1>7, <1>8, <1>9 DEF Next

(* A new channel has its owner as manager; no step brings a channel back.  *)
LEMMA LiveStatus ==
  ASSUME TypeOK, [Next]_vars, NEW c \in Channel, status'[c] = "live"
  PROVE  status[c] = "live" \/ HasManager(c)'
<1> USE DEF TypeOK, HasManager
<1>1. ASSUME NEW d \in Channel, NEW u \in User, NEW g \in Grants, CreateChannel(d, u, g)
      PROVE  status[c] = "live" \/ HasManager(c)'
  <2>1. CASE c = d
    BY <1>1, <2>1, GrantsType DEF CreateChannel
  <2>2. CASE c # d
    BY <1>1, <2>2 DEF CreateChannel
  <2>3. QED
    BY <2>1, <2>2
<1>2. ASSUME NEW d \in Channel, NEW u \in User, DeleteChannel(d, u)
      PROVE  status[c] = "live"
  BY <1>2 DEF DeleteChannel
<1>3. CASE UNCHANGED status
  BY <1>3
<1>4. QED
  BY <1>1, <1>2, <1>3
     DEF Next, vars, Register, ChangeSettings, DeleteUser, Invite, Uninvite, SetPerm

(* Only the deletion of a manager's account can orphan a channel. *)
THEOREM OnlyDeletion == Spec => OnlyDeletionOrphans
<1>1. ASSUME TypeOK, [Next]_vars, NEW c \in Channel, ~Orphan(c), Orphan(c)'
      PROVE  \E u \in users \ users' : member[c][u] = Manager
  BY <1>1, ManagerStays, LiveStatus DEF Orphan
<1>2. TypeOK /\ [Next]_vars =>
        [\A c \in Channel :
           ~Orphan(c) /\ Orphan(c)' =>
             \E u \in users \ users' : member[c][u] = Manager]_vars
  BY <1>1
<1>3. QED
  BY <1>2, TypeCorrect, PTL DEF Spec, OnlyDeletionOrphans

(* While no user deletes an account, every live channel has a manager:     *)
(* the promise of the two checks on the number of managers.                *)
THEOREM Managed == Leaver = {} => (Spec => []EveryChannelManaged)
<1> SUFFICES ASSUME Leaver = {} PROVE Spec => []EveryChannelManaged
  OBVIOUS
<1>1. Init => EveryChannelManaged
  BY DEF Init, EveryChannelManaged
<1>2. TypeOK /\ EveryChannelManaged /\ [Next]_vars => EveryChannelManaged'
  <2> SUFFICES ASSUME TypeOK, EveryChannelManaged, [Next]_vars,
                      NEW c \in Channel, status'[c] = "live"
               PROVE  HasManager(c)'
    BY DEF EveryChannelManaged, HasManager
  <2>1. users \ users' = {}
    BY DEF Next, vars, Register, ChangeSettings, DeleteUser, CreateChannel,
           DeleteChannel, Invite, Uninvite, SetPerm
  <2>2. QED
    BY <2>1, LiveStatus, ManagerStays DEF EveryChannelManaged
<1>3. QED
  BY <1>1, <1>2, TypeCorrect, PTL DEF Spec

-----------------------------------------------------------------------------
(* A channel without manager is beyond repair: it stays without one, can   *)
(* neither be deleted nor grow, and only loses members.                    *)
THEOREM OrphanShrinks == Spec => OrphanOnlyShrinks
<1>1. ASSUME TypeOK, [Next]_vars, NEW c \in Channel, Orphan(c)
      PROVE  /\ Orphan(c)'
             /\ \A u \in User : member'[c][u] \in {member[c][u], NoRow}
  <2> USE <1>1 DEF TypeOK, Orphan, HasManager
  <2>0. NoRow # Manager
    BY DEF NoRow, Manager
  <2> DEFINE Shrinks ==
        /\ Orphan(c)'
        /\ \A u \in User : member'[c][u] \in {member[c][u], NoRow}
  <2>1. ASSUME NEW u \in User, NEW open \in BOOLEAN,
               Register(u, open) \/ ChangeSettings(u, open)
        PROVE  Shrinks
    BY <2>1 DEF Register, ChangeSettings
  <2>2. ASSUME NEW u \in User, DeleteUser(u)
        PROVE  Shrinks
    BY <2>0, <2>2 DEF DeleteUser
  <2>3. ASSUME NEW d \in Channel, NEW u \in User, NEW g \in Grants,
               CreateChannel(d, u, g)
        PROVE  Shrinks
    BY <2>3 DEF CreateChannel
  <2>4. ASSUME NEW d \in Channel, NEW u \in User, DeleteChannel(d, u)
        PROVE  Shrinks
    BY <2>4 DEF DeleteChannel
  <2>5. ASSUME NEW d \in Channel, NEW u \in User, NEW v \in User, Invite(d, u, v)
        PROVE  Shrinks
    BY <2>5 DEF Invite
  <2>6. ASSUME NEW d \in Channel, NEW u \in User, NEW v \in User, Uninvite(d, u, v)
        PROVE  Shrinks
    BY <2>0, <2>6 DEF Uninvite
  <2>7. ASSUME NEW d \in Channel, NEW u \in User, NEW v \in User, NEW p \in Perm,
               SetPerm(d, u, v, p)
        PROVE  Shrinks
    BY <2>7 DEF SetPerm
  <2>8. CASE UNCHANGED vars
    BY <2>8 DEF vars
  <2>9. QED
    BY <2>1, <2>2, <2>3, <2>4, <2>5, <2>6, <2>7, <2>8 DEF Next
<1>2. TypeOK /\ [Next]_vars =>
        [\A c \in Channel :
           Orphan(c) =>
             /\ Orphan(c)'
             /\ \A u \in User : member'[c][u] \in {member[c][u], NoRow}]_vars
  BY <1>1
<1>3. QED
  BY <1>2, TypeCorrect, PTL DEF Spec, OrphanOnlyShrinks
=============================================================================
