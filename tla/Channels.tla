------------------------------ MODULE Channels ------------------------------
(***************************************************************************)
(* The chat channels of the server, as the handlers of src/logic/chat.rs   *)
(* would behave if each of them ran alone: every action below is one whole *)
(* handler, with all its checks in their order and its one effect on the   *)
(* tables users, channels and channel_members.  A handler whose check      *)
(* fails returns an error and rolls back: it is a stuttering step.         *)
(*                                                                         *)
(* This is the specification the administrators of a channel reason with;  *)
(* ChannelTx splits the same handlers into their SQL statements.           *)
(***************************************************************************)
EXTENDS ChannelPermissions, FiniteSets, Integers

CONSTANTS
  User,     \* the user ids that may be registered
  Channel,  \* the channel ids the id factory hands out
  Grants,   \* the member lists a request to create a channel may carry
  Leaver,   \* the users that may delete their account
  Shy       \* the users that may switch the setting allow_invites off

ASSUME UserFinite == IsFiniteSet(User)
ASSUME GrantsType == Grants \subseteq [User -> Membership]
ASSUME LeaverType == Leaver \subseteq User

VARIABLES
  users,         \* rows of the table users
  allowInvites,  \* the registered users whose settings allow invites
  status,        \* the row of each channel: "unused" id, "live" row, "deleted" row
  member         \* rows of the table channel_members

vars == <<users, allowInvites, status, member>>

TypeOK ==
  /\ users \subseteq User
  /\ allowInvites \subseteq users
  /\ status \in [Channel -> {"unused", "live", "deleted"}]
  /\ member \in [Channel -> [User -> Membership]]

Managers(c) == {u \in User : member[c][u] = Manager}
HasManager(c) == \E u \in User : member[c][u] = Manager
IsMember(c, u) == member[c][u] # NoRow
Invited(grants, owner) == {u \in User \ {owner} : grants[u] # NoRow}

-----------------------------------------------------------------------------
Init ==
  /\ users = {}
  /\ allowInvites = {}
  /\ status = [c \in Channel |-> "unused"]
  /\ member = [c \in Channel |-> [u \in User |-> NoRow]]

(* user::create, with the setting the request carries. *)
Register(u, open) ==
  /\ u \notin users
  /\ open \/ u \in Shy
  /\ users' = users \cup {u}
  /\ allowInvites' = IF open THEN allowInvites \cup {u} ELSE allowInvites
  /\ UNCHANGED <<status, member>>

(* user::update, of which only the setting allow_invites matters here. *)
ChangeSettings(u, open) ==
  /\ u \in users \cap Shy
  /\ allowInvites' = IF open THEN allowInvites \cup {u} ELSE allowInvites \ {u}
  /\ UNCHANGED <<users, status, member>>

(* user::delete: the foreign key of channel_members cascades. *)
DeleteUser(u) ==
  /\ u \in users \cap Leaver
  /\ users' = users \ {u}
  /\ allowInvites' = allowInvites \ {u}
  /\ member' = [c \in Channel |-> [member[c] EXCEPT ![u] = NoRow]]
  /\ UNCHANGED status

(* The service refuses a member it does not know or that is closed to      *)
(* invites; the owner is added as Manager, over any grant in the request.  *)
(* The console sends no members.                                           *)
CreateChannel(c, owner, grants) ==
  /\ status[c] = "unused"
  /\ owner \in users
  /\ \A u \in User : grants[u] # NoRow => u \in allowInvites
  /\ status' = [status EXCEPT ![c] = "live"]
  /\ member' = [member EXCEPT ![c] = [grants EXCEPT ![owner] = Manager]]
  /\ UNCHANGED <<users, allowInvites>>

DeleteChannel(c, by) ==
  /\ status[c] = "live"
  /\ member[c][by] = Manager
  /\ status' = [status EXCEPT ![c] = "deleted"]
  /\ member' = [member EXCEPT ![c] = [u \in User |-> NoRow]]
  /\ UNCHANGED <<users, allowInvites>>

(* A mutant of Invite: any member may invite.  *)
MutInviteByMember(c, by, to) ==
  /\ status[c] = "live"
  /\ IsMember(c, by)
  /\ ~IsMember(c, to)
  /\ to \in users
  /\ member' = [member EXCEPT ![c][to] = ReadWrite]
  /\ UNCHANGED <<users, allowInvites, status>>

Invite(c, by, to) ==
  /\ status[c] = "live"
  /\ member[c][by] = Manager
  /\ ~IsMember(c, to)
  /\ to \in users
  /\ member' = [member EXCEPT ![c][to] = ReadWrite]
  /\ UNCHANGED <<users, allowInvites, status>>

MutNotOnlyManager(c) == Cardinality(Managers(c)) >= 1 \* a mutant: off by one

(* The count of managers a handler asks for before the last one may go. *)
NotOnlyManager(c) == Cardinality(Managers(c)) > 1

Uninvite(c, by, to) ==
  /\ status[c] = "live"
  /\ IsMember(c, by)
  /\ by # to => member[c][by] = Manager
  /\ IsMember(c, to)
  /\ by # to => member[c][to] # Manager
  /\ by = to /\ member[c][to] = Manager => NotOnlyManager(c)
  /\ member' = [member EXCEPT ![c][to] = NoRow]
  /\ UNCHANGED <<users, allowInvites, status>>

SetPerm(c, by, to, perm) ==
  /\ status[c] = "live"
  /\ member[c][by] = Manager
  /\ IsMember(c, to)
  /\ by # to => member[c][to] # Manager
  /\ by = to /\ perm # Manager => NotOnlyManager(c)
  /\ member' = [member EXCEPT ![c][to] = perm]
  /\ UNCHANGED <<users, allowInvites, status>>

Next ==
  \/ \E u \in User, open \in BOOLEAN : Register(u, open)
  \/ \E u \in User, open \in BOOLEAN : ChangeSettings(u, open)
  \/ \E u \in User : DeleteUser(u)
  \/ \E c \in Channel, u \in User, g \in Grants : CreateChannel(c, u, g)
  \/ \E c \in Channel, u \in User : DeleteChannel(c, u)
  \/ \E c \in Channel, u, v \in User : Invite(c, u, v)
  \/ \E c \in Channel, u, v \in User : Uninvite(c, u, v)
  \/ \E c \in Channel, u, v \in User, p \in Perm : SetPerm(c, u, v, p)

Spec == Init /\ [][Next]_vars

-----------------------------------------------------------------------------
(* Every membership row belongs to a live channel and to a registered      *)
(* user, and only registered users have settings: no handler and no        *)
(* cascade leaves a dangling row (migrations, channels and users).         *)
ReferentialIntegrity ==
  \A c \in Channel, u \in User :
    IsMember(c, u) => status[c] = "live" /\ u \in users

(* A live channel always has a manager.  It is what the handlers protect   *)
(* when they refuse to let the only manager go (chat.rs:252, chat.rs:339). *)
EveryChannelManaged == \A c \in Channel : status[c] = "live" => HasManager(c)

Orphan(c) == status[c] = "live" /\ ~HasManager(c)

(* The only step that takes the last manager of a live channel away is the *)
(* deletion of that manager's account: no sequence of invitations,         *)
(* departures, promotions and demotions does.                              *)
OnlyDeletionOrphans ==
  [][\A c \in Channel :
       ~Orphan(c) /\ Orphan(c)' =>
         \E u \in users \ users' : member[c][u] = Manager]_vars

(* A channel without manager never gets one again, gains no member and     *)
(* cannot be deleted: whatever is asked of the server, it only shrinks.    *)
OrphanOnlyShrinks ==
  [][\A c \in Channel :
       Orphan(c) =>
         /\ Orphan(c)'
         /\ \A u \in User : member'[c][u] \in {member[c][u], NoRow}]_vars
=============================================================================
