------------------------- MODULE ChannelPermissions -------------------------
(* The column channel_members.permission, and the absence of a row.        *)

ReadOnly  == "ReadOnly"
ReadWrite == "ReadWrite"
Manager   == "Manager"
Perm == {ReadOnly, ReadWrite, Manager}

NoRow == "NoRow"                   \* no row for this channel and this user
Membership == Perm \cup {NoRow}
=============================================================================
