------------------------------ MODULE Resources ------------------------------
(***************************************************************************)
(* Resources: a row in a table and a file beside it, with nothing that     *)
(* keeps the two together.  upload receives the bytes into a temporary     *)
(* file, encodes them straight onto the file of the resource and then      *)
(* enters the row; download reads the row and streams the file; a          *)
(* registration enters the account, the row of its icon and the file of    *)
(* its icon one after the other.  No handler here is a transaction.        *)
(*                                                                         *)
(* The encoders are blocking tasks and child processes: a request that is  *)
(* dropped leaves its encoder running.  Nothing ever deletes a file: the   *)
(* rows of a deleted account go by cascade, the files stay.                *)
(*                                                                         *)
(* A file is the set of the contents there are pieces of in it, and        *)
(* "part" for one that is incomplete; {} is no file.                       *)
(***************************************************************************)
EXTENDS Naturals, FiniteSets

CONSTANTS
  Proc,
  User,
  Email,
  Fresh,       \* the keys the id factory hands out
  Content,     \* what is uploaded, as it is after encoding
  Mailboxes,   \* the addresses of the accounts there are in the beginning
  PostAuthor,  \* of the one post resources are attached to
  Perms,       \* what permissions in the one channel change to
  Requests,    \* the requests that are made
  MaxRequests  \* bound: how many of them

Default == "default"  \* aura:default_icon.png
Piece == Content \cup {Default, "part"}
Resource == User \cup Fresh  \* a user stands for the key of his icon
Space == {"channel", "post"}

ASSUME DefaultIsNoUpload == Default \notin Content /\ "part" \notin Content
ASSUME KeysDiffer == User \cap Fresh = {} /\ User \cap Space = {}

ASSUME ParametersType ==
  /\ PostAuthor \in User
  /\ Perms \subseteq {"none", "read", "write"}
  /\ MaxRequests \in Nat

NoEmail == "NoEmail"
ASSUME NoEmailIsNone == NoEmail \notin Email
ASSUME MailboxesType ==
  /\ Mailboxes \in [User -> Email \cup {NoEmail}]
  /\ \A u, v \in User : Mailboxes[u] = Mailboxes[v] /\ u # v => Mailboxes[u] = NoEmail

Members == {u \in User : Mailboxes[u] # NoEmail}

VARIABLES
  mailbox,   \* users: the address of each account
  vectors,   \* users.embedding: the accounts that have one
  codes,     \* the addresses that have a valid code
  row,       \* resources
  file,      \* the directory of resources
  perm,      \* the permissions of the users in the channel
  stored,    \* whether the post is there
  jobs,      \* the encoders that are running
  issued,    \* the keys that have been handed out
  made,      \* the number of requests made so far
  pc, req,   \* the statement each process executes next, for which request
  key,       \* the resource it is about
  size,      \* the size it has read: of the file (upload), in the row (download)
  seen,      \* what it has streamed to its client
  mine,      \* auxiliary: what each account has uploaded, and the default
  revoked,   \* auxiliary: the rights of its user have changed since it started
  halfway,   \* auxiliary: accounts whose registration failed
  haunted,   \* auxiliary: accounts registered while an upload of a former one ran
  wasted     \* auxiliary: addresses whose code bought nothing, or an account since deleted

tables == <<mailbox, vectors, codes, row, perm, stored>>
disk == <<file, jobs>>
locals == <<key, size, seen>>
aux == <<mine, revoked, halfway, haunted, wasted>>
vars == <<tables, disk, issued, made, pc, req, locals, aux>>

NoKey == "NoKey"
Orphan == "Orphan"  \* a job whose request has ended
ASSUME ProcNotOrphan == Orphan \notin Proc

UploadRequest == [op : {"upload"}, by : User, to : User \cup Space, c : Content]
DownloadRequest == [op : {"download"}, by : User, of : Resource]
RegisterRequest == [op : {"register"}, by : User, email : Email]
DeleteRequest == [op : {"delete"}, by : User]
Request == UNION {UploadRequest, DownloadRequest, RegisterRequest, DeleteRequest}

ASSUME RequestsType == Requests \subseteq Request

NoReq == [op |-> "none"]

(* A row: its owner, the space it belongs to, and the content its size and *)
(* format were taken from.                                                 *)
Row == [by : User, space : Space \cup {"icon"}, size : SUBSET Piece]
NoRow == [by |-> "nobody"]

Job == [res : Resource, c : Content, for : Proc \cup {Orphan}, on : BOOLEAN]

Statement ==
  {"idle", "verify", "authorise", "receive", "encoding", "stat", "exists", "create",
   "row", "members", "open", "stream", "more",
   "code", "settings", "user", "icon", "write", "written", "vector", "delete"}

accounts == {u \in User : mailbox[u] # NoEmail}

TypeOK ==
  /\ mailbox \in [User -> Email \cup {NoEmail}]
  /\ vectors \subseteq accounts
  /\ codes \subseteq Email
  /\ row \in [Resource -> Row \cup {NoRow}]
  /\ file \in [Resource -> SUBSET Piece]
  /\ perm \in [User -> {"none", "read", "write"}]
  /\ stored \in BOOLEAN
  /\ jobs \subseteq Job
  /\ issued \subseteq Fresh
  /\ made \in 0..MaxRequests
  /\ pc \in [Proc -> Statement]
  /\ req \in [Proc -> Request \cup {NoReq}]
  /\ \A p \in Proc :
       /\ pc[p] = "idle" <=> req[p] = NoReq
       /\ pc[p] = "encoding" <=> \E j \in jobs : j.for = p
  /\ key \in [Proc -> Resource \cup {NoKey}]
  /\ size \in [Proc -> SUBSET Piece]
  /\ seen \in [Proc -> SUBSET Piece]
  /\ mine \in [User -> SUBSET Piece]
  /\ revoked \in [Proc -> BOOLEAN]
  /\ halfway \subseteq User
  /\ haunted \subseteq User
  /\ wasted \subseteq Email

Init ==
  /\ mailbox = Mailboxes
  /\ codes = Email \ {Mailboxes[u] : u \in User}
  /\ vectors = Members
  /\ row = [r \in Resource |-> IF r \in Members THEN [by |-> r, space |-> "icon", size |-> {Default}]
                               ELSE NoRow]
  /\ file = [r \in Resource |-> IF r \in Members THEN {Default} ELSE {}]
  /\ perm = [u \in User |-> IF u \in Members THEN "write" ELSE "none"]
  /\ stored = (PostAuthor \in Members)
  /\ jobs = {}
  /\ issued = {}
  /\ made = 0
  /\ pc = [p \in Proc |-> "idle"]
  /\ req = [p \in Proc |-> NoReq]
  /\ key = [p \in Proc |-> NoKey]
  /\ size = [p \in Proc |-> {}]
  /\ seen = [p \in Proc |-> {}]
  /\ mine = [u \in User |-> IF u \in Members THEN {Default} ELSE {}]
  /\ revoked = [p \in Proc |-> FALSE]
  /\ halfway = {}
  /\ haunted = {}
  /\ wasted = {}

Running(p, op) == pc[p] # "idle" /\ req[p].op = op

-----------------------------------------------------------------------------
(* Requests. *)
Goto(p, next) ==
  /\ pc' = [pc EXCEPT ![p] = next]
  /\ UNCHANGED <<made, req>>

(* The end of a request, with a result or an error. *)
Finish(p) ==
  /\ pc' = [pc EXCEPT ![p] = "idle"]
  /\ req' = [req EXCEPT ![p] = NoReq]
  /\ key' = [key EXCEPT ![p] = NoKey]
  /\ size' = [size EXCEPT ![p] = {}]
  /\ seen' = [seen EXCEPT ![p] = {}]
  /\ revoked' = [revoked EXCEPT ![p] = FALSE]
  /\ UNCHANGED <<issued, made>>

(* Where a registration may end when its code is spent and its account is  *)
(* not entered, and where the account is entered and not complete.         *)
Spending == {"settings", "user"}
Entering == {"icon", "write", "written", "vector"}

Ends(p) ==
  /\ Finish(p)
  /\ wasted' = IF Running(p, "register") /\ pc[p] \in Spending
               THEN wasted \cup {req[p].email} ELSE wasted
  /\ halfway' = IF Running(p, "register") /\ pc[p] \in Entering /\ req[p].by \in accounts
                THEN halfway \cup {req[p].by} ELSE halfway
  /\ UNCHANGED <<tables, mine, haunted>>

Refuse(p) == Ends(p) /\ UNCHANGED disk

(* Processes are interchangeable: the next request gets any free one. *)
Submit(p, r) ==
  /\ pc[p] = "idle"
  /\ p = CHOOSE q \in Proc : pc[q] = "idle"
  /\ made < MaxRequests
  /\ made' = made + 1
  /\ pc' = [pc EXCEPT ![p] = IF r.op = "register" THEN "code" ELSE "verify"]
  /\ req' = [req EXCEPT ![p] = r]
  /\ UNCHANGED <<tables, disk, issued, locals, aux>>

(* auth::verify *)
Verify(p) ==
  /\ pc[p] = "verify"
  /\ \/ /\ req[p].by \in accounts
        /\ Goto(p, CASE req[p].op = "upload" -> "authorise"
                     [] req[p].op = "download" -> "row"
                     [] OTHER -> "delete")
        /\ UNCHANGED <<tables, disk, issued, locals, aux>>
     \/ req[p].by \notin accounts /\ Refuse(p)

-----------------------------------------------------------------------------
(* upload. *)
MutAnyIcon(r) ==  \* a mutant of MayUpload: the key of an icon is not compared
  \/ r.to \in User
  \/ r.to = "channel" /\ perm[r.by] = "write"
  \/ r.to = "post" /\ stored /\ PostAuthor = r.by

MutMembersUpload(r) ==  \* a mutant of MayUpload: reading is enough
  \/ r.to = r.by
  \/ r.to = "channel" /\ perm[r.by] # "none"
  \/ r.to = "post" /\ stored /\ PostAuthor = r.by

(* is_upload_authorized *)
MayUpload(r) ==
  \/ r.to = r.by
  \/ r.to = "channel" /\ perm[r.by] = "write"
  \/ r.to = "post" /\ stored /\ PostAuthor = r.by

MutNewKeys(r) ==  \* a mutant: a space has one key
  IF r.to \in User THEN {r.to} ELSE {CHOOSE f \in Fresh : TRUE}

(* The key: of an icon, the name given; else the next id. *)
NewKeys(r) ==
  IF r.to \in User THEN {r.to}
  ELSE {f \in Fresh \ issued : f = CHOOSE g \in Fresh \ issued : TRUE}

Authorise(p) ==
  /\ pc[p] = "authorise"
  /\ \/ /\ MayUpload(req[p])
        /\ \E k \in NewKeys(req[p]) :
             /\ key' = [key EXCEPT ![p] = k]
             /\ issued' = issued \cup ({k} \cap Fresh)
        /\ mine' = [mine EXCEPT ![req[p].by] = @ \cup {req[p].c}]
        /\ Goto(p, "receive")
        /\ UNCHANGED <<tables, disk, size, seen, revoked, halfway, haunted, wasted>>
     \/ ~MayUpload(req[p]) /\ Refuse(p)

(* The stream is written to the temporary file; when it has ended, its     *)
(* format is checked and the encoder is started.                           *)
MutAfterSpawn == "stat"  \* a mutant: the encoder is not awaited

AfterSpawn == "encoding"

Receive(p) ==
  /\ pc[p] = "receive"
  /\ \/ /\ jobs' = jobs \cup {[res |-> key[p], c |-> req[p].c, for |-> p, on |-> FALSE]}
        /\ Goto(p, AfterSpawn)
        /\ UNCHANGED <<tables, file, issued, locals, aux>>
     \/ Refuse(p)

(* The size and the format of the file go into the row. *)
Stat(p) ==
  /\ pc[p] = "stat"
  /\ size' = [size EXCEPT ![p] = file[key[p]]]
  /\ Goto(p, "exists")
  /\ UNCHANGED <<tables, disk, issued, key, seen, aux>>

Exists(p) ==
  /\ pc[p] = "exists"
  /\ \/ row[key[p]] # NoRow /\ Refuse(p)
     \/ /\ row[key[p]] = NoRow
        /\ Goto(p, "create")
        /\ UNCHANGED <<tables, disk, issued, locals, aux>>

(* resource::create: an error when there is a row by now, or no owner. *)
Create(p) ==
  LET r == req[p]
  IN /\ pc[p] = "create"
     /\ \/ /\ row[key[p]] = NoRow
           /\ r.by \in accounts
           /\ row' = [row EXCEPT ![key[p]] =
                [by |-> r.by, space |-> IF r.to \in User THEN "icon" ELSE r.to, size |-> size[p]]]
           /\ Finish(p)
           /\ UNCHANGED <<mailbox, vectors, codes, perm, stored, disk, mine, halfway, haunted,
                          wasted>>
        \/ (row[key[p]] # NoRow \/ r.by \notin accounts) /\ Refuse(p)

Upload(p) ==
  /\ Running(p, "upload")
  /\ Authorise(p) \/ Receive(p) \/ Stat(p) \/ Exists(p) \/ Create(p)

-----------------------------------------------------------------------------
(* The encoder opens, and so empties, the file of the resource, and then   *)
(* writes it from its beginning: of what others have written there in      *)
(* between, it may leave the end.                                          *)
Open(j) ==
  /\ ~j.on
  /\ jobs' = (jobs \ {j}) \cup {[j EXCEPT !.on = TRUE]}
  /\ file' = [file EXCEPT ![j.res] = {"part"}]
  /\ UNCHANGED <<tables, issued, made, pc, req, locals, aux>>

Over(old, c) == {{c}, (old \ {"part"}) \cup {c}}

Encoded(j) ==
  /\ j.on
  /\ jobs' = jobs \ {j}
  /\ \E new \in Over(file[j.res], j.c) : file' = [file EXCEPT ![j.res] = new]
  /\ \/ j.for = Orphan /\ UNCHANGED pc
     \/ j.for # Orphan /\ pc' = [pc EXCEPT ![j.for] = "stat"]
  /\ UNCHANGED <<tables, issued, made, req, locals, aux>>

(* It does not understand its input, the temporary file of a dropped       *)
(* request is gone, or the disk is full.                                   *)
EncoderFails(j) ==
  /\ jobs' = jobs \ {j}
  /\ UNCHANGED file
  /\ \/ j.for = Orphan /\ UNCHANGED <<tables, issued, made, pc, req, locals, aux>>
     \/ j.for # Orphan /\ Ends(j.for)

Encode == \E j \in jobs : Open(j) \/ Encoded(j) \/ EncoderFails(j)

-----------------------------------------------------------------------------
(* download: the row, the right to see it, and the file, chunk by chunk    *)
(* while the client takes them; two chunks tell apart two versions.        *)
Stream(p, next) ==
  /\ seen' = [seen EXCEPT ![p] = @ \cup file[key[p]]]
  /\ Goto(p, next)
  /\ UNCHANGED <<tables, disk, issued, key, size, aux>>

ReadRow(p) ==
  LET r == req[p].of
  IN /\ pc[p] = "row"
     /\ \/ /\ row[r] # NoRow
           /\ key' = [key EXCEPT ![p] = r]
           /\ size' = [size EXCEPT ![p] = row[r].size]
           /\ Goto(p, IF row[r].space = "channel" THEN "members" ELSE "open")
           /\ UNCHANGED <<tables, disk, issued, seen, aux>>
        \/ row[r] = NoRow /\ Refuse(p)

(* is_download_authorized asks only for the members of a channel. *)
CheckMember(p) ==
  /\ pc[p] = "members"
  /\ \/ /\ perm[req[p].by] # "none"
        /\ Goto(p, "open")
        /\ UNCHANGED <<tables, disk, issued, locals, aux>>
     \/ perm[req[p].by] = "none" /\ Refuse(p)

Download(p) ==
  /\ Running(p, "download")
  /\ \/ ReadRow(p)
     \/ CheckMember(p)
     \/ pc[p] = "open" /\ file[key[p]] # {} /\ Stream(p, "stream")
     \/ pc[p] = "open" /\ file[key[p]] = {} /\ Refuse(p)
     \/ pc[p] = "stream" /\ Stream(p, "more")
     \/ pc[p] = "more" /\ Refuse(p)

-----------------------------------------------------------------------------
(* register: _create, user::create and init_user_vector. *)
SpendCode(p) ==
  /\ pc[p] = "code"
  /\ \/ /\ req[p].email \in codes
        /\ codes' = codes \ {req[p].email}
        /\ Goto(p, "settings")
        /\ UNCHANGED <<mailbox, vectors, row, perm, stored, disk, issued, locals, aux>>
     \/ req[p].email \notin codes /\ Refuse(p)

CheckSettings(p) ==
  /\ pc[p] = "settings"
  /\ \/ Goto(p, "user") /\ UNCHANGED <<tables, disk, issued, locals, aux>>
     \/ Refuse(p)

MutTaken(r) == \E u \in User : mailbox[u] = r.email  \* a mutant: names are not unique

Taken(r) == r.by \in accounts \/ \E u \in User : mailbox[u] = r.email

InsertUser(p) ==
  LET r == req[p]
      old == \/ \E j \in jobs : j.res = r.by
             \/ \E q \in Proc : Running(q, "upload") /\ req[q].to = r.by
  IN /\ pc[p] = "user"
     /\ \/ /\ ~Taken(r)
           /\ mailbox' = [mailbox EXCEPT ![r.by] = r.email]
           /\ mine' = [mine EXCEPT ![r.by] = {Default}]
           /\ haunted' = IF old THEN haunted \cup {r.by} ELSE haunted
           /\ Goto(p, "icon")
           /\ UNCHANGED <<vectors, codes, row, perm, stored, disk, issued, locals, revoked,
                          halfway, wasted>>
        \/ Taken(r) /\ Refuse(p)

(* The default icon is read into memory, and entered for the user. *)
InsertIcon(p) ==
  LET u == req[p].by
  IN /\ pc[p] = "icon"
     /\ \/ /\ row[u] = NoRow /\ u \in accounts
           /\ row' = [row EXCEPT ![u] = [by |-> u, space |-> "icon", size |-> {Default}]]
           /\ Goto(p, "write")
           /\ UNCHANGED <<mailbox, vectors, codes, perm, stored, disk, issued, locals, aux>>
        \/ (row[u] # NoRow \/ u \notin accounts) /\ Refuse(p)

(* resource::write opens the file, and writes. *)
WriteIcon(p) ==
  LET u == req[p].by
  IN /\ \/ /\ pc[p] = "write"
           /\ file' = [file EXCEPT ![u] = {"part"}]
           /\ Goto(p, "written")
        \/ /\ pc[p] = "written"
           /\ \E new \in Over(file[u], Default) : file' = [file EXCEPT ![u] = new]
           /\ Goto(p, "vector")
     /\ UNCHANGED <<tables, jobs, issued, locals, aux>>

InitVector(p) ==
  /\ pc[p] = "vector"
  /\ vectors' = vectors \cup ({req[p].by} \cap accounts)
  /\ Finish(p)
  /\ UNCHANGED <<mailbox, codes, row, perm, stored, disk, mine, halfway, haunted, wasted>>

Register(p) ==
  /\ Running(p, "register")
  /\ \/ SpendCode(p) \/ CheckSettings(p) \/ InsertUser(p) \/ InsertIcon(p)
     \/ WriteIcon(p) \/ InitVector(p)

-----------------------------------------------------------------------------
(* What a change of rights means for the requests under way. *)
NoteRights ==
  LET changed(u) == perm'[u] # perm[u] \/ (stored' # stored /\ u = PostAuthor)
  IN [q \in Proc |-> revoked[q] \/ (pc[q] # "idle" /\ changed(req[q].by))]

(* user::delete, and what goes with it: the rows, not the files. *)
Delete(p) ==
  LET u == req[p].by
  IN /\ Running(p, "delete")
     /\ pc[p] = "delete"
     /\ mailbox' = [mailbox EXCEPT ![u] = NoEmail]
     /\ vectors' = vectors \ {u}
     /\ row' = [r \in Resource |-> IF row[r] # NoRow /\ row[r].by = u THEN NoRow ELSE row[r]]
     /\ perm' = [perm EXCEPT ![u] = "none"]
     /\ stored' = (stored /\ u # PostAuthor)
     /\ mine' = [mine EXCEPT ![u] = {}]
     /\ halfway' = halfway \ {u}
     /\ haunted' = haunted \ {u}
     /\ wasted' = wasted \cup ({mailbox[u]} \cap Email)
     /\ pc' = [pc EXCEPT ![p] = "idle"]
     /\ req' = [req EXCEPT ![p] = NoReq]
     /\ revoked' = [NoteRights EXCEPT ![p] = FALSE]
     /\ UNCHANGED <<codes, disk, issued, made, locals>>

(* The channel and the post, from which rights are read. *)
SetPerm(u, x) ==
  /\ u \in accounts
  /\ perm' = [perm EXCEPT ![u] = x]
  /\ UNCHANGED stored

DeletePost == stored /\ stored' = FALSE /\ UNCHANGED perm

ChangeRights ==
  /\ DeletePost \/ \E u \in User, x \in Perms : SetPerm(u, x)
  /\ revoked' = NoteRights
  /\ UNCHANGED <<mailbox, vectors, codes, row, disk, issued, made, pc, req, locals, mine,
                 halfway, haunted, wasted>>

MutFail(p) ==  \* a mutant: the encoder of a dropped request is forgotten
  /\ pc[p] # "idle"
  /\ Ends(p)
  /\ UNCHANGED disk

(* A lost connection, an error of the disk, the timeout of the request. *)
Fail(p) ==
  /\ pc[p] # "idle"
  /\ Ends(p)
  /\ jobs' = {IF j.for = p THEN [j EXCEPT !.for = Orphan] ELSE j : j \in jobs}
  /\ UNCHANGED file

Next ==
  \/ \E p \in Proc, r \in Requests : Submit(p, r)
  \/ \E p \in Proc : Verify(p)
  \/ \E p \in Proc : Upload(p)
  \/ Encode
  \/ \E p \in Proc : Download(p)
  \/ \E p \in Proc : Register(p)
  \/ \E p \in Proc : Delete(p)
  \/ ChangeRights
  \/ \E p \in Proc : Fail(p)

Spec == Init /\ [][Next]_vars

-----------------------------------------------------------------------------
(* A row under a fresh key describes the file beside it, which is whole:   *)
(* whatever requests and encoders are interrupted, a row is entered after  *)
(* the file and nobody writes the file again (services/resource.rs:115-131). *)
FreshRowDescribesFile ==
  \A f \in Fresh : row[f] # NoRow =>
    /\ file[f] = row[f].size
    /\ \E c \in Content : file[f] = {c}

(* The icon of an account holds nothing but what the account has uploaded  *)
(* or the default, although the file of an earlier account of that name is *)
(* still there.  Not so while the registration is between the row and the  *)
(* file, after it failed there (logic/user.rs:62-78), or when an upload of *)
(* the earlier account outlived it (services/resource.rs:115).             *)
IconIsOwn ==
  \A u \in accounts : row[u] # NoRow =>
    \/ file[u] \ {"part"} \subseteq mine[u]
    \/ \E p \in Proc : Running(p, "register") /\ req[p].by = u /\ pc[p] = "write"
    \/ u \in halfway \cup haunted

(* A new row of a channel or a post was entered for one who may write      *)
(* there, unless his rights changed since he started: they are asked for   *)
(* before the stream, which may take any time (services/resource.rs:75).   *)
UploadsAuthorised ==
  [][\A p \in Proc :
       pc[p] = "create" /\ pc'[p] = "idle" /\ row'[key[p]] # row[key[p]] /\ ~revoked[p] =>
         CASE req[p].to = "channel" -> perm[req[p].by] = "write"
           [] req[p].to = "post" -> stored /\ req[p].by = PostAuthor
           [] OTHER -> TRUE]_<<row, pc>>

(* A download of a resource under a fresh key streams the whole content    *)
(* its row announced, and nothing else, also when the account is deleted   *)
(* or the row goes while it streams (services/resource.rs:156-170).        *)
DownloadsWhole ==
  \A p \in Proc :
    Running(p, "download") /\ pc[p] \in {"stream", "more"} /\ key[p] \in Fresh =>
      seen[p] = size[p]

(* Every spent code has bought the account of its address, or is on its    *)
(* way to, or is known to be wasted; and every account has the row of its  *)
(* icon and a vector, or its registration is under way or has failed       *)
(* (services/user.rs:152-192, logic/user.rs:46).                           *)
RegistrationAccounted ==
  /\ \A e \in Email \ (codes \cup wasted) :
       \/ \E u \in User : mailbox[u] = e
       \/ \E p \in Proc : Running(p, "register") /\ req[p].email = e /\ pc[p] \in Spending
  /\ \A u \in accounts : row[u] = NoRow \/ u \notin vectors =>
       \/ u \in halfway
       \/ \E p \in Proc : Running(p, "register") /\ req[p].by = u /\ pc[p] \in Entering

(* To those who download, a resource of a channel or a post appears at one *)
(* instant, whole, is never written again and goes with the account of its *)
(* owner, though its file is written long before its row, by an encoder    *)
(* that may outlive its request, and stays when the row goes (services/    *)
(* resource.rs:115-131, logic/resource.rs:24).                             *)
Objects ==
  [f \in Fresh |-> IF row[f] = NoRow THEN [by |-> "nobody", holds |-> {}]
                   ELSE [by |-> row[f].by, holds |-> file[f]]]

Uploads == {"receive", "encoding", "stat", "exists", "create"}
Uploading(p, f) == pc[p] \in Uploads /\ key[p] = f

Spent == {f \in issued : \A p \in Proc : ~Uploading(p, f)}

Shelf == INSTANCE Store WITH owners <- accounts, object <- Objects, spent <- Spent

StoreSpec == Shelf!Spec
=============================================================================
