-------------------------- MODULE Resources_proofs --------------------------
(* A row under a fresh key describes the file beside it, a download streams*)
(* what the row announced, and an icon holds only what its account has put *)
(* there, whatever is interrupted.  To those who download, all of it is a  *)
(* store of objects that are written once.                                 *)
EXTENDS Resources, TLAPS

-----------------------------------------------------------------------------
(* Type correctness.  It takes that no request waits for two encoders, and *)
(* that a request that works on a resource knows its key.                  *)
Downloads == {"members", "open", "stream", "more"}

OneEncoder == \A i, j \in jobs : i.for = j.for /\ i.for # Orphan => i = j
KeyKnown == \A p \in Proc : pc[p] \in Uploads \cup Downloads => key[p] \in Resource

TypeInv == TypeOK /\ OneEncoder /\ KeyKnown

LEMMA RequestFields ==
  ASSUME NEW r \in Request
  PROVE  /\ r.by \in User
         /\ r # NoReq
         /\ r.op = "upload" => r.to \in User \cup Space /\ r.c \in Content
         /\ r.op = "download" => r.of \in Resource
         /\ r.op = "register" => r.email \in Email
BY DEF Request, UploadRequest, DownloadRequest, RegisterRequest, DeleteRequest, NoReq

LEMMA BusyRequest ==
  ASSUME TypeOK, NEW p \in Proc, pc[p] # "idle"
  PROVE  req[p] \in Request
BY DEF TypeOK

LEMMA InitTypes == Init => TypeInv
<1> SUFFICES ASSUME Init PROVE TypeInv
  OBVIOUS
<1>1. mailbox \in [User -> Email \cup {NoEmail}] /\ accounts = Members
  BY MailboxesType DEF Init, accounts, Members
<1>2. row \in [Resource -> Row \cup {NoRow}]
  BY DEF Init, Row, Members, Piece
<1>3. file \in [Resource -> SUBSET Piece] /\ mine \in [User -> SUBSET Piece]
  BY DEF Init, Members, Piece
<1>4. perm \in [User -> {"none", "read", "write"}]
  BY DEF Init
<1>5. stored \in BOOLEAN /\ made \in 0..MaxRequests
  BY ParametersType DEF Init
<1>6. /\ vectors \subseteq accounts /\ codes \subseteq Email /\ jobs \subseteq Job
      /\ issued \subseteq Fresh /\ halfway \subseteq User /\ haunted \subseteq User
      /\ wasted \subseteq Email
  BY <1>1 DEF Init
<1>7. /\ pc \in [Proc -> Statement] /\ req \in [Proc -> Request \cup {NoReq}]
      /\ key \in [Proc -> Resource \cup {NoKey}] /\ size \in [Proc -> SUBSET Piece]
      /\ seen \in [Proc -> SUBSET Piece] /\ revoked \in [Proc -> BOOLEAN]
      /\ \A p \in Proc : /\ pc[p] = "idle" <=> req[p] = NoReq
                         /\ pc[p] = "encoding" <=> \E j \in jobs : j.for = p
  BY DEF Init, Statement
<1>8. OneEncoder /\ KeyKnown
  BY DEF Init, OneEncoder, KeyKnown, Uploads, Downloads
<1>9. QED
  BY <1>1, <1>2, <1>3, <1>4, <1>5, <1>6, <1>7, <1>8 DEF TypeInv, TypeOK

(* The end of a request takes its encoder with it, or makes it nobody's. *)
LEMMA EndsTypes ==
  ASSUME TypeInv, NEW p \in Proc, pc[p] # "idle", Ends(p), UNCHANGED file,
         jobs' \subseteq Job, OneEncoder',
         \A j \in jobs' : j.for # p,
         \A q \in Proc \ {p} : (\E j \in jobs' : j.for = q) <=> (\E j \in jobs : j.for = q)
  PROVE  TypeInv'
<1>1. /\ UNCHANGED <<mailbox, vectors, codes, row, perm, stored, file, issued, made, mine, haunted>>
      /\ accounts' = accounts
  BY DEF Ends, Finish, tables, accounts
<1>2. wasted' \subseteq Email /\ halfway' \subseteq User
  <2>1. req[p] \in Request
    BY BusyRequest DEF TypeInv
  <2>2. req[p].by \in User /\ (req[p].op = "register" => req[p].email \in Email)
    BY <2>1, RequestFields
  <2>3. QED
    BY <2>2 DEF Ends, Running, TypeInv, TypeOK
<1>3. /\ pc' \in [Proc -> Statement] /\ req' \in [Proc -> Request \cup {NoReq}]
      /\ key' \in [Proc -> Resource \cup {NoKey}] /\ size' \in [Proc -> SUBSET Piece]
      /\ seen' \in [Proc -> SUBSET Piece] /\ revoked' \in [Proc -> BOOLEAN]
  BY DEF Ends, Finish, TypeInv, TypeOK, Statement
<1>4. ASSUME NEW q \in Proc
      PROVE  /\ pc'[q] = "idle" <=> req'[q] = NoReq
             /\ pc'[q] = "encoding" <=> \E j \in jobs' : j.for = q
  <2>1. CASE q = p
    BY <2>1 DEF Ends, Finish, TypeInv, TypeOK
  <2>2. CASE q # p
    BY <2>2 DEF Ends, Finish, TypeInv, TypeOK
  <2>3. QED
    BY <2>1, <2>2
<1>5. KeyKnown'
  BY DEF Ends, Finish, TypeInv, TypeOK, KeyKnown, Uploads, Downloads
<1>6. TypeOK'
  BY <1>1, <1>2, <1>3, <1>4 DEF TypeInv, TypeOK
<1>7. QED
  BY <1>5, <1>6 DEF TypeInv

LEMMA RefuseTypes ==
  ASSUME TypeInv, NEW p \in Proc, pc[p] \notin {"idle", "encoding"}, Refuse(p)
  PROVE  TypeInv'
<1>1. jobs' = jobs /\ UNCHANGED file
  BY DEF Refuse, disk
<1>2. \A j \in jobs : j.for # p
  BY DEF TypeInv, TypeOK
<1>3. OneEncoder'
  BY <1>1 DEF OneEncoder, TypeInv
<1>4. QED
  BY <1>1, <1>2, <1>3, EndsTypes DEF Refuse, TypeInv, TypeOK

LEMMA FailTypes ==
  ASSUME TypeInv, NEW p \in Proc, Fail(p)
  PROVE  TypeInv'
<1>1. jobs' \subseteq Job
  BY DEF Fail, Job, TypeInv, TypeOK
<1>2. \A j \in jobs' : j.for # p
  BY ProcNotOrphan DEF Fail, Job, TypeInv, TypeOK
<1>3. OneEncoder'
  BY DEF Fail, OneEncoder, Job, TypeInv, TypeOK
<1>4. \A q \in Proc \ {p} : (\E j \in jobs' : j.for = q) <=> (\E j \in jobs : j.for = q)
  BY ProcNotOrphan DEF Fail, Job, TypeInv, TypeOK
<1>5. QED
  BY <1>1, <1>2, <1>3, <1>4, EndsTypes DEF Fail

(* A request goes on to its next statement. *)
LEMMA GotoTypes ==
  ASSUME TypeInv, NEW p \in Proc, pc[p] \notin {"idle", "encoding"},
         NEW next \in Statement \ {"idle", "encoding"}, Goto(p, next), UNCHANGED jobs
  PROVE  /\ pc' \in [Proc -> Statement] /\ req' \in [Proc -> Request \cup {NoReq}]
         /\ made' \in 0..MaxRequests /\ jobs' \subseteq Job /\ OneEncoder'
         /\ \A q \in Proc : /\ pc'[q] = "idle" <=> req'[q] = NoReq
                            /\ pc'[q] = "encoding" <=> \E j \in jobs' : j.for = q
BY DEF Goto, TypeInv, TypeOK, OneEncoder

LEMMA QuietTypes ==
  ASSUME TypeInv, NEW p \in Proc, pc[p] \notin {"idle", "encoding"},
         NEW next \in Statement \ {"idle", "encoding"}, Goto(p, next),
         UNCHANGED <<tables, disk, issued, locals, aux>>,
         next \in Uploads \cup Downloads => key[p] \in Resource
  PROVE  TypeInv'
<1>1. UNCHANGED jobs
  BY DEF disk
<1>2. KeyKnown'
  BY DEF Goto, TypeInv, TypeOK, KeyKnown, locals
<1>3. TypeOK' /\ OneEncoder'
  BY <1>1, GotoTypes DEF TypeInv, TypeOK, tables, disk, locals, aux, accounts
<1>4. QED
  BY <1>2, <1>3 DEF TypeInv

LEMMA SubmitTypes ==
  ASSUME TypeInv, NEW p \in Proc, NEW r \in Requests, Submit(p, r)
  PROVE  TypeInv'
<1>1. r \in Request /\ r # NoReq
  BY RequestsType, RequestFields
<1>2. made' \in 0..MaxRequests
  BY ParametersType DEF Submit, TypeInv, TypeOK
<1>3. /\ pc' \in [Proc -> Statement] /\ req' \in [Proc -> Request \cup {NoReq}]
      /\ \A q \in Proc : /\ pc'[q] = "idle" <=> req'[q] = NoReq
                         /\ pc'[q] = "encoding" <=> pc[q] = "encoding"
  BY <1>1 DEF Submit, TypeInv, TypeOK, Statement
<1>4. KeyKnown' /\ OneEncoder'
  BY DEF Submit, TypeInv, TypeOK, KeyKnown, OneEncoder, Uploads, Downloads, locals, disk
<1>5. TypeOK'
  BY <1>2, <1>3 DEF Submit, TypeInv, TypeOK, tables, disk, locals, aux, accounts
<1>6. QED
  BY <1>4, <1>5 DEF TypeInv

LEMMA VerifyTypes ==
  ASSUME TypeInv, NEW p \in Proc, Verify(p)
  PROVE  TypeInv'
<1>1. CASE req[p].by \in accounts
  <2>1. PICK next \in {"authorise", "row", "delete"} :
          Goto(p, next) /\ UNCHANGED <<tables, disk, issued, locals, aux>>
    BY <1>1 DEF Verify
  <2>2. QED
    BY <2>1, QuietTypes DEF Verify, Statement, Uploads, Downloads
<1>2. CASE req[p].by \notin accounts
  BY <1>2, RefuseTypes DEF Verify
<1>3. QED
  BY <1>1, <1>2

-----------------------------------------------------------------------------
LEMMA UploadTypes ==
  ASSUME TypeInv, NEW p \in Proc, Upload(p)
  PROVE  TypeInv'
<1> DEFINE r == req[p]
<1>1. /\ pc[p] # "idle" /\ r \in Request /\ r.op = "upload"
      /\ r.by \in User /\ r.to \in User \cup Space /\ r.c \in Content
  BY BusyRequest, RequestFields DEF Upload, Running, TypeInv
<1>2. CASE Authorise(p)
  <2>1. CASE MayUpload(r)
    <3>1. PICK k \in NewKeys(r) :
            key' = [key EXCEPT ![p] = k] /\ issued' = issued \cup ({k} \cap Fresh)
      BY <1>2, <2>1 DEF Authorise, Refuse
    <3>2. k \in Resource
      BY DEF NewKeys, Resource
    <3>3. Goto(p, "receive") /\ UNCHANGED <<tables, disk, size, seen, revoked, halfway, haunted, wasted>>
      BY <1>2, <2>1 DEF Authorise
    <3>4. mine' \in [User -> SUBSET Piece]
      BY <1>1, <1>2, <2>1 DEF Authorise, Piece, TypeInv, TypeOK
    <3>5. KeyKnown'
      BY <3>1, <3>2, <3>3 DEF Goto, KeyKnown, TypeInv, TypeOK
    <3>6. TypeOK' /\ OneEncoder'
      BY <1>2, <3>1, <3>2, <3>3, <3>4, GotoTypes
      DEF Authorise, TypeInv, TypeOK, Statement, tables, disk, accounts
    <3>7. QED
      BY <3>5, <3>6 DEF TypeInv
  <2>2. CASE ~MayUpload(r)
    BY <1>2, <2>2, RefuseTypes DEF Authorise
  <2>3. QED
    BY <2>1, <2>2
<1>3. CASE Receive(p)
  <2>1. CASE Refuse(p)
    BY <1>3, <2>1, RefuseTypes DEF Receive
  <2>2. CASE ~Refuse(p)
    <3> DEFINE new == [res |-> key[p], c |-> r.c, for |-> p, on |-> FALSE]
    <3>1. /\ pc[p] = "receive" /\ jobs' = jobs \cup {new} /\ Goto(p, "encoding")
          /\ UNCHANGED <<tables, file, issued, locals, aux>>
      BY <1>3, <2>2 DEF Receive, AfterSpawn
    <3>2. new \in Job /\ new.for = p
      BY <1>1, <3>1 DEF Job, TypeInv, KeyKnown, Uploads
    <3>3. \A j \in jobs : j.for # p
      BY <3>1 DEF TypeInv, TypeOK
    <3> HIDE DEF new
    <3>4. jobs' \subseteq Job /\ OneEncoder'
      BY <3>1, <3>2, <3>3 DEF TypeInv, TypeOK, OneEncoder
    <3>5. pc' \in [Proc -> Statement] /\ req' = req /\ made' = made
      BY <3>1 DEF Goto, Statement, TypeInv, TypeOK
    <3>6. ASSUME NEW q \in Proc
          PROVE  /\ pc'[q] = "idle" <=> req'[q] = NoReq
                 /\ pc'[q] = "encoding" <=> \E j \in jobs' : j.for = q
      BY <1>1, <3>1, <3>2 DEF Goto, TypeInv, TypeOK
    <3>7. KeyKnown'
      BY <3>1 DEF Goto, KeyKnown, TypeInv, TypeOK, locals, Uploads
    <3>8. TypeOK'
      BY <3>1, <3>4, <3>5, <3>6 DEF TypeInv, TypeOK, tables, locals, aux, accounts
    <3>9. QED
      BY <3>4, <3>7, <3>8 DEF TypeInv
  <2>3. QED
    BY <2>1, <2>2
<1>4. CASE Stat(p)
  <2>1. key[p] \in Resource
    BY <1>4 DEF Stat, TypeInv, KeyKnown, Uploads
  <2>2. size' \in [Proc -> SUBSET Piece]
    BY <1>4, <2>1 DEF Stat, TypeInv, TypeOK
  <2>3. KeyKnown'
    BY <1>4 DEF Stat, Goto, KeyKnown, TypeInv, TypeOK, Uploads
  <2>4. UNCHANGED <<tables, disk, issued, key, seen, aux>> /\ Goto(p, "exists")
    BY <1>4 DEF Stat
  <2>5. TypeOK' /\ OneEncoder'
    BY <1>4, <2>2, <2>4, GotoTypes DEF Stat, TypeInv, TypeOK, Statement, tables, disk, aux, accounts
  <2>6. QED
    BY <2>3, <2>5 DEF TypeInv
<1>5. CASE Exists(p)
  <2>1. CASE Refuse(p)
    BY <1>5, <2>1, RefuseTypes DEF Exists
  <2>2. CASE ~Refuse(p)
    BY <1>5, <2>2, QuietTypes DEF Exists, Statement, TypeInv, KeyKnown, Uploads
  <2>3. QED
    BY <2>1, <2>2
<1>6. CASE Create(p)
  <2>1. CASE Refuse(p)
    BY <1>6, <2>1, RefuseTypes DEF Create
  <2>2. CASE ~Refuse(p)
    <3>1. /\ pc[p] = "create" /\ Finish(p)
          /\ UNCHANGED <<mailbox, vectors, codes, perm, stored, disk, mine, halfway, haunted, wasted>>
          /\ row' = [row EXCEPT ![key[p]] =
                [by |-> r.by, space |-> IF r.to \in User THEN "icon" ELSE r.to, size |-> size[p]]]
      BY <1>6, <2>2 DEF Create
    <3>2. row' \in [Resource -> Row \cup {NoRow}]
      BY <1>1, <3>1 DEF Row, TypeInv, TypeOK
    <3>3. /\ pc' \in [Proc -> Statement] /\ req' \in [Proc -> Request \cup {NoReq}]
          /\ key' \in [Proc -> Resource \cup {NoKey}] /\ size' \in [Proc -> SUBSET Piece]
          /\ seen' \in [Proc -> SUBSET Piece] /\ revoked' \in [Proc -> BOOLEAN]
          /\ \A q \in Proc : /\ pc'[q] = "idle" <=> req'[q] = NoReq
                             /\ pc'[q] = "encoding" <=> pc[q] = "encoding"
      BY <3>1 DEF Finish, Statement, TypeInv, TypeOK
    <3>4. KeyKnown' /\ OneEncoder'
      BY <3>1 DEF Finish, KeyKnown, OneEncoder, TypeInv, TypeOK, Uploads, Downloads, disk
    <3>5. TypeOK'
      BY <3>1, <3>2, <3>3 DEF Finish, TypeInv, TypeOK, disk, accounts
    <3>6. QED
      BY <3>4, <3>5 DEF TypeInv
  <2>3. QED
    BY <2>1, <2>2
<1>7. QED
  BY <1>2, <1>3, <1>4, <1>5, <1>6 DEF Upload

-----------------------------------------------------------------------------
LEMMA EncodeTypes ==
  ASSUME TypeInv, Encode
  PROVE  TypeInv'
<1>1. PICK j \in jobs : Open(j) \/ Encoded(j) \/ EncoderFails(j)
  BY DEF Encode
<1>2. /\ j.res \in Resource /\ j.c \in Content /\ j.for \in Proc \cup {Orphan} /\ j \in Job
      /\ j.for # Orphan => pc[j.for] = "encoding"
  BY ProcNotOrphan DEF TypeInv, TypeOK, Job
<1>3. CASE Open(j)
  <2> DEFINE on == [j EXCEPT !.on = TRUE]
  <2>1. on \in Job /\ on.for = j.for
    BY <1>2 DEF Job
  <2> HIDE DEF on
  <2>2. /\ jobs' = (jobs \ {j}) \cup {on}
        /\ UNCHANGED <<tables, issued, made, pc, req, locals, aux>>
    BY <1>3 DEF Open, on
  <2>3. jobs' \subseteq Job /\ OneEncoder'
    BY <2>1, <2>2 DEF TypeInv, TypeOK, OneEncoder
  <2>4. \A q \in Proc : (\E i \in jobs' : i.for = q) <=> (\E i \in jobs : i.for = q)
    BY <2>1, <2>2
  <2>5. file' \in [Resource -> SUBSET Piece]
    BY <1>2, <1>3 DEF Open, Piece, TypeInv, TypeOK
  <2>6. TypeOK' /\ KeyKnown'
    BY <2>2, <2>3, <2>4, <2>5 DEF TypeInv, TypeOK, KeyKnown, tables, locals, aux, accounts
  <2>7. QED
    BY <2>3, <2>6 DEF TypeInv
<1>4. CASE Encoded(j)
  <2>1. jobs' = jobs \ {j} /\ UNCHANGED <<tables, issued, made, req, locals, aux>>
    BY <1>4 DEF Encoded
  <2>2. jobs' \subseteq Job /\ OneEncoder'
    BY <2>1 DEF TypeInv, TypeOK, OneEncoder
  <2>3. file' \in [Resource -> SUBSET Piece]
    <3>1. PICK new \in Over(file[j.res], j.c) : file' = [file EXCEPT ![j.res] = new]
      BY <1>4 DEF Encoded
    <3>2. new \in SUBSET Piece
      BY <1>2 DEF Over, Piece, TypeInv, TypeOK
    <3>3. QED
      BY <1>2, <3>1, <3>2 DEF TypeInv, TypeOK
  <2>4. /\ pc' \in [Proc -> Statement]
        /\ \A q \in Proc : pc'[q] = IF q = j.for THEN "stat" ELSE pc[q]
    BY <1>2, <1>4, ProcNotOrphan DEF Encoded, Statement, TypeInv, TypeOK
  <2>5. ASSUME NEW q \in Proc
        PROVE  /\ pc'[q] = "idle" <=> req'[q] = NoReq
               /\ pc'[q] = "encoding" <=> \E i \in jobs' : i.for = q
    <3>1. CASE q = j.for
      BY <1>2, <2>1, <2>4, <3>1, ProcNotOrphan DEF TypeInv, TypeOK, OneEncoder
    <3>2. CASE q # j.for
      BY <2>1, <2>4, <3>2 DEF TypeInv, TypeOK
    <3>3. QED
      BY <3>1, <3>2
  <2>6. KeyKnown'
    BY <1>2, <2>1, <2>4, ProcNotOrphan DEF TypeInv, KeyKnown, Uploads, Downloads, locals
  <2>7. TypeOK'
    BY <2>1, <2>2, <2>3, <2>4, <2>5 DEF TypeInv, TypeOK, tables, locals, aux, accounts
  <2>8. QED
    BY <2>2, <2>6, <2>7 DEF TypeInv
<1>5. CASE EncoderFails(j)
  <2>1. /\ jobs' = jobs \ {j} /\ UNCHANGED file
        /\ jobs' \subseteq Job /\ OneEncoder'
    BY <1>5 DEF EncoderFails, TypeInv, TypeOK, OneEncoder
  <2>2. CASE j.for = Orphan
    <3>1. UNCHANGED <<tables, issued, made, pc, req, locals, aux>>
      BY <1>5, <2>2 DEF EncoderFails
    <3>2. \A q \in Proc : (\E i \in jobs' : i.for = q) <=> (\E i \in jobs : i.for = q)
      BY <2>1, <2>2, ProcNotOrphan
    <3>3. TypeOK' /\ KeyKnown'
      BY <2>1, <3>1, <3>2 DEF TypeInv, TypeOK, KeyKnown, tables, locals, aux, accounts
    <3>4. QED
      BY <2>1, <3>3 DEF TypeInv
  <2>3. CASE j.for # Orphan
    <3>1. \A i \in jobs' : i.for # j.for
      BY <2>1, <2>3 DEF TypeInv, OneEncoder
    <3>2. \A q \in Proc \ {j.for} : (\E i \in jobs' : i.for = q) <=> (\E i \in jobs : i.for = q)
      BY <2>1
    <3>3. Ends(j.for) /\ pc[j.for] # "idle" /\ j.for \in Proc
      BY <1>2, <1>5, <2>3 DEF EncoderFails
    <3>4. QED
      BY <2>1, <3>1, <3>2, <3>3, EndsTypes
  <2>4. QED
    BY <2>2, <2>3
<1>6. QED
  BY <1>1, <1>3, <1>4, <1>5

LEMMA DownloadTypes ==
  ASSUME TypeInv, NEW p \in Proc, Download(p)
  PROVE  TypeInv'
<1>1. pc[p] # "idle" /\ req[p] \in Request /\ req[p].of \in Resource
  BY BusyRequest, RequestFields DEF Download, Running, TypeInv
<1>2. CASE ReadRow(p)
  <2>1. CASE row[req[p].of] # NoRow
    <3>1. PICK next \in {"members", "open"} : Goto(p, next)
      BY <1>2, <2>1 DEF ReadRow
    <3>2. /\ key' = [key EXCEPT ![p] = req[p].of]
          /\ size' = [size EXCEPT ![p] = row[req[p].of].size]
          /\ UNCHANGED <<tables, disk, issued, seen, aux>>
      BY <1>2, <2>1 DEF ReadRow, Refuse
    <3>3. row[req[p].of].size \in SUBSET Piece
      BY <1>1, <2>1 DEF Row, TypeInv, TypeOK
    <3>4. KeyKnown'
      BY <1>1, <3>1, <3>2 DEF Goto, KeyKnown, TypeInv, TypeOK
    <3>5. TypeOK' /\ OneEncoder'
      BY <1>1, <1>2, <3>1, <3>2, <3>3, GotoTypes
      DEF ReadRow, Statement, TypeInv, TypeOK, tables, disk, aux, accounts
    <3>6. QED
      BY <3>4, <3>5 DEF TypeInv
  <2>2. CASE row[req[p].of] = NoRow
    BY <1>2, <2>2, RefuseTypes DEF ReadRow
  <2>3. QED
    BY <2>1, <2>2
<1>3. CASE CheckMember(p)
  <2>1. CASE perm[req[p].by] # "none"
    BY <1>3, <2>1, QuietTypes DEF CheckMember, Statement, TypeInv, KeyKnown, Downloads
  <2>2. CASE perm[req[p].by] = "none"
    BY <1>3, <2>2, RefuseTypes DEF CheckMember
  <2>3. QED
    BY <2>1, <2>2
<1>4. ASSUME NEW next \in {"stream", "more"}, pc[p] \in {"open", "stream"}, Stream(p, next)
      PROVE  TypeInv'
  <2>1. key[p] \in Resource
    BY <1>4 DEF TypeInv, KeyKnown, Downloads
  <2>2. seen' \in [Proc -> SUBSET Piece]
    BY <1>4, <2>1 DEF Stream, TypeInv, TypeOK
  <2>3. KeyKnown'
    BY <1>4, <2>1 DEF Stream, Goto, KeyKnown, TypeInv, TypeOK
  <2>4. TypeOK' /\ OneEncoder'
    BY <1>4, <2>2, GotoTypes
    DEF Stream, Statement, TypeInv, TypeOK, tables, disk, aux, accounts
  <2>5. QED
    BY <2>3, <2>4 DEF TypeInv
<1>5. CASE pc[p] \in {"open", "more"} /\ Refuse(p)
  BY <1>5, RefuseTypes
<1>6. QED
  BY <1>2, <1>3, <1>4, <1>5 DEF Download

-----------------------------------------------------------------------------
LEMMA RegisterTypes ==
  ASSUME TypeInv, NEW p \in Proc, Register(p)
  PROVE  TypeInv'
<1> DEFINE r == req[p]
<1>1. pc[p] # "idle" /\ r \in Request /\ r.by \in User /\ r.email \in Email /\ r.by \in Resource
  BY BusyRequest, RequestFields DEF Register, Running, TypeInv, Resource
<1>2. CASE SpendCode(p)
  <2>1. CASE r.email \in codes
    <3>1. KeyKnown'
      BY <1>2, <2>1 DEF SpendCode, Goto, KeyKnown, TypeInv, TypeOK, locals, Uploads, Downloads
    <3>2. /\ Goto(p, "settings") /\ codes' = codes \ {r.email}
          /\ UNCHANGED <<mailbox, vectors, row, perm, stored, disk, issued, locals, aux>>
      BY <1>2, <2>1 DEF SpendCode
    <3>3. TypeOK' /\ OneEncoder'
      BY <1>2, <3>2, GotoTypes DEF SpendCode, Statement, TypeInv, TypeOK, disk, locals, aux, accounts
    <3>4. QED
      BY <3>1, <3>3 DEF TypeInv
  <2>2. CASE r.email \notin codes
    BY <1>2, <2>2, RefuseTypes DEF SpendCode
  <2>3. QED
    BY <2>1, <2>2
<1>3. CASE CheckSettings(p)
  BY <1>3, QuietTypes, RefuseTypes DEF CheckSettings, Statement, Uploads, Downloads
<1>4. CASE InsertUser(p)
  <2>1. CASE ~Taken(r)
    <3>1. /\ pc[p] = "user" /\ Goto(p, "icon")
          /\ mailbox' = [mailbox EXCEPT ![r.by] = r.email]
          /\ mine' = [mine EXCEPT ![r.by] = {Default}]
          /\ haunted' = haunted \/ haunted' = haunted \cup {r.by}
          /\ UNCHANGED <<vectors, codes, row, perm, stored, disk, issued, locals, revoked,
                         halfway, wasted>>
      BY <1>4, <2>1 DEF InsertUser
    <3>2. /\ mailbox' \in [User -> Email \cup {NoEmail}]
          /\ accounts \subseteq accounts'
      BY <1>1, <3>1, NoEmailIsNone DEF TypeInv, TypeOK, accounts
    <3>3. mine' \in [User -> SUBSET Piece] /\ haunted' \subseteq User
      BY <1>1, <3>1 DEF Piece, TypeInv, TypeOK
    <3>4. KeyKnown'
      BY <3>1 DEF Goto, KeyKnown, TypeInv, TypeOK, locals, Uploads, Downloads
    <3>5. vectors' \subseteq accounts'
      BY <3>1, <3>2 DEF TypeInv, TypeOK
    <3>6. TypeOK' /\ OneEncoder'
      BY <3>1, <3>2, <3>3, <3>5, GotoTypes DEF Statement, TypeInv, TypeOK, disk, locals
    <3>7. QED
      BY <3>4, <3>6 DEF TypeInv
  <2>2. CASE Taken(r)
    BY <1>4, <2>2, RefuseTypes DEF InsertUser
  <2>3. QED
    BY <2>1, <2>2
<1>5. CASE InsertIcon(p)
  <2>1. CASE Refuse(p)
    BY <1>5, <2>1, RefuseTypes DEF InsertIcon
  <2>2. CASE ~Refuse(p)
    <3>1. /\ pc[p] = "icon" /\ Goto(p, "write")
          /\ row' = [row EXCEPT ![r.by] = [by |-> r.by, space |-> "icon", size |-> {Default}]]
          /\ UNCHANGED <<mailbox, vectors, codes, perm, stored, disk, issued, locals, aux>>
      BY <1>5, <2>2 DEF InsertIcon
    <3>2. row' \in [Resource -> Row \cup {NoRow}]
      BY <1>1, <3>1 DEF Row, Piece, TypeInv, TypeOK
    <3>3. KeyKnown'
      BY <3>1 DEF Goto, KeyKnown, TypeInv, TypeOK, locals, Uploads, Downloads
    <3>4. TypeOK' /\ OneEncoder'
      BY <3>1, <3>2, GotoTypes DEF Statement, TypeInv, TypeOK, disk, locals, aux, accounts
    <3>5. QED
      BY <3>3, <3>4 DEF TypeInv
  <2>3. QED
    BY <2>1, <2>2
<1>6. CASE WriteIcon(p)
  <2>1. PICK next \in {"written", "vector"} :
          Goto(p, next) /\ pc[p] \in {"write", "written"}
    BY <1>6 DEF WriteIcon
  <2>2. file' \in [Resource -> SUBSET Piece]
    <3>1. CASE pc[p] = "write"
      BY <1>1, <1>6, <3>1 DEF WriteIcon, Piece, TypeInv, TypeOK
    <3>2. CASE pc[p] # "write"
      <4>1. PICK new \in Over(file[r.by], Default) : file' = [file EXCEPT ![r.by] = new]
        BY <1>6, <3>2 DEF WriteIcon
      <4>2. new \in SUBSET Piece
        BY <1>1 DEF Over, Piece, TypeInv, TypeOK
      <4>3. QED
        BY <1>1, <4>1, <4>2 DEF TypeInv, TypeOK
    <3>3. QED
      BY <3>1, <3>2
  <2>3. UNCHANGED <<tables, jobs, issued, locals, aux>>
    BY <1>6 DEF WriteIcon
  <2>4. KeyKnown'
    BY <2>1, <2>3 DEF Goto, KeyKnown, TypeInv, TypeOK, locals, Uploads, Downloads
  <2>5. TypeOK' /\ OneEncoder'
    BY <2>1, <2>2, <2>3, GotoTypes DEF Statement, TypeInv, TypeOK, tables, locals, aux, accounts
  <2>6. QED
    BY <2>4, <2>5 DEF TypeInv
<1>7. CASE InitVector(p)
  <2>1. /\ pc[p] = "vector" /\ Finish(p) /\ vectors' = vectors \cup ({r.by} \cap accounts)
        /\ UNCHANGED <<mailbox, codes, row, perm, stored, disk, mine, halfway, haunted, wasted>>
    BY <1>7 DEF InitVector
  <2>2. vectors' \subseteq accounts'
    BY <2>1 DEF TypeInv, TypeOK, accounts
  <2>3. /\ pc' \in [Proc -> Statement] /\ req' \in [Proc -> Request \cup {NoReq}]
        /\ key' \in [Proc -> Resource \cup {NoKey}] /\ size' \in [Proc -> SUBSET Piece]
        /\ seen' \in [Proc -> SUBSET Piece] /\ revoked' \in [Proc -> BOOLEAN]
        /\ \A q \in Proc : /\ pc'[q] = "idle" <=> req'[q] = NoReq
                           /\ pc'[q] = "encoding" <=> pc[q] = "encoding"
    BY <2>1 DEF Finish, Statement, TypeInv, TypeOK
  <2>4. KeyKnown' /\ OneEncoder'
    BY <2>1 DEF Finish, KeyKnown, OneEncoder, TypeInv, TypeOK, Uploads, Downloads, disk
  <2>5. TypeOK'
    BY <2>1, <2>2, <2>3 DEF Finish, TypeInv, TypeOK, disk
  <2>6. QED
    BY <2>4, <2>5 DEF TypeInv
<1>8. QED
  BY <1>2, <1>3, <1>4, <1>5, <1>6, <1>7 DEF Register

LEMMA RightsTypes ==
  ASSUME TypeInv
  PROVE  NoteRights \in [Proc -> BOOLEAN]
BY DEF NoteRights, TypeInv, TypeOK

LEMMA DeleteTypes ==
  ASSUME TypeInv, NEW p \in Proc, Delete(p)
  PROVE  TypeInv'
<1> DEFINE u == req[p].by
<1>1. pc[p] = "delete" /\ u \in User
  BY BusyRequest, RequestFields DEF Delete, Running, TypeInv
<1>2. /\ mailbox' \in [User -> Email \cup {NoEmail}]
      /\ accounts' = accounts \ {u}
  BY <1>1 DEF Delete, TypeInv, TypeOK, accounts
<1>3. row' \in [Resource -> Row \cup {NoRow}]
  BY DEF Delete, TypeInv, TypeOK
<1>4. perm' \in [User -> {"none", "read", "write"}] /\ mine' \in [User -> SUBSET Piece]
  BY <1>1 DEF Delete, TypeInv, TypeOK
<1>5. stored' \in BOOLEAN
  BY DEF Delete
<1>6. revoked' \in [Proc -> BOOLEAN]
  BY RightsTypes DEF Delete
<1>7. /\ pc' \in [Proc -> Statement] /\ req' \in [Proc -> Request \cup {NoReq}]
      /\ \A q \in Proc : /\ pc'[q] = "idle" <=> req'[q] = NoReq
                         /\ pc'[q] = "encoding" <=> pc[q] = "encoding"
  BY <1>1 DEF Delete, Statement, TypeInv, TypeOK
<1>8. /\ UNCHANGED <<codes, file, jobs, issued, made, key, size, seen>>
      /\ vectors' \subseteq accounts'
      /\ halfway' \subseteq User /\ haunted' \subseteq User /\ wasted' \subseteq Email
  BY <1>2 DEF Delete, TypeInv, TypeOK, disk, locals
<1>9. KeyKnown' /\ OneEncoder'
  BY <1>8 DEF Delete, KeyKnown, OneEncoder, TypeInv, TypeOK, Uploads, Downloads
<1>10. TypeOK'
  BY <1>2, <1>3, <1>4, <1>5, <1>6, <1>7, <1>8 DEF TypeInv, TypeOK
<1>11. QED
  BY <1>9, <1>10 DEF TypeInv

LEMMA ChangeRightsTypes ==
  ASSUME TypeInv, ChangeRights
  PROVE  TypeInv'
<1>1. perm' \in [User -> {"none", "read", "write"}]
  BY ParametersType DEF ChangeRights, DeletePost, SetPerm, TypeInv, TypeOK
<1>2. stored' \in BOOLEAN
  BY DEF ChangeRights, DeletePost, SetPerm, TypeInv, TypeOK
<1>3. revoked' \in [Proc -> BOOLEAN]
  BY RightsTypes DEF ChangeRights
<1>4. /\ UNCHANGED <<mailbox, vectors, codes, row, file, jobs, issued, made, pc, req, locals,
                    mine, halfway, haunted, wasted>>
  BY DEF ChangeRights, disk
<1>5. TypeOK' /\ OneEncoder' /\ KeyKnown'
  BY <1>1, <1>2, <1>3, <1>4 DEF TypeInv, TypeOK, OneEncoder, KeyKnown, locals, accounts
<1>6. QED
  BY <1>5 DEF TypeInv

LEMMA StepTypes == TypeInv /\ [Next]_vars => TypeInv'
<1> SUFFICES ASSUME TypeInv, [Next]_vars PROVE TypeInv'
  OBVIOUS
<1>1. CASE UNCHANGED vars
  BY <1>1 DEF vars, tables, disk, locals, aux, TypeInv, TypeOK, OneEncoder, KeyKnown, accounts
<1>2. CASE Next
  BY <1>2, SubmitTypes, VerifyTypes, UploadTypes, EncodeTypes, DownloadTypes, RegisterTypes,
     DeleteTypes, ChangeRightsTypes, FailTypes DEF Next
<1>3. QED
  BY <1>1, <1>2

(* Every variable keeps its type, and a request waits for an encoder       *)
(* exactly while one works for it (services/resource.rs:115), whatever     *)
(* requests are dropped.                                                   *)
THEOREM TypeCorrect == Spec => []TypeOK
<1>1. TypeInv => TypeOK
  BY DEF TypeInv
<1>2. QED
  BY <1>1, InitTypes, StepTypes, PTL DEF Spec

-----------------------------------------------------------------------------
(* Fresh keys.  A key is worked on by one upload, then its file is settled:*)
(* whole, and written by nobody any more.  Rows and downloads are of       *)
(* settled files.                                                          *)

Whole(f) == \E c \in Content : file[f] = {c}

Settled(f) ==
  /\ f \in issued
  /\ Whole(f)
  /\ \A j \in jobs : j.res # f
  /\ \A p \in Proc : ~Uploading(p, f)

JobsInv ==
  \A j \in jobs :
    /\ j.for # Orphan => key[j.for] = j.res
    /\ j.res \in Fresh =>
         /\ j.res \in issued
         /\ row[j.res] = NoRow
         /\ j.on => file[j.res] = {"part"}
         /\ \A p \in Proc : Uploading(p, j.res) => pc[p] = "encoding"
         /\ \A i \in jobs : i.res = j.res => i = j

UploadsInv ==
  \A p \in Proc, f \in Fresh :
    Uploading(p, f) =>
      /\ f \in issued
      /\ row[f] = NoRow
      /\ \A q \in Proc : Uploading(q, f) => q = p
      /\ pc[p] \in {"stat", "exists", "create"} => Whole(f)
      /\ pc[p] \in {"exists", "create"} => size[p] = file[f]

RowsInv == \A f \in Fresh : row[f] # NoRow => Settled(f) /\ row[f].size = file[f]

DownloadsInv ==
  \A p \in Proc :
    /\ pc[p] \in {"stream", "more"} \/ seen[p] = {}
    /\ pc[p] \in Downloads /\ key[p] \in Fresh =>
         /\ Settled(key[p])
         /\ size[p] = file[key[p]]
         /\ pc[p] \in {"stream", "more"} => seen[p] = size[p]

FreshInv == JobsInv /\ UploadsInv /\ RowsInv /\ DownloadsInv

LEMMA InitFresh == Init => FreshInv
<1> SUFFICES ASSUME Init PROVE FreshInv
  OBVIOUS
<1>1. \A f \in Fresh : row[f] = NoRow
  BY KeysDiffer DEF Init, Resource, Members
<1>2. QED
  BY <1>1 DEF Init, FreshInv, JobsInv, UploadsInv, RowsInv, DownloadsInv, Uploading, Uploads,
              Downloads

(* Steps after which nobody works on anything fresh who did not before.    *)
Rests(p) == pc'[p] \notin Uploads \cup Downloads /\ seen'[p] = {} /\ \A j \in jobs' : j.for # p
Stays(p) == pc'[p] = pc[p] /\ key'[p] = key[p] /\ size'[p] = size[p] /\ seen'[p] = seen[p]
Older(j, i) == j.res = i.res /\ j.on = i.on /\ j.for \in {i.for, Orphan}

Quiet ==
  /\ issued' = issued
  /\ \A f \in Fresh : file'[f] = file[f] /\ row'[f] \in {row[f], NoRow}
  /\ \A p \in Proc : Stays(p) \/ Rests(p)
  /\ \A j \in jobs' : \E i \in jobs : Older(j, i)
  /\ \A j, k \in jobs' : j.res = k.res /\ j.res \in Fresh => j = k

LEMMA QuietFresh ==
  ASSUME TypeInv, FreshInv, Quiet
  PROVE  FreshInv'
<1>1. ASSUME NEW p \in Proc, NEW f, Uploading(p, f)'
      PROVE  Uploading(p, f) /\ Stays(p)
  BY <1>1 DEF Uploading, Quiet, Stays, Rests
<1>2. ASSUME NEW f \in Fresh, Settled(f)
      PROVE  Settled(f)'
  BY <1>1, <1>2 DEF Settled, Quiet, Older, Whole
<1>3. JobsInv'
  <2> SUFFICES ASSUME NEW j \in jobs'
               PROVE  /\ j.for # Orphan => key'[j.for] = j.res
                      /\ j.res \in Fresh =>
                           /\ j.res \in issued'
                           /\ row'[j.res] = NoRow
                           /\ j.on => file'[j.res] = {"part"}
                           /\ \A p \in Proc : Uploading(p, j.res)' => pc'[p] = "encoding"
                           /\ \A i \in jobs' : i.res = j.res => i = j
    BY DEF JobsInv, Uploading
  <2>1. PICK i \in jobs : Older(j, i)
    BY DEF Quiet
  <2>2. j.for # Orphan => j.for \in Proc /\ key[j.for] = j.res /\ ~Rests(j.for)
    BY <2>1 DEF Older, FreshInv, JobsInv, TypeInv, TypeOK, Job, Rests
  <2>3. j.for # Orphan => key'[j.for] = j.res
    BY <2>2 DEF Quiet, Stays
  <2>4. ASSUME j.res \in Fresh
        PROVE  /\ j.res \in issued'
               /\ row'[j.res] = NoRow
               /\ j.on => file'[j.res] = {"part"}
               /\ \A p \in Proc : Uploading(p, j.res)' => pc'[p] = "encoding"
    BY <1>1, <2>1, <2>4 DEF Older, Quiet, FreshInv, JobsInv, Stays
  <2>5. QED
    BY <2>3, <2>4 DEF Quiet
<1>4. UploadsInv'
  BY <1>1 DEF Quiet, FreshInv, UploadsInv, Stays, Whole
<1>5. RowsInv'
  BY <1>2 DEF Quiet, FreshInv, RowsInv
<1>6. DownloadsInv'
  BY <1>2 DEF Quiet, FreshInv, DownloadsInv, Stays, Rests
<1>7. QED
  BY <1>3, <1>4, <1>5, <1>6 DEF FreshInv

LEMMA EndsFresh ==
  ASSUME TypeInv, FreshInv, NEW p \in Proc, Ends(p), UNCHANGED file,
         \A j \in jobs' : j.for # p,
         \A j \in jobs' : \E i \in jobs : Older(j, i),
         \A j, k \in jobs' : j.res = k.res /\ j.res \in Fresh => j = k
  PROVE  FreshInv'
<1>1. Rests(p)
  BY DEF Ends, Finish, TypeInv, TypeOK, Rests, Uploads, Downloads
<1>2. \A q \in Proc \ {p} : Stays(q)
  BY DEF Ends, Finish, TypeInv, TypeOK, Stays
<1>3. Quiet
  BY <1>1, <1>2 DEF Quiet, Ends, Finish, tables
<1>4. QED
  BY <1>3, QuietFresh

LEMMA RefuseFresh ==
  ASSUME TypeInv, FreshInv, NEW p \in Proc, pc[p] # "encoding", Refuse(p)
  PROVE  FreshInv'
<1>1. jobs' = jobs /\ UNCHANGED file
  BY DEF Refuse, disk
<1>2. \A j \in jobs : j.for # p
  BY DEF TypeInv, TypeOK
<1>3. \A j, k \in jobs : j.res = k.res /\ j.res \in Fresh => j = k
  BY DEF FreshInv, JobsInv
<1>4. QED
  BY <1>1, <1>2, <1>3, EndsFresh DEF Refuse, Older

LEMMA FailFresh ==
  ASSUME TypeInv, FreshInv, NEW p \in Proc, Fail(p)
  PROVE  FreshInv'
<1>1. \A j \in jobs' : j.for # p
  BY ProcNotOrphan DEF Fail, Job, TypeInv, TypeOK
<1>2. \A j \in jobs' : \E i \in jobs : Older(j, i)
  BY DEF Fail, Job, TypeInv, TypeOK, Older
<1>3. \A j, k \in jobs' : j.res = k.res /\ j.res \in Fresh => j = k
  BY DEF Fail, Job, TypeInv, TypeOK, FreshInv, JobsInv
<1>4. QED
  BY <1>1, <1>2, <1>3, EndsFresh DEF Fail

(* A request that goes on outside of uploads and downloads. *)
LEMMA GotoFresh ==
  ASSUME TypeInv, FreshInv, NEW p \in Proc, pc[p] \notin {"encoding", "stream", "more"},
         NEW next \in Statement \ (Uploads \cup Downloads), Goto(p, next),
         UNCHANGED <<jobs, issued, locals>>,
         \A f \in Fresh : file'[f] = file[f] /\ row'[f] = row[f]
  PROVE  FreshInv'
<1>1. \A j \in jobs : j.for # p
  BY DEF TypeInv, TypeOK
<1>2. Rests(p)
  BY <1>1 DEF Goto, TypeInv, TypeOK, Rests, FreshInv, DownloadsInv, locals
<1>3. \A q \in Proc \ {p} : Stays(q)
  BY DEF Goto, TypeInv, TypeOK, Stays, locals
<1>4. Quiet
  BY <1>2, <1>3 DEF Quiet, Older, FreshInv, JobsInv
<1>5. QED
  BY <1>4, QuietFresh

LEMMA SubmitFresh ==
  ASSUME TypeInv, FreshInv, NEW p \in Proc, NEW r \in Requests, Submit(p, r)
  PROVE  FreshInv'
<1>1. Rests(p)
  BY DEF Submit, TypeInv, TypeOK, Rests, FreshInv, DownloadsInv, Uploads, Downloads, locals, disk
<1>2. \A q \in Proc \ {p} : Stays(q)
  BY DEF Submit, TypeInv, TypeOK, Stays, locals
<1>3. Quiet
  BY <1>1, <1>2 DEF Submit, Quiet, Older, FreshInv, JobsInv, tables, disk
<1>4. QED
  BY <1>3, QuietFresh

LEMMA VerifyFresh ==
  ASSUME TypeInv, FreshInv, NEW p \in Proc, Verify(p)
  PROVE  FreshInv'
<1>1. CASE req[p].by \in accounts
  <2>1. PICK next \in {"authorise", "row", "delete"} :
          Goto(p, next) /\ UNCHANGED <<tables, disk, issued, locals, aux>>
    BY <1>1 DEF Verify
  <2>2. QED
    BY <2>1, GotoFresh DEF Verify, Statement, Uploads, Downloads, tables, disk
<1>2. CASE req[p].by \notin accounts
  BY <1>2, RefuseFresh DEF Verify
<1>3. QED
  BY <1>1, <1>2

-----------------------------------------------------------------------------
LEMMA AuthoriseFresh ==
  ASSUME TypeInv, FreshInv, NEW p \in Proc, Authorise(p)
  PROVE  FreshInv'
<1>1. CASE ~MayUpload(req[p])
  BY <1>1, RefuseFresh DEF Authorise
<1>2. CASE MayUpload(req[p])
  <2>1. PICK k \in NewKeys(req[p]) :
          key' = [key EXCEPT ![p] = k] /\ issued' = issued \cup ({k} \cap Fresh)
    BY <1>2 DEF Authorise, Refuse
  <2>2. k \notin issued
    BY KeysDiffer DEF NewKeys, TypeInv, TypeOK
  <2>3. /\ Goto(p, "receive") /\ pc[p] = "authorise"
        /\ UNCHANGED <<row, file, jobs, size, seen>>
    BY <1>2 DEF Authorise, tables, disk
  <2>4. /\ pc'[p] = "receive" /\ key'[p] = k
        /\ \A q \in Proc \ {p} : pc'[q] = pc[q] /\ key'[q] = key[q]
    BY <2>1, <2>3 DEF Goto, TypeInv, TypeOK
  <2>5. \A j \in jobs : j.for # p
    BY <2>3 DEF TypeInv, TypeOK
  <2>6. k \in Fresh => row[k] = NoRow /\ \A j \in jobs : j.res # k
    BY <2>2 DEF FreshInv, RowsInv, Settled, JobsInv
  <2>7. ASSUME NEW q \in Proc, NEW f, Uploading(q, f)'
        PROVE  (q = p /\ f = k) \/ (q # p /\ Uploading(q, f))
    BY <2>4, <2>7 DEF Uploading
  <2>8. ASSUME NEW f \in Fresh, Settled(f)
        PROVE  Settled(f)' /\ f # k
    BY <2>1, <2>2, <2>3, <2>7, <2>8 DEF Settled, Whole
  <2>9. JobsInv'
    BY <2>1, <2>3, <2>4, <2>5, <2>6, <2>7, ProcNotOrphan
    DEF FreshInv, JobsInv, TypeInv, TypeOK, Job
  <2>10. UploadsInv'
    BY <2>1, <2>2, <2>3, <2>4, <2>6, <2>7 DEF FreshInv, UploadsInv, Whole
  <2>11. RowsInv'
    BY <2>3, <2>8 DEF FreshInv, RowsInv
  <2>12. DownloadsInv'
    BY <2>3, <2>4, <2>8 DEF FreshInv, DownloadsInv, Downloads
  <2>13. QED
    BY <2>9, <2>10, <2>11, <2>12 DEF FreshInv
<1>3. QED
  BY <1>1, <1>2

LEMMA ReceiveFresh ==
  ASSUME TypeInv, FreshInv, NEW p \in Proc, Receive(p), Running(p, "upload")
  PROVE  FreshInv'
<1>1. CASE Refuse(p)
  BY <1>1, RefuseFresh DEF Receive
<1>2. CASE ~Refuse(p)
  <2> DEFINE new == [res |-> key[p], c |-> req[p].c, for |-> p, on |-> FALSE]
  <2>1. /\ pc[p] = "receive" /\ jobs' = jobs \cup {new} /\ Goto(p, "encoding")
        /\ UNCHANGED <<row, file, issued, key, size, seen>>
    BY <1>2 DEF Receive, AfterSpawn, tables, locals
  <2>2. new.res = key[p] /\ new.for = p /\ ~new.on
    OBVIOUS
  <2> HIDE DEF new
  <2>3. pc'[p] = "encoding" /\ \A q \in Proc \ {p} : pc'[q] = pc[q]
    BY <2>1 DEF Goto, TypeInv, TypeOK
  <2>4. Uploading(p, key[p])
    BY <2>1 DEF Uploading, Uploads
  <2>5. \A q \in Proc : \A f : Uploading(q, f)' <=> Uploading(q, f)
    BY <2>1, <2>3 DEF Uploading, Uploads
  <2>6. \A j \in jobs : j.res \in Fresh => j.res # key[p]
    BY <2>1, <2>4 DEF FreshInv, JobsInv
  <2>7. ASSUME NEW f \in Fresh, Settled(f)
        PROVE  Settled(f)'
    BY <2>1, <2>2, <2>4, <2>5, <2>7 DEF Settled, Whole
  <2>8. JobsInv'
    <3>1. ASSUME NEW j \in jobs
          PROVE  /\ j.for # Orphan => key[j.for] = j.res
                 /\ j.res \in Fresh =>
                      /\ j.res \in issued /\ row[j.res] = NoRow
                      /\ j.on => file[j.res] = {"part"}
                      /\ \A q \in Proc : Uploading(q, j.res)' => pc'[q] = "encoding"
      BY <2>3, <2>5 DEF FreshInv, JobsInv
    <3>2. key[p] \in Fresh =>
            /\ key[p] \in issued /\ row[key[p]] = NoRow
            /\ \A q \in Proc : Uploading(q, key[p])' => pc'[q] = "encoding"
      BY <2>1, <2>3, <2>4, <2>5 DEF FreshInv, UploadsInv
    <3>3. \A i, j \in jobs' : i.res = j.res /\ i.res \in Fresh => i = j
      BY <2>1, <2>2, <2>6 DEF FreshInv, JobsInv
    <3>4. QED
      BY <2>1, <2>2, <3>1, <3>2, <3>3 DEF JobsInv
  <2>9. UploadsInv'
    BY <2>1, <2>3, <2>5 DEF FreshInv, UploadsInv, Whole
  <2>10. RowsInv'
    BY <2>1, <2>7 DEF FreshInv, RowsInv
  <2>11. DownloadsInv'
    BY <2>1, <2>3, <2>7 DEF FreshInv, DownloadsInv, Downloads
  <2>12. QED
    BY <2>8, <2>9, <2>10, <2>11 DEF FreshInv
<1>3. QED
  BY <1>1, <1>2

(* An upload takes the size, or sees that there is no row. *)
LEMMA StatFresh ==
  ASSUME TypeInv, FreshInv, NEW p \in Proc, NEW next \in {"exists", "create"}, Goto(p, next),
         UNCHANGED <<row, file, jobs, issued, key, seen>>,
         \A q \in Proc \ {p} : size'[q] = size[q],
         \/ pc[p] = "stat" /\ size'[p] = file[key[p]]
         \/ pc[p] = "exists" /\ size'[p] = size[p]
  PROVE  FreshInv'
<1>1. pc'[p] = next /\ \A q \in Proc \ {p} : pc'[q] = pc[q]
  BY DEF Goto, TypeInv, TypeOK
<1>2. \A q \in Proc : \A f : Uploading(q, f)' <=> Uploading(q, f)
  BY <1>1 DEF Uploading, Uploads
<1>3. \A f \in Fresh : Settled(f)' <=> Settled(f)
  BY <1>2 DEF Settled, Whole
<1>4. JobsInv'
  BY <1>1, <1>2 DEF FreshInv, JobsInv
<1>5. UploadsInv'
  <2>1. ASSUME NEW f \in Fresh, Uploading(p, f)
        PROVE  Whole(f)' /\ size'[p] = file[f]
    BY <2>1 DEF FreshInv, UploadsInv, Whole, Uploading
  <2>2. QED
    BY <1>1, <1>2, <2>1 DEF FreshInv, UploadsInv, Whole
<1>6. RowsInv'
  BY <1>3 DEF FreshInv, RowsInv
<1>7. DownloadsInv'
  BY <1>1, <1>3 DEF FreshInv, DownloadsInv, Downloads
<1>8. QED
  BY <1>4, <1>5, <1>6, <1>7 DEF FreshInv

LEMMA CreateFresh ==
  ASSUME TypeInv, FreshInv, NEW p \in Proc, Create(p)
  PROVE  FreshInv'
<1>1. CASE Refuse(p)
  BY <1>1, RefuseFresh DEF Create
<1>2. CASE ~Refuse(p)
  <2>0. PICK k : k = key[p]
    OBVIOUS
  <2> DEFINE new == [by |-> req[p].by, size |-> size[p],
                     space |-> IF req[p].to \in User THEN "icon" ELSE req[p].to]
  <2>1. /\ pc[p] = "create" /\ Finish(p) /\ row' = [row EXCEPT ![k] = new]
        /\ UNCHANGED <<file, jobs>> /\ issued' = issued
    BY <1>2, <2>0 DEF Create, disk, Finish
  <2>2. new.size = size[p]
    OBVIOUS
  <2> HIDE DEF new
  <2>3. /\ pc'[p] = "idle" /\ seen'[p] = {}
        /\ \A q \in Proc \ {p} : Stays(q)
    BY <2>1 DEF Finish, Stays, TypeInv, TypeOK
  <2>4. Uploading(p, k) /\ k \in Resource
    BY <2>0, <2>1 DEF Uploading, Uploads, TypeInv, KeyKnown
  <2>5. \A q \in Proc : \A f : Uploading(q, f)' => q # p /\ Uploading(q, f)
    BY <2>3 DEF Uploading, Uploads, Stays
  <2>6. k \in Fresh => /\ \A j \in jobs : j.res # k
                       /\ \A q \in Proc : ~Uploading(q, k)'
    BY <2>1, <2>4, <2>5 DEF FreshInv, JobsInv, UploadsInv
  <2>7. \A f \in Fresh : Settled(f) => Settled(f)'
    BY <2>1, <2>5 DEF Settled, Whole
  <2>8. k \in Fresh => Settled(k)' /\ file[k] = size[p]
    BY <2>1, <2>4, <2>6 DEF FreshInv, UploadsInv, Settled, Whole
  <2>9. \A f \in Resource : row'[f] = IF f = k THEN new ELSE row[f]
    BY <2>1, <2>4 DEF TypeInv, TypeOK
  <2>10. JobsInv'
    <3>1. \A j \in jobs : j.for # Orphan => j.for \in Proc /\ j.for # p
      BY <2>1 DEF TypeInv, TypeOK, Job
    <3>2. \A j \in jobs : j.for # Orphan => key'[j.for] = j.res
      BY <2>3, <3>1 DEF FreshInv, JobsInv, Stays
    <3>3. \A j \in jobs : j.res \in Fresh => row'[j.res] = NoRow
      BY <2>6, <2>9 DEF FreshInv, JobsInv, Resource
    <3>4. QED
      BY <2>1, <2>3, <2>5, <3>2, <3>3 DEF FreshInv, JobsInv, Stays
  <2>11. UploadsInv'
    <3>1. ASSUME NEW q \in Proc, NEW f \in Fresh, Uploading(q, f)'
          PROVE  q # p /\ Uploading(q, f) /\ Stays(q) /\ row'[f] = NoRow
      BY <2>3, <2>5, <2>6, <2>9, <3>1 DEF FreshInv, UploadsInv, Resource
    <3>2. QED
      BY <2>1, <3>1 DEF FreshInv, UploadsInv, Whole, Stays
  <2>12. RowsInv'
    BY <2>1, <2>2, <2>7, <2>8, <2>9 DEF FreshInv, RowsInv, Resource
  <2>13. DownloadsInv'
    BY <2>1, <2>3, <2>7 DEF FreshInv, DownloadsInv, Downloads, Stays
  <2>14. QED
    BY <2>10, <2>11, <2>12, <2>13 DEF FreshInv
<1>3. QED
  BY <1>1, <1>2

LEMMA UploadFresh ==
  ASSUME TypeInv, FreshInv, NEW p \in Proc, Upload(p)
  PROVE  FreshInv'
<1>1. CASE Stat(p)
  <2>1. /\ Goto(p, "exists") /\ UNCHANGED <<row, file, jobs, issued, key, seen>>
        /\ pc[p] = "stat" /\ size'[p] = file[key[p]]
        /\ \A q \in Proc \ {p} : size'[q] = size[q]
    BY <1>1 DEF Stat, tables, disk, TypeInv, TypeOK
  <2>2. QED
    BY <2>1, StatFresh
<1>2. CASE Exists(p) /\ ~Refuse(p)
  <2>1. /\ Goto(p, "create") /\ UNCHANGED <<row, file, jobs, issued, key, size, seen>>
        /\ pc[p] = "exists"
    BY <1>2 DEF Exists, tables, disk, locals
  <2>2. QED
    BY <2>1, StatFresh
<1>3. CASE Exists(p) /\ Refuse(p)
  BY <1>3, RefuseFresh DEF Exists
<1>4. QED
  BY <1>1, <1>2, <1>3, AuthoriseFresh, ReceiveFresh, CreateFresh DEF Upload

-----------------------------------------------------------------------------
LEMMA EncodeFresh ==
  ASSUME TypeInv, FreshInv, Encode
  PROVE  FreshInv'
<1>1. PICK j \in jobs : Open(j) \/ Encoded(j) \/ EncoderFails(j)
  BY DEF Encode
<1>2. PICK f : f = j.res
  OBVIOUS
<1>3. f \in Resource /\ j \in Job /\ (j.for # Orphan => j.for \in Proc /\ pc[j.for] = "encoding")
  BY <1>2, ProcNotOrphan DEF TypeInv, TypeOK, Job
<1>4. f \in Fresh =>
        /\ ~Settled(f) /\ row[f] = NoRow
        /\ \A p \in Proc : Uploading(p, f) => pc[p] = "encoding"
        /\ \A i \in jobs : i.res = f => i = j
  BY <1>2 DEF FreshInv, JobsInv, Settled
<1>5. CASE Open(j)
  <2> DEFINE on == [j EXCEPT !.on = TRUE]
  <2>1. on.res = j.res /\ on.for = j.for
    BY <1>3 DEF Job
  <2> HIDE DEF on
  <2>2. /\ jobs' = (jobs \ {j}) \cup {on} /\ file' = [file EXCEPT ![f] = {"part"}]
        /\ UNCHANGED <<row, issued, pc, key, size, seen>>
    BY <1>2, <1>5 DEF Open, on, tables, locals
  <2>3. \A g \in Resource : file'[g] = IF g = f THEN {"part"} ELSE file[g]
    BY <1>3, <2>2 DEF TypeInv, TypeOK
  <2>4. \A p \in Proc : \A g : Uploading(p, g)' <=> Uploading(p, g)
    BY <2>2 DEF Uploading
  <2>5. \A g \in Fresh : Settled(g) => Settled(g)' /\ g # f
    BY <1>2, <1>4, <2>1, <2>2, <2>3, <2>4 DEF Settled, Whole, Resource
  <2>6. JobsInv'
    BY <1>2, <1>4, <2>1, <2>2, <2>3, <2>4 DEF FreshInv, JobsInv, Resource
  <2>7. UploadsInv'
    BY <1>4, <2>2, <2>3, <2>4 DEF FreshInv, UploadsInv, Whole, Resource
  <2>8. RowsInv'
    BY <2>2, <2>3, <2>5 DEF FreshInv, RowsInv, Resource
  <2>9. DownloadsInv'
    BY <2>2, <2>3, <2>5 DEF FreshInv, DownloadsInv, Resource
  <2>10. QED
    BY <2>6, <2>7, <2>8, <2>9 DEF FreshInv
<1>6. CASE Encoded(j)
  <2>1. PICK new \in Over(file[f], j.c) : file' = [file EXCEPT ![f] = new]
    BY <1>2, <1>6 DEF Encoded
  <2>2. /\ jobs' = jobs \ {j}
        /\ UNCHANGED <<row, issued, key, size, seen>>
    BY <1>6 DEF Encoded, tables, locals
  <2>3. f \in Fresh => new = {j.c} /\ j.c \in Content
    <3>1. f \in Fresh => file[f] = {"part"}
      BY <1>2, <1>6 DEF Encoded, FreshInv, JobsInv
    <3>2. QED
      BY <1>3, <2>1, <3>1 DEF Over, Job
  <2>4. \A g \in Resource : file'[g] = IF g = f THEN new ELSE file[g]
    BY <1>3, <2>1 DEF TypeInv, TypeOK
  <2>5. \A q \in Proc : pc'[q] = IF q = j.for THEN "stat" ELSE pc[q]
    BY <1>3, <1>6, ProcNotOrphan DEF Encoded, TypeInv, TypeOK
  <2>6. \A q \in Proc : \A g : Uploading(q, g)' <=> Uploading(q, g)
    BY <1>3, <2>2, <2>5, ProcNotOrphan DEF Uploading, Uploads
  <2>7. \A g \in Fresh : Settled(g) => Settled(g)' /\ g # f
    BY <1>4, <2>2, <2>4, <2>6 DEF Settled, Whole, Resource
  <2>8. JobsInv'
    <3>1. ASSUME NEW q \in Proc, NEW i \in jobs', i.res \in Fresh, Uploading(q, i.res)'
          PROVE  pc'[q] = "encoding"
      <4>1. i \in jobs /\ i.res # f
        BY <1>4, <2>2, <3>1
      <4>2. Uploading(q, i.res) /\ pc[q] = "encoding"
        BY <2>6, <3>1, <4>1 DEF FreshInv, JobsInv
      <4>3. q # j.for
        BY <1>2, <1>3, <4>1, <4>2, ProcNotOrphan DEF FreshInv, JobsInv, Uploading
      <4>4. QED
        BY <2>5, <4>2, <4>3
    <3>2. \A i \in jobs' : i.res \in Fresh => file'[i.res] = file[i.res]
      BY <1>4, <2>2, <2>4 DEF Resource
    <3>3. QED
      BY <2>2, <3>1, <3>2 DEF FreshInv, JobsInv
  <2>9. UploadsInv'
    <3>1. ASSUME NEW q \in Proc, NEW g \in Fresh, Uploading(q, g)'
          PROVE  /\ pc'[q] \in {"stat", "exists", "create"} => Whole(g)'
                 /\ pc'[q] \in {"exists", "create"} => size'[q] = file'[g]
      <4>1. CASE q = j.for
        <5>1. g = f /\ pc'[q] = "stat"
          BY <1>2, <1>3, <2>2, <2>5, <3>1, <4>1, ProcNotOrphan DEF FreshInv, JobsInv, Uploading
        <5>2. QED
          BY <2>3, <2>4, <5>1 DEF Whole, Resource
      <4>2. CASE q # j.for
        <5>1. Uploading(q, g) /\ pc'[q] = pc[q]
          BY <2>5, <2>6, <3>1, <4>2
        <5>2. pc[q] # "encoding" => g # f
          BY <1>4, <5>1
        <5>3. QED
          BY <2>2, <2>4, <5>1, <5>2 DEF FreshInv, UploadsInv, Whole, Resource
      <4>3. QED
        BY <4>1, <4>2
    <3>2. QED
      BY <2>2, <2>6, <3>1 DEF FreshInv, UploadsInv
  <2>10. RowsInv'
    BY <2>2, <2>4, <2>7 DEF FreshInv, RowsInv, Resource
  <2>11. DownloadsInv'
    BY <1>3, <2>2, <2>4, <2>5, <2>7, ProcNotOrphan DEF FreshInv, DownloadsInv, Downloads, Resource
  <2>12. QED
    BY <2>8, <2>9, <2>10, <2>11 DEF FreshInv
<1>7. CASE EncoderFails(j)
  <2>1. /\ jobs' = jobs \ {j} /\ UNCHANGED file
        /\ \A i \in jobs' : \E k \in jobs : Older(i, k)
        /\ \A i, k \in jobs' : i.res = k.res /\ i.res \in Fresh => i = k
    BY <1>7 DEF EncoderFails, Older, FreshInv, JobsInv
  <2>2. CASE j.for = Orphan
    <3>1. Quiet
      BY <1>7, <2>1, <2>2 DEF EncoderFails, Quiet, Stays, tables, locals
    <3>2. QED
      BY <3>1, QuietFresh
  <2>3. CASE j.for # Orphan
    <3>1. \A i \in jobs' : i.for # j.for
      BY <2>1, <2>3 DEF TypeInv, OneEncoder
    <3>2. Ends(j.for) /\ j.for \in Proc
      BY <1>3, <1>7, <2>3 DEF EncoderFails
    <3>3. QED
      BY <2>1, <3>1, <3>2, EndsFresh
  <2>4. QED
    BY <2>2, <2>3
<1>8. QED
  BY <1>1, <1>5, <1>6, <1>7

(* A download goes on, and has streamed nothing but its file. *)
LEMMA DownloadFresh ==
  ASSUME TypeInv, FreshInv, NEW p \in Proc, Download(p)
  PROVE  FreshInv'
<1>1. ASSUME NEW next \in Downloads, Goto(p, next), UNCHANGED <<row, file, jobs, issued>>,
             pc[p] \in Downloads \cup {"row"},
             \A q \in Proc \ {p} : key'[q] = key[q] /\ size'[q] = size[q] /\ seen'[q] = seen[q],
             next \in {"stream", "more"} \/ seen'[p] = {},
             key'[p] \in Fresh =>
               /\ Settled(key'[p]) /\ size'[p] = file[key'[p]]
               /\ next \in {"stream", "more"} => seen'[p] = size'[p]
      PROVE  FreshInv'
  <2>1. pc'[p] = next /\ \A q \in Proc \ {p} : pc'[q] = pc[q]
    BY <1>1 DEF Goto, TypeInv, TypeOK
  <2>2. \A q \in Proc : \A g : Uploading(q, g)' <=> (Uploading(q, g) /\ q # p)
    BY <1>1, <2>1 DEF Uploading, Uploads, Downloads
  <2>3. \A g : Settled(g) => Settled(g)'
    BY <1>1, <2>2 DEF Settled, Whole
  <2>4. JobsInv'
    <3>1. \A j \in jobs : j.for # Orphan => j.for \in Proc /\ j.for # p
      BY <1>1 DEF TypeInv, TypeOK, Job, Downloads
    <3>2. QED
      BY <1>1, <2>1, <2>2, <3>1 DEF FreshInv, JobsInv
  <2>5. UploadsInv'
    BY <1>1, <2>1, <2>2 DEF FreshInv, UploadsInv, Whole
  <2>6. RowsInv'
    BY <1>1, <2>3 DEF FreshInv, RowsInv
  <2>7. DownloadsInv'
    BY <1>1, <2>1, <2>3 DEF FreshInv, DownloadsInv
  <2>8. QED
    BY <2>4, <2>5, <2>6, <2>7 DEF FreshInv
<1>2. CASE ReadRow(p) /\ ~Refuse(p)
  <2>1. PICK next \in {"members", "open"} : Goto(p, next)
    BY <1>2 DEF ReadRow
  <2>2. /\ row[req[p].of] # NoRow
        /\ key' = [key EXCEPT ![p] = req[p].of] /\ size' = [size EXCEPT ![p] = row[req[p].of].size]
        /\ UNCHANGED <<row, file, jobs, issued, seen>> /\ pc[p] = "row"
    BY <1>2 DEF ReadRow, tables, disk
  <2>3. /\ key'[p] = req[p].of /\ size'[p] = row[req[p].of].size
        /\ \A q \in Proc \ {p} : key'[q] = key[q] /\ size'[q] = size[q] /\ seen'[q] = seen[q]
    BY <2>2 DEF TypeInv, TypeOK
  <2>4. seen'[p] = {}
    BY <2>2 DEF FreshInv, DownloadsInv
  <2>5. key'[p] \in Fresh => Settled(key'[p]) /\ size'[p] = file[key'[p]]
    BY <2>2, <2>3 DEF FreshInv, RowsInv
  <2>6. QED
    BY <1>1, <2>1, <2>2, <2>3, <2>4, <2>5 DEF Downloads
<1>3. CASE CheckMember(p) /\ ~Refuse(p)
  <2>1. /\ pc[p] = "members" /\ Goto(p, "open")
        /\ UNCHANGED <<row, file, jobs, issued, key, size, seen>>
    BY <1>3 DEF CheckMember, tables, disk, locals
  <2>2. /\ seen[p] = {}
        /\ key[p] \in Fresh => Settled(key[p]) /\ size[p] = file[key[p]]
    BY <2>1 DEF FreshInv, DownloadsInv, Downloads
  <2>3. QED
    BY <1>1, <2>1, <2>2 DEF Downloads
<1>4. ASSUME \/ pc[p] = "open" /\ Stream(p, "stream")
             \/ pc[p] = "stream" /\ Stream(p, "more")
      PROVE  FreshInv'
  <2>1. PICK next \in {"stream", "more"} : Goto(p, next)
    BY <1>4 DEF Stream
  <2>2. /\ UNCHANGED <<row, file, jobs, issued, key, size>>
        /\ seen'[p] = seen[p] \cup file[key[p]]
        /\ \A q \in Proc \ {p} : seen'[q] = seen[q]
    BY <1>4 DEF Stream, tables, disk, TypeInv, TypeOK
  <2>3. /\ seen[p] = {} \/ seen[p] = size[p] \/ key[p] \notin Fresh
        /\ key[p] \in Fresh => Settled(key[p]) /\ size[p] = file[key[p]]
    BY <1>4 DEF FreshInv, DownloadsInv, Downloads
  <2>4. key[p] \in Fresh => seen'[p] = size[p]
    BY <2>2, <2>3
  <2>5. QED
    BY <1>1, <1>4, <2>1, <2>2, <2>3, <2>4 DEF Downloads
<1>5. CASE pc[p] # "encoding" /\ Refuse(p)
  BY <1>5, RefuseFresh
<1>6. /\ pc[p] # "encoding"
      /\ \/ ReadRow(p) \/ CheckMember(p) \/ Refuse(p)
         \/ pc[p] = "open" /\ Stream(p, "stream")
         \/ pc[p] = "stream" /\ Stream(p, "more")
  BY DEF Download, ReadRow, CheckMember
<1>7. QED
  BY <1>2, <1>3, <1>4, <1>5, <1>6

-----------------------------------------------------------------------------
(* A registration writes to its own row and file, which are not fresh. *)
LEMMA RegisterFresh ==
  ASSUME TypeInv, FreshInv, NEW p \in Proc, Register(p)
  PROVE  FreshInv'
<1>1. req[p].by \in User /\ req[p].by \notin Fresh
  BY BusyRequest, RequestFields, KeysDiffer DEF Register, Running, TypeInv
<1>2. CASE Refuse(p) /\ pc[p] # "encoding"
  BY <1>2, RefuseFresh
<1>3. CASE \/ SpendCode(p) /\ ~Refuse(p)
           \/ CheckSettings(p) /\ ~Refuse(p)
           \/ InsertUser(p) /\ ~Refuse(p)
  <2>1. PICK next \in {"settings", "user", "icon"} :
          /\ Goto(p, next) /\ pc[p] \in {"code", "settings", "user"}
          /\ UNCHANGED <<row, file, jobs, issued, locals>>
    BY <1>3 DEF SpendCode, CheckSettings, InsertUser, tables, disk
  <2>2. QED
    BY <2>1, GotoFresh DEF Statement, Uploads, Downloads
<1>4. CASE InsertIcon(p) /\ ~Refuse(p)
  <2>1. /\ Goto(p, "write") /\ pc[p] = "icon"
        /\ UNCHANGED <<file, jobs, issued, locals>>
        /\ \A f \in Fresh : row'[f] = row[f]
    BY <1>1, <1>4 DEF InsertIcon, disk, Resource, TypeInv, TypeOK
  <2>2. QED
    BY <2>1, GotoFresh DEF Statement, Uploads, Downloads
<1>5. CASE WriteIcon(p)
  <2>1. PICK next \in {"written", "vector"} : Goto(p, next) /\ pc[p] \in {"write", "written"}
    BY <1>5 DEF WriteIcon
  <2>2. /\ UNCHANGED <<row, jobs, issued, locals>>
        /\ \A f \in Fresh : file'[f] = file[f]
    BY <1>1, <1>5 DEF WriteIcon, tables, Resource, TypeInv, TypeOK
  <2>3. QED
    BY <2>1, <2>2, GotoFresh DEF Statement, Uploads, Downloads
<1>6. CASE InitVector(p)
  <2>1. /\ pc[p] = "vector" /\ Finish(p) /\ UNCHANGED <<row, file, jobs>>
    BY <1>6 DEF InitVector, disk
  <2>2. /\ Rests(p) /\ issued' = issued
        /\ \A q \in Proc \ {p} : Stays(q)
    BY <2>1 DEF Finish, Rests, Stays, TypeInv, TypeOK, Uploads, Downloads
  <2>3. Quiet
    BY <2>1, <2>2 DEF Quiet, Older, FreshInv, JobsInv
  <2>4. QED
    BY <2>3, QuietFresh
<1>7. Refuse(p) => pc[p] # "encoding"
  BY DEF Register, SpendCode, CheckSettings, InsertUser, InsertIcon, WriteIcon, InitVector
<1>8. QED
  BY <1>2, <1>3, <1>4, <1>5, <1>6, <1>7 DEF Register

(* The rows of a deleted account go, their files stay. *)
LEMMA DeleteFresh ==
  ASSUME TypeInv, FreshInv, NEW p \in Proc, Delete(p)
  PROVE  FreshInv'
<1>1. /\ pc[p] = "delete" /\ UNCHANGED <<file, jobs, issued, key, size, seen>>
      /\ pc' = [pc EXCEPT ![p] = "idle"]
      /\ \A f \in Fresh : row'[f] \in {row[f], NoRow}
  BY DEF Delete, disk, locals, Resource
<1>2. Rests(p)
  BY <1>1 DEF Rests, FreshInv, DownloadsInv, TypeInv, TypeOK, Uploads, Downloads
<1>3. \A q \in Proc \ {p} : Stays(q)
  BY <1>1 DEF Stays, TypeInv, TypeOK
<1>4. Quiet
  BY <1>1, <1>2, <1>3 DEF Quiet, Older, FreshInv, JobsInv
<1>5. QED
  BY <1>4, QuietFresh

LEMMA StillFresh ==
  ASSUME TypeInv, FreshInv, UNCHANGED <<row, file, jobs, issued, pc, key, size, seen>>
  PROVE  FreshInv'
<1>1. Quiet
  BY DEF Quiet, Stays, Older, FreshInv, JobsInv
<1>2. QED
  BY <1>1, QuietFresh

LEMMA StepFresh == TypeInv /\ FreshInv /\ [Next]_vars => FreshInv'
<1> SUFFICES ASSUME TypeInv, FreshInv, [Next]_vars PROVE FreshInv'
  OBVIOUS
<1>1. CASE UNCHANGED vars
  BY <1>1, StillFresh DEF vars, tables, disk, locals
<1>2. CASE ChangeRights
  BY <1>2, StillFresh DEF ChangeRights, disk, locals
<1>3. QED
  BY <1>1, <1>2, SubmitFresh, VerifyFresh, UploadFresh, EncodeFresh, DownloadFresh,
     RegisterFresh, DeleteFresh, FailFresh DEF Next

LEMMA FreshAlways == Spec => [](TypeInv /\ FreshInv)
BY InitTypes, InitFresh, StepTypes, StepFresh, PTL DEF Spec

(* A row under a fresh key describes the file beside it, which is whole,   *)
(* whichever requests and encoders are interrupted                         *)
(* (services/resource.rs:115-131).                                         *)
THEOREM RowsDescribeFiles == Spec => []FreshRowDescribesFile
<1>1. TypeInv /\ FreshInv => FreshRowDescribesFile
  BY DEF FreshInv, RowsInv, Settled, Whole, FreshRowDescribesFile
<1>2. QED
  BY <1>1, FreshAlways, PTL

(* A download under a fresh key streams what its row announced             *)
(* (services/resource.rs:156-170), whatever becomes of row and account.    *)
THEOREM DownloadsAreWhole == Spec => []DownloadsWhole
<1>1. TypeInv /\ FreshInv => DownloadsWhole
  BY DEF FreshInv, DownloadsInv, DownloadsWhole, Downloads
<1>2. QED
  BY <1>1, FreshAlways, PTL

-----------------------------------------------------------------------------
(* Resources implements Store.  Only the end of an upload, a registration  *)
(* and the deletion of an account are seen there.                          *)
OwnersInv == \A f \in Fresh : row[f] # NoRow => row[f].by \in accounts

LEMMA ShelfStill ==
  ASSUME FreshInv, OwnersInv, UNCHANGED <<accounts, issued>>,
         \A f \in Fresh : row'[f] = row[f] /\ (row[f] # NoRow => file'[f] = file[f]),
         \A p \in Proc, f \in Fresh : Uploading(p, f)' <=> Uploading(p, f),
         issued \subseteq Fresh
  PROVE  OwnersInv' /\ [Shelf!Next]_(Shelf!store)
<1>1. OwnersInv'
  BY DEF OwnersInv
<1>2. Objects' = Objects
  BY DEF Objects
<1>3. Spent' = Spent
  BY DEF Spent
<1>4. QED
  BY <1>1, <1>2, <1>3 DEF Shelf!store

(* Where p does not upload, or no more.  A key it has held is spent. *)
LEMMA ShelfEnds ==
  ASSUME TypeInv, FreshInv, OwnersInv, NEW p \in Proc, UNCHANGED <<accounts, issued>>,
         \A f \in Fresh : row'[f] = row[f] /\ (row[f] # NoRow => file'[f] = file[f]),
         pc'[p] \notin Uploads,
         \A q \in Proc \ {p} : pc'[q] = pc[q] /\ key'[q] = key[q]
  PROVE  OwnersInv' /\ [Shelf!Next]_(Shelf!store)
<1>1. issued \subseteq Fresh
  BY DEF TypeInv, TypeOK
<1>2. \A q \in Proc, f \in Fresh : Uploading(q, f)' <=> Uploading(q, f) /\ q # p
  BY DEF Uploading
<1>3. CASE \E f \in Fresh : Uploading(p, f)
  <2>1. PICK f \in Fresh : Uploading(p, f)
    BY <1>3
  <2>2. f \in issued /\ \A q \in Proc : Uploading(q, f) => q = p
    BY <2>1 DEF FreshInv, UploadsInv
  <2>3. f \notin Spent
    BY <2>1 DEF Spent
  <2>4. \A g \in Fresh : Uploading(p, g) => g = f
    BY <2>1 DEF Uploading
  <2>5. Spent' = Spent \cup {f}
    BY <1>1, <1>2, <2>2, <2>4 DEF Spent
  <2>6. Objects' = Objects
    BY DEF Objects
  <2>7. Shelf!GiveUp(f)
    BY <2>3, <2>5, <2>6 DEF Shelf!GiveUp
  <2>8. Shelf!Next
    BY <2>7 DEF Shelf!Next
  <2>9. OwnersInv'
    BY DEF OwnersInv
  <2>10. QED
    BY <2>8, <2>9
<1>4. CASE ~\E f \in Fresh : Uploading(p, f)
  BY <1>1, <1>2, <1>4, ShelfStill
<1>5. QED
  BY <1>3, <1>4

LEMMA SameAccounts ==
  ASSUME mailbox' = mailbox
  PROVE  accounts' = accounts
BY DEF accounts

LEMMA EndsShelf ==
  ASSUME TypeInv, FreshInv, OwnersInv, NEW p \in Proc, Ends(p), UNCHANGED file
  PROVE  OwnersInv' /\ [Shelf!Next]_(Shelf!store)
<1>1. /\ mailbox' = mailbox /\ row' = row /\ issued' = issued /\ pc'[p] = "idle"
      /\ \A q \in Proc \ {p} : pc'[q] = pc[q] /\ key'[q] = key[q]
  BY DEF Ends, Finish, tables, TypeInv, TypeOK
<1>2. pc'[p] \notin Uploads
  BY <1>1 DEF Uploads
<1>3. QED
  BY <1>1, <1>2, SameAccounts, ShelfEnds

LEMMA RefuseShelf ==
  ASSUME TypeInv, FreshInv, OwnersInv, NEW p \in Proc, Refuse(p)
  PROVE  OwnersInv' /\ [Shelf!Next]_(Shelf!store)
BY EndsShelf DEF Refuse, disk

(* A request goes on, outside of an upload. *)
LEMMA GotoShelf ==
  ASSUME TypeInv, FreshInv, OwnersInv, NEW p \in Proc, NEW next \in Statement \ Uploads,
         Goto(p, next), UNCHANGED <<mailbox, issued>>,
         \A f \in Fresh : row'[f] = row[f] /\ file'[f] = file[f],
         \A q \in Proc \ {p} : key'[q] = key[q]
  PROVE  OwnersInv' /\ [Shelf!Next]_(Shelf!store)
<1>1. pc'[p] = next /\ \A q \in Proc \ {p} : pc'[q] = pc[q]
  BY DEF Goto, TypeInv, TypeOK
<1>2. QED
  BY <1>1, SameAccounts, ShelfEnds

(* An upload goes on with its key. *)
LEMMA UploadGoesOn ==
  ASSUME TypeInv, FreshInv, OwnersInv, NEW p \in Proc, pc[p] \in Uploads,
         NEW next \in Uploads, Goto(p, next), UNCHANGED <<mailbox, issued, row, file, key>>
  PROVE  OwnersInv' /\ [Shelf!Next]_(Shelf!store)
<1>1. pc'[p] = next /\ \A q \in Proc \ {p} : pc'[q] = pc[q]
  BY DEF Goto, TypeInv, TypeOK, Uploads, Statement
<1>2. \A q \in Proc, f \in Fresh : Uploading(q, f)' <=> Uploading(q, f)
  BY <1>1 DEF Uploading
<1>3. issued \subseteq Fresh
  BY DEF TypeInv, TypeOK
<1>4. QED
  BY <1>2, <1>3, SameAccounts, ShelfStill

LEMMA AuthoriseShelf ==
  ASSUME TypeInv, FreshInv, OwnersInv, NEW p \in Proc, Authorise(p)
  PROVE  OwnersInv' /\ [Shelf!Next]_(Shelf!store)
<1>1. CASE ~MayUpload(req[p])
  BY <1>1, RefuseShelf DEF Authorise
<1>2. CASE MayUpload(req[p])
  <2>1. PICK k \in NewKeys(req[p]) :
          key' = [key EXCEPT ![p] = k] /\ issued' = issued \cup ({k} \cap Fresh)
    BY <1>2 DEF Authorise, Refuse
  <2>2. /\ Goto(p, "receive") /\ pc[p] = "authorise" /\ UNCHANGED <<mailbox, row, file>>
    BY <1>2 DEF Authorise, tables, disk
  <2>3. /\ pc'[p] = "receive" /\ key'[p] = k
        /\ \A q \in Proc \ {p} : pc'[q] = pc[q] /\ key'[q] = key[q]
    BY <2>1, <2>2 DEF Goto, TypeInv, TypeOK
  <2>4. Uploading(p, k)' /\ \A f : ~Uploading(p, f)
    BY <2>2, <2>3 DEF Uploading, Uploads
  <2>5. \A q \in Proc \ {p} : \A f : Uploading(q, f)' <=> Uploading(q, f)
    BY <2>3 DEF Uploading
  <2>6. \A f : Uploading(p, f)' => f = k
    BY <2>3 DEF Uploading
  <2>7. k \notin issued
    BY KeysDiffer DEF NewKeys, TypeInv, TypeOK
  <2>8. Spent' = Spent
    BY <2>1, <2>4, <2>5, <2>6, <2>7 DEF Spent
  <2>9. accounts' = accounts /\ Objects' = Objects
    BY <2>2, SameAccounts DEF Objects
  <2>10. OwnersInv'
    BY <2>2, <2>9 DEF OwnersInv
  <2>11. QED
    BY <2>8, <2>9, <2>10 DEF Shelf!store
<1>3. QED
  BY <1>1, <1>2

LEMMA CreateShelf ==
  ASSUME TypeInv, FreshInv, OwnersInv, NEW p \in Proc, Create(p), Running(p, "upload")
  PROVE  OwnersInv' /\ [Shelf!Next]_(Shelf!store)
<1>1. CASE Refuse(p)
  BY <1>1, RefuseShelf
<1>2. CASE ~Refuse(p)
  <2> DEFINE k == key[p]
             u == req[p].by
             new == [by |-> u, size |-> size[p],
                     space |-> IF req[p].to \in User THEN "icon" ELSE req[p].to]
  <2>1. /\ pc[p] = "create" /\ Finish(p) /\ row' = [row EXCEPT ![k] = new]
        /\ row[k] = NoRow /\ u \in accounts /\ UNCHANGED <<mailbox, file>> /\ issued' = issued
    BY <1>2 DEF Create, disk, Finish
  <2>2. new.by = u /\ new # NoRow /\ u \in User
    <3>1. \A x, y, z : [by |-> x, size |-> y, space |-> z] # NoRow
      BY DEF NoRow
    <3>2. u \in User
      BY <2>1 DEF accounts
    <3>3. QED
      BY <3>1, <3>2
  <2>3. /\ pc'[p] \notin Uploads
        /\ \A q \in Proc \ {p} : pc'[q] = pc[q] /\ key'[q] = key[q]
    BY <2>1 DEF Finish, Uploads, TypeInv, TypeOK
  <2>4. Uploading(p, k) /\ k \in Resource
    BY <2>1 DEF Uploading, Uploads, TypeInv, KeyKnown
  <2> HIDE DEF new, u, k
  <2>5. \A r \in Resource : row'[r] = IF r = k THEN new ELSE row[r]
    BY <2>1, <2>4 DEF TypeInv, TypeOK
  <2>6. accounts' = accounts
    BY <2>1, SameAccounts
  <2>7. CASE k \notin Fresh
    <3>1. \A f \in Fresh : row'[f] = row[f]
      BY <2>5, <2>7 DEF Resource
    <3>2. QED
      BY <2>1, <2>3, <2>6, <3>1, ShelfEnds
  <2>8. CASE k \in Fresh
    <3>1. /\ k \in issued /\ Whole(k)
          /\ \A q \in Proc : Uploading(q, k) => q = p
      BY <2>1, <2>4, <2>8 DEF FreshInv, UploadsInv
    <3>2. PICK c \in Content : file[k] = {c}
      BY <3>1 DEF Whole
    <3>3. k \notin Spent
      BY <2>4 DEF Spent
    <3>4. /\ \A q \in Proc, f \in Fresh : Uploading(q, f)' <=> Uploading(q, f) /\ q # p
          /\ \A f \in Fresh : Uploading(p, f) => f = k
      BY <2>3, <2>4 DEF Uploading
    <3>5. Spent' = Spent \cup {k}
      BY <2>1, <3>1, <3>4 DEF Spent, TypeInv, TypeOK
    <3>6. Objects' = [Objects EXCEPT ![k] = [by |-> u, holds |-> {c}]]
      BY <2>1, <2>2, <2>5, <2>8, <3>2 DEF Objects, Resource
    <3>7. Shelf!Put(k, u, c)
      BY <2>1, <2>6, <3>3, <3>5, <3>6 DEF Shelf!Put
    <3>8. Shelf!Next
      BY <2>2, <2>8, <3>7 DEF Shelf!Next
    <3>9. OwnersInv'
      BY <2>1, <2>2, <2>5, <2>6 DEF OwnersInv, Resource
    <3>10. QED
      BY <3>8, <3>9
  <2>9. QED
    BY <2>7, <2>8
<1>3. QED
  BY <1>1, <1>2

LEMMA UploadShelf ==
  ASSUME TypeInv, FreshInv, OwnersInv, NEW p \in Proc, Upload(p)
  PROVE  OwnersInv' /\ [Shelf!Next]_(Shelf!store)
<1>1. CASE Receive(p) /\ ~Refuse(p)
  BY <1>1, UploadGoesOn DEF Receive, AfterSpawn, Uploads, tables, locals
<1>2. CASE Stat(p)
  BY <1>2, UploadGoesOn DEF Stat, Uploads, tables, disk
<1>3. CASE Exists(p) /\ ~Refuse(p)
  BY <1>3, UploadGoesOn DEF Exists, Uploads, tables, disk, locals
<1>4. CASE Refuse(p)
  BY <1>4, RefuseShelf
<1>5. QED
  BY <1>1, <1>2, <1>3, <1>4, AuthoriseShelf, CreateShelf DEF Upload

LEMMA EncodeShelf ==
  ASSUME TypeInv, FreshInv, OwnersInv, Encode
  PROVE  OwnersInv' /\ [Shelf!Next]_(Shelf!store)
<1>1. PICK j \in jobs : Open(j) \/ Encoded(j) \/ EncoderFails(j)
  BY DEF Encode
<1>2. PICK f : f = j.res
  OBVIOUS
<1>3. f \in Resource /\ (j.for # Orphan => j.for \in Proc /\ pc[j.for] = "encoding")
  BY <1>2, ProcNotOrphan DEF TypeInv, TypeOK, Job
<1>4. f \in Fresh => row[f] = NoRow
  BY <1>2 DEF FreshInv, JobsInv
<1>5. CASE Open(j) \/ Encoded(j)
  <2>1. /\ \A g \in Fresh : g # f => file'[g] = file[g]
        /\ UNCHANGED <<mailbox, row, issued, key>>
    BY <1>2, <1>3, <1>5 DEF Open, Encoded, tables, locals, Resource, TypeInv, TypeOK
  <2>2. \A q \in Proc : pc'[q] \in Uploads <=> pc[q] \in Uploads
    BY <1>3, <1>5, ProcNotOrphan DEF Open, Encoded, Uploads, TypeInv, TypeOK
  <2>3. \A q \in Proc, g \in Fresh : Uploading(q, g)' <=> Uploading(q, g)
    BY <2>1, <2>2 DEF Uploading
  <2>4. issued \subseteq Fresh
    BY DEF TypeInv, TypeOK
  <2>5. QED
    BY <1>4, <2>1, <2>3, <2>4, SameAccounts, ShelfStill
<1>6. CASE EncoderFails(j) /\ j.for # Orphan
  BY <1>3, <1>6, EndsShelf DEF EncoderFails
<1>7. CASE EncoderFails(j) /\ j.for = Orphan
  <2>1. UNCHANGED <<mailbox, row, file, issued, pc, key>>
    BY <1>7 DEF EncoderFails, tables, locals
  <2>2. \A q \in Proc, g \in Fresh : Uploading(q, g)' <=> Uploading(q, g)
    BY <2>1 DEF Uploading
  <2>3. issued \subseteq Fresh
    BY DEF TypeInv, TypeOK
  <2>4. QED
    BY <2>1, <2>2, <2>3, SameAccounts, ShelfStill
<1>8. QED
  BY <1>1, <1>5, <1>6, <1>7

LEMMA DownloadShelf ==
  ASSUME TypeInv, FreshInv, OwnersInv, NEW p \in Proc, Download(p)
  PROVE  OwnersInv' /\ [Shelf!Next]_(Shelf!store)
<1>1. CASE Refuse(p)
  BY <1>1, RefuseShelf
<1>2. CASE ~Refuse(p)
  <2>1. PICK next \in {"members", "open", "stream", "more"} : Goto(p, next)
    BY <1>2 DEF Download, ReadRow, CheckMember, Stream
  <2>2. /\ UNCHANGED <<mailbox, row, file, issued>>
        /\ \A q \in Proc \ {p} : key'[q] = key[q]
    BY <1>2 DEF Download, ReadRow, CheckMember, Stream, tables, disk, locals, TypeInv, TypeOK
  <2>3. next \in Statement \ Uploads
    BY DEF Statement, Uploads
  <2>4. QED
    BY <2>1, <2>2, <2>3, GotoShelf
<1>3. QED
  BY <1>1, <1>2

LEMMA RegisterShelf ==
  ASSUME TypeInv, FreshInv, OwnersInv, NEW p \in Proc, Register(p)
  PROVE  OwnersInv' /\ [Shelf!Next]_(Shelf!store)
<1> DEFINE u == req[p].by
<1>1. u \in User /\ u \notin Fresh /\ req[p].email \in Email
  BY BusyRequest, RequestFields, KeysDiffer DEF Register, Running, TypeInv
<1>2. CASE Refuse(p)
  BY <1>2, RefuseShelf
<1>3. CASE \/ SpendCode(p) /\ ~Refuse(p)
           \/ CheckSettings(p) /\ ~Refuse(p)
           \/ InsertIcon(p) /\ ~Refuse(p)
           \/ WriteIcon(p)
  <2>1. PICK next \in {"settings", "user", "write", "written", "vector"} : Goto(p, next)
    BY <1>3 DEF SpendCode, CheckSettings, InsertIcon, WriteIcon
  <2>2. /\ UNCHANGED <<mailbox, issued, key>>
        /\ \A f \in Fresh : row'[f] = row[f] /\ file'[f] = file[f]
    BY <1>1, <1>3
    DEF SpendCode, CheckSettings, InsertIcon, WriteIcon, tables, disk, locals, Resource, TypeInv,
        TypeOK
  <2>3. next \in Statement \ Uploads
    BY DEF Statement, Uploads
  <2>4. QED
    BY <2>1, <2>2, <2>3, GotoShelf
<1>4. CASE InsertUser(p) /\ ~Refuse(p)
  <2>1. /\ pc[p] = "user" /\ u \notin accounts /\ Goto(p, "icon")
        /\ mailbox' = [mailbox EXCEPT ![u] = req[p].email]
        /\ UNCHANGED <<row, file, issued, key>>
    BY <1>4 DEF InsertUser, Taken, disk, locals
  <2>2. accounts' = accounts \cup {u}
    BY <1>1, <2>1, NoEmailIsNone DEF accounts, TypeInv, TypeOK
  <2>3. \A q \in Proc : pc'[q] \in Uploads <=> pc[q] \in Uploads
    BY <2>1 DEF Goto, Uploads, TypeInv, TypeOK
  <2>4. \A q \in Proc, g \in Fresh : Uploading(q, g)' <=> Uploading(q, g)
    BY <2>1, <2>3 DEF Uploading
  <2>5. Spent' = Spent
    BY <2>1, <2>4 DEF Spent, TypeInv, TypeOK
  <2>6. Objects' = Objects
    BY <2>1 DEF Objects
  <2>7. Shelf!Join(u)
    BY <2>1, <2>2, <2>5, <2>6 DEF Shelf!Join
  <2>8. Shelf!Next
    BY <1>1, <2>7 DEF Shelf!Next
  <2>9. OwnersInv'
    BY <2>1, <2>2 DEF OwnersInv
  <2>10. QED
    BY <2>8, <2>9
<1>5. CASE InitVector(p)
  <2>1. /\ UNCHANGED <<mailbox, row, file, issued>> /\ pc'[p] \notin Uploads
        /\ \A q \in Proc \ {p} : pc'[q] = pc[q] /\ key'[q] = key[q]
    BY <1>5 DEF InitVector, Finish, Uploads, disk, TypeInv, TypeOK
  <2>2. QED
    BY <2>1, SameAccounts, ShelfEnds
<1>6. QED
  BY <1>2, <1>3, <1>4, <1>5 DEF Register

LEMMA DeleteShelf ==
  ASSUME TypeInv, FreshInv, OwnersInv, NEW p \in Proc, Delete(p)
  PROVE  OwnersInv' /\ [Shelf!Next]_(Shelf!store)
<1> DEFINE u == req[p].by
<1>1. u \in User
  BY BusyRequest, RequestFields DEF Delete, Running, TypeInv
<1>2. /\ pc[p] = "delete" /\ pc' = [pc EXCEPT ![p] = "idle"]
      /\ mailbox' = [mailbox EXCEPT ![u] = NoEmail]
      /\ \A f \in Fresh : row'[f] = IF row[f] # NoRow /\ row[f].by = u THEN NoRow ELSE row[f]
      /\ UNCHANGED <<file, issued, key>>
  BY DEF Delete, disk, locals, Resource
<1>3. accounts' = accounts \ {u}
  BY <1>1, <1>2 DEF accounts, TypeInv, TypeOK
<1>4. \A q \in Proc, g \in Fresh : Uploading(q, g)' <=> Uploading(q, g)
  BY <1>2 DEF Uploading, Uploads, TypeInv, TypeOK
<1>5. OwnersInv'
  BY <1>2, <1>3 DEF OwnersInv
<1>6. Spent' = Spent
  BY <1>2, <1>4 DEF Spent, TypeInv, TypeOK
<1>7. CASE u \in accounts
  <2>1. \A f \in Fresh : Objects[f] # Shelf!NoObject /\ Objects[f].by = u
                          <=> row[f] # NoRow /\ row[f].by = u
    <3>1. TAKE f \in Fresh
    <3>2. CASE row[f] = NoRow
      BY <3>2 DEF Objects, Shelf!NoObject
    <3>3. CASE row[f] # NoRow
      <4>1. PICK c \in Content : file[f] = {c}
        BY <3>3 DEF FreshInv, RowsInv, Settled, Whole
      <4>2. Objects[f] = [by |-> row[f].by, holds |-> {c}]
        BY <3>3, <4>1 DEF Objects
      <4>3. Objects[f].by = row[f].by /\ Objects[f].holds = {c} /\ Shelf!NoObject.holds = {}
        BY <4>2 DEF Shelf!NoObject
      <4>4. QED
        BY <3>3, <4>3
    <3>4. QED
      BY <3>2, <3>3
  <2>2. Objects' = [f \in Fresh |-> IF Objects[f] # Shelf!NoObject /\ Objects[f].by = u
                                    THEN Shelf!NoObject ELSE Objects[f]]
    BY <1>2, <2>1 DEF Objects, Shelf!NoObject
  <2>3. Shelf!Leave(u)
    BY <1>3, <1>6, <1>7, <2>2 DEF Shelf!Leave
  <2>4. QED
    BY <1>1, <1>5, <2>3 DEF Shelf!Next
<1>8. CASE u \notin accounts
  <2>1. \A f \in Fresh : row'[f] = row[f]
    BY <1>2, <1>8 DEF OwnersInv
  <2>2. Objects' = Objects /\ accounts' = accounts
    BY <1>2, <1>3, <1>8, <2>1 DEF Objects
  <2>3. QED
    BY <1>5, <1>6, <2>2 DEF Shelf!store
<1>9. QED
  BY <1>7, <1>8

LEMMA StepShelf ==
  ASSUME TypeInv, FreshInv, OwnersInv, [Next]_vars
  PROVE  OwnersInv' /\ [Shelf!Next]_(Shelf!store)
<1>1. ASSUME UNCHANGED <<mailbox, row, file, issued, pc, key>>
      PROVE  OwnersInv' /\ [Shelf!Next]_(Shelf!store)
  <2>1. \A q \in Proc, g \in Fresh : Uploading(q, g)' <=> Uploading(q, g)
    BY <1>1 DEF Uploading
  <2>2. issued \subseteq Fresh
    BY DEF TypeInv, TypeOK
  <2>3. QED
    BY <1>1, <2>1, <2>2, SameAccounts, ShelfStill
<1>2. CASE UNCHANGED vars \/ ChangeRights
  BY <1>1, <1>2 DEF vars, tables, disk, locals, ChangeRights
<1>3. ASSUME NEW p \in Proc, NEW r \in Requests, Submit(p, r)
      PROVE  OwnersInv' /\ [Shelf!Next]_(Shelf!store)
  <2>1. /\ UNCHANGED <<mailbox, row, file, issued, key>> /\ pc'[p] \notin Uploads
        /\ \A q \in Proc \ {p} : pc'[q] = pc[q]
    BY <1>3 DEF Submit, tables, disk, locals, Uploads, TypeInv, TypeOK
  <2>2. QED
    BY <2>1, SameAccounts, ShelfEnds
<1>4. ASSUME NEW p \in Proc, Verify(p)
      PROVE  OwnersInv' /\ [Shelf!Next]_(Shelf!store)
  <2>1. CASE ~Refuse(p)
    <3>1. PICK next \in {"authorise", "row", "delete"} :
            Goto(p, next) /\ UNCHANGED <<tables, disk, issued, locals, aux>>
      BY <1>4, <2>1 DEF Verify
    <3>2. next \in Statement \ Uploads
      BY DEF Statement, Uploads
    <3>3. QED
      BY <3>1, <3>2, GotoShelf DEF tables, disk, locals
  <2>2. QED
    BY <2>1, RefuseShelf
<1>5. ASSUME NEW p \in Proc, Fail(p)
      PROVE  OwnersInv' /\ [Shelf!Next]_(Shelf!store)
  BY <1>5, EndsShelf DEF Fail
<1>6. QED
  BY <1>2, <1>3, <1>4, <1>5, UploadShelf, EncodeShelf, DownloadShelf, RegisterShelf, DeleteShelf
  DEF Next

LEMMA InitShelf == Init => Shelf!Init /\ OwnersInv
<1> SUFFICES ASSUME Init PROVE Shelf!Init /\ OwnersInv
  OBVIOUS
<1>1. \A f \in Fresh : row[f] = NoRow
  BY KeysDiffer DEF Init, Resource, Members
<1>2. accounts = Members
  BY DEF Init, accounts, Members
<1>3. Objects = [f \in Fresh |-> Shelf!NoObject] /\ Spent = {}
  BY <1>1 DEF Init, Objects, Shelf!NoObject, Spent
<1>4. QED
  BY <1>1, <1>2, <1>3 DEF Shelf!Init, OwnersInv

(* Files, encoders, rows and accounts together are a store of objects that *)
(* appear whole, are written once and go with their owner, whatever        *)
(* requests fail or are dropped (services/resource.rs:115-131).            *)
THEOREM ImplementsStore == Spec => StoreSpec
<1>1. Init => Shelf!Init /\ OwnersInv
  BY InitShelf
<1>2. TypeInv /\ FreshInv /\ OwnersInv /\ [Next]_vars =>
        OwnersInv' /\ [Shelf!Next]_(Shelf!store)
  BY StepShelf
<1>3. QED
  BY <1>1, <1>2, FreshAlways, PTL DEF Spec, StoreSpec, Shelf!Spec

-----------------------------------------------------------------------------
(* An upload that has been let in may still write, or its user's rights    *)
(* have changed since.                                                     *)
LetIn ==
  \A p \in Proc : pc[p] \in Uploads /\ ~revoked[p] => MayUpload(req[p])

Undisturbed(q) ==
  \/ pc'[q] \notin Uploads
  \/ pc[q] \in Uploads /\ req'[q] = req[q] /\ revoked'[q] = revoked[q]

LEMMA SameRights ==
  ASSUME LetIn, UNCHANGED <<perm, stored>>, \A q \in Proc : Undisturbed(q)
  PROVE  LetIn'
BY DEF LetIn, Undisturbed, MayUpload

LEMMA GotoRights ==
  ASSUME TypeInv, LetIn, NEW p \in Proc, NEW next \in Statement, Goto(p, next),
         next \in Uploads => pc[p] \in Uploads, UNCHANGED <<perm, stored, revoked>>
  PROVE  LetIn'
<1>1. \A q \in Proc : Undisturbed(q)
  BY DEF Goto, Undisturbed, TypeInv, TypeOK
<1>2. QED
  BY <1>1, SameRights

LEMMA EndsRights ==
  ASSUME TypeInv, LetIn, NEW p \in Proc, Finish(p), UNCHANGED <<perm, stored>>
  PROVE  LetIn'
<1>1. \A q \in Proc : Undisturbed(q)
  BY DEF Finish, Undisturbed, TypeInv, TypeOK, Uploads
<1>2. QED
  BY <1>1, SameRights

LEMMA NotedRights ==
  ASSUME TypeInv, LetIn, UNCHANGED req,
         \A q \in Proc : pc'[q] \in Uploads => pc'[q] = pc[q] /\ revoked'[q] = NoteRights[q]
  PROVE  LetIn'
<1> SUFFICES ASSUME NEW q \in Proc, pc'[q] \in Uploads, ~revoked'[q]
             PROVE  MayUpload(req[q])'
  BY DEF LetIn
<1>1. /\ pc[q] \in Uploads /\ ~revoked[q]
      /\ perm'[req[q].by] = perm[req[q].by]
      /\ stored' = stored \/ req[q].by # PostAuthor
  BY DEF NoteRights, Uploads
<1>2. MayUpload(req[q])
  BY <1>1 DEF LetIn
<1>3. QED
  BY <1>1, <1>2 DEF MayUpload

LEMMA StepRights == TypeInv /\ LetIn /\ [Next]_vars => LetIn'
<1> SUFFICES ASSUME TypeInv, LetIn, [Next]_vars PROVE LetIn'
  OBVIOUS
<1>1. CASE UNCHANGED vars
  BY <1>1 DEF vars, tables, aux, LetIn, MayUpload
<1>2. ASSUME NEW p \in Proc, NEW r \in Requests, Submit(p, r) PROVE LetIn'
  <2>1. \A q \in Proc : Undisturbed(q)
    BY <1>2 DEF Submit, Undisturbed, TypeInv, TypeOK, Uploads, aux
  <2>2. QED
    BY <1>2, <2>1, SameRights DEF Submit, tables
<1>3. ASSUME NEW p \in Proc, Ends(p) PROVE LetIn'
  BY <1>3, EndsRights DEF Ends, tables
<1>4. ASSUME NEW p \in Proc, Verify(p) PROVE LetIn'
  <2>1. CASE Refuse(p)
    BY <1>3, <2>1 DEF Refuse
  <2>2. CASE ~Refuse(p)
    <3>1. PICK next \in {"authorise", "row", "delete"} :
            Goto(p, next) /\ UNCHANGED <<tables, disk, issued, locals, aux>>
      BY <1>4, <2>2 DEF Verify
    <3>2. QED
      BY <3>1, GotoRights DEF Statement, Uploads, tables, aux
  <2>3. QED
    BY <2>1, <2>2
<1>5. ASSUME NEW p \in Proc, Upload(p) PROVE LetIn'
  <2>1. CASE Refuse(p)
    BY <1>3, <2>1 DEF Refuse
  <2>2. CASE Authorise(p) /\ ~Refuse(p)
    <3>1. /\ MayUpload(req[p]) /\ Goto(p, "receive")
          /\ UNCHANGED <<perm, stored, revoked>>
      BY <2>2 DEF Authorise, tables
    <3>2. \A q \in Proc \ {p} : Undisturbed(q)
      BY <3>1 DEF Goto, Undisturbed, TypeInv, TypeOK
    <3>3. QED
      BY <3>1, <3>2 DEF Goto, LetIn, Undisturbed, MayUpload
  <2>3. CASE (Receive(p) \/ Stat(p) \/ Exists(p)) /\ ~Refuse(p)
    <3>1. PICK next \in {"encoding", "exists", "create"} :
            /\ Goto(p, next) /\ pc[p] \in Uploads
            /\ UNCHANGED <<perm, stored, revoked>>
      BY <2>3 DEF Receive, Stat, Exists, AfterSpawn, Uploads, tables, aux
    <3>2. QED
      BY <3>1, GotoRights DEF Statement
  <2>4. CASE Create(p) /\ ~Refuse(p)
    BY <2>4, EndsRights DEF Create
  <2>5. QED
    BY <1>5, <2>1, <2>2, <2>3, <2>4 DEF Upload
<1>6. ASSUME NEW j \in jobs, Open(j) \/ Encoded(j) \/ EncoderFails(j) PROVE LetIn'
  <2>1. j.for # Orphan => j.for \in Proc /\ pc[j.for] = "encoding"
    BY DEF TypeInv, TypeOK, Job
  <2>2. CASE EncoderFails(j) /\ j.for # Orphan
    BY <1>3, <2>1, <2>2 DEF EncoderFails
  <2>3. CASE Open(j) \/ Encoded(j) \/ (EncoderFails(j) /\ j.for = Orphan)
    <3>1. UNCHANGED <<perm, stored, revoked, req>>
      BY <2>3 DEF Open, Encoded, EncoderFails, tables, aux
    <3>2. \A q \in Proc : Undisturbed(q)
      BY <2>1, <2>3, <3>1 DEF Open, Encoded, EncoderFails, Undisturbed, Uploads, TypeInv, TypeOK
    <3>3. QED
      BY <3>1, <3>2, SameRights
  <2>4. QED
    BY <1>6, <2>2, <2>3
<1>7. ASSUME NEW p \in Proc, Download(p) PROVE LetIn'
  <2>1. CASE Refuse(p)
    BY <1>3, <2>1 DEF Refuse
  <2>2. CASE ~Refuse(p)
    <3>1. PICK next \in Downloads : Goto(p, next) /\ UNCHANGED <<perm, stored, revoked>>
      BY <1>7, <2>2 DEF Download, ReadRow, CheckMember, Stream, Downloads, tables, aux
    <3>2. QED
      BY <3>1, GotoRights DEF Statement, Uploads, Downloads
  <2>3. QED
    BY <2>1, <2>2
<1>8. ASSUME NEW p \in Proc, Register(p) PROVE LetIn'
  <2>1. CASE Refuse(p)
    BY <1>3, <2>1 DEF Refuse
  <2>2. CASE InitVector(p)
    BY <2>2, EndsRights DEF InitVector
  <2>3. CASE ~Refuse(p) /\ ~InitVector(p)
    <3>1. PICK next \in {"settings", "user", "icon", "write", "written", "vector"} :
            Goto(p, next) /\ UNCHANGED <<perm, stored, revoked>>
      BY <1>8, <2>3 DEF Register, SpendCode, CheckSettings, InsertUser, InsertIcon, WriteIcon,
                        tables, aux
    <3>2. QED
      BY <3>1, GotoRights DEF Statement, Uploads
  <2>4. QED
    BY <2>1, <2>2, <2>3
<1>9. ASSUME NEW p \in Proc, Delete(p) PROVE LetIn'
  <2>1. \A q \in Proc : pc'[q] \in Uploads => /\ pc'[q] = pc[q] /\ req'[q] = req[q] /\ q # p
                                             /\ revoked'[q] = NoteRights[q]
    BY <1>9 DEF Delete, NoteRights, Uploads, TypeInv, TypeOK
  <2>2. ASSUME NEW q \in Proc, pc'[q] \in Uploads, ~revoked'[q]
        PROVE  MayUpload(req[q])'
    <3>1. /\ pc[q] \in Uploads /\ ~revoked[q]
          /\ perm'[req[q].by] = perm[req[q].by]
          /\ stored' = stored \/ req[q].by # PostAuthor
      BY <2>1, <2>2 DEF NoteRights, Uploads
    <3>2. MayUpload(req[q])
      BY <3>1 DEF LetIn
    <3>3. QED
      BY <2>1, <2>2, <3>1, <3>2 DEF MayUpload
  <2>3. QED
    BY <2>2 DEF LetIn
<1>10. CASE ChangeRights
  BY <1>10, NotedRights DEF ChangeRights
<1>11. QED
  BY <1>1, <1>2, <1>3, <1>4, <1>5, <1>6, <1>7, <1>8, <1>9, <1>10 DEF Next, Encode, Fail

(* A new row of a channel or a post is entered for one who may write       *)
(* there, or whose rights changed while he uploaded                        *)
(* (services/resource.rs:75, :130).                                        *)
THEOREM AuthorisedUploads == Spec => UploadsAuthorised
<1>1. Init => LetIn
  BY DEF Init, LetIn, Uploads
<1>2. TypeInv /\ LetIn /\ [Next]_vars =>
        [\A p \in Proc :
           pc[p] = "create" /\ pc'[p] = "idle" /\ row'[key[p]] # row[key[p]] /\ ~revoked[p] =>
             CASE req[p].to = "channel" -> perm[req[p].by] = "write"
               [] req[p].to = "post" -> stored /\ req[p].by = PostAuthor
               [] OTHER -> TRUE]_<<row, pc>>
  <2> SUFFICES ASSUME TypeInv, LetIn, NEW p \in Proc, pc[p] = "create", ~revoked[p]
               PROVE  CASE req[p].to = "channel" -> perm[req[p].by] = "write"
                        [] req[p].to = "post" -> stored /\ req[p].by = PostAuthor
                        [] OTHER -> TRUE
    OBVIOUS
  <2>1. MayUpload(req[p])
    BY DEF LetIn, Uploads
  <2>2. req[p].by \notin Space
    BY BusyRequest, RequestFields, KeysDiffer DEF TypeInv
  <2>3. QED
    BY <2>1, <2>2, KeysDiffer DEF MayUpload, Space
<1>3. QED
  BY <1>1, <1>2, FreshAlways, StepRights, PTL DEF Spec, UploadsAuthorised

-----------------------------------------------------------------------------
(* Registrations.  A user's icon is entered by himself, so its row goes    *)
(* with his account only; while there is none, a registration is about to  *)
(* enter it or has failed.                                                 *)
Registers(p, u) == Running(p, "register") /\ req[p].by = u

OwnKeys == \A p \in Proc : pc[p] \in Uploads /\ key[p] \in User => req[p].by = key[p]
OwnIcons == \A u \in User : row[u] # NoRow => row[u].by = u

Bought ==
  \A e \in Email \ (codes \cup wasted) :
    \/ \E u \in User : mailbox[u] = e
    \/ \E p \in Proc : Running(p, "register") /\ req[p].email = e /\ pc[p] \in Spending

HasIcon(u) == row[u] # NoRow \/ u \in halfway \/ \E p \in Proc : Registers(p, u) /\ pc[p] = "icon"
HasVector(u) == \/ u \in vectors \/ u \in halfway
                \/ \E p \in Proc : Registers(p, u) /\ pc[p] \in Entering

Furnished == \A u \in accounts : HasIcon(u) /\ HasVector(u)

RegInv == OwnKeys /\ OwnIcons /\ Bought /\ Furnished

LEMMA RowIsRow == \A r \in Row : r # NoRow
BY DEF Row, NoRow

LEMMA InitRegistered == Init => RegInv
<1> SUFFICES ASSUME Init PROVE RegInv
  OBVIOUS
<1>1. accounts = Members
  BY DEF Init, accounts, Members
<1>2. \A u \in Members : u \in Resource /\ row[u] # NoRow /\ u \in vectors
  <2>1. ASSUME NEW u \in Members PROVE [by |-> u, space |-> "icon", size |-> {Default}] # NoRow
    <3>1. [by |-> u, space |-> "icon", size |-> {Default}] \in Row
      BY DEF Row, Piece, Members
    <3>2. QED
      BY <3>1, RowIsRow
  <2>2. QED
    BY <2>1 DEF Init, Resource, Members
<1>3. OwnIcons
  BY DEF Init, OwnIcons, Resource
<1>4. Bought
  BY DEF Init, Bought
<1>5. QED
  BY <1>1, <1>2, <1>3, <1>4 DEF Init, RegInv, OwnKeys, Furnished, HasIcon, HasVector, Uploads

(* A step of p that enters no row, no account and spends no code. *)
Elsewhere(p) ==
  /\ \A q \in Proc \ {p} : pc'[q] = pc[q] /\ req'[q] = req[q] /\ key'[q] = key[q]
  /\ UNCHANGED <<mailbox, codes, row>>
  /\ vectors \subseteq vectors' /\ wasted \subseteq wasted' /\ halfway \subseteq halfway'
  /\ pc'[p] \in Uploads => pc[p] \in Uploads /\ req'[p] = req[p] /\ key'[p] = key[p]
  /\ Running(p, "register") =>
       /\ pc[p] \in Spending => \/ req[p].email \in wasted'
                                \/ pc'[p] \in Spending /\ req'[p] = req[p]
       /\ pc[p] \in Entering /\ req[p].by \in accounts =>
            \/ req[p].by \in halfway'
            \/ pc[p] # "icon" /\ req[p].by \in vectors'
            \/ pc[p] # "icon" /\ pc'[p] \in Entering /\ req'[p] = req[p]

LEMMA StillRegistered ==
  ASSUME TypeInv, RegInv, NEW p \in Proc, Elsewhere(p)
  PROVE  RegInv'
<1>1. accounts' = accounts
  BY DEF accounts, Elsewhere
<1>2. OwnKeys' /\ OwnIcons'
  BY DEF RegInv, OwnKeys, OwnIcons, Elsewhere
<1>3. Bought'
  <2> SUFFICES ASSUME NEW e \in Email \ (codes \cup wasted'), \A u \in User : mailbox[u] # e
               PROVE  \E q \in Proc : (Running(q, "register") /\ req[q].email = e /\ pc[q] \in Spending)'
    BY DEF Bought, Elsewhere
  <2>1. PICK q \in Proc : Running(q, "register") /\ req[q].email = e /\ pc[q] \in Spending
    BY DEF RegInv, Bought, Elsewhere
  <2>2. pc'[q] \in Spending /\ req'[q] = req[q]
    BY <2>1 DEF Elsewhere
  <2>3. QED
    BY <2>1, <2>2 DEF Running, Spending
<1>4. ASSUME NEW u \in accounts
      PROVE  HasIcon(u)' /\ HasVector(u)'
  <2>1. ASSUME NEW q \in Proc, Registers(q, u), pc[q] \in Entering
        PROVE  \/ u \in halfway'
               \/ pc[q] # "icon" /\ u \in vectors'
               \/ Registers(q, u)' /\ pc'[q] \in Entering /\ (pc[q] # "icon" \/ pc'[q] = "icon")
    <3>1. CASE q = p
      BY <2>1, <3>1 DEF Elsewhere, Registers, Running, Entering
    <3>2. CASE q # p
      BY <2>1, <3>2 DEF Elsewhere, Registers, Running
    <3>3. QED
      BY <3>1, <3>2
  <2>2. HasIcon(u) /\ HasVector(u)
    BY DEF RegInv, Furnished
  <2>3. HasIcon(u)'
    BY <2>1, <2>2 DEF HasIcon, Elsewhere, Entering
  <2>4. HasVector(u)'
    BY <2>1, <2>2 DEF HasVector, Elsewhere
  <2>5. QED
    BY <2>3, <2>4
<1>5. QED
  BY <1>1, <1>2, <1>3, <1>4 DEF RegInv, Furnished

LEMMA EndsRegistered ==
  ASSUME TypeInv, RegInv, NEW p \in Proc, Ends(p)
  PROVE  RegInv'
<1>1. Elsewhere(p)
  BY DEF Ends, Finish, Elsewhere, TypeInv, TypeOK, tables, Uploads
<1>2. QED
  BY <1>1, StillRegistered

(* A request goes on, and what it goes on from needs no account. *)
LEMMA GotoRegistered ==
  ASSUME TypeInv, RegInv, NEW p \in Proc, NEW next \in Statement, Goto(p, next),
         UNCHANGED <<mailbox, codes, row, vectors, wasted, halfway>>,
         \A q \in Proc \ {p} : key'[q] = key[q],
         next \in Uploads => pc[p] \in Uploads /\ key'[p] = key[p],
         pc[p] \in Spending => next \in Spending,
         pc[p] \in Entering => pc[p] # "icon" /\ next \in Entering
  PROVE  RegInv'
<1>1. Elsewhere(p)
  BY DEF Goto, Elsewhere, TypeInv, TypeOK
<1>2. QED
  BY <1>1, StillRegistered

LEMMA UploadRegistered ==
  ASSUME TypeInv, RegInv, NEW p \in Proc, Upload(p)
  PROVE  RegInv'
<1>1. CASE Refuse(p)
  BY <1>1, EndsRegistered DEF Refuse
<1>2. CASE Authorise(p) /\ ~Refuse(p)
  <2>1. PICK k \in NewKeys(req[p]) : key' = [key EXCEPT ![p] = k]
    BY <1>2 DEF Authorise
  <2>2. /\ MayUpload(req[p]) /\ pc[p] = "authorise" /\ Goto(p, "receive")
        /\ UNCHANGED <<mailbox, codes, row, vectors, wasted, halfway>>
    BY <1>2 DEF Authorise, tables
  <2>3. k \in User => req[p].by = k
    BY <2>2, KeysDiffer DEF MayUpload, NewKeys, Space
  <2>4. OwnKeys'
    BY <2>1, <2>2, <2>3 DEF Goto, RegInv, OwnKeys, TypeInv, TypeOK
  <2>5. /\ \A q \in Proc : Running(q, "register") /\ q # p =>
             (Running(q, "register"))' /\ pc'[q] = pc[q] /\ req'[q] = req[q]
        /\ pc[p] \notin Spending \cup Entering /\ pc[p] # "icon"
    BY <2>2 DEF Goto, Running, Spending, Entering, TypeInv, TypeOK
  <2>6. OwnIcons' /\ accounts' = accounts
    BY <2>2 DEF RegInv, OwnIcons, accounts
  <2>7. Bought'
    BY <2>2, <2>5 DEF RegInv, Bought
  <2>8. Furnished'
    BY <2>2, <2>5, <2>6 DEF RegInv, Furnished, HasIcon, HasVector, Registers
  <2>9. QED
    BY <2>4, <2>6, <2>7, <2>8 DEF RegInv
<1>3. CASE (Receive(p) \/ Stat(p) \/ Exists(p)) /\ ~Refuse(p)
  <2>1. PICK next \in {"encoding", "exists", "create"} :
          /\ Goto(p, next) /\ pc[p] \in {"receive", "stat", "exists"}
          /\ UNCHANGED <<mailbox, codes, row, vectors, wasted, halfway, key>>
    BY <1>3 DEF Receive, Stat, Exists, AfterSpawn, tables, locals, aux
  <2>2. QED
    BY <2>1, GotoRegistered DEF Statement, Uploads, Spending, Entering
<1>4. CASE Create(p) /\ ~Refuse(p)
  <2> DEFINE new == [by |-> req[p].by, size |-> size[p],
                     space |-> IF req[p].to \in User THEN "icon" ELSE req[p].to]
  <2>1. /\ pc[p] = "create" /\ Finish(p) /\ row' = [row EXCEPT ![key[p]] = new]
        /\ UNCHANGED <<mailbox, codes, vectors, wasted, halfway>>
    BY <1>4 DEF Create
  <2>2. new \in Row /\ new.by = req[p].by
    BY BusyRequest, RequestFields DEF Upload, Running, Row, TypeInv, TypeOK
  <2> HIDE DEF new
  <2>3. new # NoRow
    BY <2>2, RowIsRow
  <2>4. \A u \in User : row'[u] = IF u = key[p] THEN new ELSE row[u]
    BY <2>1 DEF TypeInv, TypeOK, Resource
  <2>5. OwnIcons'
    <3>1. key[p] \in User => req[p].by = key[p]
      BY <2>1 DEF RegInv, OwnKeys, Uploads
    <3>2. QED
      BY <2>2, <2>4, <3>1 DEF RegInv, OwnIcons
  <2>6. OwnKeys'
    BY <2>1 DEF Finish, RegInv, OwnKeys, TypeInv, TypeOK, Uploads
  <2>7. /\ \A q \in Proc : Running(q, "register") /\ q # p =>
             (Running(q, "register"))' /\ pc'[q] = pc[q] /\ req'[q] = req[q]
        /\ pc[p] \notin Spending \cup Entering /\ pc[p] # "icon"
    BY <2>1 DEF Finish, Running, Spending, Entering, TypeInv, TypeOK
  <2>8. Bought'
    BY <2>1, <2>7 DEF RegInv, Bought
  <2>9. accounts' = accounts /\ accounts \subseteq User
    BY <2>1 DEF accounts
  <2>10. Furnished'
    BY <2>1, <2>3, <2>4, <2>7, <2>9 DEF RegInv, Furnished, HasIcon, HasVector, Registers
  <2>11. QED
    BY <2>5, <2>6, <2>8, <2>10 DEF RegInv
<1>5. QED
  BY <1>1, <1>2, <1>3, <1>4 DEF Upload

LEMMA EncodeRegistered ==
  ASSUME TypeInv, RegInv, Encode
  PROVE  RegInv'
<1>1. PICK j \in jobs : Open(j) \/ Encoded(j) \/ EncoderFails(j)
  BY DEF Encode
<1>2. j.for # Orphan => j.for \in Proc /\ pc[j.for] = "encoding"
  BY DEF TypeInv, TypeOK, Job
<1>3. CASE EncoderFails(j) /\ j.for # Orphan
  BY <1>2, <1>3, EndsRegistered DEF EncoderFails
<1>4. CASE Open(j) \/ Encoded(j) \/ (EncoderFails(j) /\ j.for = Orphan)
  <2>1. UNCHANGED <<mailbox, codes, row, vectors, wasted, halfway, key, req>>
    BY <1>4 DEF Open, Encoded, EncoderFails, tables, locals, aux
  <2>2. \A q \in Proc : pc'[q] = pc[q] \/ (pc[q] = "encoding" /\ pc'[q] = "stat")
    BY <1>2, <1>4 DEF Open, Encoded, EncoderFails, TypeInv, TypeOK
  <2>3. OwnKeys' /\ OwnIcons'
    BY <2>1, <2>2 DEF RegInv, OwnKeys, OwnIcons, Uploads
  <2>4. Bought'
    BY <2>1, <2>2 DEF RegInv, Bought, Running, Spending
  <2>5. Furnished'
    BY <2>1, <2>2 DEF RegInv, Furnished, HasIcon, HasVector, Registers, Running, Entering, accounts
  <2>6. QED
    BY <2>3, <2>4, <2>5 DEF RegInv
<1>5. QED
  BY <1>1, <1>3, <1>4

LEMMA DownloadRegistered ==
  ASSUME TypeInv, RegInv, NEW p \in Proc, Download(p)
  PROVE  RegInv'
<1>1. CASE Refuse(p)
  BY <1>1, EndsRegistered DEF Refuse
<1>2. CASE ~Refuse(p)
  <2>1. PICK next \in Downloads :
          /\ Goto(p, next) /\ pc[p] \in Downloads \cup {"row"}
          /\ UNCHANGED <<mailbox, codes, row, vectors, wasted, halfway>>
          /\ \A q \in Proc \ {p} : key'[q] = key[q]
    BY <1>2 DEF Download, ReadRow, CheckMember, Stream, Downloads, TypeInv, TypeOK, tables,
                locals, aux
  <2>2. QED
    BY <2>1, GotoRegistered DEF Statement, Uploads, Downloads, Spending, Entering
<1>3. QED
  BY <1>1, <1>2

LEMMA RegisterRegistered ==
  ASSUME TypeInv, RegInv, NEW p \in Proc, Register(p)
  PROVE  RegInv'
<1> DEFINE r == req[p]
<1>1. /\ pc[p] # "idle" /\ r \in Request /\ r.op = "register" /\ r.by \in User /\ r.email \in Email
      /\ Running(p, "register") /\ Registers(p, r.by)
  BY BusyRequest, RequestFields DEF Register, Running, Registers, TypeInv
<1>2. CASE Refuse(p)
  BY <1>2, EndsRegistered DEF Refuse
<1>3. CASE SpendCode(p) /\ ~Refuse(p)
  <2>1. /\ pc[p] = "code" /\ Goto(p, "settings") /\ codes' = codes \ {r.email}
        /\ UNCHANGED <<mailbox, row, vectors, wasted, halfway, key>>
    BY <1>3 DEF SpendCode, locals, aux
  <2>2. /\ pc'[p] = "settings" /\ req' = req
        /\ \A q \in Proc \ {p} : pc'[q] = pc[q]
    BY <2>1 DEF Goto, TypeInv, TypeOK
  <2>3. OwnKeys' /\ OwnIcons'
    BY <2>1, <2>2 DEF RegInv, OwnKeys, OwnIcons, Uploads
  <2>4. Bought'
    BY <1>1, <2>1, <2>2 DEF RegInv, Bought, Running, Spending
  <2>5. Furnished'
    BY <2>1, <2>2 DEF RegInv, Furnished, HasIcon, HasVector, Registers, Running, Entering, accounts
  <2>6. QED
    BY <2>3, <2>4, <2>5 DEF RegInv
<1>4. CASE CheckSettings(p) /\ ~Refuse(p)
  <2>1. /\ pc[p] = "settings" /\ Goto(p, "user")
        /\ UNCHANGED <<mailbox, codes, row, vectors, wasted, halfway, key>>
    BY <1>4 DEF CheckSettings, tables, locals, aux
  <2>2. QED
    BY <2>1, GotoRegistered DEF Statement, Uploads, Spending, Entering
<1>5. CASE InsertUser(p) /\ ~Refuse(p)
  <2>1. /\ pc[p] = "user" /\ Goto(p, "icon") /\ mailbox' = [mailbox EXCEPT ![r.by] = r.email]
        /\ r.by \notin accounts
        /\ UNCHANGED <<codes, row, vectors, wasted, halfway, key>>
    BY <1>5 DEF InsertUser, Taken, locals
  <2>2. /\ pc'[p] = "icon" /\ req' = req
        /\ \A q \in Proc \ {p} : pc'[q] = pc[q]
    BY <2>1 DEF Goto, TypeInv, TypeOK
  <2>3. OwnKeys' /\ OwnIcons'
    BY <2>1, <2>2 DEF RegInv, OwnKeys, OwnIcons, Uploads
  <2>4. \A u \in User : mailbox'[u] = IF u = r.by THEN r.email ELSE mailbox[u]
    BY <1>1, <2>1 DEF TypeInv, TypeOK
  <2>5. mailbox[r.by] = NoEmail
    BY <1>1, <2>1 DEF accounts
  <2>6. Bought'
    <3> SUFFICES ASSUME NEW e \in Email \ (codes \cup wasted)
                 PROVE  \/ \E u \in User : mailbox'[u] = e
                        \/ \E q \in Proc : (Running(q, "register") /\ req[q].email = e /\ pc[q] \in Spending)'
      BY <2>1 DEF Bought
    <3>1. CASE \E u \in User : mailbox[u] = e
      BY <2>4, <2>5, <3>1, NoEmailIsNone
    <3>2. CASE \E q \in Proc : Running(q, "register") /\ req[q].email = e /\ pc[q] \in Spending
      BY <1>1, <2>2, <2>4, <3>2 DEF Running
    <3>3. QED
      BY <3>1, <3>2 DEF RegInv, Bought
  <2>7. Registers(p, r.by)' /\ pc'[p] \in Entering
    BY <1>1, <2>2 DEF Registers, Running, Entering
  <2>8. Furnished'
    <3> SUFFICES ASSUME NEW u \in accounts'
                 PROVE  HasIcon(u)' /\ HasVector(u)'
      BY DEF Furnished
    <3>1. CASE u = r.by
      BY <2>2, <2>7, <3>1 DEF HasIcon, HasVector, Registers, Running
    <3>2. CASE u # r.by
      <4>1. u \in accounts
        BY <2>4, <3>2 DEF accounts
      <4>2. QED
        BY <2>1, <2>2, <4>1 DEF RegInv, Furnished, HasIcon, HasVector, Registers, Running, Entering
    <3>3. QED
      BY <3>1, <3>2
  <2>9. QED
    BY <2>3, <2>6, <2>8 DEF RegInv
<1>6. CASE InsertIcon(p) /\ ~Refuse(p)
  <2> DEFINE new == [by |-> r.by, space |-> "icon", size |-> {Default}]
  <2>1. /\ pc[p] = "icon" /\ Goto(p, "write") /\ row' = [row EXCEPT ![r.by] = new]
        /\ UNCHANGED <<mailbox, codes, vectors, wasted, halfway, key>>
    BY <1>6 DEF InsertIcon, locals, aux
  <2>2. new \in Row /\ new.by = r.by
    BY <1>1 DEF Row, Piece
  <2> HIDE DEF new
  <2>3. new # NoRow
    BY <2>2, RowIsRow
  <2>4. \A u \in User : row'[u] = IF u = r.by THEN new ELSE row[u]
    BY <2>1 DEF TypeInv, TypeOK, Resource
  <2>5. /\ pc'[p] = "write" /\ req' = req
        /\ \A q \in Proc \ {p} : pc'[q] = pc[q]
    BY <2>1 DEF Goto, TypeInv, TypeOK
  <2>6. OwnKeys' /\ OwnIcons'
    BY <2>1, <2>2, <2>4, <2>5 DEF RegInv, OwnKeys, OwnIcons, Uploads
  <2>7. Bought'
    BY <2>1, <2>5 DEF RegInv, Bought, Running, Spending
  <2>8. accounts' = accounts /\ accounts \subseteq User
    BY <2>1 DEF accounts
  <2>9. Furnished'
    <3> SUFFICES ASSUME NEW u \in accounts
                 PROVE  HasIcon(u)' /\ HasVector(u)'
      BY <2>8 DEF Furnished
    <3>1. HasIcon(u) /\ HasVector(u) /\ u \in User
      BY <2>8 DEF RegInv, Furnished
    <3>2. \A q \in Proc : Registers(q, u) => Registers(q, u)'
      BY <2>1, <2>5 DEF Registers, Running
    <3>3. HasIcon(u)'
      <4>1. CASE u = r.by
        <5>1. row'[u] # NoRow
          BY <2>3, <2>4, <3>1, <4>1
        <5>2. QED
          BY <5>1 DEF HasIcon
      <4>2. CASE u # r.by
        BY <2>1, <2>4, <2>5, <3>1, <3>2, <4>2 DEF HasIcon, Registers
      <4>3. QED
        BY <4>1, <4>2
    <3>4. HasVector(u)'
      BY <2>1, <2>5, <3>1, <3>2 DEF HasVector, Entering
    <3>5. QED
      BY <3>3, <3>4
  <2>10. QED
    BY <2>6, <2>7, <2>9 DEF RegInv
<1>7. CASE WriteIcon(p)
  <2>1. PICK next \in {"written", "vector"} :
          /\ Goto(p, next) /\ pc[p] \in {"write", "written"}
          /\ UNCHANGED <<mailbox, codes, row, vectors, wasted, halfway, key>>
    BY <1>7 DEF WriteIcon, tables, locals, aux
  <2>2. QED
    BY <2>1, GotoRegistered DEF Statement, Uploads, Spending, Entering
<1>8. CASE InitVector(p)
  <2>1. Elsewhere(p)
    BY <1>8 DEF InitVector, Finish, Elsewhere, Spending, Uploads, TypeInv, TypeOK
  <2>2. QED
    BY <2>1, StillRegistered
<1>9. QED
  BY <1>2, <1>3, <1>4, <1>5, <1>6, <1>7, <1>8 DEF Register

LEMMA DeleteRegistered ==
  ASSUME TypeInv, RegInv, NEW p \in Proc, Delete(p)
  PROVE  RegInv'
<1>1. PICK u : u = req[p].by
  OBVIOUS
<1>2. u \in User /\ pc[p] = "delete"
  BY <1>1, BusyRequest, RequestFields DEF Delete, Running, TypeInv
<1>3. /\ \A v \in User : mailbox'[v] = IF v = u THEN NoEmail ELSE mailbox[v]
      /\ \A x \in Resource : row'[x] = IF row[x] # NoRow /\ row[x].by = u THEN NoRow ELSE row[x]
      /\ vectors' = vectors \ {u} /\ halfway' = halfway \ {u}
      /\ wasted' = wasted \cup ({mailbox[u]} \cap Email)
      /\ UNCHANGED <<codes, key>>
  BY <1>1 DEF Delete, TypeInv, TypeOK, locals
<1>4. /\ \A q \in Proc : q # p => pc'[q] = pc[q] /\ req'[q] = req[q]
      /\ pc'[p] = "idle"
  BY <1>2 DEF Delete, TypeInv, TypeOK
<1>5. accounts' = accounts \ {u} /\ accounts \subseteq User
  BY <1>3 DEF accounts
<1>6. OwnKeys' /\ OwnIcons'
  BY <1>3, <1>4 DEF RegInv, OwnKeys, OwnIcons, Uploads, Resource
<1>7. Bought'
  <2> SUFFICES ASSUME NEW e \in Email \ (codes \cup wasted')
               PROVE  \/ \E v \in User : mailbox'[v] = e
                      \/ \E q \in Proc : (Running(q, "register") /\ req[q].email = e /\ pc[q] \in Spending)'
    BY <1>3 DEF Bought
  <2>1. CASE \E v \in User : mailbox[v] = e
    BY <1>3, <2>1
  <2>2. CASE \E q \in Proc : Running(q, "register") /\ req[q].email = e /\ pc[q] \in Spending
    BY <1>2, <1>4, <2>2 DEF Running, Spending
  <2>3. QED
    BY <1>3, <2>1, <2>2 DEF RegInv, Bought
<1>8. Furnished'
  <2> SUFFICES ASSUME NEW v \in accounts, v # u
               PROVE  HasIcon(v)' /\ HasVector(v)'
    BY <1>5 DEF Furnished
  <2>1. HasIcon(v) /\ HasVector(v)
    BY DEF RegInv, Furnished
  <2>2. row'[v] = row[v]
    BY <1>3, <1>5 DEF RegInv, OwnIcons, Resource
  <2>3. \A q \in Proc : Registers(q, v) /\ pc[q] \in Entering => Registers(q, v)' /\ pc'[q] = pc[q]
    BY <1>2, <1>4 DEF Registers, Running, Entering
  <2>4. QED
    BY <1>3, <2>1, <2>2, <2>3 DEF HasIcon, HasVector, Entering
<1>9. QED
  BY <1>6, <1>7, <1>8 DEF RegInv

LEMMA StepRegistered == TypeInv /\ RegInv /\ [Next]_vars => RegInv'
<1> SUFFICES ASSUME TypeInv, RegInv, [Next]_vars PROVE RegInv'
  OBVIOUS
<1>1. CASE UNCHANGED vars \/ ChangeRights
  <2>1. UNCHANGED <<mailbox, codes, row, vectors, wasted, halfway, key, pc, req>>
    BY <1>1 DEF ChangeRights, vars, tables, locals, aux
  <2>2. QED
    BY <2>1 DEF RegInv, OwnKeys, OwnIcons, Bought, Furnished, HasIcon, HasVector, Registers,
                Running, accounts
<1>2. ASSUME NEW p \in Proc, NEW r \in Requests, Submit(p, r) PROVE RegInv'
  <2>1. Elsewhere(p)
    BY <1>2 DEF Submit, Elsewhere, Running, TypeInv, TypeOK, tables, locals, aux, Uploads
  <2>2. QED
    BY <2>1, StillRegistered
<1>3. ASSUME NEW p \in Proc, Verify(p) PROVE RegInv'
  <2>1. CASE Refuse(p)
    BY <2>1, EndsRegistered DEF Refuse
  <2>2. CASE ~Refuse(p)
    <3>1. PICK next \in {"authorise", "row", "delete"} :
            Goto(p, next) /\ pc[p] = "verify" /\ UNCHANGED <<tables, locals, aux>>
      BY <1>3, <2>2 DEF Verify
    <3>2. QED
      BY <3>1, GotoRegistered DEF Statement, Uploads, Spending, Entering, tables, locals, aux
  <2>3. QED
    BY <2>1, <2>2
<1>4. ASSUME NEW p \in Proc, Fail(p) PROVE RegInv'
  BY <1>4, EndsRegistered DEF Fail
<1>5. QED
  BY <1>1, <1>2, <1>3, <1>4, UploadRegistered, EncodeRegistered, DownloadRegistered,
     RegisterRegistered, DeleteRegistered DEF Next

(* Every spent code has bought an account, is on its way to, or is known   *)
(* to be wasted; every account has its icon's row and a vector, or its     *)
(* registration is under way or has failed (services/user.rs:152-192,      *)
(* logic/user.rs:46).                                                      *)
THEOREM RegistrationsAccounted == Spec => []RegistrationAccounted
<1>1. RegInv => RegistrationAccounted
  BY DEF RegInv, Bought, Furnished, HasIcon, HasVector, Registers, Entering,
         RegistrationAccounted
<1>2. QED
  BY <1>1, InitRegistered, FreshAlways, StepRegistered, PTL DEF Spec

-----------------------------------------------------------------------------
(* The files of icons: whoever writes there writes what the account has    *)
(* uploaded, and a row is entered for a file that holds nothing else, or   *)
(* by a registration that is about to write it.                            *)
Late == {"stat", "exists", "create"}
Own(u) == file[u] \ {"part"} \subseteq mine[u]
Writes(q, u) == pc[q] \in Uploads /\ key[q] = u
AboutToWrite(q, u) == Registers(q, u) /\ pc[q] = "write"

KeyGiven ==
  \A q \in Proc : pc[q] \in Uploads =>
    req[q].op = "upload" /\ (key[q] \in User => req[q].to = key[q])

NoRows == \A u \in User \ accounts : row[u] = NoRow

Held(u) ==
  /\ Default \in mine[u]
  /\ \A j \in jobs : j.res = u => j.c \in mine[u] /\ (j.on => Own(u))
  /\ \A q \in Proc : Writes(q, u) => req[q].c \in mine[u] /\ (pc[q] \in Late => Own(u))
  /\ row[u] # NoRow => Own(u) \/ u \in halfway \/ \E q \in Proc : AboutToWrite(q, u)

IconInv == KeyGiven /\ NoRows /\ \A u \in accounts \ haunted : Held(u)

LEMMA InitIcons == Init => IconInv
<1> SUFFICES ASSUME Init PROVE IconInv
  OBVIOUS
<1>1. accounts = Members /\ Members \subseteq User
  BY DEF Init, accounts, Members
<1>2. \A q \in Proc : pc[q] = "idle"
  BY DEF Init
<1>3. \A u \in Members : u \in Resource /\ file[u] = {Default} /\ mine[u] = {Default}
  BY <1>1 DEF Init, Resource
<1>4. \A u \in User \ Members : row[u] = NoRow
  BY DEF Init, Resource
<1>5. QED
  BY <1>1, <1>2, <1>3, <1>4 DEF Init, IconInv, KeyGiven, NoRows, Held, Own, Writes, Uploads

(* What leaves the files of icons alone. *)
SameJobs == \A j \in jobs' : \E i \in jobs : i.res = j.res /\ i.c = j.c /\ i.on = j.on

Apart(p) ==
  /\ \A q \in Proc \ {p} : pc'[q] = pc[q] /\ req'[q] = req[q] /\ key'[q] = key[q]
  /\ UNCHANGED <<mailbox, mine, haunted>> /\ halfway \subseteq halfway'
  /\ pc[p] = "write" /\ Running(p, "register") /\ req[p].by \in accounts => req[p].by \in halfway'

LEMMA ApartIcons ==
  ASSUME TypeInv, IconInv, NEW p \in Proc, Apart(p), UNCHANGED <<file, row>>, SameJobs,
         pc'[p] \in Uploads =>
           pc[p] \in Uploads /\ req'[p] = req[p] /\ key'[p] = key[p] /\ (pc'[p] \in Late => pc[p] \in Late)
  PROVE  IconInv'
<1>1. accounts' = accounts
  BY DEF accounts, Apart
<1>2. KeyGiven' /\ NoRows'
  BY <1>1 DEF IconInv, KeyGiven, NoRows, Apart
<1>3. ASSUME NEW u \in accounts \ haunted PROVE Held(u)'
  <2>1. Held(u) /\ mine' = mine /\ (Own(u)' <=> Own(u))
    BY DEF IconInv, Apart, Own
  <2>2. \A j \in jobs' : j.res = u => j.c \in mine[u] /\ (j.on => Own(u))
    BY <2>1 DEF Held, SameJobs
  <2>3. \A q \in Proc : Writes(q, u)' =>
          Writes(q, u) /\ req'[q] = req[q] /\ (pc'[q] \in Late => pc[q] \in Late)
    BY DEF Writes, Apart
  <2>4. \A q \in Proc : AboutToWrite(q, u) => AboutToWrite(q, u)' \/ u \in halfway'
    BY DEF AboutToWrite, Registers, Running, Apart
  <2>5. QED
    BY <2>1, <2>2, <2>3, <2>4 DEF Held, Apart
<1>4. QED
  BY <1>1, <1>2, <1>3 DEF IconInv, Apart

LEMMA EndsIcons ==
  ASSUME TypeInv, IconInv, NEW p \in Proc, Ends(p), file' = file, SameJobs
  PROVE  IconInv'
<1>1. Apart(p) /\ pc'[p] = "idle" /\ row' = row
  BY DEF Ends, Finish, Apart, TypeInv, TypeOK, tables, Entering
<1>2. QED
  BY <1>1, ApartIcons DEF Uploads

LEMMA GotoIcons ==
  ASSUME TypeInv, IconInv, NEW p \in Proc, NEW next \in Statement, Goto(p, next),
         UNCHANGED <<mailbox, mine, haunted, halfway, file, jobs, row>>,
         \A q \in Proc \ {p} : key'[q] = key[q],
         next \in Uploads => pc[p] \in Uploads /\ key'[p] = key[p] /\ (next \in Late => pc[p] \in Late),
         pc[p] # "write"
  PROVE  IconInv'
<1>1. /\ Apart(p) /\ SameJobs /\ pc'[p] = next /\ req'[p] = req[p]
  BY DEF Goto, Apart, SameJobs, TypeInv, TypeOK
<1>2. QED
  BY <1>1, ApartIcons

LEMMA UploadIcons ==
  ASSUME TypeInv, RegInv, IconInv, NEW p \in Proc, Upload(p)
  PROVE  IconInv'
<1>1. /\ pc[p] # "idle" /\ req[p] \in Request /\ req[p].op = "upload" /\ req[p].by \in User
      /\ req[p].c \in Content
  BY BusyRequest, RequestFields DEF Upload, Running, TypeInv
<1>2. CASE Refuse(p)
  BY <1>2, EndsIcons DEF Refuse, disk, SameJobs
<1>3. CASE Authorise(p) /\ ~Refuse(p)
  <2>1. PICK k \in NewKeys(req[p]) : key' = [key EXCEPT ![p] = k]
    BY <1>3 DEF Authorise
  <2>2. /\ MayUpload(req[p]) /\ pc[p] = "authorise" /\ Goto(p, "receive")
        /\ UNCHANGED <<mailbox, row, file, jobs, halfway, haunted>>
        /\ mine' = [mine EXCEPT ![req[p].by] = @ \cup {req[p].c}]
    BY <1>3 DEF Authorise, tables, disk
  <2>3. k \in User => req[p].by = k /\ req[p].to = k
    BY <2>2, KeysDiffer DEF MayUpload, NewKeys, Space
  <2>4. accounts' = accounts /\ accounts \subseteq User
    BY <2>2 DEF accounts
  <2>5. /\ pc'[p] = "receive" /\ key'[p] = k /\ req' = req
        /\ \A q \in Proc \ {p} : pc'[q] = pc[q] /\ key'[q] = key[q]
    BY <2>1, <2>2 DEF Goto, TypeInv, TypeOK
  <2>6. KeyGiven' /\ NoRows'
    BY <1>1, <2>2, <2>3, <2>4, <2>5 DEF IconInv, KeyGiven, NoRows
  <2>7. ASSUME NEW u \in accounts \ haunted PROVE Held(u)'
    <3>1. Held(u) /\ mine[u] \subseteq mine'[u] /\ (Own(u) => Own(u)')
      BY <2>2, <2>4 DEF IconInv, Own, TypeInv, TypeOK
    <3>2. k = u => req[p].c \in mine'[u]
      BY <2>2, <2>3, <2>4 DEF TypeInv, TypeOK
    <3>3. \A q \in Proc : AboutToWrite(q, u) => AboutToWrite(q, u)'
      BY <2>2, <2>5 DEF AboutToWrite, Registers, Running
    <3>4. QED
      BY <2>2, <2>5, <3>1, <3>2, <3>3 DEF Held, Writes, Late
  <2>8. QED
    BY <2>2, <2>4, <2>6, <2>7 DEF IconInv
<1>4. CASE Receive(p) /\ ~Refuse(p)
  <2> DEFINE new == [res |-> key[p], c |-> req[p].c, for |-> p, on |-> FALSE]
  <2>1. /\ pc[p] = "receive" /\ Goto(p, "encoding") /\ jobs' = jobs \cup {new}
        /\ UNCHANGED <<mailbox, row, file, halfway, haunted, mine, key>>
    BY <1>4 DEF Receive, AfterSpawn, tables, locals, aux
  <2>2. accounts' = accounts
    BY <2>1 DEF accounts
  <2>3. req' = req /\ \A q \in Proc : pc'[q] = pc[q] \/ (q = p /\ pc'[q] = "encoding")
    BY <2>1 DEF Goto, TypeInv, TypeOK
  <2>4. \A q \in Proc : /\ pc'[q] \in Uploads => pc[q] \in Uploads
                        /\ pc'[q] \in Late => pc[q] \in Late
                        /\ pc[q] = "write" => pc'[q] = pc[q]
    BY <2>1, <2>3 DEF Uploads, Late
  <2>5. KeyGiven' /\ NoRows'
    BY <2>1, <2>2, <2>3, <2>4 DEF IconInv, KeyGiven, NoRows
  <2>6. ASSUME NEW u \in accounts \ haunted PROVE Held(u)'
    <3>1. Held(u) /\ (Own(u)' <=> Own(u))
      BY <2>1 DEF IconInv, Own
    <3>2. new.res = u => new.c \in mine[u] /\ ~new.on
      BY <2>1, <3>1 DEF Held, Writes, Uploads
    <3>3. \A q \in Proc : AboutToWrite(q, u) => AboutToWrite(q, u)'
      BY <2>3, <2>4 DEF AboutToWrite, Registers, Running
    <3> HIDE DEF new
    <3>4. QED
      BY <2>1, <2>3, <2>4, <3>1, <3>2, <3>3 DEF Held, Writes
  <2>7. QED
    BY <2>1, <2>2, <2>5, <2>6 DEF IconInv
<1>5. CASE (Stat(p) \/ Exists(p)) /\ ~Refuse(p)
  <2>1. PICK next \in {"exists", "create"} :
          /\ Goto(p, next) /\ pc[p] \in {"stat", "exists"}
          /\ UNCHANGED <<mailbox, row, file, jobs, halfway, haunted, mine, key>>
    BY <1>5 DEF Stat, Exists, tables, disk, locals, aux
  <2>2. QED
    BY <2>1, GotoIcons DEF Statement, Uploads, Late
<1>6. CASE Create(p) /\ ~Refuse(p)
  <2>1. /\ pc[p] = "create" /\ Finish(p) /\ req[p].by \in accounts
        /\ UNCHANGED <<mailbox, file, jobs, halfway, haunted, mine>>
        /\ \A r \in Resource : r # key[p] => row'[r] = row[r]
    BY <1>6 DEF Create, disk, TypeInv, TypeOK
  <2>2. accounts' = accounts /\ accounts \subseteq User /\ User \subseteq Resource
    BY <2>1 DEF accounts, Resource
  <2>3. pc'[p] = "idle" /\ \A q \in Proc \ {p} : pc'[q] = pc[q] /\ req'[q] = req[q] /\ key'[q] = key[q]
    BY <2>1 DEF Finish, TypeInv, TypeOK
  <2>4. key[p] \in User => key[p] \in accounts
    BY <2>1 DEF RegInv, OwnKeys, Uploads
  <2>5. KeyGiven' /\ NoRows'
    BY <2>1, <2>2, <2>3, <2>4 DEF IconInv, KeyGiven, NoRows, Uploads
  <2>6. ASSUME NEW u \in accounts \ haunted PROVE Held(u)'
    <3>1. Held(u) /\ (Own(u)' <=> Own(u))
      BY <2>1 DEF IconInv, Own
    <3>2. key[p] = u => Own(u)
      BY <2>1, <3>1 DEF Held, Writes, Late, Uploads
    <3>3. row'[u] = row[u] \/ Own(u)
      BY <2>1, <2>2, <3>2
    <3>4. \A q \in Proc : AboutToWrite(q, u) => AboutToWrite(q, u)'
      BY <2>1, <2>3 DEF AboutToWrite, Registers, Running
    <3>5. \A q \in Proc : Writes(q, u)' => Writes(q, u) /\ req'[q] = req[q] /\ pc'[q] = pc[q]
      BY <2>3 DEF Writes, Uploads
    <3>6. QED
      BY <2>1, <3>1, <3>3, <3>4, <3>5 DEF Held
  <2>7. QED
    BY <2>1, <2>2, <2>5, <2>6 DEF IconInv
<1>7. QED
  BY <1>2, <1>3, <1>4, <1>5, <1>6 DEF Upload

LEMMA EncodeIcons ==
  ASSUME TypeInv, FreshInv, IconInv, Encode
  PROVE  IconInv'
<1>1. PICK j \in jobs : Open(j) \/ Encoded(j) \/ EncoderFails(j)
  BY DEF Encode
<1>2. /\ j \in Job /\ j.res \in Resource
      /\ j.for # Orphan => j.for \in Proc /\ pc[j.for] = "encoding" /\ key[j.for] = j.res
  BY DEF TypeInv, TypeOK, Job, FreshInv, JobsInv
<1>3. CASE EncoderFails(j) /\ j.for # Orphan
  BY <1>2, <1>3, EndsIcons DEF EncoderFails, SameJobs
<1>4. CASE Open(j) \/ Encoded(j) \/ (EncoderFails(j) /\ j.for = Orphan)
  <2>1. UNCHANGED <<mailbox, row, halfway, haunted, mine, key, req>>
    BY <1>4 DEF Open, Encoded, EncoderFails, tables, locals, aux
  <2>2. /\ accounts' = accounts /\ accounts \subseteq User /\ User \subseteq Resource
    BY <2>1 DEF accounts, Resource
  <2>3. \A q \in Proc : \/ pc'[q] = pc[q]
                        \/ pc[q] = "encoding" /\ pc'[q] = "stat" /\ key[q] = j.res /\ Encoded(j)
    BY <1>2, <1>4 DEF Open, Encoded, EncoderFails, TypeInv, TypeOK
  <2>4. KeyGiven' /\ NoRows'
    BY <2>1, <2>2, <2>3 DEF IconInv, KeyGiven, NoRows, Uploads
  <2>5. ASSUME NEW u \in accounts \ haunted PROVE Held(u)'
    <3>1. Held(u) /\ u \in Resource
      BY <2>2 DEF IconInv
    <3>2. Own(u) => Own(u)'
      BY <1>2, <1>4, <2>1, <2>2, <3>1
      DEF Open, Encoded, EncoderFails, Over, Own, Held, TypeInv, TypeOK
    <3>3. Encoded(j) /\ j.res = u => Own(u)
      BY <3>1 DEF Encoded, Held
    <3>4. Open(j) /\ j.res = u => Own(u)'
      BY <2>1, <3>1 DEF Open, Own, TypeInv, TypeOK
    <3>5. \A i \in jobs' : i.res = u => i.c \in mine[u] /\ (i.on => Own(u)')
      <4>1. CASE Open(j)
        <5> DEFINE on == [j EXCEPT !.on = TRUE]
        <5>1. on.res = j.res /\ on.c = j.c
          BY <1>2 DEF Job
        <5> HIDE DEF on
        <5>2. jobs' = (jobs \ {j}) \cup {on}
          BY <4>1 DEF Open, on
        <5>3. QED
          BY <3>1, <3>2, <3>4, <4>1, <5>1, <5>2 DEF Held
      <4>2. CASE Encoded(j) \/ EncoderFails(j)
        BY <3>1, <3>2, <4>2 DEF Held, Encoded, EncoderFails
      <4>3. QED
        BY <1>4, <4>1, <4>2
    <3>6. \A q \in Proc : Writes(q, u)' =>
            req[q].c \in mine[u] /\ (pc'[q] \in Late => Own(u)')
      <4> SUFFICES ASSUME NEW q \in Proc, Writes(q, u)'
                   PROVE  req[q].c \in mine[u] /\ (pc'[q] \in Late => Own(u)')
        OBVIOUS
      <4>1. Writes(q, u)
        BY <2>1, <2>3 DEF Writes, Uploads
      <4>2. req[q].c \in mine[u] /\ (pc[q] \in Late => Own(u))
        BY <3>1, <4>1 DEF Held
      <4>3. pc'[q] = pc[q] \/ Own(u)
        BY <2>3, <3>3, <4>1 DEF Writes
      <4>4. QED
        BY <3>2, <4>2, <4>3
    <3>7. \A q \in Proc : AboutToWrite(q, u) => AboutToWrite(q, u)'
      BY <2>1, <2>3 DEF AboutToWrite, Registers, Running
    <3>8. QED
      BY <2>1, <3>1, <3>2, <3>5, <3>6, <3>7 DEF Held
  <2>6. QED
    BY <2>1, <2>2, <2>4, <2>5 DEF IconInv
<1>5. QED
  BY <1>1, <1>3, <1>4

LEMMA DownloadIcons ==
  ASSUME TypeInv, IconInv, NEW p \in Proc, Download(p)
  PROVE  IconInv'
<1>1. CASE Refuse(p)
  BY <1>1, EndsIcons DEF Refuse, disk, SameJobs
<1>2. CASE ~Refuse(p)
  <2>1. PICK next \in Downloads :
          /\ Goto(p, next) /\ pc[p] \in Downloads \cup {"row"}
          /\ UNCHANGED <<mailbox, mine, haunted, halfway, file, jobs, row>>
          /\ \A q \in Proc \ {p} : key'[q] = key[q]
    BY <1>2 DEF Download, ReadRow, CheckMember, Stream, Downloads, TypeInv, TypeOK, tables,
                disk, locals, aux
  <2>2. QED
    BY <2>1, GotoIcons DEF Statement, Uploads, Downloads
<1>3. QED
  BY <1>1, <1>2

(* A new account finds neither a row nor a writer, or is haunted. *)
LEMMA InsertUserIcons ==
  ASSUME TypeInv, IconInv, NEW p \in Proc, Running(p, "register"), InsertUser(p), ~Refuse(p)
  PROVE  IconInv'
<1> DEFINE r == req[p]
           old == \/ \E j \in jobs : j.res = r.by
                  \/ \E q \in Proc : Running(q, "upload") /\ req[q].to = r.by
<1>1. r.by \in User /\ r.email \in Email
  BY BusyRequest, RequestFields DEF Running, TypeInv
<1>2. /\ pc[p] = "user" /\ Goto(p, "icon") /\ r.by \notin accounts
      /\ mailbox' = [mailbox EXCEPT ![r.by] = r.email]
      /\ mine' = [mine EXCEPT ![r.by] = {Default}]
      /\ haunted' = IF old THEN haunted \cup {r.by} ELSE haunted
      /\ UNCHANGED <<row, file, jobs, key, halfway>>
  BY DEF InsertUser, Taken, disk, locals
<1>3. /\ req' = req
      /\ \A q \in Proc : pc'[q] = pc[q] \/ (q = p /\ pc'[q] = "icon")
  BY <1>2 DEF Goto, TypeInv, TypeOK
<1>4. accounts' = accounts \cup {r.by} /\ accounts \subseteq User
  BY <1>1, <1>2, NoEmailIsNone DEF accounts, TypeInv, TypeOK
<1>5. KeyGiven' /\ NoRows'
  BY <1>2, <1>3, <1>4 DEF IconInv, KeyGiven, NoRows, Uploads
<1>6. ASSUME NEW u \in accounts', u \notin haunted', u = r.by PROVE Held(u)'
  <2>1. ~old
    BY <1>2, <1>6
  <2>2. mine'[u] = {Default} /\ row[u] = NoRow
    BY <1>1, <1>2, <1>6 DEF IconInv, NoRows, TypeInv, TypeOK
  <2>3. \A q \in Proc : ~Writes(q, u)
    BY <1>1, <1>6, <2>1 DEF IconInv, KeyGiven, Writes, Running, Uploads
  <2>4. \A q \in Proc : ~Writes(q, u)'
    BY <1>2, <1>3, <2>3 DEF Writes, Uploads
  <2>5. QED
    BY <1>2, <1>6, <2>1, <2>2, <2>4 DEF Held
<1>7. ASSUME NEW u \in accounts', u \notin haunted', u # r.by PROVE Held(u)'
  <2>1. Held(u) /\ u \in User
    BY <1>2, <1>4, <1>7 DEF IconInv
  <2>2. mine'[u] = mine[u] /\ (Own(u)' <=> Own(u))
    BY <1>2, <1>7, <2>1 DEF Own, TypeInv, TypeOK
  <2>3. \A q \in Proc : Writes(q, u)' => Writes(q, u) /\ pc'[q] = pc[q]
    BY <1>2, <1>3 DEF Writes, Uploads
  <2>4. \A q \in Proc : AboutToWrite(q, u) => AboutToWrite(q, u)'
    BY <1>2, <1>3 DEF AboutToWrite, Registers, Running
  <2> HIDE DEF r, old
  <2>5. QED
    BY <1>2, <1>3, <2>1, <2>2, <2>3, <2>4 DEF Held
<1>8. QED
  BY <1>5, <1>6, <1>7 DEF IconInv

LEMMA RegisterIcons ==
  ASSUME TypeInv, IconInv, NEW p \in Proc, Register(p)
  PROVE  IconInv'
<1> DEFINE r == req[p]
<1>1. pc[p] # "idle" /\ r.op = "register" /\ r.by \in User /\ Running(p, "register")
  BY BusyRequest, RequestFields DEF Register, Running, TypeInv
<1>2. CASE Refuse(p)
  BY <1>2, EndsIcons DEF Refuse, disk, SameJobs
<1>3. CASE (SpendCode(p) \/ CheckSettings(p)) /\ ~Refuse(p)
  <2>1. PICK next \in {"settings", "user"} :
          /\ Goto(p, next) /\ pc[p] \in {"code", "settings"}
          /\ UNCHANGED <<mailbox, mine, haunted, halfway, file, jobs, row, key>>
    BY <1>3 DEF SpendCode, CheckSettings, tables, disk, locals, aux
  <2>2. QED
    BY <2>1, GotoIcons DEF Statement, Uploads
<1>4. CASE InsertUser(p) /\ ~Refuse(p)
  BY <1>1, <1>4, InsertUserIcons
<1>5. CASE InsertIcon(p) /\ ~Refuse(p)
  <2>1. /\ pc[p] = "icon" /\ Goto(p, "write") /\ r.by \in accounts
        /\ \A v \in User : v # r.by => row'[v] = row[v]
        /\ UNCHANGED <<mailbox, mine, haunted, halfway, file, jobs, key>>
    BY <1>5 DEF InsertIcon, disk, locals, aux, TypeInv, TypeOK, Resource
  <2>2. /\ req' = req /\ pc'[p] = "write"
        /\ \A q \in Proc : pc'[q] = pc[q] \/ q = p
    BY <2>1 DEF Goto, TypeInv, TypeOK
  <2>3. accounts' = accounts /\ accounts \subseteq User
    BY <2>1 DEF accounts
  <2>4. KeyGiven' /\ NoRows'
    BY <2>1, <2>2, <2>3 DEF IconInv, KeyGiven, NoRows, Uploads
  <2>5. ASSUME NEW u \in accounts \ haunted PROVE Held(u)'
    <3>1. Held(u) /\ u \in User /\ (Own(u)' <=> Own(u))
      BY <2>1, <2>3 DEF IconInv, Own
    <3>2. \A q \in Proc : Writes(q, u)' => Writes(q, u) /\ pc'[q] = pc[q]
      BY <2>1, <2>2 DEF Writes, Uploads
    <3>3. \A q \in Proc : AboutToWrite(q, u) => AboutToWrite(q, u)'
      BY <2>1, <2>2 DEF AboutToWrite, Registers, Running
    <3>4. u = r.by => AboutToWrite(p, u)'
      BY <1>1, <2>2 DEF AboutToWrite, Registers, Running
    <3> HIDE DEF r
    <3>5. u = r.by \/ row'[u] = row[u]
      BY <2>1, <3>1
    <3>6. QED
      BY <2>1, <2>2, <3>1, <3>2, <3>3, <3>4, <3>5 DEF Held
  <2>6. QED
    BY <2>1, <2>3, <2>4, <2>5 DEF IconInv
<1>6. CASE WriteIcon(p)
  <2>1. PICK next \in {"written", "vector"} :
          /\ Goto(p, next) /\ pc[p] \in {"write", "written"}
          /\ next = "written" <=> pc[p] = "write"
          /\ UNCHANGED <<mailbox, mine, haunted, halfway, row, jobs, key>>
    BY <1>6 DEF WriteIcon, tables, locals, aux
  <2>2. /\ req' = req /\ pc'[p] = next
        /\ \A q \in Proc : pc'[q] = pc[q] \/ q = p
    BY <2>1 DEF Goto, TypeInv, TypeOK
  <2>3. accounts' = accounts /\ accounts \subseteq User
    BY <2>1 DEF accounts
  <2>4. KeyGiven' /\ NoRows'
    BY <2>1, <2>2, <2>3 DEF IconInv, KeyGiven, NoRows, Uploads
  <2>5. ASSUME NEW u \in accounts \ haunted PROVE Held(u)'
    <3>1. Held(u) /\ u \in Resource
      BY <2>3 DEF IconInv, Resource
    <3>2. u # r.by => file'[u] = file[u]
      BY <1>6, <3>1 DEF WriteIcon, TypeInv, TypeOK
    <3>3. pc[p] = "write" /\ u = r.by => file'[u] = {"part"}
      BY <1>6, <3>1 DEF WriteIcon, TypeInv, TypeOK
    <3>4. pc[p] = "written" /\ u = r.by =>
            file'[u] = {Default} \/ file'[u] = (file[u] \ {"part"}) \cup {Default}
      BY <1>6, <3>1 DEF WriteIcon, Over, TypeInv, TypeOK
    <3>5. (Own(u) => Own(u)') /\ (pc[p] = "write" /\ u = r.by => Own(u)')
      BY <2>1, <3>1, <3>2, <3>3, <3>4 DEF Own, Held
    <3>6. \A q \in Proc : Writes(q, u)' => Writes(q, u) /\ pc'[q] = pc[q]
      BY <2>1, <2>2 DEF Writes, Uploads
    <3>7. \A q \in Proc : AboutToWrite(q, u) => AboutToWrite(q, u)' \/ Own(u)'
      BY <2>1, <2>2, <3>5 DEF AboutToWrite, Registers, Running
    <3>8. QED
      BY <2>1, <2>2, <3>1, <3>5, <3>6, <3>7 DEF Held
  <2>6. QED
    BY <2>1, <2>3, <2>4, <2>5 DEF IconInv
<1>7. CASE InitVector(p)
  <2>1. /\ pc[p] = "vector" /\ Finish(p)
        /\ UNCHANGED <<mailbox, mine, haunted, halfway, file, jobs, row>>
    BY <1>7 DEF InitVector, disk
  <2>2. Apart(p) /\ SameJobs /\ pc'[p] = "idle"
    BY <2>1 DEF Finish, Apart, SameJobs, TypeInv, TypeOK
  <2>3. QED
    BY <2>1, <2>2, ApartIcons DEF Uploads
<1>8. QED
  BY <1>2, <1>3, <1>4, <1>5, <1>6, <1>7 DEF Register

LEMMA DeleteIcons ==
  ASSUME TypeInv, RegInv, IconInv, NEW p \in Proc, Delete(p)
  PROVE  IconInv'
<1>1. PICK u : u = req[p].by
  OBVIOUS
<1>2. u \in User /\ pc[p] = "delete"
  BY <1>1, BusyRequest, RequestFields DEF Delete, Running, TypeInv
<1>3. /\ \A v \in User : /\ mailbox'[v] = IF v = u THEN NoEmail ELSE mailbox[v]
                         /\ v # u => mine'[v] = mine[v]
      /\ \A x \in Resource : row'[x] = IF row[x] # NoRow /\ row[x].by = u THEN NoRow ELSE row[x]
      /\ halfway' = halfway \ {u} /\ haunted' = haunted \ {u}
      /\ UNCHANGED <<file, jobs, key>>
  BY <1>1 DEF Delete, TypeInv, TypeOK, locals, disk
<1>4. /\ \A q \in Proc : q # p => pc'[q] = pc[q] /\ req'[q] = req[q]
      /\ pc'[p] = "idle"
  BY <1>2 DEF Delete, TypeInv, TypeOK
<1>5. accounts' = accounts \ {u} /\ accounts \subseteq User /\ User \subseteq Resource
  BY <1>3 DEF accounts, Resource
<1>6. KeyGiven'
  BY <1>3, <1>4 DEF IconInv, KeyGiven, Uploads
<1>7. NoRows'
  BY <1>3, <1>5 DEF IconInv, NoRows, RegInv, OwnIcons
<1>8. ASSUME NEW v \in accounts \ haunted, v # u PROVE Held(v)'
  <2>1. Held(v) /\ row'[v] = row[v] /\ mine'[v] = mine[v] /\ (Own(v)' <=> Own(v))
    BY <1>3, <1>5, <1>8 DEF IconInv, RegInv, OwnIcons, Own
  <2>2. \A q \in Proc : Writes(q, v)' => Writes(q, v) /\ pc'[q] = pc[q] /\ req'[q] = req[q]
    BY <1>3, <1>4 DEF Writes, Uploads
  <2>3. \A q \in Proc : AboutToWrite(q, v) => AboutToWrite(q, v)'
    BY <1>2, <1>4 DEF AboutToWrite, Registers, Running
  <2>4. QED
    BY <1>3, <1>8, <2>1, <2>2, <2>3 DEF Held
<1>9. QED
  BY <1>3, <1>5, <1>6, <1>7, <1>8 DEF IconInv

LEMMA StepIcons == TypeInv /\ FreshInv /\ RegInv /\ IconInv /\ [Next]_vars => IconInv'
<1> SUFFICES ASSUME TypeInv, FreshInv, RegInv, IconInv, [Next]_vars PROVE IconInv'
  OBVIOUS
<1>1. CASE UNCHANGED vars \/ ChangeRights
  <2>1. UNCHANGED <<mailbox, row, file, jobs, key, pc, req, mine, halfway, haunted>>
    BY <1>1 DEF ChangeRights, vars, tables, disk, locals, aux
  <2>2. QED
    BY <2>1 DEF IconInv, KeyGiven, NoRows, Held, Own, Writes, AboutToWrite, Registers, Running,
                accounts
<1>2. ASSUME NEW p \in Proc, NEW r \in Requests, Submit(p, r) PROVE IconInv'
  <2>1. /\ Apart(p) /\ SameJobs /\ UNCHANGED <<file, row>> /\ pc'[p] \in {"code", "verify"}
    BY <1>2 DEF Submit, Apart, SameJobs, TypeInv, TypeOK, tables, disk, locals, aux
  <2>2. QED
    BY <2>1, ApartIcons DEF Uploads
<1>3. ASSUME NEW p \in Proc, Verify(p) PROVE IconInv'
  <2>1. CASE Refuse(p)
    BY <2>1, EndsIcons DEF Refuse, disk, SameJobs
  <2>2. CASE ~Refuse(p)
    <3>1. PICK next \in {"authorise", "row", "delete"} :
            Goto(p, next) /\ pc[p] = "verify" /\ UNCHANGED <<tables, disk, locals, aux>>
      BY <1>3, <2>2 DEF Verify
    <3>2. QED
      BY <3>1, GotoIcons DEF Statement, Uploads, tables, disk, locals, aux
  <2>3. QED
    BY <2>1, <2>2
<1>4. ASSUME NEW p \in Proc, Fail(p) PROVE IconInv'
  <2>1. SameJobs
    BY <1>4 DEF Fail, SameJobs, TypeInv, TypeOK, Job
  <2>2. QED
    BY <1>4, <2>1, EndsIcons DEF Fail
<1>5. QED
  BY <1>1, <1>2, <1>3, <1>4, UploadIcons, EncodeIcons, DownloadIcons, RegisterIcons, DeleteIcons
  DEF Next

(* The icon of an account holds nothing but what the account has uploaded  *)
(* or the default, unless its registration is between the row and the file *)
(* or failed there, or an upload of a former account outlived it           *)
(* (logic/user.rs:62-78, services/resource.rs:115).                        *)
THEOREM IconsAreOwn == Spec => []IconIsOwn
<1>1. IconInv => IconIsOwn
  BY DEF IconInv, Held, Own, AboutToWrite, Registers, IconIsOwn
<1>2. QED
  BY <1>1, InitIcons, InitRegistered, FreshAlways, StepRegistered, StepIcons, PTL DEF Spec
=============================================================================
