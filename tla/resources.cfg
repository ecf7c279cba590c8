SPECIFICATION Spec
CONSTANTS
  u1 = u1
  u2 = u2
  e1 = e1
  e2 = e2
  e3 = e3
  c1 = c1
  c2 = c2
  f1 = f1
  f2 = f2
  p1 = p1
  p2 = p2
  p3 = p3
  Proc = {p1, p2}
  User = {u1, u2}
  Email = {e1, e2, e3}
  Fresh = {f1, f2}
  Content = {c1, c2}
  Mailboxes <- MCMailboxes
  PostAuthor = u1
  Perms = {"read"}
  Requests <- MCRequests
  MaxRequests = 3
INVARIANTS TypeOK FreshRowDescribesFile IconIsOwn DownloadsWhole RegistrationAccounted
PROPERTIES UploadsAuthorised StoreSpec
CHECK_DEADLOCK FALSE
