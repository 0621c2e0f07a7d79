SPECIFICATION Spec
CONSTANTS
  r1 = r1
  r2 = r2
  r3 = r3
  r4 = r4
  u1 = u1
  u2 = u2
  Runs = {r1, r2, r4}
  Uploads = {u1, u2}
  UploadOf <- MCUploadOf
  Size <- MCSize
  Member <- MCMember
  CHUNK = 2
  None = None
CHECK_DEADLOCK FALSE
INVARIANT
  NoDuplicates
