\* Two requests at once, two identities, two uploads, one or two connections.
CONSTANTS
  Requests = {r1, r2}
  Names = {ann, bob}
  Jobs = {j1, j2}
  Nobody = Nobody
  MaxPool = 2
SPECIFICATION FairSpec
INVARIANT TypeOK
INVARIANT FilesMatchRows
PROPERTY LockAndPoolComeFree
