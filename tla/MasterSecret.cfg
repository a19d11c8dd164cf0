SPECIFICATION Spec
CONSTANTS
  Secret = {k1, k2, k3}
  Team = {t1, t2}
  Blob = {b1, b2}
  Request = {r1, r2}
  Nil = Nil
INVARIANTS TypeOK FileIsWhole BlobsOutliveRestarts ReadsOwnTeam
PROPERTY LockIsPassedOn
