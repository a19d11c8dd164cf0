SPECIFICATION Spec
CONSTANTS
  Account = {alice, bob, carol}
  Team = {t1}
  Request = {r1, r2}
  Ops <- AllOps
  NoAccount = NoAccount
SYMMETRY Symmetry
INVARIANTS TypeOK OneCreate
PROPERTY EntersByInvitation
