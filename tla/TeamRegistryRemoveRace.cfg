SPECIFICATION Spec
CONSTANTS
  Account = {alice, bob, carol}
  Team = {t1}
  Request = {r1, r2}
  Ops <- OpsAddRemove
  NoAccount = NoAccount
SYMMETRY Symmetry
PROPERTY RemoveKeepsAnAdmin
