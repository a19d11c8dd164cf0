SPECIFICATION Spec
CONSTANTS
  Account = {alice}
  Ident = {home}
  Text = {t1, t2}
  Blob = {b1, b2, b3}
  Request = {r1, r2}
  Op <- AllOp
  WalrusFaithful = FALSE
  Nil = Nil
SYMMETRY Symmetry
INVARIANTS TypeOK PointersResolve
PROPERTY ImplementsRegister
