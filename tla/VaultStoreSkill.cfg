SPECIFICATION Spec
CONSTANTS
  Account = {alice}
  Ident = {home}
  Text = {t1}
  Blob = {b1}
  Request = {r1}
  Op <- Skills
  WalrusFaithful = TRUE
  Nil = Nil
SYMMETRY Symmetry
INVARIANT StoredEntriesDecrypt
