SPECIFICATION Spec
CONSTANTS
  Account = {alice}
  Team = {t1}
  Nonce = {n1}
  Session = {s1, s2}
  Request = {r1, r2}
  UserScope = user
  ChallengeTTL = 2
  SessionTTL = 1
  MaxTime = 2
  Nil = Nil
SYMMETRY Symmetry
INVARIANT ChallengeSingleUse
