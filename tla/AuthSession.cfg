SPECIFICATION Spec
CONSTANTS
  Account = {alice}
  Team = {t1}
  Nonce = {n1, n2}
  Session = {s1, s2, s3}
  Request = {r1, r2}
  UserScope = user
  ChallengeTTL = 1
  SessionTTL = 1
  MaxTime = 2
  Nil = Nil
SYMMETRY Symmetry
INVARIANTS TypeOK EverySessionSpentAChallenge ReplayNeedsOverlap
PROPERTY AuthorisedOnlyLive
