SPECIFICATION SISpec
CONSTANTS
  Tab = {t1, t2}
  Account = {alice, bob}
  Token = {k1, k2}
  None = None
INVARIANTS SITypeOK SignedByItsAccount ShowsItsOwnKey
PROPERTY NothingHangs
