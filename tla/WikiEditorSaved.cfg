SPECIFICATION Spec
CONSTANTS
  Slug = {home, notes}
  Text = {Empty, hello}
  Empty = Empty
  Call = {c1, c2}
  MaxClicks = 3
  Nil = Nil
CHECK_DEADLOCK FALSE
INVARIANT SavedIsPersisted
