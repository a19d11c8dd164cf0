SPECIFICATION Spec
CONSTANTS
  Slug = {home, notes}
  Text = {Empty, hello}
  Empty = Empty
  Call = {c1, c2, c3}
  MaxClicks = 5
  Nil = Nil
CHECK_DEADLOCK FALSE
INVARIANTS TypeOK OneSave EditorOwnsVersions
PROPERTY Settles
