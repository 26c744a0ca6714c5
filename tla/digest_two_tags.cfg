SPECIFICATION Spec

CONSTANTS
  None = None
  Services = {s1, s2}
  Tags = {t1, t2}
  Pinned = {p1}
  SleepOutlasts = FALSE
  Disturbances = {}
  MaxDisturbances = 0

INVARIANTS
  NoteOfOwnImage

SYMMETRY Symmetry
