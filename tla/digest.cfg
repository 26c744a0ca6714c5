SPECIFICATION FairSpec

CONSTANTS
  None = None
  Services = {s1, s2}
  Tags = {t1}
  Pinned = {p1}
  SleepOutlasts = TRUE
  Disturbances = {"fault", "podFailure", "drift", "push", "edit", "delete", "crash"}
  MaxDisturbances = 3

INVARIANTS
  TypeOK
  DigestsInOrder
PROPERTIES
  NoteNeverGoesBack
  AnnotatedInOrder
  PushReachesDeployment

CHECK_DEADLOCK FALSE
