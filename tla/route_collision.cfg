SPECIFICATION Spec

CONSTANTS
  None = None
  Services = {"app", "app-policy-engine"}
  OldName <- TwoOld
  NewName <- TwoNew
  NameLength <- Length
  NamespaceLength = 20
  Certificates = {custom}
  Disturbances = {}
  MaxDisturbances = 0

INVARIANTS
  UriExposesOwnEngine

CHECK_DEADLOCK FALSE
