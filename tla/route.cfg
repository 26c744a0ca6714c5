SPECIFICATION FairSpec

CONSTANTS
  None = None
  Services = {"app", "n37"}
  OldName <- ShortOld
  NewName <- ShortNew
  NameLength <- Length
  NamespaceLength = 20
  Certificates = {custom}
  Disturbances = {"fault", "router", "tls", "drift", "create", "delete", "crash"}
  MaxDisturbances = 2

INVARIANTS
  TypeOK
  RestIsReported
PROPERTIES
  TlsIsTheUsers
  UriSettles

CHECK_DEADLOCK FALSE
