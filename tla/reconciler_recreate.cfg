SPECIFICATION Spec

CONSTANTS
  None = None
  Foreign = Foreign
  r1 = r1
  r2 = r2
  noSlash = noSlash
  digest1 = digest1
  tag1 = tag1
  ps1 = ps1
  ps2 = ps2
  ca1 = ca1
  ca2 = ca2
  Malformed = {noSlash}
  Pinned = {digest1}
  Secrets = {ps1, ps2}
  Certs = {ca1, ca2}
  Specs <- TwoSpecs
  ProxySet = FALSE
  InitSources <- PlainSources
  Requests = {"valid"}
  Disturbances = {"delete", "edit", "drift"}
  DeploymentEdits = {"delete", "scale", "mounts", "removeInit", "addInit", "removeContainer", "addContainer"}
  MaxDisturbances = 1
  MaxUid = 2
  CollectInOrder = TRUE
  Lagging = {"route"}

INVARIANTS
  QuietMeansInSync
PROPERTIES
  StatusFromCurrentSpec

CHECK_DEADLOCK FALSE
