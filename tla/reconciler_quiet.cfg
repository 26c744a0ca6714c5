SPECIFICATION UnretriedSpec

CONSTANTS
  None = None
  Foreign = Foreign
  r1 = r1
  r2 = r2
  noSlash = noSlash
  digest1 = digest1
  tag1 = tag1
  ps1 = ps1
  ps2 = ps2
  ca1 = ca1
  ca2 = ca2
  Malformed = {noSlash}
  Pinned = {digest1}
  Secrets = {ps1, ps2}
  Certs = {ca1, ca2}
  Specs <- TwoSpecs
  ProxySet = TRUE
  InitSources <- PlainSources
  Requests = {"valid"}
  Disturbances = {"edit", "fault", "drift", "source", "crash"}
  DeploymentEdits = {"delete", "scale", "mounts", "removeInit", "addInit", "removeContainer", "addContainer"}
  MaxDisturbances = 2
  MaxUid = 1
  CollectInOrder = TRUE
  Lagging = {"pullSecret"}

INVARIANTS
  RetriedMeansInSync
  RetriedMeansTold
