SPECIFICATION Spec

CONSTANTS
  None = None
  Labels <- SomeLabels
  Registries <- SomeRegistries
  Proxies <- SomeProxies
  NoProxies <- SomeNoProxies
  Bytes <- SomeBytes
  Keys <- SomeKeys
  Values <- SomeValues

INVARIANTS
  PortsAreExplicit
  EgressReachesRegistry
PROPERTIES
  ChecksumNotices
