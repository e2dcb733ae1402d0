SPECIFICATION ServerFairSpec
CONSTANTS
  None = None
  c1 = c1  c2 = c2  c3 = c3  r1 = r1  r2 = r2  url = url
  Call = {c1}
  Request = {r1, r2}
  Namespace <- Namespaces
  DefaultNs = "default"
  Name = {"a"}
  Driver <- Drivers
  OAuthDriver <- OAuth
  SecretURL = {}
  ConfiguredNs <- NoNs
  DefaultConnectors <- NoConnectors
  Persisted <- NoSecrets
  Caller <- AliceAny
  Definition <- MySQL
  Removable <- NoNs
CHECK_DEADLOCK FALSE
INVARIANTS
  ServerTypeOK
  CutOffIsAnError
PROPERTIES
  Stops
  WaitEnds
  HandlerAnswers
