SPECIFICATION Spec
CONSTANTS
  None = None
  c1 = c1  c2 = c2  c3 = c3  r1 = r1  r2 = r2  url = url
  Call = {c1, c2}
  Request = {}
  Namespace <- Namespaces
  DefaultNs = "default"
  Name = {"a"}
  Driver <- Drivers
  OAuthDriver <- OAuth
  SecretURL = {}
  ConfiguredNs <- NoNs
  DefaultConnectors <- NoConnectors
  Persisted <- NoSecrets
  Caller <- AliceSetting
  Definition <- MySQL
  Removable <- NoNs
SYMMETRY Symmetry
CHECK_DEADLOCK FALSE
INVARIANT
  RegisteredOnReturn
