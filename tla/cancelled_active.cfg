SPECIFICATION Spec
CONSTANTS
  None = None
  c1 = c1  c2 = c2  c3 = c3  r1 = r1  r2 = r2  url = url
  Call = {c1}
  Request = {r1, r2}
  Namespace <- Namespaces
  DefaultNs = "default"
  Name = {"a", "b"}
  Driver <- Drivers
  OAuthDriver <- OAuth
  SecretURL = {}
  ConfiguredNs <- Alice
  DefaultConnectors <- NoConnectors
  Persisted <- NoSecrets
  Caller <- AliceEliciting
  Definition <- MySQL
  Removable <- NoNs
SYMMETRY Symmetry
CHECK_DEADLOCK FALSE
INVARIANT
  ActiveMeansSubmitted
