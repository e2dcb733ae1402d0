SPECIFICATION Spec
CONSTANTS
  None = None
  c1 = c1  c2 = c2  c3 = c3  r1 = r1  r2 = r2  url = url
  Call = {c1, c2}
  Request = {r1}
  Namespace <- Namespaces
  DefaultNs = "default"
  Name = {"a"}
  Driver <- Drivers
  OAuthDriver <- OAuth
  SecretURL = {url}
  ConfiguredNs <- Namespaces
  DefaultConnectors <- SharedConnector
  Persisted <- OldSecrets
  Caller <- ToolCallers
  Definition <- Mixed
  Removable <- NoNs
SYMMETRY Symmetry
CHECK_DEADLOCK FALSE
INVARIANTS
  NamespaceIsolation
  UseFindsDefinition
  RegisteredOnReturn
PROPERTY
  ImplementsRequest
