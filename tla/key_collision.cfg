SPECIFICATION Spec
CONSTANTS
  None = None
  Absent = Absent
  QueryCall = {q1}
  Element = {e1, e2, e3}
  RequestedCapacity = 2
  Credential <- Credentials
  Session <- Two
  Text <- Texts
  Holder <- Holders
  Connector <- Connectors
  Statement <- Clashes
  Result <- Answers
  Key <- CacheKeys
  RecordType <- RecordTypes
SYMMETRY Symmetry
INVARIANT
  TypeFitsStatement
