--------------------------- MODULE ConnectorManager ---------------------------
(***************************************************************************)
(* The state connector.Manager shares between every MCP session and every  *)
(* HTTP request of the server: the namespaces with their connectors, the   *)
(* pending secrets, and the secret store behind them (db/connector).       *)
(*                                                                         *)
(* Objects are told apart by identity, as pointers are.  One tool call     *)
(* allocates at most one Connector, one PendingSecret and one Namespace,   *)
(* so the call's own name serves as the identity of each of them; what the *)
(* configuration preloads is named by the namespace, or by the pair        *)
(* <<namespace, name>> of the connector.                                   *)
(***************************************************************************)
CONSTANTS
  Namespace,          \* what auth.Service.Namespace can derive for a caller
  DefaultNs,          \* the shared namespace "default"
  Name,               \* connector names
  Driver,             \* drivers meta.GetConfigs knows
  OAuthDriver,        \* those whose CredType is not *cred.Basic (bigquery)
  SecretURL,          \* explicit scy locations a definition may carry, those that
                      \* are some default location included
  Call,               \* tool calls
  ConfiguredNs,       \* namespaces Config.DefaultConnectors lists
  DefaultConnectors,  \* the <<namespace, name>> pairs it lists
  Persisted,          \* places that may hold a secret before the start
  None

\* Where a secret can be stored: an explicit URL, or the default location.
Place == SecretURL \cup (Driver \X Namespace \X Name)

ASSUME ManagerAssumption ==
  /\ DefaultNs \in Namespace
  /\ OAuthDriver \subseteq Driver
  /\ ConfiguredNs \subseteq Namespace
  /\ DefaultConnectors \subseteq ConfiguredNs \X Name
  /\ Persisted \subseteq Place
  /\ Call \cap Namespace = {}
  /\ Call \cap DefaultConnectors = {}
  /\ None \notin Namespace \cup Name \cup Driver
  /\ None \notin Call \cup DefaultConnectors
  /\ None \notin Place

Connector == Call \cup DefaultConnectors
NsObject  == Call \cup Namespace

VARIABLES
  namespaces,   \* Manager.namespace: the Namespace object registered for a key
  connectors,   \* the Connectors map of each Namespace object
  connName,     \* Connector.Name
  connDriver,   \* Connector.Driver
  secretAt,     \* Connector.Secrets.URL, None when the connector has none
  store,        \* places for which scy holds a secret
  pending,      \* Manager.pending: the UUIDs in the map
  pendNs,       \* PendingSecret.Namespace
  done,         \* the PendingSecret.done channels that are closed
  issued        \* the UUIDs whose callback URL has left the server

registryVars == <<namespaces, connectors>>
objectVars   == <<connName, connDriver, secretAt, pendNs>>
managerVars  == <<registryVars, objectVars, store, pending, done, issued>>

ManagerTypeOK ==
  /\ namespaces \in [Namespace -> NsObject \cup {None}]
  /\ connectors \in [NsObject -> [Name -> Connector \cup {None}]]
  /\ connName \in [Call -> Name \cup {None}]
  /\ connDriver \in [Call -> Driver \cup {None}]
  /\ secretAt \in [Call -> Place \cup {None}]
  /\ pendNs \in [Call -> Namespace \cup {None}]
  /\ store \in SUBSET Place
  /\ pending \in SUBSET Call
  /\ done \in SUBSET Call
  /\ issued \in SUBSET Call

\* NewManager and initDefaultConnectors.  A file-backed store may already hold
\* secrets of an earlier run of the server; start-up only tries to load them.
ManagerInit ==
  /\ namespaces = [ns \in Namespace |-> IF ns \in ConfiguredNs THEN ns ELSE None]
  /\ connectors = [o \in NsObject |-> [n \in Name |->
                     IF <<o, n>> \in DefaultConnectors THEN <<o, n>> ELSE None]]
  /\ connName = [c \in Call |-> None]
  /\ connDriver = [c \in Call |-> None]
  /\ secretAt = [c \in Call |-> None]
  /\ pendNs = [c \in Call |-> None]
  /\ store \in SUBSET Persisted
  /\ pending = {}
  /\ done = {}
  /\ issued = {}

-----------------------------------------------------------------------------
\* What Manager.Connection finds under name in namespace ns: the namespace, then the
\* connector in its map, as one step; None stands for ErrNamespaceNotFound and
\* ErrConnectorNotFound alike.
Lookup(ns, name) ==
  IF namespaces[ns] = None THEN None ELSE connectors[namespaces[ns]][name]

\* Service.List: the connectors of the namespace.
Listed(ns) == {Lookup(ns, n) : n \in Name} \ {None}

\* Fault: the map is made anew for each connector.
PutConnectorAlone(o, c) ==
  connectors' = [connectors EXCEPT ![o] = [n \in Name |-> IF n = connName[c] THEN c ELSE None]]

\* Connectors.Put(connector.Name, connector) on Namespace object o.
PutConnector(o, c) ==
  connectors' = [connectors EXCEPT ![o] = [@ EXCEPT ![connName[c]] = c]]

\* Fault: the parts of the location in another order.
DefaultSecretURLSwapped(ns, driver, name) == <<driver, name, ns>>

DefaultSecretURL(ns, driver, name) == <<driver, ns, name>>

\* Fault: every namespace shares the default location of one of them.
SecretResourceShared(ns, d) ==
  IF d.secretURL # None \/ d.driver \in OAuthDriver
  THEN d.secretURL
  ELSE DefaultSecretURL(DefaultNs, d.driver, d.name)

\* Connector.Secrets after GeneratePendingSecret: the URL of the definition, or,
\* for a driver with basic credentials, the default location.
SecretResource(ns, d) ==
  IF d.secretURL # None \/ d.driver \in OAuthDriver
  THEN d.secretURL
  ELSE DefaultSecretURL(ns, d.driver, d.name)

\* secretExists: scy can load the secret the connector refers to.
SecretExists(c) == secretAt[c] # None /\ secretAt[c] \in store

\* Service.Remove, by a caller of namespace ns: the lookup of the namespace and the
\* deletion from its map, as one step.  An entry that is not there is left alone.
Remove(ns, name) ==
  /\ Lookup(ns, name) # None
  /\ connectors' = [connectors EXCEPT ![namespaces[ns]] = [@ EXCEPT ![name] = None]]
  /\ UNCHANGED <<namespaces, objectVars, store, pending, done, issued>>
=============================================================================
