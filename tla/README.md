# Formal model of mcp-sqlkit

mcp-sqlkit is an MCP server that gives clients named SQL connectors: a client
defines a connector (`dbSetConnection`), lists them (`dbListConnections`) and runs
statements on them (`dbQuery`, `dbExec`).  Passwords and OAuth tokens never pass
through the MCP client; a browser page of the same server collects them.  All of
this runs in one Go process, one goroutine per tool call, per HTTP request and per
open database handle, over shared maps that lock single operations and nothing
more.

This directory holds TLA+ modules of that process, TLC configurations that check
them on small instances, and TLAPS proofs for every size of them.

## 1. Inventory

| Component | Source | State | Operations | Correct means |
|---|---|---|---|---|
| Manager | `db/connector/manager.go`, `namespace.go`, `pending.go` | namespaces with their connectors; pending secrets with a `done` channel each; the secret store | lookup, registration, completion, cancellation, closing a channel | a namespace leads to its own connectors only; a page lives until its channel is closed; registrations are not lost |
| Tool calls | `service.go`, `set.go`, `elicitation.go`, `list.go` | local to the call: definition, namespace object, pending entry | `AddConnection`, `Connection`, `ListConnectors`, `set`, `GeneratePendingSecret` | an upsert that is answered is visible; "active" means a credential; every wait ends |
| Interaction pages | `mcp/ui/interaction/service.go` | local to the request: the pending entry it found | `Handle`, `handlePost`, OAuth return, completion | what the user is told about the page is what the waiting call sees |
| Database handle | `db/connector/connector.go` | `db`, `initialized`, the mutex, one watcher goroutine per opened handle | `Db`, `Close`, `ExpandDSN`, `ensureActive`, edits by the page | one handle at a time; none opened before the last edit stays in use; flag and handle agree; nothing leaks |
| dbQuery and its record type cache | `db/query/cache.go`, `db/query/service.go` | LRU list and map, per MCP session | `Get`, `Put`, `recordType` | list and map agree and are an LRU cache; the type a call reads into is that of its own statement, connector and person |
| Namespace derivation | `auth/service.go` | none | `Namespace` | same person, same namespace, and only then |
| Bootstrap | `manager.go: initDefaultConnectors` | the Manager | preload | configured connectors are there from the start |
| dbExec, metadata queries | `db/exec`, `db/meta` | none | run a statement | - |
| MCP wiring | `mcp/*.go` | a handler per session over one shared Manager | register tools, build services | - |
| Lifecycle | `cmd/mcp-sqlkit/*.go` | transports, signal context, memory reporter | start, wait, shut down | the process stops when told to; its exit status says whether it cut somebody off |

How they interact:

* Every MCP session has a `connector.Service` of its own over the one Manager, so
  calls of all sessions meet in its maps.
* `set` registers the connector, hands out a callback URL and waits on the `done`
  channel of its pending entry, on a five minute timer and on its context.  The
  page looks the entry up by the UUID of the URL, edits and tests the connector
  (the very object that is registered already), and closes the channel.
* `Db` starts a watcher, which waits for the `initialized` flag to go off; the page
  and the watcher both reset it.
* `query.Service` and its cache belong to one session, the token to each request:
  the namespace in the key keeps people apart who share a session.
* Calls arrive over stdio or HTTP, pages over HTTP alone; the process ends on a signal
  or with stdio, and waits five seconds for HTTP.
* The secret store is written by the page and read by `set`, by the OAuth page and
  by `ExpandDSN`.

What is hard to test here: get-then-put on maps that lock single operations;
test-then-close on a channel; a second namespace lookup on completion; a timeout
against a late answer; several requests of one page; edits of a connector that is
in use; a double-checked open beside a watcher that reads without the mutex; get,
detect, put on a cache that evicts; a shutdown while calls wait for minutes.
`PROJECT.json` lists each hazard at its line with the properties that cover it.

## 2. Modules

| Module | Models |
|---|---|
| `ConnectorManager` | the shared state, lookup, registration, default secret locations, `Remove` |
| `ConnectorService` | the tool calls, extends `ConnectorManager` |
| `Interaction` | the HTTP requests with `CompletePending`, `CancelPending`, `Close`, extends `ConnectorManager` |
| `SqlKit` | composes the two; specification, properties |
| `SecretRequest` | abstract: a secret is asked for and the request settled once; `SqlKit` implements it (`ImplementsRequest`) |
| `Server` | the life of the process around `SqlKit`: transports, signal, shutdown, exit; fairness and liveness |
| `ConnectorDb` | one connector's handle: workers, edits, watchers; with its properties |
| `HandleCell` | abstract: a cell that edits empty; `ConnectorDb` implements it (`ImplementsCell`) |
| `RecordTypeCache` | list and map of the cache, `Get` and `Put` |
| `LruCache` | abstract: a bounded map that forgets what was used longest ago; `RecordTypeCache` implements it (`ImplementsLru`) |
| `Auth` | the namespace of a token under a policy |
| `QueryService` | concurrent `dbQuery` calls of a session over `RecordTypeCache` and `Auth` |
| `MCSqlKit`, `MCServer`, `MCConnectorDb`, `MCQueryService` | small instances, symmetry |
| `SqlKitProofs` | type correctness of `SqlKit` |
| `PendingProofs` | its pages and their channels, and that it implements `SecretRequest` |
| `IsolationProofs` | its namespaces, and what is registered in them |
| `CredentialProofs` | its secrets |
| `ServerProofs` | what is proved of `SqlKit` holds of `Server`; the types of the process and its exit status |
| `ConnectorDbProofs` | type correctness and safety of `ConnectorDb`, and that it implements `HandleCell` |
| `CacheProofs` | the cache, and that it implements `LruCache` |
| `QueryProofs` | the cache as `dbQuery` uses it, namespaces, and where record types come from |

The three abstract modules translate no code: they say what the comments of the code
promise (`cache.go:9-13`, `connector.go:25-34`, `set.go:48-91`), and the detailed
modules are shown to keep it.

### State and code

*Identity.*  A tool call allocates at most one `Connector`, one `PendingSecret`
and one `Namespace`; the call names all three.  What the configuration preloads is
named by its namespace, or by namespace and name.  So `namespaces[ns]` is a pointer
to a `Namespace`, `connectors[o]` the map in it, and the race that replaces a
namespace object is visible.

*Steps.*  Every operation on a shared map, on the store or on a channel is a step
of its own, and `pc` (of a call) and `hpc` (of a request) say which comes next:
`GetNamespace` and `CreateNamespace` are the `Get` and the `Put` of `set.go:99-103`,
`CloseCheck` and `CloseDone` the test and the `close` of `pending.go:42-47`.  The
three cases of the `select` in `set` are `WaitReleased`, `WaitTimedOut` and
`WaitCancelled`, and `FindNamespace` and `Activate` the `Get` and the `Put` of
`manager.go:192-194`: the object that was found may be replaced in between.  Two
operations take two accesses in one step, the namespace and then the map in it: a
lookup, and `Remove` (`remove.go:11` and `:15`), which nothing in the server calls.

*Data.*  A secret is the fact that a place holds one.  A place is an explicit URL or
the triple driver, namespace, name that `defaultSecretURL` spells out; an explicit URL
is taken as the caller gives it, and may spell such a triple, too.  DSNs are
left out of `SqlKit` and are a version number in `ConnectorDb`.  In `ConnectorDb` the
fields that `ExpandDSN` reads while an edit writes them may come out `Torn`, and the
field `c.db` that the watcher reads twice may be loaded twice or once.

*Record types.*  `cache` is a partial function from keys to elements of `ll`;
elements are identities, since the code compares pointers.  A key is a record of
namespace, connector name and text, which the code joins with `|`: this is taken not
to occur in the first two.  The text is the whole query or, if it holds a filter and
parses, the first table and the columns, concatenated with the separators that the
code has (`StatementText`): none after the table, and a comma after each column and
its alias.  A connector is a namespace, a name and a database, and several may share
the first two, since a page can edit and rename a connector.  A statement's answer is
a sequence of column names per connector.  A record type has these as its tags, and
`by`, the person whose connection was asked, which no code reads and
`NoCrossUserBleed` needs.

*Tokens.*  A credential is the value of a token, whether it came with `Bearer`, and the
claims a parser finds in it.  A namespace is tagged with where it comes from, so a
hash is never equal to a claim; `Holder` says whose a token is, which the code does
not know.

*Process.*  `phase` is the place in `run()`.  `InFlight` is what `http.Server.Shutdown`
waits for: calls over HTTP and page requests that have begun and not ended.  Clients
and browsers act only while their transport is there, the rest of `SqlKit` only while
the process is.

*Faults.*  Operators with a comment that starts with `Fault:` are not part of the
model.  Each is the mutation of the operator it precedes, and `PROJECT.json` names
the property that must fail with it.

## 3. Runs

| Run | Instance | Shows |
|---|---|---|
| `isolation` | 2 `set` calls of alice or without a token, 2 requests, 2 names; alice's namespace is configured and she may remove from it, the shared one is not; a definition may spell out alice's default location | isolation of namespaces, the life of pages, that a secret is where a definition says and nowhere else, what "active" means, that registrations are lost to their owner or to the race on creating a namespace only |
| `tools` | 2 `use` or `list` calls with and without token and elicitation, basic and OAuth drivers, explicit URL, old secrets in the store, both namespaces configured, a connector of the same name in the shared one, 1 request | isolation in lookups; a tool that had its connector defined gets one; what is answered is registered; calls and pages are a one-shot request |
| `lifecycle` | `Server` with 1 call, 2 requests, every choice of transports, fairness | the process stops, waits and requests end, cut-offs show in the exit status |
| `handle` | 3 workers, 3 handles, 2 edits, basic credentials | safety of the handle; it is a cell |
| `handle_progress` | 2 workers, 2 handles, 2 edits, OAuth, fairness | calls return, watchers end |
| `record_types` | 2 calls, 2 people, shared and personal connectors of 2 databases, 3 statements with a filter of which 2 have one key text, capacity 2, all policies | the cache is LRU, types fit statement, connector and person |
| `namespace_race`, `double_close`, `cancelled_active`, `foreign_secret`, `stale_oauth`, `key_collision` | an instance that shows it | where code and documentation disagree, see section 5 |

*Bounds.*  Two calls and two requests are enough for every pairwise race in the
code: two creators of a namespace, two requests of one page, a call against a page,
two pages with one location.  Two names are enough for a rename, onto a free name
and onto a taken one.  `default` and `alice` are enough for a caller to have a
neighbour, and the shared one at that; in `isolation` the callers without a token
race on creating the first while the second is there from the start.  With three handles a watcher of the first
can meet the second and the third; two edits let one edit overtake another.  Calls
are made once and requests are served once; a client that calls again is another
call.  `Name` in `tools` is a single one because `UseFindsDefinition` is about
definitions that no page renames; with a rename the lookup by the new name fails.
In `record_types` two connectors of the shared namespace and two key texts make four
keys, so a cache of two evicts, evicts what another call is about to use, and is
asked again for what it has evicted; three elements are one more than the list holds.
Two statements of one text let one call read into the type that another statement
made, and a connector `a` of each person, of another database each, makes it matter
whose namespace is in the key.  `NamespaceByIdentity` is about six tokens: two ID tokens of one person, one of them bare too, a
subject without e-mail, and two that are no JWT.  Deadlock is checked there; it is
not in the other runs, which end when all calls have been answered and all requests
served, or when the process has ended.

*Fairness.*  `Server` asks weak fairness of the server's part of every call, of every
accepted request and of `run()`: goroutines that can run are run, and the timers of
`set` and of the shutdown fire.  It asks nothing of clients, users, transports and
signals; nobody need answer a form, open a page or press a button.  A call that waits
for the client's answer to `Elicit` may therefore wait for ever, and `WaitEnds` is
about the wait after it.  `HandlerAnswers` and `WaitEnds` also assume that what a
handler calls returns: the ping of the tested connector, which has no timeout
(`interaction/service.go:396`), loads and stores of secrets, and the token exchange.
`ConnectorDb` asks strong fairness of workers and watchers,
because `sync.RWMutex` hands the lock to whoever waits, and assumes that a ping and
`sql.Open` return.  A watcher looks at the flag every two seconds, so strong fairness
says that it sees a flag that is off again and again; `WatchersEnd` only relies on a
flag that stays off.  `QueryService` has no liveness property: its calls wait for
nothing but the mutex and the database.

## 4. Proofs

All theorems hold for any sets of calls, requests, namespaces, names, drivers,
workers and handles that satisfy the assumptions the modules state.  These say that
the sets are disjoint where identities must not be confused, that `None` is something
else, and in `QueryService` that a token and the claim that stands for its bearer
belong to one person, which is what an identity provider is for.

* `SqlKitProofs` proves `TypeInv`: the types, and what a call or a request must have
  by the time it gets to a step (`CallInv`, `RequestInv`).  They are needed because
  types alone do not say that a call at `register` has a namespace object and a
  connector, nor that a request is about a page that was handed out.
* `PendingProofs` proves `LiveInv`, and with it `CallbackLive`,
  `AnsweredMeansReleased` and `CancelledIsGone`.  The argument: an entry leaves the
  map either before its URL is known to anybody (`SecretFound`) or after its channel
  was closed (`DeletePending`), so a request that cannot find the entry of a URL it
  was given may conclude that the channel is closed.
  The refinement `PagesSettleOnce` adds `AskInv`: a call that asks for its secret has
  handed out its page and no answer yet, and a call that answers "active" was never
  asked for one or waits for a channel that is closed.  Every step of a call and of a
  request is then a step of `SecretRequest` or none (`CallView`, `TellView`).
  `TwoClosersToPanic` is about the channels themselves: whoever closes one has found it
  open, so it takes two requests of one page between their test and their close
  (`OneCloser` excludes them) for the second `close` to panic.
* `IsolationProofs` proves `NamespaceIsolation` from `IsoInv`: each namespace object
  was made for one namespace, is registered there only, and holds connectors of
  calls of that namespace only.  The race on creating a namespace does not break
  this, because both objects were made for the same namespace.  A completion puts into
  the object that it found a step earlier, so `TargetHome` goes with it: that object
  was made for the namespace of the page, replaced or not.
  The rest is about registrations.  `Put` never takes an entry away
  (`PutKeepsEntries`), so a name can go in two ways: `Remove`, or with the object that
  a second creator replaces.  `RegistrationsLostToRace` says so for every instance.  The
  other three are from `RegInv`: a namespace of the configuration keeps its first
  object for good, a call that works in such a namespace holds this object, and
  from `Register` on there is a connector in it under the name of the call's
  definition.  Hence `NothingIsLost` in such a namespace, whatever happens in others;
  `AnsweredIsRegistered` if all callers live in namespaces of the configuration
  (`HomesIn`) and nobody removes from them; and `UseGetsDefinition` if both hold for the
  callers of `use` (`UsersIn`) and no page renames a connector (`NoRename`), since `use`
  looks up the name as the page left it.  The run `tools` satisfies these conditions;
  without the first, `namespace_race` is the counterexample.
* `CredentialProofs` proves `SecretWhereDefined` from `SecretInv`: where a connector
  keeps its secret follows from its definition, which is made once and does not change,
  and the store only grows by what is posted on a page.  There is no condition: a
  definition may spell out the default location of another namespace, and then that is
  where its secret goes, which is how `foreign_secret` refutes `SecretIsolation`.
  `ActiveMeansCredential` is from `CredInv`: a closed channel stands for an OAuth
  driver, a stored secret or a cancellation.
* `ServerProofs` proves that a run of `Server` is one of `SqlKit` (`ServerIsSqlKit`), so
  that theorems carry over, and `CutOffIsAnError` from `LifeInv`: without an address,
  and before the start, nothing is in flight over HTTP.  `ServerTypeCorrect` adds the
  variables of the process (`LifeTypeOK`) to the types of `SqlKit`.
* `ConnectorDbProofs` proves eight theorems about the handle.  `FlagMatchesHandle`
  needs an invariant that says what the lock holder has changed already, `Watched`
  that the flag is only switched on together with a new watcher,
  `PanicTakesTwoLosses` that a watcher past its test has seen a handle other than
  the one it was started with, or none since.  `LeakOnlyByWatcher` compares two
  cardinalities: only `WatchDrop` can lose a handle, it loses one at most, and its
  watcher, which has seen a handle go (`LeakInv`), has exited then and counts for no
  other loss.  `HandleIsFresh` is for connectors
  without an OAuth flow; with one it is false (run `stale_oauth`).  `ConnectorIsCell`,
  under the same condition, shows that every step is one of `HandleCell`: an edit
  begins with the first field it changes and ends when the flag is off.
* `CacheProofs` proves `CacheInv`: the types and `ListMatchesMap`, which is inductive
  as it stands once it says that no element is in the list twice.  With it, moving an
  element to the front makes its key younger than the others and leaves their order
  alone, and the back of the list is the oldest key: that is `CacheIsLru`.
* `QueryProofs` proves that a call asks the cache for a key and a type the cache may
  hold (`CallInv`), so the steps of `dbQuery` are steps of the cache and its theorems
  carry over.  `OriginInv` says where types come from: whatever a call reads into, and
  whatever is held under a key, some call with the namespace, the connector and
  the text of that key has detected.  With `SameNamespaceSameHolder` this is
  `NoTypeBleeds`.  It is also `TypesFit`, under two conditions that say what the key
  cannot tell apart: connectors of one name in a namespace have the same database
  (`OneNameOneDatabase`), and statements of the same key text have the same columns
  (`KeysTellApart`).  Both hold in `record_types`; the second fails in `key_collision`.

Every disagreement of section 5 that has a run has a theorem that says when the code
does keep the claim: `AnsweredIsRegistered`, `TwoClosersToPanic`,
`ActiveHasCredential`, `SecretsWhereDefined`, `HandleIsFresh` and `TypesFit`.

Before it was proved, each invariant named here was found true by TLC on the
instances of the runs it belongs to.

Only model-checked: the liveness properties (`Stops`, `WaitEnds`, `HandlerAnswers`,
`CallsReturn`, `WatchersEnd`), which are out of the prover's reach, as is `ENABLED`.
Every other property of a passing run is stated by a theorem.  `CloseOnce`,
`RegisteredOnReturn`, `UseFindsDefinition`, `TypeFitsStatement`,
`FreshHandle` and `ImplementsCell` are theorems under the conditions
given above, none of which can be dropped: without it the program can reach a state,
or take a step, that breaks the property.

## 5. Where the code and its documentation disagree

* `namespace_race`: two first calls of a namespace lose a registration.
* `double_close`: two requests of one page can close one channel twice, which panics.
* `cancelled_active`: a cancelled page makes the waiting call answer "active".
* `foreign_secret`: an explicit secret URL is taken as it is, so it can be the default
  location of another namespace, and the page of one namespace then writes where the
  secrets of another are kept (`README.md:492` of the repository: "physically separated
  per namespace").
* `stale_oauth`: the OAuth flow changes the DSN and leaves an open handle in use.
* `key_collision`: two statements with a filter that differ in a join share a record
  type; so do `SELECT id FROM t` and `SELECT d FROM ti`, since nothing separates the
  table from the first column.  Either pair alone violates the property.

Without a run of their own, since one line shows them:

* `manager.go:187`: a completed entry stays in the pending map, although
  `interaction/service.go:423` says that completion removes it.
* `interaction/service.go:317`: a name edited on the page leaves the connector under
  the key of its old name (`README.md:244` of the repository: "keyed by namespace plus
  connector name").
* `set.go`, `defaultSecretURL`: default locations are driver, namespace, name, although
  the repository's README (`:423`, `:492`) gives driver, database, namespace.
* `exec/service.go:49`: `dbExec` hands its parameters to the driver as one argument.
* `runner.go:51`: asking for help dereferences a nil pointer, although
  `runner.go:89` wants it to be no error (`HelpPanics`).
* `runner.go:273`: a failed listener, or stdio alone, leaves callback URLs that nothing
  serves, although the repository's README calls the flow identical for both
  transports.

## 6. Not modelled

* Normalisation of secret URLs: a pure function of URL and home directory, applied
  before every load and store, whose outcome is what the model calls a place.
* Names of the fields of a record type: the sanitising of column names and the loop that
  appends underscores until a name is free (`query/service.go:120-145`), sequential over
  one answer.
* Types of columns, the materialisation of rows and the encoding of results: sequential
  conversions of values that no other part reads.
* The syntax of statements and of connection strings; the statement of `dbExec`.
* The verified branch of `Service.Namespace`: nothing sets `verifierService`.
* The fields of the configuration: reading it is a step that succeeds or fails.
* Restart: nothing but the secret store survives one.  `Persisted` is the set of
  secrets that may be there at the start.
* The contents of DSNs, HTML, logging, the status page, `GET` of a page: they change
  no state that a property tells apart.
* The ids of elicitations and the notification of the client on cancellation
  (`pend.uiRequest` is never set, so it is never sent).
* `Manager.Get`, `UpsertConnection`, `Service.Set`: no caller in the server.
  `Service.Remove` has none either; it is modelled because it is the only operation
  that takes a registration away.
* Metadata queries: their tools are commented out.

## 7. Plan

1. Done: Manager, tool calls, pages and their composition; the database handle; the
   record type cache, `dbQuery` and namespaces; the life of the process; three abstract
   specifications with their refinements; the proofs of section 4.
2. Done: a theorem for every safety property of a passing run, and for the condition
   under which each claim that a violation run refutes does hold.
3. Left: `UseFindsDefinition` with renames, which needs an account of which page
   renamed last; the condition of `TwoClosersToPanic` weakened to one press of a button
   per page, once requests of one user are told from those of another.
