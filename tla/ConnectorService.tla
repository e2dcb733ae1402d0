--------------------------- MODULE ConnectorService ---------------------------
(***************************************************************************)
(* The tool calls of connector.Service: dbSetConnection (AddConnection),   *)
(* any tool that needs a connector (Connection, reached from dbQuery and   *)
(* dbExec) and dbListConnections (ListConnections).  Each call is a        *)
(* process; the steps between two touches of shared state interleave with  *)
(* every other call and with the HTTP handlers.                            *)
(*                                                                         *)
(* A lookup reads the namespace and then its connector map; both reads are *)
(* one step here.                                                          *)
(***************************************************************************)
EXTENDS ConnectorManager

CONSTANTS
  Caller,      \* what a call may be: tool, ns of the token, elicits
  Definition   \* valid definitions: name, driver, secretURL

ASSUME ServiceAssumption ==
  /\ Caller \subseteq [tool: {"set", "use", "list"},
                       ns: Namespace \cup {None},
                       elicits: BOOLEAN]
  /\ Definition \subseteq [name: Name,
                           driver: Driver,
                           secretURL: SecretURL \cup {None}]
  /\ None \notin Definition \cup {"active", "pending", "error"}

VARIABLES
  pc,       \* the step a call is at
  caller,   \* who makes the call, for what, and if its client implements Elicit
  def,      \* the definition the call upserts
  asked,    \* the name a "use" call looks for first
  nsRef,    \* PendingSecret.NS: the Namespace object the call holds
  outcome,  \* what set() answered: active, pending or error
  conn      \* the connector Connection returned to a "use" call

callVars    == <<pc, caller, def, asked, nsRef, outcome, conn>>
serviceVars == <<managerVars, callVars>>

CallStep == {"new", "form", "namespace", "create", "generate", "register",
             "check", "elicit", "wait", "recheck", "reput", "resume", "returned"}

ServiceTypeOK ==
  /\ pc \in [Call -> CallStep]
  /\ caller \in [Call -> Caller]
  /\ def \in [Call -> Definition \cup {None}]
  /\ asked \in [Call -> Name \cup {None}]
  /\ nsRef \in [Call -> NsObject \cup {None}]
  /\ outcome \in [Call -> {None, "active", "pending", "error"}]
  /\ conn \in [Call -> Connector \cup {None}]

ServiceInit ==
  /\ pc = [c \in Call |-> "new"]
  /\ caller \in [Call -> Caller]
  /\ def = [c \in Call |-> None]
  /\ asked = [c \in Call |-> None]
  /\ nsRef = [c \in Call |-> None]
  /\ outcome = [c \in Call |-> None]
  /\ conn = [c \in Call |-> None]

-----------------------------------------------------------------------------
\* The namespace a definition goes to, and the one a listing reads: a caller
\* without a usable token falls back to the shared one.
Home(c) == IF caller[c].ns = None THEN DefaultNs ELSE caller[c].ns

Goto(c, step) == pc' = [pc EXCEPT ![c] = step]

\* set() has answered with r.  Only dbSetConnection passes the answer on;
\* Connection looks the name up once more unless there was an error, and
\* ListConnections drops answer and error alike and lists again.
Answer(c, r) ==
  /\ outcome' = [outcome EXCEPT ![c] = r]
  /\ Goto(c, IF caller[c].tool = "set" \/ (caller[c].tool = "use" /\ r = "error")
             THEN "returned" ELSE "resume")

-----------------------------------------------------------------------------
\* dbSetConnection with every required field of a supported driver.
SetConnection(c) ==
  /\ pc[c] = "new" /\ caller[c].tool = "set"
  /\ \E d \in Definition : def' = [def EXCEPT ![c] = d]
  /\ Goto(c, "namespace")
  /\ UNCHANGED <<managerVars, caller, asked, nsRef, outcome, conn>>

\* A required field is missing and the client can be asked for it.
SetIncomplete(c) ==
  /\ pc[c] = "new" /\ caller[c].tool = "set" /\ caller[c].elicits
  /\ Goto(c, "form")
  /\ UNCHANGED <<managerVars, caller, def, asked, nsRef, outcome, conn>>

\* An unsupported driver, or a missing field and no way to ask for it.
SetRejected(c) ==
  /\ pc[c] = "new" /\ caller[c].tool = "set"
  /\ Answer(c, "error")
  /\ UNCHANGED <<managerVars, caller, def, asked, nsRef, conn>>

\* Fault: the fallback of set and list for callers without a token here too.
UseConnectionFallback(c, n) ==
  /\ pc[c] = "new" /\ caller[c].tool = "use"
  /\ asked' = [asked EXCEPT ![c] = n]
  /\ Lookup(Home(c), n) # None
  /\ conn' = [conn EXCEPT ![c] = Lookup(Home(c), n)]
  /\ Goto(c, "returned")
  /\ UNCHANGED <<managerVars, caller, def, nsRef, outcome>>

\* Manager.Connection has a connector for the caller.
Found(c, n) == caller[c].ns # None /\ Lookup(caller[c].ns, n) # None

\* Connection: found; missing, so the client is asked to define it; or an error.
\* Without a token the error is not one of the two that lead to the form.
UseConnection(c, n) ==
  /\ pc[c] = "new" /\ caller[c].tool = "use"
  /\ asked' = [asked EXCEPT ![c] = n]
  /\ \/ /\ Found(c, n)
        /\ conn' = [conn EXCEPT ![c] = Lookup(caller[c].ns, n)]
        /\ Goto(c, "returned")
        /\ UNCHANGED outcome
     \/ /\ ~Found(c, n) /\ caller[c].ns # None /\ caller[c].elicits
        /\ Goto(c, "form")
        /\ UNCHANGED <<outcome, conn>>
     \/ /\ ~Found(c, n) /\ (caller[c].ns = None \/ ~caller[c].elicits)
        /\ Answer(c, "error")
        /\ UNCHANGED conn
  /\ UNCHANGED <<managerVars, caller, def, nsRef>>

\* ListConnections: an empty listing makes a capable client fill in the form.
\* Otherwise the fallback to a connector named dev can only fail.
ListConnections(c) ==
  /\ pc[c] = "new" /\ caller[c].tool = "list"
  /\ Goto(c, IF Listed(Home(c)) = {} /\ caller[c].elicits THEN "form" ELSE "returned")
  /\ UNCHANGED <<managerVars, caller, def, asked, nsRef, outcome, conn>>

-----------------------------------------------------------------------------
\* The user accepts the form with a valid definition.
FormAccepted(c) ==
  /\ pc[c] = "form"
  /\ \E d \in Definition : def' = [def EXCEPT ![c] = d]
  /\ Goto(c, "namespace")
  /\ UNCHANGED <<managerVars, caller, asked, nsRef, outcome, conn>>

\* The user declines or fills in a driver that is not supported, or the call of
\* the client fails.
FormRefused(c) ==
  /\ pc[c] = "form"
  /\ Answer(c, "error")
  /\ UNCHANGED <<managerVars, caller, def, asked, nsRef, conn>>

\* Elicit gives neither a result nor an error: set answers nothing at all, use
\* looks the name up again.
FormIgnored(c) ==
  /\ pc[c] = "form"
  /\ Answer(c, None)
  /\ UNCHANGED <<managerVars, caller, def, asked, nsRef, conn>>

-----------------------------------------------------------------------------
\* Fault: the namespace is created without a look at the registry.
GetNamespaceNew(c) ==
  /\ pc[c] = "namespace"
  /\ Goto(c, "create")
  /\ UNCHANGED <<managerVars, caller, def, asked, nsRef, outcome, conn>>

\* GeneratePendingSecret: get the namespace ...
GetNamespace(c) ==
  /\ pc[c] = "namespace"
  /\ LET o == namespaces[Home(c)] IN
     /\ nsRef' = [nsRef EXCEPT ![c] = o]
     /\ Goto(c, IF o = None THEN "create" ELSE "generate")
  /\ UNCHANGED <<managerVars, caller, def, asked, outcome, conn>>

\* ... or create it.  The Put is unconditional, whatever has been put meanwhile.
CreateNamespace(c) ==
  /\ pc[c] = "create"
  /\ namespaces' = [namespaces EXCEPT ![Home(c)] = c]
  /\ nsRef' = [nsRef EXCEPT ![c] = c]
  /\ Goto(c, "generate")
  /\ UNCHANGED <<connectors, objectVars, store, pending, done, issued,
                 caller, def, asked, outcome, conn>>

\* The rest of GeneratePendingSecret: the Connector with its secret resource, and
\* the pending entry under a new UUID.
GeneratePending(c) ==
  /\ pc[c] = "generate"
  /\ connName' = [connName EXCEPT ![c] = def[c].name]
  /\ connDriver' = [connDriver EXCEPT ![c] = def[c].driver]
  /\ secretAt' = [secretAt EXCEPT ![c] = SecretResource(Home(c), def[c])]
  /\ pendNs' = [pendNs EXCEPT ![c] = Home(c)]
  /\ pending' = pending \cup {c}
  /\ Goto(c, "register")
  /\ UNCHANGED <<registryVars, store, done, issued,
                 caller, def, asked, nsRef, outcome, conn>>

\* Fault: the connector is left for the completion of the page to register.
RegisterLater(c) ==
  /\ pc[c] = "register"
  /\ Goto(c, "check")
  /\ UNCHANGED <<managerVars, caller, def, asked, nsRef, outcome, conn>>

\* set(): the connector is registered before anything is known of its secret.
Register(c) ==
  /\ pc[c] = "register"
  /\ PutConnector(nsRef[c], c)
  /\ Goto(c, "check")
  /\ UNCHANGED <<namespaces, objectVars, store, pending, done, issued,
                 caller, def, asked, nsRef, outcome, conn>>

\* The secret is there: the pending entry goes, and the connector is active.
SecretFound(c) ==
  /\ pc[c] = "check" /\ SecretExists(c)
  /\ pending' = pending \ {c}
  /\ Answer(c, "active")
  /\ UNCHANGED <<registryVars, objectVars, store, done, issued,
                 caller, def, asked, nsRef, conn>>

\* The secret is not there, or could not be loaded.  The callback URL goes to
\* the client: to be opened by the user, or as part of the answer.
SecretMissing(c) ==
  /\ pc[c] = "check"
  /\ issued' = issued \cup {c}
  /\ \/ caller[c].elicits /\ Goto(c, "elicit") /\ UNCHANGED outcome
     \/ ~caller[c].elicits /\ Answer(c, "pending")
  /\ UNCHANGED <<registryVars, objectVars, store, pending, done,
                 caller, def, asked, nsRef, conn>>

\* The out-of-band Elicit returns: accepted, or without a result.
ElicitAccepted(c) ==
  /\ pc[c] = "elicit"
  /\ Goto(c, "wait")
  /\ UNCHANGED <<managerVars, caller, def, asked, nsRef, outcome, conn>>

\* The user will not provide credentials.  The pending entry stays.
ElicitRejected(c) ==
  /\ pc[c] = "elicit"
  /\ Answer(c, "error")
  /\ UNCHANGED <<managerVars, caller, def, asked, nsRef, conn>>

-----------------------------------------------------------------------------
\* Fault: the call is released by its page while nobody has closed the channel.
WaitReleasedEarly(c) ==
  /\ pc[c] = "wait"
  /\ Goto(c, "recheck")
  /\ UNCHANGED <<managerVars, caller, def, asked, nsRef, outcome, conn>>

\* The select of set(): the first of its three cases to be ready, and any of
\* them when several are.
WaitReleased(c) ==
  /\ pc[c] = "wait" /\ c \in done
  /\ Goto(c, "recheck")
  /\ UNCHANGED <<managerVars, caller, def, asked, nsRef, outcome, conn>>

\* Fault: the entry of a call that gives up is dropped.
WaitTimedOutDrops(c) ==
  /\ pc[c] = "wait"
  /\ pending' = pending \ {c}
  /\ Answer(c, "pending")
  /\ UNCHANGED <<registryVars, objectVars, store, done, issued,
                 caller, def, asked, nsRef, conn>>

\* Fault: no timeout.
WaitForever(c) ==
  /\ pc[c] = "wait" /\ c \in done
  /\ Answer(c, "pending")
  /\ UNCHANGED <<managerVars, caller, def, asked, nsRef, conn>>

WaitTimedOut(c) ==
  /\ pc[c] = "wait"
  /\ Answer(c, "pending")
  /\ UNCHANGED <<managerVars, caller, def, asked, nsRef, conn>>

WaitCancelled(c) ==
  /\ pc[c] = "wait"
  /\ Answer(c, "error")
  /\ UNCHANGED <<managerVars, caller, def, asked, nsRef, conn>>

\* After the release: the connector is put again if its secret can be loaded,
\* and is reported active in either case.
RecheckFound(c) ==
  /\ pc[c] = "recheck" /\ SecretExists(c)
  /\ Goto(c, "reput")
  /\ UNCHANGED <<managerVars, caller, def, asked, nsRef, outcome, conn>>

RecheckMissing(c) ==
  /\ pc[c] = "recheck"
  /\ Answer(c, "active")
  /\ UNCHANGED <<managerVars, caller, def, asked, nsRef, conn>>

Reput(c) ==
  /\ pc[c] = "reput"
  /\ PutConnector(nsRef[c], c)
  /\ Answer(c, "active")
  /\ UNCHANGED <<namespaces, objectVars, store, pending, done, issued,
                 caller, def, asked, nsRef, conn>>

-----------------------------------------------------------------------------
\* The name a "use" call looks up in the end: that of the connector it defined,
\* as it is called by now, or the one it asked for.
ResumeName(c) == IF def[c] # None THEN connName[c] ELSE asked[c]

\* Connection looks up again, ListConnections lists again.
Resume(c) ==
  /\ pc[c] = "resume"
  /\ conn' = IF caller[c].tool = "use"
             THEN [conn EXCEPT ![c] = Lookup(caller[c].ns, ResumeName(c))]
             ELSE conn
  /\ Goto(c, "returned")
  /\ UNCHANGED <<managerVars, caller, def, asked, nsRef, outcome>>

-----------------------------------------------------------------------------
\* What the client and the user do of their own accord.
UserStep(c) ==
  \/ SetConnection(c) \/ SetIncomplete(c) \/ SetRejected(c)
  \/ \E n \in Name : UseConnection(c, n)
  \/ ListConnections(c)
  \/ FormAccepted(c) \/ FormRefused(c) \/ FormIgnored(c)
  \/ ElicitAccepted(c) \/ ElicitRejected(c)
  \/ WaitCancelled(c)

\* What the server does on its own, the timer of the wait included.
ServerStep(c) ==
  \/ GetNamespace(c) \/ CreateNamespace(c) \/ GeneratePending(c)
  \/ Register(c) \/ SecretFound(c) \/ SecretMissing(c)
  \/ WaitReleased(c) \/ WaitTimedOut(c)
  \/ RecheckFound(c) \/ RecheckMissing(c) \/ Reput(c)
  \/ Resume(c)
=============================================================================
