-------------------------------- MODULE SqlKit --------------------------------
(***************************************************************************)
(* The server: any number of tool calls (ConnectorService) and of HTTP     *)
(* requests (Interaction) over the state of one connector.Manager.         *)
(***************************************************************************)
EXTENDS ConnectorService, Interaction

CONSTANT Removable  \* namespaces whose owner may use Service.Remove

ASSUME SqlKitAssumption == Removable \subseteq Namespace

vars == <<managerVars, callVars, requestVars>>

Init == ManagerInit /\ ServiceInit /\ InteractionInit

UserOfCall(c)   == UserStep(c) /\ UNCHANGED requestVars
ServerOfCall(c) == ServerStep(c) /\ UNCHANGED requestVars
UserOfPage(r)   == SendRequest(r) /\ UNCHANGED callVars
Handler(r)      == HandlerStep(r) /\ UNCHANGED callVars

RemoveConnector(ns, n) == Remove(ns, n) /\ UNCHANGED <<callVars, requestVars>>

Next ==
  \/ \E c \in Call : UserOfCall(c) \/ ServerOfCall(c)
  \/ \E r \in Request : UserOfPage(r) \/ Handler(r)
  \/ \E ns \in Removable, n \in Name : RemoveConnector(ns, n)

Spec == Init /\ [][Next]_vars

TypeOK == ManagerTypeOK /\ ServiceTypeOK /\ InteractionTypeOK

-----------------------------------------------------------------------------
\* The namespace a connector belongs to: that of the call that defined it, or
\* the one the configuration lists it under.
Owner(k) == IF k \in Call THEN Home(k) ELSE k[1]

\* The registry of a namespace only ever leads to connectors of its own callers,
\* and no call gets hold of a connector of another namespace: not through the
\* race on creating namespaces, and not through CompletePending, which looks the
\* namespace up a second time (set.go:99-103, manager.go:192-195).
NamespaceIsolation ==
  /\ \A ns \in Namespace, n \in Name :
       Lookup(ns, n) # None => Owner(Lookup(ns, n)) = ns
  /\ \A c \in Call : conn[c] # None => Owner(conn[c]) = caller[c].ns

\* A secret at a default location was there before the start, or was submitted on a
\* page of a call whose definition says so: by spelling that very location out, or by
\* being for its namespace, driver and name, whatever the page has renamed since
\* (set.go:112-114 fixes the place, interaction/service.go:317 renames, 375-385
\* writes).
SecretWhereDefined ==
  \A ns \in Namespace, d \in Driver, n \in Name :
    DefaultSecretURL(ns, d, n) \in store \ Persisted =>
      \E c \in issued :
        /\ secretAt[c] = DefaultSecretURL(ns, d, n)
        /\ \/ def[c].secretURL = secretAt[c]
           \/ Home(c) = ns /\ def[c].driver = d /\ def[c].name = n

\* A callback URL that has left the server leads to a page until its channel is
\* closed: neither a timeout, nor a rejection, nor a concurrent completion or
\* cancellation takes the page away from a call that still waits (set.go:44,
\* set.go:69-84, manager.go:202-210).
CallbackLive == issued \subseteq pending \cup done

\* When a user is told that the page is completed or cancelled, the call that
\* waits for it has been released, even if another request of the same page was
\* served at the same time (manager.go:187-210, pending.go:41-49).
AnsweredMeansReleased ==
  \A r \in Request : response[r] \in {"completed", "cancelled"} => page[r] \in done

\* A page that was cancelled never opens again (manager.go:209-210).
CancelledIsGone ==
  \A r \in Request : response[r] = "cancelled" => page[r] \notin pending

Cancelling(c) == \E r \in Request : page[r] = c /\ act[r] = "cancel"

\* A call with basic credentials that is answered "active" has its secret in the
\* store, unless some request cancelled its page (set.go:43-46, set.go:75-87,
\* interaction/service.go:385-415).
ActiveMeansCredential ==
  \A c \in Call :
    /\ outcome[c] = "active"
    /\ connDriver[c] \notin OAuthDriver
    /\ ~Cancelling(c)
    => SecretExists(c)

PageState == [c \in Call |->
  IF c \in done THEN "settled" ELSE IF c \in issued THEN "open" ELSE "none"]

ToldOver == [r \in Request |->
  IF response[r] \in {"completed", "cancelled"} THEN page[r] ELSE None]

OneShot == INSTANCE SecretRequest
             WITH state <- PageState, answer <- outcome, told <- ToldOver

\* Calls and pages together are a request for a secret that is settled once: what a
\* call answers and what a user is told never runs ahead of the page (set.go:43-91,
\* manager.go:187-210).
ImplementsRequest == OneShot!Spec

Registered(ns) == {n \in Name : Lookup(ns, n) # None}

\* In a namespace of the configuration a name that is registered stays registered until
\* its owner removes it: no upsert, completion or re-registration loses a connector,
\* not even while other namespaces lose theirs (manager.go:59-63, set.go:41,
\* set.go:78, manager.go:194).
NoLostRegistration ==
  [][\A ns \in ConfiguredNs :
       \/ Registered(ns) \subseteq Registered(ns)'
       \/ \E n \in Name : RemoveConnector(ns, n)]_vars

\* A namespace that callers create concurrently can lose what is registered in it, but
\* only in that race: with the object that a second creator replaces (set.go:99-103).
LostOnlyByRace ==
  [][\A ns \in Namespace :
       \/ Registered(ns) \subseteq Registered(ns)'
       \/ \E n \in Name : RemoveConnector(ns, n)
       \/ \E c \in Call : CreateNamespace(c) /\ Home(c) = ns /\ namespaces[ns] # None]_vars

\* An upsert that has been answered is visible under the name it was defined
\* with (set.go:41-91, list.go:25-37), as dbListConnections.md has it:
\* "Registered connectors are returned as soon as they are added to the caller
\* namespace".
RegisteredOnReturn ==
  \A c \in Call :
    outcome[c] \in {"active", "pending"} => def[c].name \in Registered(Home(c))

\* A tool that had its connector defined by the user on the way gets hold of a
\* connector in the end, as long as no page renames one: the secret may be there,
\* submitted, cancelled or late (service.go:40-47, elicitation.go:160-163).
UseFindsDefinition ==
  \A c \in Call :
    pc[c] = "returned" /\ caller[c].tool = "use" /\ outcome[c] # "error" /\ def[c] # None
    => conn[c] # None

-----------------------------------------------------------------------------
\* pending.go: "PendingSecrets is a concurrency-safe collection of pending
\* entries" - so no two requests are about to close the same channel
\* (pending.go:42-47).
CloseOnce == \A r \in Request : hpc[r] = "closing" => page[r] \notin done

\* set.go: "Secret submitted within wait window - connector activated" - so a
\* call with basic credentials that is answered active has a secret, with no
\* exception for a cancelled page (set.go:75-87).
ActiveMeansSubmitted ==
  \A c \in Call :
    outcome[c] = "active" /\ connDriver[c] \notin OAuthDriver => SecretExists(c)

\* README.md:492: "Secret isolation: secrets are stored at
\* `<SecretBaseLocation>/<driver>/<database>/<namespace>` [...], so credentials are
\* physically separated per namespace" - so a secret at a location of a namespace was
\* submitted on a page of that namespace (set.go:112-114).
SecretIsolation ==
  \A ns \in Namespace, d \in Driver, n \in Name :
    DefaultSecretURL(ns, d, n) \in store \ Persisted =>
      \E c \in issued : Home(c) = ns /\ secretAt[c] = DefaultSecretURL(ns, d, n)
=============================================================================
