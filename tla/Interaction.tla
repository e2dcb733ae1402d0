------------------------------ MODULE Interaction ------------------------------
(***************************************************************************)
(* The HTTP side of the secret flow (mcp/ui/interaction.Service): what the *)
(* user does on the page of a pending secret, with CompletePending and     *)
(* CancelPending of the manager.  Every request is served by a goroutine   *)
(* of its own, so any number of them can be in the handlers of one page.   *)
(*                                                                         *)
(* A GET of a basic-credentials page only renders, and the first GET of an *)
(* OAuth page only redirects to the provider: neither is a step here.      *)
(***************************************************************************)
EXTENDS ConnectorManager

CONSTANT Request

VARIABLES
  hpc,       \* the step a request is at
  page,      \* the UUID it is about
  act,       \* why it closes the done channel: "complete" or "cancel"
  target,    \* the Namespace object CompletePending has found
  response   \* what it answered

requestVars == <<hpc, page, act, target, response>>

HandlerPC == {"idle", "edit", "store", "verify", "exchange", "complete",
              "find", "activate", "cancel", "close", "closing", "delete", "answered"}

Response == {"notFound", "form", "error", "panic", "completed", "cancelled"}

ASSUME InteractionAssumption == None \notin Response \cup {"complete", "cancel"}

InteractionTypeOK ==
  /\ hpc \in [Request -> HandlerPC]
  /\ page \in [Request -> Call \cup {None}]
  /\ act \in [Request -> {None, "complete", "cancel"}]
  /\ target \in [Request -> NsObject \cup {None}]
  /\ response \in [Request -> Response \cup {None}]

InteractionInit ==
  /\ hpc = [r \in Request |-> "idle"]
  /\ page = [r \in Request |-> None]
  /\ act = [r \in Request |-> None]
  /\ target = [r \in Request |-> None]
  /\ response = [r \in Request |-> None]

-----------------------------------------------------------------------------
Continue(r, step) ==
  hpc' = [hpc EXCEPT ![r] = step] /\ UNCHANGED response

Respond(r, answer) ==
  /\ hpc' = [hpc EXCEPT ![r] = "answered"]
  /\ response' = [response EXCEPT ![r] = answer]

\* Handle: a request for the page of UUID c.  A handler that has found the
\* pending entry keeps it, whatever becomes of the map.
Open(r, c, step) ==
  /\ hpc[r] = "idle" /\ c \in issued
  /\ page' = [page EXCEPT ![r] = c]
  /\ \/ c \in pending /\ Continue(r, step)
     \/ c \notin pending /\ Respond(r, "notFound")
  /\ UNCHANGED <<managerVars, act, target>>

\* POST of the form.
Post(r, c) == Open(r, c, "edit")

\* The provider sends the user back with a code, through /ui/oauth/callback to
\* the page.
OAuthReturn(r, c) ==
  /\ c \in issued /\ connDriver[c] \in OAuthDriver
  /\ Open(r, c, "exchange")

\* handlePost edits the connector first, whichever button was pressed: the
\* posted name becomes Connector.Name.
EditName(c, n) == connName' = [connName EXCEPT ![c] = n]

SubmitCancel(r, n) ==
  /\ hpc[r] = "edit"
  /\ EditName(page[r], n)
  /\ Continue(r, "cancel")
  /\ UNCHANGED <<registryVars, connDriver, secretAt, pendNs, store, pending, done,
                 issued, page, act, target>>

\* User name or password is missing: the form is rendered again.
SubmitBlank(r, n) ==
  /\ hpc[r] = "edit"
  /\ EditName(page[r], n)
  /\ Respond(r, "form")
  /\ UNCHANGED <<registryVars, connDriver, secretAt, pendNs, store, pending, done,
                 issued, page, act, target>>

SubmitCredentials(r, n) ==
  /\ hpc[r] = "edit"
  /\ EditName(page[r], n)
  /\ Continue(r, "store")
  /\ UNCHANGED <<registryVars, connDriver, secretAt, pendNs, store, pending, done,
                 issued, page, act, target>>

\* The credentials are stored before they have been tried.
StoreSecret(r) ==
  /\ hpc[r] = "store" /\ secretAt[page[r]] # None
  /\ store' = store \cup {secretAt[page[r]]}
  /\ Continue(r, "verify")
  /\ UNCHANGED <<registryVars, objectVars, pending, done, issued, page, act, target>>

\* Fault: no return after the error of the store.
StoreFailsOn(r) ==
  /\ hpc[r] = "store"
  /\ Continue(r, "verify")
  /\ UNCHANGED <<managerVars, page, act, target>>

\* The store refuses them; a connector without a secret resource (OAuth) is a
\* nil dereference, which net/http recovers.
StoreFails(r) ==
  /\ hpc[r] = "store"
  /\ Respond(r, IF secretAt[page[r]] = None THEN "panic" ELSE "error")
  /\ UNCHANGED <<managerVars, page, act, target>>

\* The connector is opened with the new credentials and pinged.
Verified(r) ==
  /\ hpc[r] = "verify"
  /\ Continue(r, "complete")
  /\ UNCHANGED <<managerVars, page, act, target>>

VerifyFails(r) ==
  /\ hpc[r] = "verify"
  /\ Respond(r, "form")
  /\ UNCHANGED <<managerVars, page, act, target>>

\* handleBigQueryConnectionSetup with a code: an explicit secret holds the OAuth
\* client and has to be loadable; then the code is exchanged for a token.
Exchanged(r) ==
  /\ hpc[r] = "exchange"
  /\ secretAt[page[r]] # None => SecretExists(page[r])
  /\ Continue(r, "complete")
  /\ UNCHANGED <<managerVars, page, act, target>>

ExchangeFails(r) ==
  /\ hpc[r] = "exchange"
  /\ Respond(r, "error")
  /\ UNCHANGED <<managerVars, page, act, target>>

-----------------------------------------------------------------------------
\* CompletePending.  That the entry is gone is an error handleCompletion ignores.
CompletePending(r) ==
  /\ hpc[r] = "complete"
  /\ \/ /\ page[r] \in pending
        /\ act' = [act EXCEPT ![r] = "complete"]
        /\ Continue(r, "find")
     \/ /\ page[r] \notin pending
        /\ Respond(r, "completed")
        /\ UNCHANGED act
  /\ UNCHANGED <<managerVars, page, target>>

\* Fault: the shared namespace in place of the one of the page.
FindNamespaceShared(r) ==
  /\ hpc[r] = "find"
  /\ LET o == namespaces[DefaultNs] IN
     /\ target' = [target EXCEPT ![r] = o]
     /\ Continue(r, IF o = None THEN "close" ELSE "activate")
  /\ UNCHANGED <<managerVars, page, act>>

\* The namespace is looked up again by its name, and need not be there.
FindNamespace(r) ==
  /\ hpc[r] = "find"
  /\ LET o == namespaces[pendNs[page[r]]] IN
     /\ target' = [target EXCEPT ![r] = o]
     /\ Continue(r, IF o = None THEN "close" ELSE "activate")
  /\ UNCHANGED <<managerVars, page, act>>

\* The connector goes to the object that was found, under its name of now.
Activate(r) ==
  /\ hpc[r] = "activate"
  /\ PutConnector(target[r], page[r])
  /\ Continue(r, "close")
  /\ UNCHANGED <<namespaces, objectVars, store, pending, done, issued, page, act, target>>

\* Fault: the entry leaves the map before its channel is closed.
CancelDeletesFirst(r) ==
  /\ hpc[r] = "cancel"
  /\ pending' = pending \ {page[r]}
  /\ act' = [act EXCEPT ![r] = "cancel"]
  /\ Continue(r, "close")
  /\ UNCHANGED <<registryVars, objectVars, store, done, issued, page, target>>

\* CancelPending.
CancelPending(r) ==
  /\ hpc[r] = "cancel"
  /\ \/ /\ page[r] \in pending
        /\ act' = [act EXCEPT ![r] = "cancel"]
        /\ Continue(r, "close")
     \/ /\ page[r] \notin pending
        /\ Respond(r, "cancelled")
        /\ UNCHANGED act
  /\ UNCHANGED <<managerVars, page, target>>

\* Fault: the entry stays in the map.
AfterCloseKeeps(r) ==
  Respond(r, IF act[r] = "cancel" THEN "cancelled" ELSE "completed")

\* What follows Close: CancelPending goes on to remove the entry.
AfterClose(r) ==
  \/ act[r] = "cancel" /\ Continue(r, "delete")
  \/ act[r] # "cancel" /\ Respond(r, "completed")

\* Fault: no way on when the channel has been closed before.
CloseCheckBlocks(r) ==
  /\ hpc[r] = "close" /\ page[r] \in pending \ done
  /\ Continue(r, "closing")
  /\ UNCHANGED <<managerVars, page, act, target>>

\* PendingSecrets.Close: look the entry up and test the channel ...
CloseCheck(r) ==
  /\ hpc[r] = "close"
  /\ \/ page[r] \in pending \ done /\ Continue(r, "closing")
     \/ page[r] \notin pending \ done /\ AfterClose(r)
  /\ UNCHANGED <<managerVars, page, act, target>>

\* ... and close it.  To close a closed channel is a panic.
CloseDone(r) ==
  /\ hpc[r] = "closing"
  /\ \/ page[r] \in done /\ Respond(r, "panic")
     \/ page[r] \notin done /\ AfterClose(r)
  /\ done' = done \cup {page[r]}
  /\ UNCHANGED <<registryVars, objectVars, store, pending, issued, page, act, target>>

\* CancelPending removes the entry last.
DeletePending(r) ==
  /\ hpc[r] = "delete"
  /\ pending' = pending \ {page[r]}
  /\ Respond(r, "cancelled")
  /\ UNCHANGED <<registryVars, objectVars, store, done, issued, page, act, target>>

-----------------------------------------------------------------------------
\* A user, or the browser, sends a request.
SendRequest(r) == \E c \in Call : Post(r, c) \/ OAuthReturn(r, c)

\* A request the server has accepted.
HandlerStep(r) ==
  \/ \E n \in Name : SubmitCancel(r, n) \/ SubmitBlank(r, n) \/ SubmitCredentials(r, n)
  \/ StoreSecret(r) \/ StoreFails(r)
  \/ Verified(r) \/ VerifyFails(r)
  \/ Exchanged(r) \/ ExchangeFails(r)
  \/ CompletePending(r) \/ FindNamespace(r) \/ Activate(r)
  \/ CancelPending(r)
  \/ CloseCheck(r) \/ CloseDone(r) \/ DeletePending(r)
=============================================================================
