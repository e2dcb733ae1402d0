--------------------------- MODULE CredentialProofs ---------------------------
(***************************************************************************)
(* Secrets: where they are stored, and what it takes for a call to be told *)
(* that its connector is active.  For any number of calls, requests and    *)
(* namespaces.                                                             *)
(***************************************************************************)
EXTENDS SqlKitProofs

-----------------------------------------------------------------------------
(* Where secrets are stored.  Where a connector keeps its secret follows from *)
(* its definition, which does not change any more, and the store only grows   *)
(* by what is posted on a page.                                               *)

SecretInv ==
  /\ \A c \in Call :
       secretAt[c] # None => def[c] # None /\ secretAt[c] = SecretResource(Home(c), def[c])
  /\ \A p \in store \ Persisted : \E c \in issued : secretAt[c] = p

LEMMA InitSecretInv == Init => SecretInv
BY ManagerAssumption DEF Init, ManagerInit, SecretInv

LEMMA NextSecretInv == TypeInv /\ SecretInv /\ [Next]_vars => SecretInv'
<1> SUFFICES ASSUME TypeInv, SecretInv, [Next]_vars PROVE SecretInv'
    OBVIOUS
<1>1. ASSUME NEW c \in Call, SetConnection(c) \/ FormAccepted(c)
      PROVE  SecretInv'
  <2>1. /\ UNCHANGED <<secretAt, store, issued, caller>>
        /\ \A k \in Call \ {c} : def'[k] = def[k]
        BY <1>1 DEF SetConnection, FormAccepted, managerVars, objectVars, TypeInv, TypeOK,
                    ServiceTypeOK
  <2>2. secretAt[c] = None
        BY <1>1 DEF SetConnection, FormAccepted, TypeInv, CallInv, Early, SecretInv
  <2> QED
      BY <2>1, <2>2 DEF SecretInv, SecretResource, DefaultSecretURL, Home
<1>2. ASSUME NEW c \in Call, GeneratePending(c)
      PROVE  SecretInv'
  <2>1. /\ c \notin issued /\ def[c] # None
        /\ UNCHANGED <<issued, store, caller, def>>
        BY <1>2 DEF GeneratePending, TypeInv, TypeOK, CallInv, Early, Mid
  <2>2. secretAt' = [secretAt EXCEPT ![c] = SecretResource(Home(c), def[c])]
        BY <1>2 DEF GeneratePending
  <2>3. /\ secretAt'[c] = SecretResource(Home(c), def[c])
        /\ \A k \in Call \ {c} : secretAt'[k] = secretAt[k]
        BY <2>2 DEF TypeInv, TypeOK, ManagerTypeOK
  <2>4. \A k \in Call : Home(k)' = Home(k)
        BY <2>1 DEF Home
  <2>5. \A k \in Call : SecretResource(Home(k), def[k])' = SecretResource(Home(k), def[k])
        BY <2>1, <2>4 DEF SecretResource, DefaultSecretURL
  <2>6. \A p \in store \ Persisted : \E k \in issued : secretAt'[k] = p
        BY <2>1, <2>3 DEF SecretInv, TypeInv, TypeOK, ManagerTypeOK
  <2> QED
      BY <2>1, <2>3, <2>5, <2>6 DEF SecretInv
<1>3. ASSUME NEW c \in Call, SecretMissing(c)
      PROVE  SecretInv'
      BY <1>3 DEF SecretMissing, SecretInv, objectVars, Home, SecretResource, DefaultSecretURL
<1>4. ASSUME NEW r \in Request, StoreSecret(r), UNCHANGED callVars
      PROVE  SecretInv'
      BY <1>4 DEF StoreSecret, SecretInv, objectVars, callVars, Home, SecretResource,
                  DefaultSecretURL, TypeInv, RequestInv
<1>5. ASSUME UNCHANGED <<secretAt, store, issued, caller, def>>
      PROVE  SecretInv'
      BY <1>5 DEF SecretInv, Home, SecretResource, DefaultSecretURL
<1>6. ASSUME NEW c \in Call, UserStep(c), ~SetConnection(c), ~FormAccepted(c)
      PROVE  UNCHANGED <<secretAt, store, issued, caller, def>>
      BY <1>6 DEF UserStep, SetIncomplete, SetRejected, UseConnection,
                  ListConnections, FormRefused, FormIgnored,
                  ElicitAccepted, ElicitRejected, WaitCancelled, managerVars, objectVars
<1>7. ASSUME NEW c \in Call, ServerStep(c), ~GeneratePending(c), ~SecretMissing(c)
      PROVE  UNCHANGED <<secretAt, store, issued, caller, def>>
      BY <1>7 DEF ServerStep, GetNamespace, CreateNamespace, Register, SecretFound,
                  WaitReleased, WaitTimedOut, RecheckFound, RecheckMissing, Reput, Resume,
                  managerVars, objectVars
<1>8. ASSUME NEW r \in Request, SendRequest(r), UNCHANGED callVars
      PROVE  UNCHANGED <<secretAt, store, issued, caller, def>>
      BY <1>8 DEF SendRequest, Post, OAuthReturn, Open, managerVars, objectVars, callVars
<1>9. ASSUME NEW r \in Request, HandlerStep(r), ~StoreSecret(r), UNCHANGED callVars
      PROVE  UNCHANGED <<secretAt, store, issued, caller, def>>
      BY <1>9 DEF HandlerStep, SubmitCancel, SubmitBlank, SubmitCredentials, StoreFails,
                  Verified, VerifyFails, Exchanged, ExchangeFails, CompletePending,
                  FindNamespace, Activate, CancelPending, CloseCheck, CloseDone, DeletePending,
                  managerVars, objectVars, callVars
<1>10. ASSUME NEW ns \in Namespace, NEW n \in Name, RemoveConnector(ns, n)
       PROVE  UNCHANGED <<secretAt, store, issued, caller, def>>
      BY <1>10 DEF RemoveConnector, Remove, objectVars, callVars
<1>11. CASE UNCHANGED vars
      BY <1>5, <1>11 DEF vars, managerVars, objectVars, callVars
<1> QED
    BY SqlKitAssumption, <1>1, <1>2, <1>3, <1>4, <1>5, <1>6, <1>7, <1>8, <1>9, <1>10, <1>11
       DEF Next, UserOfCall, ServerOfCall, UserOfPage, Handler

LEMMA SecretInvPlaces == TypeInv /\ SecretInv => SecretWhereDefined
<1> SUFFICES ASSUME TypeInv, SecretInv,
                    NEW ns \in Namespace, NEW d \in Driver, NEW n \in Name,
                    DefaultSecretURL(ns, d, n) \in store \ Persisted
             PROVE  \E c \in issued :
                      /\ secretAt[c] = DefaultSecretURL(ns, d, n)
                      /\ \/ def[c].secretURL = secretAt[c]
                         \/ Home(c) = ns /\ def[c].driver = d /\ def[c].name = n
    BY DEF SecretWhereDefined
<1>1. PICK c \in issued : secretAt[c] = DefaultSecretURL(ns, d, n)
      BY DEF SecretInv
<1>2. c \in Call /\ secretAt[c] # None
      BY <1>1, ManagerAssumption DEF TypeInv, TypeOK, ManagerTypeOK, DefaultSecretURL, Place
<1>3. secretAt[c] = SecretResource(Home(c), def[c])
      BY <1>2 DEF SecretInv
<1>4. CASE def[c].secretURL # None \/ def[c].driver \in OAuthDriver
  <2>1. def[c].secretURL = secretAt[c]
        BY <1>3, <1>4 DEF SecretResource
  <2> QED
      BY <1>1, <2>1
<1>5. CASE ~(def[c].secretURL # None \/ def[c].driver \in OAuthDriver)
  <2>1. <<def[c].driver, Home(c), def[c].name>> = <<d, ns, n>>
        BY <1>1, <1>3, <1>5 DEF SecretResource, DefaultSecretURL
  <2> QED
      BY <1>1, <2>1
<1> QED
    BY <1>4, <1>5

\* A secret at a default location was there before the start, or was submitted on a
\* page of a call whose definition says so: by its driver and name in the namespace of
\* its caller, or by spelling the location out.
THEOREM SecretsWhereDefined == Spec => []SecretWhereDefined
BY SpecTypeInv, InitSecretInv, NextSecretInv, SecretInvPlaces, PTL DEF Spec

-----------------------------------------------------------------------------
(* What "active" takes. *)

\* The connector needs no password, or has one, or somebody gave up on it.
Settled(c) ==
  \/ connDriver[c] \in OAuthDriver
  \/ SecretExists(c)
  \/ Cancelling(c)

CredInv ==
  /\ \A c \in Call : outcome[c] = "active" \/ pc[c] \in {"recheck", "reput"} => Settled(c)
  /\ \A c \in Call : outcome[c] # None => pc[c] \in {"resume", "returned"}
  /\ \A c \in done : c \in issued /\ Settled(c)
  /\ \A r \in Request :
       /\ act[r] = "cancel" => hpc[r] \in {"close", "closing", "delete", "answered"}
       /\ hpc[r] = "exchange" => connDriver[page[r]] \in OAuthDriver
       /\ hpc[r] \in {"verify", "complete", "find", "activate"} =>
            connDriver[page[r]] \in OAuthDriver \/ SecretExists(page[r])
       /\ hpc[r] \in {"close", "closing"} => Settled(page[r])

LEMMA InitCredInv == Init => CredInv
<1> SUFFICES ASSUME Init PROVE CredInv
    OBVIOUS
<1> USE ServiceAssumption, InteractionAssumption
    DEF Init, ManagerInit, ServiceInit, InteractionInit
<1>1. \A c \in Call : outcome[c] = None /\ pc[c] = "new" /\ None # "active"
      OBVIOUS
<1>2. \A r \in Request : act[r] # "cancel" /\ hpc[r] = "idle"
      OBVIOUS
<1>3. done = {}
      OBVIOUS
<1> QED
    BY <1>1, <1>2, <1>3 DEF CredInv

\* To open a page takes nothing from what has been settled.
LEMMA OpenKeepsSettled ==
  ASSUME TypeInv, CredInv, NEW r \in Request, NEW c \in Call, NEW step, Open(r, c, step),
         NEW k \in Call, Settled(k)
  PROVE  Settled(k)'
<1>1. /\ page' = [page EXCEPT ![r] = c] /\ act' = act /\ hpc[r] = "idle"
      /\ connDriver' = connDriver /\ secretAt' = secretAt /\ store' = store
      BY DEF Open, managerVars, objectVars
<1>2. act[r] # "cancel"
      BY <1>1 DEF CredInv
<1>3. CASE Cancelling(k)
  <2>1. PICK q \in Request : page[q] = k /\ act[q] = "cancel"
        BY <1>3 DEF Cancelling
  <2>2. q # r /\ page'[q] = k /\ act'[q] = "cancel"
        BY <1>1, <1>2, <2>1 DEF TypeInv, TypeOK, InteractionTypeOK
  <2> QED
      BY <2>2 DEF Settled, Cancelling
<1>4. CASE ~Cancelling(k)
      BY <1>1, <1>4 DEF Settled, SecretExists
<1> QED
    BY <1>3, <1>4

LEMMA OpenKeepsCred ==
  ASSUME TypeInv, CredInv, NEW r \in Request, NEW c \in Call, NEW step \in {"edit", "exchange"},
         Open(r, c, step), UNCHANGED callVars,
         step = "exchange" => connDriver[c] \in OAuthDriver
  PROVE  CredInv'
<1>1. /\ page' = [page EXCEPT ![r] = c] /\ act' = act /\ hpc[r] = "idle" /\ done' = done
      /\ issued' = issued /\ connDriver' = connDriver /\ secretAt' = secretAt /\ store' = store
      /\ outcome' = outcome /\ pc' = pc
      BY DEF Open, managerVars, objectVars, callVars
<1>2. hpc' = [hpc EXCEPT ![r] = step] \/ hpc' = [hpc EXCEPT ![r] = "answered"]
      BY DEF Open, Continue, Respond
<1>3. \A k \in Call : Settled(k) => Settled(k)'
      BY OpenKeepsSettled
<1>4. done \in SUBSET Call
      BY DEF TypeInv, TypeOK, ManagerTypeOK
<1>5. ASSUME NEW q \in Request, q # r
      PROVE  hpc'[q] = hpc[q] /\ page'[q] = page[q] /\ (hpc[q] # "idle" => page[q] \in Call)
      BY <1>1, <1>2, <1>5 DEF TypeInv, TypeOK, InteractionTypeOK, RequestInv
<1>6. hpc'[r] \in {"edit", "exchange", "answered"} /\ page'[r] = c /\ act[r] # "cancel"
      /\ (hpc'[r] = "exchange" => connDriver[c] \in OAuthDriver)
      BY <1>1, <1>2 DEF TypeInv, TypeOK, InteractionTypeOK, CredInv
<1>7. \A k \in Call : outcome'[k] = "active" \/ pc'[k] \in {"recheck", "reput"} => Settled(k)'
      BY <1>1, <1>3 DEF CredInv
<1>8. \A k \in done' : k \in issued' /\ Settled(k)'
      BY <1>1, <1>3, <1>4 DEF CredInv
<1>9. ASSUME NEW q \in Request
      PROVE  /\ act'[q] = "cancel" => hpc'[q] \in {"close", "closing", "delete", "answered"}
             /\ hpc'[q] = "exchange" => connDriver'[page'[q]] \in OAuthDriver
             /\ hpc'[q] \in {"verify", "complete", "find", "activate"} =>
                  connDriver'[page'[q]] \in OAuthDriver \/ SecretExists(page[q])'
      BY <1>1, <1>5, <1>6 DEF CredInv, SecretExists
<1>10. ASSUME NEW q \in Request, hpc'[q] \in {"close", "closing"}
       PROVE  Settled(page[q])'
  <2>1. q # r /\ hpc[q] \in {"close", "closing"} /\ page'[q] = page[q] /\ page[q] \in Call
        BY <1>5, <1>6, <1>10
  <2>2. Settled(page[q])'
        BY <1>1, <1>3, <2>1 DEF CredInv, Settled, SecretExists, Cancelling
  <2> QED
      BY <2>2
<1> QED
    BY <1>1, <1>7, <1>8, <1>9, <1>10 DEF CredInv

LEMMA NextCredInv == TypeInv /\ CredInv /\ [Next]_vars => CredInv'
<1> SUFFICES ASSUME TypeInv, CredInv, [Next]_vars PROVE CredInv'
    OBVIOUS
<1> USE DEF TypeInv, TypeOK, ManagerTypeOK, ServiceTypeOK, InteractionTypeOK, CallInv,
            RequestInv, CredInv, Settled, Cancelling, SecretExists,
            Early, Mid, Goto, Answer, Continue, Respond, AfterClose,
            managerVars, registryVars, objectVars, callVars, requestVars
<1>1. ASSUME NEW c \in Call, SetConnection(c), UNCHANGED requestVars
      PROVE  CredInv'
      BY <1>1 DEF SetConnection
<1>2. ASSUME NEW c \in Call, SetIncomplete(c), UNCHANGED requestVars
      PROVE  CredInv'
      BY <1>2 DEF SetIncomplete
<1>3. ASSUME NEW c \in Call, SetRejected(c), UNCHANGED requestVars
      PROVE  CredInv'
      BY <1>3 DEF SetRejected
<1>4. ASSUME NEW c \in Call, NEW n \in Name, UseConnection(c, n), UNCHANGED requestVars
      PROVE  CredInv'
  <2>1. CASE Found(c, n)
        BY <1>4, <2>1 DEF UseConnection
  <2>2. CASE ~Found(c, n) /\ caller[c].ns # None /\ caller[c].elicits
        BY <1>4, <2>2 DEF UseConnection
  <2>3. CASE ~Found(c, n) /\ (caller[c].ns = None \/ ~caller[c].elicits)
    <3>1. /\ outcome' = [outcome EXCEPT ![c] = "error"] /\ pc' = [pc EXCEPT ![c] = "returned"]
          /\ managerVars' = managerVars
          BY <1>4, <2>3 DEF UseConnection
    <3> QED
        BY <1>4, <3>1
  <2> QED
      BY <2>1, <2>2, <2>3
<1>5. ASSUME NEW c \in Call, ListConnections(c), UNCHANGED requestVars
      PROVE  CredInv'
      BY <1>5 DEF ListConnections
<1>6. ASSUME NEW c \in Call, FormAccepted(c), UNCHANGED requestVars
      PROVE  CredInv'
      BY <1>6 DEF FormAccepted
<1>7. ASSUME NEW c \in Call, FormRefused(c), UNCHANGED requestVars
      PROVE  CredInv'
      BY <1>7 DEF FormRefused
<1>8. ASSUME NEW c \in Call, FormIgnored(c), UNCHANGED requestVars
      PROVE  CredInv'
      BY <1>8 DEF FormIgnored
<1>9. ASSUME NEW c \in Call, ElicitAccepted(c), UNCHANGED requestVars
      PROVE  CredInv'
      BY <1>9 DEF ElicitAccepted
<1>10. ASSUME NEW c \in Call, ElicitRejected(c), UNCHANGED requestVars
      PROVE  CredInv'
      BY <1>10 DEF ElicitRejected
<1>11. ASSUME NEW c \in Call, WaitCancelled(c), UNCHANGED requestVars
      PROVE  CredInv'
      BY <1>11 DEF WaitCancelled
<1>12. ASSUME NEW c \in Call, GetNamespace(c), UNCHANGED requestVars
      PROVE  CredInv'
      BY <1>12 DEF GetNamespace
<1>13. ASSUME NEW c \in Call, CreateNamespace(c), UNCHANGED requestVars
      PROVE  CredInv'
      BY <1>13 DEF CreateNamespace
<1>14. ASSUME NEW c \in Call, GeneratePending(c), UNCHANGED requestVars
      PROVE  CredInv'
  <2>1. outcome[c] = None /\ c \notin issued /\ None # "active"
        BY <1>14, ServiceAssumption DEF GeneratePending
  <2>2. \A r \in Request : hpc[r] # "idle" => page[r] # c
        BY <2>1
  <2>3. \A k \in Call \ {c} : Settled(k) => Settled(k)'
        BY <1>14 DEF GeneratePending
  <2> QED
      BY <1>14, <2>1, <2>2, <2>3 DEF GeneratePending
<1>15. ASSUME NEW c \in Call, Register(c), UNCHANGED requestVars
      PROVE  CredInv'
      BY <1>15 DEF Register
<1>16. ASSUME NEW c \in Call, SecretFound(c), UNCHANGED requestVars
      PROVE  CredInv'
      BY <1>16 DEF SecretFound
<1>17. ASSUME NEW c \in Call, SecretMissing(c), UNCHANGED requestVars
      PROVE  CredInv'
      BY SMTT(30), <1>17 DEF SecretMissing
<1>18. ASSUME NEW c \in Call, WaitReleased(c), UNCHANGED requestVars
      PROVE  CredInv'
      BY <1>18 DEF WaitReleased
<1>19. ASSUME NEW c \in Call, WaitTimedOut(c), UNCHANGED requestVars
      PROVE  CredInv'
      BY <1>19 DEF WaitTimedOut
<1>20. ASSUME NEW c \in Call, RecheckFound(c), UNCHANGED requestVars
      PROVE  CredInv'
      BY <1>20 DEF RecheckFound
<1>21. ASSUME NEW c \in Call, RecheckMissing(c), UNCHANGED requestVars
      PROVE  CredInv'
      BY <1>21 DEF RecheckMissing
<1>22. ASSUME NEW c \in Call, Reput(c), UNCHANGED requestVars
      PROVE  CredInv'
      BY <1>22 DEF Reput
<1>23. ASSUME NEW c \in Call, Resume(c), UNCHANGED requestVars
      PROVE  CredInv'
      BY <1>23 DEF Resume
<1>24. ASSUME NEW r \in Request, NEW c \in Call, Post(r, c), UNCHANGED callVars
      PROVE  CredInv'
      BY <1>24, OpenKeepsCred DEF Post
<1>25. ASSUME NEW r \in Request, NEW c \in Call, OAuthReturn(r, c), UNCHANGED callVars
      PROVE  CredInv'
      BY <1>25, OpenKeepsCred DEF OAuthReturn
<1>26. ASSUME NEW r \in Request, NEW n \in Name, SubmitCancel(r, n), UNCHANGED callVars
      PROVE  CredInv'
      BY <1>26 DEF SubmitCancel, EditName
<1>27. ASSUME NEW r \in Request, NEW n \in Name, SubmitBlank(r, n), UNCHANGED callVars
      PROVE  CredInv'
      BY <1>27 DEF SubmitBlank, EditName
<1>28. ASSUME NEW r \in Request, NEW n \in Name, SubmitCredentials(r, n), UNCHANGED callVars
      PROVE  CredInv'
      BY <1>28 DEF SubmitCredentials, EditName
<1>29. ASSUME NEW r \in Request, StoreSecret(r), UNCHANGED callVars
      PROVE  CredInv'
      BY <1>29 DEF StoreSecret
<1>30. ASSUME NEW r \in Request, StoreFails(r), UNCHANGED callVars
      PROVE  CredInv'
      BY <1>30 DEF StoreFails
<1>31. ASSUME NEW r \in Request, Verified(r), UNCHANGED callVars
      PROVE  CredInv'
      BY <1>31 DEF Verified
<1>32. ASSUME NEW r \in Request, VerifyFails(r), UNCHANGED callVars
      PROVE  CredInv'
      BY <1>32 DEF VerifyFails
<1>33. ASSUME NEW r \in Request, Exchanged(r), UNCHANGED callVars
      PROVE  CredInv'
      BY <1>33 DEF Exchanged
<1>34. ASSUME NEW r \in Request, ExchangeFails(r), UNCHANGED callVars
      PROVE  CredInv'
      BY <1>34 DEF ExchangeFails
<1>35. ASSUME NEW r \in Request, CompletePending(r), UNCHANGED callVars
      PROVE  CredInv'
  <2>1. CASE page[r] \in pending
        BY <1>35, <2>1 DEF CompletePending
  <2>2. CASE page[r] \notin pending
        BY <1>35, <2>2 DEF CompletePending
  <2> QED
      BY <2>1, <2>2
<1>f. ASSUME NEW r \in Request, FindNamespace(r), UNCHANGED callVars
      PROVE  CredInv'
      BY <1>f DEF FindNamespace
<1>36. ASSUME NEW r \in Request, Activate(r), UNCHANGED callVars
      PROVE  CredInv'
      BY <1>36 DEF Activate
<1>37. ASSUME NEW r \in Request, CancelPending(r), UNCHANGED callVars
      PROVE  CredInv'
  <2>1. CASE page[r] \in pending
        BY <1>37, <2>1 DEF CancelPending
  <2>2. CASE page[r] \notin pending
        BY <1>37, <2>2 DEF CancelPending
  <2> QED
      BY <2>1, <2>2
<1>38. ASSUME NEW r \in Request, CloseCheck(r), UNCHANGED callVars
      PROVE  CredInv'
      BY <1>38 DEF CloseCheck
<1>39. ASSUME NEW r \in Request, CloseDone(r), UNCHANGED callVars
      PROVE  CredInv'
      BY <1>39 DEF CloseDone
<1>40. ASSUME NEW r \in Request, DeletePending(r), UNCHANGED callVars
      PROVE  CredInv'
      BY <1>40 DEF DeletePending
<1>41. ASSUME NEW ns \in Namespace, NEW n \in Name, RemoveConnector(ns, n)
      PROVE  CredInv'
      BY <1>41 DEF RemoveConnector, Remove
<1>42. CASE UNCHANGED vars
      BY <1>42 DEF vars
<1> QED
    BY SqlKitAssumption,
       <1>1, <1>2, <1>3, <1>4, <1>5, <1>6, <1>7, <1>8, <1>9, <1>10,
       <1>11, <1>12, <1>13, <1>14, <1>15, <1>16, <1>17, <1>18, <1>19, <1>20,
       <1>21, <1>22, <1>23, <1>24, <1>25, <1>26, <1>27, <1>28, <1>29, <1>30,
       <1>31, <1>32, <1>33, <1>34, <1>35, <1>f, <1>36, <1>37, <1>38, <1>39, <1>40,
       <1>41, <1>42
       DEF Next, UserOfCall, ServerOfCall, UserOfPage, Handler, UserStep, ServerStep,
           SendRequest, HandlerStep

LEMMA SpecCredInv == Spec => []CredInv
BY SpecTypeInv, InitCredInv, NextCredInv, PTL DEF Spec

\* A call that is told its connector is active has a password in the store, unless
\* its page was cancelled.
THEOREM ActiveHasCredential == Spec => []ActiveMeansCredential
<1>1. CredInv => ActiveMeansCredential
      BY DEF CredInv, Settled, ActiveMeansCredential
<1> QED
    BY <1>1, SpecCredInv, PTL
=============================================================================
