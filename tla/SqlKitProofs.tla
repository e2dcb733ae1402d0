----------------------------- MODULE SqlKitProofs -----------------------------
(***************************************************************************)
(* Proofs about SqlKit, for any number of calls, requests, namespaces,     *)
(* names and drivers.                                                      *)
(***************************************************************************)
EXTENDS SqlKit, TLAPS

-----------------------------------------------------------------------------
(* Types, and what a call and a request have by the time they get somewhere. *)

Early == {"new", "form"}
Mid   == {"namespace", "create", "generate"}

CallInv ==
  \A c \in Call :
    /\ pc[c] \in Early => def[c] = None
    /\ pc[c] \notin Early \cup {"resume", "returned"} => def[c] # None
    /\ def[c] # None /\ pc[c] \notin Mid =>
         connName[c] # None /\ connDriver[c] # None /\ pendNs[c] = Home(c)
    /\ pc[c] \notin Early \cup {"namespace", "create", "resume", "returned"} => nsRef[c] # None
    /\ caller[c].tool = "use" /\ pc[c] \notin {"new", "returned"} =>
         caller[c].ns # None /\ asked[c] # None
    /\ c \in issued => def[c] # None /\ pc[c] \notin Early \cup Mid \cup {"register", "check"}

RequestInv ==
  \A r \in Request :
    /\ hpc[r] # "idle" => page[r] # None
    /\ page[r] # None => page[r] \in issued
    /\ hpc[r] = "activate" => target[r] # None

TypeInv == TypeOK /\ CallInv /\ RequestInv

LEMMA InitTypeInv == Init => TypeInv
<1> SUFFICES ASSUME Init PROVE TypeInv
    OBVIOUS
<1> USE ManagerAssumption, ServiceAssumption DEF Init, ManagerInit, ServiceInit, InteractionInit
<1>1. ManagerTypeOK
      BY DEF ManagerTypeOK, Connector, NsObject
<1>2. ServiceTypeOK
      BY DEF ServiceTypeOK, CallStep
<1>3. InteractionTypeOK
      BY DEF InteractionTypeOK, HandlerPC
<1>4. CallInv
      BY DEF CallInv, Early, Mid
<1>5. RequestInv
      BY DEF RequestInv
<1> QED
    BY <1>1, <1>2, <1>3, <1>4, <1>5 DEF TypeInv, TypeOK

LEMMA HandlerTypes ==
  ASSUME InteractionTypeOK, NEW r \in Request, NEW step \in HandlerPC, NEW a \in Response,
         Continue(r, step) \/ Respond(r, a)
  PROVE  hpc' \in [Request -> HandlerPC] /\ response' \in [Request -> Response \cup {None}]
<1>1. CASE Continue(r, step)
      BY <1>1 DEF InteractionTypeOK, Continue
<1>2. CASE Respond(r, a)
      BY <1>2 DEF InteractionTypeOK, Respond, HandlerPC
<1> QED
    BY <1>1, <1>2

LEMMA CallTypes ==
  ASSUME ServiceTypeOK, NEW c \in Call, NEW step \in CallStep,
         NEW r \in {None, "active", "pending", "error"},
         (Goto(c, step) /\ UNCHANGED outcome) \/ Answer(c, r)
  PROVE  /\ pc' \in [Call -> CallStep]
         /\ outcome' \in [Call -> {None, "active", "pending", "error"}]
<1>1. CASE Goto(c, step) /\ UNCHANGED outcome
      BY <1>1 DEF ServiceTypeOK, Goto
<1>2. CASE Answer(c, r)
      BY <1>2 DEF ServiceTypeOK, Answer, Goto, CallStep
<1> QED
    BY <1>1, <1>2

\* The steps whose outcome is one of two, each typed through HandlerTypes or CallTypes.
LEMMA OpenTypes ==
  ASSUME InteractionTypeOK, NEW r \in Request, NEW c \in Call, NEW step \in HandlerPC,
         Open(r, c, step)
  PROVE  InteractionTypeOK'
<1>1. Continue(r, step) \/ Respond(r, "notFound")
      BY DEF Open
<1>2. hpc' \in [Request -> HandlerPC] /\ response' \in [Request -> Response \cup {None}]
      BY <1>1, HandlerTypes DEF Response
<1>3. /\ page' \in [Request -> Call \cup {None}] /\ act' \in [Request -> {None, "complete", "cancel"}]
      /\ target' \in [Request -> NsObject \cup {None}]
      BY DEF Open, InteractionTypeOK
<1> QED
    BY <1>2, <1>3 DEF InteractionTypeOK

LEMMA CompleteTypes ==
  ASSUME InteractionTypeOK, NEW r \in Request, CompletePending(r)
  PROVE  InteractionTypeOK'
<1>1. Continue(r, "find") \/ Respond(r, "completed")
      BY DEF CompletePending
<1>2. hpc' \in [Request -> HandlerPC] /\ response' \in [Request -> Response \cup {None}]
      BY <1>1, HandlerTypes DEF Response, HandlerPC
<1>3. /\ page' \in [Request -> Call \cup {None}] /\ act' \in [Request -> {None, "complete", "cancel"}]
      /\ target' \in [Request -> NsObject \cup {None}]
      BY DEF CompletePending, InteractionTypeOK
<1> QED
    BY <1>2, <1>3 DEF InteractionTypeOK

LEMMA CancelTypes ==
  ASSUME InteractionTypeOK, NEW r \in Request, CancelPending(r)
  PROVE  InteractionTypeOK'
<1>1. Continue(r, "close") \/ Respond(r, "cancelled")
      BY DEF CancelPending
<1>2. hpc' \in [Request -> HandlerPC] /\ response' \in [Request -> Response \cup {None}]
      BY <1>1, HandlerTypes DEF Response, HandlerPC
<1>3. /\ page' \in [Request -> Call \cup {None}] /\ act' \in [Request -> {None, "complete", "cancel"}]
      /\ target' \in [Request -> NsObject \cup {None}]
      BY DEF CancelPending, InteractionTypeOK
<1> QED
    BY <1>2, <1>3 DEF InteractionTypeOK

LEMMA CloseCheckTypes ==
  ASSUME InteractionTypeOK, NEW r \in Request, CloseCheck(r)
  PROVE  InteractionTypeOK'
<1>1. \/ Continue(r, "closing") \/ Respond(r, "completed")
      \/ Continue(r, "delete") \/ Respond(r, "completed")
      BY DEF CloseCheck, AfterClose
<1>2. hpc' \in [Request -> HandlerPC] /\ response' \in [Request -> Response \cup {None}]
      BY <1>1, HandlerTypes DEF Response, HandlerPC
<1> QED
    BY <1>2 DEF CloseCheck, InteractionTypeOK

LEMMA CloseTypes ==
  ASSUME InteractionTypeOK, NEW r \in Request, CloseDone(r)
  PROVE  InteractionTypeOK'
<1>1. \/ Continue(r, "delete") \/ Respond(r, "completed")
      \/ Continue(r, "delete") \/ Respond(r, "panic")
      BY DEF CloseDone, AfterClose
<1>2. hpc' \in [Request -> HandlerPC] /\ response' \in [Request -> Response \cup {None}]
      BY <1>1, HandlerTypes DEF Response, HandlerPC
<1>3. /\ page' \in [Request -> Call \cup {None}] /\ act' \in [Request -> {None, "complete", "cancel"}]
      /\ target' \in [Request -> NsObject \cup {None}]
      BY DEF CloseDone, InteractionTypeOK
<1> QED
    BY <1>2, <1>3 DEF InteractionTypeOK

LEMMA UseTypes ==
  ASSUME ManagerTypeOK, ServiceTypeOK, NEW c \in Call, NEW n \in Name, UseConnection(c, n)
  PROVE  ServiceTypeOK'
<1>1. \/ (Goto(c, "returned") /\ UNCHANGED outcome) \/ (Goto(c, "form") /\ UNCHANGED outcome)
      \/ Answer(c, "error")
      BY DEF UseConnection
<1>2. pc' \in [Call -> CallStep] /\ outcome' \in [Call -> {None, "active", "pending", "error"}]
      BY <1>1, CallTypes DEF CallStep
<1>3. conn' \in [Call -> Connector \cup {None}]
  <2>1. caller[c].ns \in Namespace \cup {None}
        BY ServiceAssumption DEF ServiceTypeOK
  <2>2. CASE Found(c, n)
    <3>1. Lookup(caller[c].ns, n) \in Connector \cup {None}
          BY <2>1, <2>2 DEF Found, Lookup, ManagerTypeOK
    <3> QED
        BY <2>2, <3>1 DEF UseConnection, ServiceTypeOK
  <2>3. CASE ~Found(c, n)
        BY <2>3 DEF UseConnection, ServiceTypeOK
  <2> QED
      BY <2>2, <2>3
<1>4. /\ caller' = caller /\ def' = def /\ nsRef' = nsRef
      /\ asked' \in [Call -> Name \cup {None}]
      BY DEF UseConnection, ServiceTypeOK
<1> QED
    BY <1>2, <1>3, <1>4 DEF ServiceTypeOK

LEMMA MissingTypes ==
  ASSUME ServiceTypeOK, NEW c \in Call, SecretMissing(c)
  PROVE  ServiceTypeOK'
<1>1. (Goto(c, "elicit") /\ UNCHANGED outcome) \/ Answer(c, "pending")
      BY DEF SecretMissing
<1>2. pc' \in [Call -> CallStep] /\ outcome' \in [Call -> {None, "active", "pending", "error"}]
      BY <1>1, CallTypes DEF CallStep
<1> QED
    BY <1>2 DEF SecretMissing, ServiceTypeOK

LEMMA PutTypes ==
  ASSUME connectors \in [NsObject -> [Name -> Connector \cup {None}]],
         NEW o \in NsObject, NEW c \in Call, PutConnector(o, c)
  PROVE  connectors' \in [NsObject -> [Name -> Connector \cup {None}]]
<1> DEFINE m == [connectors[o] EXCEPT ![connName[c]] = c]
<1>1. m \in [Name -> Connector \cup {None}]
      BY DEF Connector
<1>2. connectors' = [connectors EXCEPT ![o] = m]
      BY DEF PutConnector
<1> HIDE DEF m
<1> QED
    BY <1>1, <1>2

LEMMA NoneIsNothing ==
  /\ None \notin Name /\ None \notin Driver /\ None \notin Namespace
  /\ None \notin Call /\ None \notin Definition
BY ManagerAssumption, ServiceAssumption

LEMMA HomeIsNamespace ==
  ASSUME ServiceTypeOK, NEW c \in Call
  PROVE  Home(c) \in Namespace /\ caller[c].ns \in Namespace \cup {None}
BY ManagerAssumption, ServiceAssumption DEF ServiceTypeOK, Home

LEMMA SecretResourceIsPlace ==
  ASSUME NEW d \in Definition, NEW ns \in Namespace
  PROVE  /\ SecretResource(ns, d) \in Place \cup {None}
         /\ d.name \in Name /\ d.driver \in Driver
BY ServiceAssumption DEF SecretResource, DefaultSecretURL, Place

LEMMA FindTypes ==
  ASSUME TypeInv, NEW r \in Request, FindNamespace(r)
  PROVE  InteractionTypeOK' /\ target'[r] = namespaces[pendNs[page[r]]]
<1>1. Continue(r, "close") \/ Continue(r, "activate")
      BY DEF FindNamespace
<1>2. hpc' \in [Request -> HandlerPC] /\ response' \in [Request -> Response \cup {None}]
      BY <1>1, HandlerTypes DEF Response, HandlerPC, TypeInv, TypeOK
<1>3. page[r] \in Call /\ pendNs[page[r]] \in Namespace
  <2>1. page[r] \in Call /\ page[r] \in issued
        BY DEF FindNamespace, TypeInv, TypeOK, InteractionTypeOK, RequestInv
  <2>2. pendNs[page[r]] = Home(page[r])
        BY <2>1 DEF TypeInv, CallInv
  <2> QED
      BY <2>1, <2>2, HomeIsNamespace DEF TypeInv, TypeOK
<1>4. namespaces[pendNs[page[r]]] \in NsObject \cup {None}
      BY <1>3 DEF TypeInv, TypeOK, ManagerTypeOK
<1>5. target' = [target EXCEPT ![r] = namespaces[pendNs[page[r]]]]
      BY DEF FindNamespace
<1>6. target' \in [Request -> NsObject \cup {None}] /\ target'[r] = namespaces[pendNs[page[r]]]
      BY <1>4, <1>5 DEF TypeInv, TypeOK, InteractionTypeOK
<1> QED
    BY <1>2, <1>6 DEF FindNamespace, TypeInv, TypeOK, InteractionTypeOK

LEMMA NextTypeInv == TypeInv /\ [Next]_vars => TypeInv'
<1> SUFFICES ASSUME TypeInv, [Next]_vars PROVE TypeInv'
    OBVIOUS
<1> USE DEF TypeInv, TypeOK, ManagerTypeOK, ServiceTypeOK, InteractionTypeOK, CallInv, RequestInv,
        CallStep, HandlerPC, Response, Early, Mid, Goto, Answer, Continue, Respond, AfterClose,
        Home, managerVars, registryVars, objectVars, callVars, requestVars
<1>h. \A c \in Call : Home(c) \in Namespace /\ caller[c].ns \in Namespace \cup {None}
      BY HomeIsNamespace
<1>1. ASSUME NEW c \in Call,
             SetConnection(c), UNCHANGED requestVars
      PROVE  TypeInv'
      BY <1>1, NoneIsNothing DEF SetConnection
<1>2. ASSUME NEW c \in Call,
             SetIncomplete(c), UNCHANGED requestVars
      PROVE  TypeInv'
      BY <1>2 DEF SetIncomplete
<1>3. ASSUME NEW c \in Call,
             SetRejected(c), UNCHANGED requestVars
      PROVE  TypeInv'
      BY <1>3 DEF SetRejected
<1>4. ASSUME NEW c \in Call, NEW n \in Name,
             UseConnection(c, n), UNCHANGED requestVars
      PROVE  TypeInv'
  <2>1. ManagerTypeOK'
        BY <1>4 DEF UseConnection, Found, Lookup, Connector, NsObject
  <2>2. ServiceTypeOK'
        BY <1>4, UseTypes
  <2>3. InteractionTypeOK'
        BY <1>4 DEF UseConnection, Found, Lookup, Connector, NsObject
  <2>4. CallInv'
        BY <1>4, NoneIsNothing DEF UseConnection, Found, Lookup, Connector, NsObject
  <2>5. RequestInv'
        BY <1>4 DEF UseConnection, Found, Lookup, Connector, NsObject
  <2> QED
      BY <2>1, <2>2, <2>3, <2>4, <2>5
<1>5. ASSUME NEW c \in Call,
             ListConnections(c), UNCHANGED requestVars
      PROVE  TypeInv'
      BY <1>5 DEF ListConnections
<1>6. ASSUME NEW c \in Call,
             FormAccepted(c), UNCHANGED requestVars
      PROVE  TypeInv'
      BY <1>6, NoneIsNothing DEF FormAccepted
<1>7. ASSUME NEW c \in Call,
             FormRefused(c), UNCHANGED requestVars
      PROVE  TypeInv'
      BY <1>7 DEF FormRefused
<1>8. ASSUME NEW c \in Call,
             FormIgnored(c), UNCHANGED requestVars
      PROVE  TypeInv'
      BY <1>8 DEF FormIgnored
<1>9. ASSUME NEW c \in Call,
             ElicitAccepted(c), UNCHANGED requestVars
      PROVE  TypeInv'
      BY <1>9 DEF ElicitAccepted
<1>10. ASSUME NEW c \in Call,
             ElicitRejected(c), UNCHANGED requestVars
      PROVE  TypeInv'
      BY <1>10 DEF ElicitRejected
<1>11. ASSUME NEW c \in Call,
             WaitCancelled(c), UNCHANGED requestVars
      PROVE  TypeInv'
      BY <1>11 DEF WaitCancelled
<1>12. ASSUME NEW c \in Call,
             GetNamespace(c), UNCHANGED requestVars
      PROVE  TypeInv'
      BY <1>12, <1>h DEF GetNamespace
<1>13. ASSUME NEW c \in Call,
             CreateNamespace(c), UNCHANGED requestVars
      PROVE  TypeInv'
      BY <1>13, <1>h, NoneIsNothing DEF CreateNamespace, NsObject
<1>14. ASSUME NEW c \in Call,
             GeneratePending(c), UNCHANGED requestVars
      PROVE  TypeInv'
  <2>1. /\ def[c] \in Definition /\ Home(c) \in Namespace
        /\ SecretResource(Home(c), def[c]) \in Place \cup {None}
        /\ def[c].name \in Name /\ def[c].driver \in Driver
    <3>1. def[c] \in Definition
          BY <1>14 DEF GeneratePending
    <3> QED
        BY <3>1, <1>h, SecretResourceIsPlace
  <2>2. ManagerTypeOK'
        BY <1>14, <2>1 DEF GeneratePending
  <2>3. ServiceTypeOK'
        BY <1>14 DEF GeneratePending
  <2>4. InteractionTypeOK'
        BY <1>14 DEF GeneratePending
  <2>5. CallInv'
        BY <1>14, <2>1, NoneIsNothing DEF GeneratePending
  <2>6. RequestInv'
        BY <1>14 DEF GeneratePending
  <2> QED
      BY <2>2, <2>3, <2>4, <2>5, <2>6
<1>15. ASSUME NEW c \in Call,
             Register(c), UNCHANGED requestVars
      PROVE  TypeInv'
  <2>1. ManagerTypeOK'
    <3>1. nsRef[c] \in NsObject /\ PutConnector(nsRef[c], c)
          BY <1>15 DEF Register
    <3>2. connectors' \in [NsObject -> [Name -> Connector \cup {None}]]
          BY <3>1, PutTypes
    <3> QED
        BY <1>15, <3>2 DEF Register
  <2>2. ServiceTypeOK'
        BY <1>15 DEF Register
  <2>3. InteractionTypeOK'
        BY <1>15 DEF Register
  <2>4. CallInv'
        BY <1>15 DEF Register
  <2>5. RequestInv'
        BY <1>15 DEF Register
  <2> QED
      BY <2>1, <2>2, <2>3, <2>4, <2>5
<1>16. ASSUME NEW c \in Call,
             SecretFound(c), UNCHANGED requestVars
      PROVE  TypeInv'
      BY <1>16 DEF SecretFound
<1>17. ASSUME NEW c \in Call,
             SecretMissing(c), UNCHANGED requestVars
      PROVE  TypeInv'
  <2>1. ManagerTypeOK'
        BY <1>17 DEF SecretMissing
  <2>2. ServiceTypeOK'
        BY <1>17, MissingTypes
  <2>3. InteractionTypeOK'
        BY <1>17 DEF SecretMissing
  <2>4. CallInv'
        BY <1>17 DEF SecretMissing
  <2>5. RequestInv'
        BY <1>17 DEF SecretMissing
  <2> QED
      BY <2>1, <2>2, <2>3, <2>4, <2>5
<1>18. ASSUME NEW c \in Call,
             WaitReleased(c), UNCHANGED requestVars
      PROVE  TypeInv'
      BY <1>18 DEF WaitReleased
<1>19. ASSUME NEW c \in Call,
             WaitTimedOut(c), UNCHANGED requestVars
      PROVE  TypeInv'
      BY <1>19 DEF WaitTimedOut
<1>20. ASSUME NEW c \in Call,
             RecheckFound(c), UNCHANGED requestVars
      PROVE  TypeInv'
      BY <1>20 DEF RecheckFound
<1>21. ASSUME NEW c \in Call,
             RecheckMissing(c), UNCHANGED requestVars
      PROVE  TypeInv'
      BY <1>21 DEF RecheckMissing
<1>22. ASSUME NEW c \in Call,
             Reput(c), UNCHANGED requestVars
      PROVE  TypeInv'
  <2>1. ManagerTypeOK'
    <3>1. nsRef[c] \in NsObject /\ PutConnector(nsRef[c], c)
          BY <1>22 DEF Reput
    <3>2. connectors' \in [NsObject -> [Name -> Connector \cup {None}]]
          BY <3>1, PutTypes
    <3> QED
        BY <1>22, <3>2 DEF Reput
  <2>2. ServiceTypeOK'
        BY <1>22 DEF Reput
  <2>3. InteractionTypeOK'
        BY <1>22 DEF Reput
  <2>4. CallInv'
        BY <1>22 DEF Reput
  <2>5. RequestInv'
        BY <1>22 DEF Reput
  <2> QED
      BY <2>1, <2>2, <2>3, <2>4, <2>5
<1>23. ASSUME NEW c \in Call,
             Resume(c), UNCHANGED requestVars
      PROVE  TypeInv'
  <2>1. CASE caller[c].tool = "use"
    <3>1. caller[c].ns \in Namespace /\ ResumeName(c) \in Name
          BY <1>23, <1>h, <2>1 DEF Resume, ResumeName
    <3>2. Lookup(caller[c].ns, ResumeName(c)) \in Connector \cup {None}
          BY <3>1 DEF Lookup
    <3> QED
        BY <1>23, <2>1, <3>2 DEF Resume
  <2>2. CASE caller[c].tool # "use"
        BY <1>23, <2>2 DEF Resume
  <2> QED
      BY <2>1, <2>2
<1>24. ASSUME NEW r \in Request, NEW c \in Call,
             Post(r, c), UNCHANGED callVars
      PROVE  TypeInv'
  <2>1. ManagerTypeOK'
        BY <1>24 DEF Post, Open
  <2>2. ServiceTypeOK'
        BY <1>24 DEF Post, Open
  <2>3. InteractionTypeOK'
        BY <1>24, OpenTypes DEF Post
  <2>4. CallInv'
        BY <1>24 DEF Post, Open
  <2>5. RequestInv'
        BY <1>24, NoneIsNothing DEF Post, Open
  <2> QED
      BY <2>1, <2>2, <2>3, <2>4, <2>5
<1>25. ASSUME NEW r \in Request, NEW c \in Call,
             OAuthReturn(r, c), UNCHANGED callVars
      PROVE  TypeInv'
  <2>1. ManagerTypeOK'
        BY <1>25 DEF OAuthReturn, Open
  <2>2. ServiceTypeOK'
        BY <1>25 DEF OAuthReturn, Open
  <2>3. InteractionTypeOK'
        BY <1>25, OpenTypes DEF OAuthReturn
  <2>4. CallInv'
        BY <1>25 DEF OAuthReturn, Open
  <2>5. RequestInv'
        BY <1>25, NoneIsNothing DEF OAuthReturn, Open
  <2> QED
      BY <2>1, <2>2, <2>3, <2>4, <2>5
<1>26. ASSUME NEW r \in Request, NEW n \in Name,
             SubmitCancel(r, n), UNCHANGED callVars
      PROVE  TypeInv'
      BY <1>26, NoneIsNothing DEF SubmitCancel, EditName
<1>27. ASSUME NEW r \in Request, NEW n \in Name,
             SubmitBlank(r, n), UNCHANGED callVars
      PROVE  TypeInv'
      BY <1>27, NoneIsNothing DEF SubmitBlank, EditName
<1>28. ASSUME NEW r \in Request, NEW n \in Name,
             SubmitCredentials(r, n), UNCHANGED callVars
      PROVE  TypeInv'
      BY <1>28, NoneIsNothing DEF SubmitCredentials, EditName
<1>29. ASSUME NEW r \in Request,
             StoreSecret(r), UNCHANGED callVars
      PROVE  TypeInv'
      BY <1>29 DEF StoreSecret, Place
<1>30. ASSUME NEW r \in Request,
             StoreFails(r), UNCHANGED callVars
      PROVE  TypeInv'
      BY <1>30 DEF StoreFails
<1>31. ASSUME NEW r \in Request,
             Verified(r), UNCHANGED callVars
      PROVE  TypeInv'
      BY <1>31 DEF Verified
<1>32. ASSUME NEW r \in Request,
             VerifyFails(r), UNCHANGED callVars
      PROVE  TypeInv'
      BY <1>32 DEF VerifyFails
<1>33. ASSUME NEW r \in Request,
             Exchanged(r), UNCHANGED callVars
      PROVE  TypeInv'
      BY <1>33 DEF Exchanged
<1>34. ASSUME NEW r \in Request,
             ExchangeFails(r), UNCHANGED callVars
      PROVE  TypeInv'
      BY <1>34 DEF ExchangeFails
<1>35. ASSUME NEW r \in Request,
             CompletePending(r), UNCHANGED callVars
      PROVE  TypeInv'
  <2>1. ManagerTypeOK'
        BY <1>35 DEF CompletePending
  <2>2. ServiceTypeOK'
        BY <1>35 DEF CompletePending
  <2>3. InteractionTypeOK'
        BY <1>35, CompleteTypes
  <2>4. CallInv'
        BY <1>35 DEF CompletePending
  <2>5. RequestInv'
        BY <1>35 DEF CompletePending
  <2> QED
      BY <2>1, <2>2, <2>3, <2>4, <2>5
<1>f. ASSUME NEW r \in Request,
             FindNamespace(r), UNCHANGED callVars
      PROVE  TypeInv'
  <2>1. ManagerTypeOK'
        BY <1>f DEF FindNamespace
  <2>2. ServiceTypeOK'
        BY <1>f DEF FindNamespace
  <2>3. InteractionTypeOK' /\ target'[r] = namespaces[pendNs[page[r]]]
        BY <1>f, FindTypes
  <2>4. CallInv'
        BY <1>f DEF FindNamespace
  <2>5. RequestInv'
        BY <1>f, <2>3 DEF FindNamespace
  <2> QED
      BY <2>1, <2>2, <2>3, <2>4, <2>5
<1>36. ASSUME NEW r \in Request,
             Activate(r), UNCHANGED callVars
      PROVE  TypeInv'
  <2>1. ManagerTypeOK'
    <3>1. page[r] \in Call /\ target[r] \in NsObject /\ PutConnector(target[r], page[r])
          BY <1>36, <1>h, NoneIsNothing DEF Activate
    <3>2. connectors' \in [NsObject -> [Name -> Connector \cup {None}]]
          BY <1>36, <1>h, <3>1, PutTypes DEF Activate
    <3> QED
        BY <1>36, <3>2 DEF Activate
  <2>2. ServiceTypeOK'
        BY <1>36 DEF Activate
  <2>3. InteractionTypeOK'
        BY <1>36 DEF Activate
  <2>4. CallInv'
        BY <1>36 DEF Activate
  <2>5. RequestInv'
        BY <1>36 DEF Activate
  <2> QED
      BY <2>1, <2>2, <2>3, <2>4, <2>5
<1>37. ASSUME NEW r \in Request,
             CancelPending(r), UNCHANGED callVars
      PROVE  TypeInv'
  <2>1. ManagerTypeOK'
        BY <1>37 DEF CancelPending
  <2>2. ServiceTypeOK'
        BY <1>37 DEF CancelPending
  <2>3. InteractionTypeOK'
        BY <1>37, CancelTypes
  <2>4. CallInv'
        BY <1>37 DEF CancelPending
  <2>5. RequestInv'
        BY <1>37 DEF CancelPending
  <2> QED
      BY <2>1, <2>2, <2>3, <2>4, <2>5
<1>38. ASSUME NEW r \in Request,
             CloseCheck(r), UNCHANGED callVars
      PROVE  TypeInv'
  <2>1. ManagerTypeOK'
        BY <1>38 DEF CloseCheck
  <2>2. ServiceTypeOK'
        BY <1>38 DEF CloseCheck
  <2>3. InteractionTypeOK'
        BY <1>38, CloseCheckTypes
  <2>4. CallInv'
        BY <1>38 DEF CloseCheck
  <2>5. RequestInv'
        BY <1>38 DEF CloseCheck
  <2> QED
      BY <2>1, <2>2, <2>3, <2>4, <2>5
<1>39. ASSUME NEW r \in Request,
             CloseDone(r), UNCHANGED callVars
      PROVE  TypeInv'
  <2>1. ManagerTypeOK'
        BY <1>39 DEF CloseDone
  <2>2. ServiceTypeOK'
        BY <1>39 DEF CloseDone
  <2>3. InteractionTypeOK'
        BY <1>39, CloseTypes
  <2>4. CallInv'
        BY <1>39 DEF CloseDone
  <2>5. RequestInv'
        BY <1>39 DEF CloseDone
  <2> QED
      BY <2>1, <2>2, <2>3, <2>4, <2>5
<1>40. ASSUME NEW r \in Request,
             DeletePending(r), UNCHANGED callVars
      PROVE  TypeInv'
      BY <1>40 DEF DeletePending
<1>41. ASSUME NEW ns \in Namespace, NEW n \in Name, RemoveConnector(ns, n)
      PROVE  TypeInv'
      BY <1>41 DEF RemoveConnector, Remove, Lookup, NsObject, Connector
<1>42. CASE UNCHANGED vars
      BY <1>42 DEF vars
<1> QED
    BY SqlKitAssumption,
       <1>1, <1>2, <1>3, <1>4, <1>5, <1>6, <1>7, <1>8, <1>9, <1>10,
       <1>11, <1>12, <1>13, <1>14, <1>15, <1>16, <1>17, <1>18, <1>19, <1>20,
       <1>21, <1>22, <1>23, <1>24, <1>25, <1>26, <1>27, <1>28, <1>29, <1>30,
       <1>31, <1>32, <1>33, <1>34, <1>35, <1>f, <1>36, <1>37, <1>38, <1>39, <1>40,
       <1>41, <1>42
       DEF Next, UserOfCall, ServerOfCall, UserOfPage, Handler, UserStep, ServerStep,
           SendRequest, HandlerStep

LEMMA SpecTypeInv == Spec => []TypeInv
BY InitTypeInv, NextTypeInv, PTL DEF Spec

\* Every variable of the server keeps its type.
THEOREM TypeCorrect == Spec => []TypeOK
BY SpecTypeInv, PTL DEF TypeInv
=============================================================================
