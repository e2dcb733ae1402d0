---------------------------- MODULE IsolationProofs ----------------------------
(***************************************************************************)
(* The isolation of the namespaces of SqlKit, for any number of them and   *)
(* of calls, and what becomes of the connectors registered in them.        *)
(***************************************************************************)
EXTENDS SqlKitProofs

\* The namespace a Namespace object was made for: the home of the call that
\* created it, or the one the configuration preloads it for.
ObjNs(o) == IF o \in Call THEN Home(o) ELSE o

ConnectorsHome ==
  \A o \in NsObject, n \in Name :
    connectors[o][n] # None => Owner(connectors[o][n]) = ObjNs(o)

\* Every way to a connector stays in the namespace of the connector: through the
\* registry, through the object a call holds on to, and in what a call returned.
IsoInv ==
  /\ \A ns \in Namespace : namespaces[ns] # None => ObjNs(namespaces[ns]) = ns
  /\ \A c \in Call : nsRef[c] # None => ObjNs(nsRef[c]) = Home(c)
  /\ ConnectorsHome
  /\ \A c \in Call : conn[c] # None => Owner(conn[c]) = caller[c].ns

\* The object a completion has found is one of the namespace of its page.
TargetHome ==
  \A r \in Request : hpc[r] = "activate" => ObjNs(target[r]) = Home(page[r])

LEMMA InitIsoInv == Init => IsoInv
<1> SUFFICES ASSUME Init PROVE IsoInv
    OBVIOUS
<1> USE ManagerAssumption DEF Init, ManagerInit, ServiceInit
<1>1. \A ns \in Namespace : namespaces[ns] # None => ObjNs(namespaces[ns]) = ns
      BY DEF ObjNs
<1>2. ASSUME NEW o \in NsObject, NEW n \in Name, connectors[o][n] # None
      PROVE  Owner(connectors[o][n]) = ObjNs(o)
  <2>1. connectors[o][n] = <<o, n>> /\ <<o, n>> \in DefaultConnectors
        BY <1>2
  <2>2. <<o, n>> \notin Call /\ o \in Namespace /\ o \notin Call
        BY <2>1
  <2> QED
      BY <2>1, <2>2 DEF Owner, ObjNs
<1> QED
    BY <1>1, <1>2 DEF IsoInv, ConnectorsHome

\* Connectors.Put on an object of the connector's own namespace.
LEMMA PutStaysHome ==
  ASSUME TypeInv, IsoInv, NEW o \in NsObject, NEW c \in Call,
         ObjNs(o) = Home(c), connName[c] # None, PutConnector(o, c), caller' = caller
  PROVE  ConnectorsHome'
<1> SUFFICES ASSUME NEW p \in NsObject, NEW n \in Name, connectors'[p][n] # None
             PROVE  (Owner(connectors[p][n]) = ObjNs(p))'
    BY DEF ConnectorsHome
<1>1. connectors'[p][n] = IF p = o /\ n = connName[c] THEN c ELSE connectors[p][n]
      BY DEF PutConnector, TypeInv, TypeOK, ManagerTypeOK
<1>2. CASE p = o /\ n = connName[c]
      BY <1>1, <1>2 DEF Owner, ObjNs, Home
<1>3. CASE ~(p = o /\ n = connName[c])
      BY <1>1, <1>3 DEF IsoInv, ConnectorsHome, Owner, ObjNs, Home
<1> QED
    BY <1>2, <1>3

LEMMA LookupStaysHome ==
  ASSUME TypeInv, IsoInv, NEW ns \in Namespace, NEW n \in Name, Lookup(ns, n) # None
  PROVE  Lookup(ns, n) \in Connector /\ Owner(Lookup(ns, n)) = ns
BY DEF TypeInv, TypeOK, ManagerTypeOK, IsoInv, ConnectorsHome, Lookup

\* A page is what the call was when it is completed: issued, with its connector in
\* the namespace of its caller.
LEMMA PageKnows ==
  ASSUME TypeInv, NEW r \in Request, hpc[r] # "idle"
  PROVE  /\ page[r] \in Call /\ connName[page[r]] # None
         /\ pendNs[page[r]] = Home(page[r]) /\ Home(page[r]) \in Namespace
<1>1. page[r] \in Call /\ page[r] \in issued
      BY DEF TypeInv, TypeOK, InteractionTypeOK, RequestInv
<1> QED
    BY <1>1, HomeIsNamespace DEF TypeInv, TypeOK, CallInv

\* A completion gets to "activate" by FindNamespace only.
LEMMA TargetMoves ==
  ASSUME TypeInv, [Next]_vars
  PROVE  /\ caller' = caller
         /\ \A r \in Request :
              hpc'[r] = "activate" =>
                \/ FindNamespace(r)
                \/ hpc[r] = "activate" /\ target'[r] = target[r] /\ page'[r] = page[r]
<1>1. ASSUME NEW c \in Call, UserOfCall(c) \/ ServerOfCall(c)
      PROVE  caller' = caller /\ UNCHANGED requestVars
      BY <1>1 DEF UserOfCall, ServerOfCall, UserStep, ServerStep,
         SetConnection, SetIncomplete, SetRejected, UseConnection, ListConnections,
         FormAccepted, FormRefused, FormIgnored, ElicitAccepted, ElicitRejected,
         WaitCancelled, GetNamespace, CreateNamespace, GeneratePending, Register, SecretFound,
         SecretMissing, WaitReleased, WaitTimedOut, RecheckFound, RecheckMissing, Reput, Resume
<1>2. ASSUME NEW r \in Request, UserOfPage(r) \/ Handler(r)
      PROVE  /\ caller' = caller
             /\ \A q \in Request \ {r} :
                  hpc'[q] = hpc[q] /\ target'[q] = target[q] /\ page'[q] = page[q]
             /\ hpc'[r] = "activate" => FindNamespace(r)
  <2> USE DEF UserOfPage, Handler, SendRequest, HandlerStep, Post, OAuthReturn, Open,
         Continue, Respond, AfterClose, SubmitCancel, SubmitBlank, SubmitCredentials,
         StoreSecret, StoreFails, Verified, VerifyFails, Exchanged, ExchangeFails,
         CompletePending, FindNamespace, Activate, CancelPending, CloseCheck, CloseDone,
         DeletePending, TypeInv, TypeOK, InteractionTypeOK
  <2>1. caller' = caller
        BY <1>2 DEF callVars
  <2>2. \A q \in Request \ {r} :
          hpc'[q] = hpc[q] /\ target'[q] = target[q] /\ page'[q] = page[q]
        BY <1>2
  <2>3. hpc'[r] = "activate" => FindNamespace(r)
        BY <1>2
  <2> QED
      BY <2>1, <2>2, <2>3
<1>3. ASSUME NEW ns \in Namespace, NEW n \in Name, RemoveConnector(ns, n)
      PROVE  caller' = caller /\ UNCHANGED requestVars
      BY <1>3 DEF RemoveConnector, callVars
<1>4. CASE UNCHANGED vars
      BY <1>4 DEF vars, callVars, requestVars
<1>5. CASE Next
      BY <1>1, <1>2, <1>3, <1>5, SqlKitAssumption DEF Next, requestVars
<1> QED
    BY <1>4, <1>5

LEMMA NextTargetHome == TypeInv /\ IsoInv /\ TargetHome /\ [Next]_vars => TargetHome'
<1> SUFFICES ASSUME TypeInv, IsoInv, TargetHome, [Next]_vars,
                    NEW r \in Request, hpc'[r] = "activate"
             PROVE  (ObjNs(target[r]) = Home(page[r]))'
    BY DEF TargetHome
<1>1. caller' = caller
      BY TargetMoves
<1>2. CASE FindNamespace(r)
  <2>1. hpc[r] = "find" /\ page' = page
        /\ target'[r] = namespaces[pendNs[page[r]]] /\ namespaces[pendNs[page[r]]] # None
        BY <1>2, FindTypes DEF FindNamespace, Continue, TypeInv, TypeOK, InteractionTypeOK
  <2>2. ObjNs(namespaces[pendNs[page[r]]]) = Home(page[r])
        BY <2>1, PageKnows DEF IsoInv
  <2> QED
      BY <1>1, <2>1, <2>2 DEF ObjNs, Home
<1>3. CASE hpc[r] = "activate" /\ target'[r] = target[r] /\ page'[r] = page[r]
      BY <1>1, <1>3 DEF TargetHome, ObjNs, Home
<1> QED
    BY <1>2, <1>3, TargetMoves

LEMMA NextIsoInv == TypeInv /\ IsoInv /\ TargetHome /\ [Next]_vars => IsoInv'
<1> SUFFICES ASSUME TypeInv, IsoInv, TargetHome, [Next]_vars PROVE IsoInv'
    OBVIOUS
<1> USE ManagerAssumption, ServiceAssumption
    DEF TypeInv, TypeOK, ManagerTypeOK, ServiceTypeOK, CallInv, RequestInv,
        IsoInv, ObjNs, Owner, Home, Early, Mid, Goto, Answer,
        managerVars, registryVars, objectVars, callVars, requestVars
<1>1. ASSUME NEW c \in Call, SetConnection(c), UNCHANGED requestVars
      PROVE  IsoInv'
      BY <1>1 DEF SetConnection, ConnectorsHome
<1>2. ASSUME NEW c \in Call, SetIncomplete(c), UNCHANGED requestVars
      PROVE  IsoInv'
      BY <1>2 DEF SetIncomplete, ConnectorsHome
<1>3. ASSUME NEW c \in Call, SetRejected(c), UNCHANGED requestVars
      PROVE  IsoInv'
      BY <1>3 DEF SetRejected, ConnectorsHome
<1>4. ASSUME NEW c \in Call, NEW n \in Name, UseConnection(c, n), UNCHANGED requestVars
      PROVE  IsoInv'
  <2>1. CASE Found(c, n)
    <3>1. caller[c].ns \in Namespace /\ Lookup(caller[c].ns, n) # None
          BY <2>1 DEF Found
    <3>2. Owner(Lookup(caller[c].ns, n)) = caller[c].ns
          BY <3>1, LookupStaysHome
    <3>3. conn' = [conn EXCEPT ![c] = Lookup(caller[c].ns, n)]
          BY <1>4, <2>1 DEF UseConnection
    <3> QED
        BY <1>4, <3>2, <3>3 DEF UseConnection, ConnectorsHome
  <2>2. CASE ~Found(c, n)
        BY <1>4, <2>2 DEF UseConnection, ConnectorsHome
  <2> QED
      BY <2>1, <2>2
<1>5. ASSUME NEW c \in Call, ListConnections(c), UNCHANGED requestVars
      PROVE  IsoInv'
      BY <1>5 DEF ListConnections, ConnectorsHome
<1>6. ASSUME NEW c \in Call, FormAccepted(c), UNCHANGED requestVars
      PROVE  IsoInv'
      BY <1>6 DEF FormAccepted, ConnectorsHome
<1>7. ASSUME NEW c \in Call, FormRefused(c), UNCHANGED requestVars
      PROVE  IsoInv'
      BY <1>7 DEF FormRefused, ConnectorsHome
<1>8. ASSUME NEW c \in Call, FormIgnored(c), UNCHANGED requestVars
      PROVE  IsoInv'
      BY <1>8 DEF FormIgnored, ConnectorsHome
<1>9. ASSUME NEW c \in Call, ElicitAccepted(c), UNCHANGED requestVars
      PROVE  IsoInv'
      BY <1>9 DEF ElicitAccepted, ConnectorsHome
<1>10. ASSUME NEW c \in Call, ElicitRejected(c), UNCHANGED requestVars
      PROVE  IsoInv'
      BY <1>10 DEF ElicitRejected, ConnectorsHome
<1>11. ASSUME NEW c \in Call, WaitCancelled(c), UNCHANGED requestVars
      PROVE  IsoInv'
      BY <1>11 DEF WaitCancelled, ConnectorsHome
<1>12. ASSUME NEW c \in Call, GetNamespace(c), UNCHANGED requestVars
      PROVE  IsoInv'
  <2>1. /\ nsRef' = [nsRef EXCEPT ![c] = namespaces[Home(c)]] /\ Home(c) \in Namespace
        /\ managerVars' = managerVars /\ caller' = caller /\ conn' = conn
        BY <1>12 DEF GetNamespace
  <2>2. (\A k \in Call : nsRef[k] # None => ObjNs(nsRef[k]) = Home(k))'
        BY <2>1
  <2>3. ConnectorsHome'
        BY <2>1 DEF ConnectorsHome
  <2>4. (\A ns \in Namespace : namespaces[ns] # None => ObjNs(namespaces[ns]) = ns)'
        BY <2>1
  <2>5. (\A k \in Call : conn[k] # None => Owner(conn[k]) = caller[k].ns)'
        BY <2>1
  <2> HIDE DEF ObjNs, Owner, Home
  <2> QED
      BY <2>2, <2>3, <2>4, <2>5
<1>13. ASSUME NEW c \in Call, CreateNamespace(c), UNCHANGED requestVars
      PROVE  IsoInv'
      BY SMTT(30), <1>13 DEF CreateNamespace, NsObject, ConnectorsHome
<1>14. ASSUME NEW c \in Call, GeneratePending(c), UNCHANGED requestVars
      PROVE  IsoInv'
      BY <1>14 DEF GeneratePending, ConnectorsHome
<1>15. ASSUME NEW c \in Call, Register(c), UNCHANGED requestVars
      PROVE  IsoInv'
  <2>1. /\ nsRef[c] \in NsObject /\ ObjNs(nsRef[c]) = Home(c)
        /\ connName[c] # None /\ PutConnector(nsRef[c], c)
        BY SMTT(30), <1>15 DEF Register
  <2>2. ConnectorsHome'
        BY <1>15, <2>1, PutStaysHome DEF Register
  <2> QED
      BY <1>15, <2>2 DEF Register
<1>16. ASSUME NEW c \in Call, SecretFound(c), UNCHANGED requestVars
      PROVE  IsoInv'
      BY <1>16 DEF SecretFound, ConnectorsHome
<1>17. ASSUME NEW c \in Call, SecretMissing(c), UNCHANGED requestVars
      PROVE  IsoInv'
      BY <1>17 DEF SecretMissing, ConnectorsHome
<1>18. ASSUME NEW c \in Call, WaitReleased(c), UNCHANGED requestVars
      PROVE  IsoInv'
      BY <1>18 DEF WaitReleased, ConnectorsHome
<1>19. ASSUME NEW c \in Call, WaitTimedOut(c), UNCHANGED requestVars
      PROVE  IsoInv'
      BY <1>19 DEF WaitTimedOut, ConnectorsHome
<1>20. ASSUME NEW c \in Call, RecheckFound(c), UNCHANGED requestVars
      PROVE  IsoInv'
      BY <1>20 DEF RecheckFound, ConnectorsHome
<1>21. ASSUME NEW c \in Call, RecheckMissing(c), UNCHANGED requestVars
      PROVE  IsoInv'
      BY <1>21 DEF RecheckMissing, ConnectorsHome
<1>22. ASSUME NEW c \in Call, Reput(c), UNCHANGED requestVars
      PROVE  IsoInv'
  <2>1. /\ nsRef[c] \in NsObject /\ ObjNs(nsRef[c]) = Home(c)
        /\ connName[c] # None /\ PutConnector(nsRef[c], c)
        BY SMTT(30), <1>22 DEF Reput
  <2>2. ConnectorsHome'
        BY <1>22, <2>1, PutStaysHome DEF Reput
  <2> QED
      BY <1>22, <2>2 DEF Reput
<1>23. ASSUME NEW c \in Call, Resume(c), UNCHANGED requestVars
      PROVE  IsoInv'
  <2>1. CASE caller[c].tool = "use"
    <3>1. caller[c].ns \in Namespace /\ ResumeName(c) \in Name
          BY SMTT(30), <1>23, <2>1 DEF Resume, ResumeName
    <3>2. Lookup(caller[c].ns, ResumeName(c)) # None =>
            Owner(Lookup(caller[c].ns, ResumeName(c))) = caller[c].ns
          BY <3>1, LookupStaysHome
    <3> QED
        BY <1>23, <2>1, <3>2 DEF Resume, ConnectorsHome
  <2>2. CASE caller[c].tool # "use"
        BY <1>23, <2>2 DEF Resume, ConnectorsHome
  <2> QED
      BY <2>1, <2>2
<1>24. ASSUME NEW r \in Request, NEW c \in Call, Post(r, c), UNCHANGED callVars
      PROVE  IsoInv'
      BY <1>24 DEF Post, Open, ConnectorsHome
<1>25. ASSUME NEW r \in Request, NEW c \in Call, OAuthReturn(r, c), UNCHANGED callVars
      PROVE  IsoInv'
      BY <1>25 DEF OAuthReturn, Open, ConnectorsHome
<1>26. ASSUME NEW r \in Request, NEW n \in Name, SubmitCancel(r, n), UNCHANGED callVars
      PROVE  IsoInv'
      BY <1>26 DEF SubmitCancel, EditName, ConnectorsHome
<1>27. ASSUME NEW r \in Request, NEW n \in Name, SubmitBlank(r, n), UNCHANGED callVars
      PROVE  IsoInv'
      BY <1>27 DEF SubmitBlank, EditName, ConnectorsHome
<1>28. ASSUME NEW r \in Request, NEW n \in Name, SubmitCredentials(r, n), UNCHANGED callVars
      PROVE  IsoInv'
      BY <1>28 DEF SubmitCredentials, EditName, ConnectorsHome
<1>29. ASSUME NEW r \in Request, StoreSecret(r), UNCHANGED callVars
      PROVE  IsoInv'
      BY <1>29 DEF StoreSecret, ConnectorsHome
<1>30. ASSUME NEW r \in Request, StoreFails(r), UNCHANGED callVars
      PROVE  IsoInv'
      BY <1>30 DEF StoreFails, ConnectorsHome
<1>31. ASSUME NEW r \in Request, Verified(r), UNCHANGED callVars
      PROVE  IsoInv'
      BY <1>31 DEF Verified, ConnectorsHome
<1>32. ASSUME NEW r \in Request, VerifyFails(r), UNCHANGED callVars
      PROVE  IsoInv'
      BY <1>32 DEF VerifyFails, ConnectorsHome
<1>33. ASSUME NEW r \in Request, Exchanged(r), UNCHANGED callVars
      PROVE  IsoInv'
      BY <1>33 DEF Exchanged, ConnectorsHome
<1>34. ASSUME NEW r \in Request, ExchangeFails(r), UNCHANGED callVars
      PROVE  IsoInv'
      BY <1>34 DEF ExchangeFails, ConnectorsHome
<1>35. ASSUME NEW r \in Request, CompletePending(r), UNCHANGED callVars
      PROVE  IsoInv'
      BY <1>35 DEF CompletePending, ConnectorsHome
<1>f. ASSUME NEW r \in Request, FindNamespace(r), UNCHANGED callVars
      PROVE  IsoInv'
      BY <1>f DEF FindNamespace, ConnectorsHome
<1>36. ASSUME NEW r \in Request, Activate(r), UNCHANGED callVars
      PROVE  IsoInv'
  <2>1. /\ target[r] \in NsObject /\ ObjNs(target[r]) = Home(page[r])
        /\ PutConnector(target[r], page[r]) /\ caller' = caller /\ hpc[r] # "idle"
    <3> HIDE DEF ObjNs, Home
    <3> QED
        BY <1>36 DEF Activate, TargetHome, InteractionTypeOK
  <2>2. ConnectorsHome'
    <3> HIDE DEF TypeInv, IsoInv, ObjNs, Home
    <3> QED
        BY <2>1, PageKnows, PutStaysHome
  <2> QED
      BY <1>36, <2>2 DEF Activate
<1>37. ASSUME NEW r \in Request, CancelPending(r), UNCHANGED callVars
      PROVE  IsoInv'
      BY <1>37 DEF CancelPending, ConnectorsHome
<1>38. ASSUME NEW r \in Request, CloseCheck(r), UNCHANGED callVars
      PROVE  IsoInv'
      BY <1>38 DEF CloseCheck, ConnectorsHome
<1>39. ASSUME NEW r \in Request, CloseDone(r), UNCHANGED callVars
      PROVE  IsoInv'
      BY <1>39 DEF CloseDone, ConnectorsHome
<1>40. ASSUME NEW r \in Request, DeletePending(r), UNCHANGED callVars
      PROVE  IsoInv'
      BY <1>40 DEF DeletePending, ConnectorsHome
<1>41. ASSUME NEW ns \in Namespace, NEW n \in Name, RemoveConnector(ns, n)
      PROVE  IsoInv'
      BY SMTT(30), <1>41 DEF RemoveConnector, Remove, Lookup, NsObject, ConnectorsHome
<1>42. CASE UNCHANGED vars
      BY <1>42 DEF vars, ConnectorsHome
<1> QED
    BY SqlKitAssumption,
       <1>1, <1>2, <1>3, <1>4, <1>5, <1>6, <1>7, <1>8, <1>9, <1>10,
       <1>11, <1>12, <1>13, <1>14, <1>15, <1>16, <1>17, <1>18, <1>19, <1>20,
       <1>21, <1>22, <1>23, <1>24, <1>25, <1>26, <1>27, <1>28, <1>29, <1>30,
       <1>31, <1>32, <1>33, <1>34, <1>35, <1>f, <1>36, <1>37, <1>38, <1>39, <1>40,
       <1>41, <1>42
       DEF Next, UserOfCall, ServerOfCall, UserOfPage, Handler, UserStep, ServerStep,
           SendRequest, HandlerStep

LEMMA SpecIsoInv == Spec => [](TypeInv /\ IsoInv)
<1>1. Init => TargetHome
      BY DEF Init, InteractionInit, TargetHome
<1> QED
    BY <1>1, SpecTypeInv, InitIsoInv, NextIsoInv, NextTargetHome, PTL DEF Spec

LEMMA IsoInvIsolates == TypeInv /\ IsoInv => NamespaceIsolation
BY LookupStaysHome DEF IsoInv, NamespaceIsolation

\* No namespace ever leads to a connector of another one, and no call gets one.
THEOREM NamespacesIsolated == Spec => []NamespaceIsolation
BY SpecIsoInv, IsoInvIsolates, PTL

-----------------------------------------------------------------------------
(* Registrations.  A definition stays where it was put; what can be lost is   *)
(* the Namespace object it was put in, to the race on creating one, and a     *)
(* namespace the configuration preloads keeps its object for good.            *)

Registering == {"check", "elicit", "wait", "recheck", "reput"}
Kept        == {"active", "pending"}

RegInv ==
  /\ \A ns \in ConfiguredNs : namespaces[ns] = ns
  /\ \A c \in Call :
       /\ pc[c] = "create" => Home(c) \notin ConfiguredNs
       /\ nsRef[c] # None /\ Home(c) \in ConfiguredNs => nsRef[c] = Home(c)
       /\ pc[c] = "register" => connName[c] = def[c].name
       /\ outcome[c] \in Kept => pc[c] \in {"resume", "returned"}
       /\ pc[c] = "resume" /\ caller[c].tool = "use" /\ def[c] # None => outcome[c] \in Kept
       /\ pc[c] \in Registering \/ outcome[c] \in Kept =>
            /\ def[c] # None /\ nsRef[c] # None
            /\ Home(c) \notin Removable => connectors[nsRef[c]][def[c].name] # None

LEMMA InitRegInv == Init => RegInv
BY ManagerAssumption, ServiceAssumption
   DEF Init, ManagerInit, ServiceInit, RegInv, Registering, Kept

\* Connectors.Put adds an entry and takes none away.
LEMMA PutKeepsEntries ==
  ASSUME TypeInv, NEW o \in NsObject, NEW c \in Call, PutConnector(o, c)
  PROVE  /\ \A p \in NsObject, n \in Name : connectors[p][n] # None => connectors'[p][n] # None
         /\ connName[c] \in Name => connectors'[o][connName[c]] = c
BY ManagerAssumption DEF PutConnector, TypeInv, TypeOK, ManagerTypeOK

\* A call that is about to register has something to register, and where.
LEMMA PutterKnows ==
  ASSUME TypeInv, NEW c \in Call, pc[c] \in {"register", "reput"}
  PROVE  nsRef[c] \in NsObject /\ connName[c] \in Name /\ def[c] # None
BY DEF TypeInv, TypeOK, ManagerTypeOK, ServiceTypeOK, CallInv, Early, Mid

LEMMA NextRegInv == TypeInv /\ IsoInv /\ RegInv /\ [Next]_vars => RegInv'
<1> SUFFICES ASSUME TypeInv, IsoInv, RegInv, [Next]_vars PROVE RegInv'
    OBVIOUS
<1> USE ManagerAssumption, ServiceAssumption
    DEF TypeInv, TypeOK, ManagerTypeOK, ServiceTypeOK, CallInv, RequestInv,
        RegInv, Registering, Kept, Home, Early, Mid, Goto, Answer,
        managerVars, registryVars, objectVars, callVars, requestVars
<1>1. ASSUME NEW c \in Call, SetConnection(c), UNCHANGED requestVars
      PROVE  RegInv'
      BY <1>1 DEF SetConnection
<1>2. ASSUME NEW c \in Call, SetIncomplete(c), UNCHANGED requestVars
      PROVE  RegInv'
      BY <1>2 DEF SetIncomplete
<1>3. ASSUME NEW c \in Call, SetRejected(c), UNCHANGED requestVars
      PROVE  RegInv'
      BY <1>3 DEF SetRejected
<1>4. ASSUME NEW c \in Call, NEW n \in Name, UseConnection(c, n), UNCHANGED requestVars
      PROVE  RegInv'
      BY <1>4 DEF UseConnection
<1>5. ASSUME NEW c \in Call, ListConnections(c), UNCHANGED requestVars
      PROVE  RegInv'
      BY <1>5 DEF ListConnections
<1>6. ASSUME NEW c \in Call, FormAccepted(c), UNCHANGED requestVars
      PROVE  RegInv'
      BY <1>6 DEF FormAccepted
<1>7. ASSUME NEW c \in Call, FormRefused(c), UNCHANGED requestVars
      PROVE  RegInv'
      BY <1>7 DEF FormRefused
<1>8. ASSUME NEW c \in Call, FormIgnored(c), UNCHANGED requestVars
      PROVE  RegInv'
      BY <1>8 DEF FormIgnored
<1>9. ASSUME NEW c \in Call, ElicitAccepted(c), UNCHANGED requestVars
      PROVE  RegInv'
      BY <1>9 DEF ElicitAccepted
<1>10. ASSUME NEW c \in Call, ElicitRejected(c), UNCHANGED requestVars
      PROVE  RegInv'
      BY <1>10 DEF ElicitRejected
<1>11. ASSUME NEW c \in Call, WaitCancelled(c), UNCHANGED requestVars
      PROVE  RegInv'
      BY <1>11 DEF WaitCancelled
<1>12. ASSUME NEW c \in Call, GetNamespace(c), UNCHANGED requestVars
      PROVE  RegInv'
  <2>1. /\ Home(c) \in Namespace /\ nsRef' = [nsRef EXCEPT ![c] = namespaces[Home(c)]]
        /\ pc' = [pc EXCEPT ![c] = IF namespaces[Home(c)] = None THEN "create" ELSE "generate"]
        /\ pc[c] = "namespace" /\ outcome[c] \notin Kept /\ nsRef[c] = nsRef[c]
        /\ UNCHANGED <<namespaces, connectors, connName, caller, def, outcome>>
        BY <1>12, HomeIsNamespace DEF GetNamespace
  <2>2. Home(c) \in ConfiguredNs => namespaces[Home(c)] = Home(c) /\ Home(c) # None
        BY ManagerAssumption
  <2> QED
      BY <2>1, <2>2
<1>13. ASSUME NEW c \in Call, CreateNamespace(c), UNCHANGED requestVars
      PROVE  RegInv'
      BY <1>13 DEF CreateNamespace
<1>14. ASSUME NEW c \in Call, GeneratePending(c), UNCHANGED requestVars
      PROVE  RegInv'
      BY <1>14 DEF GeneratePending
<1>15. ASSUME NEW c \in Call, Register(c), UNCHANGED requestVars
      PROVE  RegInv'
  <2>1. nsRef[c] \in NsObject /\ connName[c] \in Name /\ def[c] # None
    <3> HIDE DEF TypeInv, TypeOK, ManagerTypeOK, ServiceTypeOK, CallInv, RequestInv, RegInv,
             Registering, Kept, Home, Early, Mid
    <3> QED
        BY <1>15, PutterKnows DEF Register
  <2>2. connName[c] = def[c].name
        BY <1>15 DEF Register
  <2>3. /\ \A p \in NsObject, n \in Name : connectors[p][n] # None => connectors'[p][n] # None
        /\ connectors'[nsRef[c]][def[c].name] = c
    <3> HIDE DEF TypeInv, TypeOK, ManagerTypeOK, ServiceTypeOK, CallInv, RequestInv, RegInv,
             Registering, Kept, Home, Early, Mid
    <3> QED
        BY <1>15, <2>1, <2>2, PutKeepsEntries DEF Register
  <2> QED
      BY <1>15, <2>1, <2>2, <2>3 DEF Register
<1>16. ASSUME NEW c \in Call, SecretFound(c), UNCHANGED requestVars
      PROVE  RegInv'
      BY <1>16 DEF SecretFound
<1>17. ASSUME NEW c \in Call, SecretMissing(c), UNCHANGED requestVars
      PROVE  RegInv'
      BY <1>17 DEF SecretMissing
<1>18. ASSUME NEW c \in Call, WaitReleased(c), UNCHANGED requestVars
      PROVE  RegInv'
      BY <1>18 DEF WaitReleased
<1>19. ASSUME NEW c \in Call, WaitTimedOut(c), UNCHANGED requestVars
      PROVE  RegInv'
      BY <1>19 DEF WaitTimedOut
<1>20. ASSUME NEW c \in Call, RecheckFound(c), UNCHANGED requestVars
      PROVE  RegInv'
      BY <1>20 DEF RecheckFound
<1>21. ASSUME NEW c \in Call, RecheckMissing(c), UNCHANGED requestVars
      PROVE  RegInv'
      BY <1>21 DEF RecheckMissing
<1>22. ASSUME NEW c \in Call, Reput(c), UNCHANGED requestVars
      PROVE  RegInv'
  <2>1. nsRef[c] \in NsObject /\ connName[c] \in Name /\ def[c] # None
    <3> HIDE DEF TypeInv, TypeOK, ManagerTypeOK, ServiceTypeOK, CallInv, RequestInv, RegInv,
             Registering, Kept, Home, Early, Mid
    <3> QED
        BY <1>22, PutterKnows DEF Reput
  <2>2. \A p \in NsObject, n \in Name : connectors[p][n] # None => connectors'[p][n] # None
    <3> HIDE DEF TypeInv, TypeOK, ManagerTypeOK, ServiceTypeOK, CallInv, RequestInv, RegInv,
             Registering, Kept, Home, Early, Mid
    <3> QED
        BY <1>22, <2>1, PutKeepsEntries DEF Reput
  <2> QED
      BY <1>22, <2>1, <2>2 DEF Reput
<1>23. ASSUME NEW c \in Call, Resume(c), UNCHANGED requestVars
      PROVE  RegInv'
      BY <1>23 DEF Resume
<1>24. ASSUME NEW r \in Request, NEW c \in Call, Post(r, c), UNCHANGED callVars
      PROVE  RegInv'
      BY <1>24 DEF Post, Open
<1>25. ASSUME NEW r \in Request, NEW c \in Call, OAuthReturn(r, c), UNCHANGED callVars
      PROVE  RegInv'
      BY <1>25 DEF OAuthReturn, Open
<1>26. ASSUME NEW r \in Request, NEW n \in Name, SubmitCancel(r, n), UNCHANGED callVars
      PROVE  RegInv'
      BY <1>26 DEF SubmitCancel, EditName
<1>27. ASSUME NEW r \in Request, NEW n \in Name, SubmitBlank(r, n), UNCHANGED callVars
      PROVE  RegInv'
      BY <1>27 DEF SubmitBlank, EditName
<1>28. ASSUME NEW r \in Request, NEW n \in Name, SubmitCredentials(r, n), UNCHANGED callVars
      PROVE  RegInv'
      BY <1>28 DEF SubmitCredentials, EditName
<1>29. ASSUME NEW r \in Request, StoreSecret(r), UNCHANGED callVars
      PROVE  RegInv'
      BY <1>29 DEF StoreSecret
<1>30. ASSUME NEW r \in Request, StoreFails(r), UNCHANGED callVars
      PROVE  RegInv'
      BY <1>30 DEF StoreFails
<1>31. ASSUME NEW r \in Request, Verified(r), UNCHANGED callVars
      PROVE  RegInv'
      BY <1>31 DEF Verified
<1>32. ASSUME NEW r \in Request, VerifyFails(r), UNCHANGED callVars
      PROVE  RegInv'
      BY <1>32 DEF VerifyFails
<1>33. ASSUME NEW r \in Request, Exchanged(r), UNCHANGED callVars
      PROVE  RegInv'
      BY <1>33 DEF Exchanged
<1>34. ASSUME NEW r \in Request, ExchangeFails(r), UNCHANGED callVars
      PROVE  RegInv'
      BY <1>34 DEF ExchangeFails
<1>35. ASSUME NEW r \in Request, CompletePending(r), UNCHANGED callVars
      PROVE  RegInv'
      BY <1>35 DEF CompletePending
<1>f. ASSUME NEW r \in Request, FindNamespace(r), UNCHANGED callVars
      PROVE  RegInv'
      BY <1>f DEF FindNamespace
<1>36. ASSUME NEW r \in Request, Activate(r), UNCHANGED callVars
      PROVE  RegInv'
  <2>1. target[r] \in NsObject /\ page[r] \in Call /\ PutConnector(target[r], page[r])
        BY <1>36 DEF Activate, InteractionTypeOK
  <2>2. \A p \in NsObject, n \in Name : connectors[p][n] # None => connectors'[p][n] # None
    <3> HIDE DEF TypeInv
    <3> QED
        BY <2>1, PutKeepsEntries
  <2> QED
      BY <1>36, <2>2 DEF Activate
<1>37. ASSUME NEW r \in Request, CancelPending(r), UNCHANGED callVars
      PROVE  RegInv'
      BY <1>37 DEF CancelPending
<1>38. ASSUME NEW r \in Request, CloseCheck(r), UNCHANGED callVars
      PROVE  RegInv'
      BY <1>38 DEF CloseCheck
<1>39. ASSUME NEW r \in Request, CloseDone(r), UNCHANGED callVars
      PROVE  RegInv'
      BY <1>39 DEF CloseDone
<1>40. ASSUME NEW r \in Request, DeletePending(r), UNCHANGED callVars
      PROVE  RegInv'
      BY <1>40 DEF DeletePending
<1>41. ASSUME NEW ns \in Removable, NEW n \in Name, RemoveConnector(ns, n)
      PROVE  RegInv'
  <2> DEFINE o == namespaces[ns]
  <2>1. /\ ns \in Namespace /\ o \in NsObject
        /\ connectors' = [connectors EXCEPT ![o] = [@ EXCEPT ![n] = None]]
        /\ UNCHANGED <<namespaces, pc, caller, def, nsRef, outcome, connName>>
        BY <1>41, SqlKitAssumption DEF RemoveConnector, Remove, Lookup
  <2>2. \A c \in Call : nsRef[c] # None /\ Home(c) \notin Removable => nsRef[c] # o
    <3> HIDE DEF Home
    <3> QED
        BY <2>1 DEF IsoInv
  <2>3. \A p \in NsObject \ {o} : connectors'[p] = connectors[p]
        BY <2>1
  <2> QED
      BY <2>1, <2>2, <2>3
<1>42. CASE UNCHANGED vars
      BY <1>42 DEF vars
<1> QED
    BY ZenonT(60), <1>1, <1>2, <1>3, <1>4, <1>5, <1>6, <1>7, <1>8, <1>9, <1>10,
       <1>11, <1>12, <1>13, <1>14, <1>15, <1>16, <1>17, <1>18, <1>19, <1>20,
       <1>21, <1>22, <1>23, <1>24, <1>25, <1>26, <1>27, <1>28, <1>29, <1>30,
       <1>31, <1>32, <1>33, <1>34, <1>35, <1>f, <1>36, <1>37, <1>38, <1>39, <1>40,
       <1>41, <1>42
       DEF Next, UserOfCall, ServerOfCall, UserOfPage, Handler, UserStep, ServerStep,
           SendRequest, HandlerStep

LEMMA SpecRegInv == Spec => [](TypeInv /\ IsoInv /\ RegInv)
BY SpecIsoInv, InitRegInv, NextRegInv, PTL DEF Spec

\* What a step can do to the registry.
LEMMA RegistryMoves ==
  ASSUME TypeInv, Next
  PROVE  \/ UNCHANGED registryVars
         \/ \E c \in Call : CreateNamespace(c)
         \/ UNCHANGED namespaces /\ \E o \in NsObject, c \in Call : PutConnector(o, c)
         \/ \E ns \in Removable, n \in Name : RemoveConnector(ns, n)
<1> USE DEF managerVars
<1>1. ASSUME NEW c \in Call, Register(c) \/ Reput(c)
      PROVE  UNCHANGED namespaces /\ \E o \in NsObject, d \in Call : PutConnector(o, d)
  <2>1. nsRef[c] \in NsObject
        BY <1>1 DEF Register, Reput, TypeInv, TypeOK, ServiceTypeOK, CallInv, Early
  <2> QED
      BY <1>1, <2>1 DEF Register, Reput
<1>2. ASSUME NEW r \in Request, Activate(r)
      PROVE  UNCHANGED namespaces /\ \E o \in NsObject, d \in Call : PutConnector(o, d)
  <2>1. target[r] \in NsObject /\ page[r] \in Call
        BY <1>2 DEF Activate, TypeInv, TypeOK, InteractionTypeOK, RequestInv
  <2> QED
      BY <1>2, <2>1 DEF Activate
<1>3. ASSUME NEW c \in Call, UserOfCall(c) \/ ServerOfCall(c),
             ~CreateNamespace(c), ~Register(c), ~Reput(c)
      PROVE  UNCHANGED registryVars
      BY <1>3 DEF UserOfCall, ServerOfCall, UserStep, ServerStep,
         SetConnection, SetIncomplete, SetRejected, UseConnection, ListConnections,
         FormAccepted, FormRefused, FormIgnored, ElicitAccepted, ElicitRejected,
         WaitCancelled, GetNamespace, GeneratePending, SecretFound, SecretMissing,
         WaitReleased, WaitTimedOut, RecheckFound, RecheckMissing, Resume
<1>4. ASSUME NEW r \in Request, UserOfPage(r) \/ Handler(r), ~Activate(r)
      PROVE  UNCHANGED registryVars
      BY <1>4 DEF UserOfPage, Handler, SendRequest, HandlerStep, Post, OAuthReturn, Open,
         SubmitCancel, SubmitBlank, SubmitCredentials, StoreSecret, StoreFails, Verified,
         VerifyFails, Exchanged, ExchangeFails, CompletePending, FindNamespace, CancelPending,
         CloseCheck, CloseDone, DeletePending
<1> QED
    BY <1>1, <1>2, <1>3, <1>4 DEF Next

\* A name leaves the registry of a namespace only when its owner removes it, or with
\* the object of the namespace, which a second creator has replaced.
THEOREM RegistrationsLostToRace == Spec => LostOnlyByRace
<1>1. TypeInv /\ IsoInv /\ [Next]_vars =>
        [\A ns \in Namespace :
           \/ Registered(ns) \subseteq Registered(ns)'
           \/ \E n \in Name : RemoveConnector(ns, n)
           \/ \E c \in Call : CreateNamespace(c) /\ Home(c) = ns /\ namespaces[ns] # None]_vars
  <2> SUFFICES ASSUME TypeInv, IsoInv, Next, NEW ns \in Namespace,
                      NEW n \in Registered(ns), n \notin Registered(ns)'
               PROVE  \/ \E m \in Name : RemoveConnector(ns, m)
                      \/ \E c \in Call : CreateNamespace(c) /\ Home(c) = ns /\ namespaces[ns] # None
      OBVIOUS
  <2> DEFINE o == namespaces[ns]
  <2>1. /\ n \in Name /\ o \in NsObject /\ o # None /\ ObjNs(o) = ns
        /\ connectors[o][n] # None
        BY ManagerAssumption DEF Registered, Lookup, TypeInv, TypeOK, ManagerTypeOK, IsoInv
  <2>2. namespaces'[ns] # o \/ connectors'[o][n] = None
    <3>1. Lookup(ns, n)' = None
          BY <2>1 DEF Registered
    <3> QED
        BY <2>1, <3>1 DEF Lookup
  <2> HIDE DEF o
  <2>3. ASSUME NEW c \in Call, CreateNamespace(c)
        PROVE  Home(c) = ns
        BY <2>1, <2>2, <2>3 DEF CreateNamespace, o, TypeInv, TypeOK, ManagerTypeOK
  <2>4. ASSUME UNCHANGED namespaces, NEW p \in NsObject, NEW c \in Call, PutConnector(p, c)
        PROVE  FALSE
        BY <2>1, <2>2, <2>4, PutKeepsEntries DEF o
  <2>5. ASSUME NEW ms \in Removable, NEW m \in Name, RemoveConnector(ms, m)
        PROVE  ms = ns
    <3>1. /\ ms \in Namespace /\ namespaces' = namespaces /\ namespaces[ms] # None
          /\ connectors' = [connectors EXCEPT ![namespaces[ms]] = [@ EXCEPT ![m] = None]]
          BY <2>5, SqlKitAssumption DEF RemoveConnector, Remove, Lookup
    <3>2. namespaces[ms] = o
          BY <2>1, <2>2, <3>1 DEF o, TypeInv, TypeOK, ManagerTypeOK
    <3> QED
        BY <2>1, <3>1, <3>2 DEF IsoInv
  <2> QED
      BY <2>1, <2>2, <2>3, <2>4, <2>5, RegistryMoves DEF registryVars, o
<1> QED
    BY <1>1, SpecIsoInv, PTL DEF Spec, LostOnlyByRace

-----------------------------------------------------------------------------
(* In a namespace that the configuration lists, there is no such race.        *)

\* A registration there is only ever lost to its owner.
THEOREM NothingIsLost == Spec => NoLostRegistration
<1>1. RegInv => \A c \in Call : CreateNamespace(c) => Home(c) \notin ConfiguredNs
      BY DEF RegInv, CreateNamespace
<1>2. /\ RegInv
      /\ [\A ns \in Namespace :
           \/ Registered(ns) \subseteq Registered(ns)'
           \/ \E n \in Name : RemoveConnector(ns, n)
           \/ \E c \in Call : CreateNamespace(c) /\ Home(c) = ns /\ namespaces[ns] # None]_vars
      => [\A ns \in ConfiguredNs :
           \/ Registered(ns) \subseteq Registered(ns)'
           \/ \E n \in Name : RemoveConnector(ns, n)]_vars
      BY <1>1, ManagerAssumption
<1> QED
    BY <1>2, SpecRegInv, RegistrationsLostToRace, PTL DEF LostOnlyByRace, NoLostRegistration

HomesIn(S) == \A cl \in Caller : (IF cl.ns = None THEN DefaultNs ELSE cl.ns) \in S

LEMMA HomesAreIn ==
  ASSUME NEW S, HomesIn(S), ServiceTypeOK, NEW c \in Call
  PROVE  Home(c) \in S
BY DEF HomesIn, ServiceTypeOK, Home

\* An upsert that is answered is registered, whatever its page and the other calls do.
THEOREM AnsweredIsRegistered ==
  ASSUME HomesIn(ConfiguredNs \ Removable) PROVE Spec => []RegisteredOnReturn
<1>1. TypeInv /\ RegInv => RegisteredOnReturn
  <2> SUFFICES ASSUME TypeInv, RegInv, NEW c \in Call, outcome[c] \in Kept
               PROVE  def[c].name \in Registered(Home(c))
      BY DEF RegisteredOnReturn, Kept
  <2>1. Home(c) \in ConfiguredNs /\ Home(c) \notin Removable
        BY HomesAreIn DEF TypeInv, TypeOK
  <2>2. /\ def[c] \in Definition /\ nsRef[c] = Home(c) /\ namespaces[Home(c)] = Home(c)
        /\ connectors[nsRef[c]][def[c].name] # None
        BY <2>1 DEF RegInv, TypeInv, TypeOK, ServiceTypeOK
  <2> QED
      BY <2>1, <2>2, ManagerAssumption, ServiceAssumption DEF Registered, Lookup
<1> QED
    BY <1>1, SpecRegInv, PTL

-----------------------------------------------------------------------------
(* A tool that had its connector defined finds it, as long as no page gives   *)
(* a connector another name.                                                  *)

NoRename == \A c \in Call : connName[c] # None => connName[c] = def[c].name

UsersIn(S) == \A cl \in Caller : cl.tool = "use" /\ cl.ns # None => cl.ns \in S

\* What Resume looks up is what the call has registered.
LEMMA ResumeFinds ==
  ASSUME UsersIn(ConfiguredNs \ Removable), TypeInv, RegInv, NoRename,
         NEW c \in Call, Resume(c), caller[c].tool = "use", def[c] # None
  PROVE  conn'[c] # None
<1>1. /\ pc[c] = "resume" /\ caller[c].ns # None /\ Home(c) = caller[c].ns
      /\ ResumeName(c) = def[c].name
      BY DEF Resume, ResumeName, NoRename, Home, TypeInv, CallInv, Mid
<1>2. Home(c) \in ConfiguredNs /\ Home(c) \notin Removable
      BY <1>1 DEF UsersIn, TypeInv, TypeOK, ServiceTypeOK
<1>3. /\ nsRef[c] = Home(c) /\ namespaces[Home(c)] = Home(c) /\ Home(c) # None
      /\ connectors[Home(c)][def[c].name] # None
      BY <1>1, <1>2, ManagerAssumption DEF RegInv
<1>4. conn' = [conn EXCEPT ![c] = Lookup(caller[c].ns, def[c].name)]
      BY <1>1 DEF Resume
<1> QED
    BY <1>1, <1>3, <1>4 DEF Lookup, TypeInv, TypeOK, ServiceTypeOK

LEMMA InitUse == Init => UseFindsDefinition
BY DEF Init, ServiceInit, UseFindsDefinition

LEMMA NextUse ==
  ASSUME UsersIn(ConfiguredNs \ Removable)
  PROVE  TypeInv /\ RegInv /\ NoRename /\ UseFindsDefinition /\ [Next]_vars => UseFindsDefinition'
<1> SUFFICES ASSUME TypeInv, RegInv, NoRename, UseFindsDefinition, [Next]_vars
             PROVE  UseFindsDefinition'
    OBVIOUS
<1> USE DEF UseFindsDefinition
<1>1. ASSUME NEW c \in Call, Resume(c)
      PROVE  UseFindsDefinition'
      BY <1>1, ResumeFinds DEF Resume, Goto, TypeInv, TypeOK, ServiceTypeOK
<1>2. ASSUME NEW c \in Call, UserOfCall(c) \/ ServerOfCall(c), ~Resume(c)
      PROVE  /\ caller' = caller
             /\ \A d \in Call \ {c} :
                  /\ pc'[d] = pc[d] /\ outcome'[d] = outcome[d]
                  /\ def'[d] = def[d] /\ conn'[d] = conn[d]
             /\ pc'[c] = "returned" /\ caller[c].tool = "use" =>
                  outcome'[c] = "error" \/ def'[c] = None
      BY <1>2 DEF UserOfCall, ServerOfCall, UserStep, ServerStep, Goto, Answer,
         SetConnection, SetIncomplete, SetRejected, UseConnection, ListConnections,
         FormAccepted, FormRefused, FormIgnored, ElicitAccepted, ElicitRejected,
         WaitCancelled, GetNamespace, CreateNamespace, GeneratePending, Register,
         SecretFound, SecretMissing, WaitReleased, WaitTimedOut, RecheckFound,
         RecheckMissing, Reput, TypeInv, TypeOK, ServiceTypeOK, CallInv, Early
<1>3. CASE UNCHANGED callVars
      BY <1>3 DEF callVars
<1>4. CASE \E c \in Call : UserOfCall(c) \/ ServerOfCall(c)
      BY <1>1, <1>2, <1>4
<1> QED
    BY <1>3, <1>4 DEF Next, UserOfPage, Handler, RemoveConnector, vars

\* A tool whose connector the user has defined on the way finds it, in a namespace
\* that the configuration lists, nobody removes from, and no page renames in.
THEOREM UseGetsDefinition ==
  ASSUME UsersIn(ConfiguredNs \ Removable) PROVE Spec /\ []NoRename => []UseFindsDefinition
<1>1. TypeInv /\ RegInv /\ NoRename /\ UseFindsDefinition /\ [Next]_vars => UseFindsDefinition'
      BY NextUse
<1> QED
    BY <1>1, InitUse, SpecRegInv, PTL DEF Spec
=============================================================================
