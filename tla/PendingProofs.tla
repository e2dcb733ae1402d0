----------------------------- MODULE PendingProofs -----------------------------
(***************************************************************************)
(* What SqlKit promises of a pending entry and its page, for any number of  *)
(* calls and requests.                                                     *)
(***************************************************************************)
EXTENDS SqlKitProofs

-----------------------------------------------------------------------------
(* The life of a pending entry.  An entry leaves the map by SecretFound, when *)
(* its URL is still unknown to anyone, and by DeletePending, when its channel *)
(* has been closed.                                                           *)

LiveInv ==
  /\ CallbackLive
  /\ AnsweredMeansReleased
  /\ CancelledIsGone
  /\ \A c \in Call : pc[c] \in {"register", "check"} => c \in pending
  /\ \A r \in Request : hpc[r] = "delete" => page[r] \in done
  /\ \A r \in Request : response[r] # None => hpc[r] = "answered"

LEMMA InitLiveInv == Init => LiveInv
BY InteractionAssumption DEF Init, ManagerInit, ServiceInit, InteractionInit, LiveInv, CallbackLive, Response,
       AnsweredMeansReleased, CancelledIsGone

LEMMA NextLiveInv == TypeInv /\ LiveInv /\ [Next]_vars => LiveInv'
<1> SUFFICES ASSUME TypeInv, LiveInv, [Next]_vars PROVE LiveInv'
    OBVIOUS
<1> USE DEF TypeInv, TypeOK, ManagerTypeOK, ServiceTypeOK, InteractionTypeOK, CallInv, RequestInv,
            LiveInv, CallbackLive, AnsweredMeansReleased, CancelledIsGone,
            CallStep, HandlerPC, Response, Early, Mid, Goto, Answer, Continue, Respond, AfterClose,
            managerVars, registryVars, objectVars, callVars, requestVars
<1>1. ASSUME NEW c \in Call, SetConnection(c), UNCHANGED requestVars
      PROVE  LiveInv'
      BY <1>1 DEF SetConnection
<1>2. ASSUME NEW c \in Call, SetIncomplete(c), UNCHANGED requestVars
      PROVE  LiveInv'
      BY <1>2 DEF SetIncomplete
<1>3. ASSUME NEW c \in Call, SetRejected(c), UNCHANGED requestVars
      PROVE  LiveInv'
      BY <1>3 DEF SetRejected
<1>4. ASSUME NEW c \in Call, NEW n \in Name, UseConnection(c, n), UNCHANGED requestVars
      PROVE  LiveInv'
      BY <1>4 DEF UseConnection
<1>5. ASSUME NEW c \in Call, ListConnections(c), UNCHANGED requestVars
      PROVE  LiveInv'
      BY <1>5 DEF ListConnections
<1>6. ASSUME NEW c \in Call, FormAccepted(c), UNCHANGED requestVars
      PROVE  LiveInv'
      BY <1>6 DEF FormAccepted
<1>7. ASSUME NEW c \in Call, FormRefused(c), UNCHANGED requestVars
      PROVE  LiveInv'
      BY <1>7 DEF FormRefused
<1>8. ASSUME NEW c \in Call, FormIgnored(c), UNCHANGED requestVars
      PROVE  LiveInv'
      BY <1>8 DEF FormIgnored
<1>9. ASSUME NEW c \in Call, ElicitAccepted(c), UNCHANGED requestVars
      PROVE  LiveInv'
      BY <1>9 DEF ElicitAccepted
<1>10. ASSUME NEW c \in Call, ElicitRejected(c), UNCHANGED requestVars
      PROVE  LiveInv'
      BY <1>10 DEF ElicitRejected
<1>11. ASSUME NEW c \in Call, WaitCancelled(c), UNCHANGED requestVars
      PROVE  LiveInv'
      BY <1>11 DEF WaitCancelled
<1>12. ASSUME NEW c \in Call, GetNamespace(c), UNCHANGED requestVars
      PROVE  LiveInv'
      BY <1>12 DEF GetNamespace
<1>13. ASSUME NEW c \in Call, CreateNamespace(c), UNCHANGED requestVars
      PROVE  LiveInv'
      BY <1>13 DEF CreateNamespace
<1>14. ASSUME NEW c \in Call, GeneratePending(c), UNCHANGED requestVars
      PROVE  LiveInv'
      BY <1>14, InteractionAssumption DEF GeneratePending
<1>15. ASSUME NEW c \in Call, Register(c), UNCHANGED requestVars
      PROVE  LiveInv'
      BY <1>15 DEF Register
<1>16. ASSUME NEW c \in Call, SecretFound(c), UNCHANGED requestVars
      PROVE  LiveInv'
      BY <1>16 DEF SecretFound
<1>17. ASSUME NEW c \in Call, SecretMissing(c), UNCHANGED requestVars
      PROVE  LiveInv'
      BY <1>17 DEF SecretMissing
<1>18. ASSUME NEW c \in Call, WaitReleased(c), UNCHANGED requestVars
      PROVE  LiveInv'
      BY <1>18 DEF WaitReleased
<1>19. ASSUME NEW c \in Call, WaitTimedOut(c), UNCHANGED requestVars
      PROVE  LiveInv'
      BY <1>19 DEF WaitTimedOut
<1>20. ASSUME NEW c \in Call, RecheckFound(c), UNCHANGED requestVars
      PROVE  LiveInv'
      BY <1>20 DEF RecheckFound
<1>21. ASSUME NEW c \in Call, RecheckMissing(c), UNCHANGED requestVars
      PROVE  LiveInv'
      BY <1>21 DEF RecheckMissing
<1>22. ASSUME NEW c \in Call, Reput(c), UNCHANGED requestVars
      PROVE  LiveInv'
      BY <1>22 DEF Reput
<1>23. ASSUME NEW c \in Call, Resume(c), UNCHANGED requestVars
      PROVE  LiveInv'
      BY <1>23 DEF Resume
<1>24. ASSUME NEW r \in Request, NEW c \in Call, Post(r, c), UNCHANGED callVars
      PROVE  LiveInv'
  <2>1. CASE c \in pending
        BY <1>24, <2>1, InteractionAssumption DEF Post, Open
  <2>2. CASE c \notin pending
        BY <1>24, <2>2 DEF Post, Open
  <2> QED
      BY <2>1, <2>2
<1>25. ASSUME NEW r \in Request, NEW c \in Call, OAuthReturn(r, c), UNCHANGED callVars
      PROVE  LiveInv'
  <2>1. CASE c \in pending
        BY <1>25, <2>1, InteractionAssumption DEF OAuthReturn, Open
  <2>2. CASE c \notin pending
        BY <1>25, <2>2 DEF OAuthReturn, Open
  <2> QED
      BY <2>1, <2>2
<1>26. ASSUME NEW r \in Request, NEW n \in Name, SubmitCancel(r, n), UNCHANGED callVars
      PROVE  LiveInv'
      BY <1>26 DEF SubmitCancel, EditName
<1>27. ASSUME NEW r \in Request, NEW n \in Name, SubmitBlank(r, n), UNCHANGED callVars
      PROVE  LiveInv'
      BY <1>27 DEF SubmitBlank, EditName
<1>28. ASSUME NEW r \in Request, NEW n \in Name, SubmitCredentials(r, n), UNCHANGED callVars
      PROVE  LiveInv'
      BY <1>28 DEF SubmitCredentials, EditName
<1>29. ASSUME NEW r \in Request, StoreSecret(r), UNCHANGED callVars
      PROVE  LiveInv'
      BY <1>29 DEF StoreSecret
<1>30. ASSUME NEW r \in Request, StoreFails(r), UNCHANGED callVars
      PROVE  LiveInv'
      BY <1>30 DEF StoreFails
<1>31. ASSUME NEW r \in Request, Verified(r), UNCHANGED callVars
      PROVE  LiveInv'
      BY <1>31 DEF Verified
<1>32. ASSUME NEW r \in Request, VerifyFails(r), UNCHANGED callVars
      PROVE  LiveInv'
      BY <1>32 DEF VerifyFails
<1>33. ASSUME NEW r \in Request, Exchanged(r), UNCHANGED callVars
      PROVE  LiveInv'
      BY <1>33 DEF Exchanged
<1>34. ASSUME NEW r \in Request, ExchangeFails(r), UNCHANGED callVars
      PROVE  LiveInv'
      BY <1>34 DEF ExchangeFails
<1>35. ASSUME NEW r \in Request, CompletePending(r), UNCHANGED callVars
      PROVE  LiveInv'
  <2>1. CASE page[r] \in pending
        BY <1>35, <2>1 DEF CompletePending
  <2>2. CASE page[r] \notin pending
        BY <1>35, <2>2 DEF CompletePending
  <2> QED
      BY <2>1, <2>2
<1>f. ASSUME NEW r \in Request, FindNamespace(r), UNCHANGED callVars
      PROVE  LiveInv'
      BY <1>f DEF FindNamespace
<1>36. ASSUME NEW r \in Request, Activate(r), UNCHANGED callVars
      PROVE  LiveInv'
      BY <1>36 DEF Activate
<1>37. ASSUME NEW r \in Request, CancelPending(r), UNCHANGED callVars
      PROVE  LiveInv'
  <2>1. CASE page[r] \in pending
        BY <1>37, <2>1 DEF CancelPending
  <2>2. CASE page[r] \notin pending
        BY <1>37, <2>2 DEF CancelPending
  <2> QED
      BY <2>1, <2>2
<1>38. ASSUME NEW r \in Request, CloseCheck(r), UNCHANGED callVars
      PROVE  LiveInv'
      BY <1>38 DEF CloseCheck
<1>39. ASSUME NEW r \in Request, CloseDone(r), UNCHANGED callVars
      PROVE  LiveInv'
      BY SMTT(30), <1>39 DEF CloseDone
<1>40. ASSUME NEW r \in Request, DeletePending(r), UNCHANGED callVars
      PROVE  LiveInv'
      BY <1>40 DEF DeletePending
<1>41. ASSUME NEW ns \in Namespace, NEW n \in Name, RemoveConnector(ns, n)
      PROVE  LiveInv'
      BY <1>41 DEF RemoveConnector, Remove
<1>42. CASE UNCHANGED vars
      BY <1>42 DEF vars
<1> QED
    BY SqlKitAssumption,
       <1>1, <1>2, <1>3, <1>4, <1>5, <1>6, <1>7, <1>8, <1>9, <1>10,
       <1>11, <1>12, <1>13, <1>14, <1>15, <1>16, <1>17, <1>18, <1>19, <1>20,
       <1>21, <1>22, <1>23, <1>24, <1>25, <1>26, <1>27, <1>28, <1>29, <1>30,
       <1>31, <1>32, <1>33, <1>34, <1>35, <1>f, <1>36, <1>37, <1>38, <1>39, <1>40,
       <1>41, <1>42
       DEF Next, UserOfCall, ServerOfCall, UserOfPage, Handler, UserStep, ServerStep,
           SendRequest, HandlerStep

LEMMA SpecLiveInv == Spec => [](TypeInv /\ LiveInv)
BY SpecTypeInv, InitLiveInv, NextLiveInv, PTL DEF Spec

\* A callback URL leads to a page until the channel of that page is closed.
THEOREM CallbackStaysLive == Spec => []CallbackLive
BY SpecLiveInv, PTL DEF LiveInv

\* A page that is reported completed or cancelled has released its call.
THEOREM AnsweredReleases == Spec => []AnsweredMeansReleased
BY SpecLiveInv, PTL DEF LiveInv

\* A page that is reported cancelled is gone for good.
THEOREM CancelledStaysGone == Spec => []CancelledIsGone
BY SpecLiveInv, PTL DEF LiveInv

-----------------------------------------------------------------------------
(* A channel is closed once wherever no two requests of one page are between  *)
(* the test and the close at the same time: nothing else closes it, and a     *)
(* page does not change under its request.                                    *)

OneCloser ==
  \A r, s \in Request : hpc[r] = "closing" /\ hpc[s] = "closing" /\ page[r] = page[s] => r = s

\* What a step does to the requests that are about to close, and to the channels.
LEMMA ClosingMoves ==
  ASSUME TypeInv, Next
  PROVE  \/ \E r \in Request : CloseDone(r)
         \/ /\ done' = done
            /\ \A r \in Request :
                 hpc'[r] = "closing" =>
                   page'[r] = page[r] /\ (hpc[r] = "closing" \/ page[r] \notin done)
<1> USE DEF managerVars
<1>1. ASSUME NEW c \in Call, UserOfCall(c) \/ ServerOfCall(c)
      PROVE  done' = done /\ UNCHANGED requestVars
      BY <1>1 DEF UserOfCall, ServerOfCall, UserStep, ServerStep,
             SetConnection, SetIncomplete, SetRejected, UseConnection, ListConnections,
             FormAccepted, FormRefused, FormIgnored, ElicitAccepted, ElicitRejected,
             WaitCancelled, GetNamespace, CreateNamespace, GeneratePending, Register,
             SecretFound, SecretMissing, WaitReleased, WaitTimedOut, RecheckFound,
             RecheckMissing, Reput, Resume
<1>2. ASSUME NEW ns \in Removable, NEW n \in Name, RemoveConnector(ns, n)
      PROVE  done' = done /\ UNCHANGED requestVars
      BY <1>2 DEF RemoveConnector, Remove
<1>3. ASSUME NEW r \in Request, UserOfPage(r) \/ Handler(r), ~CloseDone(r)
      PROVE  /\ done' = done
             /\ \A q \in Request \ {r} : hpc'[q] = hpc[q] /\ page'[q] = page[q]
             /\ hpc'[r] = "closing" => page'[r] = page[r] /\ page[r] \notin done
  <2>1. done' = done
        BY <1>3 DEF UserOfPage, Handler, SendRequest, HandlerStep, Post, OAuthReturn, Open,
               SubmitCancel, SubmitBlank, SubmitCredentials, StoreSecret, StoreFails, Verified,
               VerifyFails, Exchanged, ExchangeFails, CompletePending, FindNamespace, Activate,
               CancelPending, CloseCheck, DeletePending
  <2>2. \A q \in Request \ {r} : hpc'[q] = hpc[q] /\ page'[q] = page[q]
        BY <1>3 DEF TypeInv, TypeOK, InteractionTypeOK, UserOfPage, Handler, SendRequest,
               HandlerStep, Post, OAuthReturn, Open, Continue, Respond, AfterClose, SubmitCancel,
               SubmitBlank, SubmitCredentials, StoreSecret, StoreFails, Verified, VerifyFails,
               Exchanged, ExchangeFails, CompletePending, FindNamespace,
               Activate, CancelPending, CloseCheck, DeletePending
  <2>3. CloseCheck(r) /\ hpc'[r] = "closing" => page' = page /\ page[r] \notin done
        BY DEF CloseCheck, Continue, AfterClose, Respond, TypeInv, TypeOK, InteractionTypeOK
  <2>4. ~CloseCheck(r) => hpc'[r] # "closing"
        BY <1>3 DEF TypeInv, TypeOK, InteractionTypeOK, UserOfPage, Handler, SendRequest,
               HandlerStep, Post, OAuthReturn, Open, Continue, Respond, AfterClose, SubmitCancel,
               SubmitBlank, SubmitCredentials, StoreSecret, StoreFails, Verified, VerifyFails,
               Exchanged, ExchangeFails, CompletePending, FindNamespace,
               Activate, CancelPending, DeletePending
  <2> QED
      BY <2>1, <2>2, <2>3, <2>4
<1> QED
    BY <1>1, <1>2, <1>3 DEF Next, requestVars

LEMMA NextCloseOnce == TypeInv /\ OneCloser /\ CloseOnce /\ [Next]_vars => CloseOnce'
<1> SUFFICES ASSUME TypeInv, OneCloser, CloseOnce, [Next]_vars PROVE CloseOnce'
    OBVIOUS
<1> USE DEF CloseOnce
<1>1. ASSUME NEW r \in Request, CloseDone(r)
      PROVE  CloseOnce'
  <2>1. /\ page' = page /\ done' = done \cup {page[r]} /\ hpc[r] = "closing"
        /\ hpc'[r] # "closing"
        /\ \A q \in Request \ {r} : hpc'[q] = hpc[q]
        BY <1>1 DEF CloseDone, Continue, AfterClose, Respond, TypeInv, TypeOK, InteractionTypeOK
  <2> QED
      BY <2>1 DEF OneCloser
<1>2. ASSUME done' = done,
             \A r \in Request :
               hpc'[r] = "closing" =>
                 page'[r] = page[r] /\ (hpc[r] = "closing" \/ page[r] \notin done)
      PROVE  CloseOnce'
      BY <1>2
<1>3. CASE UNCHANGED vars
      BY <1>3 DEF vars, managerVars, requestVars
<1> QED
    BY <1>1, <1>2, <1>3, ClosingMoves

\* The panic on closing a channel twice takes two requests of one page that have both
\* found it open before either has closed it.
THEOREM TwoClosersToPanic == Spec /\ []OneCloser => []CloseOnce
<1>1. Init => CloseOnce
      BY DEF Init, InteractionInit, CloseOnce
<1>2. TypeInv /\ OneCloser /\ CloseOnce /\ [Next]_vars => CloseOnce'
      BY NextCloseOnce
<1> QED
    BY <1>1, <1>2, SpecTypeInv, PTL DEF Spec

-----------------------------------------------------------------------------
(* Calls and pages implement SecretRequest.  A call has no answer before it   *)
(* is over, it waits only for a page that is known, and it is released only   *)
(* by a page that is settled (AskInv).                                        *)

Over == {"resume", "returned"}

AskInv ==
  /\ done \subseteq issued
  /\ \A c \in Call :
       /\ pc[c] \notin Over => outcome[c] = None
       /\ pc[c] \in {"elicit", "wait", "recheck", "reput"} => c \in issued
       /\ pc[c] \in {"recheck", "reput"} => c \in done

LEMMA InitAskInv == Init => AskInv
BY DEF Init, ManagerInit, ServiceInit, AskInv

\* A request closes at most the channel of its own page, and issues nothing.
LEMMA HandlerKeeps ==
  ASSUME NEW r \in Request, SendRequest(r) \/ HandlerStep(r)
  PROVE  issued' = issued /\ (done' = done \/ (done' = done \cup {page[r]} /\ hpc[r] = "closing"))
BY DEF SendRequest, HandlerStep, Post, OAuthReturn, Open, SubmitCancel, SubmitBlank,
       SubmitCredentials, StoreSecret, StoreFails, Verified, VerifyFails, Exchanged,
       ExchangeFails, CompletePending, FindNamespace, Activate, CancelPending,
       CloseCheck, CloseDone, DeletePending, managerVars

LEMMA NextAskInv == TypeInv /\ AskInv /\ [Next]_vars => AskInv'
<1> SUFFICES ASSUME TypeInv, AskInv, [Next]_vars PROVE AskInv'
    OBVIOUS
<1> USE DEF TypeInv, TypeOK, ManagerTypeOK, ServiceTypeOK, CallInv, AskInv, Over, Early, Mid,
            CallStep, Goto, Answer, managerVars, registryVars, objectVars, callVars
<1>1. ASSUME NEW c \in Call, SetConnection(c) PROVE AskInv'
      BY <1>1 DEF SetConnection
<1>2. ASSUME NEW c \in Call, SetIncomplete(c) PROVE AskInv'
      BY <1>2 DEF SetIncomplete
<1>3. ASSUME NEW c \in Call, SetRejected(c) PROVE AskInv'
      BY <1>3 DEF SetRejected
<1>4. ASSUME NEW c \in Call, NEW n \in Name, UseConnection(c, n) PROVE AskInv'
      BY <1>4 DEF UseConnection
<1>5. ASSUME NEW c \in Call, ListConnections(c) PROVE AskInv'
      BY <1>5 DEF ListConnections
<1>6. ASSUME NEW c \in Call, FormAccepted(c) PROVE AskInv'
      BY <1>6 DEF FormAccepted
<1>7. ASSUME NEW c \in Call, FormRefused(c) PROVE AskInv'
      BY <1>7 DEF FormRefused
<1>8. ASSUME NEW c \in Call, FormIgnored(c) PROVE AskInv'
      BY <1>8 DEF FormIgnored
<1>9. ASSUME NEW c \in Call, ElicitAccepted(c) PROVE AskInv'
      BY <1>9 DEF ElicitAccepted
<1>10. ASSUME NEW c \in Call, ElicitRejected(c) PROVE AskInv'
      BY <1>10 DEF ElicitRejected
<1>11. ASSUME NEW c \in Call, WaitCancelled(c) PROVE AskInv'
      BY <1>11 DEF WaitCancelled
<1>12. ASSUME NEW c \in Call, GetNamespace(c) PROVE AskInv'
      BY <1>12 DEF GetNamespace
<1>13. ASSUME NEW c \in Call, CreateNamespace(c) PROVE AskInv'
      BY <1>13 DEF CreateNamespace
<1>14. ASSUME NEW c \in Call, GeneratePending(c) PROVE AskInv'
      BY <1>14 DEF GeneratePending
<1>15. ASSUME NEW c \in Call, Register(c) PROVE AskInv'
      BY <1>15 DEF Register
<1>16. ASSUME NEW c \in Call, SecretFound(c) PROVE AskInv'
      BY <1>16 DEF SecretFound
<1>17. ASSUME NEW c \in Call, SecretMissing(c) PROVE AskInv'
      BY <1>17 DEF SecretMissing
<1>18. ASSUME NEW c \in Call, WaitReleased(c) PROVE AskInv'
      BY <1>18 DEF WaitReleased
<1>19. ASSUME NEW c \in Call, WaitTimedOut(c) PROVE AskInv'
      BY <1>19 DEF WaitTimedOut
<1>20. ASSUME NEW c \in Call, RecheckFound(c) PROVE AskInv'
      BY <1>20 DEF RecheckFound
<1>21. ASSUME NEW c \in Call, RecheckMissing(c) PROVE AskInv'
      BY <1>21 DEF RecheckMissing
<1>22. ASSUME NEW c \in Call, Reput(c) PROVE AskInv'
      BY <1>22 DEF Reput
<1>23. ASSUME NEW c \in Call, Resume(c) PROVE AskInv'
      BY <1>23 DEF Resume
<1>24. ASSUME NEW r \in Request, SendRequest(r) \/ HandlerStep(r), UNCHANGED callVars
       PROVE  AskInv'
      BY <1>24, HandlerKeeps DEF RequestInv
<1>25. ASSUME NEW ns \in Namespace, NEW n \in Name, RemoveConnector(ns, n) PROVE AskInv'
      BY <1>25 DEF RemoveConnector, Remove
<1>26. CASE UNCHANGED vars
      BY <1>26 DEF vars
<1> QED
    BY SqlKitAssumption,
       <1>1, <1>2, <1>3, <1>4, <1>5, <1>6, <1>7, <1>8, <1>9, <1>10, <1>11, <1>12, <1>13,
       <1>14, <1>15, <1>16, <1>17, <1>18, <1>19, <1>20, <1>21, <1>22, <1>23, <1>24, <1>25,
       <1>26
       DEF Next, UserOfCall, ServerOfCall, UserOfPage, Handler, UserStep, ServerStep

-----------------------------------------------------------------------------
(* What a step looks like from SecretRequest.                                 *)

SameView == PageState' = PageState /\ outcome' = outcome /\ ToldOver' = ToldOver

LEMMA SamePages == ASSUME UNCHANGED <<issued, done>> PROVE PageState' = PageState
BY DEF PageState

LEMMA SameTold == ASSUME UNCHANGED <<response, page>> PROVE ToldOver' = ToldOver
BY DEF ToldOver

\* A request with no answer yet tells nothing of a page unless it says it is over.
LEMMA TellsNothing ==
  ASSUME InteractionTypeOK, NEW r \in Request, response[r] = None,
         \A q \in Request : q # r => response'[q] = response[q] /\ page'[q] = page[q],
         response'[r] \notin {"completed", "cancelled"}
  PROVE  ToldOver' = ToldOver
BY InteractionAssumption DEF ToldOver, Response

LEMMA TellsOver ==
  ASSUME InteractionTypeOK, NEW r \in Request, response[r] = None, page' = page,
         NEW a \in {"completed", "cancelled"}, Respond(r, a)
  PROVE  OneShot!Told(r, page[r])
BY InteractionAssumption DEF InteractionTypeOK, Respond, ToldOver, Response, OneShot!Told
LEMMA InitView == Init => OneShot!Init
BY InteractionAssumption
   DEF Init, ManagerInit, ServiceInit, InteractionInit, PageState, ToldOver, Response, OneShot!Init

View == <<PageState, outcome, ToldOver>>

\* A call asks, is answered, or shows nothing.
LEMMA CallView ==
  ASSUME TypeInv, AskInv, NEW c \in Call, UserOfCall(c) \/ ServerOfCall(c)
  PROVE  OneShot!Next \/ SameView
<1> USE DEF TypeInv, TypeOK, ServiceTypeOK, AskInv, Over, CallStep, Answer, SameView,
            OneShot!Next, OneShot!Answered, managerVars
<1> ToldOver' = ToldOver
    BY SameTold DEF UserOfCall, ServerOfCall, requestVars
<1>1. ASSUME SetConnection(c) \/ SetIncomplete(c) \/ ListConnections(c) \/ FormAccepted(c)
             \/ ElicitAccepted(c)
      PROVE  SameView
      BY <1>1, SamePages DEF SetConnection, SetIncomplete, ListConnections, FormAccepted, ElicitAccepted
<1>2. ASSUME SetRejected(c) \/ FormRefused(c) \/ ElicitRejected(c) \/ WaitCancelled(c)
      PROVE  OneShot!AnswerError(c)
      BY <1>2, SamePages DEF SetRejected, FormRefused, ElicitRejected, WaitCancelled,
                             OneShot!AnswerError
<1>3. ASSUME NEW n \in Name, UseConnection(c, n)
      PROVE  OneShot!AnswerError(c) \/ SameView
      BY <1>3, SamePages DEF UseConnection, OneShot!AnswerError
<1>4. ASSUME FormIgnored(c)
      PROVE  SameView
      BY <1>4, SamePages DEF FormIgnored
<1>5. ASSUME GetNamespace(c) \/ CreateNamespace(c) \/ GeneratePending(c) \/ Register(c)
             \/ WaitReleased(c) \/ RecheckFound(c) \/ Resume(c)
      PROVE  SameView
      BY <1>5, SamePages DEF GetNamespace, CreateNamespace, GeneratePending, Register,
                             WaitReleased, RecheckFound, Resume
<1>6. ASSUME SecretFound(c)
      PROVE  OneShot!AnswerActive(c)
  <2>1. PageState' = PageState /\ PageState[c] # "open"
        BY <1>6, SamePages DEF SecretFound, PageState, CallInv
  <2> QED
      BY <1>6, <2>1 DEF SecretFound, OneShot!AnswerActive
<1>7. ASSUME SecretMissing(c)
      PROVE  OneShot!Issue(c)
  <2>1. c \notin issued /\ c \notin done /\ issued' = issued \cup {c} /\ done' = done
        BY <1>7 DEF SecretMissing, CallInv
  <2>2. PageState[c] = "none" /\ PageState' = [PageState EXCEPT ![c] = "open"]
        BY <2>1 DEF PageState
  <2>3. outcome[c] = None
        BY <1>7 DEF SecretMissing
  <2>4. outcome' = outcome \/ outcome' = [outcome EXCEPT ![c] = "pending"]
        BY <1>7 DEF SecretMissing
  <2> QED
      BY <2>2, <2>3, <2>4 DEF OneShot!Issue
<1>8. ASSUME WaitTimedOut(c)
      PROVE  OneShot!AnswerPending(c)
  <2>1. PageState' = PageState /\ PageState[c] # "none"
        BY <1>8, SamePages DEF WaitTimedOut, PageState
  <2> QED
      BY <1>8, <2>1 DEF WaitTimedOut, OneShot!AnswerPending
<1>9. ASSUME RecheckMissing(c) \/ Reput(c)
      PROVE  OneShot!AnswerActive(c)
  <2>1. PageState' = PageState /\ PageState[c] # "open"
        BY <1>9, SamePages DEF RecheckMissing, Reput, PageState
  <2> QED
      BY <1>9, <2>1 DEF RecheckMissing, Reput, OneShot!AnswerActive
<1> QED
    BY <1>1, <1>2, <1>3, <1>4, <1>5, <1>6, <1>7, <1>8, <1>9
       DEF UserOfCall, ServerOfCall, UserStep, ServerStep

\* A request whose page is not in the map, or is closed already, finds it settled.
LEMMA TellView ==
  ASSUME TypeInv, LiveInv, NEW r \in Request, UNCHANGED <<issued, done, outcome, page>>,
         hpc[r] \notin {"idle", "answered"}, page[r] \in done,
         NEW a \in {"completed", "cancelled"}, Respond(r, a)
  PROVE  OneShot!Next
<1>1. page[r] \in Call
      BY DEF TypeInv, TypeOK, InteractionTypeOK, RequestInv
<1>2. PageState' = PageState /\ PageState[page[r]] = "settled"
      BY <1>1, SamePages DEF PageState
<1>3. OneShot!Told(r, page[r])
      BY TellsOver DEF TypeInv, TypeOK, LiveInv
<1> QED
    BY <1>1, <1>2, <1>3 DEF OneShot!Next, OneShot!Tell

\* A request settles its page, tells its user, or shows nothing.
LEMMA RequestView ==
  ASSUME TypeInv, LiveInv, NEW r \in Request, UserOfPage(r) \/ Handler(r)
  PROVE  OneShot!Next \/ SameView
<1> USE DEF TypeInv, TypeOK, InteractionTypeOK, RequestInv, LiveInv, CallbackLive, HandlerPC,
            SameView, Continue, managerVars
<1> outcome' = outcome
    BY DEF UserOfPage, Handler, callVars
<1>1. ASSUME NEW c \in Call, Post(r, c) \/ OAuthReturn(r, c)
      PROVE  SameView
  <2>1. response[r] = None /\ UNCHANGED <<issued, done>>
        BY <1>1 DEF Post, OAuthReturn, Open
  <2>2. response'[r] \notin {"completed", "cancelled"}
        BY <1>1, <2>1, InteractionAssumption DEF Post, OAuthReturn, Open, Respond, Response
  <2>3. \A q \in Request : q # r => response'[q] = response[q] /\ page'[q] = page[q]
        BY <1>1 DEF Post, OAuthReturn, Open, Respond
  <2> QED
      BY <2>1, <2>2, <2>3, SamePages, TellsNothing
<1>2. ASSUME (\E n \in Name : SubmitCancel(r, n) \/ SubmitCredentials(r, n))
             \/ StoreSecret(r) \/ Verified(r) \/ Exchanged(r)
             \/ FindNamespace(r) \/ Activate(r)
      PROVE  SameView
      BY <1>2, SamePages, SameTold DEF SubmitCancel, SubmitCredentials, StoreSecret, Verified,
                                       Exchanged, FindNamespace, Activate
<1>3. ASSUME (\E n \in Name : SubmitBlank(r, n)) \/ StoreFails(r) \/ VerifyFails(r) \/ ExchangeFails(r)
      PROVE  SameView
  <2>1. response[r] = None /\ UNCHANGED <<issued, done, page>>
        BY <1>3 DEF SubmitBlank, StoreFails, VerifyFails, ExchangeFails
  <2>2. PICK a \in {"form", "error", "panic"} : Respond(r, a)
        BY <1>3 DEF SubmitBlank, StoreFails, VerifyFails, ExchangeFails
  <2> QED
      BY <2>1, <2>2, SamePages, TellsNothing DEF Respond
<1>4. ASSUME CompletePending(r) \/ CancelPending(r)
      PROVE  OneShot!Next \/ SameView
  <2>1. UNCHANGED <<issued, done, page>> /\ hpc[r] \in {"complete", "cancel"}
        BY <1>4 DEF CompletePending, CancelPending
  <2>2. CASE page[r] \in pending
        BY <1>4, <2>1, <2>2, SamePages, SameTold DEF CompletePending, CancelPending
  <2>3. CASE page[r] \notin pending
    <3>1. page[r] \in done
          BY <2>1, <2>3
    <3>2. \E a \in {"completed", "cancelled"} : Respond(r, a)
          BY <1>4, <2>3 DEF CompletePending, CancelPending
    <3> QED
        BY <2>1, <3>1, <3>2, TellView
  <2> QED
      BY <2>2, <2>3
<1>5. ASSUME CloseCheck(r)
      PROVE  OneShot!Next \/ SameView
  <2>1. UNCHANGED <<issued, done, page>> /\ hpc[r] = "close"
        BY <1>5 DEF CloseCheck
  <2>2. CASE UNCHANGED response
        BY <2>1, <2>2, SamePages, SameTold
  <2>3. CASE ~UNCHANGED response
    <3>1. page[r] \notin pending \ done /\ Respond(r, "completed")
          BY <1>5, <2>3 DEF CloseCheck, AfterClose
    <3>2. page[r] \in done
          BY <2>1, <3>1
    <3> QED
        BY <2>1, <3>1, <3>2, TellView
  <2> QED
      BY <2>2, <2>3
<1>6. ASSUME CloseDone(r)
      PROVE  OneShot!Next \/ SameView
  <2>1. /\ hpc[r] = "closing" /\ page' = page /\ issued' = issued
        /\ done' = done \cup {page[r]}
        BY <1>6 DEF CloseDone
  <2>2. response[r] = None /\ page[r] \in Call /\ page[r] \in issued
        BY <2>1
  <2>3. CASE page[r] \in done
    <3>1. Respond(r, "panic") /\ done' = done
          BY <1>6, <2>1, <2>3 DEF CloseDone
    <3> QED
        BY <2>1, <2>2, <3>1, SamePages, TellsNothing DEF Respond
  <2>4. CASE page[r] \notin done
    <3>1. PageState[page[r]] = "open" /\ PageState' = [PageState EXCEPT ![page[r]] = "settled"]
          BY <2>1, <2>2, <2>4 DEF PageState
    <3>2. ToldOver' = ToldOver \/ OneShot!Told(r, page[r])
          BY <1>6, <2>1, <2>2, <2>4, SameTold, TellsOver DEF CloseDone, AfterClose
    <3> QED
        BY <2>2, <3>1, <3>2 DEF OneShot!Next, OneShot!Settle
  <2> QED
      BY <2>3, <2>4
<1>7. ASSUME DeletePending(r)
      PROVE  OneShot!Next
      BY <1>7, TellView DEF DeletePending
<1> QED
    BY <1>1, <1>2, <1>3, <1>4, <1>5, <1>6, <1>7
       DEF UserOfPage, Handler, SendRequest, HandlerStep

LEMMA NextView ==
  TypeInv /\ LiveInv /\ AskInv /\ [Next]_vars => [OneShot!Next]_View
<1> SUFFICES ASSUME TypeInv, LiveInv, AskInv, [Next]_vars PROVE OneShot!Next \/ SameView
    BY DEF SameView, View
<1>1. ASSUME NEW ns \in Namespace, NEW n \in Name, RemoveConnector(ns, n) PROVE SameView
      BY <1>1, SamePages, SameTold DEF RemoveConnector, Remove, callVars, requestVars, SameView
<1>2. CASE UNCHANGED vars
      BY <1>2, SamePages, SameTold DEF vars, managerVars, callVars, requestVars, SameView
<1> QED
    BY SqlKitAssumption, CallView, RequestView, <1>1, <1>2 DEF Next

\* Whatever the calls, their users and the requests of their pages do: a page is
\* settled once, and no answer runs ahead of it.
THEOREM PagesSettleOnce == Spec => ImplementsRequest
<1>1. TypeInv /\ LiveInv /\ AskInv /\ [Next]_vars
      => [OneShot!Next]_<<PageState, outcome, ToldOver>>
      BY NextView DEF View
<1> QED
    BY <1>1, InitView, InitAskInv, NextAskInv, SpecLiveInv, PTL
       DEF Spec, ImplementsRequest, OneShot!Spec
=============================================================================
