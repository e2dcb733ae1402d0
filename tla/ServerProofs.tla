------------------------------ MODULE ServerProofs ------------------------------
(***************************************************************************)
(* The life of the process takes nothing from what is proved of SqlKit: a  *)
(* run of the server is a run of SqlKit.  And no end of the process passes *)
(* over calls and pages that it cuts off.                                  *)
(***************************************************************************)
EXTENDS Server, PendingProofs

LEMMA ServerInitIsInit == ServerInit => Init
BY DEF ServerInit

LEMMA ServerNextIsNext == [ServerNext]_allVars => [Next]_vars
BY DEF ServerNext, ClientStep, CallStepUp, BrowserStep, HandlerStepUp, allVars, Next

\* Whatever a client, a user, a signal or a transport does, the calls and pages of
\* the process are those of SqlKit.
THEOREM ServerIsSqlKit == ServerSpec => Spec
BY ServerInitIsInit, ServerNextIsNext, PTL DEF ServerSpec, Spec

\* So callback URLs stay live until the process ends.
THEOREM ServerKeepsCallbacks == ServerSpec => []CallbackLive
BY ServerIsSqlKit, CallbackStaysLive

\* So pages are settled once, under any transport and through a shutdown.
THEOREM ServerSettlesOnce == ServerSpec => ImplementsRequest
BY ServerIsSqlKit, PagesSettleOnce

-----------------------------------------------------------------------------
(* The types of the life around SqlKit.                                       *)

LifeTypeOK ==
  /\ phase \in {"start", "running", "shutdown", "exited"}
  /\ http \in BOOLEAN /\ listening \in BOOLEAN /\ signalled \in BOOLEAN
  /\ stdio \in {"off", "up", "eof", "broken"}
  /\ exit \in {None, "ok", "error", "panic"}
  /\ over \in [Call -> {"http", "stdio"}]

LEMMA InitLifeType == ServerInit => LifeTypeOK
BY DEF ServerInit, LifeTypeOK

LEMMA NextLifeType == LifeTypeOK /\ [ServerNext]_allVars => LifeTypeOK'
<1> SUFFICES ASSUME LifeTypeOK, [ServerNext]_allVars PROVE LifeTypeOK'
    OBVIOUS
<1> USE DEF LifeTypeOK, lifeVars, allVars
<1>1. ASSUME Start \/ StartFails \/ HelpPanics \/ ListenFails, over' = over
      PROVE  LifeTypeOK'
      BY <1>1 DEF Start, StartFails, HelpPanics, ListenFails, Exit
<1>2. ASSUME Signal \/ StdioEnds, over' = over PROVE LifeTypeOK'
      BY <1>2 DEF Signal, StdioEnds
<1>3. ASSUME Run, over' = over PROVE LifeTypeOK'
      BY <1>3 DEF Run, StopsWaiting, StdioError, ShutdownDone, ShutdownTimesOut, Exit
<1>4. CASE UNCHANGED <<lifeVars, over>>
      BY <1>4
<1> QED
    BY <1>1, <1>2, <1>3, <1>4 DEF ServerNext, Life

\* The variables of the process keep their types, those of SqlKit among them.
THEOREM ServerTypeCorrect == ServerSpec => []ServerTypeOK
<1>1. TypeInv /\ LifeTypeOK => ServerTypeOK
      BY DEF TypeInv, LifeTypeOK, ServerTypeOK
<1>2. ServerSpec => []TypeInv
      BY ServerIsSqlKit, SpecTypeInv
<1> QED
    BY <1>1, <1>2, InitLifeType, NextLifeType, PTL DEF ServerSpec

-----------------------------------------------------------------------------
(* What HTTP connections wait for exists only where there is HTTP: nothing    *)
(* has begun before the start, and without an address nothing reaches the     *)
(* pages, or the calls that would come over HTTP.                             *)

LifeInv ==
  /\ over \in [Call -> {"http", "stdio"}]
  /\ phase = "start" \/ ~http => InFlight = {} /\ ~listening
  /\ CutOffIsAnError

LEMMA InitLifeInv == ServerInit => LifeInv
BY DEF ServerInit, Init, ServiceInit, InteractionInit, LifeInv, InFlight, CutOffIsAnError

\* A step of a call moves that call only, and only the client begins it.
LEMMA CallMoves ==
  ASSUME ServiceTypeOK, NEW c \in Call, UserOfCall(c) \/ ServerOfCall(c)
  PROVE  /\ hpc' = hpc
         /\ \A d \in Call \ {c} : pc'[d] = pc[d]
         /\ WaitCancelled(c) \/ ServerStep(c) => pc[c] \notin {"new", "returned"}
<1>1. hpc' = hpc
      BY DEF UserOfCall, ServerOfCall, requestVars
<1>2. \A d \in Call \ {c} : pc'[d] = pc[d]
      BY DEF ServiceTypeOK, UserOfCall, ServerOfCall, UserStep, ServerStep, Goto, Answer,
             SetConnection, SetIncomplete, SetRejected, UseConnection, ListConnections,
             FormAccepted, FormRefused, FormIgnored, ElicitAccepted, ElicitRejected,
             WaitCancelled, GetNamespace, CreateNamespace, GeneratePending, Register,
             SecretFound, SecretMissing, WaitReleased, WaitTimedOut, RecheckFound,
             RecheckMissing, Reput, Resume
<1>3. WaitCancelled(c) \/ ServerStep(c) => pc[c] \notin {"new", "returned"}
      BY DEF WaitCancelled, ServerStep, GetNamespace, CreateNamespace, GeneratePending,
             Register, SecretFound, SecretMissing, WaitReleased, WaitTimedOut, RecheckFound,
             RecheckMissing, Reput, Resume
<1> QED
    BY <1>1, <1>2, <1>3

\* A step of a request leaves the calls alone, and only a browser begins it.
LEMMA PageMoves ==
  ASSUME InteractionTypeOK, NEW r \in Request, UserOfPage(r) \/ Handler(r)
  PROVE  /\ pc' = pc
         /\ \A q \in Request \ {r} : hpc'[q] = hpc[q]
         /\ HandlerStep(r) => hpc[r] \notin {"idle", "answered"}
<1>1. pc' = pc
      BY DEF UserOfPage, Handler, callVars
<1>2. \A q \in Request \ {r} : hpc'[q] = hpc[q]
      BY DEF InteractionTypeOK, UserOfPage, Handler, SendRequest, HandlerStep, Post, OAuthReturn,
             Open, Continue, Respond, AfterClose, SubmitCancel, SubmitBlank, SubmitCredentials,
             StoreSecret, StoreFails, Verified, VerifyFails, Exchanged, ExchangeFails,
             CompletePending, FindNamespace, Activate, CancelPending, CloseCheck, CloseDone,
             DeletePending
<1>3. HandlerStep(r) => hpc[r] \notin {"idle", "answered"}
      BY DEF HandlerStep, SubmitCancel, SubmitBlank, SubmitCredentials,
             StoreSecret, StoreFails, Verified, VerifyFails, Exchanged, ExchangeFails,
             CompletePending, FindNamespace, Activate, CancelPending, CloseCheck, CloseDone,
             DeletePending
<1> QED
    BY <1>1, <1>2, <1>3

LEMMA NextLifeInv == TypeInv /\ LifeInv /\ [ServerNext]_allVars => LifeInv'
<1> SUFFICES ASSUME TypeInv, LifeInv, [ServerNext]_allVars PROVE LifeInv'
    OBVIOUS
<1> USE DEF TypeInv, TypeOK, LifeInv, CutOffIsAnError, lifeVars
<1>1. ASSUME NEW c \in Call, ClientStep(c), UNCHANGED <<lifeVars, over>>
      PROVE  LifeInv'
      BY <1>1, CallMoves DEF ClientStep, Up, Reaches, InFlight
<1>2. ASSUME NEW c \in Call, CallStepUp(c), UNCHANGED <<lifeVars, over>>
      PROVE  LifeInv'
      BY <1>2, CallMoves DEF CallStepUp, ServerOfCall, Up, InFlight
<1>3. ASSUME NEW r \in Request, BrowserStep(r), UNCHANGED <<lifeVars, over>>
      PROVE  LifeInv'
      BY <1>3, PageMoves DEF BrowserStep, Up, InFlight
<1>4. ASSUME NEW r \in Request, HandlerStepUp(r), UNCHANGED <<lifeVars, over>>
      PROVE  LifeInv'
      BY <1>4, PageMoves DEF HandlerStepUp, Handler, Up, InFlight
<1>5. ASSUME UNCHANGED <<vars, over>>
      PROVE  InFlight' = InFlight
      BY <1>5 DEF vars, callVars, requestVars, InFlight
<1>6. ASSUME Start, UNCHANGED <<vars, over>> PROVE LifeInv'
      BY <1>5, <1>6 DEF Start
<1>7. ASSUME StartFails \/ HelpPanics, UNCHANGED <<vars, over>> PROVE LifeInv'
      BY <1>5, <1>7 DEF StartFails, HelpPanics, Exit
<1>8. ASSUME ListenFails \/ Signal \/ StdioEnds, UNCHANGED <<vars, over>> PROVE LifeInv'
      BY <1>5, <1>8 DEF ListenFails, Signal, StdioEnds
<1>9. ASSUME StopsWaiting, UNCHANGED <<vars, over>> PROVE LifeInv'
      BY <1>5, <1>9 DEF StopsWaiting
<1>10. ASSUME StdioError \/ ShutdownTimesOut, UNCHANGED <<vars, over>> PROVE LifeInv'
      BY <1>5, <1>10 DEF StdioError, ShutdownTimesOut, Exit
<1>11. ASSUME ShutdownDone, UNCHANGED <<vars, over>> PROVE LifeInv'
      BY <1>5, <1>11 DEF ShutdownDone, Exit
<1>12. CASE UNCHANGED allVars
      BY <1>5, <1>12 DEF allVars
<1> QED
    BY <1>1, <1>2, <1>3, <1>4, <1>6, <1>7, <1>8, <1>9, <1>10, <1>11, <1>12
       DEF ServerNext, Life, Run

\* The exit status tells of every call and page that was cut off.
THEOREM CutOffsAreErrors == ServerSpec => []CutOffIsAnError
<1>1. LifeInv => CutOffIsAnError
      BY DEF LifeInv
<1>2. ServerSpec => []TypeInv
      BY ServerIsSqlKit, SpecTypeInv
<1> QED
    BY <1>1, <1>2, InitLifeInv, NextLifeInv, PTL DEF ServerSpec
=============================================================================
