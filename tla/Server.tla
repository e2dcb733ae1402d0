-------------------------------- MODULE Server --------------------------------
(***************************************************************************)
(* The life of the process (cmd/mcp-sqlkit/runner.go) around the calls and *)
(* pages of SqlKit: start-up, the HTTP and the stdio transport, the wait   *)
(* for a signal or the end of stdio, and the shutdown.  Calls come over    *)
(* either transport, pages over HTTP only.  Nothing runs after the exit;   *)
(* what a restart finds is the set Persisted of ConnectorManager.          *)
(*                                                                         *)
(* A client answers an elicitation over HTTP with another request, so it   *)
(* needs the listener as much as a new call does.                          *)
(***************************************************************************)
EXTENDS SqlKit

VARIABLES
  phase,      \* of run()
  http,       \* Options.HTTPAddr # ""
  listening,  \* the HTTP listener accepts requests
  stdio,      \* the stdio transport
  signalled,  \* the context of NotifyContext is done
  exit,       \* how the process ended
  over        \* the transport of a call

lifeVars == <<phase, http, listening, stdio, signalled, exit>>
allVars  == <<vars, lifeVars, over>>

ServerTypeOK ==
  /\ TypeOK
  /\ phase \in {"start", "running", "shutdown", "exited"}
  /\ http \in BOOLEAN /\ listening \in BOOLEAN /\ signalled \in BOOLEAN
  /\ stdio \in {"off", "up", "eof", "broken"}
  /\ exit \in {None, "ok", "error", "panic"}
  /\ over \in [Call -> {"http", "stdio"}]

ServerInit ==
  /\ Init
  /\ phase = "start" /\ exit = None
  /\ http \in BOOLEAN /\ stdio \in {"off", "up"}
  /\ listening = FALSE /\ signalled = FALSE
  /\ over \in [Call -> {"http", "stdio"}]

\* Fault: a status of its own for a process that was told to stop.
ExitSaysSignal(status) ==
  phase' = "exited" /\ exit' = IF signalled THEN "interrupted" ELSE status

Exit(status) == phase' = "exited" /\ exit' = status

-----------------------------------------------------------------------------
\* Flags, configuration, secret and server are in order; HTTP and stdio start.
Start ==
  /\ phase = "start"
  /\ phase' = "running"
  /\ listening' = http
  /\ UNCHANGED <<http, stdio, signalled, exit>>

\* One of them is not.
StartFails ==
  /\ phase = "start"
  /\ Exit("error")
  /\ UNCHANGED <<http, listening, stdio, signalled>>

\* Help was asked for: there are no options, and they are dereferenced.
HelpPanics ==
  /\ phase = "start"
  /\ Exit("panic")
  /\ UNCHANGED <<http, listening, stdio, signalled>>

\* ListenAndServe fails, at once or later.  It is logged, and nobody is told.
ListenFails ==
  /\ phase = "running" /\ listening
  /\ listening' = FALSE
  /\ UNCHANGED <<phase, http, stdio, signalled, exit>>

Signal ==
  /\ phase = "running" /\ ~signalled
  /\ signalled' = TRUE
  /\ UNCHANGED <<phase, http, listening, stdio, exit>>

\* The client closes stdin, or the transport breaks.
StdioEnds ==
  /\ phase \in {"running", "shutdown"} /\ stdio = "up"
  /\ stdio' \in {"eof", "broken"}
  /\ UNCHANGED <<phase, http, listening, signalled, exit>>

-----------------------------------------------------------------------------
\* Calls and page requests that HTTP connections wait for.
InFlight ==
  {c \in Call : over[c] = "http" /\ pc[c] \notin {"new", "returned"}} \cup
  {r \in Request : hpc[r] \notin {"idle", "answered"}}

\* waitForShutdown returns without an error.  Shutdown closes the listener first.
StopsWaiting ==
  /\ phase = "running" /\ (signalled \/ stdio = "eof")
  /\ phase' = "shutdown"
  /\ listening' = FALSE
  /\ UNCHANGED <<http, stdio, signalled, exit>>

\* An error of stdio: run returns, past the shutdown of HTTP.
StdioError ==
  /\ phase = "running" /\ stdio = "broken"
  /\ Exit("error")
  /\ UNCHANGED <<http, listening, stdio, signalled>>

\* Fault: the server is closed at once.
ShutdownAtOnce ==
  /\ phase = "shutdown"
  /\ Exit("ok")
  /\ UNCHANGED <<http, listening, stdio, signalled>>

\* gracefulShutdown: without HTTP there is nothing to wait for, and with it Shutdown
\* waits until no connection is in use ...
ShutdownDone ==
  /\ phase = "shutdown" /\ (http => InFlight = {})
  /\ Exit("ok")
  /\ UNCHANGED <<http, listening, stdio, signalled>>

\* Fault: Shutdown without a deadline.
ShutdownWaits ==
  /\ phase = "shutdown" /\ http /\ InFlight = {}
  /\ Exit("ok")
  /\ UNCHANGED <<http, listening, stdio, signalled>>

\* ... or for five seconds.
ShutdownTimesOut ==
  /\ phase = "shutdown" /\ http /\ InFlight # {}
  /\ Exit("error")
  /\ UNCHANGED <<http, listening, stdio, signalled>>

Run == StopsWaiting \/ StdioError \/ ShutdownDone \/ ShutdownTimesOut

-----------------------------------------------------------------------------
Up == phase \in {"running", "shutdown"}

\* The client of a call gets through to the server.
Reaches(c) ==
  \/ over[c] = "http" /\ listening
  \/ over[c] = "stdio" /\ stdio = "up"

Life == Start \/ StartFails \/ HelpPanics \/ ListenFails \/ Signal \/ StdioEnds \/ Run

\* A client that goes away is noticed on either transport.
ClientStep(c) == Up /\ UserOfCall(c) /\ (Reaches(c) \/ WaitCancelled(c))
CallStepUp(c) == Up /\ ServerOfCall(c)
BrowserStep(r) == Up /\ listening /\ UserOfPage(r)
HandlerStepUp(r) == Up /\ Handler(r)

ServerNext ==
  \/ Life /\ UNCHANGED <<vars, over>>
  \/ /\ \/ \E c \in Call : ClientStep(c) \/ CallStepUp(c)
        \/ \E r \in Request : BrowserStep(r) \/ HandlerStepUp(r)
     /\ UNCHANGED <<lifeVars, over>>

ServerSpec == ServerInit /\ [][ServerNext]_allVars

\* The runtime runs every goroutine that can run, that of run() included, and the
\* timers fire.  Clients, users and signals are free never to come.
Fairness ==
  /\ \A c \in Call : WF_allVars(CallStepUp(c) /\ UNCHANGED <<lifeVars, over>>)
  /\ \A r \in Request : WF_allVars(HandlerStepUp(r) /\ UNCHANGED <<lifeVars, over>>)
  /\ WF_allVars(Run /\ UNCHANGED <<vars, over>>)

ServerFairSpec == ServerSpec /\ Fairness

-----------------------------------------------------------------------------
\* A call or a page over HTTP that is cut off in the middle is never reported as a
\* clean end: the exit status says so, whether stdio broke or the deadline of the
\* shutdown passed (runner.go:74-77, 294-315; main.go:12-14).  Calls over stdio are
\* not waited for.
CutOffIsAnError == phase = "exited" /\ InFlight # {} => exit = "error"

\* A signal, or the end of stdio, ends the process, even while calls wait for their
\* clients and users (runner.go:294-315).
Stops == (signalled \/ stdio \in {"eof", "broken"}) ~> phase = "exited"

\* A call that waits for a secret is answered in the end, whatever the user and
\* the pages do, or the process ends (set.go:75-85).
WaitEnds == \A c \in Call : pc[c] = "wait" ~> (pc[c] = "returned" \/ phase = "exited")

\* Every request that is served is answered, or the process ends
\* (interaction/service.go:48-443).
HandlerAnswers ==
  \A r \in Request : hpc[r] # "idle" ~> (hpc[r] = "answered" \/ phase = "exited")
=============================================================================
