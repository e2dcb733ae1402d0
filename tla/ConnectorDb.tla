------------------------------ MODULE ConnectorDb ------------------------------
(***************************************************************************)
(* The database handle of one Connector (db/connector/connector.go): Db    *)
(* opens it on demand, Close drops it after the connection parameters or   *)
(* the secret have changed, and a watcher goroutine, ensureActive, is      *)
(* started with every handle.  Tool calls and HTTP handlers use them       *)
(* concurrently.                                                           *)
(*                                                                         *)
(* An RLock section is one step that needs the mutex free of a writer.     *)
(* ensureActive reads c.db without the mutex, twice; the build may load    *)
(* the field again or keep the first value.                                *)
(***************************************************************************)
EXTENDS Naturals, FiniteSets

CONSTANTS
  Worker,    \* goroutines that call Db or edit the connector
  Handle,    \* the *sql.DB that can be opened: bounds the opens
  MaxEdits,  \* bounds the edits
  IsOAuth,   \* the connector gets its tokens from an OAuth flow
  None, Torn

ASSUME DbAssumption ==
  /\ MaxEdits \in Nat
  /\ IsOAuth \in BOOLEAN
  /\ None \notin Handle \cup Nat \cup Worker
  /\ Torn \notin Nat \cup {None}
  /\ Worker \cap Handle = {}

VARIABLES
  mux,          \* who holds the write lock
  db,           \* Connector.db
  initialized,  \* Connector.initialized = 1
  version,      \* what DSN and secret are by now, counted in edits
  openedWith,   \* the version a handle was opened with; None: never opened
  closed,       \* handles on which sql.DB.Close was called
  pc,           \* the step a worker is at
  dsn,          \* the version ExpandDSN has given a worker
  wpc,          \* the step the watcher started with a handle is at
  seen          \* the value of c.db a watcher has read

sharedVars == <<mux, db, initialized, version, openedWith, closed>>
workerVars == <<pc, dsn>>
watchVars  == <<wpc, seen>>
vars       == <<sharedVars, workerVars, watchVars>>

WorkerPC == {"idle", "read", "lock", "recheck", "expand", "open", "flag",
             "edit", "append", "closeLock", "close", "closeFlag"}
WatchPC  == {"unborn", "loop", "check", "ping", "lock", "drop", "exited", "panicked"}

TypeOK ==
  /\ mux \in Worker \cup Handle \cup {None}
  /\ db \in Handle \cup {None}
  /\ initialized \in BOOLEAN
  /\ version \in Nat
  /\ openedWith \in [Handle -> Nat \cup {None, Torn}]
  /\ closed \in SUBSET Handle
  /\ pc \in [Worker -> WorkerPC]
  /\ dsn \in [Worker -> Nat \cup {None, Torn}]
  /\ wpc \in [Handle -> WatchPC]
  /\ seen \in [Handle -> Handle \cup {None}]

Init ==
  /\ mux = None /\ db = None /\ initialized = FALSE
  /\ version = 0
  /\ openedWith = [h \in Handle |-> None]
  /\ closed = {}
  /\ pc = [w \in Worker |-> "idle"]
  /\ dsn = [w \in Worker |-> None]
  /\ wpc = [h \in Handle |-> "unborn"]
  /\ seen = [h \in Handle |-> None]

Goto(w, step) == pc' = [pc EXCEPT ![w] = step]
Watch(h, step) == wpc' = [wpc EXCEPT ![h] = step]

-----------------------------------------------------------------------------
\* Db: a look under the read lock first.
CallDb(w) ==
  /\ pc[w] = "idle"
  /\ Goto(w, "read")
  /\ UNCHANGED <<sharedVars, dsn, watchVars>>

DbRead(w) ==
  /\ pc[w] = "read" /\ mux = None
  /\ Goto(w, IF db # None THEN "idle" ELSE "lock")
  /\ UNCHANGED <<sharedVars, dsn, watchVars>>

DbLock(w) ==
  /\ pc[w] = "lock" /\ mux = None
  /\ mux' = w
  /\ Goto(w, "recheck")
  /\ UNCHANGED <<db, initialized, version, openedWith, closed, dsn, watchVars>>

\* Fault: no second look.
DbNoRecheck(w) ==
  /\ pc[w] = "recheck"
  /\ Goto(w, "expand")
  /\ UNCHANGED <<sharedVars, dsn, watchVars>>

\* The second look, under the write lock.
DbRecheck(w) ==
  /\ pc[w] = "recheck"
  /\ IF db # None
     THEN mux' = None /\ Goto(w, "idle")
     ELSE Goto(w, "expand") /\ UNCHANGED mux
  /\ UNCHANGED <<db, initialized, version, openedWith, closed, dsn, watchVars>>

\* ExpandDSN reads the fields without regard to an edit that is writing them.
DbExpand(w) ==
  /\ pc[w] = "expand"
  /\ \E v \in {version} \cup {Torn : e \in {e \in Worker : pc[e] \in {"edit", "append"}}} :
       dsn' = [dsn EXCEPT ![w] = v]
  /\ Goto(w, "open")
  /\ UNCHANGED <<sharedVars, watchVars>>

\* Fault: an early return without the unlock.
DbFailsLocked(w) ==
  /\ pc[w] \in {"expand", "open"}
  /\ dsn' = [dsn EXCEPT ![w] = None]
  /\ Goto(w, "idle")
  /\ UNCHANGED <<sharedVars, watchVars>>

\* The secret cannot be loaded, or sql.Open refuses the DSN.
DbFails(w) ==
  /\ pc[w] \in {"expand", "open"}
  /\ mux' = None
  /\ dsn' = [dsn EXCEPT ![w] = None]
  /\ Goto(w, "idle")
  /\ UNCHANGED <<db, initialized, version, openedWith, closed, watchVars>>

DbOpen(w) ==
  /\ pc[w] = "open"
  /\ \E h \in Handle :
       /\ openedWith[h] = None
       /\ openedWith' = [openedWith EXCEPT ![h] = dsn[w]]
       /\ db' = h
  /\ dsn' = [dsn EXCEPT ![w] = None]
  /\ Goto(w, "flag")
  /\ UNCHANGED <<mux, initialized, version, closed, watchVars>>

\* Fault: the arguments of the compare-and-swap exchanged.
DbFlagSwapped(w) ==
  /\ pc[w] = "flag"
  /\ initialized' = TRUE
  /\ IF initialized THEN Watch(db, "loop") ELSE UNCHANGED wpc
  /\ mux' = None
  /\ Goto(w, "idle")
  /\ UNCHANGED <<db, version, openedWith, closed, dsn, seen>>

\* The compare-and-swap starts a watcher when it changes the flag.
DbFlag(w) ==
  /\ pc[w] = "flag"
  /\ initialized' = TRUE
  /\ IF initialized THEN UNCHANGED wpc ELSE Watch(db, "loop")
  /\ mux' = None
  /\ Goto(w, "idle")
  /\ UNCHANGED <<db, version, openedWith, closed, dsn, seen>>

-----------------------------------------------------------------------------
\* handlePost changes name and DSN, or stores a secret, and then calls Close.
Edit(w) ==
  /\ pc[w] = "idle" /\ version < MaxEdits
  /\ version' = version + 1
  /\ Goto(w, "edit")
  /\ UNCHANGED <<mux, db, initialized, openedWith, closed, dsn, watchVars>>

\* Fault: the cached handle is left open after an edit.
EditDoneNoClose(w) ==
  /\ pc[w] = "edit"
  /\ Goto(w, "idle")
  /\ UNCHANGED <<sharedVars, dsn, watchVars>>

EditDone(w) ==
  /\ pc[w] = "edit"
  /\ Goto(w, "closeLock")
  /\ UNCHANGED <<sharedVars, dsn, watchVars>>

\* The OAuth flow appends the token URLs to the DSN, and leaves the handle alone.
AppendTokens(w) ==
  /\ pc[w] = "idle" /\ IsOAuth /\ version < MaxEdits
  /\ version' = version + 1
  /\ Goto(w, "append")
  /\ UNCHANGED <<mux, db, initialized, openedWith, closed, dsn, watchVars>>

AppendDone(w) ==
  /\ pc[w] = "append"
  /\ Goto(w, "idle")
  /\ UNCHANGED <<sharedVars, dsn, watchVars>>

\* Fault: Close does without the mutex.
CloseNoLock(w) ==
  /\ pc[w] = "closeLock"
  /\ Goto(w, "close")
  /\ UNCHANGED <<sharedVars, dsn, watchVars>>

CloseLock(w) ==
  /\ pc[w] = "closeLock" /\ mux = None
  /\ mux' = w
  /\ Goto(w, "close")
  /\ UNCHANGED <<db, initialized, version, openedWith, closed, dsn, watchVars>>

\* Fault: the handle is closed without the test for nil.
CloseHandleNil(w) ==
  /\ pc[w] = "close"
  /\ closed' = closed \cup {db}
  /\ db' = None
  /\ Goto(w, "closeFlag")
  /\ UNCHANGED <<mux, initialized, version, openedWith, dsn, watchVars>>

\* Fault: the handle is forgotten, not closed.
CloseHandleForgets(w) ==
  /\ pc[w] = "close"
  /\ db' = None
  /\ Goto(w, "closeFlag")
  /\ UNCHANGED <<mux, initialized, version, openedWith, closed, dsn, watchVars>>

CloseHandle(w) ==
  /\ pc[w] = "close"
  /\ closed' = closed \cup ({db} \ {None})
  /\ db' = None
  /\ Goto(w, "closeFlag")
  /\ UNCHANGED <<mux, initialized, version, openedWith, dsn, watchVars>>

\* Fault: the flag is not reset.
CloseKeepsFlag(w) ==
  /\ pc[w] = "closeFlag"
  /\ mux' = None
  /\ Goto(w, "idle")
  /\ UNCHANGED <<db, initialized, version, openedWith, closed, dsn, watchVars>>

CloseFlag(w) ==
  /\ pc[w] = "closeFlag"
  /\ initialized' = FALSE
  /\ mux' = None
  /\ Goto(w, "idle")
  /\ UNCHANGED <<db, version, openedWith, closed, dsn, watchVars>>

-----------------------------------------------------------------------------
\* ensureActive looks at the flag every two seconds, and goes on when it is off.
WatchLeave(h) ==
  /\ wpc[h] = "loop" /\ ~initialized
  /\ Watch(h, "check")
  /\ UNCHANGED <<sharedVars, workerVars, seen>>

\* Fault: no test for nil.
WatchNoCheck(h) ==
  /\ wpc[h] = "check"
  /\ seen' = [seen EXCEPT ![h] = db]
  /\ Watch(h, "ping")
  /\ UNCHANGED <<sharedVars, workerVars>>

\* Fault: back to the loop instead of a return.
WatchContinues(h) ==
  /\ wpc[h] = "check"
  /\ seen' = [seen EXCEPT ![h] = db]
  /\ Watch(h, IF db = None THEN "loop" ELSE "ping")
  /\ UNCHANGED <<sharedVars, workerVars>>

WatchCheck(h) ==
  /\ wpc[h] = "check"
  /\ seen' = [seen EXCEPT ![h] = db]
  /\ Watch(h, IF db = None THEN "exited" ELSE "ping")
  /\ UNCHANGED <<sharedVars, workerVars>>

\* c.db.Ping(): on the value tested, or on what the field holds by now; a nil
\* handle panics in a goroutine nobody recovers.
WatchPing(h) ==
  /\ wpc[h] = "ping"
  /\ \E pinged \in {seen[h], db} :
       IF pinged = None
       THEN Watch(h, "panicked")
       ELSE \E step \in {"exited", "lock"} : Watch(h, step)
  /\ UNCHANGED <<sharedVars, workerVars, seen>>

\* A ping that fails drops the handle the connector has now, without closing it.
WatchLock(h) ==
  /\ wpc[h] = "lock" /\ mux = None
  /\ mux' = h
  /\ initialized' = FALSE
  /\ Watch(h, "drop")
  /\ UNCHANGED <<db, version, openedWith, closed, workerVars, seen>>

WatchDrop(h) ==
  /\ wpc[h] = "drop"
  /\ db' = None
  /\ mux' = None
  /\ Watch(h, "exited")
  /\ UNCHANGED <<initialized, version, openedWith, closed, workerVars, seen>>

-----------------------------------------------------------------------------
\* The panic of a watcher ends the process.
Alive == \A h \in Handle : wpc[h] # "panicked"

Step(w) ==
  /\ Alive
  /\ \/ AppendDone(w)
     \/ DbRead(w) \/ DbLock(w) \/ DbRecheck(w) \/ DbExpand(w) \/ DbFails(w)
     \/ DbOpen(w) \/ DbFlag(w)
     \/ EditDone(w) \/ CloseLock(w) \/ CloseHandle(w) \/ CloseFlag(w)

Begin(w) == Alive /\ (CallDb(w) \/ Edit(w) \/ AppendTokens(w))

Watcher(h) ==
  /\ Alive
  /\ WatchLeave(h) \/ WatchCheck(h) \/ WatchPing(h) \/ WatchLock(h) \/ WatchDrop(h)

Next == (\E w \in Worker : Begin(w) \/ Step(w)) \/ (\E h \in Handle : Watcher(h))

Spec == Init /\ [][Next]_vars

\* sync.RWMutex lets no goroutine starve, and the scheduler runs what can run.
FairSpec == /\ Spec
            /\ \A w \in Worker : SF_vars(Step(w))
            /\ \A h \in Handle : SF_vars(Watcher(h))

-----------------------------------------------------------------------------
\* With nobody inside a critical section, the flag says whether there is a handle
\* (connector.go:62-98, 110-113).
FlagMatchesHandle == mux = None => (initialized <=> db # None)

\* A connector with a handle has a watcher that is still in its loop, so that the
\* next Close reaches one (connector.go:94-96, 100-102).
Watched ==
  initialized => \E h \in Handle : wpc[h] = "loop"

Editing(w) == pc[w] \in {"edit", "append", "closeLock", "close"}

\* When no edit is under way, the handle was opened with the connection parameters
\* and the secret of the last one: no query runs against what the connector was
\* before (interaction/service.go:315-321, 385-394; connector.go:80-97).
FreshHandle ==
  db # None /\ (\A w \in Worker : ~Editing(w)) => openedWith[db] = version

Cell == INSTANCE HandleCell
          WITH cell <- db, opened <- openedWith, editors <- {w \in Worker : Editing(w)}

\* Without an OAuth flow the connector is a cell that every edit empties, and that
\* is only filled anew with what the last edit has left (connector.go:62-118,
\* interaction/service.go:301-321, 385-394).
ImplementsCell == Cell!Spec

Opened == {h \in Handle : openedWith[h] # None}

\* A handle that is neither the current one nor closed was dropped by a watcher,
\* and no watcher drops two: there is no other leak, whatever the interleaving
\* (connector.go:65-68, 80-93, 107-115).
LeakOnlyByWatcher ==
  Cardinality(Opened \ (closed \cup {db}))
    <= Cardinality({h \in Handle : wpc[h] = "exited" /\ seen[h] # None})

\* A handle is never exchanged for another one, and one that was given up never
\* comes back (connector.go:80-93).
NeverReplaced ==
  [][db' # db => db' = None \/ (db = None /\ db' \notin Opened)]_vars

\* The panic takes the loss of two handles: one that lets a watcher out of its
\* loop, and that of the next handle between the test and the ping
\* (connector.go:101-107).  A connector that loses one at most is safe from it.
PanicTakesTwoLosses ==
  ~Alive => \E h, k \in Opened \ {db} : h # k

\* Every Db and every Close returns, unless the process ends (connector.go:62-98).
CallsReturn == \A w \in Worker : pc[w] # "idle" ~> (pc[w] = "idle" \/ ~Alive)

\* Watchers do not pile up on a connector that is closed for good
\* (connector.go:100-116).
WatchersEnd ==
  <>[]~initialized => <>[](~Alive \/ \A h \in Handle : wpc[h] \in {"unborn", "exited"})
=============================================================================
