--------------------------- MODULE ConnectorDbProofs ---------------------------
(***************************************************************************)
(* Proofs about ConnectorDb, for any number of workers, handles and edits. *)
(* The strengthening says who holds the mutex (LockInv), what its holder   *)
(* knows of flag and handle (HolderInv), how far an open handle, or a DSN  *)
(* on its way to sql.Open, may be behind the last edit (FreshInv), what a  *)
(* watcher out of its loop knows of lost handles (LossInv), and that each  *)
(* leak is paid for by a watcher (LeakInv).                                *)
(***************************************************************************)
EXTENDS ConnectorDb, FiniteSetTheorems, TLAPS

Critical == {"recheck", "expand", "open", "flag", "close", "closeFlag"}

LockInv ==
  /\ \A w \in Worker : pc[w] \in Critical <=> mux = w
  /\ \A h \in Handle : wpc[h] = "drop" <=> mux = h

HolderInv ==
  /\ \A w \in Worker :
       /\ pc[w] \in {"recheck", "close"} => (initialized <=> db # None)
       /\ pc[w] \in {"expand", "open"} => ~initialized /\ db = None
       /\ pc[w] = "flag" => ~initialized /\ db # None
       /\ pc[w] = "closeFlag" => db = None
  /\ \A h \in Handle : wpc[h] = "drop" => ~initialized

IInv == TypeOK /\ LockInv /\ HolderInv /\ FlagMatchesHandle /\ Watched

\* Initially nothing is open and nobody holds the mutex.
LEMMA InitIInv == Init => IInv
<1> SUFFICES ASSUME Init PROVE IInv
    OBVIOUS
<1> USE DbAssumption DEF Init
<1>1. TypeOK
      BY DEF TypeOK, WorkerPC, WatchPC
<1>2. LockInv
      BY DEF LockInv, Critical
<1>3. HolderInv
      BY DEF HolderInv
<1>4. FlagMatchesHandle /\ Watched
      BY DEF FlagMatchesHandle, Watched
<1> QED
    BY <1>1, <1>2, <1>3, <1>4 DEF IInv

\* Every step of a worker or a watcher keeps the strengthening.
LEMMA NextIInv == IInv /\ [Next]_vars => IInv'
<1> SUFFICES ASSUME IInv, [Next]_vars PROVE IInv'
    OBVIOUS
<1> USE DbAssumption DEF IInv, TypeOK, LockInv, HolderInv, FlagMatchesHandle, Watched,
        Critical, WorkerPC, WatchPC, sharedVars, workerVars, watchVars, Goto, Watch
<1>1. ASSUME NEW w \in Worker, CallDb(w) PROVE IInv'
      BY <1>1 DEF CallDb
<1>2. ASSUME NEW w \in Worker, DbRead(w) PROVE IInv'
      BY <1>2 DEF DbRead
<1>3. ASSUME NEW w \in Worker, DbLock(w) PROVE IInv'
      BY <1>3 DEF DbLock
<1>4. ASSUME NEW w \in Worker, DbRecheck(w) PROVE IInv'
      BY <1>4 DEF DbRecheck
<1>5. ASSUME NEW w \in Worker, DbExpand(w) PROVE IInv'
      BY <1>5 DEF DbExpand
<1>6. ASSUME NEW w \in Worker, DbFails(w) PROVE IInv'
      BY <1>6 DEF DbFails
<1>7. ASSUME NEW w \in Worker, DbOpen(w) PROVE IInv'
      BY <1>7 DEF DbOpen
<1>8. ASSUME NEW w \in Worker, DbFlag(w) PROVE IInv'
      BY <1>8 DEF DbFlag
<1>9. ASSUME NEW w \in Worker, Edit(w) PROVE IInv'
      BY <1>9 DEF Edit
<1>10. ASSUME NEW w \in Worker, EditDone(w) PROVE IInv'
      BY <1>10 DEF EditDone
<1>11. ASSUME NEW w \in Worker, AppendTokens(w) PROVE IInv'
      BY <1>11 DEF AppendTokens
<1>12. ASSUME NEW w \in Worker, AppendDone(w) PROVE IInv'
      BY <1>12 DEF AppendDone
<1>13. ASSUME NEW w \in Worker, CloseLock(w) PROVE IInv'
      BY <1>13 DEF CloseLock
<1>14. ASSUME NEW w \in Worker, CloseHandle(w) PROVE IInv'
      BY <1>14 DEF CloseHandle
<1>15. ASSUME NEW w \in Worker, CloseFlag(w) PROVE IInv'
      BY ZenonT(60), <1>15 DEF CloseFlag
<1>16. ASSUME NEW h \in Handle, WatchLeave(h) PROVE IInv'
      BY <1>16 DEF WatchLeave
<1>17. ASSUME NEW h \in Handle, WatchCheck(h) PROVE IInv'
      BY <1>17 DEF WatchCheck
<1>18. ASSUME NEW h \in Handle, WatchPing(h) PROVE IInv'
      BY <1>18 DEF WatchPing
<1>19. ASSUME NEW h \in Handle, WatchLock(h) PROVE IInv'
  <2>1. TypeOK'
        BY <1>19 DEF WatchLock
  <2>2. LockInv'
        BY <1>19 DEF WatchLock
  <2>3. HolderInv'
        BY <1>19 DEF WatchLock
  <2>4. FlagMatchesHandle' /\ Watched'
        BY <1>19 DEF WatchLock
  <2> QED
      BY <2>1, <2>2, <2>3, <2>4
<1>20. ASSUME NEW h \in Handle, WatchDrop(h) PROVE IInv'
      BY <1>20 DEF WatchDrop
<1>21. CASE UNCHANGED vars
      BY <1>21 DEF vars
<1> QED
    BY <1>1, <1>2, <1>3, <1>4, <1>5, <1>6, <1>7, <1>8, <1>9, <1>10, <1>11, <1>12, <1>13, <1>14, <1>15, <1>16, <1>17, <1>18, <1>19, <1>20, <1>21 DEF Next, Begin, Step, Watcher

LEMMA SpecIInv == Spec => []IInv
BY InitIInv, NextIInv, PTL DEF Spec

\* The variables of a connector keep their types.
THEOREM TypeCorrect == Spec => []TypeOK
BY SpecIInv, PTL DEF IInv

\* Outside the critical sections the flag tells whether there is a handle.
THEOREM FlagCorrect == Spec => []FlagMatchesHandle
BY SpecIInv, PTL DEF IInv

\* A connector with a handle always has a watcher in its loop.
THEOREM HandleIsWatched == Spec => []Watched
BY SpecIInv, PTL DEF IInv

-----------------------------------------------------------------------------
\* A handle is opened only when there is none, and is a new one: whoever opens
\* holds the mutex and has looked again.
THEOREM HandleNeverReplaced == Spec => NeverReplaced
<1>1. IInv /\ [Next]_vars => [db' # db => db' = None \/ (db = None /\ db' \notin Opened)]_vars
  <2> SUFFICES ASSUME IInv, Next
               PROVE  db' # db => db' = None \/ (db = None /\ db' \notin Opened)
      OBVIOUS
  <2>1. ASSUME NEW w \in Worker, DbOpen(w)
        PROVE  db = None /\ db' \notin Opened
        BY <2>1 DEF DbOpen, Opened, IInv, HolderInv
  <2>2. ASSUME NEW w \in Worker, Begin(w) \/ Step(w), ~DbOpen(w)
        PROVE  db' = db \/ db' = None
        BY <2>2 DEF Begin, Step, CallDb, Edit, AppendTokens, AppendDone, DbRead, DbLock,
                    DbRecheck, DbExpand, DbFails, DbFlag, EditDone, CloseLock, CloseHandle,
                    CloseFlag, sharedVars
  <2>3. ASSUME NEW h \in Handle, Watcher(h)
        PROVE  db' = db \/ db' = None
        BY <2>3 DEF Watcher, WatchLeave, WatchCheck, WatchPing, WatchLock, WatchDrop,
                    sharedVars
  <2> QED
      BY <2>1, <2>2, <2>3 DEF Next
<1> QED
    BY <1>1, SpecIInv, PTL DEF Spec, NeverReplaced

-----------------------------------------------------------------------------
\* What is open, or about to be opened, is behind the last edit only while an
\* edit has yet to close the handle.  Without an OAuth flow every edit closes.
FreshInv ==
  /\ \A w \in Worker : pc[w] # "append"
  /\ db # None /\ openedWith[db] # version => \E e \in Worker : Editing(e)
  /\ \A w \in Worker :
       pc[w] = "open" /\ dsn[w] # version => \E e \in Worker : Editing(e)

LEMMA InitFreshInv == Init => FreshInv
BY DEF Init, FreshInv

LEMMA NextFreshInv == ~IsOAuth /\ IInv /\ FreshInv /\ [Next]_vars => FreshInv'
<1> SUFFICES ASSUME ~IsOAuth, IInv, FreshInv, [Next]_vars PROVE FreshInv'
    OBVIOUS
<1> USE DbAssumption DEF IInv, TypeOK, LockInv, HolderInv, FreshInv, Editing,
        Critical, WorkerPC, WatchPC, sharedVars, workerVars, watchVars, Goto, Watch
<1>1. ASSUME NEW w \in Worker, CallDb(w) PROVE FreshInv'
      BY <1>1 DEF CallDb
<1>2. ASSUME NEW w \in Worker, DbRead(w) PROVE FreshInv'
      BY <1>2 DEF DbRead
<1>3. ASSUME NEW w \in Worker, DbLock(w) PROVE FreshInv'
      BY <1>3 DEF DbLock
<1>4. ASSUME NEW w \in Worker, DbRecheck(w) PROVE FreshInv'
      BY <1>4 DEF DbRecheck
<1>5. ASSUME NEW w \in Worker, DbExpand(w) PROVE FreshInv'
      BY <1>5 DEF DbExpand
<1>6. ASSUME NEW w \in Worker, DbFails(w) PROVE FreshInv'
      BY <1>6 DEF DbFails
<1>7. ASSUME NEW w \in Worker, DbOpen(w) PROVE FreshInv'
      BY <1>7 DEF DbOpen
<1>8. ASSUME NEW w \in Worker, DbFlag(w) PROVE FreshInv'
      BY <1>8 DEF DbFlag
<1>9. ASSUME NEW w \in Worker, Edit(w) PROVE FreshInv'
      BY <1>9 DEF Edit
<1>10. ASSUME NEW w \in Worker, EditDone(w) PROVE FreshInv'
      BY <1>10 DEF EditDone
<1>11. ASSUME NEW w \in Worker, AppendTokens(w) PROVE FreshInv'
      BY <1>11 DEF AppendTokens
<1>12. ASSUME NEW w \in Worker, AppendDone(w) PROVE FreshInv'
      BY <1>12 DEF AppendDone
<1>13. ASSUME NEW w \in Worker, CloseLock(w) PROVE FreshInv'
      BY <1>13 DEF CloseLock
<1>14. ASSUME NEW w \in Worker, CloseHandle(w) PROVE FreshInv'
      BY <1>14 DEF CloseHandle
<1>15. ASSUME NEW w \in Worker, CloseFlag(w) PROVE FreshInv'
      BY <1>15 DEF CloseFlag
<1>16. ASSUME NEW h \in Handle, WatchLeave(h) PROVE FreshInv'
      BY <1>16 DEF WatchLeave
<1>17. ASSUME NEW h \in Handle, WatchCheck(h) PROVE FreshInv'
      BY <1>17 DEF WatchCheck
<1>18. ASSUME NEW h \in Handle, WatchPing(h) PROVE FreshInv'
      BY <1>18 DEF WatchPing
<1>19. ASSUME NEW h \in Handle, WatchLock(h) PROVE FreshInv'
      BY <1>19 DEF WatchLock
<1>20. ASSUME NEW h \in Handle, WatchDrop(h) PROVE FreshInv'
      BY <1>20 DEF WatchDrop
<1>21. CASE UNCHANGED vars
      BY <1>21 DEF vars
<1> QED
    BY <1>1, <1>2, <1>3, <1>4, <1>5, <1>6, <1>7, <1>8, <1>9, <1>10, <1>11,
       <1>12, <1>13, <1>14, <1>15, <1>16, <1>17, <1>18, <1>19, <1>20, <1>21
       DEF Next, Begin, Step, Watcher

\* Outside an edit the handle is that of the last edit, for a connector whose
\* credentials do not come from an OAuth flow.
THEOREM HandleIsFresh == ASSUME ~IsOAuth PROVE Spec => []FreshHandle
<1>1. FreshInv => FreshHandle
      BY DEF FreshInv, FreshHandle
<1>2. IInv /\ FreshInv /\ [Next]_vars => FreshInv'
      BY NextFreshInv
<1> QED
    BY <1>1, <1>2, InitFreshInv, SpecIInv, PTL DEF Spec

-----------------------------------------------------------------------------
\* A watcher that has left its loop knows of a handle that is lost, and one that
\* is about to ping knows of a lost handle other than the one it has seen.
LossInv ==
  /\ \A h \in Handle : wpc[h] # "unborn" => h \in Opened
  /\ \A w \in Worker : pc[w] = "open" => dsn[w] # None
  /\ \A w \in Worker : pc[w] = "flag" => wpc[db] = "unborn"
  /\ db # None => db \in Opened
  /\ \A h \in Handle : wpc[h] = "check" => \E k \in Opened : k # db
  /\ \A h \in Handle : wpc[h] = "ping" =>
       seen[h] \in Opened /\ \E k \in Opened : k # db /\ k # seen[h]
  /\ PanicTakesTwoLosses

LEMMA InitLossInv == Init => LossInv
BY DbAssumption DEF Init, LossInv, PanicTakesTwoLosses, Alive

LEMMA NextLossInv == IInv /\ LossInv /\ [Next]_vars => LossInv'
<1> SUFFICES ASSUME IInv, LossInv, [Next]_vars PROVE LossInv'
    OBVIOUS
<1> USE DbAssumption DEF IInv, TypeOK, LockInv, HolderInv, FlagMatchesHandle, LossInv,
        PanicTakesTwoLosses, Alive, Opened,
        Critical, WorkerPC, WatchPC, sharedVars, workerVars, watchVars, Goto, Watch
<1>1. ASSUME NEW w \in Worker, Alive, CallDb(w) PROVE LossInv'
      BY <1>1 DEF CallDb
<1>2. ASSUME NEW w \in Worker, Alive, DbRead(w) PROVE LossInv'
      BY <1>2 DEF DbRead
<1>3. ASSUME NEW w \in Worker, Alive, DbLock(w) PROVE LossInv'
      BY <1>3 DEF DbLock
<1>4. ASSUME NEW w \in Worker, Alive, DbRecheck(w) PROVE LossInv'
      BY <1>4 DEF DbRecheck
<1>5. ASSUME NEW w \in Worker, Alive, DbExpand(w) PROVE LossInv'
      BY <1>5 DEF DbExpand
<1>6. ASSUME NEW w \in Worker, Alive, DbFails(w) PROVE LossInv'
      BY <1>6 DEF DbFails
<1>7. ASSUME NEW w \in Worker, Alive, DbOpen(w) PROVE LossInv'
      BY <1>7 DEF DbOpen
<1>8. ASSUME NEW w \in Worker, Alive, DbFlag(w) PROVE LossInv'
      BY <1>8 DEF DbFlag
<1>9. ASSUME NEW w \in Worker, Alive, Edit(w) PROVE LossInv'
      BY <1>9 DEF Edit
<1>10. ASSUME NEW w \in Worker, Alive, EditDone(w) PROVE LossInv'
      BY <1>10 DEF EditDone
<1>11. ASSUME NEW w \in Worker, Alive, AppendTokens(w) PROVE LossInv'
      BY <1>11 DEF AppendTokens
<1>12. ASSUME NEW w \in Worker, Alive, AppendDone(w) PROVE LossInv'
      BY <1>12 DEF AppendDone
<1>13. ASSUME NEW w \in Worker, Alive, CloseLock(w) PROVE LossInv'
      BY <1>13 DEF CloseLock
<1>14. ASSUME NEW w \in Worker, Alive, CloseHandle(w) PROVE LossInv'
      BY <1>14 DEF CloseHandle
<1>15. ASSUME NEW w \in Worker, Alive, CloseFlag(w) PROVE LossInv'
      BY <1>15 DEF CloseFlag
<1>16. ASSUME NEW h \in Handle, Alive, WatchLeave(h) PROVE LossInv'
      BY <1>16 DEF WatchLeave
<1>17. ASSUME NEW h \in Handle, Alive, WatchCheck(h) PROVE LossInv'
      BY <1>17 DEF WatchCheck
<1>18. ASSUME NEW h \in Handle, Alive, WatchPing(h) PROVE LossInv'
      BY <1>18 DEF WatchPing
<1>19. ASSUME NEW h \in Handle, Alive, WatchLock(h) PROVE LossInv'
      BY <1>19 DEF WatchLock
<1>20. ASSUME NEW h \in Handle, Alive, WatchDrop(h) PROVE LossInv'
      BY <1>20 DEF WatchDrop
<1>21. CASE UNCHANGED vars
      BY <1>21 DEF vars
<1> QED
    BY <1>1, <1>2, <1>3, <1>4, <1>5, <1>6, <1>7, <1>8, <1>9, <1>10, <1>11,
       <1>12, <1>13, <1>14, <1>15, <1>16, <1>17, <1>18, <1>19, <1>20, <1>21
       DEF Next, Begin, Step, Watcher

\* A watcher brings the process down only after the connector has lost two handles.
THEOREM PanicNeedsTwoLosses == Spec => []PanicTakesTwoLosses
<1>1. LossInv => PanicTakesTwoLosses
      BY DEF LossInv
<1> QED
    BY <1>1, InitLossInv, NextLossInv, SpecIInv, PTL DEF Spec

-----------------------------------------------------------------------------
(* Every leaked handle is paid for by a watcher that has dropped one and is   *)
(* gone: a drop adds one handle to those that are lost and one watcher to     *)
(* those that have exited, which had not exited before.                       *)

Lost == Opened \ (closed \cup {db})

Exited == {h \in Handle : wpc[h] = "exited" /\ seen[h] # None}

LeakInv ==
  /\ IsFiniteSet(Opened)
  /\ \A h \in Handle : wpc[h] \in {"ping", "lock", "drop"} => seen[h] # None
  /\ LeakOnlyByWatcher

LEMMA InitLeakInv == Init => LeakInv
<1> SUFFICES ASSUME Init PROVE LeakInv
    OBVIOUS
<1>1. Opened = {} /\ Opened \ (closed \cup {db}) = {}
      BY DEF Init, Opened
<1>2. {h \in Handle : wpc[h] = "exited" /\ seen[h] # None} = {}
      BY DEF Init
<1>3. \A h \in Handle : wpc[h] = "unborn"
      BY DEF Init
<1> QED
    BY <1>1, <1>2, <1>3, FS_EmptySet DEF LeakInv, LeakOnlyByWatcher

\* A step that loses no handle and takes no watcher back leaks nothing.
LEMMA NothingLost ==
  ASSUME LossInv, LossInv', LeakInv, IsFiniteSet(Opened'),
         Lost' \subseteq Lost, Exited \subseteq Exited'
  PROVE  LeakOnlyByWatcher'
<1>1. Lost \subseteq Opened /\ Exited' \subseteq Opened'
      BY DEF Lost, Exited, LossInv
<1>2. IsFiniteSet(Lost) /\ IsFiniteSet(Exited')
      BY <1>1, FS_Subset DEF LeakInv
<1>3. /\ Cardinality(Lost') <= Cardinality(Lost)
      /\ Cardinality(Exited) <= Cardinality(Exited')
      BY <1>2, FS_Subset
<1>4. IsFiniteSet(Lost') /\ IsFiniteSet(Exited)
      BY <1>2, FS_Subset
<1>5. /\ Cardinality(Lost) \in Nat /\ Cardinality(Lost') \in Nat
      /\ Cardinality(Exited) \in Nat /\ Cardinality(Exited') \in Nat
      BY <1>2, <1>4, FS_CardinalityType
<1>6. Cardinality(Lost) <= Cardinality(Exited)
      BY DEF LeakInv, LeakOnlyByWatcher, Lost, Exited
<1>7. Cardinality(Lost') <= Cardinality(Exited')
      BY <1>3, <1>5, <1>6
<1> QED
    BY <1>7 DEF LeakOnlyByWatcher, Lost, Exited

\* A drop loses one handle at most, and its watcher has not been counted before.
LEMMA DropLosesOne ==
  ASSUME IInv, LossInv, LeakInv, NEW h \in Handle, WatchDrop(h)
  PROVE  LeakOnlyByWatcher'
<1> USE DbAssumption DEF IInv, TypeOK, WatchPC, Watch, workerVars
<1>1. Opened' = Opened
      BY DEF WatchDrop, Opened
<1>2. Lost' \subseteq Lost \cup {db}
      BY <1>1 DEF WatchDrop, Lost
<1>3. h \notin Exited /\ Exited' = Exited \cup {h}
      BY DEF WatchDrop, Exited, LeakInv
<1>4. Lost \subseteq Opened /\ Exited \subseteq Opened
      BY DEF Lost, Exited, LossInv
<1>5. IsFiniteSet(Lost) /\ IsFiniteSet(Exited)
      BY <1>4, FS_Subset DEF LeakInv
<1>6. /\ IsFiniteSet(Lost \cup {db})
      /\ Cardinality(Lost \cup {db}) <= Cardinality(Lost) + 1
  <2>1. Cardinality(Lost) \in Nat
        BY <1>5, FS_CardinalityType
  <2>2. /\ IsFiniteSet(Lost \cup {db})
        /\ Cardinality(Lost \cup {db}) =
             IF db \in Lost THEN Cardinality(Lost) ELSE Cardinality(Lost) + 1
        BY <1>5, FS_AddElement, Zenon
  <2> QED
      BY <2>1, <2>2
<1>7. Cardinality(Lost') <= Cardinality(Lost \cup {db}) /\ IsFiniteSet(Lost')
      BY <1>2, <1>6, FS_Subset
<1>8. Cardinality(Exited') = Cardinality(Exited) + 1
      BY <1>3, <1>5, FS_AddElement
<1>9. /\ Cardinality(Lost) \in Nat /\ Cardinality(Lost') \in Nat
      /\ Cardinality(Exited) \in Nat /\ Cardinality(Lost \cup {db}) \in Nat
      BY <1>5, <1>6, <1>7, FS_CardinalityType
<1>10. Cardinality(Lost) <= Cardinality(Exited)
      BY DEF LeakInv, LeakOnlyByWatcher, Lost, Exited
<1>11. Cardinality(Lost') <= Cardinality(Exited')
      BY <1>6, <1>7, <1>8, <1>9, <1>10
<1> QED
    BY <1>11 DEF LeakOnlyByWatcher, Lost, Exited

LEMMA NextLeakInv == IInv /\ LossInv /\ LossInv' /\ LeakInv /\ [Next]_vars => LeakInv'
<1> SUFFICES ASSUME IInv, LossInv, LossInv', LeakInv, [Next]_vars PROVE LeakInv'
    OBVIOUS
<1> USE DbAssumption DEF IInv, TypeOK, LockInv, HolderInv, Critical, WorkerPC, WatchPC,
        sharedVars, workerVars, watchVars, Goto, Watch
<1> DEFINE Seers == \A h \in Handle : wpc[h] \in {"ping", "lock", "drop"} => seen[h] # None
<1>1. ASSUME IsFiniteSet(Opened'), Seers', Lost' \subseteq Lost, Exited \subseteq Exited'
      PROVE  LeakInv'
      BY <1>1, NothingLost DEF LeakInv
<1>2. IsFiniteSet(Opened) /\ Seers
      BY DEF LeakInv
<1> HIDE DEF Seers
<1>3. ASSUME NEW w \in Worker, DbOpen(w) PROVE LeakInv'
  <2>1. PICK h \in Handle :
          /\ openedWith[h] = None
          /\ openedWith' = [openedWith EXCEPT ![h] = dsn[w]]
          /\ db' = h
        BY <1>3 DEF DbOpen
  <2>2. Opened' = Opened \cup {h}
        BY <1>3, <2>1 DEF DbOpen, Opened, LossInv
  <2>3. IsFiniteSet(Opened')
        BY <1>2, <2>2, FS_AddElement
  <2>4. db = None
        BY <1>3 DEF DbOpen
  <2>5. Lost' \subseteq Lost
        BY <1>3, <2>1, <2>2, <2>4 DEF DbOpen, Lost, Opened
  <2>6. Exited' = Exited /\ Seers'
        BY <1>2, <1>3 DEF DbOpen, Exited, Seers
  <2> QED
      BY <1>1, <2>3, <2>5, <2>6
<1>4. ASSUME NEW w \in Worker, DbFlag(w) PROVE LeakInv'
  <2>1. Opened' = Opened /\ Lost' = Lost
        BY <1>4 DEF DbFlag, Opened, Lost
  <2>2. Exited' = Exited /\ Seers'
        BY <1>2, <1>4 DEF DbFlag, Exited, Seers, LossInv
  <2> QED
      BY <1>1, <1>2, <2>1, <2>2
<1>5. ASSUME NEW w \in Worker, CloseHandle(w) PROVE LeakInv'
  <2>1. Opened' = Opened /\ Lost' \subseteq Lost
        BY <1>5 DEF CloseHandle, Opened, Lost
  <2>2. Exited' = Exited /\ Seers'
        BY <1>2, <1>5 DEF CloseHandle, Exited, Seers
  <2> QED
      BY <1>1, <1>2, <2>1, <2>2
<1>6. ASSUME NEW w \in Worker, Begin(w) \/ Step(w), ~DbOpen(w), ~DbFlag(w), ~CloseHandle(w)
      PROVE  LeakInv'
  <2>1. UNCHANGED <<db, openedWith, closed, wpc, seen>>
        BY <1>6 DEF Begin, Step, CallDb, Edit, AppendTokens, AppendDone, DbRead, DbLock,
                    DbRecheck, DbExpand, DbFails, EditDone, CloseLock, CloseFlag
  <2>2. Opened' = Opened /\ Lost' = Lost /\ Exited' = Exited /\ Seers'
        BY <1>2, <2>1 DEF Opened, Lost, Exited, Seers
  <2> QED
      BY <1>1, <1>2, <2>2
<1>7. ASSUME NEW h \in Handle, Watcher(h), ~WatchDrop(h)
      PROVE  LeakInv'
  <2>1. UNCHANGED <<db, openedWith, closed>>
        BY <1>7 DEF Watcher, WatchLeave, WatchCheck, WatchPing, WatchLock
  <2>2. Opened' = Opened /\ Lost' = Lost
        BY <2>1 DEF Opened, Lost
  <2>3. Exited \subseteq Exited' /\ Seers'
    <3>1. CASE WatchLeave(h)
          BY <1>2, <3>1 DEF WatchLeave, Exited, Seers
    <3>2. CASE WatchCheck(h)
          BY <1>2, <3>2 DEF WatchCheck, Exited, Seers
    <3>3. CASE WatchPing(h)
          BY <1>2, <3>3 DEF WatchPing, Exited, Seers
    <3>4. CASE WatchLock(h)
          BY <1>2, <3>4 DEF WatchLock, Exited, Seers
    <3> QED
        BY <1>7, <3>1, <3>2, <3>3, <3>4 DEF Watcher
  <2> QED
      BY <1>1, <1>2, <2>2, <2>3
<1>8. ASSUME NEW h \in Handle, WatchDrop(h) PROVE LeakInv'
  <2>1. Opened' = Opened /\ Seers'
        BY <1>2, <1>8 DEF WatchDrop, Opened, Seers
  <2> QED
      BY <1>2, <1>8, <2>1, DropLosesOne DEF LeakInv, Seers
<1>9. CASE UNCHANGED vars
  <2>1. Opened' = Opened /\ Lost' = Lost /\ Exited' = Exited /\ Seers'
        BY <1>2, <1>9 DEF vars, Opened, Lost, Exited, Seers
  <2> QED
      BY <1>1, <1>2, <2>1
<1> QED
    BY <1>3, <1>4, <1>5, <1>6, <1>7, <1>8, <1>9 DEF Next

\* Only watchers leak handles, and no watcher leaks two.
THEOREM LeaksAreDrops == Spec => []LeakOnlyByWatcher
<1>1. LeakInv => LeakOnlyByWatcher
      BY DEF LeakInv
<1> QED
    BY <1>1, InitLeakInv, NextLeakInv, InitLossInv, NextLossInv, SpecIInv, PTL DEF Spec

-----------------------------------------------------------------------------
(* The refinement of HandleCell.  Edit begins an edit of the cell and         *)
(* CloseHandle ends it, DbOpen opens, WatchDrop drops; every other step       *)
(* leaves the cell as it is.                                                  *)

EditorsNow == {w \in Worker : Editing(w)}

CellUnchanged == db' = db /\ openedWith' = openedWith /\ version' = version /\ EditorsNow' = EditorsNow

LEMMA InitCell == Init => Cell!Init
BY DEF Init, Cell!Init, Editing

LEMMA NextCell ==
  ~IsOAuth /\ IInv /\ FreshInv /\ LossInv /\ [Next]_vars
  => [Cell!Next]_<<db, openedWith, version, EditorsNow>>
<1> SUFFICES ASSUME ~IsOAuth, IInv, FreshInv, LossInv, [Next]_vars
             PROVE  Cell!Next \/ CellUnchanged
    BY DEF CellUnchanged
<1> USE DbAssumption DEF IInv, TypeOK, WorkerPC, Editing, EditorsNow, CellUnchanged,
        sharedVars, Goto, Cell!Next
<1>1. ASSUME NEW w \in Worker, Edit(w) PROVE Cell!BeginEdit(w)
      BY <1>1 DEF Edit, Cell!BeginEdit
<1>2. ASSUME NEW w \in Worker, CloseHandle(w) PROVE Cell!EndEdit(w)
      BY <1>2 DEF CloseHandle, Cell!EndEdit
<1>3. ASSUME NEW w \in Worker, DbOpen(w) PROVE \E h \in Handle : Cell!Open(h)
  <2>1. PICK h \in Handle :
          /\ openedWith[h] = None
          /\ openedWith' = [openedWith EXCEPT ![h] = dsn[w]]
          /\ db' = h
        BY <1>3 DEF DbOpen
  <2>2. openedWith'[h] = dsn[w]
        BY <2>1
  <2>3. db = None /\ dsn[w] # None
        BY <1>3 DEF DbOpen, HolderInv, LossInv
  <2>4. EditorsNow = {} => dsn[w] = version
        BY <1>3 DEF DbOpen, FreshInv
  <2>5. version' = version /\ EditorsNow' = EditorsNow
        BY <1>3 DEF DbOpen
  <2> QED
      BY <2>1, <2>2, <2>3, <2>4, <2>5 DEF Cell!Open
<1>4. ASSUME NEW h \in Handle, WatchDrop(h) PROVE Cell!Drop
      BY <1>4 DEF WatchDrop, workerVars, Cell!Drop
<1>5. ASSUME NEW w \in Worker, Begin(w) \/ Step(w), ~Edit(w), ~CloseHandle(w), ~DbOpen(w)
      PROVE  CellUnchanged
      BY <1>5 DEF Begin, Step, CallDb, AppendTokens, AppendDone, DbRead, DbLock, DbRecheck,
                  DbExpand, DbFails, DbFlag, EditDone, CloseLock, CloseFlag, FreshInv
<1>6. ASSUME NEW h \in Handle, Watcher(h), ~WatchDrop(h)
      PROVE  CellUnchanged
      BY <1>6 DEF Watcher, WatchLeave, WatchCheck, WatchPing, WatchLock, workerVars
<1>7. CASE UNCHANGED vars
      BY <1>7 DEF vars, workerVars
<1> QED
    BY <1>1, <1>2, <1>3, <1>4, <1>5, <1>6, <1>7 DEF Next

\* A connector without an OAuth flow is the cell of HandleCell: every edit empties
\* it, and it is filled anew with what the last edit has left.
THEOREM ConnectorIsCell == ASSUME ~IsOAuth PROVE Spec => ImplementsCell
<1>1. IInv /\ FreshInv /\ [Next]_vars => FreshInv'
      BY NextFreshInv
<1>2. IInv /\ FreshInv /\ LossInv /\ [Next]_vars
      => [Cell!Next]_<<db, openedWith, version, {w \in Worker : Editing(w)}>>
      BY NextCell DEF EditorsNow
<1> QED
    BY <1>1, <1>2, InitCell, InitFreshInv, InitLossInv, NextLossInv, SpecIInv, PTL
       DEF Spec, ImplementsCell, Cell!Spec
=============================================================================
