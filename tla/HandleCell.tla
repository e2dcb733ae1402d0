------------------------------ MODULE HandleCell ------------------------------
(***************************************************************************)
(* What a Connector promises of its database handle (connector.go:25-118): *)
(* a cell that is empty or holds a handle, which edits of the connector    *)
(* empty.  An edit lasts from the first field it changes to the moment it  *)
(* has emptied the cell.  Nothing is said of mutexes, flags and watchers.  *)
(***************************************************************************)
EXTENDS Naturals

CONSTANTS Worker, Handle, None

VARIABLES
  cell,     \* the handle in use, or None
  opened,   \* the version a handle was opened with; None: never opened
  version,  \* of the connection parameters and the secret
  editors   \* who is changing them

Init ==
  /\ cell = None /\ version = 0 /\ editors = {}
  /\ opened = [h \in Handle |-> None]

BeginEdit(w) ==
  /\ w \notin editors
  /\ editors' = editors \cup {w}
  /\ version' = version + 1
  /\ UNCHANGED <<cell, opened>>

EndEdit(w) ==
  /\ w \in editors
  /\ editors' = editors \ {w}
  /\ cell' = None
  /\ UNCHANGED <<opened, version>>

\* A new handle for an empty cell.  Only while somebody edits may it be opened with
\* anything but the present version.
Open(h) ==
  /\ cell = None /\ opened[h] = None
  /\ cell' = h
  /\ opened' = [opened EXCEPT ![h] = opened'[h]]
  /\ opened'[h] # None
  /\ editors = {} => opened'[h] = version
  /\ UNCHANGED <<version, editors>>

Drop == cell' = None /\ UNCHANGED <<opened, version, editors>>

Next ==
  \/ \E w \in Worker : BeginEdit(w) \/ EndEdit(w)
  \/ \E h \in Handle : Open(h)
  \/ Drop

Spec == Init /\ [][Next]_<<cell, opened, version, editors>>
=============================================================================
