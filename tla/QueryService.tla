----------------------------- MODULE QueryService -----------------------------
(***************************************************************************)
(* dbQuery of one MCP session (mcp.Handler makes one query.Service per     *)
(* session): concurrent calls find their connector, take the record type   *)
(* of their statement from the cache or detect it, and read rows into it.  *)
(* A call that has returned stands for the next one of the session; the    *)
(* token of a call is that of its own request.                             *)
(*                                                                         *)
(* A statement is its text, what sqlparser makes of it (the first table    *)
(* and the columns, each with an expression and an alias, any of which may *)
(* be missing), and whether recordType looks at these: if the text holds a *)
(* where, order or limit and can be parsed.                                *)
(*                                                                         *)
(* A connector is a name in a namespace together with the database behind  *)
(* it.  A page can edit and rename a connector, so there may be several of *)
(* one name.                                                               *)
(***************************************************************************)
EXTENDS RecordTypeCache, Auth, SequencesExt

CONSTANTS
  QueryCall,  \* concurrent calls
  Session,    \* the credentials the calls of the session come with
  Holder,     \* the person a credential was issued to
  Connector,  \* what a call may find: ns, name, db
  Statement,  \* what a call may ask for: query, from, columns, filtered
  Result      \* the column names of the answer to a statement on a connector

\* The last conjunct: a token is issued to one person, and so is the claim that
\* stands for its bearer.
ASSUME QueryAssumption ==
  /\ Session \subseteq Credential
  /\ DOMAIN Holder = Credential
  /\ \A c \in Connector : c.ns \in DerivedNs
  /\ None \notin Connector \cup Statement
  /\ \A c, d \in Credential :
       c.value = d.value \/ (SubjectOrEmail(c) = SubjectOrEmail(d) /\ SubjectOrEmail(c) # Absent)
       => Holder[c] = Holder[d]

VARIABLES
  policy,  \* auth.Service.Policy
  step,    \* the step a call is at
  cred,    \* the token in its context
  con,     \* the connector it has found; input.Connector becomes its name
  stmt,    \* input.Query
  type     \* recordType

callVars == <<step, cred, con, stmt, type>>
vars     == <<cacheVars, policy, callVars>>

Init ==
  /\ CacheInit
  /\ policy \in Policy
  /\ step = [q \in QueryCall |-> "idle"]
  /\ cred = [q \in QueryCall |-> Absent]
  /\ con = [q \in QueryCall |-> None]
  /\ stmt = [q \in QueryCall |-> None]
  /\ type = [q \in QueryCall |-> None]

-----------------------------------------------------------------------------
\* What the key holds of a column: its expression, or its alias, or its number, then
\* the alias once more.
ColumnText(column, i) ==
  (IF column.expr # None THEN column.expr
   ELSE IF column.alias # "" THEN column.alias
   ELSE "col" \o ToString(i - 1)) \o column.alias \o ","

\* Fault: the table is left out, too.
StatementTextNoTable(s) ==
  IF s.filtered
  THEN FoldLeftDomain(LAMBDA text, i : text \o ColumnText(s.columns[i], i), "", s.columns)
  ELSE s.query

\* What the key holds of a statement: all of it, or, where its filter can be told apart,
\* the first table and the columns.  Nothing separates the table from the columns, and
\* no other table is mentioned.
StatementText(s) ==
  IF s.filtered
  THEN FoldLeftDomain(LAMBDA text, i : text \o ColumnText(s.columns[i], i),
                      IF s.from # None THEN s.from ELSE s.query, s.columns)
  ELSE s.query

\* Fault: no namespace in the key.
CacheKeyShared(p, cr, c, s) ==
  [ns |-> DefaultNs, con |-> c.name, text |-> StatementText(s)]

\* Fault: no connector in the key.
CacheKeyAnyConnector(p, cr, c, s) ==
  [ns |-> NamespaceOf(p, cr), con |-> None, text |-> StatementText(s)]

\* The three are joined by "|", which is taken not to occur in the first two.
CacheKey(p, cr, c, s) ==
  [ns |-> NamespaceOf(p, cr), con |-> c.name, text |-> StatementText(s)]

KeyOf(q) == CacheKey(policy, cred[q], con[q], stmt[q])

\* reflect.StructOf: a field for each column, its sqlx tag the column's name.  by
\* is the person whose token found the database, which the type does not hold.
DetectedType(cr, c, s) ==
  [by   |-> IF cr = Absent THEN Absent ELSE Holder[cr],
   tags |-> Result[c][s]]

\* The cache holds what dbQuery asks of it.
ASSUME CachedAssumption ==
  /\ [ns: DerivedNs, con: {c.name : c \in Connector},
      text: {StatementText(s) : s \in Statement}] \subseteq Key
  /\ \A cr \in Session \cup {Absent}, c \in Connector, s \in Statement :
       DetectedType(cr, c, s) \in RecordType

-----------------------------------------------------------------------------
Goto(q, s) == step' = [step EXCEPT ![q] = s]

\* The call is over; what it was about does not matter any more.
Return(q) ==
  /\ Goto(q, "idle")
  /\ cred' = [cred EXCEPT ![q] = Absent]
  /\ con' = [con EXCEPT ![q] = None]
  /\ stmt' = [stmt EXCEPT ![q] = None]
  /\ type' = [type EXCEPT ![q] = None]
  /\ UNCHANGED policy

\* Query: the call has found a connector of its namespace, of whatever name, and a
\* handle.  Without a namespace it has not, and returns.
Connect(q, cr, c, s) ==
  /\ step[q] = "idle"
  /\ c.ns = NamespaceOf(policy, cr)
  /\ cred' = [cred EXCEPT ![q] = cr]
  /\ con' = [con EXCEPT ![q] = c]
  /\ stmt' = [stmt EXCEPT ![q] = s]
  /\ Goto(q, "get")
  /\ UNCHANGED <<cacheVars, policy, type>>

\* recordType: the type is in the cache ...
TypeCached(q) ==
  /\ step[q] = "get"
  /\ GetHit(KeyOf(q))
  /\ type' = [type EXCEPT ![q] = Value(KeyOf(q))]
  /\ Goto(q, "read")
  /\ UNCHANGED <<policy, cred, con, stmt>>

\* ... or it is not.
TypeMissing(q) ==
  /\ step[q] = "get"
  /\ GetMiss(KeyOf(q))
  /\ Goto(q, "detect")
  /\ UNCHANGED <<policy, cred, con, stmt, type>>

\* io.DetectColumns asks the database.
DetectColumns(q) ==
  /\ step[q] = "detect"
  /\ type' = [type EXCEPT ![q] = DetectedType(cred[q], con[q], stmt[q])]
  /\ Goto(q, "put")
  /\ UNCHANGED <<cacheVars, policy, cred, con, stmt>>

DetectFails(q) ==
  /\ step[q] = "detect"
  /\ Return(q)
  /\ UNCHANGED cacheVars

StoreType(q) ==
  /\ step[q] = "put"
  /\ Put(KeyOf(q), type[q])
  /\ Goto(q, "read")
  /\ UNCHANGED <<policy, cred, con, stmt, type>>

\* The rows, or an error of the reader: the end of the call.
ReadRows(q) ==
  /\ step[q] = "read"
  /\ Return(q)
  /\ UNCHANGED cacheVars

Next ==
  \E q \in QueryCall :
    \/ \E cr \in Session \cup {Absent}, c \in Connector, s \in Statement : Connect(q, cr, c, s)
    \/ TypeCached(q) \/ TypeMissing(q)
    \/ DetectColumns(q) \/ DetectFails(q) \/ StoreType(q)
    \/ ReadRows(q)

Spec == Init /\ [][Next]_vars

-----------------------------------------------------------------------------
TypeOK ==
  /\ CacheTypeOK
  /\ policy \in Policy
  /\ step \in [QueryCall -> {"idle", "get", "detect", "put", "read"}]
  /\ cred \in [QueryCall -> Session \cup {Absent}]
  /\ con \in [QueryCall -> Connector \cup {None}]
  /\ stmt \in [QueryCall -> Statement \cup {None}]
  /\ type \in [QueryCall -> RecordType \cup {None}]

\* README.md:476-490: with an identity provider, two people never come to the same
\* namespace, and a person does who comes again with the same token, however it
\* is written, or, with ID tokens, with another one of the same claims
\* (auth/service.go:36-91).
NamespaceByIdentity ==
  policy.oauth =>
    \A c, d \in Credential :
      /\ NamespaceOf(policy, c) = NamespaceOf(policy, d) => Holder[c] = Holder[d]
      /\ \/ c.value = d.value
         \/ policy.idToken /\ c.email = d.email /\ c.sub = d.sub
                           /\ SubjectOrEmail(c) # Absent
         => NamespaceOf(policy, c) = NamespaceOf(policy, d)

\* service.go:80: the namespace is in the key "to avoid cross-user cache bleed": with
\* an identity provider, the type a call reads its rows into was detected for the
\* very person who calls, whoever shares the session and its cache.
NoCrossUserBleed ==
  policy.oauth =>
    \A q \in QueryCall :
      type[q] # None /\ cred[q] # Absent => type[q].by = Holder[cred[q]]

\* The type a call reads its rows into has the columns of the call's own statement
\* on the call's own connector, whichever call has detected it, and whatever has been
\* evicted in between (service.go:79-157).  It holds where things with one key have one
\* answer: a name stands for one database, and statements of one key text have the
\* same columns.
TypeFitsStatement ==
  \A q \in QueryCall : type[q] # None => type[q].tags = Result[con[q]][stmt[q]]
=============================================================================
