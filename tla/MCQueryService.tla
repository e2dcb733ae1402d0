---------------------------- MODULE MCQueryService ----------------------------
(* Small instances of QueryService for TLC; the .cfg files pick from these. *)
EXTENDS QueryService

Token(value, bearer, email, sub) ==
  [value |-> value, bearer |-> bearer, email |-> email, sub |-> sub]

\* Alice with an ID token and with the one that refreshes it, and bare; Bob with a
\* subject only; a token that is no JWT.
AliceFirst   == Token("t1", TRUE, "alice", "s1")
AliceSecond  == Token("t2", TRUE, "alice", "s1")
AliceBare    == Token("t1", FALSE, "alice", "s1")
BobSubject   == Token("t3", TRUE, Absent, "s2")
Opaque       == Token("t4", TRUE, Absent, Absent)
Opaque2      == Token("t5", TRUE, Absent, Absent)

Texts       == {"t1", "t2", "t3", "t4", "t5", "alice", "s1", "s2"}
Credentials == {AliceFirst, AliceBare, AliceSecond, BobSubject, Opaque, Opaque2}
Two         == {AliceFirst, BobSubject}

Holders == [cr \in Credentials |->
              CASE cr \in {AliceFirst, AliceSecond, AliceBare} -> "alice"
                [] cr = BobSubject -> "bob"
                [] cr = Opaque -> "carol"
                [] OTHER -> "dave"]

\* Connectors a and b in the shared namespace, and one called a in each namespace of
\* one of the two people, each of another database than its neighbour.
Connectors ==
  {[ns |-> DefaultNs, name |-> "a", db |-> "x"], [ns |-> DefaultNs, name |-> "b", db |-> "y"],
   [ns |-> Digest(AliceFirst), name |-> "a", db |-> "x"],
   [ns |-> Digest(BobSubject), name |-> "a", db |-> "y"],
   [ns |-> <<"claim", "alice">>, name |-> "a", db |-> "x"],
   [ns |-> <<"claim", "s2">>, name |-> "a", db |-> "y"]}

-----------------------------------------------------------------------------
Column(expr, alias) == [expr |-> expr, alias |-> alias]
Select(query, columns, from, filtered) ==
  [query |-> query, columns |-> columns, from |-> from, filtered |-> filtered]

Star == <<Column("*", "")>>

\* Two that differ in their filter only and share a key, and one of another
\* table.
Recent  == Select("SELECT * FROM t WHERE id > 7", Star, "t", TRUE)
Sorted  == Select("SELECT * FROM t ORDER BY id", Star, "t", TRUE)
OtherT  == Select("SELECT * FROM u LIMIT 9", Star, "u", TRUE)

\* They differ in the joined table.
JoinU   == Select("SELECT * FROM t JOIN u USING (id) WHERE id > 7", Star, "t", TRUE)
JoinV   == Select("SELECT * FROM t JOIN v USING (id) WHERE id > 7", Star, "t", TRUE)

\* They differ in where the table ends.
IdOfT   == Select("SELECT id FROM t LIMIT 9", <<Column("id", "")>>, "t", TRUE)
DOfTi   == Select("SELECT d FROM ti LIMIT 9", <<Column("d", "")>>, "ti", TRUE)

Filters == {Recent, Sorted, OtherT}
Clashes == {JoinU, JoinV, IdOfT, DOfTi}

Answer(db, s) ==
  CASE s \in {Recent, Sorted} -> IF db = "x" THEN <<"id", "name">> ELSE <<"id">>
    [] s = OtherT -> <<"id", "size">>
    [] s = JoinU  -> <<"id", "name", "size">>
    [] s = JoinV  -> <<"id", "name", "since">>
    [] s = IdOfT  -> <<"id">>
    [] s = DOfTi  -> <<"d">>

Answers == [c \in Connector |-> [s \in Statement |-> Answer(c.db, s)]]

CacheKeys ==
  [ns: DerivedNs, con: {c.name : c \in Connector}, text: {StatementText(s) : s \in Statement}]

RecordTypes ==
  [by: {"alice", "bob", Absent}, tags: {Answers[c][s] : c \in Connector, s \in Statement}]

Symmetry == Permutations(Element) \cup Permutations(QueryCall)
=============================================================================
