------------------------------- MODULE MCSqlKit -------------------------------
(* Small instances of SqlKit for TLC; the .cfg files pick from these. *)
EXTENDS SqlKit, TLC

CONSTANTS c1, c2, c3, r1, r2, url

Namespaces == {"default", "alice"}
Drivers    == {"mysql", "bigquery"}
OAuth      == {"bigquery"}

AnyCaller(tools, nss) == [tool: tools, ns: nss, elicits: BOOLEAN]
Eliciting(tools, nss) == [tool: tools, ns: nss, elicits: {TRUE}]

\* Two namespaces, and a caller without a token, which falls back to default.
SetCallers     == Eliciting({"set"}, {"alice", None})
ToolCallers    == AnyCaller({"use", "list"}, {"alice", None})
AliceSetting   == AnyCaller({"set"}, {"alice"})
AliceEliciting == Eliciting({"set"}, {"alice"})
Tokenless      == Eliciting({"set"}, {None})
AliceAny       == Eliciting({"set", "use"}, {"alice"})

Define(names, drivers, urls) == [name: names, driver: drivers, secretURL: urls]

MySQL    == Define({"a"}, {"mysql"}, {None})
BigQuery == Define({"a"}, {"bigquery"}, {None, url})
Mixed    == MySQL \cup BigQuery

\* An explicit location that is the default one of alice, whoever gives it.
Foreign  == {<<"mysql", "alice", "a">>}
Spelled  == Define({"a"}, {"mysql"}, Foreign)
MaySpell == MySQL \cup Spelled

\* The shared namespace is configured with a connector of the name alice uses.
SharedConnector == {<<"default", "a">>}

NoNs         == {}
NoConnectors == {}
Alice        == {"alice"}
NoSecrets    == {}
OldSecrets   == {<<"mysql", "alice", "a">>, url}

Symmetry == Permutations(Call) \cup Permutations(Request)
=============================================================================
