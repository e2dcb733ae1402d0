------------------------------- MODULE LruCache -------------------------------
(***************************************************************************)
(* What recordTypeCache promises (db/query/cache.go:9-13): a map of        *)
(* bounded size that forgets the key that was used longest ago.  Of two    *)
(* keys it says which one was used after the other, and nothing of lists.  *)
(***************************************************************************)
EXTENDS Naturals, FiniteSets

CONSTANTS Key, RecordType, Bound

VARIABLES
  held,    \* the record types of the keys that are held
  recent   \* <<k, l>>: both are held, and k was used after l

Held == DOMAIN held

\* The order among the keys of S once k has been used.
Used(k, S) ==
  {p \in recent : p[1] \in S \ {k} /\ p[2] \in S \ {k}} \cup {<<k, l>> : l \in S \ {k}}

Oldest(l) == l \in Held /\ \A m \in Held \ {l} : <<m, l>> \in recent

Init == held = << >> /\ recent = {}

\* The type of k becomes v, and of the other keys those of S stay.
Keep(S, k, v) == held' = [j \in S \cup {k} |-> IF j = k THEN v ELSE held[j]]

Hit(k) ==
  /\ k \in Held
  /\ recent' = Used(k, Held)
  /\ UNCHANGED held

Replace(k) ==
  /\ k \in Held
  /\ recent' = Used(k, Held)
  /\ \E v \in RecordType : Keep(Held, k, v)

Insert(k) ==
  /\ k \notin Held /\ Cardinality(Held) < Bound
  /\ recent' = Used(k, Held)
  /\ \E v \in RecordType : Keep(Held, k, v)

\* The cache is full: the oldest key makes room.
Evict(k, l) ==
  /\ k \notin Held /\ Cardinality(Held) = Bound
  /\ Oldest(l)
  /\ recent' = Used(k, Held \ {l})
  /\ \E v \in RecordType : Keep(Held \ {l}, k, v)

Next ==
  \E k \in Key :
    Hit(k) \/ Replace(k) \/ Insert(k) \/ \E l \in Held : Evict(k, l)

Spec == Init /\ [][Next]_<<held, recent>>
=============================================================================
