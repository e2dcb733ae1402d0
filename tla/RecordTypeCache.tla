---------------------------- MODULE RecordTypeCache ----------------------------
(***************************************************************************)
(* recordTypeCache (db/query/cache.go): a list with the entry used last at *)
(* its front, and a map from keys to the elements of the list.  Get and    *)
(* Put hold the mutex from beginning to end, so each is one step.          *)
(*                                                                         *)
(* An element is told from others by identity, as the pointer is; one that *)
(* has left the list is garbage, and may stand for a new one later.        *)
(***************************************************************************)
EXTENDS Integers, Sequences, Functions

CONSTANTS
  Key, RecordType, Element,
  RequestedCapacity,   \* what newRecordTypeCache is asked for
  None

ASSUME CacheAssumption ==
  /\ RequestedCapacity \in Int
  /\ None \notin Key \cup RecordType \cup Element

VARIABLES
  ll,       \* recordTypeCache.ll, the elements from front to back
  cache,    \* recordTypeCache.cache, a function on the keys that are in it
  entKey,   \* cacheEntry.key of an element
  entValue  \* cacheEntry.value of an element

cacheVars == <<ll, cache, entKey, entValue>>

CacheTypeOK ==
  /\ ll \in Seq(Element)
  /\ DOMAIN cache \subseteq Key
  /\ cache \in [DOMAIN cache -> Element]
  /\ entKey \in [Element -> Key \cup {None}]
  /\ entValue \in [Element -> RecordType \cup {None}]

\* newRecordTypeCache.
Capacity == IF RequestedCapacity <= 0 THEN 1 ELSE RequestedCapacity

CacheInit ==
  /\ ll = << >>
  /\ cache = << >>
  /\ entKey = [e \in Element |-> None]
  /\ entValue = [e \in Element |-> None]

-----------------------------------------------------------------------------
Has(k) == k \in DOMAIN cache

\* Fault: a use does not count.
StaysInPlace(e) == ll

\* container/list: the list with its element e moved to the front; those that
\* were before e move up by one.
MovedToFront(e) ==
  [j \in DOMAIN ll |->
     IF j = 1 THEN e
     ELSE IF \E i \in DOMAIN ll : ll[i] = e /\ j <= i THEN ll[j - 1] ELSE ll[j]]

\* What Get returns on a hit.
Value(k) == entValue[cache[k]]

\* Get.
GetHit(k) ==
  /\ Has(k)
  /\ ll' = MovedToFront(cache[k])
  /\ UNCHANGED <<cache, entKey, entValue>>

GetMiss(k) == ~Has(k) /\ UNCHANGED cacheVars

\* Put, for a key that is there: somebody else has put it meanwhile.
PutReplaces(k, v) ==
  /\ Has(k)
  /\ ll' = MovedToFront(cache[k])
  /\ entValue' = [entValue EXCEPT ![cache[k]] = v]
  /\ UNCHANGED <<cache, entKey>>

\* The map with k at element e, and of the keys that are in it those of S.
Mapped(S, k, e) == [j \in S \cup {k} |-> IF j = k THEN e ELSE cache[j]]

\* Put, for a new key.
PutInserts(k, v) ==
  /\ ~Has(k) /\ Len(ll) < Capacity
  /\ \E e \in Element \ Range(ll) :
       /\ ll' = <<e>> \o ll
       /\ cache' = Mapped(DOMAIN cache, k, e)
       /\ entKey' = [entKey EXCEPT ![e] = k]
       /\ entValue' = [entValue EXCEPT ![e] = v]

\* Fault: the evicted key stays in the map.
StayingAll(lru) == DOMAIN cache

\* The keys that stay when element lru goes.
Staying(lru) == DOMAIN cache \ {entKey[lru]}

\* Put, for a new key, into a full cache: the back of the list is removed.
PutEvicts(k, v) ==
  /\ ~Has(k) /\ Len(ll) >= Capacity
  /\ LET lru == ll[Len(ll)] IN
     \E e \in Element \ Range(ll) :
       /\ ll' = [j \in DOMAIN ll |-> IF j = 1 THEN e ELSE ll[j - 1]]
       /\ cache' = Mapped(Staying(lru), k, e)
       /\ entKey' = [entKey EXCEPT ![e] = k, ![lru] = None]
       /\ entValue' = [entValue EXCEPT ![e] = v, ![lru] = None]

Put(k, v) == PutReplaces(k, v) \/ PutInserts(k, v) \/ PutEvicts(k, v)

CacheNext ==
  \E k \in Key : GetHit(k) \/ GetMiss(k) \/ \E v \in RecordType : Put(k, v)

CacheSpec == CacheInit /\ [][CacheNext]_cacheVars

-----------------------------------------------------------------------------
\* What the list and the map stand for.
HeldTypes == [k \in DOMAIN cache |-> entValue[cache[k]]]

UsedAfter == {p \in (DOMAIN cache) \X (DOMAIN cache) : \E i, j \in DOMAIN ll :
                i < j /\ p[1] = entKey[ll[i]] /\ p[2] = entKey[ll[j]]}

Lru == INSTANCE LruCache
         WITH Bound <- Capacity, held <- HeldTypes, recent <- UsedAfter

\* List and map agree: they have the same entries, each key once, and no more
\* than the capacity (cache.go:42-84).
ListMatchesMap ==
  /\ Len(ll) <= Capacity /\ IsInjective(ll)
  /\ \A i \in DOMAIN ll : Has(entKey[ll[i]]) /\ cache[entKey[ll[i]]] = ll[i]
  /\ \A k \in DOMAIN cache : cache[k] \in Range(ll) /\ entKey[cache[k]] = k

\* The list and the map are an LRU cache: what is evicted is always the key that
\* was used longest ago, by whichever call (cache.go:9-13).
ImplementsLru == Lru!Spec
=============================================================================
