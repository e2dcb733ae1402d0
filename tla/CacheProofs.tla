------------------------------ MODULE CacheProofs ------------------------------
(***************************************************************************)
(* Proofs about RecordTypeCache, for every capacity and any keys, types    *)
(* and elements.  List and map are inductive together: each says where the *)
(* other one's entries are.                                                *)
(***************************************************************************)
EXTENDS RecordTypeCache, FiniteSetTheorems, FunctionTheorems, TLAPS

CacheInv == CacheTypeOK /\ ListMatchesMap

\* What PutInserts makes of the list, and what PutEvicts does: e is at the front,
\* and, with the latter, the back is gone.
Inserted(e) == <<e>> \o ll
Replaced(e) == [j \in DOMAIN ll |-> IF j = 1 THEN e ELSE ll[j - 1]]

-----------------------------------------------------------------------------
(* Lemmas about the list.                                                     *)

LEMMA CapacityIsPositive == Capacity \in Nat \ {0}
BY CacheAssumption DEF Capacity

LEMMA FunctionIsSeq ==
  ASSUME NEW S, NEW n \in Nat, NEW f \in [1 .. n -> S]
  PROVE  f \in Seq(S) /\ Len(f) = n /\ DOMAIN f = 1 .. n
OBVIOUS

\* A key has one place in the list.
LEMMA PlaceOfKey ==
  ASSUME CacheInv, NEW k \in DOMAIN cache
  PROVE  \E p \in DOMAIN ll : ll[p] = cache[k]
BY DEF CacheInv, ListMatchesMap, Range

LEMMA KeysOfList == CacheInv => DOMAIN cache = {entKey[ll[i]] : i \in DOMAIN ll}
<1> SUFFICES ASSUME CacheInv PROVE DOMAIN cache = {entKey[ll[i]] : i \in DOMAIN ll}
    OBVIOUS
<1>1. \A i \in DOMAIN ll : entKey[ll[i]] \in DOMAIN cache
      BY DEF CacheInv, ListMatchesMap, Has
<1>2. \A k \in DOMAIN cache : \E i \in DOMAIN ll : k = entKey[ll[i]]
      BY PlaceOfKey DEF CacheInv, ListMatchesMap
<1> QED
    BY <1>1, <1>2

\* Moving an element to the front moves up those before it, and no others.
LEMMA MovedShifts ==
  ASSUME CacheInv, NEW p \in DOMAIN ll
  PROVE  MovedToFront(ll[p]) =
           [j \in DOMAIN ll |-> IF j = 1 THEN ll[p] ELSE IF j <= p THEN ll[j - 1] ELSE ll[j]]
<1>1. \A j \in DOMAIN ll : (\E i \in DOMAIN ll : ll[i] = ll[p] /\ j <= i) <=> j <= p
      BY DEF CacheInv, ListMatchesMap, IsInjective
<1> QED
    BY <1>1 DEF MovedToFront

LEMMA MovedIsList ==
  ASSUME CacheInv, NEW p \in DOMAIN ll, NEW m, m = MovedToFront(ll[p])
  PROVE  /\ m \in Seq(Element) /\ Len(m) = Len(ll)
         /\ IsInjective(m)
         /\ Range(m) = Range(ll)
<1> DEFINE n == Len(ll)
<1>1. n \in Nat /\ DOMAIN ll = 1 .. n /\ ll \in [1 .. n -> Element] /\ p \in 1 .. n
      BY DEF CacheInv, CacheTypeOK
<1>2. m = [j \in 1 .. n |-> IF j = 1 THEN ll[p] ELSE IF j <= p THEN ll[j - 1] ELSE ll[j]]
      BY <1>1, MovedShifts
<1>3. m \in [1 .. n -> Element]
      BY <1>1, <1>2
<1>4. IsInjective(m)
      BY <1>1, <1>2 DEF CacheInv, ListMatchesMap, IsInjective
<1>5. \A i \in 1 .. n : ll[i] = m[IF i < p THEN i + 1 ELSE IF i = p THEN 1 ELSE i]
      BY <1>1, <1>2
<1>6. \A j \in 1 .. n : m[j] = ll[IF j = 1 THEN p ELSE IF j <= p THEN j - 1 ELSE j]
      BY <1>1, <1>2
<1>7. Range(m) = Range(ll)
  <2>1. \A i \in 1 .. n : (IF i < p THEN i + 1 ELSE IF i = p THEN 1 ELSE i) \in 1 .. n
        BY <1>1
  <2>2. \A j \in 1 .. n : (IF j = 1 THEN p ELSE IF j <= p THEN j - 1 ELSE j) \in 1 .. n
        BY <1>1
  <2> QED
      BY SMTT(30), <1>1, <1>3, <1>5, <1>6, <2>1, <2>2 DEF Range
<1> QED
    BY <1>1, <1>3, <1>4, <1>7, FunctionIsSeq

LEMMA InsertedIsList ==
  ASSUME CacheInv, NEW e \in Element \ Range(ll), NEW m, m = Inserted(e)
  PROVE  /\ m \in Seq(Element) /\ Len(m) = Len(ll) + 1
         /\ m[1] = e /\ \A i \in 1 .. Len(ll) : m[i + 1] = ll[i]
         /\ IsInjective(m)
<1> DEFINE n == Len(ll)
<1>1. n \in Nat /\ DOMAIN ll = 1 .. n /\ ll \in Seq(Element)
      BY DEF CacheInv, CacheTypeOK
<1>2. m \in Seq(Element) /\ Len(m) = n + 1 /\ m[1] = e /\ \A i \in 1 .. n : m[i + 1] = ll[i]
      BY <1>1 DEF Inserted
<1>3. IsInjective(m)
  <2> SUFFICES ASSUME NEW a \in 1 .. n + 1, NEW b \in 1 .. n + 1, m[a] = m[b] PROVE a = b
      BY <1>1, <1>2 DEF IsInjective
  <2>1. \A i \in 2 .. n + 1 : i - 1 \in 1 .. n /\ m[i] = ll[i - 1] /\ m[i] # e
        BY <1>1, <1>2 DEF Range
  <2>2. CASE a = 1 \/ b = 1
        BY <1>2, <2>1, <2>2
  <2>3. CASE a # 1 /\ b # 1
    <3>1. ll[a - 1] = ll[b - 1] /\ a - 1 \in DOMAIN ll /\ b - 1 \in DOMAIN ll
          BY <1>1, <2>1, <2>3
    <3> QED
        BY <3>1 DEF CacheInv, ListMatchesMap, IsInjective
  <2> QED
      BY <2>2, <2>3
<1> QED
    BY <1>2, <1>3

LEMMA ReplacedIsList ==
  ASSUME CacheInv, ll # << >>, NEW e \in Element \ Range(ll), NEW m, m = Replaced(e)
  PROVE  /\ m \in Seq(Element) /\ Len(m) = Len(ll)
         /\ m[1] = e /\ \A i \in 1 .. Len(ll) - 1 : m[i + 1] = ll[i]
         /\ IsInjective(m)
<1> DEFINE n == Len(ll)
<1>1. n \in Nat \ {0} /\ DOMAIN ll = 1 .. n /\ ll \in [1 .. n -> Element]
      BY DEF CacheInv, CacheTypeOK
<1>2. m = [j \in 1 .. n |-> IF j = 1 THEN e ELSE ll[j - 1]]
      BY <1>1 DEF Replaced
<1>3. m \in [1 .. n -> Element] /\ m[1] = e /\ \A i \in 1 .. n - 1 : m[i + 1] = ll[i]
      BY <1>1, <1>2
<1>4. IsInjective(m)
  <2> SUFFICES ASSUME NEW a \in 1 .. n, NEW b \in 1 .. n, m[a] = m[b] PROVE a = b
      BY <1>1, <1>2 DEF IsInjective
  <2>1. \A i \in 2 .. n : i - 1 \in 1 .. n /\ m[i] = ll[i - 1] /\ m[i] # e
        BY <1>1, <1>2 DEF Range
  <2>2. CASE a = 1 \/ b = 1
        BY <1>3, <2>1, <2>2
  <2>3. CASE a # 1 /\ b # 1
    <3>1. ll[a - 1] = ll[b - 1] /\ a - 1 \in DOMAIN ll /\ b - 1 \in DOMAIN ll
          BY <1>1, <2>1, <2>3
    <3> QED
        BY <3>1 DEF CacheInv, ListMatchesMap, IsInjective
  <2> QED
      BY <2>2, <2>3
<1>5. m \in Seq(Element) /\ Len(m) = n
      BY <1>1, <1>3, FunctionIsSeq
<1> QED
    BY <1>3, <1>4, <1>5
-----------------------------------------------------------------------------
(* List and map stay in step.                                                 *)

LEMMA InitCacheInv == CacheInit => CacheInv
<1> SUFFICES ASSUME CacheInit PROVE CacheInv
    OBVIOUS
<1>1. CacheTypeOK
      BY DEF CacheInit, CacheTypeOK
<1>2. ListMatchesMap
      BY CapacityIsPositive DEF CacheInit, ListMatchesMap, IsInjective, Has
<1> QED
    BY <1>1, <1>2 DEF CacheInv

\* Where list, map and keys stand after a Put of a new key, which leaves the
\* elements of S before it and takes element e for the key.
LEMMA PutKeepsMatch ==
  ASSUME CacheInv, NEW k \in Key, k \notin DOMAIN cache, NEW e \in Element \ Range(ll),
         NEW n \in Nat, n <= Len(ll), n < Capacity,
         NEW S, S = {entKey[ll[i]] : i \in 1 .. n},
         ll' \in Seq(Element), Len(ll') = n + 1, IsInjective(ll'),
         ll'[1] = e, \A i \in 1 .. n : ll'[i + 1] = ll[i],
         cache' = Mapped(S, k, e),
         entKey'[e] = k, \A i \in 1 .. n : entKey'[ll[i]] = entKey[ll[i]],
         entKey' \in [Element -> Key \cup {None}],
         entValue' \in [Element -> RecordType \cup {None}]
  PROVE  CacheInv'
<1>1. /\ DOMAIN ll = 1 .. Len(ll) /\ Len(ll) \in Nat
      /\ DOMAIN ll' = 1 .. n + 1
      BY DEF CacheInv, CacheTypeOK
<1>2. \A i \in 1 .. n : ll[i] \in Element /\ entKey[ll[i]] \in DOMAIN cache /\ cache[entKey[ll[i]]] = ll[i]
      BY <1>1 DEF CacheInv, CacheTypeOK, ListMatchesMap, Has
<1>3. S \subseteq DOMAIN cache /\ k \notin S
      BY SMTT(30), <1>2
<1>4. /\ DOMAIN cache' = S \cup {k} /\ cache'[k] = e
      /\ \A j \in S : cache'[j] = cache[j]
      BY <1>3 DEF Mapped
<1>5. CacheTypeOK'
      BY <1>3, <1>4 DEF CacheInv, CacheTypeOK, Mapped
<1>6. \A i \in DOMAIN ll' : Has(entKey[ll[i]])' /\ cache'[entKey'[ll'[i]]] = ll'[i]
  <2> SUFFICES ASSUME NEW i \in 1 .. n + 1
               PROVE  entKey'[ll'[i]] \in DOMAIN cache' /\ cache'[entKey'[ll'[i]]] = ll'[i]
      BY <1>1 DEF Has
  <2>1. CASE i = 1
        BY <1>4, <2>1
  <2>2. CASE i # 1
    <3>1. i - 1 \in 1 .. n /\ ll'[i] = ll[i - 1]
          BY <2>2
    <3>2. entKey'[ll'[i]] = entKey[ll[i - 1]] /\ entKey[ll[i - 1]] \in S
          BY <3>1
    <3> QED
        BY <1>2, <1>4, <3>1, <3>2
  <2> QED
      BY <2>1, <2>2
<1>7. \A j \in DOMAIN cache' : cache'[j] \in Range(ll') /\ entKey'[cache'[j]] = j
  <2>1. e \in Range(ll') /\ \A i \in 1 .. n : ll[i] \in Range(ll')
    <3>1. 1 \in DOMAIN ll' /\ \A i \in 1 .. n : i + 1 \in DOMAIN ll'
          BY <1>1
    <3> QED
        BY SMTT(30), <3>1 DEF Range
  <2>2. \A j \in S : cache'[j] \in Range(ll') /\ entKey'[cache'[j]] = j
    <3> TAKE j \in S
    <3>1. PICK i \in 1 .. n : j = entKey[ll[i]]
          OBVIOUS
    <3>2. cache'[j] = ll[i] /\ entKey'[ll[i]] = j
          BY <1>2, <1>4, <3>1
    <3> QED
        BY <2>1, <3>2
  <2>3. cache'[k] \in Range(ll') /\ entKey'[cache'[k]] = k
        BY <1>4, <2>1
  <2> QED
      BY <1>4, <2>2, <2>3
<1>8. ListMatchesMap'
      BY <1>6, <1>7, CapacityIsPositive DEF ListMatchesMap
<1> QED
    BY <1>5, <1>8 DEF CacheInv

LEMMA NextCacheInv == CacheInv /\ [CacheNext]_cacheVars => CacheInv'
<1> SUFFICES ASSUME CacheInv, [CacheNext]_cacheVars PROVE CacheInv'
    OBVIOUS
<1>1. ASSUME NEW k \in Key, Has(k), ll' = MovedToFront(cache[k]), cache' = cache, entKey' = entKey,
             entValue' \in [Element -> RecordType \cup {None}]
      PROVE  CacheInv'
  <2>1. PICK p \in DOMAIN ll : ll[p] = cache[k]
        BY <1>1, PlaceOfKey DEF Has
  <2>2. /\ ll' \in Seq(Element) /\ Len(ll') = Len(ll)
        /\ IsInjective(ll') /\ Range(ll') = Range(ll)
        BY <1>1, <2>1, MovedIsList
  <2>3. \A i \in DOMAIN ll' : \E j \in DOMAIN ll : ll'[i] = ll[j]
        BY <2>2 DEF Range
  <2>4. CacheTypeOK'
        BY <1>1, <2>2 DEF CacheInv, CacheTypeOK
  <2>5. ListMatchesMap'
        BY <1>1, <2>2, <2>3 DEF CacheInv, ListMatchesMap, Has
  <2> QED
      BY <2>4, <2>5 DEF CacheInv
<1>2. ASSUME NEW k \in Key, GetHit(k) PROVE CacheInv'
      BY <1>1, <1>2 DEF GetHit, CacheInv, CacheTypeOK
<1>3. ASSUME NEW k \in Key, GetMiss(k) PROVE CacheInv'
      BY <1>3 DEF GetMiss, cacheVars, CacheInv, CacheTypeOK, ListMatchesMap, Has, Capacity
<1>4. ASSUME NEW k \in Key, NEW v \in RecordType, PutReplaces(k, v) PROVE CacheInv'
      BY <1>1, <1>4 DEF PutReplaces, CacheInv, CacheTypeOK
<1>5. ASSUME NEW k \in Key, NEW v \in RecordType, PutInserts(k, v) PROVE CacheInv'
  <2>1. PICK e \in Element \ Range(ll) :
          /\ ll' = Inserted(e)
          /\ cache' = Mapped(DOMAIN cache, k, e)
          /\ entKey' = [entKey EXCEPT ![e] = k]
          /\ entValue' = [entValue EXCEPT ![e] = v]
        BY <1>5 DEF PutInserts, Inserted
  <2> DEFINE n == Len(ll)
  <2>2. n \in Nat /\ DOMAIN ll = 1 .. n /\ n < Capacity /\ k \notin DOMAIN cache
        BY <1>5 DEF CacheInv, CacheTypeOK, PutInserts, Has
  <2>3. /\ ll' \in Seq(Element) /\ Len(ll') = n + 1 /\ IsInjective(ll')
        /\ ll'[1] = e /\ \A i \in 1 .. n : ll'[i + 1] = ll[i]
        BY <2>1, InsertedIsList
  <2>4. DOMAIN cache = {entKey[ll[i]] : i \in 1 .. n}
        BY <2>2, KeysOfList
  <2>5. \A i \in 1 .. n : ll[i] \in Element /\ ll[i] # e
        BY <2>2 DEF CacheInv, CacheTypeOK, Range
  <2>6. /\ entKey' \in [Element -> Key \cup {None}] /\ entValue' \in [Element -> RecordType \cup {None}]
        /\ entKey'[e] = k /\ \A i \in 1 .. n : entKey'[ll[i]] = entKey[ll[i]]
        BY <2>1, <2>5 DEF CacheInv, CacheTypeOK
  <2>7. n <= Len(ll)
        BY <2>2
  <2> QED
      BY <2>1, <2>2, <2>3, <2>4, <2>6, <2>7, PutKeepsMatch
<1>6. ASSUME NEW k \in Key, NEW v \in RecordType, PutEvicts(k, v) PROVE CacheInv'
  <2> DEFINE n == Len(ll) - 1
             lru == ll[Len(ll)]
  <2>1. PICK e \in Element \ Range(ll) :
          /\ ll' = Replaced(e)
          /\ cache' = Mapped(Staying(lru), k, e)
          /\ entKey' = [entKey EXCEPT ![e] = k, ![lru] = None]
          /\ entValue' = [entValue EXCEPT ![e] = v, ![lru] = None]
        BY <1>6 DEF PutEvicts, Replaced
  <2>2. /\ n \in Nat /\ Len(ll) = n + 1 /\ DOMAIN ll = 1 .. n + 1 /\ n < Capacity
        /\ k \notin DOMAIN cache
        BY <1>6, CapacityIsPositive DEF CacheInv, CacheTypeOK, ListMatchesMap, PutEvicts, Has
  <2>3. /\ ll' \in Seq(Element) /\ Len(ll') = n + 1 /\ IsInjective(ll')
        /\ ll'[1] = e /\ \A i \in 1 .. n : ll'[i + 1] = ll[i]
    <3>1. ll # << >>
          BY <2>2
    <3> QED
        BY <2>1, <2>2, <3>1, ReplacedIsList
  <2>4. \A i \in 1 .. n : ll[i] \in Element /\ ll[i] # e /\ ll[i] # lru
        BY <2>2 DEF CacheInv, CacheTypeOK, ListMatchesMap, IsInjective, Range
  <2>5. Staying(lru) = {entKey[ll[i]] : i \in 1 .. n}
    <3>1. DOMAIN cache = {entKey[ll[i]] : i \in 1 .. n + 1}
          BY <2>2, KeysOfList
    <3>2. \A i \in 1 .. n : entKey[ll[i]] # entKey[lru]
          BY <2>2, <2>4 DEF CacheInv, ListMatchesMap
    <3> QED
        BY <2>2, <3>1, <3>2 DEF Staying
  <2>6. lru \in Element /\ lru # e
        BY <2>2 DEF CacheInv, CacheTypeOK, Range
  <2>7. /\ entKey' \in [Element -> Key \cup {None}] /\ entValue' \in [Element -> RecordType \cup {None}]
        /\ entKey'[e] = k /\ \A i \in 1 .. n : entKey'[ll[i]] = entKey[ll[i]]
        BY <2>1, <2>4, <2>6 DEF CacheInv, CacheTypeOK
  <2>8. n <= Len(ll)
        BY <2>2
  <2> QED
      BY <2>1, <2>2, <2>3, <2>5, <2>7, <2>8, PutKeepsMatch
<1>7. CASE UNCHANGED cacheVars
      BY <1>7 DEF cacheVars, CacheInv, CacheTypeOK, ListMatchesMap, Has, Capacity
<1> QED
    BY <1>2, <1>3, <1>4, <1>5, <1>6, <1>7 DEF CacheNext, Put

LEMMA SpecCacheInv == CacheSpec => []CacheInv
BY InitCacheInv, NextCacheInv, PTL DEF CacheSpec

\* List, map and entries keep their types.
THEOREM CacheTypeCorrect == CacheSpec => []CacheTypeOK
BY SpecCacheInv, PTL DEF CacheInv

\* The list and the map have the same entries, each once, and no more than the
\* capacity.
THEOREM ListAndMapAgree == CacheSpec => []ListMatchesMap
BY SpecCacheInv, PTL DEF CacheInv

-----------------------------------------------------------------------------
(* The refinement of LruCache.  In front of e means used after e, so each of  *)
(* the three ways to change the list is one of the ways to use a key.         *)

LEMMA HeldIsFinite ==
  ASSUME CacheInv
  PROVE  IsFiniteSet(DOMAIN cache) /\ Cardinality(DOMAIN cache) = Len(ll)
<1> DEFINE n == Len(ll)
           f == [i \in 1 .. n |-> entKey[ll[i]]]
<1>1. n \in Nat /\ DOMAIN ll = 1 .. n
      BY DEF CacheInv, CacheTypeOK
<1>2. IsFiniteSet(1 .. n) /\ Cardinality(1 .. n) = n
  <2>1. 1 \in Int /\ n \in Int
        BY <1>1
  <2>2. IsFiniteSet(1 .. n) /\ Cardinality(1 .. n) = IF 1 > n THEN 0 ELSE n - 1 + 1
        BY <2>1, FS_Interval, Zenon
  <2>3. (IF 1 > n THEN 0 ELSE n - 1 + 1) = n
        BY <1>1
  <2> QED
      BY <2>2, <2>3
<1>3. f \in [1 .. n -> DOMAIN cache]
      BY <1>1, KeysOfList
<1>4. \A a, b \in 1 .. n : f[a] = f[b] => a = b
      BY <1>1 DEF CacheInv, ListMatchesMap, IsInjective
<1>5. \A k \in DOMAIN cache : \E i \in 1 .. n : f[i] = k
  <2> TAKE k \in DOMAIN cache
  <2>1. PICK i \in 1 .. n : k = entKey[ll[i]]
        BY <1>1, KeysOfList
  <2>2. f[i] = k
        BY <2>1
  <2> QED
      BY <2>2
<1>6. f \in Bijection(1 .. n, DOMAIN cache)
      BY <1>3, <1>4, <1>5, Fun_IsBij
<1>7. ExistsBijection(1 .. n, DOMAIN cache)
      BY <1>6 DEF ExistsBijection
<1> QED
    BY <1>2, <1>7, FS_Bijection

\* The key at place i of the list, and the pairs of places in order.
KeyAt(i) == entKey[ll[i]]

OrderByPlace == \A i, j \in DOMAIN ll : <<KeyAt(i), KeyAt(j)>> \in UsedAfter <=> i < j

LEMMA UsedAfterByPlace == CacheInv => OrderByPlace
<1> SUFFICES ASSUME CacheInv, NEW i \in DOMAIN ll, NEW j \in DOMAIN ll
             PROVE  <<KeyAt(i), KeyAt(j)>> \in UsedAfter <=> i < j
    BY DEF OrderByPlace
<1>1. \A a, b \in DOMAIN ll : KeyAt(a) = KeyAt(b) => a = b
      BY DEF CacheInv, ListMatchesMap, IsInjective, KeyAt
<1>2. KeyAt(i) \in DOMAIN cache /\ KeyAt(j) \in DOMAIN cache
      BY KeysOfList DEF KeyAt
<1> QED
    BY <1>1, <1>2 DEF UsedAfter, KeyAt

\* Key k goes to the front; the keys of S that stay, and are not k, keep their order.
GoesFirst(k, S, Place, shift) ==
  /\ S \subseteq DOMAIN cache /\ DOMAIN cache' = S \cup {k}
  /\ 1 \in DOMAIN ll' /\ KeyAt(1)' = k
  /\ Place \subseteq DOMAIN ll /\ S \ {k} = {KeyAt(i) : i \in Place}
  /\ shift \in [Place -> DOMAIN ll']
  /\ \A i \in Place : shift[i] # 1 /\ entKey'[ll'[shift[i]]] = KeyAt(i)
  /\ \A i, j \in Place : shift[i] < shift[j] <=> i < j

LEMMA FrontIsUsed ==
  ASSUME CacheInv, CacheInv', NEW k, NEW S, NEW Place, NEW shift,
         GoesFirst(k, S, Place, shift)
  PROVE  UsedAfter' = Lru!Used(k, S)
<1> USE DEF GoesFirst
<1>1. UsedAfter' \subseteq (S \cup {k}) \X (S \cup {k})
      BY DEF UsedAfter
<1>2. Lru!Used(k, S) \subseteq (S \cup {k}) \X (S \cup {k})
      BY DEF Lru!Used, UsedAfter
<1>3. /\ \A i, j \in DOMAIN ll : <<KeyAt(i), KeyAt(j)>> \in UsedAfter <=> i < j
      /\ \A i, j \in DOMAIN ll' : <<entKey'[ll'[i]], entKey'[ll'[j]]>> \in UsedAfter' <=> i < j
  <2>1. OrderByPlace
        BY UsedAfterByPlace
  <2>2. OrderByPlace'
        BY UsedAfterByPlace, PTL
  <2> QED
      BY <2>1, <2>2 DEF OrderByPlace, KeyAt
<1>4. entKey'[ll'[1]] = k /\ DOMAIN ll' \subseteq Nat \ {0}
      BY DEF KeyAt, CacheInv, CacheTypeOK
<1> SUFFICES ASSUME NEW a \in S \cup {k}, NEW b \in S \cup {k}
             PROVE  <<a, b>> \in UsedAfter' <=> <<a, b>> \in Lru!Used(k, S)
    BY <1>1, <1>2
<1>5. <<a, b>> \in Lru!Used(k, S)
      <=> (a # k /\ b # k /\ <<a, b>> \in UsedAfter) \/ (a = k /\ b # k)
      BY DEF Lru!Used
<1>6. \A c \in (S \cup {k}) \ {k} : \E i \in Place : c = KeyAt(i)
      OBVIOUS
<1>7. CASE a = k /\ b = k
      BY <1>3, <1>4, <1>5, <1>7
<1>8. CASE a = k /\ b # k
  <2>1. PICK j \in Place : b = KeyAt(j)
        BY <1>6, <1>8
  <2>2. shift[j] \in DOMAIN ll' /\ 1 < shift[j]
        BY <1>4
  <2> QED
      BY <1>3, <1>4, <1>5, <1>8, <2>1, <2>2
<1>9. CASE a # k /\ b = k
  <2>1. PICK i \in Place : a = KeyAt(i)
        BY <1>6, <1>9
  <2>2. shift[i] \in DOMAIN ll' /\ ~(shift[i] < 1)
        BY <1>4
  <2> QED
      BY <1>3, <1>4, <1>5, <1>9, <2>1, <2>2
<1>10. CASE a # k /\ b # k
  <2>1. PICK i \in Place, j \in Place : a = KeyAt(i) /\ b = KeyAt(j)
        BY <1>6, <1>10
  <2>2. shift[i] \in DOMAIN ll' /\ shift[j] \in DOMAIN ll' /\ i \in DOMAIN ll /\ j \in DOMAIN ll
        OBVIOUS
  <2> QED
      BY <1>3, <1>5, <1>10, <2>1, <2>2
<1> QED
    BY <1>7, <1>8, <1>9, <1>10
LEMMA HeldDomain == DOMAIN HeldTypes = DOMAIN cache
BY DEF HeldTypes

LEMMA SameCardinality == \A S : Lru!Cardinality(S) = Cardinality(S)
BY DEF Lru!Cardinality, Cardinality

LEMMA InitLru == CacheInit => Lru!Init
<1> SUFFICES ASSUME CacheInit PROVE Lru!Init
    OBVIOUS
<1>1. DOMAIN cache = {}
      BY DEF CacheInit
<1>2. HeldTypes = << >>
      BY <1>1 DEF HeldTypes
<1>3. UsedAfter = {}
      BY <1>1 DEF UsedAfter
<1> QED
    BY <1>2, <1>3 DEF Lru!Init

\* A key that is there is used: Get, and Put of a type for it.
LEMMA MoveIsUse ==
  ASSUME CacheInv, CacheInv', NEW k \in DOMAIN cache, ll' = MovedToFront(cache[k]),
         cache' = cache, entKey' = entKey
  PROVE  UsedAfter' = Lru!Used(k, DOMAIN cache)
<1> DEFINE n == Len(ll)
<1>1. n \in Nat /\ DOMAIN ll = 1 .. n
      BY DEF CacheInv, CacheTypeOK
<1>2. PICK p \in 1 .. n : ll[p] = cache[k]
      BY <1>1, PlaceOfKey
<1>3. /\ ll' = [j \in 1 .. n |-> IF j = 1 THEN ll[p] ELSE IF j <= p THEN ll[j - 1] ELSE ll[j]]
      /\ DOMAIN ll' = 1 .. n
      BY <1>1, <1>2, MovedShifts
<1>4. entKey[ll[p]] = k
      BY <1>2 DEF CacheInv, ListMatchesMap
<1> DEFINE Place == (1 .. n) \ {p}
           shift == [i \in Place |-> IF i < p THEN i + 1 ELSE i]
<1>5. 1 \in DOMAIN ll' /\ KeyAt(1)' = k
      BY <1>1, <1>2, <1>3, <1>4 DEF KeyAt
<1>6. (DOMAIN cache) \ {k} = {KeyAt(i) : i \in Place}
  <2>1. \A i \in Place : entKey[ll[i]] \in (DOMAIN cache) \ {k}
        BY <1>1, <1>2, <1>4 DEF CacheInv, ListMatchesMap, IsInjective, Has
  <2>2. \A j \in (DOMAIN cache) \ {k} : \E i \in Place : j = entKey[ll[i]]
        BY <1>1, <1>4, KeysOfList
  <2> QED
      BY <2>1, <2>2 DEF KeyAt
<1>7. /\ shift \in [Place -> DOMAIN ll']
      /\ \A i \in Place : shift[i] # 1 /\ ll'[shift[i]] = ll[i]
      /\ \A i, j \in Place : shift[i] < shift[j] <=> i < j
      BY <1>1, <1>2, <1>3
<1>8. \A i \in Place : shift[i] # 1 /\ entKey'[ll'[shift[i]]] = KeyAt(i)
      BY <1>7 DEF KeyAt
<1>9. DOMAIN cache' = (DOMAIN cache) \cup {k} /\ Place \subseteq DOMAIN ll
      BY <1>1
<1> HIDE DEF Place, shift
<1> QED
  <2>1. GoesFirst(k, DOMAIN cache, Place, shift)
        BY <1>5, <1>6, <1>7, <1>8, <1>9 DEF GoesFirst
  <2> QED
      BY <2>1, FrontIsUsed

\* A new key is used; the keys of the first n places stay.
KeptAfter(k, n, S) ==
  /\ n \in Nat /\ n <= Len(ll) /\ Len(ll') = n + 1
  /\ k \notin DOMAIN cache /\ DOMAIN cache' = S \cup {k}
  /\ \A i \in 1 .. n : entKey[ll[i]] \in S
  /\ \A j \in S : \E i \in 1 .. n : j = entKey[ll[i]]
  /\ entKey'[ll'[1]] = k
  /\ \A i \in 1 .. n : ll'[i + 1] = ll[i] /\ entKey'[ll[i]] = entKey[ll[i]]

LEMMA PutIsUse ==
  ASSUME CacheInv, CacheInv', NEW k, NEW n, NEW S, KeptAfter(k, n, S)
  PROVE  UsedAfter' = Lru!Used(k, S)
<1> USE DEF KeptAfter
<1>1. DOMAIN ll = 1 .. Len(ll) /\ Len(ll) \in Nat /\ DOMAIN ll' = 1 .. n + 1
      BY DEF CacheInv, CacheTypeOK
<1> DEFINE Place == 1 .. n
           shift == [i \in Place |-> i + 1]
<1>2. Place \subseteq DOMAIN ll /\ S \subseteq DOMAIN cache
  <2>1. \A i \in 1 .. n : i \in DOMAIN ll
        BY <1>1
  <2>2. \A i \in DOMAIN ll : entKey[ll[i]] \in DOMAIN cache
        BY DEF CacheInv, ListMatchesMap, Has
  <2>3. S \subseteq DOMAIN cache
        BY <2>1, <2>2
  <2> QED
      BY <2>1, <2>3
<1>3. 1 \in DOMAIN ll' /\ KeyAt(1)' = k
      BY <1>1 DEF KeyAt
<1>4. S \ {k} = {KeyAt(i) : i \in Place}
      BY <1>2 DEF KeyAt
<1>5. shift \in [Place -> DOMAIN ll']
      BY <1>1
<1>6. \A i \in Place : shift[i] # 1 /\ entKey'[ll'[shift[i]]] = KeyAt(i)
      BY DEF KeyAt
<1>7. \A i, j \in Place : shift[i] < shift[j] <=> i < j
      OBVIOUS
<1> HIDE DEF Place, shift
<1> QED
  <2>1. GoesFirst(k, S, Place, shift)
        BY <1>2, <1>3, <1>4, <1>5, <1>6, <1>7 DEF GoesFirst
  <2> QED
      BY <2>1, FrontIsUsed

LEMMA NextLru == CacheInv /\ CacheInv' /\ [CacheNext]_cacheVars => [Lru!Next]_<<HeldTypes, UsedAfter>>
<1> SUFFICES ASSUME CacheInv, CacheInv', [CacheNext]_cacheVars
             PROVE  Lru!Next \/ (HeldTypes' = HeldTypes /\ UsedAfter' = UsedAfter)
    OBVIOUS
<1>1. ASSUME NEW k \in Key, GetHit(k) PROVE Lru!Hit(k)
  <2>1. k \in DOMAIN cache /\ UsedAfter' = Lru!Used(k, DOMAIN cache)
        BY <1>1, MoveIsUse DEF GetHit, Has
  <2>2. HeldTypes' = HeldTypes
        BY <1>1 DEF GetHit, HeldTypes
  <2> QED
      BY <2>1, <2>2, HeldDomain DEF Lru!Hit, Lru!Held
<1>2. ASSUME UNCHANGED cacheVars PROVE HeldTypes' = HeldTypes /\ UsedAfter' = UsedAfter
      BY <1>2 DEF cacheVars, HeldTypes, UsedAfter
<1>3. ASSUME NEW k \in Key, NEW v \in RecordType, PutReplaces(k, v) PROVE Lru!Replace(k)
  <2>1. k \in DOMAIN cache /\ UsedAfter' = Lru!Used(k, DOMAIN cache)
        BY <1>3, MoveIsUse DEF PutReplaces, Has
  <2>2. \A j \in DOMAIN cache : cache[j] \in Element /\ (cache[j] = cache[k] => j = k)
        BY <2>1 DEF CacheInv, CacheTypeOK, ListMatchesMap
  <2>3. Lru!Keep(DOMAIN cache, k, v)
    <3>1. cache' = cache /\ entValue' = [entValue EXCEPT ![cache[k]] = v]
          BY <1>3 DEF PutReplaces
    <3>2. \A j \in DOMAIN cache :
            entValue'[cache[j]] = IF j = k THEN v ELSE entValue[cache[j]]
          BY <2>1, <2>2, <3>1 DEF CacheInv, CacheTypeOK
    <3>3. (DOMAIN cache) \cup {k} = DOMAIN cache
          BY <2>1
    <3> QED
        BY <3>1, <3>2, <3>3 DEF HeldTypes, Lru!Keep
  <2> QED
      BY <2>1, <2>3, HeldDomain DEF Lru!Replace, Lru!Held
<1>4. ASSUME NEW k \in Key, NEW v \in RecordType, PutInserts(k, v) PROVE Lru!Insert(k)
  <2> DEFINE n == Len(ll)
  <2>1. PICK e \in Element \ Range(ll) :
          /\ ll' = Inserted(e)
          /\ cache' = Mapped(DOMAIN cache, k, e)
          /\ entKey' = [entKey EXCEPT ![e] = k]
          /\ entValue' = [entValue EXCEPT ![e] = v]
        BY <1>4 DEF PutInserts, Inserted
  <2>2. n \in Nat /\ DOMAIN ll = 1 .. n /\ n < Capacity /\ k \notin DOMAIN cache
        BY <1>4 DEF CacheInv, CacheTypeOK, PutInserts, Has
  <2>3. /\ Len(ll') = n + 1 /\ ll'[1] = e
        /\ \A i \in 1 .. n : ll'[i + 1] = ll[i]
        BY <2>1, InsertedIsList
  <2>4. /\ entKey'[e] = k
        /\ \A i \in 1 .. n : entKey'[ll[i]] = entKey[ll[i]]
        BY <2>1, <2>2 DEF CacheInv, CacheTypeOK, Range
  <2>5. DOMAIN cache' = (DOMAIN cache) \cup {k}
        BY <2>1 DEF Mapped
  <2>6. /\ \A i \in 1 .. n : entKey[ll[i]] \in DOMAIN cache
        /\ \A j \in DOMAIN cache : \E i \in 1 .. n : j = entKey[ll[i]]
        BY <2>2, KeysOfList
  <2>7. UsedAfter' = Lru!Used(k, DOMAIN cache)
    <3> DEFINE S == DOMAIN cache
    <3>1. /\ \A i \in 1 .. n : entKey[ll[i]] \in S
          /\ \A j \in S : \E i \in 1 .. n : j = entKey[ll[i]]
          BY <2>6
    <3>2. n <= Len(ll) /\ DOMAIN cache' = S \cup {k}
          BY <2>2, <2>5
    <3>3. entKey'[ll'[1]] = k
          BY <2>3, <2>4
    <3>4. \A i \in 1 .. n : ll'[i + 1] = ll[i] /\ entKey'[ll[i]] = entKey[ll[i]]
          BY <2>3, <2>4
    <3> HIDE DEF n, S
    <3>5. UsedAfter' = Lru!Used(k, S)
      <4>1. KeptAfter(k, n, S)
            BY <2>2, <2>3, <3>1, <3>2, <3>3, <3>4 DEF KeptAfter
      <4> QED
          BY <4>1, PutIsUse
    <3> QED
        BY <3>5 DEF S
  <2>8. \A j \in DOMAIN cache : cache[j] \in Element /\ cache[j] # e
        BY DEF CacheInv, CacheTypeOK, ListMatchesMap
  <2>9. Lru!Keep(DOMAIN cache, k, v)
        BY <2>1, <2>2, <2>8 DEF Mapped, HeldTypes, Lru!Keep, CacheInv, CacheTypeOK
  <2>10. Cardinality(DOMAIN cache) < Capacity
        BY <2>2, HeldIsFinite
  <2> QED
      BY <2>2, <2>7, <2>9, <2>10, HeldDomain, SameCardinality DEF Lru!Insert, Lru!Held
<1>5. ASSUME NEW k \in Key, NEW v \in RecordType, PutEvicts(k, v)
      PROVE  \E l \in DOMAIN cache : Lru!Evict(k, l)
  <2> DEFINE n == Len(ll) - 1
             lru == ll[Len(ll)]
             l == entKey[lru]
  <2>1. PICK e \in Element \ Range(ll) :
          /\ ll' = Replaced(e)
          /\ cache' = Mapped(Staying(lru), k, e)
          /\ entKey' = [entKey EXCEPT ![e] = k, ![lru] = None]
          /\ entValue' = [entValue EXCEPT ![e] = v, ![lru] = None]
        BY <1>5 DEF PutEvicts, Replaced
  <2>2. /\ n \in Nat /\ Len(ll) = n + 1 /\ DOMAIN ll = 1 .. n + 1 /\ Len(ll) = Capacity
        /\ k \notin DOMAIN cache
        BY <1>5, CapacityIsPositive DEF CacheInv, CacheTypeOK, ListMatchesMap, PutEvicts, Has
  <2>3. /\ Len(ll') = n + 1 /\ ll'[1] = e
        /\ \A i \in 1 .. n : ll'[i + 1] = ll[i]
    <3>1. ll # << >>
          BY <2>2
    <3> QED
        BY <2>1, <2>2, <3>1, ReplacedIsList
  <2>4. /\ lru \in Element /\ lru # e
        /\ \A i \in 1 .. n : ll[i] \in Element /\ ll[i] # e /\ ll[i] # lru
        BY <2>2 DEF CacheInv, CacheTypeOK, ListMatchesMap, IsInjective, Range
  <2>5. /\ entKey'[e] = k
        /\ \A i \in 1 .. n : entKey'[ll[i]] = entKey[ll[i]]
        BY <2>1, <2>4 DEF CacheInv, CacheTypeOK
  <2>6. Staying(lru) = (DOMAIN cache) \ {l} /\ l \in DOMAIN cache /\ cache[l] = lru
        BY <2>2 DEF Staying, CacheInv, ListMatchesMap, Has
  <2>7. /\ \A i \in 1 .. n : entKey[ll[i]] \in (DOMAIN cache) \ {l}
        /\ \A j \in (DOMAIN cache) \ {l} : \E i \in 1 .. n : j = entKey[ll[i]]
    <3>1. \A i \in 1 .. n : entKey[ll[i]] \in DOMAIN cache /\ cache[entKey[ll[i]]] = ll[i]
          BY <2>2 DEF CacheInv, ListMatchesMap, Has
    <3>2. \A j \in DOMAIN cache : \E i \in 1 .. n + 1 : j = entKey[ll[i]]
          BY <2>2, KeysOfList
    <3> QED
        BY <2>2, <2>4, <2>6, <3>1, <3>2
  <2>8. DOMAIN cache' = ((DOMAIN cache) \ {l}) \cup {k}
        BY <2>1, <2>6 DEF Mapped
  <2>9. UsedAfter' = Lru!Used(k, (DOMAIN cache) \ {l})
    <3>1. n <= Len(ll)
          BY <2>2
    <3> HIDE DEF l, lru, n
    <3> QED
      <4>1. KeptAfter(k, n, (DOMAIN cache) \ {l})
            BY <2>2, <2>3, <2>5, <2>7, <2>8, <3>1 DEF KeptAfter
      <4> QED
          BY <4>1, PutIsUse
  <2>10. \A j \in (DOMAIN cache) \ {l} : cache[j] \in Element /\ cache[j] # e /\ cache[j] # lru
        BY <2>6 DEF CacheInv, CacheTypeOK, ListMatchesMap
  <2>11. Lru!Keep((DOMAIN cache) \ {l}, k, v)
        BY <2>1, <2>2, <2>4, <2>6, <2>10 DEF Mapped, HeldTypes, Lru!Keep, CacheInv, CacheTypeOK
  <2>12. Lru!Oldest(l)
    <3>1. OrderByPlace
          BY UsedAfterByPlace
    <3>2. \A m \in (DOMAIN cache) \ {l} : <<m, l>> \in UsedAfter
      <4> TAKE m \in (DOMAIN cache) \ {l}
      <4>1. PICK i \in 1 .. n : m = entKey[ll[i]]
            BY <2>7
      <4>2. i \in DOMAIN ll /\ n + 1 \in DOMAIN ll /\ i < n + 1
            BY <2>2
      <4> QED
          BY <2>2, <3>1, <4>1, <4>2 DEF OrderByPlace, KeyAt
    <3> QED
        BY <2>6, <3>2, HeldDomain DEF Lru!Oldest, Lru!Held
  <2>13. Cardinality(DOMAIN cache) = Capacity
        BY <2>2, HeldIsFinite
  <2>14. l \in DOMAIN cache
        BY <2>6
  <2> HIDE DEF l
  <2>15. Lru!Evict(k, l)
        BY <2>2, <2>9, <2>11, <2>12, <2>13, HeldDomain, SameCardinality DEF Lru!Evict, Lru!Held
  <2> QED
      BY <2>14, <2>15
<1> QED
    BY <1>1, <1>2, <1>3, <1>4, <1>5, HeldDomain DEF CacheNext, Put, GetMiss, Lru!Next, Lru!Held

\* Whatever is asked of it, the cache forgets the key that was used longest ago,
\* and no other.
THEOREM CacheIsLru == CacheSpec => ImplementsLru
BY InitLru, NextLru, SpecCacheInv, PTL DEF CacheSpec, ImplementsLru, Lru!Spec
=============================================================================
