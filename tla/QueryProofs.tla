------------------------------ MODULE QueryProofs ------------------------------
(***************************************************************************)
(* Proofs about dbQuery: what its calls do to the cache is what the cache  *)
(* is made for, so what is proved of the cache holds here, and no call     *)
(* reads its rows into a type that was detected for somebody else.         *)
(***************************************************************************)
EXTENDS QueryService, CacheProofs

-----------------------------------------------------------------------------
(* Namespaces.                                                                *)

LEMMA SameNamespaceSameHolder ==
  ASSUME NEW p \in Policy, p.oauth, NEW c \in Credential, NEW d \in Credential,
         NamespaceOf(p, c) = NamespaceOf(p, d)
  PROVE  Holder[c] = Holder[d]
<1>1. c # Absent /\ d # Absent
      BY AuthAssumption
<1>2. c.value = d.value \/ (SubjectOrEmail(c) = SubjectOrEmail(d) /\ SubjectOrEmail(c) # Absent)
      BY <1>1 DEF NamespaceOf, Digest
<1> QED
    BY <1>2, QueryAssumption

\* Namespaces are people: no two of them share one, and nobody gets a second one
\* by writing the same token in another way, or by refreshing an ID token.
LEMMA NamespacesFollowHolders == policy \in Policy => NamespaceByIdentity
<1> SUFFICES ASSUME policy \in Policy, policy.oauth, NEW c \in Credential, NEW d \in Credential
             PROVE  /\ NamespaceOf(policy, c) = NamespaceOf(policy, d) => Holder[c] = Holder[d]
                    /\ \/ c.value = d.value
                       \/ policy.idToken /\ c.email = d.email /\ c.sub = d.sub
                                         /\ SubjectOrEmail(c) # Absent
                       => NamespaceOf(policy, c) = NamespaceOf(policy, d)
    BY DEF NamespaceByIdentity
<1>1. NamespaceOf(policy, c) = NamespaceOf(policy, d) => Holder[c] = Holder[d]
      BY SameNamespaceSameHolder
<1>2. c # Absent /\ d # Absent
      BY AuthAssumption
<1>3. policy.idToken /\ c.email = d.email /\ c.sub = d.sub /\ SubjectOrEmail(c) # Absent
      => NamespaceOf(policy, c) = NamespaceOf(policy, d)
      BY <1>2 DEF NamespaceOf, SubjectOrEmail
<1>4. c.value = d.value => NamespaceOf(policy, c) = NamespaceOf(policy, d)
  <2>1. c.value = d.value => SubjectOrEmail(c) = SubjectOrEmail(d) /\ Digest(c) = Digest(d)
        BY AuthAssumption DEF SubjectOrEmail, Digest
  <2> QED
      BY <1>2, <2>1 DEF NamespaceOf
<1> QED
    BY <1>1, <1>3, <1>4

-----------------------------------------------------------------------------
(* What a call has by the time it asks the cache, and the cache with it.      *)

Steps == {"idle", "get", "detect", "put", "read"}

CallInv ==
  /\ policy \in Policy
  /\ step \in [QueryCall -> Steps]
  /\ cred \in [QueryCall -> Session \cup {Absent}]
  /\ con \in [QueryCall -> Connector \cup {None}]
  /\ stmt \in [QueryCall -> Statement \cup {None}]
  /\ type \in [QueryCall -> RecordType \cup {None}]
  /\ \A q \in QueryCall :
       /\ step[q] # "idle" => con[q] \in Connector /\ stmt[q] \in Statement
                              /\ con[q].ns = NamespaceOf(policy, cred[q])
                              /\ NamespaceOf(policy, cred[q]) # Absent
       /\ step[q] = "put" => type[q] \in RecordType
       /\ step[q] \in {"idle", "get", "detect"} => type[q] = None

LEMMA InitCallInv == Init => CallInv
BY DEF Init, CallInv, Steps

LEMMA KeyIsKey ==
  ASSUME CallInv, NEW q \in QueryCall, step[q] # "idle"
  PROVE  KeyOf(q) \in Key /\ KeyOf(q).ns = NamespaceOf(policy, cred[q])
<1>1. NamespaceOf(policy, cred[q]) \in DerivedNs
      BY QueryAssumption DEF CallInv, DerivedNs
<1>2. /\ StatementText(stmt[q]) \in {StatementText(s) : s \in Statement}
      /\ con[q].name \in {c.name : c \in Connector}
      BY DEF CallInv
<1> QED
    BY <1>1, <1>2, CachedAssumption DEF KeyOf, CacheKey

LEMMA NextCallInv == CacheInv /\ CallInv /\ [Next]_vars => CallInv'
<1> SUFFICES ASSUME CacheInv, CallInv, [Next]_vars PROVE CallInv'
    OBVIOUS
<1> USE DEF CallInv, Steps, Goto, Return
<1>1. ASSUME NEW q \in QueryCall, NEW cr \in Session \cup {Absent}, NEW n \in Connector,
             NEW s \in Statement, Connect(q, cr, n, s)
      PROVE  CallInv'
      BY <1>1, QueryAssumption DEF Connect, DerivedNs
<1>2. ASSUME NEW q \in QueryCall, TypeCached(q) PROVE CallInv'
  <2>1. Value(KeyOf(q)) \in RecordType \cup {None}
        BY <1>2 DEF TypeCached, GetHit, Has, Value, CacheInv, CacheTypeOK
  <2> QED
      BY <1>2, <2>1 DEF TypeCached
<1>3. ASSUME NEW q \in QueryCall, TypeMissing(q) PROVE CallInv'
      BY <1>3 DEF TypeMissing
<1>4. ASSUME NEW q \in QueryCall, DetectColumns(q) PROVE CallInv'
      BY <1>4, CachedAssumption DEF DetectColumns
<1>5. ASSUME NEW q \in QueryCall, DetectFails(q) PROVE CallInv'
      BY <1>5 DEF DetectFails
<1>6. ASSUME NEW q \in QueryCall, StoreType(q) PROVE CallInv'
      BY <1>6 DEF StoreType
<1>7. ASSUME NEW q \in QueryCall, ReadRows(q) PROVE CallInv'
      BY <1>7 DEF ReadRows
<1>8. CASE UNCHANGED vars
      BY <1>8 DEF vars, callVars
<1> QED
    BY <1>1, <1>2, <1>3, <1>4, <1>5, <1>6, <1>7, <1>8 DEF Next

-----------------------------------------------------------------------------
(* A step of a call is one of the cache, or none.                             *)

LEMMA NextIsCacheNext == CallInv /\ [Next]_vars => [CacheNext]_cacheVars
<1> SUFFICES ASSUME CallInv, Next PROVE CacheNext \/ UNCHANGED cacheVars
    BY DEF vars
<1>1. ASSUME NEW q \in QueryCall, TypeCached(q) PROVE CacheNext
      BY <1>1, KeyIsKey DEF TypeCached, CacheNext
<1>2. ASSUME NEW q \in QueryCall, TypeMissing(q) PROVE CacheNext
      BY <1>2, KeyIsKey DEF TypeMissing, CacheNext
<1>3. ASSUME NEW q \in QueryCall, StoreType(q) PROVE CacheNext
  <2>1. KeyOf(q) \in Key /\ type[q] \in RecordType /\ Put(KeyOf(q), type[q])
        BY <1>3, KeyIsKey DEF StoreType, CallInv
  <2> QED
      BY <2>1 DEF CacheNext
<1> QED
    BY <1>1, <1>2, <1>3 DEF Next, Connect, DetectColumns, DetectFails, ReadRows

LEMMA SpecCallInv == Spec => [](CacheInv /\ CallInv)
<1>1. Init => CacheInv /\ CallInv
      BY InitCacheInv, InitCallInv DEF Init
<1>2. CacheInv /\ CallInv /\ [Next]_vars => (CacheInv /\ CallInv)'
      BY NextCacheInv, NextCallInv, NextIsCacheNext
<1> QED
    BY <1>1, <1>2, PTL DEF Spec

\* The types of dbQuery's state hold, those of its cache included.
THEOREM QueryTypeCorrect == Spec => []TypeOK
<1>1. CacheInv /\ CallInv => TypeOK
      BY DEF CacheInv, CallInv, Steps, TypeOK
<1> QED
    BY <1>1, SpecCallInv, PTL

\* With an identity provider a namespace is a person, whatever the tokens look like.
THEOREM NamespacesAreIdentities == Spec => []NamespaceByIdentity
<1>1. CallInv => NamespaceByIdentity
      BY NamespacesFollowHolders DEF CallInv
<1> QED
    BY <1>1, SpecCallInv, PTL

\* Concurrent calls of a session use their cache as an LRU cache.
THEOREM QueryUsesLru == Spec => ImplementsLru
<1>1. Init => CacheInit
      BY DEF Init
<1>2. Spec => CacheSpec
      BY <1>1, NextIsCacheNext, SpecCallInv, PTL DEF Spec, CacheSpec
<1> QED
    BY <1>2, CacheIsLru

-----------------------------------------------------------------------------
(* Where a type comes from: some call of the same namespace, connector and    *)
(* text has detected it, whether it has come by way of the cache or not.      *)

Origin(v, ns, n, text) ==
  \E cr \in Session \cup {Absent}, c \in Connector, s \in Statement :
    /\ NamespaceOf(policy, cr) = ns
    /\ c.ns = ns /\ c.name = n
    /\ StatementText(s) = text
    /\ v = DetectedType(cr, c, s)

OriginInv ==
  /\ \A q \in QueryCall :
       type[q] # None => Origin(type[q], KeyOf(q).ns, KeyOf(q).con, KeyOf(q).text)
  /\ \A k \in DOMAIN HeldTypes : Origin(HeldTypes[k], k.ns, k.con, k.text)

LEMMA InitOriginInv == Init => OriginInv
BY DEF Init, CacheInit, OriginInv, HeldTypes

\* A step of the cache puts a type for one key, and leaves or drops the others.
LEMMA OthersStay ==
  ASSUME CacheInv, NEW k \in Key, NEW v \in RecordType, Put(k, v)
  PROVE  \A j \in DOMAIN HeldTypes' :
           \/ j = k /\ HeldTypes'[j] = v
           \/ j \in DOMAIN HeldTypes /\ HeldTypes'[j] = HeldTypes[j]
<1>1. \A j \in DOMAIN cache : cache[j] \in Element /\ cache[j] \in Range(ll) /\ entKey[cache[j]] = j
      BY DEF CacheInv, CacheTypeOK, ListMatchesMap
<1>2. CASE PutReplaces(k, v)
      BY <1>1, <1>2 DEF PutReplaces, HeldTypes, CacheInv, CacheTypeOK, Has
<1>3. CASE PutInserts(k, v)
      BY <1>1, <1>3 DEF PutInserts, Mapped, HeldTypes, CacheInv, CacheTypeOK, Has
<1>4. CASE PutEvicts(k, v)
      BY <1>1, <1>4 DEF PutEvicts, Mapped, Staying, HeldTypes, CacheInv, CacheTypeOK, Has
<1> QED
    BY <1>2, <1>3, <1>4 DEF Put

LEMMA NextOriginInv == CacheInv /\ CallInv /\ OriginInv /\ [Next]_vars => OriginInv'
<1> SUFFICES ASSUME CacheInv, CallInv, OriginInv, [Next]_vars PROVE OriginInv'
    OBVIOUS
<1>1. policy' = policy
      BY DEF Next, vars, Connect, TypeCached, TypeMissing, DetectColumns, DetectFails,
             StoreType, ReadRows, Return
<1>2. ASSUME NEW v, NEW ns, NEW n, NEW text, Origin(v, ns, n, text)
      PROVE  Origin(v, ns, n, text)'
      BY <1>1, <1>2 DEF Origin
<1>3. ASSUME UNCHANGED cacheVars PROVE HeldTypes' = HeldTypes
      BY <1>3 DEF cacheVars, HeldTypes
<1> DEFINE Fits(q) == type[q] # None => Origin(type[q], KeyOf(q).ns, KeyOf(q).con, KeyOf(q).text)
           Holds   == \A k \in DOMAIN HeldTypes : Origin(HeldTypes[k], k.ns, k.con, k.text)
<1>4. ASSUME HeldTypes' = HeldTypes PROVE Holds'
      BY <1>2, <1>4 DEF OriginInv
<1>5. ASSUME NEW q \in QueryCall, UNCHANGED <<policy, cred[q], con[q], stmt[q], type[q]>>
      PROVE  Fits(q)'
      BY <1>2, <1>5 DEF OriginInv, KeyOf, CacheKey
<1>6. ASSUME \A q \in QueryCall : Fits(q)', Holds' PROVE OriginInv'
      BY <1>6 DEF OriginInv
<1> HIDE DEF Fits, Holds
<1>7. ASSUME NEW q \in QueryCall, \A o \in QueryCall \ {q} : UNCHANGED <<cred[o], con[o], stmt[o], type[o]>>,
             Fits(q)', Holds'
      PROVE  OriginInv'
      BY <1>1, <1>5, <1>6, <1>7
<1>8. ASSUME NEW q \in QueryCall, type'[q] = None PROVE Fits(q)'
      BY <1>8 DEF Fits
<1>9. ASSUME NEW q \in QueryCall, NEW cr \in Session \cup {Absent}, NEW n \in Connector,
             NEW s \in Statement, Connect(q, cr, n, s)
      PROVE  OriginInv'
  <2>1. \A o \in QueryCall \ {q} : UNCHANGED <<cred[o], con[o], stmt[o], type[o]>>
        BY <1>9 DEF Connect, CallInv
  <2>2. type'[q] = None
        BY <1>9 DEF Connect, CallInv
  <2> QED
      BY <1>3, <1>4, <1>7, <1>8, <1>9, <2>1, <2>2 DEF Connect
<1>10. ASSUME NEW q \in QueryCall, TypeCached(q) PROVE OriginInv'
  <2>1. /\ KeyOf(q) \in DOMAIN HeldTypes /\ HeldTypes' = HeldTypes
        /\ type' = [type EXCEPT ![q] = HeldTypes[KeyOf(q)]]
        BY <1>10 DEF TypeCached, GetHit, Has, Value, HeldTypes
  <2>2. UNCHANGED <<policy, cred, con, stmt>>
        BY <1>10 DEF TypeCached
  <2>3. KeyOf(q)' = KeyOf(q)
        BY <2>2 DEF KeyOf, CacheKey
  <2>4. type'[q] = HeldTypes[KeyOf(q)]
        BY <2>1 DEF CallInv
  <2>5. Origin(type'[q], KeyOf(q).ns, KeyOf(q).con, KeyOf(q).text)
        BY <2>1, <2>3, <2>4 DEF OriginInv
  <2>6. Origin(type[q], KeyOf(q).ns, KeyOf(q).con, KeyOf(q).text)'
        BY <1>2, <2>2, <2>3, <2>5 DEF Origin
  <2>7. Fits(q)'
        BY <2>6 DEF Fits
  <2>8. \A o \in QueryCall \ {q} : UNCHANGED <<cred[o], con[o], stmt[o], type[o]>>
        BY <2>1, <2>2 DEF CallInv
  <2> QED
      BY <1>4, <1>7, <2>1, <2>7, <2>8
<1>11. ASSUME NEW q \in QueryCall, TypeMissing(q) PROVE OriginInv'
      BY <1>3, <1>4, <1>5, <1>6, <1>11 DEF TypeMissing, GetMiss
<1>12. ASSUME NEW q \in QueryCall, DetectColumns(q) PROVE OriginInv'
  <2>1. /\ cred[q] \in Session \cup {Absent} /\ con[q] \in Connector /\ stmt[q] \in Statement
        /\ con[q].ns = NamespaceOf(policy, cred[q])
        /\ type'[q] = DetectedType(cred[q], con[q], stmt[q])
        BY <1>12 DEF DetectColumns, CallInv
  <2>2. UNCHANGED <<policy, cred, con, stmt>>
        BY <1>12 DEF DetectColumns
  <2>3. Origin(type[q], KeyOf(q).ns, KeyOf(q).con, KeyOf(q).text)'
        BY <2>1, <2>2 DEF Origin, KeyOf, CacheKey
  <2>4. \A o \in QueryCall \ {q} : UNCHANGED <<cred[o], con[o], stmt[o], type[o]>>
        BY <1>12, <2>2 DEF DetectColumns, CallInv
  <2> QED
      BY <1>3, <1>4, <1>7, <1>12, <2>3, <2>4 DEF DetectColumns, Fits
<1>13. ASSUME NEW q \in QueryCall, DetectFails(q) \/ ReadRows(q) PROVE OriginInv'
  <2>1. \A o \in QueryCall \ {q} : UNCHANGED <<cred[o], con[o], stmt[o], type[o]>>
        BY <1>13 DEF DetectFails, ReadRows, Return, CallInv
  <2>2. type'[q] = None
        BY <1>13 DEF DetectFails, ReadRows, Return, CallInv
  <2> QED
      BY <1>3, <1>4, <1>7, <1>8, <1>13, <2>1, <2>2 DEF DetectFails, ReadRows
<1>14. ASSUME NEW q \in QueryCall, StoreType(q) PROVE OriginInv'
  <2> DEFINE k == KeyOf(q)
             v == type[q]
  <2>1. k \in Key /\ v \in RecordType /\ Put(k, v)
        BY <1>14, KeyIsKey DEF StoreType, CallInv, KeyOf, CacheKey
  <2>2. Origin(v, k.ns, k.con, k.text)
        BY <2>1, CacheAssumption DEF OriginInv
  <2> HIDE DEF k, v
  <2>3. \A j \in DOMAIN HeldTypes' :
           \/ j = k /\ HeldTypes'[j] = v
           \/ j \in DOMAIN HeldTypes /\ HeldTypes'[j] = HeldTypes[j]
        BY <2>1, OthersStay
  <2>4. \A j \in DOMAIN HeldTypes' : Origin(HeldTypes'[j], j.ns, j.con, j.text)
        BY <2>2, <2>3 DEF OriginInv
  <2>5. \A j \in DOMAIN HeldTypes' : Origin(HeldTypes[j], j.ns, j.con, j.text)'
        BY <1>1, <2>4 DEF Origin
  <2>6. Holds'
        BY <2>5 DEF Holds
  <2> QED
      BY <1>5, <1>6, <1>14, <2>6 DEF StoreType
<1>15. CASE UNCHANGED vars
      BY <1>3, <1>4, <1>5, <1>6, <1>15 DEF vars, callVars
<1> QED
    BY <1>9, <1>10, <1>11, <1>12, <1>13, <1>14, <1>15 DEF Next

LEMMA SpecOriginInv == Spec => []OriginInv
BY InitOriginInv, NextOriginInv, SpecCallInv, PTL DEF Spec

\* With an identity provider, no call ever reads its rows into a type that was
\* detected with another person's connection.
THEOREM NoTypeBleeds == Spec => []NoCrossUserBleed
<1>1. CallInv /\ OriginInv => NoCrossUserBleed
  <2> SUFFICES ASSUME CallInv, OriginInv, policy.oauth,
                      NEW q \in QueryCall, type[q] # None, cred[q] # Absent
               PROVE  type[q].by = Holder[cred[q]]
      BY DEF NoCrossUserBleed
  <2>1. step[q] # "idle" /\ cred[q] \in Session
        BY DEF CallInv
  <2>2. KeyOf(q).ns = NamespaceOf(policy, cred[q]) /\ KeyOf(q).ns # Absent
        BY <2>1 DEF CallInv, KeyOf, CacheKey
  <2>3. PICK cr \in Session \cup {Absent}, c \in Connector, s \in Statement :
          /\ NamespaceOf(policy, cr) = KeyOf(q).ns
          /\ type[q] = DetectedType(cr, c, s)
        BY DEF OriginInv, Origin
  <2>4. cr \in Session /\ type[q].by = Holder[cr]
        BY <2>2, <2>3 DEF NamespaceOf, DetectedType
  <2>5. cr \in Credential /\ cred[q] \in Credential /\ policy \in Policy
        BY <2>1, <2>4, QueryAssumption DEF CallInv
  <2>6. Holder[cr] = Holder[cred[q]]
        BY <2>2, <2>3, <2>5, SameNamespaceSameHolder
  <2> QED
      BY <2>4, <2>6
<1> QED
    BY <1>1, SpecCallInv, SpecOriginInv, PTL

-----------------------------------------------------------------------------
(* The type fits the statement, where the key tells apart what has different  *)
(* answers.                                                                   *)

\* One name stands for one database in its namespace, as long as the session lasts.
OneNameOneDatabase ==
  \A c, d \in Connector : c.ns = d.ns /\ c.name = d.name => Result[c] = Result[d]

\* Statements that come to the same text in the key, by whatever way, have the same
\* columns in their answers.
KeysTellApart ==
  \A c \in Connector, s, t \in Statement :
    StatementText(s) = StatementText(t) => Result[c][s] = Result[c][t]

\* Whichever call has detected it, the type a call reads into has the columns of its
\* own statement on its own connector: only what the key does not tell apart can
\* meet in a type, and concurrent calls, evictions and changing tokens cannot.
THEOREM TypesFit ==
  ASSUME OneNameOneDatabase, KeysTellApart
  PROVE  Spec => []TypeFitsStatement
<1>1. CallInv /\ OriginInv => TypeFitsStatement
  <2> SUFFICES ASSUME CallInv, OriginInv, NEW q \in QueryCall, type[q] # None
               PROVE  type[q].tags = Result[con[q]][stmt[q]]
      BY DEF TypeFitsStatement
  <2>1. /\ con[q] \in Connector /\ stmt[q] \in Statement
        /\ con[q].ns = NamespaceOf(policy, cred[q])
        BY DEF CallInv
  <2>2. PICK cr \in Session \cup {Absent}, c \in Connector, s \in Statement :
          /\ c.ns = con[q].ns /\ c.name = con[q].name
          /\ StatementText(s) = StatementText(stmt[q])
          /\ type[q] = DetectedType(cr, c, s)
        BY <2>1 DEF OriginInv, Origin, KeyOf, CacheKey
  <2>3. type[q].tags = Result[c][s]
        BY <2>2 DEF DetectedType
  <2>4. Result[c] = Result[con[q]]
        BY <2>1, <2>2 DEF OneNameOneDatabase
  <2>5. Result[con[q]][s] = Result[con[q]][stmt[q]]
        BY <2>1, <2>2 DEF KeysTellApart
  <2> QED
      BY <2>3, <2>4, <2>5
<1> QED
    BY <1>1, SpecCallInv, SpecOriginInv, PTL
=============================================================================
