----------------------- MODULE MtpMetadataCacheProofs -----------------------
(***************************************************************************)
(* The metadata cache, for any ids, any values, any age limit and any      *)
(* clock bound: list and lookup table always agree, answers are recent,    *)
(* and the pair implements the map of MetadataCache.                       *)
(***************************************************************************)
EXTENDS MtpMetadataCache, TLAPS

IInv == /\ TypeOK
        /\ ListMatchesLookup
        /\ OldestFirst
        /\ StaleEntriesAreRecent
        /\ FillInProgress

-----------------------------------------------------------------------------
(* Dropping keys leaves the others as they were.                           *)
LEMMA DropProperties ==
  ASSUME NEW f, NEW K
  PROVE  /\ DOMAIN Drop(f, K) = DOMAIN f \ K
         /\ \A x \in DOMAIN f \ K : Drop(f, K)[x] = f[x]
BY DEF Drop

(* Putting a key changes that key only.                                    *)
LEMMA PutProperties ==
  ASSUME NEW f, NEW k, NEW v
  PROVE  /\ DOMAIN Put(f, k, v) = DOMAIN f \cup {k}
         /\ Put(f, k, v)[k] = v
         /\ \A x \in DOMAIN f : x # k => Put(f, k, v)[x] = f[x]
BY DEF Put

LEMMA DropIsMap ==
  ASSUME NEW f, NEW K, NEW S, NEW T, NEW T2, IsMap(f, S, T),
         \A x \in DOMAIN f \ K : f[x] \in T2
  PROVE  IsMap(Drop(f, K), S, T2)
BY DEF Drop, IsMap

LEMMA PutIsMap ==
  ASSUME NEW f, NEW S, NEW T, IsMap(f, S, T), NEW k \in S, NEW v \in T
  PROVE  IsMap(Put(f, k, v), S, T)
BY DEF Put, IsMap

LEMMA MapElements ==
  ASSUME NEW f, NEW S, NEW T, IsMap(f, S, T), NEW k \in DOMAIN f
  PROVE  k \in S /\ f[k] \in T
BY DEF IsMap

(* A map may be read as a map to a larger set, or from a larger set.       *)
LEMMA MapWiden ==
  ASSUME NEW f, NEW S, NEW T, NEW S2, NEW T2, IsMap(f, S, T),
         S \subseteq S2, \A x \in DOMAIN f : f[x] \in T2
  PROVE  IsMap(f, S2, T2)
BY DEF IsMap

-----------------------------------------------------------------------------
(* What dropping the same entries from the list and from the table keeps.  *)
LEMMA DropBoth ==
  ASSUME IInv, NEW K \in SUBSET DOMAIN m_cache,
         m_cache' = Drop(m_cache, K),
         m_cacheLookup' = Drop(m_cacheLookup, {m_cache[k].self : k \in K}),
         UNCHANGED <<env, serial>>
  PROVE  /\ IsMap(m_cache, 0 .. serial - 1, Entry)'
         /\ IsMap(m_cacheLookup, Ids, DOMAIN m_cache)'
         /\ ListMatchesLookup'
         /\ OldestFirst'
         /\ StaleEntriesAreRecent'
         /\ DOMAIN m_cacheLookup' \subseteq DOMAIN m_cacheLookup
<1> DEFINE L == {m_cache[k].self : k \in K}
<1>1. /\ DOMAIN m_cache' = DOMAIN m_cache \ K
      /\ \A k \in DOMAIN m_cache \ K : m_cache'[k] = m_cache[k]
      /\ DOMAIN m_cacheLookup' = DOMAIN m_cacheLookup \ L
      /\ \A i \in DOMAIN m_cacheLookup \ L : m_cacheLookup'[i] = m_cacheLookup[i]
  BY DropProperties
<1>2. IsMap(m_cache, 0 .. serial - 1, Entry)'
  <2>1. \A k \in DOMAIN m_cache \ K : m_cache[k] \in Entry
    BY DEF IInv, TypeOK, IsMap
  <2>2. IsMap(Drop(m_cache, K), 0 .. serial - 1, Entry)
    BY <2>1, DropIsMap DEF IInv, TypeOK
  <2> QED
    BY <2>2 DEF env, Entry
<1>3. ASSUME NEW i \in DOMAIN m_cacheLookup \ L
      PROVE  m_cacheLookup[i] \in DOMAIN m_cache \ K
  BY <1>3 DEF IInv, ListMatchesLookup
<1>4. IsMap(m_cacheLookup, Ids, DOMAIN m_cache)'
  <2>1. IsMap(Drop(m_cacheLookup, L), Ids, DOMAIN m_cache \ K)
    BY <1>3, DropIsMap DEF IInv, TypeOK
  <2> QED
    BY <1>1, <2>1
<1>5. ASSUME NEW k \in DOMAIN m_cache \ K
      PROVE  m_cache[k].self \in DOMAIN m_cacheLookup \ L
  BY <1>5 DEF IInv, ListMatchesLookup
<1>6. ListMatchesLookup'
  <2> HIDE DEF L
  <2>1. ASSUME NEW k \in DOMAIN m_cache'
        PROVE  m_cache'[k].self \in DOMAIN m_cacheLookup'
               /\ m_cacheLookup'[m_cache'[k].self] = k
    BY <1>1, <1>5 DEF IInv, ListMatchesLookup
  <2>2. ASSUME NEW i \in DOMAIN m_cacheLookup'
        PROVE  m_cacheLookup'[i] \in DOMAIN m_cache'
               /\ m_cache'[m_cacheLookup'[i]].self = i
    <3>1. i \in DOMAIN m_cacheLookup \ L /\ m_cacheLookup'[i] = m_cacheLookup[i]
      BY <1>1
    <3>2. m_cacheLookup[i] \in DOMAIN m_cache \ K
      BY <1>3, <3>1
    <3>3. m_cache'[m_cacheLookup[i]] = m_cache[m_cacheLookup[i]]
      BY <1>1, <3>2
    <3> QED
      BY <1>1, <3>1, <3>2, <3>3 DEF IInv, ListMatchesLookup
  <2> QED
    BY <2>1, <2>2 DEF ListMatchesLookup
<1>7. OldestFirst'
  BY <1>1 DEF IInv, OldestFirst
<1>8. StaleEntriesAreRecent'
  BY <1>1 DEF IInv, StaleEntriesAreRecent, env
<1> QED
  BY <1>1, <1>2, <1>4, <1>6, <1>7, <1>8
-----------------------------------------------------------------------------
(* getItem drops the entries clearOld finds, from the list and the table.  *)
LEMMA ClearOldDropsBoth ==
  ASSUME IInv
  PROVE  clearOld \in SUBSET DOMAIN m_cache
BY DEF clearOld

LEMMA EntryTypes ==
  ASSUME IInv, NEW k \in DOMAIN m_cache
  PROVE  /\ m_cache[k] \in Entry
         /\ m_cache[k].self \in Ids /\ m_cache[k].data \in Values
         /\ m_cache[k].when \in Nat /\ m_cache[k].when <= now
<1>1. m_cache[k] \in Entry
  BY DEF IInv, TypeOK, IsMap
<1> QED
  BY <1>1 DEF Entry, IInv, TypeOK

(* With the list in time order, clearOld misses no old entry: an entry it  *)
(* keeps is young.                                                         *)
LEMMA KeptAreYoung ==
  ASSUME IInv, NEW k \in DOMAIN m_cache \ clearOld
  PROVE  now - m_cache[k].when <= MaxAge
<1>1. PICK j \in DOMAIN m_cache : j <= k /\ ~(now - m_cache[j].when > MaxAge)
  BY DEF clearOld
<1>2. m_cache[j].when <= m_cache[k].when
  BY <1>1 DEF IInv, OldestFirst
<1>3. m_cache[j].when \in Nat /\ m_cache[k].when \in Nat
  BY EntryTypes
<1>4. now \in Nat /\ MaxAge \in Nat
  BY CacheAssumption DEF IInv, TypeOK
<1> QED
  BY <1>1, <1>2, <1>3, <1>4

(* An entry found after clearOld is one it kept.                           *)
LEMMA FoundIsKept ==
  ASSUME IInv, NEW id \in DOMAIN lookupAfter
  PROVE  /\ id \in DOMAIN m_cacheLookup
         /\ m_cacheLookup[id] \in DOMAIN m_cache \ clearOld
         /\ m_cache[m_cacheLookup[id]].self = id
<1>1. id \in DOMAIN m_cacheLookup /\ id \notin {m_cache[k].self : k \in clearOld}
  BY DEF lookupAfter, Drop
<1>2. m_cacheLookup[id] \in DOMAIN m_cache /\ m_cache[m_cacheLookup[id]].self = id
  BY <1>1 DEF IInv, ListMatchesLookup
<1> QED
  BY <1>1, <1>2

-----------------------------------------------------------------------------
LEMMA InitIInv == Init => IInv
<1> SUFFICES ASSUME Init PROVE IInv
  OBVIOUS
<1>1. DOMAIN EmptyMap = {}
  BY DEF EmptyMap
<1>2. IsMap(EmptyMap, 0 .. serial - 1, Entry) /\ IsMap(EmptyMap, Ids, DOMAIN m_cache)
  BY <1>1 DEF IsMap, EmptyMap
<1>3. TypeOK
  BY <1>2 DEF Init, TypeOK, Pending
<1> QED
  BY <1>1, <1>3 DEF Init, IInv, ListMatchesLookup, OldestFirst, StaleEntriesAreRecent,
                    FillInProgress, Idle

(* The steps of getItem that answer from memory or find nothing.           *)
LEMMA HitKeepsIInv ==
  ASSUME IInv, NEW id \in Ids, GetItemHit(id)
  PROVE  IInv'
<1>1. /\ m_cache' = Drop(m_cache, clearOld)
      /\ m_cacheLookup' = Drop(m_cacheLookup, {m_cache[k].self : k \in clearOld})
      /\ UNCHANGED <<env, serial>>
      /\ UNCHANGED asked /\ ~asked.busy
  BY DEF GetItemHit, cacheAfter, lookupAfter
<1>2. /\ IsMap(m_cache, 0 .. serial - 1, Entry)'
      /\ IsMap(m_cacheLookup, Ids, DOMAIN m_cache)'
      /\ ListMatchesLookup' /\ OldestFirst' /\ StaleEntriesAreRecent'
  BY <1>1, ClearOldDropsBoth, DropBoth
<1>3. FillInProgress'
  BY <1>1 DEF FillInProgress
<1>4. answer' \in [id : Ids, data : Values, age : 0 .. now']
  <2> DEFINE e == m_cache[m_cacheLookup[id]]
  <2>1. m_cacheLookup[id] \in DOMAIN m_cache
    BY FoundIsKept DEF GetItemHit
  <2>2. e.data \in Values /\ e.when \in Nat /\ e.when <= now
    BY <2>1, EntryTypes
  <2>3. now - e.when \in 0 .. now
    BY <2>2 DEF IInv, TypeOK
  <2>4. answer' = [id |-> id, data |-> e.data, age |-> now - e.when]
    BY DEF GetItemHit
  <2> QED
    BY <1>1, <2>2, <2>3, <2>4 DEF env
<1>5. TypeOK'
  BY <1>1, <1>2, <1>4 DEF IInv, TypeOK, Pending, env
<1> QED
  BY <1>2, <1>3, <1>5 DEF IInv

LEMMA MissKeepsIInv ==
  ASSUME IInv, NEW id \in Ids, GetItemMiss(id)
  PROVE  IInv'
<1>1. /\ m_cache' = Drop(m_cache, clearOld)
      /\ m_cacheLookup' = Drop(m_cacheLookup, {m_cache[k].self : k \in clearOld})
      /\ UNCHANGED <<env, serial, answer>>
      /\ asked' = Miss(id) /\ id \notin DOMAIN m_cacheLookup'
  BY DEF GetItemMiss, cacheAfter, lookupAfter
<1>2. /\ IsMap(m_cache, 0 .. serial - 1, Entry)'
      /\ IsMap(m_cacheLookup, Ids, DOMAIN m_cache)'
      /\ ListMatchesLookup' /\ OldestFirst' /\ StaleEntriesAreRecent'
  BY <1>1, ClearOldDropsBoth, DropBoth
<1>3. FillInProgress'
  BY <1>1, CacheAssumption DEF FillInProgress, Miss, env, IInv, TypeOK
<1>4. asked' \in Pending'
  BY <1>1 DEF Pending, Miss, env, IInv, TypeOK
<1>5. TypeOK'
  BY <1>1, <1>2, <1>4 DEF IInv, TypeOK, env
<1> QED
  BY <1>2, <1>3, <1>5 DEF IInv

LEMMA BusyPending ==
  ASSUME IInv, asked.busy
  PROVE  asked \in [busy : {TRUE}, id : Ids, since : 0 .. now,
                    read : {{}} \cup {{v} : v \in Values}]
<1>1. Idle.busy = FALSE
  BY DEF Idle
<1>2. asked # Idle
  BY <1>1
<1>3. asked \in Pending
  BY DEF IInv, TypeOK
<1> QED
  BY <1>2, <1>3 DEF Pending

(* source.getMetadata() changes neither the list nor the table.            *)
LEMMA GetMetadataKeepsIInv ==
  ASSUME IInv, GetMetadata
  PROVE  IInv'
<1>1. UNCHANGED <<truth, changed, now, m_cache, m_cacheLookup, serial, answer>>
  BY DEF GetMetadata, env, store
<1>2. asked \in [busy : {TRUE}, id : Ids, since : 0 .. now,
                 read : {{}} \cup {{v} : v \in Values}]
  BY BusyPending DEF GetMetadata
<1>3. /\ asked' = [asked EXCEPT !.read = {truth[asked.id]}]
      /\ truth[asked.id] \in Values
  BY <1>2 DEF GetMetadata, IInv, TypeOK
<1>4. asked' \in Pending'
  BY <1>1, <1>2, <1>3 DEF Pending
<1>5. asked'.busy /\ asked'.id = asked.id /\ asked'.since = asked.since
      /\ asked'.read = {truth[asked.id]}
  BY <1>2, <1>3
<1>6. FillInProgress'
  BY <1>1, <1>2, <1>5 DEF FillInProgress, IInv
<1>7. TypeOK'
  BY <1>1, <1>4 DEF IInv, TypeOK, Entry
<1> QED
  BY <1>1, <1>6, <1>7 DEF IInv, ListMatchesLookup, OldestFirst, StaleEntriesAreRecent

(* The new entry goes to the end of the list, with the latest time stamp,  *)
(* under an id the table does not hold.                                    *)
LEMMA InsertKeepsIInv ==
  ASSUME IInv, Insert
  PROVE  IInv'
<1>1. PICK v \in asked.read :
        /\ m_cache' = Put(m_cache, serial, [self |-> asked.id, data |-> v, when |-> now])
        /\ m_cacheLookup' = Put(m_cacheLookup, asked.id, serial)
        /\ answer' = [id |-> asked.id, data |-> v, age |-> 0]
  BY DEF Insert
<1>2. /\ asked.busy /\ asked' = Idle /\ serial' = serial + 1
      /\ UNCHANGED <<truth, changed, now>>
  BY DEF Insert, env
<1>3. asked.id \in Ids /\ asked.since \in 0 .. now /\ v \in Values
  BY <1>1, <1>2, BusyPending
<1> DEFINE e == [self |-> asked.id, data |-> v, when |-> now]
<1>4. now \in Nat /\ serial \in Nat /\ serial \in 0 .. serial' - 1
      /\ changed[asked.id] \in Nat
  BY <1>2, <1>3 DEF IInv, TypeOK
<1>5. e \in Entry /\ e.self = asked.id /\ e.data = v /\ e.when = now
  BY <1>3, <1>4 DEF Entry
<1>6. \A k \in DOMAIN m_cache : k \in 0 .. serial - 1 /\ k # serial /\ k < serial
  BY <1>4 DEF IInv, TypeOK, IsMap
<1>7. /\ DOMAIN m_cache' = DOMAIN m_cache \cup {serial}
      /\ m_cache'[serial] = e
      /\ \A k \in DOMAIN m_cache : m_cache'[k] = m_cache[k]
  BY <1>1, <1>6 DEF Put
<1>8. /\ DOMAIN m_cacheLookup' = DOMAIN m_cacheLookup \cup {asked.id}
      /\ m_cacheLookup'[asked.id] = serial
      /\ \A i \in DOMAIN m_cacheLookup : i # asked.id => m_cacheLookup'[i] = m_cacheLookup[i]
  BY <1>1 DEF Put
<1> HIDE DEF e
<1>9. asked.id \notin DOMAIN m_cacheLookup
  BY <1>2 DEF IInv, FillInProgress
<1>10. \A k \in DOMAIN m_cache : m_cache[k].self # asked.id
  BY <1>9 DEF IInv, ListMatchesLookup
<1>11. IsMap(m_cache, 0 .. serial - 1, Entry)'
  <2>1. IsMap(m_cache, 0 .. serial' - 1, Entry)
    <3>1. 0 .. serial - 1 \subseteq 0 .. serial' - 1
      BY <1>2, <1>4
    <3>2. IsMap(m_cache, 0 .. serial - 1, Entry)
      BY DEF IInv, TypeOK
    <3> QED
      BY <3>1, <3>2 DEF IsMap
  <2>2. IsMap(m_cache', 0 .. serial' - 1, Entry)
    BY <1>1, <1>4, <1>5, <2>1, PutIsMap DEF e
  <2> QED
    BY <1>2, <2>2 DEF Entry
<1>12. IsMap(m_cacheLookup, Ids, DOMAIN m_cache)'
  <2>1. IsMap(m_cacheLookup, Ids, DOMAIN m_cache')
    <3>1. \A i \in DOMAIN m_cacheLookup : m_cacheLookup[i] \in DOMAIN m_cache'
      BY <1>7 DEF IInv, ListMatchesLookup
    <3> QED
      BY <3>1, MapWiden DEF IInv, TypeOK
  <2> QED
    BY <1>1, <1>3, <1>7, <2>1, PutIsMap
<1>13. ListMatchesLookup'
  <2>1. ASSUME NEW k \in DOMAIN m_cache'
        PROVE  m_cache'[k].self \in DOMAIN m_cacheLookup'
               /\ m_cacheLookup'[m_cache'[k].self] = k
    <3>1. CASE k = serial
      BY <3>1, <1>5, <1>7, <1>8
    <3>2. CASE k \in DOMAIN m_cache
      BY <3>2, <1>7, <1>8, <1>10 DEF IInv, ListMatchesLookup
    <3> QED
      BY <3>1, <3>2, <1>7
  <2>2. ASSUME NEW i \in DOMAIN m_cacheLookup'
        PROVE  m_cacheLookup'[i] \in DOMAIN m_cache'
               /\ m_cache'[m_cacheLookup'[i]].self = i
    <3>1. CASE i = asked.id
      BY <3>1, <1>5, <1>7, <1>8
    <3>2. CASE i \in DOMAIN m_cacheLookup
      <4>1. m_cacheLookup'[i] = m_cacheLookup[i] /\ m_cacheLookup[i] \in DOMAIN m_cache
        BY <3>2, <1>8, <1>9 DEF IInv, ListMatchesLookup
      <4> QED
        BY <3>2, <4>1, <1>7 DEF IInv, ListMatchesLookup
    <3> QED
      BY <3>1, <3>2, <1>8
  <2> QED
    BY <2>1, <2>2 DEF ListMatchesLookup
<1>14. OldestFirst'
  <2> SUFFICES ASSUME NEW j \in DOMAIN m_cache', NEW k \in DOMAIN m_cache', j <= k
               PROVE  m_cache'[j].when <= m_cache'[k].when
    BY DEF OldestFirst
  <2>1. CASE k = serial
    BY <2>1, <1>4, <1>5, <1>7, EntryTypes
  <2>2. CASE k \in DOMAIN m_cache
    <3>1. j \in DOMAIN m_cache
      BY <2>2, <1>4, <1>6, <1>7
    <3> QED
      BY <2>2, <3>1, <1>7 DEF IInv, OldestFirst
  <2> QED
    BY <2>1, <2>2, <1>7
<1>15. StaleEntriesAreRecent'
  <2>1. v = truth[asked.id] \/ changed[asked.id] + MaxFetch >= now
    BY <1>1, <1>2, <1>3, <1>4, CacheAssumption DEF IInv, FillInProgress
  <2> SUFFICES ASSUME NEW k \in DOMAIN m_cache'
               PROVE  \/ m_cache'[k].data = truth[m_cache'[k].self]
                      \/ changed[m_cache'[k].self] + MaxFetch >= m_cache'[k].when
    BY <1>2 DEF StaleEntriesAreRecent
  <2>2. CASE k = serial
    BY <2>1, <2>2, <1>5, <1>7
  <2>3. CASE k \in DOMAIN m_cache
    BY <2>3, <1>7 DEF IInv, StaleEntriesAreRecent
  <2> QED
    BY <2>2, <2>3, <1>7
<1>16. TypeOK'
  <2>1. answer' \in [id : Ids, data : Values, age : 0 .. now']
    BY <1>1, <1>2, <1>3, <1>4
  <2> QED
    BY <2>1, <1>2, <1>4, <1>11, <1>12 DEF IInv, TypeOK, Pending
<1>17. FillInProgress'
  BY <1>2 DEF FillInProgress, Idle
<1> QED
  BY <1>13, <1>14, <1>15, <1>16, <1>17 DEF IInv

(* clearItem erases the one element the table has for the id.              *)
LEMMA ClearItemKeepsIInv ==
  ASSUME IInv, NEW id \in Ids, clearItem(id)
  PROVE  IInv'
<1> DEFINE K == {m_cacheLookup[i] : i \in {id} \cap DOMAIN m_cacheLookup}
<1>1. /\ m_cache' = Drop(m_cache, K)
      /\ m_cacheLookup' = Drop(m_cacheLookup, {id})
      /\ UNCHANGED <<env, serial, asked, answer>>
      /\ ~asked.busy
  BY DEF clearItem
<1>2. K \in SUBSET DOMAIN m_cache
  BY DEF IInv, ListMatchesLookup
<1>3. \A k \in K : m_cache[k].self = id
  BY DEF IInv, ListMatchesLookup
<1>4. m_cacheLookup' = Drop(m_cacheLookup, {m_cache[k].self : k \in K})
  <2>1. CASE id \in DOMAIN m_cacheLookup
    <3>1. {m_cache[k].self : k \in K} = {id}
      BY <2>1, <1>3
    <3> QED
      BY <3>1, <1>1
  <2>2. CASE id \notin DOMAIN m_cacheLookup
    <3>1. K = {}
      BY <2>2
    <3>2. {m_cache[k].self : k \in K} = {}
      BY <3>1
    <3>3. DOMAIN m_cacheLookup \ {id} = DOMAIN m_cacheLookup \ {}
      BY <2>2
    <3> QED
      BY <1>1, <3>2, <3>3 DEF Drop
  <2> QED
    BY <2>1, <2>2
<1> HIDE DEF K
<1>5. /\ IsMap(m_cache, 0 .. serial - 1, Entry)'
      /\ IsMap(m_cacheLookup, Ids, DOMAIN m_cache)'
      /\ ListMatchesLookup' /\ OldestFirst' /\ StaleEntriesAreRecent'
  BY <1>1, <1>2, <1>4, DropBoth
<1>6. FillInProgress'
  BY <1>1 DEF FillInProgress
<1>7. TypeOK'
  BY <1>1, <1>5 DEF IInv, TypeOK, Pending, env
<1> QED
  BY <1>5, <1>6, <1>7 DEF IInv

(* The device changes: what is held for the id is stale from now on.       *)
LEMMA ChangeKeepsIInv ==
  ASSUME IInv, NEW id \in Ids, NEW v \in Values, Change(id, v)
  PROVE  IInv'
<1>1. /\ truth' = [truth EXCEPT ![id] = v]
      /\ changed' = [changed EXCEPT ![id] = now]
      /\ UNCHANGED <<now, m_cache, m_cacheLookup, serial, asked, answer>>
  BY DEF Change, store
<1>2. /\ truth \in [Ids -> Values] /\ changed \in [Ids -> 0 .. now] /\ now \in Nat
      /\ MaxFetch \in Nat
  BY CacheAssumption DEF IInv, TypeOK
<1>3. truth' \in [Ids -> Values] /\ changed' \in [Ids -> 0 .. now]
  BY <1>1, <1>2
<1>4. TypeOK'
  BY <1>1, <1>3 DEF IInv, TypeOK, Entry, Pending
<1>5. ASSUME NEW k \in DOMAIN m_cache
      PROVE  \/ m_cache[k].data = truth'[m_cache[k].self]
             \/ changed'[m_cache[k].self] + MaxFetch >= m_cache[k].when
  <2>1. /\ m_cache[k].self \in Ids
        /\ m_cache[k].when \in Nat /\ m_cache[k].when <= now
    BY EntryTypes
  <2>2. CASE m_cache[k].self = id
    BY <1>1, <1>2, <2>1, <2>2
  <2>3. CASE m_cache[k].self # id
    BY <1>1, <1>2, <2>1, <2>3 DEF IInv, StaleEntriesAreRecent
  <2> QED
    BY <2>2, <2>3
<1>6. FillInProgress'
  <2> SUFFICES ASSUME asked.busy
               PROVE  \A w \in asked.read : \/ w = truth'[asked.id]
                                            \/ changed'[asked.id] >= asked.since
    BY <1>1 DEF IInv, FillInProgress
  <2>1. asked.id \in Ids /\ asked.since \in 0 .. now
    BY BusyPending
  <2>2. CASE asked.id = id
    BY <1>1, <1>2, <2>1, <2>2
  <2>3. CASE asked.id # id
    BY <1>1, <1>2, <2>1, <2>3 DEF IInv, FillInProgress
  <2> QED
    BY <2>2, <2>3
<1> QED
  BY <1>1, <1>4, <1>5, <1>6 DEF IInv, ListMatchesLookup, OldestFirst, StaleEntriesAreRecent

LEMMA TickKeepsIInv ==
  ASSUME IInv, Tick
  PROVE  IInv'
<1>1. /\ now' = now + 1
      /\ asked.busy => now - asked.since < MaxFetch
      /\ UNCHANGED <<truth, changed, m_cache, m_cacheLookup, serial, asked, answer>>
  BY DEF Tick, store
<1>2. now \in Nat /\ now' \in Nat /\ 0 .. now \subseteq 0 .. now'
  BY <1>1 DEF IInv, TypeOK
<1>3. changed' \in [Ids -> 0 .. now']
  BY <1>1, <1>2 DEF IInv, TypeOK
<1>4. IsMap(m_cache, 0 .. serial - 1, Entry)'
  <2>1. IsMap(m_cache, 0 .. serial - 1, Entry)
    BY DEF IInv, TypeOK
  <2>2. Entry \subseteq Entry'
    BY <1>2 DEF Entry
  <2> QED
    BY <1>1, <2>1, <2>2 DEF IsMap
<1>5. asked' \in Pending'
  BY <1>1, <1>2 DEF IInv, TypeOK, Pending
<1>6. answer' \in {NoAnswer} \cup [id : Ids, data : Values, age : 0 .. now']
  BY <1>1, <1>2 DEF IInv, TypeOK
<1>7. TypeOK'
  BY <1>1, <1>2, <1>3, <1>4, <1>5, <1>6 DEF IInv, TypeOK
<1>8. FillInProgress'
  <2> SUFFICES ASSUME asked.busy PROVE now' - asked.since <= MaxFetch
    BY <1>1 DEF IInv, FillInProgress
  <2>1. asked.since \in 0 .. now
    BY BusyPending
  <2> QED
    BY <1>1, <1>2, <2>1, CacheAssumption
<1> QED
  BY <1>1, <1>7, <1>8 DEF IInv, ListMatchesLookup, OldestFirst, StaleEntriesAreRecent

-----------------------------------------------------------------------------
LEMMA NextKeepsIInv == IInv /\ [Next]_vars => IInv'
<1> SUFFICES ASSUME IInv, [Next]_vars PROVE IInv'
  OBVIOUS
<1>1. CASE \E id \in Ids : GetItemHit(id)
  BY <1>1, HitKeepsIInv
<1>2. CASE \E id \in Ids : GetItemMiss(id)
  BY <1>2, MissKeepsIInv
<1>3. CASE \E id \in Ids : clearItem(id)
  BY <1>3, ClearItemKeepsIInv
<1>4. CASE \E id \in Ids, v \in Values : Change(id, v)
  BY <1>4, ChangeKeepsIInv
<1>5. CASE GetMetadata
  BY <1>5, GetMetadataKeepsIInv
<1>6. CASE Insert
  BY <1>6, InsertKeepsIInv
<1>7. CASE Tick
  BY <1>7, TickKeepsIInv
<1>8. CASE UNCHANGED vars
  BY <1>8 DEF vars, env, store, IInv, TypeOK, Entry, Pending, ListMatchesLookup, OldestFirst,
              StaleEntriesAreRecent, FillInProgress
<1> QED
  BY <1>1, <1>2, <1>3, <1>4, <1>5, <1>6, <1>7, <1>8 DEF Next

THEOREM Invariance == Spec => []IInv
<1> QED
  BY InitIInv, NextKeepsIInv, PTL DEF Spec

(* The types are kept.                                                     *)
THEOREM TypeCorrect == Spec => []TypeOK
<1>1. IInv => TypeOK
  BY DEF IInv
<1> QED
  BY <1>1, Invariance, PTL

(* The list and the lookup table always describe the same entries: no      *)
(* iterator dangles and clearOld always finds what it erases.              *)
THEOREM ListAndLookupAgree == Spec => []ListMatchesLookup
<1>1. IInv => ListMatchesLookup
  BY DEF IInv
<1> QED
  BY <1>1, Invariance, PTL

(* The list stays in the order of its time stamps, so clearOld may stop at *)
(* the first entry that is young.                                          *)
THEOREM ListInTimeOrder == Spec => []OldestFirst
<1>1. IInv => OldestFirst
  BY DEF IInv
<1> QED
  BY <1>1, Invariance, PTL

(* An entry that differs from what the device has was stamped no later     *)
(* than one read after the change.                                         *)
THEOREM StoredEntriesRecent == Spec => []StaleEntriesAreRecent
<1>1. IInv => StaleEntriesAreRecent
  BY DEF IInv
<1> QED
  BY <1>1, Invariance, PTL

(* While a node is being read, nothing is held for it and the read began   *)
(* no longer ago than a read takes.                                        *)
THEOREM FillIsTracked == Spec => []FillInProgress
<1>1. IInv => FillInProgress
  BY DEF IInv
<1> QED
  BY <1>1, Invariance, PTL

-----------------------------------------------------------------------------
(* The entry getItem answers with is young, and so is any change it does   *)
(* not show.                                                               *)
LEMMA AnswerIsRecent ==
  ASSUME IInv, [Next]_vars, answer' # answer
  PROVE  \/ answer'.data = truth'[answer'.id]
         \/ changed'[answer'.id] + MaxAge + MaxFetch >= now'
<1>1. now \in Nat /\ MaxAge \in Nat /\ MaxFetch \in Nat /\ changed \in [Ids -> 0 .. now]
  BY CacheAssumption DEF IInv, TypeOK
<1>2. CASE \E id \in Ids : GetItemHit(id)
  <2> PICK id \in Ids : GetItemHit(id)
    BY <1>2
  <2> DEFINE k == m_cacheLookup[id]
  <2>1. k \in DOMAIN m_cache \ clearOld /\ m_cache[k].self = id
    BY FoundIsKept DEF GetItemHit
  <2>2. m_cache[k].when \in Nat /\ now - m_cache[k].when <= MaxAge
    BY <2>1, KeptAreYoung, EntryTypes
  <2>3. m_cache[k].data = truth[id] \/ changed[id] + MaxFetch >= m_cache[k].when
    BY <2>1 DEF IInv, StaleEntriesAreRecent
  <2>4. answer'.data = m_cache[k].data /\ answer'.id = id /\ UNCHANGED <<truth, changed, now>>
    BY DEF GetItemHit, env
  <2>5. changed[id] \in Nat
    BY <1>1
  <2> QED
    BY <1>1, <2>2, <2>3, <2>4, <2>5
<1>3. CASE Insert
  <2>1. PICK v \in asked.read : answer' = [id |-> asked.id, data |-> v, age |-> 0]
    BY <1>3 DEF Insert
  <2>2. asked.busy /\ UNCHANGED <<truth, changed, now>>
    BY <1>3 DEF Insert, env
  <2>3. asked.id \in Ids /\ asked.since \in Nat
    BY <2>2, <1>1, BusyPending
  <2>4. now - asked.since <= MaxFetch
    BY <2>2 DEF IInv, FillInProgress
  <2>5. v = truth[asked.id] \/ changed[asked.id] >= asked.since
    BY <2>1, <2>2 DEF IInv, FillInProgress
  <2>6. changed[asked.id] \in Nat
    BY <1>1, <2>3
  <2> QED
    BY <1>1, <2>1, <2>2, <2>3, <2>4, <2>5, <2>6
<1>4. CASE UNCHANGED answer
  BY <1>4
<1> QED
  BY <1>2, <1>3, <1>4
     DEF Next, GetItemMiss, clearItem, Change, GetMetadata, Tick, vars

(* getItem answers with what the device has, unless that changed within    *)
(* the last MaxAge seconds and the duration of a read.                     *)
THEOREM RecentAnswers == Spec => AnswersRecent
<1>1. IInv /\ [Next]_vars =>
        [answer' # answer =>
           \/ answer'.data = truth'[answer'.id]
           \/ changed'[answer'.id] + MaxAge + MaxFetch >= now']_vars
  BY AnswerIsRecent
<1> QED
  BY <1>1, Invariance, PTL DEF Spec, AnswersRecent

-----------------------------------------------------------------------------
(* Refinement.                                                             *)
LEMMA HeldEntry ==
  ASSUME IInv, NEW i \in DOMAIN m_cacheLookup
  PROVE  /\ i \in DOMAIN Held
         /\ Held[i] = [data |-> m_cache[m_cacheLookup[i]].data,
                       when |-> m_cache[m_cacheLookup[i]].when]
BY DEF Held

(* Elements dropped from list and table are dropped from the map.          *)
LEMMA HeldAfterDrop ==
  ASSUME IInv, NEW K \in SUBSET DOMAIN m_cache,
         m_cache' = Drop(m_cache, K),
         m_cacheLookup' = Drop(m_cacheLookup, {m_cache[k].self : k \in K})
  PROVE  Held' = Drop(Held, {m_cache[k].self : k \in K})
<1> DEFINE L == {m_cache[k].self : k \in K}
<1>1. DOMAIN m_cacheLookup' = DOMAIN m_cacheLookup \ L /\ DOMAIN Held = DOMAIN m_cacheLookup
  BY DEF Drop, Held
<1>2. ASSUME NEW i \in DOMAIN m_cacheLookup \ L
      PROVE  m_cache'[m_cacheLookup'[i]] = m_cache[m_cacheLookup[i]]
  <2>1. m_cacheLookup[i] \in DOMAIN m_cache \ K
    BY DEF IInv, ListMatchesLookup
  <2>2. m_cacheLookup'[i] = m_cacheLookup[i]
    BY DEF Drop
  <2>3. m_cache'[m_cacheLookup[i]] = m_cache[m_cacheLookup[i]]
    BY <2>1 DEF Drop
  <2> QED
    BY <2>2, <2>3
<1> HIDE DEF L
<1>3. Drop(Held, L) = [i \in DOMAIN m_cacheLookup \ L |-> Held[i]]
  BY <1>1 DEF Drop
<1>4. Held' = [i \in DOMAIN m_cacheLookup \ L |->
                 [data |-> m_cache[m_cacheLookup[i]].data,
                  when |-> m_cache[m_cacheLookup[i]].when]]
  BY <1>1, <1>2 DEF Held
<1>5. \A i \in DOMAIN m_cacheLookup \ L :
        Held[i] = [data |-> m_cache[m_cacheLookup[i]].data,
                   when |-> m_cache[m_cacheLookup[i]].when]
  BY DEF Held
<1>6. Held' = Drop(Held, L)
  BY <1>3, <1>4, <1>5
<1> QED
  BY <1>6 DEF L

(* What clearOld erases is too old for the map to answer with.             *)
LEMMA ForgetsOld ==
  ASSUME IInv, m_cache' = cacheAfter, m_cacheLookup' = lookupAfter
  PROVE  Abstract!ForgetOld(Held')
<1> DEFINE L == {m_cache[k].self : k \in clearOld}
<1>1. Held' = Drop(Held, L)
  BY ClearOldDropsBoth, HeldAfterDrop DEF cacheAfter, lookupAfter
<1>2. ASSUME NEW k \in clearOld
      PROVE  m_cache[k].self \in DOMAIN Held /\ ~Abstract!Young(m_cache[k].self)
  <2>1. k \in DOMAIN m_cache /\ now - m_cache[k].when > MaxAge
    BY DEF clearOld, IInv, TypeOK, IsMap
  <2>2. m_cache[k].self \in DOMAIN m_cacheLookup /\ m_cacheLookup[m_cache[k].self] = k
    BY <2>1 DEF IInv, ListMatchesLookup
  <2>3. Held[m_cache[k].self].when = m_cache[k].when /\ m_cache[k].self \in DOMAIN Held
    BY <2>2 DEF Held
  <2>4. m_cache[k].when \in Nat /\ now \in Nat /\ MaxAge \in Nat
    BY <2>1, EntryTypes, CacheAssumption DEF IInv, TypeOK
  <2> QED
    BY <2>1, <2>3, <2>4 DEF Abstract!Young
<1>3. L \in SUBSET {i \in DOMAIN Held : ~Abstract!Young(i)}
  BY <1>2
<1> QED
  BY <1>1, <1>3 DEF Abstract!ForgetOld, Abstract!Drop, Drop

(* An id found after clearOld is young, one not found is not.              *)
LEMMA YoungMeansFound ==
  ASSUME IInv, NEW id \in Ids
  PROVE  Abstract!Young(id) <=> id \in DOMAIN lookupAfter
<1>1. now \in Nat /\ MaxAge \in Nat
  BY CacheAssumption DEF IInv, TypeOK
<1>2. ASSUME id \in DOMAIN lookupAfter PROVE Abstract!Young(id)
  <2>1. /\ id \in DOMAIN m_cacheLookup
        /\ m_cacheLookup[id] \in DOMAIN m_cache \ clearOld
    BY <1>2, FoundIsKept
  <2>2. now - m_cache[m_cacheLookup[id]].when <= MaxAge
    BY <2>1, KeptAreYoung
  <2> QED
    BY <2>1, <2>2 DEF Abstract!Young, Held
<1>3. ASSUME id \notin DOMAIN lookupAfter, Abstract!Young(id) PROVE FALSE
  <2>1. id \in DOMAIN m_cacheLookup /\ now - m_cache[m_cacheLookup[id]].when <= MaxAge
    BY <1>3 DEF Abstract!Young, Held
  <2>2. id \in {m_cache[k].self : k \in clearOld}
    BY <1>3, <2>1 DEF lookupAfter, Drop
  <2>3. PICK k \in clearOld : m_cache[k].self = id
    BY <2>2
  <2>4. k \in DOMAIN m_cache /\ now - m_cache[k].when > MaxAge
    BY DEF clearOld, IInv, TypeOK, IsMap
  <2>5. m_cacheLookup[id] = k
    BY <2>3, <2>4 DEF IInv, ListMatchesLookup
  <2>6. m_cache[k].when \in Nat
    BY <2>4, EntryTypes
  <2> QED
    BY <1>1, <2>1, <2>4, <2>5, <2>6
<1> QED
  BY <1>2, <1>3

LEMMA HitImplements ==
  ASSUME IInv, NEW id \in Ids, GetItemHit(id)
  PROVE  Abstract!Hit(id)
<1>1. /\ ~asked.busy /\ id \in DOMAIN lookupAfter
      /\ m_cache' = cacheAfter /\ m_cacheLookup' = lookupAfter
      /\ answer' = [id |-> id, data |-> m_cache[m_cacheLookup[id]].data,
                    age |-> now - m_cache[m_cacheLookup[id]].when]
      /\ UNCHANGED <<env, asked>>
  BY DEF GetItemHit
<1>2. Abstract!Young(id)
  BY <1>1, YoungMeansFound
<1>3. Abstract!ForgetOld(Held')
  BY <1>1, ForgetsOld
<1>4. Held[id].data = m_cache[m_cacheLookup[id]].data
      /\ Held[id].when = m_cache[m_cacheLookup[id]].when
  BY <1>1, FoundIsKept DEF Held
<1> QED
  BY <1>1, <1>2, <1>3, <1>4 DEF Abstract!Hit, Abstract!env, env

LEMMA MissImplements ==
  ASSUME IInv, NEW id \in Ids, GetItemMiss(id)
  PROVE  Abstract!Ask(id)
<1>1. /\ ~asked.busy /\ id \notin DOMAIN lookupAfter
      /\ m_cache' = cacheAfter /\ m_cacheLookup' = lookupAfter
      /\ asked' = Miss(id)
      /\ UNCHANGED <<env, answer>>
  BY DEF GetItemMiss
<1>2. ~Abstract!Young(id)
  BY <1>1, YoungMeansFound
<1>3. Abstract!ForgetOld(Held')
  BY <1>1, ForgetsOld
<1> QED
  BY <1>1, <1>2, <1>3 DEF Abstract!Ask, Abstract!Miss, Miss, Abstract!env, env

LEMMA InsertImplements ==
  ASSUME IInv, Insert
  PROVE  Abstract!Fill
<1>1. PICK v \in asked.read :
        /\ m_cache' = Put(m_cache, serial, [self |-> asked.id, data |-> v, when |-> now])
        /\ m_cacheLookup' = Put(m_cacheLookup, asked.id, serial)
        /\ answer' = [id |-> asked.id, data |-> v, age |-> 0]
  BY DEF Insert
<1>2. asked.busy /\ asked' = Idle /\ UNCHANGED env
  BY DEF Insert
<1>3. \A i \in DOMAIN m_cacheLookup :
        m_cacheLookup[i] \in DOMAIN m_cache /\ m_cacheLookup[i] # serial
  <2>1. serial \in Nat /\ DOMAIN m_cache \subseteq 0 .. serial - 1
    BY DEF IInv, TypeOK, IsMap
  <2>2. serial \notin DOMAIN m_cache
    BY <2>1
  <2> QED
    BY <2>2 DEF IInv, ListMatchesLookup
<1>4. asked.id \notin DOMAIN m_cacheLookup
  BY <1>2 DEF IInv, FillInProgress
<1>5. ASSUME NEW i \in DOMAIN m_cacheLookup
      PROVE  m_cache'[m_cacheLookup'[i]] = m_cache[m_cacheLookup[i]]
  <2>1. m_cacheLookup'[i] = m_cacheLookup[i]
    BY <1>1, <1>4 DEF Put
  <2>2. m_cache'[m_cacheLookup[i]] = m_cache[m_cacheLookup[i]]
    BY <1>1, <1>3 DEF Put
  <2> QED
    BY <2>1, <2>2
<1>6. m_cacheLookup'[asked.id] = serial
      /\ DOMAIN m_cacheLookup' = DOMAIN m_cacheLookup \cup {asked.id}
  BY <1>1 DEF Put
<1>7. m_cache'[serial] = [self |-> asked.id, data |-> v, when |-> now]
  BY <1>1 DEF Put
<1>8. Held' = Put(Held, asked.id, [data |-> v, when |-> now])
  <2>1. DOMAIN Held = DOMAIN m_cacheLookup
    BY DEF Held
  <2>2. Put(Held, asked.id, [data |-> v, when |-> now])
          = [i \in DOMAIN m_cacheLookup \cup {asked.id} |->
               IF i = asked.id THEN [data |-> v, when |-> now] ELSE Held[i]]
    BY <2>1 DEF Put
  <2>3. Held' = [i \in DOMAIN m_cacheLookup \cup {asked.id} |->
                   [data |-> m_cache'[m_cacheLookup'[i]].data,
                    when |-> m_cache'[m_cacheLookup'[i]].when]]
    BY <1>6 DEF Held
  <2>4. ASSUME NEW i \in DOMAIN m_cacheLookup \cup {asked.id}
        PROVE  [data |-> m_cache'[m_cacheLookup'[i]].data,
                when |-> m_cache'[m_cacheLookup'[i]].when]
                 = IF i = asked.id THEN [data |-> v, when |-> now] ELSE Held[i]
    <3>1. CASE i = asked.id
      BY <3>1, <1>6, <1>7
    <3>2. CASE i \in DOMAIN m_cacheLookup /\ i # asked.id
      BY <3>2, <1>5 DEF Held
    <3> QED
      BY <3>1, <3>2
  <2> QED
    BY <2>2, <2>3, <2>4
<1> QED
  BY <1>1, <1>2, <1>8 DEF Abstract!Fill, Abstract!Put, Put, Abstract!Idle, Idle, Abstract!env, env

LEMMA ClearItemImplements ==
  ASSUME IInv, NEW id \in Ids, clearItem(id)
  PROVE  Abstract!Clear(id)
<1>1. /\ m_cache' = Drop(m_cache, {m_cacheLookup[i] : i \in {id} \cap DOMAIN m_cacheLookup})
      /\ m_cacheLookup' = Drop(m_cacheLookup, {id})
      /\ ~asked.busy /\ UNCHANGED <<env, asked, answer>>
  BY DEF clearItem
<1>2. DOMAIN m_cacheLookup' = DOMAIN m_cacheLookup \ {id} /\ DOMAIN Held = DOMAIN m_cacheLookup
  BY <1>1 DEF Drop, Held
<1>3. ASSUME NEW i \in DOMAIN m_cacheLookup \ {id}
      PROVE  m_cache'[m_cacheLookup'[i]] = m_cache[m_cacheLookup[i]]
  <2>1. m_cacheLookup[i] \in DOMAIN m_cache /\ m_cache[m_cacheLookup[i]].self = i
    BY DEF IInv, ListMatchesLookup
  <2>2. m_cacheLookup[i] \notin {m_cacheLookup[j] : j \in {id} \cap DOMAIN m_cacheLookup}
    BY <2>1 DEF IInv, ListMatchesLookup
  <2>3. m_cacheLookup'[i] = m_cacheLookup[i]
    BY <1>1 DEF Drop
  <2>4. m_cache'[m_cacheLookup[i]] = m_cache[m_cacheLookup[i]]
    BY <1>1, <2>1, <2>2 DEF Drop
  <2> QED
    BY <2>3, <2>4
<1>4. Held' = [i \in DOMAIN m_cacheLookup \ {id} |->
                 [data |-> m_cache[m_cacheLookup[i]].data,
                  when |-> m_cache[m_cacheLookup[i]].when]]
  BY <1>2, <1>3 DEF Held
<1>5. Drop(Held, {id}) = [i \in DOMAIN m_cacheLookup \ {id} |-> Held[i]]
  BY <1>2 DEF Drop
<1>6. \A i \in DOMAIN m_cacheLookup \ {id} :
        Held[i] = [data |-> m_cache[m_cacheLookup[i]].data,
                   when |-> m_cache[m_cacheLookup[i]].when]
  BY DEF Held
<1>7. Held' = Drop(Held, {id})
  BY <1>4, <1>5, <1>6
<1> QED
  BY <1>1, <1>7 DEF Abstract!Clear, Abstract!Drop, Drop, Abstract!env, env

(* Steps that touch neither the list nor the table leave the map alone.    *)
LEMMA HeldUnchanged ==
  ASSUME UNCHANGED <<m_cache, m_cacheLookup>>
  PROVE  Held' = Held
BY DEF Held

LEMMA StepImplements ==
  ASSUME IInv, [Next]_vars
  PROVE  [Abstract!Next]_(Abstract!cvars)
<1>1. CASE \E id \in Ids : GetItemHit(id)
  BY <1>1, HitImplements DEF Abstract!Next
<1>2. CASE \E id \in Ids : GetItemMiss(id)
  BY <1>2, MissImplements DEF Abstract!Next
<1>3. CASE \E id \in Ids : clearItem(id)
  BY <1>3, ClearItemImplements DEF Abstract!Next
<1>4. CASE \E id \in Ids, v \in Values : Change(id, v)
  <2> PICK id \in Ids, v \in Values : Change(id, v)
    BY <1>4
  <2>1. Abstract!Change(id, v)
    BY HeldUnchanged DEF Change, store, Abstract!Change
  <2> QED
    BY <2>1 DEF Abstract!Next
<1>5. CASE GetMetadata
  <2>1. Abstract!Read
    BY <1>5, HeldUnchanged DEF GetMetadata, store, env, Abstract!Read, Abstract!env
  <2> QED
    BY <2>1 DEF Abstract!Next
<1>6. CASE Insert
  BY <1>6, InsertImplements DEF Abstract!Next
<1>7. CASE Tick
  <2>1. Abstract!Tick
    BY <1>7, HeldUnchanged DEF Tick, store, Abstract!Tick
  <2> QED
    BY <2>1 DEF Abstract!Next
<1>8. CASE UNCHANGED vars
  BY <1>8, HeldUnchanged DEF vars, store, env, Abstract!cvars, Abstract!env
<1> QED
  BY <1>1, <1>2, <1>3, <1>4, <1>5, <1>6, <1>7, <1>8 DEF Next

LEMMA InitImplements == Init => Abstract!Init
<1> SUFFICES ASSUME Init PROVE Abstract!Init
  OBVIOUS
<1>1. DOMAIN m_cacheLookup = {}
  BY DEF Init, EmptyMap
<1>2. Held = [x \in {} |-> x]
  BY <1>1 DEF Held
<1> QED
  BY <1>2 DEF Init, Abstract!Init, Abstract!EmptyMap, EmptyMap, Abstract!Idle, Idle,
              Abstract!NoAnswer, NoAnswer

(* The list with its lookup table implements the map: every behaviour of   *)
(* MtpMetadataCache.cpp is one that MetadataCache allows.                  *)
THEOREM Implements == Spec => ImplementsMap
<1> QED
  BY InitImplements, StepImplements, Invariance, PTL
     DEF Spec, ImplementsMap, Abstract!Spec
=============================================================================
