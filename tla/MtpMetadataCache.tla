-------------------------- MODULE MtpMetadataCache --------------------------
(***************************************************************************)
(* MtpMetadataCache.cpp: a std::list of entries in the order they were     *)
(* made, and a lookup table from a node id to the list element that holds  *)
(* it.  A list element is named by a serial number, which stands for the   *)
(* iterator: it stays valid until that element is erased, and the list     *)
(* order is the order of the serials because entries are only added at the *)
(* end.                                                                    *)
(***************************************************************************)
EXTENDS Integers, Maps

CONSTANTS Ids, Values, MaxAge, MaxFetch, MaxTime,
          MaxSerial  \* bound on the number of fills

ASSUME CacheAssumption == /\ MaxAge \in Nat /\ MaxFetch \in Nat
                          /\ MaxTime \in Nat /\ MaxSerial \in Nat

VARIABLES truth, changed, now,  \* the device and the clock
          m_cache,              \* serial -> [self, data, when]
          m_cacheLookup,        \* id -> serial
          serial,               \* serial of the next element
          asked, answer         \* the getItem in progress, and the last answer

env   == <<truth, changed, now>>
store == <<m_cache, m_cacheLookup, serial>>
vars  == <<env, store, asked, answer>>

Idle     == [busy |-> FALSE]
Miss(id) == [busy |-> TRUE, id |-> id, since |-> now, read |-> {}]
NoAnswer == [age |-> 0]

Init == /\ truth \in [Ids -> Values] /\ changed = [i \in Ids |-> 0] /\ now = 0
        /\ m_cache = EmptyMap /\ m_cacheLookup = EmptyMap /\ serial = 1
        /\ asked = Idle /\ answer = NoAnswer

clearOld_Late == {k \in DOMAIN m_cache :     \* mutant: one second too late
                    \A j \in DOMAIN m_cache : j <= k => now - m_cache[j].when > MaxAge + 1}

(* The elements clearOld erases: it walks the list from the front and      *)
(* stops at the first entry that is young enough.                          *)
clearOld == {k \in DOMAIN m_cache :
               \A j \in DOMAIN m_cache : j <= k => now - m_cache[j].when > MaxAge}

cacheAfter  == Drop(m_cache, clearOld)
lookupAfter == Drop(m_cacheLookup, {m_cache[k].self : k \in clearOld})

GetItemHit_Touches(id) ==                    \* mutant: a hit makes the entry young again
  /\ ~asked.busy /\ id \in DOMAIN lookupAfter
  /\ m_cache' = [cacheAfter EXCEPT ![m_cacheLookup[id]].when = now]
  /\ m_cacheLookup' = lookupAfter
  /\ answer' = [id |-> id, data |-> m_cache[m_cacheLookup[id]].data, age |-> 0]
  /\ UNCHANGED <<env, serial, asked>>

GetItemHit_FindsFirst(id) ==                 \* mutant: the entry is found, then clearOld
  /\ ~asked.busy /\ id \in DOMAIN m_cacheLookup
  /\ m_cache' = cacheAfter /\ m_cacheLookup' = lookupAfter
  /\ LET e == m_cache[m_cacheLookup[id]]
     IN  answer' = [id |-> id, data |-> e.data, age |-> now - e.when]
  /\ UNCHANGED <<env, serial, asked>>

(* getItem: clearOld, then the entry of the id if there is one.            *)
GetItemHit(id) ==
  /\ ~asked.busy /\ id \in DOMAIN lookupAfter
  /\ m_cache' = cacheAfter /\ m_cacheLookup' = lookupAfter
  /\ LET e == m_cache[m_cacheLookup[id]]
     IN  answer' = [id |-> id, data |-> e.data, age |-> now - e.when]
  /\ UNCHANGED <<env, serial, asked>>

GetItemMiss_Always(id) ==                    \* mutant: the table is not asked
  /\ ~asked.busy
  /\ m_cache' = cacheAfter /\ m_cacheLookup' = lookupAfter
  /\ asked' = Miss(id)
  /\ UNCHANGED <<env, serial, answer>>

GetItemMiss(id) ==
  /\ ~asked.busy /\ id \notin DOMAIN lookupAfter
  /\ m_cache' = cacheAfter /\ m_cacheLookup' = lookupAfter
  /\ asked' = Miss(id)
  /\ UNCHANGED <<env, serial, answer>>

(* source.getMetadata() reads the device; the entry is stamped afterwards. *)
GetMetadata ==
  /\ asked.busy /\ asked.read = {}
  /\ asked' = [asked EXCEPT !.read = {truth[asked.id]}]
  /\ UNCHANGED <<env, store, answer>>

Insert ==
  /\ asked.busy /\ serial <= MaxSerial
  /\ \E v \in asked.read :
       /\ m_cache' = Put(m_cache, serial, [self |-> asked.id, data |-> v, when |-> now])
       /\ m_cacheLookup' = Put(m_cacheLookup, asked.id, serial)
       /\ answer' = [id |-> asked.id, data |-> v, age |-> 0]
  /\ serial' = serial + 1 /\ asked' = Idle
  /\ UNCHANGED env

clearItem_KeepsLookup(id) ==                 \* mutant: the table keeps the iterator
  /\ ~asked.busy
  /\ m_cache' = Drop(m_cache, {m_cacheLookup[i] : i \in {id} \cap DOMAIN m_cacheLookup})
  /\ UNCHANGED <<env, m_cacheLookup, serial, asked, answer>>

clearItem_KeepsElement(id) ==                \* mutant: the list keeps the element
  /\ ~asked.busy
  /\ m_cacheLookup' = Drop(m_cacheLookup, {id})
  /\ UNCHANGED <<env, m_cache, serial, asked, answer>>

clearItem(id) ==
  /\ ~asked.busy
  /\ m_cache' = Drop(m_cache, {m_cacheLookup[i] : i \in {id} \cap DOMAIN m_cacheLookup})
  /\ m_cacheLookup' = Drop(m_cacheLookup, {id})
  /\ UNCHANGED <<env, serial, asked, answer>>

(* The environment: the device changes, and time passes.                   *)
Change(id, v) == /\ truth' = [truth EXCEPT ![id] = v]
                 /\ changed' = [changed EXCEPT ![id] = now]
                 /\ UNCHANGED <<now, store, asked, answer>>

Tick == /\ now < MaxTime /\ now' = now + 1
        /\ asked.busy => now - asked.since < MaxFetch
        /\ UNCHANGED <<truth, changed, store, asked, answer>>

Next == \/ \E id \in Ids : GetItemHit(id) \/ GetItemMiss(id) \/ clearItem(id)
        \/ \E id \in Ids, v \in Values : Change(id, v)
        \/ GetMetadata \/ Insert \/ Tick

Spec == Init /\ [][Next]_vars

-----------------------------------------------------------------------------
Entry   == [self : Ids, data : Values, when : 0 .. now]
Pending == {Idle} \cup [busy : {TRUE}, id : Ids, since : 0 .. now,
                        read : {{}} \cup {{v} : v \in Values}]

TypeOK == /\ truth \in [Ids -> Values] /\ now \in Nat
          /\ changed \in [Ids -> 0 .. now]
          /\ serial \in Nat
          /\ IsMap(m_cache, 0 .. serial - 1, Entry)
          /\ IsMap(m_cacheLookup, Ids, DOMAIN m_cache)
          /\ asked \in Pending
          /\ answer \in {NoAnswer} \cup [id : Ids, data : Values, age : 0 .. now]

(* The list and the lookup table describe the same entries: every element  *)
(* is found through the table by its own id, and every iterator in the     *)
(* table points at a live element.  clearOld erases m_cacheLookup.find(id) *)
(* without a test, which is undefined when an element is not in the table. *)
ListMatchesLookup ==
  /\ \A k \in DOMAIN m_cache : /\ m_cache[k].self \in DOMAIN m_cacheLookup
                               /\ m_cacheLookup[m_cache[k].self] = k
  /\ \A i \in DOMAIN m_cacheLookup : /\ m_cacheLookup[i] \in DOMAIN m_cache
                                     /\ m_cache[m_cacheLookup[i]].self = i

(* The list is in the order of the time stamps, so that the walk of        *)
(* clearOld, which stops at the first young entry, misses no old one.      *)
OldestFirst ==
  \A j, k \in DOMAIN m_cache : j <= k => m_cache[j].when <= m_cache[k].when

(* An entry that differs from what the device has now is about a change    *)
(* made after it was read, or while it was being read.                     *)
StaleEntriesAreRecent ==
  \A k \in DOMAIN m_cache :
    LET e == m_cache[k]
    IN  e.data = truth[e.self] \/ changed[e.self] + MaxFetch >= e.when

(* A miss being filled: nothing is held for its id, and what was read is   *)
(* what the device has, or had when the read began.                        *)
FillInProgress ==
  asked.busy =>
    /\ asked.id \notin DOMAIN m_cacheLookup
    /\ now - asked.since <= MaxFetch
    /\ \A v \in asked.read : v = truth[asked.id] \/ changed[asked.id] >= asked.since

(* getItem answers with what the device has, unless that changed within    *)
(* the last MaxAge seconds and the duration of a read: a change made on    *)
(* the phone is seen in the end, however often the entry is asked for.     *)
AnswersRecent ==
  [][answer' # answer =>
       \/ answer'.data = truth'[answer'.id]
       \/ changed'[answer'.id] + MaxAge + MaxFetch >= now']_vars

(* The list and its table implement the map that MetadataCache describes:  *)
(* list, serials and iterators make no difference to what getItem answers. *)
Held == [i \in DOMAIN m_cacheLookup |->
           [data |-> m_cache[m_cacheLookup[i]].data,
            when |-> m_cache[m_cacheLookup[i]].when]]

Abstract == INSTANCE MetadataCache WITH held <- Held

ImplementsMap == Abstract!Spec
=============================================================================
