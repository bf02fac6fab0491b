------------------------- MODULE JmtpfsCacheProofs --------------------------
(***************************************************************************)
(* Proofs about the cache in a rename, which clears the entries it makes   *)
(* stale in several steps and before others that read them: with a device  *)
(* that answers, the cache is right again when the rename returns.         *)
(***************************************************************************)
EXTENDS JmtpfsRenameProofs

-----------------------------------------------------------------------------
(* The folders a step moves something into, and the entries it clears.     *)
Into(s) == CASE s[1] \in {"moveContents", "moveRest", "copyTo"} -> {s[3]}
             [] s[1] = "getNode" -> IF s[4][1] = "child" THEN {s[4][2]} ELSE {}
             [] s[1] = "rename"  -> IF s[2].file THEN {s[3]} ELSE {}
             [] OTHER -> {}
Clears(s) == CASE s[1] = "clearItems" -> s[2]
               [] s[1] \in {"closeFile", "sendFile"} -> s[3]
               [] OTHER -> {}

(* Nothing is moved into a folder of c before its entry is cleared.        *)
Guarded(c, t) == \A k \in DOMAIN t, d \in c : d \in Into(t[k]) => \E j \in 1 .. k - 1 : d \in Clears(t[j])

LEMMA GuardLess == ASSUME NEW c, NEW b, b \subseteq c, NEW t, Guarded(c, t) PROVE Guarded(b, t)
BY DEF Guarded

LEMMA GuardNothing == \A c : Guarded(c, <<>>)
BY DEF Guarded

LEMMA GuardCons ==
  ASSUME NEW U, NEW t \in Seq(U), NEW a, NEW c
  PROVE  Guarded(c, Cons(a, t)) <=> Into(a) \cap c = {} /\ Guarded(c \ Clears(a), t)
<1>1. PICK w : w = Cons(a, t)
  OBVIOUS
<1>2. /\ DOMAIN w = 1 .. 1 + Len(t) /\ w[1] = a /\ Len(t) \in Nat /\ DOMAIN t = 1 .. Len(t)
      /\ \A i \in 2 .. 1 + Len(t) : i - 1 \in 1 .. Len(t) /\ w[i] = t[i - 1]
  BY <1>1, ConsElements, LenProperties
<1>3. PICK l \in Nat : l = Len(t)
  BY <1>2
<1>4. \A i \in 1 .. l : i + 1 \in 1 .. 1 + l /\ w[i + 1] = t[i]
  <2> TAKE i \in 1 .. l
  <2>1. i + 1 \in 2 .. 1 + l /\ i + 1 \in 1 .. 1 + l /\ i + 1 - 1 = i
    BY <1>3
  <2> QED BY <1>2, <1>3, <2>1
<1>5. ASSUME Guarded(c, w) PROVE Into(a) \cap c = {}
  <2>1. 1 \in DOMAIN w /\ 1 .. 1 - 1 = {}
    BY <1>2, <1>3
  <2>2. \A d \in c : d \in Into(w[1]) => \E j \in 1 .. 1 - 1 : d \in Clears(w[j])
    BY <1>5, <2>1 DEF Guarded
  <2> QED BY <1>2, <2>1, <2>2
<1>6. ASSUME Guarded(c, w) PROVE Guarded(c \ Clears(a), t)
  <2> SUFFICES ASSUME NEW k \in 1 .. l, NEW d \in c, d \notin Clears(a), d \in Into(t[k])
               PROVE  \E j \in 1 .. k - 1 : d \in Clears(t[j])
    BY <1>2, <1>3 DEF Guarded
  <2>1. k + 1 \in DOMAIN w /\ w[k + 1] = t[k]
    BY <1>2, <1>3, <1>4
  <2>2. PICK j \in 1 .. (k + 1) - 1 : d \in Clears(w[j])
    BY <1>6, <2>1 DEF Guarded
  <2>3. j # 1
    BY <1>2, <2>2
  <2>4. j - 1 \in 1 .. k - 1 /\ j \in 2 .. 1 + l
    BY <1>3, <2>3
  <2>5. w[j] = t[j - 1]
    BY <1>2, <1>3, <2>4
  <2> QED BY <2>2, <2>4, <2>5
<1>7. ASSUME Into(a) \cap c = {}, Guarded(c \ Clears(a), t) PROVE Guarded(c, w)
  <2> SUFFICES ASSUME NEW k \in 1 .. 1 + l, NEW d \in c, d \in Into(w[k])
               PROVE  \E j \in 1 .. k - 1 : d \in Clears(w[j])
    BY <1>2, <1>3 DEF Guarded
  <2>1. k # 1
    BY <1>2, <1>7
  <2>2. k \in 2 .. 1 + l /\ k - 1 \in 1 .. l /\ 1 \in 1 .. k - 1
    BY <1>3, <2>1
  <2>3. w[k] = t[k - 1]
    BY <1>2, <1>3, <2>2
  <2>4. CASE d \in Clears(a)
    BY <1>2, <2>2, <2>4
  <2>5. CASE d \notin Clears(a)
    <3>1. k - 1 \in DOMAIN t /\ d \in c \ Clears(a) /\ d \in Into(t[k - 1])
      BY <1>2, <1>3, <2>2, <2>3, <2>5
    <3>2. PICK j \in 1 .. (k - 1) - 1 : d \in Clears(t[j])
      BY <1>7, <3>1 DEF Guarded
    <3>3. j \in 1 .. l /\ j + 1 \in 1 .. k - 1
      BY <1>3, <2>2
    <3>4. w[j + 1] = t[j]
      BY <1>4, <3>3
    <3> QED BY <3>2, <3>3, <3>4
  <2> QED BY <2>4, <2>5
<1> QED BY <1>1, <1>5, <1>6, <1>7

(* Nothing is moved into what is below the source.                         *)
LEMMA GuardSource ==
  ASSUME Base, Apart, NEW t \in Seq(GoodSteps), NEW n, Src(n), NEW c, Guarded(c, t)
  PROVE  Guarded(c \cup {n}, t)
<1>1. ASSUME NEW k \in DOMAIN t PROVE n \notin Into(t[k])
  <2>1. t[k] \in GoodSteps
    <3>1. k \in 1 .. Len(t)
      BY <1>1, LenProperties
    <3> QED BY <3>1, ElementOfSeq
  <2>2. PICK s : s = t[k] /\ Good(s)
    BY <2>1 DEF GoodSteps
  <2>3. \A m, d : Copied(m, d) => n # d
    BY NotSource DEF Copied
  <2>4. ASSUME NEW K, s = <<"clearItems", K>> PROVE n \notin Into(s)
    BY <2>4 DEF Into
  <2>5. ASSUME NEW m, NEW d, s = <<"moveContents", m, d>>, Copied(m, d) PROVE n \notin Into(s)
    BY <2>3, <2>5 DEF Into
  <2>6. ASSUME NEW m, NEW d, NEW S, s = <<"moveRest", m, d, S>>, Copied(m, d) PROVE n \notin Into(s)
    BY <2>3, <2>6 DEF Into
  <2>7. ASSUME NEW m, NEW d, NEW name, s = <<"getNode", m, <<name>>, <<"child", d, name>> >>, Copied(m, d) PROVE n \notin Into(s)
    <3>1. PICK k2 : k2 = <<"child", d, name>>
      OBVIOUS
    <3>2. s[1] = "getNode" /\ s[4] = k2 /\ k2[1] = "child" /\ k2[2] = d
      BY <2>7, <3>1
    <3>3. Into(s) = {d}
      BY <3>2 DEF Into
    <3> QED BY <2>3, <2>7, <3>3
  <2>8. ASSUME NEW m, NEW d, s = <<"remove", m, FALSE>> PROVE n \notin Into(s)
    BY <2>8 DEF Into
  <2> QED BY <2>2, <2>4, <2>5, <2>6, <2>7, <2>8 DEF Good
<1> QED BY <1>1 DEF Guarded

LEMMA ItemKeeps ==
  ASSUME NEW K, Tells(cache, K), NEW n, n \notin K, NEW r \in getItem(n)
  PROVE  Tells(r.cache, K) /\ DOMAIN r.cache \subseteq DOMAIN cache \cup {n}
<1>1. CASE n \in DOMAIN cache /\ r = [md |-> cache[n], cache |-> cache]
  BY <1>1
<1>2. CASE r = [md |-> getMetadata(n), cache |-> Put(cache, n, getMetadata(n))]
  <2>1. PICK md : md = getMetadata(n)
    OBVIOUS
  <2>2. r.cache = Put(cache, n, md)
    BY <1>2, <2>1
  <2> QED BY <2>1, <2>2 DEF Put, Tells
<1> QED BY <1>1, <1>2 DEF getItem

-----------------------------------------------------------------------------
(* What may be cached when the steps after the present one begin: the      *)
(* lookup of a folder just made caches the folder it is made in, and a     *)
(* file that is written back has the entry of its own folder cleared.      *)
Cached ==
  CASE At("mkdir") -> DOMAIN cache \cup {Arg(2)}
    [] At("getNode") -> IF Arg(4)[1] = "destDir" THEN DOMAIN cache \cup {Arg(2)} ELSE DOMAIN cache
    [] At("fsync") -> DOMAIN cache \ {ParentNode(Arg(2))}
    [] At("rename") -> IF Arg(2).file THEN DOMAIN cache \ {ParentNode(Arg(2).id)} ELSE DOMAIN cache
    [] OTHER -> DOMAIN cache

(* The entry a file taken off the device has left wrong.                   *)
Owes == IF At("sendFile") THEN Arg(3) ELSE {}

(* The folder just made has not been read.                                 *)
Unread == At("getNode") /\ Arg(4)[1] = "destDir" =>
            \A i \in DOMAIN objs : PathOf(i) = Image(PathOf(Arg(4)[2])) => i \notin DOMAIN cache

(* The new objects that are still needed: the images not made yet, and the *)
(* files below the source that wait to be written back.                    *)
Due    == {v \in pre.view : Below(v, call.path) /\ \A i \in DOMAIN objs : PathOf(i) # Image(v.path)}
Unsent == {i \in DOMAIN localFiles : Src(i) /\ Waits(i)}
Taken  == IF At("sendFile") THEN 1 ELSE 0
Roomy  == nextId + Cardinality(Due) + Cardinality(Unsent) + Taken <= MaxId + 1

Sure == /\ Tells(cache, Owes) /\ Guarded(Cached, todo) /\ Unread
        /\ At("sendFile") => MayAdd(Arg(4))
        /\ todo # <<>> => Roomy

SureInv ==
  call.op = "rename" /\ pre.coherent /\ ~MovesFile =>
    \/ reply.code # "ok" /\ faults < pre.faults
    \/ reply.code # "ok" /\ todo = <<>> /\ Tells(cache, {}) /\ Whole(localFiles)
    \/ reply.code = "ok" /\ Sure

-----------------------------------------------------------------------------
(* The ids of the new objects do not run out.                              *)
LEMMA RoomSets ==
  ASSUME Base, Past
  PROVE  /\ IsFiniteSet(Due) /\ Cardinality(Due) \in Nat
         /\ IsFiniteSet(Unsent) /\ Cardinality(Unsent) \in Nat
         /\ nextId \in Nat /\ MaxId \in Nat /\ Taken \in {0, 1}
<1>1. IsFiniteSet(Due)
  <2>1. Due \subseteq pre.view /\ IsFiniteSet(pre.view)
    BY DEF Due, Past
  <2> QED BY <2>1, FS_Subset
<1>2. IsFiniteSet(Unsent)
  <2>1. Unsent \subseteq 1 .. MaxId
    <3>1. IsMap(localFiles, ObjIds, Copy)
      BY BaseFacts DEF TypeOK
    <3> QED BY <3>1 DEF Unsent, IsMap, ObjIds
  <2>2. IsFiniteSet(1 .. MaxId)
    BY DeviceAssumption, FS_Interval
  <2> QED BY <2>1, <2>2, FS_Subset
<1>3. nextId \in Nat /\ MaxId \in Nat
  BY BaseFacts, DeviceAssumption DEF DeviceTypeOK
<1> QED BY <1>1, <1>2, <1>3, FS_CardinalityType DEF Taken

LEMMA DueOn ==
  ASSUME Base, Apart, Past, NEW G, Keeps(G)
  PROVE  Due' \subseteq Due
<1>1. SUFFICES ASSUME NEW v \in pre.view, Below(v, call.path), \A i \in DOMAIN objs' : PathOf(i)' # Image(v.path),
                      NEW i \in DOMAIN objs, PathOf(i) = Image(v.path)
               PROVE  FALSE
  <2>1. (\A s : Image(s)' = Image(s)) /\ call' = call /\ pre' = pre
    BY PartsAfter DEF Keeps
  <2> QED BY <2>1 DEF Due, Below
<1>2. i \notin G
  <2>1. PICK s : s = v.path
    OBVIOUS
  <2>2. s \in Seq(PathElem) /\ IsPrefix(call.path, s)
    BY <1>1, <2>1 DEF Past, Below
  <2>3. Image(s) \in Seq(PathElem) /\ IsPrefix(call.new, Image(s))
    BY <2>2, ImageParts
  <2>4. ~IsPrefix(call.path, Image(s))
    BY <2>3, ImageApart
  <2>5. ~Src(i)
    BY <1>1, <2>1, <2>4 DEF Src
  <2> QED BY <2>5 DEF Keeps
<1>3. i \in DOMAIN objs' /\ PathOf(i)' = PathOf(i)
  BY <1>2 DEF Keeps
<1> QED BY <1>1, <1>3

LEMMA RoomOn ==
  ASSUME Base, Base', Apart, Past, Past', Roomy, NEW G, Keeps(G), nextId \notin DOMAIN localFiles',
         \A i \in DOMAIN objs : Waits(i)' => Waits(i)
  PROVE  /\ nextId' = nextId /\ ~At("sendFile") /\ ~At("sendFile")' => Roomy'
         /\ nextId' = nextId + 1 /\ At("sendFile") /\ ~At("sendFile")' => Roomy'
         /\ \A v \in Due \ Due' : nextId' = nextId + 1 /\ ~At("sendFile") /\ ~At("sendFile")' => Roomy'
         /\ \A i \in Unsent \ Unsent' : nextId' = nextId /\ ~At("sendFile") => Roomy' /\ nextId \in ObjIds
<1>1. Due' \subseteq Due
  BY DueOn
<1>2. Unsent' \subseteq Unsent
  <2> SUFFICES ASSUME NEW i \in DOMAIN localFiles', Src(i)', Waits(i)' PROVE i \in Unsent
    BY DEF Unsent
  <2>1. i \in DOMAIN objs
    BY DEF Keeps, Src
  <2>2. Waits(i)
    BY <2>1
  <2>3. i \in G => Src(i)
    BY DEF Keeps
  <2>4. i \notin G => Src(i)
    BY <2>1 DEF Keeps, Src
  <2> QED BY <2>2, <2>3, <2>4 DEF Unsent, Waits
<1>3. /\ IsFiniteSet(Due) /\ Cardinality(Due) \in Nat /\ IsFiniteSet(Unsent) /\ Cardinality(Unsent) \in Nat
      /\ nextId \in Nat /\ MaxId \in Nat /\ Taken \in {0, 1}
  BY RoomSets
<1>4. /\ IsFiniteSet(Due') /\ Cardinality(Due') \in Nat /\ IsFiniteSet(Unsent') /\ Cardinality(Unsent') \in Nat
      /\ nextId' \in Nat /\ Taken' \in {0, 1}
  <2>1. IsFiniteSet(Due') /\ IsFiniteSet(Unsent')
    BY <1>1, <1>2, <1>3, FS_Subset
  <2>2. nextId' \in Nat
    BY <1>3, BaseFacts DEF DeviceTypeOK, Base, CopiesInv, TypeOK
  <2>3. Taken' \in {0, 1}
    BY DEF Taken
  <2> QED BY <2>1, <2>2, <2>3, FS_CardinalityType
<1>5. Cardinality(Due') <= Cardinality(Due) /\ Cardinality(Unsent') <= Cardinality(Unsent)
  BY <1>1, <1>2, <1>3, FS_Subset
<1>6. \A v \in Due \ Due' : Cardinality(Due') < Cardinality(Due)
  <2> TAKE v \in Due \ Due'
  <2>1. Due' # Due
    OBVIOUS
  <2>2. Cardinality(Due') # Cardinality(Due)
    BY <1>1, <1>3, <2>1, FS_Subset
  <2> QED BY <1>3, <1>4, <1>5, <2>2
<1>7. \A i \in Unsent \ Unsent' : Cardinality(Unsent') < Cardinality(Unsent)
  <2> TAKE i \in Unsent \ Unsent'
  <2>1. Unsent' # Unsent
    OBVIOUS
  <2>2. Cardinality(Unsent') # Cardinality(Unsent)
    BY <1>2, <1>3, <2>1, FS_Subset
  <2> QED BY <1>3, <1>4, <1>5, <2>2
<1>8. PICK a \in Nat, b \in Nat, e \in Nat, f \in Nat, M \in Nat, N \in Nat, O \in Nat, x \in {0, 1}, y \in {0, 1} :
        /\ a = Cardinality(Due) /\ b = Cardinality(Unsent) /\ e = Cardinality(Due') /\ f = Cardinality(Unsent')
        /\ M = MaxId /\ N = nextId /\ O = nextId' /\ x = Taken /\ y = Taken'
  BY <1>3, <1>4
<1>9. N + a + b + x <= M + 1 /\ e <= a /\ f <= b
  BY <1>5, <1>8 DEF Roomy
<1>10. Roomy' <=> O + e + f + y <= M + 1
  BY <1>8 DEF Roomy
<1>11. (At("sendFile") <=> x = 1) /\ (At("sendFile")' <=> y = 1)
  BY <1>8 DEF Taken
<1>12. ASSUME nextId' = nextId, ~At("sendFile"), ~At("sendFile")' PROVE Roomy'
  <2>1. O = N /\ x = 0 /\ y = 0
    BY <1>8, <1>11, <1>12
  <2>2. O + e + f + y <= M + 1
    BY <1>9, <2>1
  <2> QED BY <1>10, <2>2
<1>13. ASSUME nextId' = nextId + 1, At("sendFile"), ~At("sendFile")' PROVE Roomy'
  <2>1. O = N + 1 /\ x = 1 /\ y = 0
    BY <1>8, <1>11, <1>13
  <2>2. O + e + f + y <= M + 1
    BY <1>9, <2>1
  <2> QED BY <1>10, <2>2
<1>14. ASSUME NEW v \in Due \ Due', nextId' = nextId + 1, ~At("sendFile"), ~At("sendFile")' PROVE Roomy'
  <2>1. O = N + 1 /\ x = 0 /\ y = 0
    BY <1>8, <1>11, <1>14
  <2>2. e < a
    BY <1>6, <1>8
  <2>3. O + e + f + y <= M + 1
    BY <1>9, <2>1, <2>2
  <2> QED BY <1>10, <2>3
<1>15. ASSUME NEW i \in Unsent \ Unsent', nextId' = nextId, ~At("sendFile") PROVE Roomy' /\ nextId \in ObjIds
  <2>1. O = N /\ x = 0
    BY <1>8, <1>11, <1>15
  <2>2. f < b
    BY <1>7, <1>8
  <2>3. O + e + f + y <= M + 1 /\ N <= M
    BY <1>9, <2>1, <2>2
  <2>4. N # 0
    BY <1>8, BaseFacts DEF DeviceTypeOK, Base, CopiesInv, TypeOK
  <2>5. N \in 1 .. M
    BY <2>3, <2>4
  <2> QED BY <1>8, <1>10, <2>3, <2>5 DEF ObjIds
<1> QED BY <1>12, <1>13, <1>14, <1>15

-----------------------------------------------------------------------------
(* The rename goes on with the cache right, or stops with it right.        *)
LEMMA NextIs ==
  ASSUME NEW U, NEW u \in Seq(U), NEW s, todo' = Cons(s, u)
  PROVE  todo' # <<>> /\ (\A a : At(a)' <=> a = s[1]) /\ \A k : Arg(k)' = s[k]
<1>1. Head(todo') = s /\ todo' # <<>>
  BY ConsOne
<1> QED BY <1>1 DEF At, Arg

LEMMA SureOn ==
  ASSUME Going, reply' = reply, Tells(cache, Owes)', Guarded(Cached, todo)', Unread',
         At("sendFile")' => MayAdd(Arg(4))', todo' # <<>> => Roomy'
  PROVE  SureInv'
<1>1. reply'.code = "ok"
  BY DEF Going
<1> QED BY <1>1 DEF SureInv, Sure

LEMMA SureStops ==
  ASSUME todo' = <<>>, reply'.code # "ok", Tells(cache, {})', Whole(localFiles)'
  PROVE  SureInv'
BY DEF SureInv

LEMMA SureThrows ==
  ASSUME Going, objs' = objs, NEW c, Tells(c, {}), NEW code, code # "ok", Throw(code, c, localFiles)
  PROVE  SureInv'
<1>1. todo' = <<>> /\ reply'.code # "ok" /\ localFiles' = localFiles /\ cache' = c
  BY DEF Throw
<1>2. Tells(cache, {})'
  <2>1. PICK K : K = {}
    OBVIOUS
  <2>2. Tells(c, K)'
    BY <2>1, TellsSame
  <2> QED BY <1>1, <2>1, <2>2 DEF Tells
<1>3. Whole(localFiles)'
  BY <1>1 DEF Going, Whole
<1> QED BY <1>1, <1>2, <1>3, SureStops

LEMMA SureReads ==
  ASSUME Going, Tells(cache, {}), ReadFails, faults' = faults
  PROVE  SureInv'
<1>1. faults \in Nat
  BY GoingFacts DEF TypeOK, Going
<1>2. objs' = objs
  BY DEF ReadFails, NoDeviceChange, device
<1>3. PICK c \in {cache} \cup UNION {{r.cache : r \in getItem(n)} : n \in {Arg(2)}} : Throw("EIO", c, localFiles)
  BY DEF ReadFails
<1>4. Tells(c, {})
  <2>1. PICK K : K = {}
    OBVIOUS
  <2>2. \A n : \A r \in getItem(n) : Tells(r.cache, K)
    BY <2>1, ItemKeeps
  <2> QED BY <1>3, <2>1, <2>2
<1> QED BY <1>2, <1>3, <1>4, SureThrows

LEMMA PlainOn ==
  ASSUME Going, reply' = reply, NEW c, cache' = c, Tells(c, {})', NEW U, NEW u \in Seq(U), NEW s, todo' = Cons(s, u),
         \/ s[1] \in {"clearItems", "moveContents", "moveRest", "remove", "copyTo", "dropOriginal", "closeFile"}
         \/ s[1] = "getNode" /\ s[4][1] # "destDir"
         \/ s[1] = "rename" /\ ~s[2].file,
         Guarded(DOMAIN c, Cons(s, u)), Roomy'
  PROVE  SureInv'
<1>1. todo' # <<>> /\ (\A a : At(a)' <=> a = s[1]) /\ Arg(2)' = s[2] /\ Arg(4)' = s[4]
  BY NextIs
<1>2. Cached' = DOMAIN cache'
  BY <1>1 DEF Cached
<1>3. Tells(cache, Owes)'
  <2>1. Owes' = {}
    BY <1>1 DEF Owes
  <2> QED BY <2>1 DEF Tells
<1>4. Unread' /\ (At("sendFile")' => MayAdd(Arg(4))')
  BY <1>1 DEF Unread
<1>5. Guarded(Cached, todo)'
  BY <1>2 DEF Guarded
<1> QED BY <1>3, <1>4, <1>5, SureOn

LEMMA GoodHead ==
  ASSUME NEW s, Good(s)
  PROVE  \/ s[1] \in {"clearItems", "moveContents", "moveRest", "remove"}
         \/ s[1] = "getNode" /\ s[4][1] = "child"
<1>1. \A K : s = <<"clearItems", K>> => s[1] = "clearItems"
  OBVIOUS
<1>2. \A n, d : s = <<"moveContents", n, d>> => s[1] = "moveContents"
  OBVIOUS
<1>3. \A n, d, S : s = <<"moveRest", n, d, S>> => s[1] = "moveRest"
  OBVIOUS
<1>4. ASSUME NEW n, NEW d, NEW name, s = <<"getNode", n, <<name>>, <<"child", d, name>> >>
      PROVE  s[1] = "getNode" /\ s[4][1] = "child"
  <2>1. PICK k, rest : k = <<"child", d, name>> /\ rest = <<name>>
    OBVIOUS
  <2>2. s[1] = "getNode" /\ s[4] = k /\ k[1] = "child"
    BY <1>4, <2>1
  <2> QED BY <2>2
<1>5. \A n : s = <<"remove", n, FALSE>> => s[1] = "remove"
  OBVIOUS
<1> QED BY <1>1, <1>2, <1>3, <1>4, <1>5 DEF Good

LEMMA TailOn ==
  ASSUME Going, reply' = reply, NEW c, cache' = c, Tells(c, {})', NEW t \in Seq(GoodSteps), todo' = t,
         Guarded(DOMAIN c, t), t # <<>> => Roomy'
  PROVE  SureInv'
<1>1. CASE t = <<>>
  <2>1. ~At("sendFile")' /\ Unread'
    BY <1>1 DEF At, Unread
  <2>2. Guarded(Cached, todo)'
    BY <1>1 DEF Guarded
  <2>3. Tells(cache, Owes)'
    <3>1. Owes' = {}
      BY <2>1 DEF Owes
    <3> QED BY <3>1 DEF Tells
  <2> QED BY <1>1, <2>1, <2>2, <2>3, SureOn
<1>2. CASE t # <<>>
  <2>1. PICK s, u : s = Head(t) /\ u = Tail(t)
    OBVIOUS
  <2>2. s \in GoodSteps /\ u \in Seq(GoodSteps) /\ t = Cons(s, u)
    BY <1>2, <2>1, ConsAgain
  <2>3. \/ s[1] \in {"clearItems", "moveContents", "moveRest", "remove"}
        \/ s[1] = "getNode" /\ s[4][1] = "child"
    BY <2>2, GoodHead DEF GoodSteps
  <2> QED BY <1>2, <2>2, <2>3, PlainOn
<1> QED BY <1>1, <1>2

(* A step that changes nothing on the device.                              *)
Surely == Going /\ faults' = faults /\ ~MovesFile /\ Sure

LEMMA SureFacts ==
  ASSUME Surely
  PROVE  /\ Going /\ Base /\ Base' /\ NoTwins(objs) /\ Apart /\ Past /\ Past' /\ Roomy /\ TypeOK /\ IsStore(objs)
         /\ faults' # faults - 1 /\ Tells(cache, Owes) /\ Guarded(Cached, todo) /\ Unread
         /\ (~At("sendFile") => Tells(cache, {})) /\ (At("sendFile") => MayAdd(Arg(4)))
<1>1. Going /\ todo # <<>> /\ Sure
  BY GoingFacts DEF Surely
<1>2. faults \in Nat
  BY <1>1, GoingFacts DEF TypeOK
<1>3. faults' # faults - 1
  BY <1>2 DEF Surely
<1>4. ~At("sendFile") => Tells(cache, {})
  <2>1. ~At("sendFile") => Owes = {}
    BY DEF Owes
  <2> QED BY <1>1, <2>1 DEF Sure
<1> QED BY <1>1, <1>3, <1>4, GoingFacts DEF Sure

LEMMA QuietRoom ==
  ASSUME Surely, objs' = objs, nextId' = nextId, \A n \in DOMAIN cache' : n \in DOMAIN cache \/ Live(n),
         ~At("sendFile"), ~At("sendFile")',
         \A i : Waits(i)' => Waits(i), nextId \notin DOMAIN localFiles'
  PROVE  Roomy'
<1>1. Base /\ Base' /\ Apart /\ Past /\ Past' /\ Roomy /\ call' = call /\ pre' = pre
  BY SureFacts, GoingFacts
<1>2. Keeps({})
  BY <1>1, QuietKeeps
<1>3. PICK G : G = {}
  OBVIOUS
<1>4. Keeps(G)
  BY <1>2, <1>3
<1> QED BY <1>1, <1>4, RoomOn

LEMMA SameFilesRoom ==
  ASSUME Surely, objs' = objs, nextId' = nextId, \A n \in DOMAIN cache' : n \in DOMAIN cache \/ Live(n),
         ~At("sendFile"), ~At("sendFile")', localFiles' = localFiles
  PROVE  Roomy'
<1>1. Base
  BY SureFacts
<1>2. nextId \notin DOMAIN localFiles
  BY <1>1 DEF Base, CopiesInv, Issued, TypeOK, DeviceTypeOK
<1> QED BY <1>2, QuietRoom DEF Waits

LEMMA PlainHead ==
  ASSUME Surely, NEW U, NEW u \in Seq(U), NEW s, todo = Cons(s, u),
         \/ s[1] \in {"clearItems", "moveContents", "moveRest", "remove", "copyTo", "dropOriginal", "closeFile"}
         \/ s[1] = "getNode" /\ s[4][1] # "destDir"
         \/ s[1] = "rename" /\ ~s[2].file
  PROVE  /\ Guarded(DOMAIN cache, Cons(s, u)) /\ Tells(cache, {}) /\ ~At("sendFile") /\ At(s[1])
         /\ Into(s) \cap DOMAIN cache = {} /\ Guarded(DOMAIN cache \ Clears(s), u)
         /\ Tail(todo) = u /\ \A k : Arg(k) = s[k]
<1>1. (\A a : At(a) <=> a = s[1]) /\ (\A k : Arg(k) = s[k]) /\ Tail(todo) = u
  BY StepIs
<1>2. Cached = DOMAIN cache /\ ~At("sendFile")
  BY <1>1 DEF Cached
<1>3. Guarded(Cached, todo) /\ Tells(cache, {})
  BY <1>2, SureFacts
<1>4. Guarded(DOMAIN cache, Cons(s, u))
  BY <1>2, <1>3
<1>5. PICK c : c = DOMAIN cache
  OBVIOUS
<1>6. Into(s) \cap c = {} /\ Guarded(c \ Clears(s), u)
  BY <1>4, <1>5, GuardCons
<1> QED BY <1>1, <1>2, <1>3, <1>4, <1>5, <1>6

LEMMA QuietPlain ==
  ASSUME Surely, ~At("sendFile"), objs' = objs, nextId' = nextId, reply' = reply, localFiles' = localFiles,
         NEW c, cache' = c, Tells(c, {}), \A n \in DOMAIN c : n \in DOMAIN cache \/ Live(n),
         NEW U, NEW u \in Seq(U), NEW s, todo' = Cons(s, u),
         \/ s[1] \in {"clearItems", "moveContents", "moveRest", "remove", "copyTo", "dropOriginal", "closeFile"}
         \/ s[1] = "getNode" /\ s[4][1] # "destDir"
         \/ s[1] = "rename" /\ ~s[2].file,
         Guarded(DOMAIN c, Cons(s, u))
  PROVE  SureInv'
<1>1. Tells(c, {})'
  BY TellsSame
<1>2. ~At("sendFile")'
  <2>1. \A a : At(a)' <=> a = s[1]
    BY NextIs
  <2> QED BY <2>1
<1>3. Roomy'
  BY <1>2, SameFilesRoom
<1>4. Going
  BY DEF Surely
<1> QED BY <1>1, <1>3, <1>4, PlainOn

LEMMA GoodNext == ASSUME NEW t \in Seq(GoodSteps), todo' = t PROVE ~At("sendFile")'
<1>1. CASE t = <<>>
  BY <1>1 DEF At
<1>2. CASE t # <<>>
  <2>1. PICK s : s = Head(t) /\ Good(s)
    BY <1>2, ConsAgain DEF GoodSteps
  <2>2. s[1] # "sendFile"
    BY <2>1, GoodHead
  <2> QED BY <2>1, <2>2 DEF At
<1> QED BY <1>1, <1>2

LEMMA QuietTail ==
  ASSUME Surely, ~At("sendFile"), objs' = objs, nextId' = nextId, reply' = reply, localFiles' = localFiles,
         NEW c, cache' = c, Tells(c, {}), \A n \in DOMAIN c : n \in DOMAIN cache \/ Live(n),
         NEW t \in Seq(GoodSteps), todo' = t, Guarded(DOMAIN c, t)
  PROVE  SureInv'
<1>1. Tells(c, {})'
  BY TellsSame
<1>2. Roomy'
  BY GoodNext, SameFilesRoom
<1>3. Going
  BY DEF Surely
<1> QED BY <1>1, <1>2, <1>3, TailOn

-----------------------------------------------------------------------------
(* Between two nodes.                                                      *)
LEMMA ClearSure ==
  ASSUME Surely, NEW u \in Seq(GoodSteps), NEW K, todo = Cons(<<"clearItems", K>>, u)
  PROVE  SureInv'
<1>1. PICK s : s = <<"clearItems", K>>
  OBVIOUS
<1>2. s[1] = "clearItems" /\ s[2] = K
  BY <1>1
<1>3. /\ Tells(cache, {}) /\ ~At("sendFile") /\ At("clearItems") /\ Guarded(DOMAIN cache \ Clears(s), u)
      /\ Tail(todo) = u /\ Arg(2) = K
  BY <1>1, <1>2, PlainHead
<1>4. ClearItems
  BY <1>3, WhichStep DEF Surely, Going
<1>5. PICK c, C : c = Drop(cache, K) /\ C = DOMAIN cache \ Clears(s)
  OBVIOUS
<1>6. <<>> \o u = u
  BY ConsOne
<1>7. /\ objs' = objs /\ nextId' = nextId /\ reply' = reply /\ localFiles' = localFiles /\ cache' = c /\ todo' = u
  BY <1>3, <1>4, <1>5, <1>6 DEF ClearItems, NoDeviceChange, device, Goto
<1>8. DOMAIN c = C
  BY <1>1, <1>2, <1>5 DEF Drop, Clears
<1>9. Tells(c, {}) /\ \A n \in DOMAIN c : n \in DOMAIN cache \/ Live(n)
  <2>1. PICK N : N = {}
    OBVIOUS
  <2>2. Tells(c, N)
    BY <1>3, <1>5, <2>1, TellsLess
  <2> QED BY <1>5, <2>1, <2>2 DEF Drop
<1>10. Guarded(DOMAIN c, u)
  BY <1>3, <1>5, <1>8
<1> QED BY <1>3, <1>7, <1>9, <1>10, QuietTail

LEMMA ContentsSure ==
  ASSUME Surely, Tells(cache, Off), NEW u \in Seq(GoodSteps), NEW n, NEW d, Copied(n, d), todo = Cons(<<"moveContents", n, d>>, u)
  PROVE  SureInv'
<1>0. Base /\ Apart /\ Going
  BY SureFacts
<1>1. PICK s : s = <<"moveContents", n, d>>
  OBVIOUS
<1>2. s[1] = "moveContents" /\ s[2] = n /\ s[3] = d
  BY <1>1
<1>3. /\ Tells(cache, {}) /\ ~At("sendFile") /\ At("moveContents") /\ Guarded(DOMAIN cache \ Clears(s), u)
      /\ Into(s) \cap DOMAIN cache = {} /\ Tail(todo) = u /\ Arg(2) = n /\ Arg(3) = d
  BY <1>1, <1>2, PlainHead
<1>4. MoveContents \/ ReadFails
  BY <1>3, WhichStep DEF Surely, Going
<1>5. SUFFICES ASSUME MoveContents PROVE SureInv'
  BY <1>0, <1>3, <1>4, SureReads DEF Surely
<1>6. PICK r \in getItem(n) : Goto(<< <<"moveRest", n, d, r.md.children>> >>, r.cache, localFiles)
  BY <1>3, <1>5 DEF MoveContents
<1>7. PICK m, c : m = <<"moveRest", n, d, r.md.children>> /\ c = r.cache
  OBVIOUS
<1>8. objs' = objs /\ nextId' = nextId /\ reply' = reply /\ localFiles' = localFiles /\ cache' = c /\ todo' = Cons(m, u)
  <2>1. <<m>> \o u = Cons(m, u)
    BY ConsOne
  <2> QED BY <1>3, <1>5, <1>6, <1>7, <2>1 DEF MoveContents, NoDeviceChange, device, Goto
<1>9. Src(n) /\ Live(n)
  BY <1>0, <1>6, CopiedAlive
<1>10. Tells(c, {}) /\ DOMAIN c \subseteq DOMAIN cache \cup {n}
  <2>1. PICK N : N = {}
    OBVIOUS
  <2> QED BY <1>3, <1>7, <2>1, ItemKeeps
<1>11. Guarded(DOMAIN c, Cons(m, u))
  <2>1. PICK C : C = DOMAIN cache
    OBVIOUS
  <2>2. Clears(s) = {} /\ Into(s) = {d}
    BY <1>2 DEF Clears, Into
  <2>3. Guarded(C, u) /\ d \notin C
    <3>1. C \ {} = C
      OBVIOUS
    <3> QED BY <1>3, <2>1, <2>2, <3>1
  <2>4. Guarded(C \cup {n}, u)
    BY <1>0, <1>9, <2>3, GuardSource
  <2>5. d # n
    BY <1>0, <1>9, NotSource DEF Copied
  <2>6. m[1] = "moveRest" /\ m[3] = d
    BY <1>7
  <2>7. Into(m) = {d} /\ Clears(m) = {}
    BY <2>6 DEF Into, Clears
  <2>8. Guarded(C \cup {n}, Cons(m, u))
    <3>1. PICK D : D = C \cup {n}
      OBVIOUS
    <3>2. {d} \cap D = {} /\ D \ {} = D
      BY <2>3, <2>5, <3>1
    <3> QED BY <2>4, <2>7, <3>1, <3>2, GuardCons
  <2> QED BY <1>10, <2>1, <2>8, GuardLess
<1>12. m[1] = "moveRest" /\ \A k \in DOMAIN c : k \in DOMAIN cache \/ Live(k)
  BY <1>7, <1>9, <1>10
<1> QED BY <1>3, <1>8, <1>10, <1>11, <1>12, QuietPlain

(* A step put in front that moves nothing into c and clears nothing.       *)
LEMMA GuardFront ==
  ASSUME NEW U, NEW t \in Seq(U), NEW a, NEW c, Guarded(c, t), Into(a) \cap c = {}, Clears(a) = {}
  PROVE  Guarded(c, Cons(a, t))
<1>1. c \ {} = c
  OBVIOUS
<1> QED BY <1>1, GuardCons

LEMMA RestSure ==
  ASSUME Surely, NEW u \in Seq(GoodSteps), NEW n, NEW d, NEW S, todo = Cons(<<"moveRest", n, d, S>>, u)
  PROVE  SureInv'
<1>1. PICK s : s = <<"moveRest", n, d, S>>
  OBVIOUS
<1>2. s[1] = "moveRest" /\ s[2] = n /\ s[3] = d /\ s[4] = S
  BY <1>1
<1>3. /\ Tells(cache, {}) /\ ~At("sendFile") /\ At("moveRest") /\ Guarded(DOMAIN cache \ Clears(s), u)
      /\ Into(s) \cap DOMAIN cache = {} /\ Tail(todo) = u /\ Arg(2) = n /\ Arg(3) = d /\ Arg(4) = S
  BY <1>1, <1>2, PlainHead
<1>4. MoveRest
  BY <1>3, WhichStep DEF Surely, Going
<1>5. PICK c, C : c = cache /\ C = DOMAIN cache
  OBVIOUS
<1>6. /\ objs' = objs /\ nextId' = nextId /\ reply' = reply /\ localFiles' = localFiles /\ cache' = c
      /\ \/ todo' = <<>> \o u
         \/ \E e \in S : todo' = << <<"getNode", n, <<e.name>>, <<"child", d, e.name>> >>, <<"moveRest", n, d, S \ {e}>> >> \o u
  BY <1>3, <1>4, <1>5 DEF MoveRest, NoDeviceChange, device, Goto
<1>7. Into(s) = {d} /\ Clears(s) = {}
  BY <1>2 DEF Into, Clears
<1>8. Guarded(C, u) /\ d \notin C
  <2>1. C \ {} = C
    OBVIOUS
  <2> QED BY <1>3, <1>5, <1>7, <2>1
<1>9. Tells(c, {}) /\ \A k \in DOMAIN c : k \in DOMAIN cache \/ Live(k)
  BY <1>3, <1>5
<1>10. CASE todo' = <<>> \o u
  <2>1. todo' = u
    BY <1>10, ConsOne
  <2> QED BY <1>3, <1>5, <1>6, <1>8, <1>9, <2>1, QuietTail
<1>11. ASSUME NEW e \in S, todo' = << <<"getNode", n, <<e.name>>, <<"child", d, e.name>> >>, <<"moveRest", n, d, S \ {e}>> >> \o u
       PROVE  SureInv'
  <2>1. PICK g, k, m : k = <<"child", d, e.name>> /\ g = <<"getNode", n, <<e.name>>, k>> /\ m = <<"moveRest", n, d, S \ {e}>>
    OBVIOUS
  <2>2. <<g, m>> \o u = Cons(g, Cons(m, u))
    BY ConsMore
  <2>3. PICK v : v = Cons(m, u)
    OBVIOUS
  <2>4. v \in Seq(GoodSteps \cup {m})
    BY <2>3, ConsOne
  <2>5. todo' = Cons(g, v)
    BY <1>11, <2>1, <2>2, <2>3
  <2>6. g[1] = "getNode" /\ g[4] = k /\ k[1] = "child" /\ k[2] = d /\ m[1] = "moveRest" /\ m[3] = d
    BY <2>1
  <2>7. Into(g) = {d} /\ Clears(g) = {} /\ Into(m) = {d} /\ Clears(m) = {}
    BY <2>6 DEF Into, Clears
  <2>8. Guarded(C, v)
    BY <1>8, <2>3, <2>7, GuardFront
  <2>9. Guarded(DOMAIN c, Cons(g, v))
    BY <1>5, <1>8, <2>4, <2>7, <2>8, GuardFront
  <2> QED BY <1>3, <1>6, <1>9, <2>4, <2>5, <2>6, <2>9, QuietPlain
<1> QED BY <1>6, <1>10, <1>11

LEMMA ChildSure ==
  ASSUME Surely, Tells(cache, Off), NEW u \in Seq(GoodSteps),
         NEW n, NEW d, NEW name, Copied(n, d), todo = Cons(<<"getNode", n, <<name>>, <<"child", d, name>> >>, u)
  PROVE  SureInv'
<1>0. Base /\ Base' /\ Apart /\ Going
  BY SureFacts
<1>1. PICK s, k, rest : s = <<"getNode", n, rest, k>> /\ k = <<"child", d, name>> /\ rest = <<name>>
  OBVIOUS
<1>2. s[1] = "getNode" /\ s[2] = n /\ s[3] = rest /\ s[4] = k /\ k[1] = "child" /\ k[2] = d
  BY <1>1
<1>3. /\ Tells(cache, {}) /\ ~At("sendFile") /\ At("getNode") /\ Guarded(DOMAIN cache \ Clears(s), u)
      /\ Into(s) \cap DOMAIN cache = {} /\ Tail(todo) = u /\ Arg(2) = n /\ Arg(3) = rest /\ Arg(4) = k
  <2>1. todo = Cons(s, u)
    BY <1>1
  <2> QED BY <1>2, <2>1, PlainHead
<1>4. GetNode \/ ReadFails
  BY <1>3, WhichStep DEF Surely, Going
<1>5. SUFFICES ASSUME GetNode PROVE SureInv'
  BY <1>0, <1>3, <1>4, SureReads DEF Surely
<1>6. rest # <<>> /\ Len(rest) = 1 /\ Head(rest) = name
  BY <1>1
<1>7. /\ objs' = objs /\ nextId' = nextId
      /\ \E r \in getItem(n) :
           \/ Throw("ENOENT", r.cache, localFiles)
           \/ \E e \in r.md.children : /\ e.name = name
                                       /\ Goto(Then(k, [id |-> e.id, file |-> e.file]), r.cache, localFiles)
  BY <1>3, <1>5, <1>6 DEF GetNode, NoDeviceChange, device
<1>8. PICK r \in getItem(n) :
           \/ Throw("ENOENT", r.cache, localFiles)
           \/ \E e \in r.md.children : /\ e.name = name
                                       /\ Goto(Then(k, [id |-> e.id, file |-> e.file]), r.cache, localFiles)
  BY <1>7
<1>9. PICK c, C : c = r.cache /\ C = DOMAIN cache
  OBVIOUS
<1>10. Tells(c, {}) /\ DOMAIN c \subseteq C \cup {n}
  <2>1. PICK N : N = {}
    OBVIOUS
  <2> QED BY <1>3, <1>9, <2>1, ItemKeeps
<1>11. CASE Throw("ENOENT", c, localFiles)
  BY <1>0, <1>7, <1>10, <1>11, SureThrows
<1>12. ASSUME NEW e \in r.md.children, e.name = name, Goto(Then(k, [id |-> e.id, file |-> e.file]), c, localFiles)
       PROVE  SureInv'
  <2>1. /\ Src(n) /\ ~objs[n].file /\ NodePath(d) = Image(PathOf(n)) /\ IsFolderNode(n) /\ NodePath(n) = PathOf(n)
        /\ r.md = getMetadata(n) /\ \A m \in DOMAIN c : m \in DOMAIN cache \/ Live(m)
    BY <1>0, <1>9, CopiedAlive
  <2>2. getMetadata(n).children =
           {[id |-> i, name |-> objs[i].name, file |-> objs[i].file] : i \in {j \in DOMAIN objs : ParentNode(j) = n}}
    BY <1>0, <2>1, FolderHolds
  <2>3. PICK i \in DOMAIN objs : ParentNode(i) = n /\ e = [id |-> i, name |-> objs[i].name, file |-> objs[i].file]
    BY <1>12, <2>1, <2>2
  <2>4. e.id = i /\ e.file = objs[i].file
    BY <2>3
  <2>5. PICK node, m : node = [id |-> i, file |-> objs[i].file] /\ m = <<"rename", node, d, name>>
    OBVIOUS
  <2>6. Then(k, [id |-> e.id, file |-> e.file]) = <<m>>
    BY <1>1, <2>4, <2>5 DEF Then
  <2>7. reply' = reply /\ localFiles' = localFiles /\ cache' = c /\ todo' = Cons(m, u)
    <3>1. <<m>> \o u = Cons(m, u)
      BY ConsOne
    <3> QED BY <1>3, <1>12, <2>6, <3>1 DEF Goto
  <2>8. d \notin C /\ Guarded(C, u) /\ d # n
    <3>1. Into(s) = {d} /\ Clears(s) = {}
      BY <1>2 DEF Into, Clears
    <3>2. C \ {} = C
      OBVIOUS
    <3>3. d # n
      BY <1>0, <2>1, NotSource DEF Copied
    <3> QED BY <1>3, <1>9, <3>1, <3>2, <3>3
  <2>9. PICK D : D = C \cup {n}
    OBVIOUS
  <2>10. Guarded(D, u) /\ d \notin D /\ DOMAIN c \subseteq D
    BY <1>0, <1>10, <2>1, <2>8, <2>9, GuardSource
  <2>11. m[1] = "rename" /\ m[2] = node /\ m[3] = d /\ node.file = objs[i].file
    BY <2>5
  <2>12. Into(m) \subseteq {d} /\ Clears(m) = {}
    BY <2>11 DEF Into, Clears
  <2>13. Guarded(D, Cons(m, u))
    BY <2>10, <2>12, GuardFront
  <2>14. Guarded(DOMAIN c, Cons(m, u))
    BY <2>10, <2>13, GuardLess
  <2>15. CASE ~objs[i].file
    BY <1>3, <1>7, <1>10, <2>1, <2>7, <2>11, <2>14, <2>15, QuietPlain
  <2>16. CASE objs[i].file
    <3>1. todo' # <<>> /\ (\A a : At(a)' <=> a = "rename") /\ Arg(2)' = node
      BY <2>7, <2>11, NextIs
    <3>2. Tells(cache, Owes)'
      <4>1. Owes' = {}
        BY <3>1 DEF Owes
      <4>2. Tells(c, {})'
        BY <1>7, <1>10, TellsSame
      <4> QED BY <2>7, <4>1, <4>2 DEF Tells
    <3>3. Cached' \subseteq DOMAIN c
      BY <2>7, <3>1 DEF Cached
    <3>4. Guarded(Cached, todo)'
      <4>1. PICK E : E = Cached'
        OBVIOUS
      <4>2. Guarded(E, Cons(m, u))
        BY <2>14, <3>3, <4>1, GuardLess
      <4> QED BY <2>7, <4>1, <4>2 DEF Guarded
    <3>5. Unread' /\ ~At("sendFile")'
      BY <3>1 DEF Unread
    <3>6. Roomy'
      BY <1>3, <1>7, <2>1, <2>7, <3>5, SameFilesRoom
    <3> QED BY <1>0, <2>7, <3>2, <3>4, <3>5, <3>6, SureOn
  <2> QED BY <2>15, <2>16
<1> QED BY <1>8, <1>9, <1>11, <1>12

(* The source of what was moved goes away.                                 *)
LEMMA GoneSure ==
  ASSUME Surely, ~At("sendFile"), NEW n, Src(n), Removes(n), Subtree(objs, n) = {n},
         localFiles' = localFiles, reply' = reply, NEW t \in Seq(GoodSteps), todo' = t,
         NEW c, Tells(c, {}), \A m \in DOMAIN c : m \in DOMAIN cache \/ Live(m),
         NEW L, ParentNode(n) \in L, cache' = Drop(c, L), n \notin DOMAIN cache', Guarded(DOMAIN c \ L, t)
  PROVE  SureInv'
<1>0. Base /\ Base' /\ Apart /\ Past /\ Past' /\ Roomy /\ Going /\ call' = call /\ pre' = pre
  BY SureFacts, GoingFacts
<1>1. PICK f, K, b : f = ParentNode(n) /\ K = {} /\ b = Drop(c, L)
  OBVIOUS
<1>2. Tells(c, K \cup {f})'
  <2>1. \A a, M, g : g = ParentNode(n) /\ Tells(a, M) => Tells(a, M \cup {g})'
    BY <1>0, TellsRemoves
  <2> QED BY <1>1, <2>1
<1>3. Tells(b, {})' /\ DOMAIN b = DOMAIN c \ L
  BY <1>1, <1>2 DEF Tells, Drop
<1>4. \A m \in DOMAIN cache' : m \in DOMAIN cache \/ Live(m)
  BY DEF Drop
<1>5. Keeps({n})
  BY <1>0, <1>4, RemoveKeeps
<1>6. PICK G : G = {n}
  OBVIOUS
<1>7. nextId \notin DOMAIN localFiles' /\ nextId' = nextId /\ \A i \in DOMAIN objs : Waits(i)' => Waits(i)
  <2>1. nextId \notin DOMAIN localFiles
    BY <1>0 DEF Base, CopiesInv, Issued, TypeOK, DeviceTypeOK
  <2> QED BY <2>1 DEF Waits, Removes
<1>8. Roomy'
  <2>1. ~At("sendFile")'
    BY GoodNext
  <2> QED BY <1>0, <1>5, <1>6, <1>7, <2>1, RoomOn
<1>9. Guarded(DOMAIN b, t)
  BY <1>3
<1> QED BY <1>0, <1>1, <1>3, <1>8, <1>9, TailOn

LEMMA RemoveSure ==
  ASSUME Surely, Tells(cache, Off), NEW u \in Seq(GoodSteps),
         NEW n, NEW d, Copied(n, d), todo = Cons(<<"remove", n, FALSE>>, u)
  PROVE  SureInv'
<1>0. Base /\ Base' /\ Apart /\ Going /\ faults' # faults - 1
  BY SureFacts
<1>1. PICK s : s = <<"remove", n, FALSE>>
  OBVIOUS
<1>2. s[1] = "remove" /\ s[2] = n /\ s[3] = FALSE
  BY <1>1
<1>3. /\ Tells(cache, {}) /\ ~At("sendFile") /\ At("remove") /\ Guarded(DOMAIN cache \ Clears(s), u)
      /\ Tail(todo) = u /\ Arg(2) = n /\ Arg(3) = FALSE
  BY <1>1, <1>2, PlainHead
<1>4. RemoveNode \/ ReadFails
  BY <1>3, WhichStep DEF Surely, Going
<1>5. SUFFICES ASSUME RemoveNode PROVE SureInv'
  BY <1>0, <1>3, <1>4, SureReads DEF Surely
<1>6. PICK r \in getItem(n) :
       \/ /\ NoDeviceChange /\ Throw("ENOTEMPTY", r.cache, localFiles)
       \/ /\ r.md.children = {}
          /\ DeviceCall(n \in DOMAIN objs, WithoutObject(n), nextId,
               Goto(<<>>, Drop(r.cache, {n, GetParentNodeId(r.md)}), localFiles),
               Throw("EIO", r.cache, localFiles))
  BY <1>3, <1>5 DEF RemoveNode
<1>7. PICK c, C : c = r.cache /\ C = DOMAIN cache
  OBVIOUS
<1>8. Tells(c, {}) /\ DOMAIN c \subseteq C \cup {n}
  <2>1. PICK N : N = {}
    OBVIOUS
  <2> QED BY <1>3, <1>7, <2>1, ItemKeeps
<1>9. CASE NoDeviceChange /\ Throw("ENOTEMPTY", r.cache, localFiles)
  <2>1. objs' = objs
    BY <1>9 DEF NoDeviceChange, device
  <2> QED BY <1>0, <1>7, <1>8, <1>9, <2>1, SureThrows
<1>10. CASE /\ r.md.children = {}
            /\ DeviceCall(n \in DOMAIN objs, WithoutObject(n), nextId,
               Goto(<<>>, Drop(r.cache, {n, GetParentNodeId(r.md)}), localFiles),
               Throw("EIO", r.cache, localFiles))
  <2>2. /\ Src(n) /\ ~objs[n].file /\ r.md = getMetadata(n) /\ \A m \in DOMAIN c : m \in DOMAIN cache \/ Live(m)
    BY <1>0, <1>7, CopiedAlive
  <2>3. n \in DOMAIN objs
    BY <2>2 DEF Src
  <2>4. Subtree(objs, n) = {n} /\ GetParentNodeId(r.md) = ParentNode(n)
    BY <1>0, <1>10, <2>2, <2>3, FolderEmpty, ParentIs
  <2>5. Removes(n) /\ Goto(<<>>, Drop(c, {n, GetParentNodeId(r.md)}), localFiles)
    BY <1>0, <1>7, <1>10, <2>3 DEF DeviceCall, Removes
  <2>6. PICK L : L = {n, GetParentNodeId(r.md)}
    OBVIOUS
  <2>7. <<>> \o u = u
    BY ConsOne
  <2>8. todo' = u /\ reply' = reply /\ localFiles' = localFiles /\ cache' = Drop(c, L) /\ ParentNode(n) \in L
    BY <1>3, <2>4, <2>5, <2>6, <2>7 DEF Goto
  <2>9. n \notin DOMAIN cache'
    BY <2>6, <2>8 DEF Drop
  <2>10. Guarded(C \cup {n}, u)
    <3>1. Clears(s) = {} /\ C \ {} = C
      BY <1>2 DEF Clears
    <3>2. Guarded(C, u)
      BY <1>3, <1>7, <3>1
    <3> QED BY <1>0, <2>2, <3>2, GuardSource
  <2>11. PICK D, E : D = C \cup {n} /\ E = DOMAIN c \ L
    OBVIOUS
  <2>12. Guarded(E, u)
    BY <1>8, <2>10, <2>11, GuardLess
  <2> QED BY <1>3, <1>8, <2>2, <2>4, <2>5, <2>8, <2>9, <2>11, <2>12, GoneSure
<1> QED BY <1>6, <1>9, <1>10

LEMMA DroppingSure ==
  ASSUME Surely, NEW t \in Seq(GoodSteps), Dropping(t)
  PROVE  SureInv'
<1>0. Base /\ Base' /\ Apart /\ Going /\ faults' # faults - 1 /\ IsStore(objs)
  BY SureFacts
<1>1. PICK n, f : /\ todo = Cons(<<"dropOriginal", n, f>>, t) /\ f = ParentNode(n)
                  /\ Src(n) /\ n \notin DOMAIN cache /\ objs[n].file
  BY DEF Dropping
<1>2. PICK s : s = <<"dropOriginal", n, f>>
  OBVIOUS
<1>3. s[1] = "dropOriginal" /\ s[2] = n /\ s[3] = f
  BY <1>2
<1>4. /\ Tells(cache, {}) /\ ~At("sendFile") /\ At("dropOriginal") /\ Guarded(DOMAIN cache \ Clears(s), t)
      /\ Tail(todo) = t /\ Arg(2) = n /\ Arg(3) = f
  BY <1>1, <1>2, <1>3, PlainHead
<1>5. DropOriginal
  BY <1>4, WhichStep DEF Surely, Going
<1>6. n \in DOMAIN objs /\ Subtree(objs, n) = {n}
  BY <1>0, <1>1, NothingInAFile DEF Src
<1>7. PICK c, L : c = cache /\ L = {f}
  OBVIOUS
<1>8. Removes(n) /\ Goto(<<>>, Drop(c, L), localFiles)
  BY <1>0, <1>4, <1>5, <1>6, <1>7 DEF DropOriginal, DeviceCall, Removes
<1>9. <<>> \o t = t
  BY ConsOne
<1>10. todo' = t /\ reply' = reply /\ localFiles' = localFiles /\ cache' = Drop(c, L) /\ ParentNode(n) \in L
  BY <1>1, <1>4, <1>7, <1>8, <1>9 DEF Goto
<1>11. n \notin DOMAIN cache' /\ \A m \in DOMAIN c : m \in DOMAIN cache \/ Live(m)
  BY <1>1, <1>7, <1>10 DEF Drop
<1>12. Guarded(DOMAIN c \ L, t)
  <2>1. PICK C : C = DOMAIN cache \ Clears(s)
    OBVIOUS
  <2>2. PICK E : E = DOMAIN c \ L
    OBVIOUS
  <2>3. Clears(s) = {}
    BY <1>3 DEF Clears
  <2>4. E \subseteq C
    BY <1>7, <2>1, <2>2, <2>3
  <2> QED BY <1>4, <2>1, <2>2, <2>4, GuardLess
<1> QED BY <1>1, <1>4, <1>6, <1>7, <1>8, <1>10, <1>11, <1>12, GoneSure

LEMMA ReadySure ==
  ASSUME Surely, Tells(cache, Off), NEW t \in Seq(GoodSteps), Ready(t)
  PROVE  SureInv'
<1>1. Fresh /\ todo = t /\ t # <<>>
  BY SureFacts, GoingFacts DEF Ready
<1>2. PICK s, u : s = Head(t) /\ u = Tail(t)
  OBVIOUS
<1>3. s \in GoodSteps /\ u \in Seq(GoodSteps) /\ todo = Cons(s, u)
  BY <1>1, <1>2, ConsAgain
<1>4. Good(s)
  BY <1>3 DEF GoodSteps
<1>5. ASSUME NEW K, s = <<"clearItems", K>> PROVE SureInv'
  BY <1>3, <1>5, ClearSure
<1>6. ASSUME NEW n, NEW d, s = <<"moveContents", n, d>>, Copied(n, d) PROVE SureInv'
  BY <1>3, <1>6, ContentsSure
<1>7. ASSUME NEW n, NEW d, NEW S, s = <<"moveRest", n, d, S>>, Copied(n, d) PROVE SureInv'
  BY <1>3, <1>7, RestSure
<1>8. ASSUME NEW n, NEW d, NEW name, s = <<"getNode", n, <<name>>, <<"child", d, name>> >>, Copied(n, d) PROVE SureInv'
  BY <1>3, <1>8, ChildSure
<1>9. ASSUME NEW n, NEW d, s = <<"remove", n, FALSE>>, Copied(n, d) PROVE SureInv'
  BY <1>3, <1>9, RemoveSure
<1> QED BY <1>4, <1>5, <1>6, <1>7, <1>8, <1>9 DEF Good

-----------------------------------------------------------------------------
(* A folder is told of by its own listing only.                            *)
LEMMA TellsRenames ==
  ASSUME Base, NEW n, NEW name, Renames(n, name)
  PROVE  \A c, K, f : f = ParentNode(n) /\ Tells(c, K) => Tells(c, K \cup {f})'
<1>1. n \in DOMAIN objs /\ DeviceTypeOK
  BY BaseFacts DEF Renames, MaySetName
<1>2. PICK x : x = [objs[n] EXCEPT !.name = name]
  OBVIOUS
<1>3. objs' = Put(objs, n, x)
  BY <1>2 DEF Renames, WithName
<1>4. objs[n] \in Object
  BY <1>1, ObjectFields DEF DeviceTypeOK, IsMap
<1>5. x.file = objs[n].file /\ x.parent = objs[n].parent /\ x.storage = objs[n].storage /\ x.data = objs[n].data
  BY <1>2, <1>4 DEF Object
<1>6. DOMAIN objs' = DOMAIN objs /\ objs'[n] = x /\ \A i \in DOMAIN objs \ {n} : objs'[i] = objs[i]
  BY <1>1, <1>3 DEF Put
<1>7. \A i \in DOMAIN objs : objs'[i].file = objs[i].file /\ objs'[i].parent = objs[i].parent
                             /\ objs'[i].storage = objs[i].storage /\ objs'[i].data = objs[i].data
  BY <1>5, <1>6
<1>8. ASSUME NEW s, NEW p, objs[n].parent # p \/ objs[n].storage # s PROVE GetFolderContents(s, p)' = GetFolderContents(s, p)
  <2>1. PICK I : I = Inside(p, s)
    OBVIOUS
  <2>2. Inside(p, s)' = I /\ n \notin I /\ I \subseteq DOMAIN objs
    BY <1>6, <1>7, <1>8, <2>1 DEF Inside
  <2>3. \A i \in I : objs'[i] = objs[i]
    BY <1>6, <2>2
  <2> QED BY <2>1, <2>2, <2>3 DEF GetFolderContents
<1>9. ASSUME NEW m, Live(m)', m # ParentNode(n) PROVE Live(m) /\ getMetadata(m)' = getMetadata(m)
  <2>1. CASE m \in Storages
    <3>1. GetFolderContents(m, 0)' = GetFolderContents(m, 0)
      BY <1>8, <1>9 DEF ParentNode
    <3> QED BY <2>1, <3>1 DEF getMetadata, Live
  <2>2. CASE m \in DOMAIN objs' /\ m \notin Storages
    <3>1. m # 0 /\ m \in DOMAIN objs
      BY <1>1, <1>6, <2>2, ObjectFields DEF ObjIds
    <3>2. GetFolderContents(objs[m].storage, m)' = GetFolderContents(objs[m].storage, m)
      <4>1. PICK s : s = objs[m].storage
        OBVIOUS
      <4>2. GetFolderContents(s, m)' = GetFolderContents(s, m)
        BY <1>8, <1>9, <3>1, <4>1 DEF ParentNode
      <4>3. objs'[m].storage = s
        BY <1>7, <3>1, <4>1
      <4> QED BY <4>1, <4>2, <4>3
    <3> QED BY <1>6, <1>7, <2>2, <3>1, <3>2 DEF getMetadata, Live
  <2> QED BY <1>9, <2>1, <2>2 DEF Live
<1> QED BY <1>9 DEF Tells

(* A new head whose list and cache are known.                              *)
LEMMA HeadOn ==
  ASSUME Surely, ~At("sendFile"), objs' = objs, nextId' = nextId, reply' = reply, localFiles' = localFiles,
         NEW c, cache' = c, Tells(c, {}), \A n \in DOMAIN c : n \in DOMAIN cache \/ Live(n),
         NEW U, NEW u \in Seq(U), NEW s, todo' = Cons(s, u), s[1] # "sendFile", s[1] # "getNode",
         NEW D, Cached' \subseteq D, Guarded(D, Cons(s, u))
  PROVE  SureInv'
<1>1. todo' # <<>> /\ (\A a : At(a)' <=> a = s[1])
  BY NextIs
<1>2. Tells(cache, Owes)'
  <2>1. Owes' = {}
    BY <1>1 DEF Owes
  <2>2. Tells(c, {})'
    BY TellsSame
  <2> QED BY <2>1, <2>2 DEF Tells
<1>3. Guarded(Cached, todo)'
  <2>1. PICK E : E = Cached'
    OBVIOUS
  <2>2. Guarded(E, Cons(s, u))
    BY <2>1, GuardLess
  <2> QED BY <2>1, <2>2 DEF Guarded
<1>4. Unread' /\ ~At("sendFile")'
  BY <1>1 DEF Unread
<1>5. Roomy'
  BY <1>4, SameFilesRoom
<1>6. Going
  BY DEF Surely
<1> QED BY <1>2, <1>3, <1>4, <1>5, <1>6, SureOn

LEMMA ArrivingSure ==
  ASSUME Surely, Len(call.path) > 1, Tells(cache, Off), NEW t \in Seq(GoodSteps), Arriving(t)
  PROVE  SureInv'
<1>0. Base /\ Base' /\ Going /\ NoTwins(objs) /\ Apart /\ IsStore(objs) /\ faults' # faults - 1 /\ Guarded(Cached, todo)
  BY SureFacts
<1>1. PICK node, d, name : /\ todo = Cons(<<"rename", node, d, name>>, t)
                           /\ Goes(node.id, d, name) /\ node.file = objs[node.id].file /\ Ends(PathOf(node.id), t)
  BY DEF Arriving
<1>2. PICK s, n : s = <<"rename", node, d, name>> /\ n = node.id
  OBVIOUS
<1>3. s[1] = "rename" /\ s[2] = node /\ s[3] = d /\ s[4] = name
  BY <1>2
<1>4. /\ todo = Cons(s, t) /\ Tail(todo) = t /\ At("rename") /\ ~At("sendFile") /\ Arg(2) = node /\ Arg(3) = d /\ Arg(4) = name
      /\ (\A a : At(a) <=> a = "rename")
  <2>1. todo = Cons(s, t)
    BY <1>1, <1>2
  <2>2. Tail(todo) = t /\ (\A a : At(a) <=> a = s[1]) /\ \A j : Arg(j) = s[j]
    BY <2>1, StepIs
  <2> QED BY <1>3, <2>1, <2>2
<1>5. Tells(cache, {})
  BY <1>4, SureFacts
<1>6. RenameFile \/ RenameFolder \/ Refuse \/ ReadFails
  BY <1>4, WhichStep DEF Surely, Going
<1>7. Goes(n, d, name) /\ node.file = objs[n].file /\ Ends(PathOf(n), t)
  BY <1>1, <1>2
<1>8. n \in DOMAIN objs /\ n \notin Storages /\ Live(n) /\ Src(n) /\ Live(d)
  BY <1>0, <1>7, GoesThere, NodePathType DEF Goes, Src
<1>9. CASE ReadFails
  BY <1>0, <1>5, <1>9, SureReads DEF Surely
<1>10. CASE Refuse
  BY <1>2, <1>4, <1>8, <1>10 DEF Refuse, At
<1>11. CASE RenameFile
  <2>1. PICK a, b, c, D : a = <<"fsync", n>> /\ b = <<"copyTo", n, d, name>> /\ c = cache /\ D = Cached
    OBVIOUS
  <2>2. <<a, b>> \o t = Cons(a, Cons(b, t))
    BY ConsMore
  <2>3. PICK u : u = Cons(b, t)
    OBVIOUS
  <2>4. u \in Seq(GoodSteps \cup {b})
    BY <2>3, ConsOne
  <2>5. /\ objs' = objs /\ nextId' = nextId /\ reply' = reply /\ localFiles' = localFiles /\ cache' = c
        /\ todo' = Cons(a, u) /\ node.file
    BY <1>2, <1>4, <1>11, <2>1, <2>2, <2>3 DEF RenameFile, NoDeviceChange, device, Goto
  <2>6. a[1] = "fsync" /\ a[2] = n /\ b[1] = "copyTo" /\ b[3] = d
    BY <2>1
  <2>7. Into(a) = {} /\ Clears(a) = {} /\ Into(b) = {d} /\ Clears(b) = {} /\ Into(s) = {d} /\ Clears(s) = {}
    BY <1>3, <2>5, <2>6 DEF Into, Clears
  <2>8. d \notin D /\ Guarded(D, t)
    <3>1. Guarded(D, Cons(s, t))
      BY <1>0, <1>4, <2>1
    <3>2. D \ {} = D
      OBVIOUS
    <3> QED BY <2>7, <3>1, <3>2, GuardCons
  <2>9. Guarded(D, u)
    BY <2>3, <2>7, <2>8, GuardFront
  <2>10. Guarded(D, Cons(a, u))
    BY <2>4, <2>7, <2>9, GuardFront
  <2>11. Cached' = D
    <3>1. (\A k : At(k)' <=> k = "fsync") /\ Arg(2)' = n
      BY <2>4, <2>5, <2>6, NextIs
    <3>2. ParentNode(n)' = ParentNode(n)
      BY <2>5 DEF ParentNode
    <3>3. Cached' = DOMAIN cache' \ {ParentNode(n)'}
      BY <3>1 DEF Cached
    <3>4. Cached = DOMAIN cache \ {ParentNode(n)}
      BY <1>2, <1>4, <2>5 DEF Cached
    <3> QED BY <2>1, <2>5, <3>2, <3>3, <3>4
  <2> QED BY <1>4, <1>5, <2>1, <2>4, <2>5, <2>6, <2>10, <2>11, HeadOn
<1>12. CASE RenameFolder
  <2>1. ~node.file
    BY <1>4, <1>12 DEF RenameFolder
  <2>2. PICK r \in getItem(n) :
         LET inPlace == FolderId(d) = r.md.parent /\ Head(call.new) = Head(call.path)
             stale   == {d, GetParentNodeId(r.md)}
         IN  \/ /\ inPlace
                /\ DeviceCall(MaySetName(n, name), WithName(n, name), nextId,
                     Goto(<<>>, Drop(r.cache, stale), localFiles),
                     Throw("EIO", r.cache, localFiles))
             \/ /\ ~inPlace /\ NoDeviceChange
                /\ Goto(<< <<"mkdir", d, name>>,
                           <<"getNode", d, <<name>>, <<"destDir", n>> >>,
                           <<"remove", n, FALSE>>,
                           <<"clearItems", stale>> >>, r.cache, localFiles)
    BY <1>2, <1>4, <1>12 DEF RenameFolder
  <2>3. PICK c, K, C : c = r.cache /\ K = {d, GetParentNodeId(r.md)} /\ C = DOMAIN cache
    OBVIOUS
  <2>4. r.md = getMetadata(n) /\ Tells(c, {}) /\ DOMAIN c = C \cup {n}
    <3>1. PICK M : M = {}
      OBVIOUS
    <3>2. r.md = getMetadata(n) /\ Tells(r.cache, M) /\ DOMAIN r.cache = DOMAIN cache \cup {n}
      BY <1>5, <1>8, <3>1, ItemTells
    <3> QED BY <2>3, <3>1, <3>2
  <2>5. ASSUME FolderId(d) = r.md.parent, Head(call.new) = Head(call.path),
               DeviceCall(MaySetName(n, name), WithName(n, name), nextId,
                     Goto(<<>>, Drop(c, K), localFiles),
                     Throw("EIO", c, localFiles))
        PROVE  SureInv'
    <3>1. CASE Throw("EIO", c, localFiles) /\ objs' = objs
      BY <1>0, <2>4, <3>1, SureThrows
    <3>2. (Throw("EIO", c, localFiles) /\ objs' = objs) \/ (Renames(n, name) /\ Goto(<<>>, Drop(c, K), localFiles))
      BY <1>0, <1>7, <2>5 DEF DeviceCall, device, Renames, Goes
    <3>3. SUFFICES ASSUME Renames(n, name), Goto(<<>>, Drop(c, K), localFiles)
                   PROVE  SureInv'
      BY <3>1, <3>2
    <3>4. ParentNode(n) = d /\ t = <<>>
      BY <1>0, <1>7, <2>4, <2>5, InPlace
    <3>5. PICK N, e, b : N = {} /\ e = ParentNode(n) /\ b = Drop(c, K)
      OBVIOUS
    <3>6. Tells(c, N \cup {e})'
      <4>1. \A a, M, g : g = ParentNode(n) /\ Tells(a, M) => Tells(a, M \cup {g})'
        BY <1>0, <3>3, TellsRenames
      <4> QED BY <2>4, <3>5, <4>1
    <3>7. Tells(b, {})'
      <4>1. e \in K
        BY <2>3, <3>4, <3>5
      <4> QED BY <3>5, <3>6, <4>1 DEF Tells, Drop
    <3>8. todo' = t /\ reply' = reply /\ cache' = b
      <4>1. <<>> \o t = t
        BY ConsOne
      <4> QED BY <1>4, <3>3, <3>5, <4>1 DEF Goto
    <3>9. Guarded(DOMAIN b, t)
      BY <3>4, GuardNothing
    <3> QED BY <1>0, <3>4, <3>7, <3>8, <3>9, TailOn
  <2>6. ASSUME NoDeviceChange,
               Goto(<< <<"mkdir", d, name>>,
                       <<"getNode", d, <<name>>, <<"destDir", n>> >>,
                       <<"remove", n, FALSE>>,
                       <<"clearItems", K>> >>, c, localFiles)
        PROVE  SureInv'
    <3>1. PICK m, g, k, h, l : /\ m = <<"mkdir", d, name>> /\ g = <<"getNode", d, <<name>>, k>> /\ k = <<"destDir", n>>
                               /\ h = <<"remove", n, FALSE>> /\ l = <<"clearItems", K>>
      OBVIOUS
    <3>2. PICK t1, t2, t3 : t1 = Cons(l, t) /\ t2 = Cons(h, t1) /\ t3 = Cons(g, t2)
      OBVIOUS
    <3>3. PICK V : V = GoodSteps \cup {l} \cup {h} \cup {g}
      OBVIOUS
    <3>4. t1 \in Seq(GoodSteps \cup {l})
      BY <3>2, ConsOne
    <3>5. t2 \in Seq(GoodSteps \cup {l} \cup {h})
      BY <3>2, <3>4, ConsOne
    <3>6. t3 \in Seq(V)
      BY <3>2, <3>3, <3>5, ConsOne
    <3>7. <<m, g, h, l>> \o t = Cons(m, t3)
      BY <3>2, ConsFour
    <3>8. /\ objs' = objs /\ nextId' = nextId /\ reply' = reply /\ localFiles' = localFiles /\ cache' = c /\ todo' = Cons(m, t3)
      BY <1>4, <2>6, <3>1, <3>7 DEF NoDeviceChange, device, Goto
    <3>9. m[1] = "mkdir" /\ m[2] = d /\ g[1] = "getNode" /\ g[4] = k /\ k[1] = "destDir" /\ h[1] = "remove" /\ l[1] = "clearItems" /\ l[2] = K
      BY <3>1
    <3>10. /\ Into(m) = {} /\ Clears(m) = {} /\ Into(g) = {} /\ Clears(g) = {} /\ Into(h) = {} /\ Clears(h) = {}
           /\ Into(l) = {} /\ Clears(l) = K /\ Into(s) = {} /\ Clears(s) = {}
      BY <1>3, <2>1, <3>9 DEF Into, Clears
    <3>11. PICK D : D = C \cup {n} \cup {d}
      OBVIOUS
    <3>12. Guarded(C \cup {n}, t)
      <4>1. Guarded(C, Cons(s, t))
        <5>1. Cached = C
          BY <1>4, <2>1, <2>3 DEF Cached
        <5> QED BY <1>0, <1>4, <5>1
      <4>2. C \ {} = C
        OBVIOUS
      <4>3. Guarded(C, t)
        BY <3>10, <4>1, <4>2, GuardCons
      <4> QED BY <1>0, <1>8, <4>3, GuardSource
    <3>13. Guarded(D, t1)
      <4>1. PICK A, B : A = D \ K /\ B = C \cup {n}
        OBVIOUS
      <4>2. A \subseteq B
        BY <2>3, <3>11, <4>1
      <4>3. Guarded(A, t)
        BY <3>12, <4>1, <4>2, GuardLess
      <4>4. Into(l) \cap D = {} /\ Guarded(D \ Clears(l), t)
        BY <3>10, <4>1, <4>3
      <4> QED BY <3>2, <4>4, GuardCons
    <3>14. Guarded(D, t2)
      BY <3>2, <3>4, <3>10, <3>13, GuardFront
    <3>15. Guarded(D, t3)
      BY <3>2, <3>5, <3>10, <3>14, GuardFront
    <3>16. Guarded(D, Cons(m, t3))
      BY <3>6, <3>10, <3>15, GuardFront
    <3>17. Cached' \subseteq D
      <4>1. (\A a : At(a)' <=> a = "mkdir") /\ Arg(2)' = d
        BY <3>6, <3>8, <3>9, NextIs
      <4>2. Cached' = DOMAIN cache' \cup {d}
        BY <4>1 DEF Cached
      <4> QED BY <2>4, <3>8, <3>11, <4>2
    <3>18. \A a \in DOMAIN c : a \in DOMAIN cache \/ Live(a)
      BY <1>8, <2>3, <2>4
    <3> QED BY <1>4, <2>4, <3>6, <3>8, <3>9, <3>16, <3>17, <3>18, HeadOn
  <2> QED BY <2>2, <2>3, <2>5, <2>6
<1> QED BY <1>6, <1>9, <1>10, <1>11, <1>12

LEMMA FlushSure ==
  ASSUME Surely, NEW t \in Seq(GoodSteps),
         NEW n, NEW d, NEW name, todo = Cons(<<"fsync", n>>, Cons(<<"copyTo", n, d, name>>, t)), Goes(n, d, name)
  PROVE  SureInv'
<1>0. Base /\ Going /\ Apart /\ Guarded(Cached, todo)
  BY SureFacts
<1>1. PICK s, b, u, D : s = <<"fsync", n>> /\ b = <<"copyTo", n, d, name>> /\ u = Cons(b, t) /\ D = Cached
  OBVIOUS
<1>2. u \in Seq(GoodSteps \cup {b})
  BY <1>1, ConsOne
<1>3. s[1] = "fsync" /\ s[2] = n /\ b[1] = "copyTo" /\ b[3] = d
  BY <1>1
<1>4. Tail(todo) = u /\ (\A a : At(a) <=> a = "fsync") /\ Arg(2) = n /\ todo = Cons(s, u)
  <2>1. todo = Cons(s, u)
    BY <1>1
  <2>2. Tail(todo) = u /\ (\A a : At(a) <=> a = s[1]) /\ \A j : Arg(j) = s[j]
    BY <1>2, <2>1, StepIs
  <2> QED BY <1>3, <2>1, <2>2
<1>5. At("fsync") /\ ~At("sendFile")
  BY <1>4
<1>6. Fsync \/ ReadFails
  BY <1>5, WhichStep DEF Surely, Going
<1>7. Tells(cache, {})
  BY <1>5, SureFacts
<1>8. SUFFICES ASSUME Fsync PROVE SureInv'
  BY <1>0, <1>6, <1>7, SureReads DEF Surely
<1>9. PICK r \in getItem(n) : Goto(<< <<"closeFile", n, {GetParentNodeId(r.md)}>> >>, Drop(r.cache, {n}), localFiles)
  BY <1>4, <1>8 DEF Fsync
<1>10. n \in DOMAIN objs /\ Live(n)
  BY <1>0, GoesThere
<1>11. PICK m, c, C : m = <<"closeFile", n, {GetParentNodeId(r.md)}>> /\ c = Drop(r.cache, {n}) /\ C = DOMAIN cache
  OBVIOUS
<1>12. objs' = objs /\ nextId' = nextId /\ reply' = reply /\ localFiles' = localFiles /\ cache' = c /\ todo' = Cons(m, u)
  <2>1. <<m>> \o u = Cons(m, u)
    BY <1>2, ConsOne
  <2> QED BY <1>4, <1>8, <1>9, <1>11, <2>1 DEF Fsync, NoDeviceChange, device, Goto
<1>13. r.md = getMetadata(n) /\ Tells(c, {}) /\ DOMAIN c \subseteq C
  <2>1. PICK M : M = {}
    OBVIOUS
  <2>2. r.md = getMetadata(n) /\ Tells(r.cache, M) /\ DOMAIN r.cache = DOMAIN cache \cup {n}
    BY <1>7, <1>10, <2>1, ItemTells
  <2>3. Tells(c, M)
    BY <1>11, <2>2, TellsLess
  <2> QED BY <1>11, <2>1, <2>2, <2>3 DEF Drop
<1>14. PICK p : p = ParentNode(n)
  OBVIOUS
<1>15. m[1] = "closeFile" /\ m[3] = {p}
  BY <1>0, <1>10, <1>11, <1>13, <1>14, ParentIs
<1>16. Into(s) = {} /\ Clears(s) = {} /\ Into(b) = {d} /\ Clears(b) = {} /\ Into(m) = {} /\ Clears(m) = {p}
  BY <1>3, <1>15 DEF Into, Clears
<1>17. Guarded(D, u) /\ D = C \ {p}
  <2>1. D \ {} = D
    OBVIOUS
  <2>2. Guarded(D, Cons(s, u))
    BY <1>0, <1>1, <1>4
  <2>3. Guarded(D, u)
    BY <1>2, <1>16, <2>1, <2>2, GuardCons
  <2> QED BY <1>1, <1>4, <1>11, <1>14, <2>3 DEF Cached
<1>18. Guarded(DOMAIN c, Cons(m, u))
  <2>1. PICK B, E : B = DOMAIN c /\ E = B \ {p}
    OBVIOUS
  <2>2. E \subseteq D
    BY <1>13, <1>17, <2>1
  <2>3. Guarded(E, u)
    BY <1>17, <2>2, GuardLess
  <2>4. Into(m) \cap B = {} /\ Guarded(B \ Clears(m), u)
    BY <1>16, <2>1, <2>3
  <2>5. Guarded(B, Cons(m, u))
    BY <1>2, <2>4, GuardCons
  <2> QED BY <2>1, <2>5
<1>19. \A k \in DOMAIN c : k \in DOMAIN cache \/ Live(k)
  BY <1>11, <1>13
<1> QED BY <1>2, <1>5, <1>12, <1>13, <1>15, <1>18, <1>19, QuietPlain

LEMMA CloseSure ==
  ASSUME Surely, NEW t \in Seq(GoodSteps), CloseFile,
         NEW n, NEW d, NEW name, NEW K, todo = Cons(<<"closeFile", n, K>>, Cons(<<"copyTo", n, d, name>>, t))
  PROVE  SureInv'
<1>0. Base /\ Going /\ Apart
  BY SureFacts
<1>1. PICK s, b, u : s = <<"closeFile", n, K>> /\ b = <<"copyTo", n, d, name>> /\ u = Cons(b, t)
  OBVIOUS
<1>2. u \in Seq(GoodSteps \cup {b})
  BY <1>1, ConsOne
<1>3. s[1] = "closeFile" /\ s[2] = n /\ s[3] = K /\ b[1] = "copyTo"
  BY <1>1
<1>4. /\ Tells(cache, {}) /\ ~At("sendFile") /\ Guarded(DOMAIN cache \ Clears(s), u)
      /\ Tail(todo) = u /\ Arg(2) = n /\ Arg(3) = K
  <2>1. todo = Cons(s, u)
    BY <1>1
  <2> QED BY <1>2, <1>3, <2>1, PlainHead
<1>5. PICK c : c = Drop(cache, K)
  OBVIOUS
<1>6. objs' = objs /\ nextId' = nextId /\ reply' = reply /\ localFiles' = Drop(localFiles, {n}) /\ cache' = c /\ todo' = u
  <2>1. <<>> \o u = u
    BY <1>2, ConsOne
  <2> QED BY <1>4, <1>5, <2>1 DEF CloseFile, NoDeviceChange, device, Goto
<1>7. Tells(c, {})' /\ \A k \in DOMAIN c : k \in DOMAIN cache \/ Live(k)
  <2>1. PICK M : M = {}
    OBVIOUS
  <2>2. Tells(c, M)
    BY <1>4, <1>5, <2>1, TellsLess
  <2>3. Tells(c, M)'
    BY <1>6, <2>2, TellsSame
  <2> QED BY <1>5, <2>1, <2>3 DEF Drop
<1>8. Guarded(DOMAIN c, u)
  <2>1. Clears(s) = K
    BY <1>3 DEF Clears
  <2>2. DOMAIN c = DOMAIN cache \ K
    BY <1>5 DEF Drop
  <2> QED BY <1>4, <2>1, <2>2
<1>9. ~At("sendFile")'
  <2>1. \A a : At(a)' <=> a = "copyTo"
    BY <1>1, <1>3, <1>6, NextIs
  <2> QED BY <2>1
<1>10. Roomy'
  <2>1. nextId \notin DOMAIN localFiles
    BY <1>0 DEF Base, CopiesInv, Issued, TypeOK, DeviceTypeOK
  <2>2. nextId \notin DOMAIN localFiles' /\ \A i : Waits(i)' => Waits(i)
    BY <1>6, <2>1 DEF Waits, Drop
  <2> QED BY <1>4, <1>6, <1>7, <1>9, <2>2, QuietRoom
<1> QED BY <1>0, <1>1, <1>3, <1>6, <1>7, <1>8, <1>10, PlainOn

-----------------------------------------------------------------------------
(* An image is made where nothing was, and one is due less.                *)
LEMMA NothingThere ==
  ASSUME Going, ~AcceptsDuplicates, NEW n, NEW d, NEW name, Goes(n, d, name),
         NEW x, x.parent = FolderId(d), x.storage = Head(call.new), x.name = name, MayAdd(x),
         NEW i \in DOMAIN objs
  PROVE  PathOf(i) # Image(PathOf(n))
<1>0. Base /\ NoTwins(objs) /\ Apart /\ IsStore(objs)
  BY GoingFacts
<1>1. PICK w, p, q : w = PathOf(n) /\ p = Image(w) /\ q = call.new
  OBVIOUS
<1>2. /\ w \in Seq(PathElem) /\ IsPrefix(call.path, w) /\ IsFolderNode(d) /\ name \in Names /\ Append(NodePath(d), name) = p
  BY <1>0, <1>1, GoesThere, NodePathType DEF Goes, Src
<1>3. p \in Seq(PathElem) /\ IsPrefix(q, p) /\ q \in Seq(PathElem) /\ Len(q) > 1
  BY <1>0, <1>1, <1>2, ImageParts DEF Apart
<1>4. p[1] = q[1] /\ q[1] = Head(q)
  <2>1. Len(q) <= Len(p) /\ Len(q) \in Nat /\ \A k \in 1 .. Len(q) : q[k] = p[k]
    BY <1>3, PrefixPointwise
  <2>2. 1 \in 1 .. Len(q)
    BY <1>3, <2>1
  <2> QED BY <1>3, <2>1, <2>2
<1>5. SUFFICES ASSUME PathOf(i) = p PROVE FALSE
  BY <1>1
<1>6. ParentNode(i) = d /\ objs[i].name = name
  BY <1>0, <1>2, <1>5, PathUnder
<1>7. objs[i].storage \in Storages /\ (objs[i].parent # 0 => objs[i].parent \in DOMAIN objs /\ objs[i].parent \notin Storages)
  BY <1>0, StoreFields, NodePathType, ObjectFields, BaseFacts DEF Live
<1>8. objs[i].parent = x.parent
  BY <1>6, <1>7 DEF ParentNode, FolderId
<1>9. objs[i].storage = x.storage
  <2>1. PathOf(i)[1] = objs[i].storage
    BY <1>0, PathLen DEF PathOf
  <2> QED BY <1>1, <1>4, <1>5, <2>1
<1> QED BY <1>6, <1>8, <1>9 DEF MayAdd, Inside

LEMMA ImageSure ==
  ASSUME Surely, ~AcceptsDuplicates, Parts(View, {}), ~At("sendFile"), ~At("sendFile")',
         NEW n, NEW d, NEW name, Goes(n, d, name),
         NEW x, x.parent = FolderId(d), x.storage = Head(call.new), x.name = name, Adds(x),
         FolderFor(x) = d, PathFor(x) = Image(PathOf(n)),
         nextId \notin DOMAIN localFiles', \A i : Waits(i)' => Waits(i),
         NEW c, cache' = c, Tells(c, {}), nextId \notin DOMAIN c, d \notin DOMAIN c, \A m \in DOMAIN c : m \in DOMAIN cache \/ Live(m)
  PROVE  Tells(c, {})' /\ Roomy'
<1>0. Base /\ Base' /\ Apart /\ Past /\ Past' /\ Roomy /\ Going /\ call' = call /\ pre' = pre
  BY SureFacts, GoingFacts
<1>1. Tells(c, {})'
  <2>1. PICK K, f : K = {} /\ f = FolderFor(x)
    OBVIOUS
  <2>2. \A b, M, g : g = FolderFor(x) /\ Tells(b, M) /\ nextId \notin DOMAIN b => Tells(b, M \cup {g})'
    BY <1>0, TellsAdds
  <2>3. Tells(c, K \cup {f})'
    BY <2>1, <2>2
  <2> QED BY <2>1, <2>3 DEF Tells
<1>2. /\ Keeps({})
      /\ \A k : k = nextId => PathOf(k)' = PathFor(x) /\ k \in DOMAIN objs' /\ objs'[k] = x
  BY <1>0, AddKeeps
<1>3. PICK G, v, k, p : G = {} /\ v = Item(n) /\ k = nextId /\ p = Image(PathOf(n))
  OBVIOUS
<1>4. Keeps(G)
  BY <1>2, <1>3
<1>5. v \in Due
  <2>1. v \in pre.view /\ Below(v, call.path)
    BY <1>0, <1>3, SourceWas DEF Goes
  <2>2. v.path = PathOf(n)
    BY <1>3 DEF Item
  <2>3. \A i \in DOMAIN objs : PathOf(i) # Image(v.path)
    BY <1>0, <2>2, NothingThere DEF Adds
  <2> QED BY <2>1, <2>3 DEF Due
<1>6. v \notin Due'
  <2>1. PathOf(k)' = p /\ k \in DOMAIN objs'
    BY <1>2, <1>3
  <2>2. \A s : Image(s)' = Image(s)
    BY <1>0, PartsAfter
  <2>3. PICK w : w = v.path /\ Image(w) = p
    BY <1>3 DEF Item
  <2>4. Image(w)' = p
    BY <2>2, <2>3
  <2>5. Image(v.path)' = p
    BY <2>3, <2>4 DEF Image
  <2> QED BY <2>1, <2>5 DEF Due
<1>7. nextId' = nextId + 1
  BY DEF Adds
<1>8. \A z \in Due \ Due' : nextId' = nextId + 1 /\ ~At("sendFile") /\ ~At("sendFile")' => Roomy'
  BY <1>0, <1>4, RoomOn
<1> QED BY <1>1, <1>5, <1>6, <1>7, <1>8

LEMMA CopySure ==
  ASSUME Surely, ~AcceptsDuplicates, Parts(View, {}), NEW t \in Seq(GoodSteps),
         NEW n, NEW d, NEW name, todo = Cons(<<"copyTo", n, d, name>>, t), Goes(n, d, name), objs[n].file, Ends(PathOf(n), t)
  PROVE  SureInv'
<1>0. Base /\ Base' /\ Apart /\ Going /\ IsStore(objs) /\ WellFormed(call) /\ faults' # faults - 1
  BY SureFacts, GoingFacts
<1>1. PICK s : s = <<"copyTo", n, d, name>>
  OBVIOUS
<1>2. s[1] = "copyTo" /\ s[2] = n /\ s[3] = d /\ s[4] = name
  BY <1>1
<1>3. /\ Tells(cache, {}) /\ ~At("sendFile") /\ At("copyTo") /\ Guarded(DOMAIN cache \ Clears(s), t)
      /\ Into(s) \cap DOMAIN cache = {} /\ Tail(todo) = t /\ Arg(2) = n /\ Arg(3) = d /\ Arg(4) = name
  <2>1. todo = Cons(s, t)
    BY <1>1
  <2> QED BY <1>2, <2>1, PlainHead
<1>4. CopyTo \/ ReadFails
  BY <1>3, WhichStep DEF Surely, Going
<1>5. SUFFICES ASSUME CopyTo PROVE SureInv'
  BY <1>0, <1>3, <1>4, SureReads DEF Surely
<1>6. /\ n \in DOMAIN objs /\ Live(n) /\ d \in NodeIds /\ name \in Names /\ n # d
  BY <1>0, GoesThere DEF Goes, Off
<1>7. PICK r \in getItem(n), files \in openFile(n) :
       LET new == NewObject(d, name, TRUE, files[n].data)
       IN  DeviceCall(MayAdd(new), WithObject(new), nextId + 1,
                Goto(<< <<"dropOriginal", n, GetParentNodeId(r.md)>> >>,
                     Drop(r.cache, {n, nextId}), files),
                Throw("EIO", r.cache, files))
  BY <1>3, <1>5 DEF CopyTo
<1>8. PICK x, b, c, C, f : /\ x = NewObject(d, name, TRUE, files[n].data) /\ b = r.cache /\ c = Drop(b, {n, nextId})
                           /\ C = DOMAIN cache /\ f = GetParentNodeId(r.md)
  OBVIOUS
<1>9. /\ Whole(files) /\ files[n].data \in Data
      /\ DOMAIN files = DOMAIN localFiles \cup {n} /\ \A i \in DOMAIN localFiles : files[i] = localFiles[i]
      /\ n \notin DOMAIN localFiles => files[n] = [data |-> objs[n].data, dirty |-> FALSE, broken |-> FALSE]
  BY <1>0, OpenContents DEF Going
<1>10. x \in Object /\ x.file = TRUE /\ x.parent = FolderId(d) /\ x.storage = Head(call.new) /\ x.name = name
  <2>1. x \in Object
    BY <1>0, <1>6, <1>8, <1>9, NewObjectType
  <2> QED BY <1>8, <2>1 DEF NewObject
<1>11. FolderFor(x) = d /\ PathFor(x) = Image(PathOf(n))
  BY <1>0, <1>10, NewThere
<1>12. Tells(b, {}) /\ DOMAIN b \subseteq C \cup {n}
  <2>1. PICK M : M = {}
    OBVIOUS
  <2> QED BY <1>3, <1>8, <2>1, ItemKeeps
<1>13. \/ Throw("EIO", b, files) /\ objs' = objs
       \/ Adds(x) /\ Goto(<< <<"dropOriginal", n, f>> >>, c, files)
  BY <1>0, <1>7, <1>8, <1>10 DEF DeviceCall, device, Adds
<1>14. CASE Throw("EIO", b, files) /\ objs' = objs
  <2>1. todo' = <<>> /\ reply'.code # "ok" /\ localFiles' = files /\ cache' = b
    BY <1>14 DEF Throw
  <2>2. Tells(b, {})'
    BY <1>12, <1>14, TellsSame
  <2> QED BY <1>9, <2>1, <2>2, SureStops DEF Tells, Whole
<1>15. CASE Adds(x) /\ Goto(<< <<"dropOriginal", n, f>> >>, c, files)
  <2>1. PICK a : a = <<"dropOriginal", n, f>>
    OBVIOUS
  <2>2. a[1] = "dropOriginal"
    BY <2>1
  <2>3. todo' = Cons(a, t) /\ reply' = reply /\ localFiles' = files /\ cache' = c
    <3>1. <<a>> \o t = Cons(a, t)
      BY ConsOne
    <3> QED BY <1>3, <1>15, <2>1, <3>1 DEF Goto
  <2>4. Tells(c, {}) /\ nextId \notin DOMAIN c /\ DOMAIN c \subseteq C
    <3>1. PICK M : M = {}
      OBVIOUS
    <3>2. Tells(c, M)
      BY <1>8, <1>12, <3>1, TellsLess
    <3> QED BY <1>8, <1>12, <3>1, <3>2 DEF Drop
  <2>5. Into(s) = {d} /\ Clears(s) = {} /\ Into(a) = {} /\ Clears(a) = {}
    BY <1>2, <2>2 DEF Into, Clears
  <2>6. d \notin DOMAIN c /\ \A m \in DOMAIN c : m \in DOMAIN cache \/ Live(m)
    BY <1>3, <1>8, <2>4, <2>5
  <2>7. Guarded(DOMAIN c, Cons(a, t))
    <3>1. C \ {} = C
      OBVIOUS
    <3>2. Guarded(C, t)
      BY <1>3, <1>8, <2>5, <3>1
    <3>3. PICK B : B = DOMAIN c
      OBVIOUS
    <3>4. Guarded(B, t)
      BY <2>4, <3>2, <3>3, GuardLess
    <3> QED BY <2>5, <3>3, <3>4, GuardFront
  <2>8. nextId \notin DOMAIN localFiles' /\ \A i : Waits(i)' => Waits(i)
    <3>1. nextId \notin DOMAIN localFiles'
      BY <1>0, <1>6, <1>9, <2>3, BaseFacts
    <3> QED BY <1>9, <2>3, <3>1 DEF Waits
  <2>9. ~At("sendFile")'
    <3>1. \A z : At(z)' <=> z = "dropOriginal"
      BY <2>2, <2>3, NextIs
    <3> QED BY <3>1
  <2>10. Tells(c, {})' /\ Roomy'
    BY <1>3, <1>10, <1>11, <1>15, <2>3, <2>4, <2>6, <2>8, <2>9, ImageSure
  <2> QED BY <1>0, <2>2, <2>3, <2>7, <2>10, PlainOn
<1> QED BY <1>13, <1>14, <1>15

-----------------------------------------------------------------------------
(* A file is written back: its object goes, and there is room for the new. *)
LEMMA DeleteSure ==
  ASSUME Surely, NEW t \in Seq(GoodSteps), DeleteOld,
         NEW n, NEW d, NEW name, todo = Cons(<<"closeFile", n, {ParentNode(n)}>>, Cons(<<"copyTo", n, d, name>>, t)),
         n \notin DOMAIN cache, Goes(n, d, name), objs[n].file
  PROVE  SureInv'
<1>0. /\ Base /\ Base' /\ NoTwins(objs) /\ Apart /\ Past /\ Past' /\ Roomy /\ Going /\ call' = call /\ pre' = pre
      /\ IsStore(objs) /\ faults' # faults - 1
  BY SureFacts, GoingFacts
<1>1. PICK p, K, s, b, u : /\ p = ParentNode(n) /\ K = {p} /\ s = <<"closeFile", n, K>>
                           /\ b = <<"copyTo", n, d, name>> /\ u = Cons(b, t)
  OBVIOUS
<1>2. u \in Seq(GoodSteps \cup {b})
  BY <1>1, ConsOne
<1>3. s[1] = "closeFile" /\ s[2] = n /\ s[3] = K
  BY <1>1
<1>4. /\ Tells(cache, {}) /\ ~At("sendFile") /\ Guarded(DOMAIN cache \ Clears(s), u)
      /\ Tail(todo) = u /\ Arg(2) = n /\ Arg(3) = K
  <2>1. todo = Cons(s, u)
    BY <1>1
  <2> QED BY <1>2, <1>3, <2>1, PlainHead
<1>5. PICK x, files, k : /\ x = [objs[n] EXCEPT !.data = localFiles[n].data] /\ files = [localFiles EXCEPT ![n].dirty = FALSE]
                         /\ k = nextId
  OBVIOUS
<1>6. /\ n \in DOMAIN localFiles /\ localFiles[n].dirty
      /\ DeviceCall(n \in DOMAIN objs, WithoutObject(n), nextId,
               Goto(<< <<"sendFile", n, K, x>> >>, cache, files),
               Throw("EIO", cache, Broken(n)))
  BY <1>4, <1>5 DEF DeleteOld
<1>7. /\ n \in DOMAIN objs /\ Src(n) /\ n \in DOMAIN objs \cap DOMAIN localFiles
      /\ localFiles[n] \in Copy /\ Subtree(objs, n) = {n} /\ ~localFiles[n].broken
  <2>1. n \in DOMAIN objs /\ Src(n)
    BY DEF Goes, Src
  <2> QED BY <1>0, <1>6, <2>1, CopiedIsFile, NothingInAFile DEF Going, Whole
<1>8. Removes(n) /\ Goto(<< <<"sendFile", n, K, x>> >>, cache, files)
  BY <1>0, <1>6, <1>7 DEF DeviceCall, device, Removes
<1>9. PICK m : m = <<"sendFile", n, K, x>>
  OBVIOUS
<1>10. m[1] = "sendFile" /\ m[3] = K /\ m[4] = x
  BY <1>9
<1>11. todo' = Cons(m, u) /\ reply' = reply /\ localFiles' = files /\ cache' = cache
  <2>1. <<m>> \o u = Cons(m, u)
    BY <1>2, ConsOne
  <2> QED BY <1>4, <1>8, <1>9, <2>1 DEF Goto
<1>12. todo' # <<>> /\ (\A a : At(a)' <=> a = "sendFile") /\ Arg(3)' = K /\ Arg(4)' = x
  <2>1. todo' # <<>> /\ (\A a : At(a)' <=> a = m[1]) /\ \A j : Arg(j)' = m[j]
    BY <1>2, <1>11, NextIs
  <2> QED BY <1>10, <2>1
<1>13. Tells(cache, Owes)'
  <2>1. PICK M, c : M = {} /\ c = cache
    OBVIOUS
  <2>2. Tells(c, M \cup {p})'
    <3>1. \A a, L, g : g = ParentNode(n) /\ Tells(a, L) => Tells(a, L \cup {g})'
      BY <1>0, <1>7, <1>8, TellsRemoves
    <3> QED BY <1>1, <1>4, <2>1, <3>1
  <2>3. Owes' = K
    BY <1>12 DEF Owes
  <2> QED BY <1>1, <1>11, <2>1, <2>2, <2>3 DEF Tells
<1>14. Guarded(Cached, todo)'
  <2>1. PICK C, D : C = DOMAIN cache /\ D = C \ K
    OBVIOUS
  <2>2. Clears(s) = K /\ Into(m) = {} /\ Clears(m) = K
    BY <1>3, <1>10 DEF Into, Clears
  <2>3. Guarded(D, u)
    BY <1>4, <2>1, <2>2
  <2>4. Guarded(C, Cons(m, u))
    <3>1. Into(m) \cap C = {} /\ Guarded(C \ Clears(m), u)
      BY <2>1, <2>2, <2>3
    <3> QED BY <1>2, <3>1, GuardCons
  <2>5. Cached' = C
    BY <1>11, <1>12, <2>1 DEF Cached
  <2> QED BY <1>11, <2>4, <2>5 DEF Guarded
<1>15. Roomy' /\ nextId \in ObjIds
  <2>1. n \notin DOMAIN cache' /\ \A j \in DOMAIN cache' : j \in DOMAIN cache \/ Live(j)
    BY <1>11
  <2>2. Keeps({n})
    BY <1>0, <1>7, <1>8, <2>1, RemoveKeeps
  <2>3. PICK G : G = {n}
    OBVIOUS
  <2>4. Keeps(G)
    BY <2>2, <2>3
  <2>5. DOMAIN files = DOMAIN localFiles /\ files[n].dirty = FALSE /\ \A i \in DOMAIN localFiles \ {n} : files[i] = localFiles[i]
    BY <1>5, <1>6, <1>7 DEF Copy
  <2>6. nextId \notin DOMAIN localFiles' /\ nextId' = nextId
    <3>1. nextId \notin DOMAIN localFiles
      BY <1>0 DEF Base, CopiesInv, Issued, TypeOK, DeviceTypeOK
    <3> QED BY <1>8, <1>11, <2>5, <3>1 DEF Removes
  <2>7. \A i \in DOMAIN objs : Waits(i)' => Waits(i)
    BY <1>6, <1>11, <2>5 DEF Waits
  <2>8. n \in Unsent \ Unsent'
    BY <1>6, <1>7, <1>11, <2>5 DEF Unsent, Waits
  <2>9. \A i \in Unsent \ Unsent' : nextId' = nextId /\ ~At("sendFile") => Roomy' /\ nextId \in ObjIds
    BY <1>0, <2>4, <2>6, <2>7, RoomOn
  <2> QED BY <1>4, <2>6, <2>8, <2>9
<1>16. MayAdd(Arg(4))'
  <2>1. MayAdd(x)'
    BY <1>0, <1>5, <1>7, <1>8, <1>15, SentAgain
  <2> QED BY <1>12, <2>1 DEF MayAdd, Inside
<1>17. Unread'
  BY <1>12 DEF Unread
<1> QED BY <1>0, <1>11, <1>13, <1>14, <1>15, <1>16, <1>17, SureOn

LEMMA FlushingSure ==
  ASSUME Surely, ~AcceptsDuplicates, Parts(View, {}), NEW t \in Seq(GoodSteps), Flushing(t)
  PROVE  SureInv'
<1>1. PICK n, d, name :
        /\ \/ todo = Cons(<<"fsync", n>>, Cons(<<"copyTo", n, d, name>>, t))
           \/ n \notin DOMAIN cache /\ todo = Cons(<<"closeFile", n, {ParentNode(n)}>>, Cons(<<"copyTo", n, d, name>>, t))
           \/ Clean(n) /\ todo = Cons(<<"copyTo", n, d, name>>, t)
        /\ Goes(n, d, name) /\ objs[n].file /\ Ends(PathOf(n), t)
  BY DEF Flushing
<1>2. CASE todo = Cons(<<"fsync", n>>, Cons(<<"copyTo", n, d, name>>, t))
  BY <1>1, <1>2, FlushSure
<1>3. CASE Clean(n) /\ todo = Cons(<<"copyTo", n, d, name>>, t)
  BY <1>1, <1>3, CopySure
<1>4. CASE n \notin DOMAIN cache /\ todo = Cons(<<"closeFile", n, {ParentNode(n)}>>, Cons(<<"copyTo", n, d, name>>, t))
  <2>1. PICK s, b, u : s = <<"closeFile", n, {ParentNode(n)}>> /\ b = <<"copyTo", n, d, name>> /\ u = Cons(b, t)
    OBVIOUS
  <2>2. u \in Seq(GoodSteps \cup {b}) /\ todo = Cons(s, u)
    BY <1>4, <2>1, ConsOne
  <2>3. \A a : At(a) <=> a = s[1]
    BY <2>2, StepIs
  <2>4. s[1] = "closeFile"
    BY <2>1
  <2>5. CloseFile \/ DeleteOld
    BY <2>3, <2>4, WhichStep DEF Surely, Going
  <2> QED BY <1>1, <1>4, <2>5, CloseSure, DeleteSure
<1> QED BY <1>1, <1>2, <1>3, <1>4

(* The file is sent as a new object, which takes the room left for it.     *)
LEMMA ReplacingSure ==
  ASSUME Surely, NEW t \in Seq(GoodSteps), Replacing(t)
  PROVE  SureInv'
<1>0. /\ Base /\ Base' /\ Apart /\ Past /\ Past' /\ Roomy /\ Going /\ call' = call /\ pre' = pre
      /\ faults' # faults - 1 /\ Tells(cache, Owes) /\ Guarded(Cached, todo) /\ (At("sendFile") => MayAdd(Arg(4)))
  BY SureFacts, GoingFacts
<1>1. PICK n, x, d, name :
        /\ todo = Cons(<<"sendFile", n, {FolderFor(x)}, x>>, Cons(<<"copyTo", n, d, name>>, t))
        /\ n \in DOMAIN localFiles \ DOMAIN objs /\ x \in Object /\ x.file /\ IsFolderNode(FolderFor(x))
  BY DEF Replacing
<1>2. PICK f, K, s, b, u : /\ f = FolderFor(x) /\ K = {f} /\ s = <<"sendFile", n, K, x>>
                           /\ b = <<"copyTo", n, d, name>> /\ u = Cons(b, t)
  OBVIOUS
<1>3. s[1] = "sendFile" /\ s[2] = n /\ s[3] = K /\ s[4] = x /\ b[1] = "copyTo" /\ b[3] = d
  BY <1>2
<1>4. /\ todo = Cons(s, u) /\ u \in Seq(GoodSteps \cup {b}) /\ Tail(todo) = u /\ (\A a : At(a) <=> a = "sendFile")
      /\ Arg(2) = n /\ Arg(3) = K /\ Arg(4) = x
  <2>1. todo = Cons(s, u) /\ u \in Seq(GoodSteps \cup {b})
    BY <1>1, <1>2, ConsOne
  <2>2. Tail(todo) = u /\ (\A a : At(a) <=> a = s[1]) /\ \A j : Arg(j) = s[j]
    BY <2>1, StepIs
  <2> QED BY <1>3, <2>1, <2>2
<1>5. At("sendFile") /\ MayAdd(x)
  BY <1>0, <1>4
<1>6. SendFile
  BY <1>5, WhichStep DEF Surely, Going
<1>7. f # n
  <2>1. n \in ObjIds
    BY <1>0, <1>1, BaseFacts, MapElements DEF TypeOK
  <2>2. n \notin Storages
    BY <2>1, DeviceAssumption
  <2> QED BY <1>1, <1>2, <2>2 DEF IsFolderNode
<1>8. PICK k, c : k = nextId /\ c = Drop(cache, K)
  OBVIOUS
<1>9. /\ Adds(x) /\ todo' = Renumber(u, n, k) /\ cache' = c /\ localFiles' = Drop(localFiles, {n}) /\ reply' = reply
  <2>1. {IF y = n THEN nextId ELSE y : y \in K} = K
    BY <1>2, <1>7
  <2>2. /\ MayAdd(x) /\ objs' = WithObject(x) /\ nextId' = nextId + 1
        /\ todo' = Renumber(Tail(todo), n, nextId)
        /\ cache' = Drop(cache, {IF y = n THEN nextId ELSE y : y \in K})
        /\ localFiles' = Drop(localFiles, {n}) /\ reply' = reply
    BY <1>0, <1>4, <1>5, <1>6 DEF SendFile, DeviceCall
  <2> QED BY <1>1, <1>4, <1>8, <2>1, <2>2 DEF Adds
<1>10. PICK z : z = <<"copyTo", k, d, name>>
  OBVIOUS
<1>11. todo' = Cons(z, t) /\ z[1] = "copyTo" /\ z[3] = d
  BY <1>2, <1>9, <1>10, RenumberRest
<1>12. Tells(c, {})'
  <2>1. \A C, J : Tells(C, J) /\ nextId \notin DOMAIN C => Tells(C, J \cup {f})'
    BY <1>0, <1>2, <1>9, TellsAdds
  <2>2. Tells(cache, K)
    BY <1>0, <1>4 DEF Owes
  <2>3. nextId \notin DOMAIN cache
    BY <1>0, <1>9, BaseFacts DEF Adds, MayAdd
  <2>4. PICK C : C = cache
    OBVIOUS
  <2>5. Tells(C, K \cup {f})'
    BY <2>1, <2>2, <2>3, <2>4
  <2>6. DOMAIN c = DOMAIN C \ {f} /\ \A m \in DOMAIN c : c[m] = C[m]
    BY <1>2, <1>8, <2>4 DEF Drop
  <2> QED BY <1>2, <2>5, <2>6 DEF Tells
<1>13. Guarded(DOMAIN c, Cons(z, t))
  <2>1. PICK C, D : C = DOMAIN cache /\ D = C \ K
    OBVIOUS
  <2>2. Into(s) = {} /\ Clears(s) = K /\ Into(b) = {d} /\ Clears(b) = {} /\ Into(z) = {d} /\ Clears(z) = {}
    BY <1>3, <1>11 DEF Into, Clears
  <2>3. Guarded(C, Cons(s, u))
    <3>1. Cached = C
      BY <1>4, <2>1 DEF Cached
    <3> QED BY <1>0, <1>4, <3>1
  <2>4. Guarded(D, Cons(b, t))
    <3>1. Guarded(C \ Clears(s), u)
      BY <1>4, <2>3, GuardCons
    <3> QED BY <1>2, <2>1, <2>2, <3>1
  <2>5. {d} \cap D = {} /\ Guarded(D, t)
    <3>1. D \ {} = D
      OBVIOUS
    <3> QED BY <2>2, <2>4, <3>1, GuardCons
  <2>6. DOMAIN c = D
    BY <1>8, <2>1 DEF Drop
  <2>7. Guarded(D, Cons(z, t))
    BY <2>2, <2>5, GuardFront
  <2> QED BY <2>6, <2>7
<1>14. Roomy'
  <2>1. Keeps({})
    <3>1. \A m \in DOMAIN cache' : m \in DOMAIN cache \/ Live(m)
      BY <1>8, <1>9 DEF Drop
    <3> QED BY <1>0, <1>9, <3>1, AddKeeps
  <2>2. PICK G : G = {}
    OBVIOUS
  <2>3. Keeps(G)
    BY <2>1, <2>2
  <2>4. nextId \notin DOMAIN localFiles' /\ \A i \in DOMAIN objs : Waits(i)' => Waits(i)
    <3>1. nextId \notin DOMAIN localFiles
      BY <1>0 DEF Base, CopiesInv, Issued, TypeOK, DeviceTypeOK
    <3> QED BY <1>9, <3>1 DEF Waits, Drop
  <2>5. ~At("sendFile")'
    <3>1. \A a : At(a)' <=> a = "copyTo"
      BY <1>11, NextIs
    <3> QED BY <3>1
  <2>6. nextId' = nextId + 1
    BY <1>9 DEF Adds
  <2>7. nextId' = nextId + 1 /\ At("sendFile") /\ ~At("sendFile")' => Roomy'
    BY <1>0, <2>3, <2>4, RoomOn
  <2> QED BY <1>5, <2>5, <2>6, <2>7
<1> QED BY <1>0, <1>9, <1>11, <1>12, <1>13, <1>14, PlainOn

-----------------------------------------------------------------------------
(* A folder is made where nothing was, and nobody has read it when it is   *)
(* found again.                                                            *)
LEMMA MakingSure ==
  ASSUME Surely, ~AcceptsDuplicates, Parts(View, {}), NEW t \in Seq(GoodSteps), Making(t)
  PROVE  SureInv'
<1>0. /\ Base /\ Base' /\ Apart /\ Past /\ Going /\ call' = call /\ pre' = pre /\ WellFormed(call)
      /\ faults' # faults - 1 /\ Guarded(Cached, todo)
  BY SureFacts, GoingFacts
<1>1. PICK n, d, name, K :
        /\ todo = Cons(<<"mkdir", d, name>>, Cons(<<"getNode", d, <<name>>, <<"destDir", n>> >>,
                       Cons(<<"remove", n, FALSE>>, Cons(<<"clearItems", K>>, t))))
        /\ Goes(n, d, name) /\ ~objs[n].file /\ Ends(PathOf(n), t)
  BY DEF Making
<1>2. PICK s, g, r, q, u, v, w, k :
        /\ s = <<"mkdir", d, name>> /\ g = <<"getNode", d, <<name>>, k>> /\ k = <<"destDir", n>> /\ r = <<"remove", n, FALSE>>
        /\ q = <<"clearItems", K>> /\ w = Cons(q, t) /\ v = Cons(r, w) /\ u = Cons(g, v)
  OBVIOUS
<1>3. PICK U : U = GoodSteps \cup {g, r, q}
  OBVIOUS
<1>4. v \in Seq(U) /\ u \in Seq(U)
  <2>1. t \in Seq(U) /\ g \in U /\ r \in U /\ q \in U
    BY <1>3, SeqMonotonic
  <2>2. w \in Seq(U)
    BY <1>2, <2>1, ConsOne
  <2>3. v \in Seq(U)
    BY <1>2, <2>1, <2>2, ConsOne
  <2>4. u \in Seq(U)
    BY <1>2, <2>1, <2>3, ConsOne
  <2> QED BY <2>3, <2>4
<1>5. s[1] = "mkdir" /\ s[2] = d /\ s[3] = name /\ g[1] = "getNode" /\ g[2] = d /\ g[4] = k /\ k[1] = "destDir" /\ k[2] = n
  BY <1>2
<1>6. /\ todo = Cons(s, u) /\ Tail(todo) = u /\ (\A a : At(a) <=> a = "mkdir") /\ Arg(2) = d /\ Arg(3) = name
  <2>1. todo = Cons(s, u)
    BY <1>1, <1>2
  <2>2. Tail(todo) = u /\ (\A a : At(a) <=> a = s[1]) /\ \A j : Arg(j) = s[j]
    BY <1>4, <2>1, StepIs
  <2> QED BY <1>5, <2>1, <2>2
<1>7. At("mkdir") /\ ~At("sendFile")
  BY <1>6
<1>8. Tells(cache, {})
  BY <1>7, SureFacts
<1>9. Mkdir
  BY <1>7, WhichStep DEF Surely, Going
<1>10. n \in DOMAIN objs /\ Src(n) /\ d \in NodeIds /\ name \in Names
  BY <1>0, <1>1, GoesThere DEF Goes, Off
<1>11. PICK x, c : x = NewObject(d, name, FALSE, <<>>) /\ c = Drop(cache, {d})
  OBVIOUS
<1>12. x \in Object /\ x.file = FALSE /\ x.data = <<>> /\ x.parent = FolderId(d) /\ x.storage = Head(call.new) /\ x.name = name
  <2>1. x \in Object
    BY <1>0, <1>10, <1>11, NewObjectType, EmptyIsData
  <2> QED BY <1>11, <2>1 DEF NewObject
<1>13. (Throw("EIO", cache, localFiles) /\ objs' = objs) \/ (Adds(x) /\ Goto(<<>>, c, localFiles))
  BY <1>0, <1>6, <1>9, <1>11, <1>12 DEF Mkdir, DeviceCall, device, Adds
<1>14. CASE Throw("EIO", cache, localFiles) /\ objs' = objs
  BY <1>0, <1>8, <1>14, SureThrows
<1>15. CASE Adds(x) /\ Goto(<<>>, c, localFiles)
  <2>1. todo' = u /\ reply' = reply /\ localFiles' = localFiles /\ cache' = c
    <3>1. <<>> \o u = u
      BY <1>4, ConsOne
    <3> QED BY <1>6, <1>15, <3>1 DEF Goto
  <2>2. todo' # <<>> /\ (\A a : At(a)' <=> a = "getNode") /\ Arg(2)' = d /\ Arg(4)' = k
    <3>1. todo' = Cons(g, v)
      BY <1>2, <2>1
    <3>2. todo' # <<>> /\ (\A a : At(a)' <=> a = g[1]) /\ Arg(2)' = g[2] /\ Arg(4)' = g[4]
      BY <1>4, <3>1, NextIs
    <3> QED BY <1>5, <3>2
  <2>3. FolderFor(x) = d /\ PathFor(x) = Image(PathOf(n))
    BY <1>0, <1>1, <1>12, NewThere
  <2>4. /\ Tells(c, {}) /\ nextId \notin DOMAIN c /\ d \notin DOMAIN c /\ DOMAIN c \subseteq DOMAIN cache
        /\ \A m \in DOMAIN c : m \in DOMAIN cache \/ Live(m)
    <3>1. PICK M : M = {}
      OBVIOUS
    <3>2. Tells(c, M)
      BY <1>8, <1>11, <3>1, TellsLess
    <3>3. nextId \notin DOMAIN cache
      BY <1>0, <1>15, BaseFacts DEF Adds, MayAdd
    <3> QED BY <1>11, <3>1, <3>2, <3>3 DEF Drop
  <2>5. nextId \notin DOMAIN localFiles' /\ \A i : Waits(i)' => Waits(i)
    <3>1. nextId \notin DOMAIN localFiles
      BY <1>0 DEF Base, CopiesInv, Issued, TypeOK, DeviceTypeOK
    <3> QED BY <2>1, <3>1 DEF Waits
  <2>6. ~At("sendFile")'
    BY <2>2
  <2>7. Tells(c, {})' /\ Roomy'
    BY <1>1, <1>7, <1>12, <1>15, <2>1, <2>3, <2>4, <2>5, <2>6, ImageSure
  <2>8. Tells(cache, Owes)'
    <3>1. Owes' = {}
      BY <2>2 DEF Owes
    <3> QED BY <2>1, <2>7, <3>1 DEF Tells
  <2>9. Guarded(Cached, todo)'
    <3>1. PICK D, E : D = Cached /\ E = DOMAIN cache' \cup {d}
      OBVIOUS
    <3>2. D = DOMAIN cache \cup {d}
      BY <1>6, <3>1 DEF Cached
    <3>3. E \subseteq D
      BY <2>1, <2>4, <3>1, <3>2
    <3>4. Into(s) = {} /\ Clears(s) = {} /\ D \ {} = D
      BY <1>5 DEF Into, Clears
    <3>5. Guarded(D, u)
      <4>1. Guarded(D, Cons(s, u))
        BY <1>0, <1>6, <3>1
      <4> QED BY <1>4, <3>4, <4>1, GuardCons
    <3>6. Guarded(E, u)
      BY <3>3, <3>5, GuardLess
    <3>7. Cached' = E
      BY <1>5, <2>2, <3>1 DEF Cached
    <3> QED BY <2>1, <3>6, <3>7 DEF Guarded
  <2>10. Unread'
    <3>1. Keeps({})
      <4>1. \A m \in DOMAIN cache' : m \in DOMAIN cache \/ Live(m)
        BY <2>1, <2>4
      <4> QED BY <1>0, <1>15, <4>1, AddKeeps
    <3>2. \A s1 : Image(s1)' = Image(s1)
      BY <1>0, PartsAfter
    <3>3. PICK p, a : a = PathOf(n) /\ p = Image(a)
      OBVIOUS
    <3>4. PathOf(n)' = a /\ Image(a)' = p
      BY <1>10, <3>1, <3>2, <3>3 DEF Keeps
    <3>5. ASSUME NEW i \in DOMAIN objs', PathOf(i)' = p PROVE i \notin DOMAIN cache'
      <4>1. CASE i \in DOMAIN objs
        <5>1. PathOf(i)' = PathOf(i)
          BY <3>1, <4>1 DEF Keeps
        <5>2. PathOf(i) # Image(PathOf(n))
          BY <1>0, <1>1, <1>12, <1>15, <4>1, NothingThere DEF Adds
        <5> QED BY <3>3, <3>5, <5>1, <5>2
      <4>2. CASE i = nextId
        BY <2>1, <2>4, <4>2
      <4> QED BY <3>1, <4>1, <4>2 DEF Keeps
    <3>6. Arg(4)'[2] = n
      BY <1>5, <2>2
    <3>7. Image(PathOf(n))' = p
      BY <3>4 DEF Image
    <3>8. \A i \in DOMAIN objs' : PathOf(i)' = Image(PathOf(Arg(4)[2]))' => i \notin DOMAIN cache'
      BY <3>5, <3>6, <3>7
    <3> QED BY <3>8 DEF Unread
  <2> QED BY <1>0, <2>1, <2>2, <2>7, <2>8, <2>9, <2>10, SureOn
<1> QED BY <1>13, <1>14, <1>15

LEMMA EnteringSure ==
  ASSUME Surely, NEW t \in Seq(GoodSteps), Entering(t)
  PROVE  SureInv'
<1>0. Base /\ Base' /\ NoTwins(objs) /\ Apart /\ Going /\ Guarded(Cached, todo) /\ Unread
  BY SureFacts, GoingFacts
<1>1. PICK n, d, name, e :
        /\ Fresh /\ todo = Cons(<<"getNode", d, <<name>>, <<"destDir", n>> >>, t)
        /\ Goes(n, d, name) /\ d \notin DOMAIN cache /\ Copied(n, e) /\ Leaves(t)
  BY DEF Entering
<1>2. PICK s, k, rest : s = <<"getNode", d, rest, k>> /\ k = <<"destDir", n>> /\ rest = <<name>>
  OBVIOUS
<1>3. s[1] = "getNode" /\ s[2] = d /\ s[3] = rest /\ s[4] = k /\ k[1] = "destDir" /\ k[2] = n
  BY <1>2
<1>4. todo = Cons(s, t) /\ Tail(todo) = t /\ (\A a : At(a) <=> a = "getNode") /\ Arg(2) = d /\ Arg(3) = rest /\ Arg(4) = k
  <2>1. todo = Cons(s, t)
    BY <1>1, <1>2
  <2>2. Tail(todo) = t /\ (\A a : At(a) <=> a = s[1]) /\ \A j : Arg(j) = s[j]
    BY <2>1, StepIs
  <2> QED BY <1>3, <2>1, <2>2
<1>5. At("getNode") /\ ~At("sendFile")
  BY <1>4
<1>6. Tells(cache, {})
  BY <1>5, SureFacts
<1>7. GetNode \/ ReadFails
  BY <1>5, WhichStep DEF Surely, Going
<1>8. SUFFICES ASSUME GetNode PROVE SureInv'
  BY <1>0, <1>6, <1>7, SureReads DEF Surely
<1>9. rest # <<>> /\ Len(rest) = 1 /\ Head(rest) = name
  BY <1>2
<1>10. /\ objs' = objs /\ nextId' = nextId
       /\ \E r \in getItem(d) :
           \/ Throw("ENOENT", r.cache, localFiles)
           \/ \E a \in r.md.children : /\ a.name = name
                                       /\ Goto(Then(k, [id |-> a.id, file |-> a.file]), r.cache, localFiles)
  BY <1>4, <1>8, <1>9 DEF GetNode, NoDeviceChange, device
<1>11. PICK r \in getItem(d) :
           \/ Throw("ENOENT", r.cache, localFiles)
           \/ \E a \in r.md.children : /\ a.name = name
                                       /\ Goto(Then(k, [id |-> a.id, file |-> a.file]), r.cache, localFiles)
  BY <1>10
<1>12. PICK c, C, md : c = r.cache /\ C = DOMAIN cache /\ md = getMetadata(d)
  OBVIOUS
<1>13. Tells(c, {}) /\ DOMAIN c \subseteq C \cup {d}
  <2>1. PICK M : M = {}
    OBVIOUS
  <2> QED BY <1>6, <1>12, <2>1, ItemKeeps
<1>14. CASE Throw("ENOENT", c, localFiles)
  BY <1>0, <1>10, <1>13, <1>14, SureThrows
<1>15. r.md = md
  BY <1>1, <1>12 DEF getItem
<1>16. PICK p : p = Image(PathOf(n))
  OBVIOUS
<1>17. /\ IsFolderNode(d) /\ Live(d) /\ NodePath(d) \in Seq(PathElem) /\ name \in Names
       /\ Append(NodePath(d), name) = p /\ IsFolderNode(e) /\ NodePath(e) = p /\ Live(e)
       /\ e \in DOMAIN objs /\ PathOf(e) = p
  <2>1. Live(e)
    BY <1>1 DEF Copied, IsFolderNode, Live
  <2>2. NodePath(e) = p
    BY <1>1, <1>16 DEF Copied, Goes, Src
  <2>3. e \in DOMAIN objs
    BY <1>0, <1>1, NotSource DEF Copied
  <2>4. PathOf(e) = p
    BY <1>0, <2>2, <2>3, BaseFacts, NodePathType DEF Live
  <2> QED BY <1>0, <1>1, <1>16, <2>1, <2>2, <2>3, <2>4, GoesThere, NodePathType DEF Goes, Copied
<1>18. e \notin C \cup {d}
  <2>1. e \notin C
    BY <1>0, <1>3, <1>4, <1>12, <1>16, <1>17 DEF Unread
  <2>2. e # d
    <3>1. PICK z : z = NodePath(d)
      OBVIOUS
    <3>2. z \in Seq(PathElem) /\ Append(z, name) = p
      BY <1>17, <3>1
    <3>3. Len(p) = Len(z) + 1 /\ Len(z) \in Nat
      BY <3>2, LenProperties, AppendProperties DEF PathElem
    <3> QED BY <1>17, <3>1, <3>3
  <2> QED BY <2>1, <2>2
<1>19. ASSUME NEW a \in r.md.children, a.name = name, Goto(Then(k, [id |-> a.id, file |-> a.file]), c, localFiles)
       PROVE  SureInv'
  <2>1. getMetadata(d).children =
           {[id |-> i, name |-> objs[i].name, file |-> objs[i].file] : i \in {j \in DOMAIN objs : ParentNode(j) = d}}
    BY <1>0, <1>17, FolderHolds
  <2>2. PICK i \in DOMAIN objs : ParentNode(i) = d /\ a = [id |-> i, name |-> objs[i].name, file |-> objs[i].file]
    BY <1>12, <1>15, <1>19, <2>1
  <2>3. a.id = i /\ objs[i].name = name /\ a.file = objs[i].file
    BY <1>19, <2>2
  <2>4. NodePath(i) = Append(NodePath(d), name) /\ Live(i)
    BY <1>0, <2>2, <2>3, ChildPath DEF Live
  <2>5. i = e
    BY <1>0, <1>17, <2>4, NodesUnique
  <2>6. PICK m : m = <<"moveContents", n, e>>
    OBVIOUS
  <2>7. Then(k, [id |-> a.id, file |-> a.file]) = <<m>>
    BY <1>2, <2>3, <2>5, <2>6 DEF Then
  <2>8. reply' = reply /\ localFiles' = localFiles /\ cache' = c /\ todo' = Cons(m, t)
    <3>1. <<m>> \o t = Cons(m, t)
      BY ConsOne
    <3> QED BY <1>4, <1>19, <2>7, <3>1 DEF Goto
  <2>9. m[1] = "moveContents" /\ m[3] = e
    BY <2>6
  <2>10. Guarded(DOMAIN c, Cons(m, t))
    <3>1. PICK D : D = C \cup {d}
      OBVIOUS
    <3>2. Cached = D
      BY <1>3, <1>4, <1>12, <3>1 DEF Cached
    <3>3. Into(s) = {} /\ Clears(s) = {} /\ Into(m) = {e} /\ Clears(m) = {} /\ D \ {} = D
      BY <1>3, <2>9 DEF Into, Clears
    <3>4. Guarded(D, t)
      <4>1. Guarded(D, Cons(s, t))
        BY <1>0, <1>4, <3>2
      <4> QED BY <3>3, <4>1, GuardCons
    <3>5. Into(m) \cap D = {}
      BY <1>18, <3>1, <3>3
    <3>6. Guarded(D, Cons(m, t))
      BY <3>3, <3>4, <3>5, GuardFront
    <3>7. PICK B : B = DOMAIN c
      OBVIOUS
    <3>8. B \subseteq D
      BY <1>13, <3>1, <3>7
    <3> QED BY <3>6, <3>7, <3>8, GuardLess
  <2>11. \A j \in DOMAIN c : j \in DOMAIN cache \/ Live(j)
    BY <1>12, <1>13, <1>17
  <2> QED BY <1>5, <1>10, <1>13, <2>8, <2>9, <2>10, <2>11, QuietPlain
<1> QED BY <1>11, <1>12, <1>14, <1>19

-----------------------------------------------------------------------------
(* The paths are looked up.                                                *)
(* One step is left, and it moves nothing into a folder that is cached.    *)
LEMMA OneSure ==
  ASSUME Surely, ~At("sendFile"), objs' = objs, nextId' = nextId, reply' = reply, localFiles' = localFiles,
         NEW c, cache' = c, Tells(c, {}), \A n \in DOMAIN c : n \in DOMAIN cache \/ Live(n),
         NEW s, todo' = <<s>>,
         \/ s[1] = "getNode" /\ s[4][1] \in {"source", "newParent"}
         \/ s[1] = "rename" /\ Into(s) \cap Cached' = {}
  PROVE  SureInv'
<1>1. PICK u : u = <<>>
  OBVIOUS
<1>2. u \in Seq({}) /\ todo' = Cons(s, u)
  <2>1. u \in Seq({})
    BY <1>1
  <2>2. <<s>> \o u = Cons(s, u) /\ <<s>> \o <<>> = <<s>>
    BY <2>1, ConsOne, ShortConcat
  <2> QED BY <1>1, <2>1, <2>2
<1>3. \A D : Into(s) \cap D = {} => Guarded(D, Cons(s, u))
  <2> TAKE D
  <2>1. Guarded(D \ Clears(s), u)
    BY <1>1, GuardNothing
  <2> QED BY <1>2, <2>1, GuardCons
<1>4. CASE s[1] = "getNode" /\ s[4][1] \in {"source", "newParent"}
  <2>1. Into(s) = {}
    BY <1>4 DEF Into
  <2>2. Guarded(DOMAIN c, Cons(s, u))
    BY <1>3, <2>1
  <2>3. s[4][1] # "destDir"
    BY <1>4
  <2> QED BY <1>2, <1>4, <2>2, <2>3, QuietPlain
<1>5. CASE s[1] = "rename" /\ Into(s) \cap Cached' = {}
  <2>1. PICK D : D = Cached'
    OBVIOUS
  <2>2. Guarded(D, Cons(s, u))
    BY <1>3, <1>5, <2>1
  <2>3. Cached' \subseteq D
    BY <2>1
  <2> QED BY <1>2, <1>5, <2>2, <2>3, HeadOn
<1> QED BY <1>4, <1>5

(* A file that stays in its folder is moved into the folder it is in.      *)
LEMMA SameFolder ==
  ASSUME Base, NoTwins(objs), Apart, ~MovesFile, call.op = "rename", View = pre.view,
         NEW n \in DOMAIN objs, PathOf(n) = call.path, objs[n].file, NEW d, IsFolderNode(d), NodePath(d) = Front(call.new)
  PROVE  ParentNode(n) = d
<1>1. Front(call.path) = Front(call.new)
  <2>1. PICK v : v = Item(n)
    OBVIOUS
  <2>2. v \in pre.view
    BY <2>1, ViewItems
  <2>3. objs[n].file = TRUE
    BY BaseFacts, ObjectFields
  <2>4. v.path = call.path /\ v.file = TRUE
    BY <2>1, <2>3 DEF Item
  <2>5. [path |-> call.path, file |-> TRUE] \in {[path |-> w.path, file |-> w.file] : w \in pre.view}
    BY <2>2, <2>4
  <2> QED BY <2>5 DEF MovesFile
<1>2. PICK f, z, e, p : f = ParentNode(n) /\ z = NodePath(f) /\ e = objs[n].name /\ p = call.path
  OBVIOUS
<1>3. IsFolderNode(f) /\ Live(f) /\ e \in PathElem /\ NodePath(n) = Append(z, e)
  BY <1>2, ChildPath
<1>4. NodePath(n) = p /\ z \in Seq(PathElem) /\ Len(p) > 1 /\ p \in Seq(PathElem)
  BY <1>2, <1>3, NodePathType DEF Live, Apart
<1>5. z = Front(p)
  <2>1. Append(Front(p), Last(p)) = p /\ Front(p) \in Seq(PathElem) /\ Last(p) \in PathElem
    BY <1>4, FrontLast
  <2>2. PICK y, g : y = Front(p) /\ g = Last(p)
    OBVIOUS
  <2>3. y \in Seq(PathElem) /\ g \in PathElem /\ Append(y, g) = Append(z, e)
    BY <1>3, <1>4, <2>1, <2>2
  <2>4. PICK E : E = PathElem
    OBVIOUS
  <2>5. y \in Seq(E) /\ g \in E /\ z \in Seq(E) /\ e \in E /\ Append(y, g) = Append(z, e)
    BY <1>3, <1>4, <2>3, <2>4
  <2>6. y = z
    BY <2>5, AppendInjective
  <2> QED BY <2>2, <2>6
<1>6. Live(d) /\ NodePath(d) = NodePath(f)
  BY <1>1, <1>2, <1>5 DEF Live, IsFolderNode
<1> QED BY <1>2, <1>3, <1>6, NodesUnique

-----------------------------------------------------------------------------
LEMMA LookingSure ==
  ASSUME Surely, Looking
  PROVE  SureInv'
<1>0. Going /\ Base /\ NoTwins(objs) /\ Apart /\ call.new \in LongPath /\ call.op = "rename" /\ ~MovesFile /\ faults' = faults
  BY SureFacts, GoingFacts DEF Surely, Going
<1>1. PICK m : Live(m) /\ NodePath(m) = call.path
  BY DEF Looking
<1>2. PICK f : IsFolderNode(f) /\ NodePath(f) = Front(call.new)
  BY DEF Looking
<1>3. Tells(cache, {}) /\ View = pre.view
  BY DEF Looking
<1>4. PICK p, q : p = call.path /\ q = call.new
  OBVIOUS
<1>5. Front(q) \in Path /\ Front(q) # <<>> /\ Front(q) \in Seq(PathElem)
  BY <1>0, <1>4, LongPathParts DEF Path, PathElem
<1>6. ASSUME NEW dir, NEW rest, NEW k, NEW r, Walking(dir, rest, r), todo = << <<"getNode", dir, rest, k>> >>,
             k[1] \in {"source", "newParent"}
      PROVE  /\ ~At("sendFile")
             /\ \/ SureInv'
                \/ /\ objs' = objs /\ nextId' = nextId /\ reply' = reply /\ localFiles' = localFiles
                   /\ \E c : /\ cache' = c /\ Tells(c, {}) /\ \A n \in DOMAIN c : n \in DOMAIN cache \/ Live(n)
                   /\ \E node : FoundAt(node, r) /\ todo' = Then(k, node) \o <<>>
  <2>1. ~At("sendFile")
    <3>1. PICK s : s = <<"getNode", dir, rest, k>>
      OBVIOUS
    <3>2. Head(todo) = s /\ s[1] = "getNode"
      BY <1>6, <3>1, ShortConcat
    <3> QED BY <3>2 DEF At
  <2>2. CASE ReadFails
    BY <1>0, <1>3, <2>1, <2>2, SureReads
  <2>3. ASSUME objs' = objs, NEW c, Tells(c, {}), Throw("ENOENT", c, localFiles) PROVE SureInv'
    <3>1. PICK code : code = "ENOENT"
      OBVIOUS
    <3>2. code # "ok" /\ Throw(code, c, localFiles)
      BY <2>3, <3>1
    <3> QED BY <1>0, <2>3, <3>2, SureThrows
  <2>4. ASSUME objs' = objs, nextId' = nextId, reply' = reply, localFiles' = localFiles,
               NEW c, cache' = c, Tells(c, {}), \A n \in DOMAIN c : n \in DOMAIN cache \/ Live(n),
               NEW d, NEW t, todo' = << <<"getNode", d, t, k>> >>
        PROVE  SureInv'
    <3>1. PICK s : s = <<"getNode", d, t, k>>
      OBVIOUS
    <3>2. s[1] = "getNode" /\ s[4] = k /\ todo' = <<s>>
      BY <2>4, <3>1
    <3>3. s[1] = "getNode" /\ s[4][1] \in {"source", "newParent"}
      BY <1>6, <3>2
    <3> QED BY <2>1, <2>4, <3>2, <3>3, OneSure
  <2>5. \/ ReadFails
        \/ objs' = objs /\ \E c : Tells(c, {}) /\ Throw("ENOENT", c, localFiles)
        \/ /\ objs' = objs /\ nextId' = nextId /\ reply' = reply /\ localFiles' = localFiles
           /\ \E c : cache' = c /\ Tells(c, {}) /\ \A n \in DOMAIN c : n \in DOMAIN cache \/ Live(n)
           /\ \/ \E d, t : Walking(d, t, r) /\ todo' = << <<"getNode", d, t, k>> >>
              \/ \E node : FoundAt(node, r) /\ todo' = Then(k, node) \o <<>>
    BY <1>0, <1>3, <1>6, Walks
  <2> QED BY <2>1, <2>2, <2>3, <2>4, <2>5
<1>7. ASSUME NEW dir, NEW rest, Walking(dir, rest, p), todo = << <<"getNode", dir, rest, <<"source", q>> >> >>
      PROVE  SureInv'
  <2>1. PICK k : k = <<"source", q>>
    OBVIOUS
  <2>2. k[1] \in {"source", "newParent"} /\ todo = << <<"getNode", dir, rest, k>> >>
    BY <1>7, <2>1
  <2>3. SUFFICES ASSUME objs' = objs, nextId' = nextId, reply' = reply, localFiles' = localFiles,
                        NEW c, cache' = c, Tells(c, {}), \A n \in DOMAIN c : n \in DOMAIN cache \/ Live(n),
                        NEW node, FoundAt(node, p), todo' = Then(k, node) \o <<>>
                 PROVE  SureInv'
    BY <1>6, <1>7, <2>2
  <2>4. PICK d, t, k2 : d = Head(Front(q)) /\ t = Tail(Front(q)) /\ k2 = <<"newParent", node, Last(q)>>
    OBVIOUS
  <2>5. PICK w : w = <<"getNode", d, t, k2>>
    OBVIOUS
  <2>6. Then(k, node) = <<w>>
    BY <2>1, <2>4, <2>5 DEF Then, Lookup
  <2>7. todo' = <<w>>
    BY <2>3, <2>6, ShortConcat
  <2>8. w[1] = "getNode" /\ w[4] = k2 /\ k2[1] = "newParent"
    BY <2>4, <2>5
  <2>9. w[1] = "getNode" /\ w[4][1] \in {"source", "newParent"}
    BY <2>8
  <2>10. ~At("sendFile")
    BY <1>6, <1>7, <2>2
  <2> QED BY <2>3, <2>7, <2>9, <2>10, OneSure
<1>8. ASSUME NEW dir, NEW rest, NEW node, Walking(dir, rest, Front(q)), FoundAt(node, p),
             todo = << <<"getNode", dir, rest, <<"newParent", node, Last(q)>> >> >>
      PROVE  SureInv'
  <2>1. PICK k, r : k = <<"newParent", node, Last(q)>> /\ r = Front(q)
    OBVIOUS
  <2>2. k[1] \in {"source", "newParent"} /\ todo = << <<"getNode", dir, rest, k>> >> /\ Walking(dir, rest, r)
    BY <1>8, <2>1
  <2>3. SUFFICES ASSUME objs' = objs, nextId' = nextId, reply' = reply, localFiles' = localFiles,
                        NEW c, cache' = c, Tells(c, {}), \A n \in DOMAIN c : n \in DOMAIN cache \/ Live(n),
                        NEW to, FoundAt(to, r), todo' = Then(k, to) \o <<>>
                 PROVE  SureInv'
    BY <1>6, <2>2
  <2>4. PICK d, name, w : d = to.id /\ name = Last(q) /\ w = <<"rename", node, d, name>>
    OBVIOUS
  <2>5. Then(k, to) = <<w>>
    BY <2>1, <2>4 DEF Then
  <2>6. todo' = <<w>>
    BY <2>3, <2>5, ShortConcat
  <2>7. /\ node.id \in Storages => ~node.file
        /\ node.id \notin Storages => /\ Src(node.id) /\ PathOf(node.id) = call.path
                                      /\ node.file = objs[node.id].file /\ Len(call.path) > 1
    BY <1>0, <1>1, <1>4, <1>8, SourceFound
  <2>8. IsFolderNode(d) /\ NodePath(d) = Front(call.new)
    BY <1>0, <1>2, <1>4, <1>5, <2>1, <2>3, <2>4, FolderFound
  <2>9. w[1] = "rename" /\ w[2] = node /\ w[3] = d
    BY <2>4
  <2>10. Into(w) = IF node.file THEN {d} ELSE {}
    BY <2>9 DEF Into
  <2>11. Into(w) \cap Cached' = {}
    <3>1. SUFFICES ASSUME node.file PROVE d \notin Cached'
      BY <2>10
    <3>2. ParentNode(node.id) = d
      <4>1. PICK n : n = node.id
        OBVIOUS
      <4>2. n \in DOMAIN objs /\ PathOf(n) = call.path /\ objs[n].file
        BY <2>7, <3>1, <4>1 DEF Src
      <4>3. ParentNode(n) = d
        BY <1>0, <1>3, <2>8, <4>2, SameFolder
      <4> QED BY <4>1, <4>3
    <3>3. ParentNode(node.id)' = d
      BY <2>3, <3>2 DEF ParentNode
    <3>4. At("rename")' /\ Arg(2)' = node
      <4>1. Head(todo') = w /\ todo' # <<>>
        BY <2>6
      <4> QED BY <2>9, <4>1 DEF At, Arg
    <3>5. ~At("mkdir")' /\ ~At("getNode")' /\ ~At("fsync")'
      BY <3>4 DEF At
    <3>6. Cached' = DOMAIN cache' \ {ParentNode(node.id)'}
      BY <3>1, <3>4, <3>5 DEF Cached
    <3> QED BY <3>3, <3>6
  <2>12. ~At("sendFile")
    BY <1>6, <2>2
  <2> QED BY <2>3, <2>6, <2>9, <2>11, <2>12, OneSure
<1>9. ASSUME NEW node, NEW d, NEW name, node.id \in Storages, ~node.file, todo = << <<"rename", node, d, name>> >>
      PROVE  SureInv'
  <2>1. PICK s : s = <<"rename", node, d, name>>
    OBVIOUS
  <2>2. Head(todo) = s /\ todo # <<>>
    BY <1>9, <2>1, ShortConcat
  <2>3. At("rename") /\ Arg(2) = node
    BY <2>1, <2>2 DEF At, Arg
  <2>4. RenameFile \/ RenameFolder \/ Refuse \/ ReadFails
    BY <1>0, <2>3, WhichStep DEF Going
  <2>5. ~RenameFile /\ ~RenameFolder
    BY <1>9, <2>3 DEF RenameFile, RenameFolder
  <2>6. CASE ReadFails
    BY <1>0, <1>3, <2>6, SureReads
  <2>7. CASE Refuse
    <3>1. objs' = objs /\ Throw("EROFS", cache, localFiles)
      BY <2>2, <2>3, <2>7 DEF Refuse, At, NoDeviceChange, device
    <3>2. PICK c, code : c = cache /\ code = "EROFS"
      OBVIOUS
    <3>3. code # "ok" /\ Throw(code, c, localFiles) /\ Tells(c, {})
      BY <1>3, <3>1, <3>2
    <3> QED BY <1>0, <3>1, <3>3, SureThrows
  <2> QED BY <2>4, <2>5, <2>6, <2>7
<1> QED BY <1>4, <1>7, <1>8, <1>9 DEF Looking

LEMMA MovingSure ==
  ASSUME Surely, ~AcceptsDuplicates, Moving
  PROVE  SureInv'
<1>1. PICK t \in Seq(GoodSteps) : (Parts(View, {}) /\ Tells(cache, Off) /\ Midway(t)) \/ Replacing(t)
  BY DEF Moving
<1>2. Len(call.path) > 1
  BY DEF Moving
<1>3. CASE Replacing(t)
  BY <1>3, ReplacingSure
<1>4. CASE Parts(View, {}) /\ Tells(cache, Off) /\ Midway(t)
  <2>1. CASE Ready(t)
    BY <1>4, <2>1, ReadySure
  <2>2. CASE Arriving(t)
    BY <1>2, <1>4, <2>2, ArrivingSure
  <2>3. CASE Flushing(t)
    BY <1>4, <2>3, FlushingSure
  <2>4. CASE Dropping(t)
    BY <2>4, DroppingSure
  <2>5. CASE Making(t)
    BY <1>4, <2>5, MakingSure
  <2>6. CASE Entering(t)
    BY <2>6, EnteringSure
  <2> QED BY <1>4, <2>1, <2>2, <2>3, <2>4, <2>5, <2>6 DEF Midway
<1> QED BY <1>1, <1>3, <1>4

-----------------------------------------------------------------------------
(* A rename begins with ids enough for what it makes anew.                 *)
LEMMA RoomBegins ==
  ASSUME Base, NEW p, call'.path = p, pre'.view = View, objs' = objs, localFiles' = localFiles,
         nextId' = nextId, ~At("sendFile")',
         NEW moved, moved = {i \in DOMAIN objs : IsPrefix(p, PathOf(i))},
         nextId + (Cardinality(moved) + Cardinality(moved \cap DOMAIN localFiles)) <= MaxId + 1
  PROVE  Roomy'
<1>1. IsFiniteSet(moved) /\ nextId \in Nat /\ MaxId \in Nat
  <2>1. DOMAIN objs \subseteq 1 .. MaxId /\ MaxId \in Nat /\ nextId \in Nat
    BY BaseFacts, DeviceAssumption DEF IsStore, IsMap, ObjIds, DeviceTypeOK
  <2>2. IsFiniteSet(1 .. MaxId) /\ moved \subseteq 1 .. MaxId
    BY <2>1, FS_Interval
  <2> QED BY <2>1, <2>2, FS_Subset
<1>2. IsFiniteSet(Due') /\ Cardinality(Due') <= Cardinality(moved)
  <2>1. PICK D : D = {Item(i) : i \in moved}
    OBVIOUS
  <2>2. PICK g : g = [i \in moved |-> Item(i)]
    OBVIOUS
  <2>3. g \in Surjection(moved, D)
    BY <2>1, <2>2 DEF Surjection
  <2>4. IsFiniteSet(D) /\ Cardinality(D) <= Cardinality(moved)
    BY <1>1, <2>3, FS_Surjection
  <2>5. ASSUME NEW v \in View, IsPrefix(p, v.path) PROVE v \in D
    <3>1. PICK i \in DOMAIN objs : v = Item(i)
      BY ViewItems
    <3>2. v.path = PathOf(i)
      BY <3>1 DEF Item
    <3> QED BY <2>1, <2>5, <3>1, <3>2
  <2>6. Due' \subseteq D
    BY <2>5 DEF Due, Below
  <2>7. Cardinality(Due') <= Cardinality(D) /\ IsFiniteSet(Due')
    BY <2>4, <2>6, FS_Subset
  <2>8. Cardinality(Due') \in Nat /\ Cardinality(D) \in Nat /\ Cardinality(moved) \in Nat
    BY <1>1, <2>4, <2>7, FS_CardinalityType
  <2> QED BY <2>4, <2>7, <2>8
<1>3. IsFiniteSet(Unsent') /\ Cardinality(Unsent') <= Cardinality(moved \cap DOMAIN localFiles)
      /\ IsFiniteSet(moved \cap DOMAIN localFiles)
  <2>1. \A i : PathOf(i)' = PathOf(i)
    BY DEF PathOf
  <2>2. Unsent' \subseteq moved \cap DOMAIN localFiles
    BY <2>1 DEF Unsent, Src
  <2>3. IsFiniteSet(moved \cap DOMAIN localFiles)
    BY <1>1, FS_Subset
  <2> QED BY <2>2, <2>3, FS_Subset
<1>4. Taken' = 0
  BY DEF Taken
<1>5. PICK a \in Nat, b \in Nat, e \in Nat, k \in Nat, M \in Nat, N \in Nat :
        /\ a = Cardinality(moved) /\ b = Cardinality(moved \cap DOMAIN localFiles)
        /\ e = Cardinality(Due') /\ k = Cardinality(Unsent') /\ M = MaxId /\ N = nextId
  BY <1>1, <1>2, <1>3, FS_CardinalityType
<1>6. N + (a + b) <= M + 1 /\ e <= a /\ k <= b
  BY <1>2, <1>3, <1>5
<1>7. N + e + k + 0 <= M + 1
  BY <1>6
<1> QED BY <1>4, <1>5, <1>7 DEF Roomy

LEMMA SureBegun ==
  ASSUME Base, ReplyInv, call.op = "none", NEW p \in Path, p # <<>>, NEW q,
         NEW off, NEW byte, NEW h, Begin("rename", p, q, off, byte, h)
  PROVE  SureInv'
<1> DEFINE c == [op |-> "rename", path |-> p, new |-> q, off |-> off, byte |-> byte, h |-> h]
<1>1. /\ call' = c /\ todo' = Handler(c)
      /\ pre' = [view |-> View, coherent |-> Coherent, faults |-> faults,
                 saved |-> \A i \in DOMAIN localFiles : ~localFiles[i].dirty, owned |-> Owned]
      /\ objs' = objs /\ nextId' = nextId /\ cache' = cache /\ localFiles' = localFiles /\ reply' = reply
      /\ nextId + NewIds(c) <= MaxId + 1
  BY DEF Begin, device
<1>2. c.op = "rename" /\ c.path = p /\ c.new = q
  OBVIOUS
<1> HIDE DEF c
<1>3. call'.path = p /\ pre'.view = View /\ pre'.coherent = Coherent
  BY <1>1, <1>2
<1> SUFFICES ASSUME Coherent PROVE SureInv'
  BY <1>3 DEF SureInv
<1>4. Tells(cache, {})
  BY CoherentIs
<1>5. PICK s, k, u : s = <<"getNode", Head(p), Tail(p), k>> /\ k = <<"source", q>> /\ u = <<>>
  OBVIOUS
<1>6. todo' = <<s>>
  BY <1>1, <1>2, <1>5 DEF Handler, Lookup
<1>7. s[1] = "getNode" /\ s[4] = k /\ k[1] = "source"
  BY <1>5
<1>8. u \in Seq({}) /\ todo' = Cons(s, u)
  <2>1. u \in Seq({})
    BY <1>5
  <2>2. <<s>> \o u = Cons(s, u) /\ <<s>> \o <<>> = <<s>>
    BY <2>1, ConsOne, ShortConcat
  <2> QED BY <1>5, <1>6, <2>1, <2>2
<1>9. At("getNode")' /\ ~At("sendFile")' /\ Arg(4)' = k
  BY <1>7, <1>8, NextIs
<1>10. Guarded(Cached, todo)'
  <2>1. Into(s) = {}
    BY <1>7 DEF Into
  <2>2. PICK D : D = Cached'
    OBVIOUS
  <2>3. Guarded(D \ Clears(s), u)
    BY <1>5, GuardNothing
  <2>4. Guarded(D, Cons(s, u))
    BY <1>8, <2>1, <2>3, GuardCons
  <2> QED BY <1>8, <2>2, <2>4 DEF Guarded
<1>11. Tells(cache, Owes)'
  <2>1. Owes' = {}
    BY <1>9 DEF Owes
  <2>2. PICK d : d = cache
    OBVIOUS
  <2>3. Tells(d, {})'
    BY <1>1, <1>4, <2>2, TellsSame
  <2> QED BY <1>1, <2>1, <2>2, <2>3 DEF Tells
<1>12. Unread'
  BY <1>7, <1>9 DEF Unread
<1>13. Roomy'
  <2>1. PICK moved : moved = {i \in DOMAIN objs : IsPrefix(p, PathOf(i))}
    OBVIOUS
  <2>2. NewIds(c) = Cardinality(moved) + Cardinality(moved \cap DOMAIN localFiles)
    BY <1>2, <2>1 DEF NewIds
  <2> QED BY <1>1, <1>3, <1>9, <2>1, <2>2, RoomBegins
<1>14. reply'.code = "ok"
  BY <1>1 DEF ReplyInv, Okay
<1> QED BY <1>9, <1>10, <1>11, <1>12, <1>13, <1>14 DEF SureInv, Sure

LEMMA SureKernel ==
  ASSUME Base, ReplyInv, call.op = "none", Kernel
  PROVE  SureInv'
<1>0. \A p \in Paths : p \in Path /\ p # <<>>
  BY PathsType
<1>1. SUFFICES ASSUME call'.op = "rename" PROVE SureInv'
  BY DEF SureInv
<1>2. \E p, q \in Paths : Begin("rename", p, q, 0, 0, call.h)
  <2>1. \A op, path, new, off, byte, h : Begin(op, path, new, off, byte, h) => op = "rename"
    BY <1>1 DEF Begin
  <2> QED BY <2>1 DEF Kernel
<1> QED BY <1>0, <1>2, SureBegun

LEMMA SureStands ==
  ASSUME SureInv, UNCHANGED vars
  PROVE  SureInv'
<1>1. /\ objs' = objs /\ nextId' = nextId /\ cache' = cache /\ localFiles' = localFiles /\ todo' = todo
      /\ reply' = reply /\ call' = call /\ pre' = pre /\ faults' = faults
  BY DEF vars, device, process
<1>2. /\ \A K : Tells(cache, K)' = Tells(cache, K)
      /\ \A i : PathOf(i)' = PathOf(i) /\ ParentNode(i)' = ParentNode(i) /\ Src(i)' = Src(i) /\ Waits(i)' = Waits(i)
      /\ \A s : Image(s)' = Image(s)
  BY <1>1 DEF Tells, Live, getMetadata, GetFolderContents, Inside, PathOf, ParentNode, Src, Waits, Image
<1>3. (\A a : At(a)' = At(a)) /\ \A k : Arg(k)' = Arg(k)
  BY <1>1 DEF At, Arg
<1>4. Cached' = Cached /\ Owes' = Owes /\ Unread' = Unread
  BY <1>1, <1>2, <1>3 DEF Cached, Owes, Unread
<1>5. Roomy' = Roomy
  <2>1. Due' = Due
    BY <1>1, <1>2 DEF Due, Below
  <2>2. Unsent' = Unsent
    BY <1>1, <1>2 DEF Unsent
  <2>3. Taken' = Taken
    BY <1>3 DEF Taken
  <2> QED BY <1>1, <2>1, <2>2, <2>3 DEF Roomy
<1>6. \A x : MayAdd(x)' = MayAdd(x)
  BY <1>1 DEF MayAdd, Inside
<1>7. Whole(localFiles)' = Whole(localFiles) /\ MovesFile' = MovesFile
  BY <1>1 DEF Whole, MovesFile
<1>8. Guarded(Cached, todo)' = Guarded(Cached, todo)
  BY <1>1, <1>4 DEF Guarded
<1>9. Tells(cache, Owes)' = Tells(cache, Owes) /\ Tells(cache, {})' = Tells(cache, {})
  BY <1>1, <1>2, <1>4 DEF Tells
<1>10. Sure' = Sure
  BY <1>1, <1>3, <1>4, <1>5, <1>6, <1>8, <1>9 DEF Sure
<1> QED BY <1>1, <1>7, <1>9, <1>10 DEF SureInv

-----------------------------------------------------------------------------
LEMMA NextSure ==
  ASSUME Renamed, SureInv, ~AcceptsDuplicates, [Next]_vars
  PROVE  SureInv'
<1>0. Base /\ ReplyInv /\ FaultsInv /\ RenameInv /\ NoTwins(objs)
  BY DEF Renamed, Called, Base, StoreInv
<1>1. CASE UNCHANGED vars
  BY <1>1, SureStands
<1>2. CASE call'.op = "none"
  BY <1>2 DEF SureInv
<1>3. CASE call.op = "none" /\ Kernel
  BY <1>0, <1>3, SureKernel
<1>4. CASE todo # <<>> /\ Step /\ ~Crash /\ call' = call /\ pre' = pre
  <2>1. SUFFICES ASSUME call.op = "rename", pre.coherent, ~MovesFile PROVE SureInv'
    BY <1>4 DEF SureInv, MovesFile
  <2>2. /\ Apart /\ Past /\ reply.code = "ok" /\ Whole(localFiles) /\ (pre.saved => Settled)
        /\ Looking \/ Moving
    BY <1>0, <1>4, <2>1 DEF RenameInv, ReplyInv
  <2>3. Going
    BY <1>0, <1>4, <2>1, <2>2 DEF Going
  <2>4. Sure
    BY <1>4, <2>1, <2>2 DEF SureInv
  <2>5. CASE faults' = faults
    <3>1. Surely
      BY <2>1, <2>3, <2>4, <2>5 DEF Surely
    <3> QED BY <2>2, <3>1, LookingSure, MovingSure
  <2>6. CASE faults' # faults
    <3>1. faults > 0 /\ faults' = faults - 1 /\ reply'.code = "EIO"
      BY <1>0, <1>4, <2>6, FaultsShow
    <3>2. faults \in Nat /\ pre.faults \in Nat /\ faults <= pre.faults
      BY <1>0, <2>1 DEF FaultsInv
    <3>3. faults' < pre.faults
      BY <3>1, <3>2
    <3>4. pre'.faults = pre.faults
      BY <1>4
    <3> QED BY <3>1, <3>3, <3>4 DEF SureInv
  <2> QED BY <2>5, <2>6
<1> QED BY <1>0, <1>1, <1>2, <1>3, <1>4, CallFrame

(* A rename that is done has put the cache right.                          *)
LEMMA RenameCoherent ==
  ASSUME Renamed, SureInv, call.op = "rename"
  PROVE  StaysCoherent
<1>0. SUFFICES ASSUME Done, pre.coherent, NoFaultNow, ~MovesFile PROVE Coherent
  BY DEF StaysCoherent
<1>1. Base /\ FaultsInv /\ RenameInv /\ todo = <<>>
  BY <1>0 DEF Renamed, Called, Done
<1>2. ~(faults < pre.faults)
  BY <1>0, <1>1 DEF NoFaultNow, FaultsInv
<1>3. Tells(cache, {}) /\ Whole(localFiles)
  <2>1. CASE reply.code # "ok"
    BY <1>0, <1>2, <2>1 DEF SureInv
  <2>2. CASE reply.code = "ok"
    <3>1. Tells(cache, Owes) /\ Whole(localFiles)
      BY <1>0, <1>1, <2>2 DEF SureInv, Sure, RenameInv
    <3>2. Owes = {}
      BY <1>1 DEF Owes, At
    <3> QED BY <3>1, <3>2
  <2> QED BY <2>1, <2>2
<1> QED BY <1>1, <1>3, CoherentIs

LEMMA AlwaysSure == ASSUME ~AcceptsDuplicates PROVE Spec => [](Renamed /\ SureInv)
<1>1. Init => Renamed /\ SureInv
  <2>1. Init => call.op = "none"
    BY DEF Init, NoCall
  <2> QED BY <2>1, InitCalled DEF Renamed, RenameInv, SureInv
<1>2. Renamed /\ SureInv /\ [Next]_vars => (Renamed /\ SureInv)'
  BY NextCalled, NextRename, NextSure DEF Renamed, Called
<1> QED BY <1>1, <1>2, PTL DEF Spec

(* Every call drops the cached entries it makes stale, a rename that takes *)
(* a tree apart included: if the device answers, the cache is right after  *)
(* the call if it was before, whether the call succeeds or is refused.     *)
(* Only the move of a file into another folder is left out.                *)
THEOREM CacheStaysCoherent == ASSUME ~AcceptsDuplicates PROVE Spec => []StaysCoherent
<1>1. Renamed /\ SureInv => StaysCoherent
  <2>1. ASSUME Renamed, SureInv, call.op = "rename" PROVE StaysCoherent
    BY <2>1, RenameCoherent
  <2>2. ASSUME Renamed, SureInv, call.op # "rename" PROVE StaysCoherent
    BY <2>2, CoherentDone DEF Renamed
  <2> QED BY <2>1, <2>2
<1> QED BY <1>1, AlwaysSure, PTL
=============================================================================
