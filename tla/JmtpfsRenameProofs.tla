------------------------- MODULE JmtpfsRenameProofs -------------------------
(***************************************************************************)
(* Proofs about rename, which moves a folder by making a new one, moving   *)
(* its contents one by one and removing the old one: for trees of any      *)
(* depth, and wherever the device fails.                                   *)
(***************************************************************************)
EXTENDS JmtpfsProofs, FiniteSetTheorems

-----------------------------------------------------------------------------
(* The path a path below the source becomes, and what is known of the two  *)
(* paths of a rename: neither lies below the other.                        *)
Image(s) == call.new \o SubSeq(s, Len(call.path) + 1, Len(s))
Moved(v) == [v EXCEPT !.path = Image(@)]
Apart    == /\ call.path \in Seq(PathElem) /\ call.new \in Seq(PathElem)
            /\ call.path # <<>> /\ Len(call.new) > 1
            /\ ~IsPrefix(call.path, call.new) /\ ~IsPrefix(call.new, call.path)

LEMMA PrefixComparable ==
  ASSUME NEW U, NEW s \in Seq(U), NEW t \in Seq(U), NEW u \in Seq(U), IsPrefix(s, u), IsPrefix(t, u)
  PROVE  IsPrefix(s, t) \/ IsPrefix(t, s)
<1>1. /\ Len(s) \in Nat /\ Len(t) \in Nat
      /\ \A k \in 1 .. Len(s) : s[k] = u[k]
      /\ \A k \in 1 .. Len(t) : t[k] = u[k]
  BY PrefixPointwise
<1>2. CASE Len(s) <= Len(t)
  <2>1. \A k \in 1 .. Len(s) : k \in 1 .. Len(t)
    BY <1>1, <1>2
  <2>2. \A k \in 1 .. Len(s) : s[k] = t[k]
    BY <1>1, <2>1
  <2> QED BY <1>2, <2>2, PrefixPointwise
<1>3. CASE Len(t) <= Len(s)
  <2>1. \A k \in 1 .. Len(t) : k \in 1 .. Len(s)
    BY <1>1, <1>3
  <2>2. \A k \in 1 .. Len(t) : t[k] = s[k]
    BY <1>1, <2>1
  <2> QED BY <1>3, <2>2, PrefixPointwise
<1> QED BY <1>1, <1>2, <1>3

LEMMA TailOfPrefix ==
  ASSUME NEW U, NEW p \in Seq(U), NEW s \in Seq(U), IsPrefix(p, s)
  PROVE  /\ SubSeq(s, Len(p) + 1, Len(s)) \in Seq(U)
         /\ Len(SubSeq(s, Len(p) + 1, Len(s))) = Len(s) - Len(p)
         /\ \A k \in 1 .. Len(s) - Len(p) : SubSeq(s, Len(p) + 1, Len(s))[k] = s[Len(p) + k]
         /\ Len(p) \in Nat /\ Len(s) \in Nat /\ Len(p) <= Len(s)
<1>1. Len(p) \in Nat /\ Len(s) \in Nat /\ Len(p) <= Len(s) /\ s \in [1 .. Len(s) -> U]
  BY PrefixPointwise
<1>2. Len(p) + 1 \in 1 .. Len(s) + 1
  BY <1>1
<1>3. \A k \in Len(p) + 1 .. Len(s) : s[k] \in U
  BY <1>1
<1>4. /\ SubSeq(s, Len(p) + 1, Len(s)) \in Seq(U)
      /\ Len(SubSeq(s, Len(p) + 1, Len(s))) = IF Len(p) + 1 <= Len(s) THEN Len(s) - (Len(p) + 1) + 1 ELSE 0
      /\ \A k \in 1 .. Len(s) - (Len(p) + 1) + 1 : SubSeq(s, Len(p) + 1, Len(s))[k] = s[Len(p) + 1 + k - 1]
  BY <1>1, <1>2, <1>3, SubSeqProperties
<1>5. Len(s) - (Len(p) + 1) + 1 = Len(s) - Len(p) /\ \A k \in Nat : Len(p) + 1 + k - 1 = Len(p) + k
  BY <1>1
<1>6. \A k \in 1 .. Len(s) - Len(p) : k \in Nat
  BY <1>1
<1>7. Len(SubSeq(s, Len(p) + 1, Len(s))) = Len(s) - Len(p)
  BY <1>1, <1>4
<1> QED BY <1>1, <1>4, <1>5, <1>6, <1>7

LEMMA ImageParts ==
  ASSUME Apart, NEW s \in Seq(PathElem), IsPrefix(call.path, s)
  PROVE  /\ Image(s) \in Seq(PathElem) /\ IsPrefix(call.new, Image(s))
         /\ Len(Image(s)) = Len(call.new) + (Len(s) - Len(call.path))
         /\ Len(call.path) \in Nat /\ Len(call.new) \in Nat /\ Len(s) \in Nat /\ Len(call.path) <= Len(s)
         /\ \A k \in 1 .. Len(s) - Len(call.path) : Image(s)[Len(call.new) + k] = s[Len(call.path) + k]
<1>1. PICK p, q : p = call.path /\ q = call.new
  OBVIOUS
<1>2. p \in Seq(PathElem) /\ q \in Seq(PathElem)
  BY <1>1 DEF Apart
<1>3. PICK r : r = SubSeq(s, Len(p) + 1, Len(s))
  OBVIOUS
<1>4. /\ r \in Seq(PathElem) /\ Len(r) = Len(s) - Len(p) /\ \A k \in 1 .. Len(s) - Len(p) : r[k] = s[Len(p) + k]
      /\ Len(p) \in Nat /\ Len(s) \in Nat /\ Len(p) <= Len(s)
  <2>1. IsPrefix(p, s)
    BY <1>1
  <2>2. /\ SubSeq(s, Len(p) + 1, Len(s)) \in Seq(PathElem)
        /\ Len(SubSeq(s, Len(p) + 1, Len(s))) = Len(s) - Len(p)
        /\ \A k \in 1 .. Len(s) - Len(p) : SubSeq(s, Len(p) + 1, Len(s))[k] = s[Len(p) + k]
        /\ Len(p) \in Nat /\ Len(s) \in Nat /\ Len(p) <= Len(s)
    BY <1>2, <2>1, TailOfPrefix
  <2> QED BY <1>3, <2>2
<1>5. Image(s) = q \o r
  BY <1>1, <1>3 DEF Image
<1>6. /\ IsPrefix(q, q \o r) /\ q \o r \in Seq(PathElem) /\ Len(q \o r) = Len(q) + Len(r) /\ Len(q) \in Nat
  BY <1>2, <1>4, PrefixConcat
<1>7. \A k \in 1 .. Len(r) : (q \o r)[Len(q) + k] = r[k]
  <2> TAKE k \in 1 .. Len(r)
  <2>1. Len(q) + k \in 1 .. Len(q) + Len(r) /\ ~(Len(q) + k <= Len(q)) /\ Len(q) + k - Len(q) = k
    BY <1>4, <1>6
  <2> QED BY <1>2, <1>4, <2>1, ConcatProperties
<1> QED BY <1>1, <1>4, <1>5, <1>6, <1>7

LEMMA ImageOfSource ==
  ASSUME Apart
  PROVE  Image(call.path) = call.new /\ IsPrefix(call.path, call.path) /\ call.path \in Seq(PathElem)
<1>1. call.path \in Seq(PathElem) /\ call.new \in Seq(PathElem)
  BY DEF Apart
<1>2. IsPrefix(call.path, call.path)
  BY <1>1, PrefixSelf
<1>3. PICK q, u : q = call.new /\ u = Image(call.path)
  OBVIOUS
<1>4. u \in Seq(PathElem) /\ IsPrefix(q, u) /\ Len(u) = Len(q) + (Len(call.path) - Len(call.path)) /\ Len(call.path) \in Nat /\ Len(q) \in Nat
  BY <1>1, <1>2, <1>3, ImageParts
<1>5. Len(u) = Len(q)
  BY <1>4
<1>6. \A k \in 1 .. Len(q) : q[k] = u[k]
  BY <1>1, <1>3, <1>4, PrefixPointwise
<1>7. q = u
  BY <1>1, <1>3, <1>4, <1>5, <1>6, SeqEqual
<1> QED BY <1>1, <1>2, <1>3, <1>7

(* Images lie apart from the source, and different paths have different    *)
(* images.                                                                 *)
LEMMA ImageApart ==
  ASSUME Apart, NEW u \in Seq(PathElem), IsPrefix(call.new, u)
  PROVE  ~IsPrefix(call.path, u)
BY PrefixComparable DEF Apart

LEMMA ImageDiffers ==
  ASSUME Apart, NEW s \in Seq(PathElem), NEW t \in Seq(PathElem), IsPrefix(call.path, s), IsPrefix(call.path, t),
         Image(s) = Image(t)
  PROVE  s = t
<1>1. PICK p, q : p = call.path /\ q = call.new
  OBVIOUS
<1>2. /\ Len(Image(s)) = Len(q) + (Len(s) - Len(p))
      /\ Len(p) \in Nat /\ Len(q) \in Nat /\ Len(s) \in Nat /\ Len(p) <= Len(s)
      /\ \A k \in 1 .. Len(s) - Len(p) : Image(s)[Len(q) + k] = s[Len(p) + k]
  BY <1>1, ImageParts
<1>3. /\ Len(Image(t)) = Len(q) + (Len(t) - Len(p)) /\ Len(t) \in Nat /\ Len(p) <= Len(t)
      /\ \A k \in 1 .. Len(t) - Len(p) : Image(t)[Len(q) + k] = t[Len(p) + k]
  BY <1>1, ImageParts
<1>4. Len(s) = Len(t)
  BY <1>2, <1>3
<1>5. p \in Seq(PathElem)
  BY <1>1 DEF Apart
<1>6. \A k \in 1 .. Len(p) : s[k] = t[k]
  BY <1>1, <1>5, PrefixPointwise
<1>7. \A k \in 1 .. Len(s) - Len(p) : s[Len(p) + k] = t[Len(p) + k]
  BY <1>2, <1>3, <1>4
<1>8. ASSUME NEW k \in 1 .. Len(s) PROVE s[k] = t[k]
  <2>1. CASE k <= Len(p)
    BY <1>2, <1>6, <2>1
  <2>2. CASE ~(k <= Len(p))
    <3>1. PICK j \in 1 .. Len(s) - Len(p) : k = Len(p) + j
      <4>1. k - Len(p) \in 1 .. Len(s) - Len(p) /\ k = Len(p) + (k - Len(p))
        BY <1>2, <2>2
      <4> QED BY <4>1
    <3> QED BY <1>7, <3>1
  <2> QED BY <2>1, <2>2
<1> QED BY <1>4, <1>8, SeqEqual

LEMMA ImageBelow ==
  ASSUME Apart, NEW s \in Seq(PathElem), NEW e \in PathElem, IsPrefix(call.path, s)
  PROVE  /\ Image(Append(s, e)) = Append(Image(s), e)
         /\ IsPrefix(call.path, Append(s, e)) /\ Append(s, e) \in Seq(PathElem)
         /\ Append(s, e) # call.path
<1>1. PICK p, q, a : p = call.path /\ q = call.new /\ a = Append(s, e)
  OBVIOUS
<1>2. p \in Seq(PathElem) /\ q \in Seq(PathElem) /\ a \in Seq(PathElem) /\ Len(a) = Len(s) + 1
      /\ a[Len(s) + 1] = e /\ \A k \in 1 .. Len(s) : a[k] = s[k]
  BY <1>1, AppendProperties DEF Apart
<1>3. IsPrefix(p, a)
  BY <1>1, <1>2, PrefixAppend
<1>4. PICK u, w : u = Image(s) /\ w = Image(a)
  OBVIOUS
<1>5. /\ u \in Seq(PathElem) /\ Len(u) = Len(q) + (Len(s) - Len(p)) /\ IsPrefix(q, u)
      /\ Len(p) \in Nat /\ Len(q) \in Nat /\ Len(s) \in Nat /\ Len(p) <= Len(s)
      /\ \A k \in 1 .. Len(s) - Len(p) : u[Len(q) + k] = s[Len(p) + k]
  BY <1>1, <1>4, ImageParts
<1>6. /\ w \in Seq(PathElem) /\ Len(w) = Len(q) + (Len(a) - Len(p)) /\ IsPrefix(q, w)
      /\ \A k \in 1 .. Len(a) - Len(p) : w[Len(q) + k] = a[Len(p) + k]
  BY <1>1, <1>2, <1>3, <1>4, ImageParts
<1>7. PICK v : v = Append(u, e)
  OBVIOUS
<1>8. v \in Seq(PathElem) /\ Len(v) = Len(u) + 1 /\ v[Len(u) + 1] = e /\ \A k \in 1 .. Len(u) : v[k] = u[k]
  BY <1>5, <1>7, AppendProperties
<1>9. Len(w) = Len(v) /\ Len(w) = Len(u) + 1 /\ Len(u) \in Nat
  BY <1>2, <1>5, <1>6, <1>8
<1>10. ASSUME NEW k \in 1 .. Len(w) PROVE w[k] = v[k]
  <2>1. CASE k <= Len(q)
    <3>1. k \in 1 .. Len(q) /\ k \in 1 .. Len(u)
      BY <1>5, <1>9, <2>1
    <3>2. q[k] = u[k] /\ q[k] = w[k]
      BY <1>2, <1>5, <1>6, <3>1, PrefixPointwise
    <3> QED BY <1>8, <3>1, <3>2
  <2>2. CASE Len(q) < k /\ k <= Len(u)
    <3>1. PICK j \in 1 .. Len(s) - Len(p) : k = Len(q) + j
      <4>1. k - Len(q) \in 1 .. Len(s) - Len(p) /\ k = Len(q) + (k - Len(q))
        BY <1>5, <1>9, <2>2
      <4> QED BY <4>1
    <3>2. j \in 1 .. Len(a) - Len(p) /\ Len(p) + j \in 1 .. Len(s) /\ k \in 1 .. Len(u)
      BY <1>2, <1>5, <2>2, <3>1
    <3>3. u[k] = s[Len(p) + j] /\ w[k] = a[Len(p) + j]
      BY <1>5, <1>6, <3>1, <3>2
    <3>4. a[Len(p) + j] = s[Len(p) + j]
      BY <1>2, <3>2
    <3> QED BY <1>8, <3>2, <3>3, <3>4
  <2>3. CASE Len(u) < k
    <3>1. k = Len(u) + 1
      BY <1>9, <2>3
    <3>2. PICK j : j = Len(a) - Len(p)
      OBVIOUS
    <3>3. j \in 1 .. Len(a) - Len(p) /\ k = Len(q) + j /\ Len(p) + j = Len(s) + 1
      BY <1>2, <1>5, <3>1, <3>2
    <3>4. w[k] = a[Len(s) + 1]
      BY <1>6, <3>3
    <3> QED BY <1>2, <1>8, <3>1, <3>4
  <2> QED BY <1>5, <1>9, <2>1, <2>2, <2>3
<1>11. w = v
  BY <1>6, <1>8, <1>9, <1>10, SeqEqual
<1>12. Len(a) # Len(p)
  BY <1>2, <1>5
<1> QED BY <1>1, <1>2, <1>3, <1>4, <1>7, <1>11, <1>12
-----------------------------------------------------------------------------
(* While a rename runs the tree is that of its beginning, but for some of  *)
(* the nodes below the source, which have their image instead of           *)
(* themselves or beside themselves, and one that may be missing for a      *)
(* while.  Nothing lies below the new path before the first image is made. *)
Fresh == \A v \in pre.view : ~Below(v, call.new)
Parts(V, G) ==
  /\ \A w \in V : w \in pre.view \/ (Fresh /\ \E v \in pre.view : Below(v, call.path) /\ w = Moved(v))
  /\ \A v \in pre.view : v \in V \cup G \/ (Fresh /\ Below(v, call.path) /\ Moved(v) \in V)

(* What the call found: a tree with one node to a path.                    *)
Past == /\ \A v \in pre.view : v.path \in Seq(PathElem)
        /\ \A v, w \in pre.view : v.path = w.path => v = w
        /\ IsFiniteSet(pre.view)

Src(n) == n \in DOMAIN objs /\ IsPrefix(call.path, PathOf(n))
Off    == {n \in NodeIds : Live(n) /\ ~IsPrefix(call.path, NodePath(n))}

(* The contents of n go to its image d, or n is gone; and n goes to d under*)
(* its name, which is where its image lies.                                *)
Copied(n, d) ==
  /\ IsFolderNode(d) /\ IsPrefix(call.new, NodePath(d))
  /\ \/ Src(n) /\ ~objs[n].file /\ NodePath(d) = Image(PathOf(n))
     \/ n \in 1 .. nextId - 1 /\ n \notin DOMAIN objs \cup DOMAIN cache \cup Storages
Goes(n, d, name) ==
  Src(n) /\ IsFolderNode(d) /\ name \in Names /\ Append(NodePath(d), name) = Image(PathOf(n))

(* The files with the contents they had, at their path or at their image.  *)
Settled == \A i \in DOMAIN localFiles : ~localFiles[i].dirty
Kept ==
  \A v \in pre.view : v.file =>
    \E i \in DOMAIN objs : /\ objs[i].file /\ objs[i].data = v.data
                           /\ PathOf(i) = v.path \/ (Fresh /\ Below(v, call.path) /\ PathOf(i) = Image(v.path))

LEMMA MovedPath ==
  ASSUME Apart, Past, NEW v \in pre.view, Below(v, call.path)
  PROVE  /\ Moved(v).path = Image(v.path) /\ Moved(v).path \in Seq(PathElem)
         /\ Below(Moved(v), call.new) /\ ~Below(Moved(v), call.path)
<1>1. PICK s : s = v.path
  OBVIOUS
<1>2. s \in Seq(PathElem) /\ IsPrefix(call.path, s)
  BY <1>1 DEF Past, Below
<1>3. Image(s) \in Seq(PathElem) /\ IsPrefix(call.new, Image(s))
  BY <1>2, ImageParts
<1>4. ~IsPrefix(call.path, Image(s))
  BY <1>3, ImageApart
<1>5. Moved(v).path = Image(s)
  BY <1>1 DEF Moved
<1> QED BY <1>1, <1>3, <1>4, <1>5 DEF Below

LEMMA PartsElsewhere ==
  ASSUME Apart, Past, NEW V, NEW G, Parts(V, G), \A v \in G : Below(v, call.path)
  PROVE  Elsewhere(V) = Elsewhere(pre.view)
<1>1. ASSUME NEW w \in Elsewhere(V) PROVE w \in Elsewhere(pre.view)
  <2>1. ASSUME NEW v \in pre.view, Below(v, call.path) PROVE w # Moved(v)
    BY <1>1, <2>1, MovedPath DEF Elsewhere
  <2> QED BY <1>1, <2>1 DEF Elsewhere, Parts
<1>2. ASSUME NEW v \in Elsewhere(pre.view) PROVE v \in Elsewhere(V)
  BY <1>2 DEF Elsewhere, Parts
<1> QED BY <1>1, <1>2

LEMMA PartsMore ==
  ASSUME NEW V, NEW G, Parts(V, G), NEW v \in pre.view
  PROVE  /\ Fresh /\ Below(v, call.path) => Parts(V \cup {Moved(v)}, G)
         /\ G = {v} => Parts(V \cup {v}, {})
BY DEF Parts

LEMMA PartsLess ==
  ASSUME Apart, Past, NEW V, NEW v, Parts(V \cup {v}, {}), ~Below(v, call.new)
  PROVE  /\ Parts(V, {v})
         /\ Fresh /\ Below(v, call.path) /\ Moved(v) \in V => Parts(V, {})
<1>1. \A u \in pre.view : Below(u, call.path) => Moved(u) # v
  BY MovedPath
<1>2. \A u \in pre.view : u \in V \/ u = v \/ (Fresh /\ Below(u, call.path) /\ Moved(u) \in V)
  BY <1>1 DEF Parts
<1>3. \A w \in V : w \in pre.view \/ (Fresh /\ \E u \in pre.view : Below(u, call.path) /\ w = Moved(u))
  BY DEF Parts
<1>4. Parts(V, {v})
  BY <1>2, <1>3 DEF Parts
<1>5. ASSUME Fresh, Below(v, call.path), Moved(v) \in V PROVE Parts(V, {})
  BY <1>2, <1>3, <1>5 DEF Parts
<1> QED BY <1>4, <1>5

LEMMA SourceWas ==
  ASSUME Base, Apart, Past, NEW G, Parts(View, G), NEW n, Src(n)
  PROVE  /\ Item(n) \in pre.view /\ Below(Item(n), call.path) /\ ~Below(Item(n), call.new)
         /\ Moved(Item(n)) = [path |-> Image(PathOf(n)), file |-> objs[n].file, data |-> Content(n)]
         /\ PathOf(n) \in Seq(PathElem) /\ IsPrefix(call.path, PathOf(n))
<1>1. n \in DOMAIN objs /\ Item(n) \in View
  BY ViewItems DEF Src
<1>2. PathOf(n) \in Seq(PathElem) /\ IsPrefix(call.path, PathOf(n))
  BY <1>1, PathLen, BaseFacts DEF Src, PathOf
<1>3. PICK w : w = Item(n)
  OBVIOUS
<1>4. w = [path |-> PathOf(n), file |-> objs[n].file, data |-> Content(n)]
  BY <1>3 DEF Item
<1>5. w.path = PathOf(n) /\ Below(w, call.path)
  BY <1>2, <1>4 DEF Below
<1>6. ASSUME NEW v \in pre.view, Below(v, call.path) PROVE w # Moved(v)
  BY <1>5, <1>6, MovedPath
<1>7. w \in pre.view
  BY <1>1, <1>3, <1>6 DEF Parts
<1>8. ~Below(w, call.new)
  <2>1. PICK q, u : q = call.new /\ u = PathOf(n)
    OBVIOUS
  <2>2. IsPrefix(q, u) => ~IsPrefix(call.path, u)
    BY <1>2, <2>1, ImageApart
  <2> QED BY <1>2, <1>5, <2>1, <2>2 DEF Below
<1>9. Moved(w) = [path |-> Image(PathOf(n)), file |-> objs[n].file, data |-> Content(n)]
  BY <1>4 DEF Moved
<1> QED BY <1>2, <1>3, <1>5, <1>7, <1>8, <1>9

(* The first image can only be made where nothing was.                     *)
LEMMA FreshNow ==
  ASSUME Base, Apart, Past, Parts(View, {}), \A i \in DOMAIN objs : PathOf(i) # call.new
  PROVE  Fresh
<1>1. SUFFICES ASSUME NEW v \in pre.view, Below(v, call.new) PROVE Fresh
  BY DEF Fresh
<1>2. v \in View \/ Fresh
  BY <1>1 DEF Parts
<1>3. ASSUME v \in View PROVE FALSE
  <2>1. PICK i \in DOMAIN objs : v = Item(i)
    BY <1>3, ViewItems
  <2>2. IsPrefix(call.new, PathOf(i))
    BY <1>1, <2>1 DEF Item, Below
  <2>3. PICK q : q = call.new
    OBVIOUS
  <2>4. q \in Seq(PathElem) /\ Len(q) > 1
    BY <2>3 DEF Apart
  <2>5. IsPrefix(q, PathIn(objs, i)) /\ IsStore(objs)
    BY <2>2, <2>3, BaseFacts DEF PathOf
  <2>6. \E j \in DOMAIN objs : PathIn(objs, j) = q
    BY <2>4, <2>5, AncestorAt
  <2> QED BY <2>3, <2>6 DEF PathOf
<1> QED BY <1>2, <1>3

-----------------------------------------------------------------------------
(* The steps a folder being moved leaves to do, and whether the source     *)
(* itself is among those they remove.                                      *)
Good(s) ==
  /\ Fresh
  /\ \/ \E K : s = <<"clearItems", K>>
     \/ \E n, d : s = <<"moveContents", n, d>> /\ Copied(n, d)
     \/ \E n, d, S : s = <<"moveRest", n, d, S>> /\ Copied(n, d)
     \/ \E n, d, name : s = <<"getNode", n, <<name>>, <<"child", d, name>> >> /\ Copied(n, d)
     \/ \E n, d : s = <<"remove", n, FALSE>> /\ Copied(n, d)
GoodSteps  == {s \in TrueStep : Good(s)}
Gone       == \A i \in DOMAIN objs : PathOf(i) # call.path
Leaves(t)  == \E n \in DOMAIN objs : PathOf(n) = call.path /\ <<"remove", n, FALSE>> \in Range(t)
Ends(s, t) == IF s = call.path THEN t = <<>> ELSE Leaves(t)

(* What every step of the move keeps, but for the objects it takes away.   *)
Keeps(taken) ==
  /\ DeviceStep /\ call' = call /\ pre' = pre
  /\ \A i \in DOMAIN objs \ taken : i \in DOMAIN objs' /\ PathOf(i)' = PathOf(i) /\ objs'[i].file = objs[i].file
  /\ \A i \in taken : Src(i) /\ i \notin DOMAIN objs' \cup DOMAIN cache'
  /\ DOMAIN objs' \subseteq DOMAIN objs \cup {nextId}
  /\ \A n \in DOMAIN cache' : n \in DOMAIN cache \/ Live(n)

LEMMA NotSource ==
  ASSUME Base, Apart, NEW d, IsFolderNode(d), IsPrefix(call.new, NodePath(d))
  PROVE  ~Src(d) /\ d \in Off /\ d \in DOMAIN objs
<1>1. Live(d)
  BY DEF IsFolderNode, Live
<1>2. /\ NodePath(d) \in Seq(PathElem) /\ (d \in Storages => Len(NodePath(d)) = 1 /\ d \notin DOMAIN objs)
      /\ (d \in DOMAIN objs => NodePath(d) = PathOf(d))
  BY <1>1, NodePathType
<1>3. PICK u, q : u = NodePath(d) /\ q = call.new
  OBVIOUS
<1>4. ~IsPrefix(call.path, u)
  BY <1>2, <1>3, ImageApart
<1>5. d \in NodeIds
  BY <1>1, TrueNodes DEF Live, NodeIds
<1>6. d \notin Storages
  <2>1. q \in Seq(PathElem) /\ Len(q) > 1 /\ IsPrefix(q, u) /\ u \in Seq(PathElem)
    BY <1>2, <1>3 DEF Apart
  <2>2. Len(q) <= Len(u) /\ Len(q) \in Nat /\ Len(u) \in Nat
    BY <2>1, PrefixPointwise, LenProperties
  <2>3. Len(u) # 1
    <3>1. PICK a, b : a = Len(q) /\ b = Len(u)
      OBVIOUS
    <3>2. a \in Nat /\ b \in Nat /\ a <= b /\ a > 1
      BY <2>1, <2>2, <3>1
    <3>3. b # 1
      BY <3>2
    <3> QED BY <3>1, <3>3
  <2> QED BY <1>2, <1>3, <2>3
<1> QED BY <1>1, <1>2, <1>3, <1>4, <1>5, <1>6 DEF Src, Off, Live

LEMMA GoesThere ==
  ASSUME Base, Apart, NEW n, NEW d, NEW name, Goes(n, d, name)
  PROVE  ~Src(d) /\ d \in Off /\ Live(d) /\ n \in DOMAIN objs /\ Live(n) /\ n \notin Off /\ n # d
<1>1. Live(d) /\ n \in DOMAIN objs /\ Live(n)
  BY DEF IsFolderNode, Live, Goes, Src
<1>2. /\ NodePath(d) \in Seq(PathElem) /\ (d \in DOMAIN objs => NodePath(d) = PathOf(d))
      /\ NodePath(n) = PathOf(n) /\ PathOf(n) \in Seq(PathElem) /\ IsPrefix(call.path, PathOf(n))
  BY <1>1, NodePathType DEF Goes, Src
<1>3. PICK u, s : u = NodePath(d) /\ s = PathOf(n)
  OBVIOUS
<1>4. Append(u, name) = Image(s) /\ name \in PathElem /\ u \in Seq(PathElem)
  BY <1>2, <1>3 DEF Goes, PathElem
<1>5. Image(s) \in Seq(PathElem) /\ IsPrefix(call.new, Image(s))
  BY <1>2, <1>3, ImageParts
<1>6. ~IsPrefix(call.path, Append(u, name))
  BY <1>4, <1>5, ImageApart
<1>7. ~IsPrefix(call.path, u)
  <2>1. PICK p : p = call.path
    OBVIOUS
  <2>2. p \in Seq(PathElem)
    BY <2>1 DEF Apart
  <2> QED BY <1>4, <1>6, <2>1, <2>2, PrefixAppend
<1>8. d \in NodeIds
  BY <1>1, TrueNodes DEF Live, NodeIds
<1> QED BY <1>1, <1>2, <1>3, <1>7, <1>8 DEF Src, Off

LEMMA CarriedOver ==
  ASSUME Base, Apart, NEW G, Keeps(G)
  PROVE  /\ \A n, d : Copied(n, d) => Copied(n, d)'
         /\ \A n, d, name : n \notin G /\ Goes(n, d, name) => Goes(n, d, name)'
         /\ Fresh' = Fresh /\ Off \subseteq Off' /\ (\A s : Image(s)' = Image(s))
         /\ GoodSteps \subseteq GoodSteps' /\ \A t \in Seq(GoodSteps) : t \in Seq(GoodSteps')
         /\ \A t : Leaves(t) /\ (\A i \in G : PathOf(i) # call.path) => Leaves(t)'
<1>1. /\ DeviceStep /\ call' = call /\ pre' = pre
      /\ \A i \in DOMAIN objs \ G : i \in DOMAIN objs' /\ PathOf(i)' = PathOf(i) /\ objs'[i].file = objs[i].file
      /\ \A i \in G : Src(i) /\ i \notin DOMAIN objs' \cup DOMAIN cache'
      /\ DOMAIN objs' \subseteq DOMAIN objs \cup {nextId}
      /\ \A n \in DOMAIN cache' : n \in DOMAIN cache \/ Live(n)
  BY DEF Keeps
<1>2. nextId \in Nat /\ nextId' \in Nat /\ nextId <= nextId' /\ TrueStep \subseteq TrueStep' /\ DOMAIN objs \subseteq 1 .. nextId - 1
  BY <1>1, KindKept, BaseFacts DEF Issued
<1>3. Fresh' = Fresh /\ \A s : Image(s)' = Image(s)
  BY <1>1 DEF Fresh, Below, Image
<1>4. ASSUME NEW d, IsFolderNode(d), ~Src(d)
      PROVE  IsFolderNode(d)' /\ NodePath(d)' = NodePath(d)
  <2>1. d \in Storages \/ d \in DOMAIN objs \ G
    BY <1>1, <1>4 DEF IsFolderNode
  <2> QED BY <1>1, <1>4, <2>1 DEF IsFolderNode, NodePath
<1>5. ASSUME NEW n, NEW d, Copied(n, d) PROVE Copied(n, d)'
  <2>1. IsFolderNode(d)' /\ NodePath(d)' = NodePath(d) /\ IsPrefix(call.new, NodePath(d))
    BY <1>4, <1>5, NotSource DEF Copied
  <2>2. IsFolderNode(d)' /\ IsPrefix(call.new, NodePath(d))'
    BY <1>1, <2>1
  <2>3. CASE Src(n) /\ ~objs[n].file /\ NodePath(d) = Image(PathOf(n)) /\ n \notin G
    <3>1. n \in DOMAIN objs' /\ PathOf(n)' = PathOf(n) /\ objs'[n].file = objs[n].file
      BY <1>1, <2>3 DEF Src
    <3>2. Src(n)'
      BY <1>1, <2>3, <3>1 DEF Src
    <3>3. Image(PathOf(n))' = Image(PathOf(n))
      BY <1>1, <3>1 DEF Image
    <3> QED BY <2>1, <2>2, <2>3, <3>1, <3>2, <3>3 DEF Copied
  <2>4. CASE n \in G
    <3>1. n \in DOMAIN objs /\ n \notin DOMAIN objs' \cup DOMAIN cache'
      BY <1>1, <2>4 DEF Src
    <3>2. n \in 1 .. nextId' - 1
      BY <1>2, <3>1
    <3>3. n \notin Storages
      BY <3>1, NodePathType DEF Live
    <3> QED BY <2>2, <3>1, <3>2, <3>3 DEF Copied
  <2>5. CASE n \in 1 .. nextId - 1 /\ n \notin DOMAIN objs \cup DOMAIN cache \cup Storages
    <3>1. n \in 1 .. nextId' - 1 /\ n # nextId
      <4>1. PICK k, l : k = nextId /\ l = nextId'
        OBVIOUS
      <4>2. k \in Nat /\ l \in Nat /\ k <= l /\ n \in 1 .. k - 1
        BY <1>2, <2>5, <4>1
      <4>3. n \in 1 .. l - 1 /\ n # k
        BY <4>2
      <4> QED BY <4>1, <4>3
    <3>2. n \notin DOMAIN objs' \cup DOMAIN cache'
      BY <1>1, <2>5, <3>1 DEF Live
    <3> QED BY <2>2, <2>5, <3>1, <3>2 DEF Copied
  <2> QED BY <1>5, <2>3, <2>4, <2>5 DEF Copied
<1>6. ASSUME NEW n, NEW d, NEW name, n \notin G, Goes(n, d, name) PROVE Goes(n, d, name)'
  <2>1. IsFolderNode(d)' /\ NodePath(d)' = NodePath(d)
    BY <1>4, <1>6, GoesThere DEF Goes
  <2>2. n \in DOMAIN objs' /\ PathOf(n)' = PathOf(n) /\ IsPrefix(call.path, PathOf(n))
    BY <1>1, <1>6 DEF Goes, Src
  <2>3. Image(PathOf(n))' = Image(PathOf(n))
    BY <1>1, <2>2 DEF Image
  <2>4. Src(n)'
    BY <1>1, <2>2 DEF Src
  <2>5. name \in Names /\ Append(NodePath(d)', name) = Image(PathOf(n))'
    BY <1>6, <2>1, <2>3 DEF Goes
  <2> QED BY <2>1, <2>4, <2>5 DEF Goes
<1>7. ASSUME NEW s, Good(s) PROVE Good(s)'
  BY <1>3, <1>5, <1>7 DEF Good
<1>8. GoodSteps \subseteq GoodSteps'
  BY <1>2, <1>7 DEF GoodSteps
<1>9. \A t \in Seq(GoodSteps) : t \in Seq(GoodSteps')
  BY <1>8
<1>10. Off \subseteq Off'
  <2>1. ASSUME NEW m \in Off PROVE Live(m)' /\ NodePath(m)' = NodePath(m)
    <3>1. m \in Storages \/ m \in DOMAIN objs \ G
      BY <1>1, <2>1, NodePathType DEF Off, Src, Live
    <3> QED BY <1>1, <3>1 DEF NodePath, Live
  <2> QED BY <1>1, <2>1 DEF Off
<1>11. ASSUME NEW t, Leaves(t), \A i \in G : PathOf(i) # call.path PROVE Leaves(t)'
  BY <1>1, <1>11 DEF Leaves
<1> QED BY <1>3, <1>5, <1>6, <1>8, <1>9, <1>10, <1>11

LEMMA QuietKeeps ==
  ASSUME objs' = objs, nextId' = nextId, call' = call, pre' = pre,
         \A n \in DOMAIN cache' : n \in DOMAIN cache \/ Live(n)
  PROVE  Keeps({})
<1>1. DeviceStep
  BY DEF DeviceStep, device
<1> QED BY <1>1 DEF Keeps, PathOf

LEMMA AddKeeps ==
  ASSUME Base, NEW x, Adds(x), call' = call, pre' = pre,
         \A n \in DOMAIN cache' : n \in DOMAIN cache \/ Live(n)
  PROVE  /\ Keeps({})
         /\ \A k : k = nextId => PathOf(k)' = PathFor(x) /\ k \in DOMAIN objs' /\ objs'[k] = x
<1>1. DeviceStep
  BY DEF DeviceStep
<1>2. PICK k : k = nextId
  OBVIOUS
<1>3. Fits(objs, k, x) /\ objs' = Put(objs, k, x) /\ IsStore(objs) /\ k \notin DOMAIN objs
  BY <1>2, AddFits, BaseFacts DEF Adds, WithObject
<1>4. /\ \A i \in DOMAIN objs : PathIn(objs', i) = PathIn(objs, i)
      /\ x.parent = 0 => PathIn(objs', k) = <<x.storage, x.name>>
      /\ x.parent # 0 => PathIn(objs', k) = Append(PathIn(objs, x.parent), x.name)
  BY <1>3, StoreWithObject
<1>5. DOMAIN objs' = DOMAIN objs \cup {k} /\ objs'[k] = x /\ \A i \in DOMAIN objs : objs'[i] = objs[i]
  BY <1>3 DEF Put
<1>6. PathOf(k)' = PathFor(x)
  BY <1>4 DEF PathOf, PathFor
<1>7. Keeps({})
  BY <1>1, <1>2, <1>4, <1>5 DEF Keeps, PathOf
<1> QED BY <1>2, <1>5, <1>6, <1>7

LEMMA RemoveKeeps ==
  ASSUME Base, NEW n, Removes(n), Subtree(objs, n) = {n}, Src(n), call' = call, pre' = pre, n \notin DOMAIN cache',
         \A m \in DOMAIN cache' : m \in DOMAIN cache \/ Live(m)
  PROVE  Keeps({n}) /\ n \notin DOMAIN objs'
<1>1. DeviceStep
  BY DEF DeviceStep
<1>2. IsStore(objs) /\ objs' = Drop(objs, Subtree(objs, n)) /\ n \in DOMAIN objs
  BY BaseFacts DEF Removes, WithoutObject
<1>3. DOMAIN objs' = DOMAIN objs \ {n} /\ \A i \in DOMAIN objs \ {n} : objs'[i] = objs[i]
  BY <1>2 DEF Drop
<1>4. \A i \in DOMAIN objs' : PathIn(objs', i) = PathIn(objs, i)
  <2> DEFINE u == Drop(objs, Subtree(objs, n))
  <2>1. \A i \in DOMAIN u : u[i] = objs[i] /\ PathIn(u, i) = PathIn(objs, i)
    BY <1>2, StoreWithoutObject
  <2> QED BY <1>2, <2>1
<1> QED BY <1>1, <1>3, <1>4 DEF Keeps, PathOf

-----------------------------------------------------------------------------
(* A list of steps with a step put in front.                               *)
LEMMA ConsOne ==
  ASSUME NEW U, NEW t \in Seq(U), NEW a
  PROVE  /\ Head(Cons(a, t)) = a /\ Tail(Cons(a, t)) = t /\ Cons(a, t) # <<>>
         /\ Cons(a, t) \in Seq(U \cup {a})
         /\ a \in U => Cons(a, t) \in Seq(U)
         /\ Range(Cons(a, t)) = {a} \cup Range(t)
         /\ <<>> \o t = t /\ <<a>> \o t = Cons(a, t)
<1>1. PICK W : W = U \cup {a}
  OBVIOUS
<1>2. t \in Seq(W) /\ <<a>> \in Seq(W) /\ Len(<<a>>) = 1 /\ <<a>>[1] = a /\ <<a>> # <<>>
  BY <1>1, SeqMonotonic
<1>3. PICK c : c = <<a>> \o t
  OBVIOUS
<1>4. c \in Seq(W) /\ Len(c) = 1 + Len(t) /\ \A i \in 1 .. 1 + Len(t) : c[i] = IF i <= 1 THEN <<a>>[i] ELSE t[i - 1]
  BY <1>2, <1>3, ConcatProperties
<1>5. Len(t) \in Nat /\ DOMAIN t = 1 .. Len(t) /\ DOMAIN c = 1 .. Len(c)
  BY <1>2, <1>4, LenProperties
<1>6. c[1] = a /\ c # <<>>
  BY <1>2, <1>4, <1>5
<1>7. \A i \in 1 .. Len(t) : c[i + 1] = t[i]
  <2> TAKE i \in 1 .. Len(t)
  <2>1. i + 1 \in 1 .. 1 + Len(t) /\ ~(i + 1 <= 1) /\ i + 1 - 1 = i
    BY <1>5
  <2> QED BY <1>4, <2>1
<1>8. Head(c) = a
  BY <1>6
<1>9. Tail(c) = t
  <2>1. Tail(c) \in Seq(W) /\ Len(Tail(c)) = Len(c) - 1 /\ \A i \in 1 .. Len(Tail(c)) : Tail(c)[i] = c[i + 1]
    BY <1>4, <1>6, HeadTailProperties
  <2>2. Len(Tail(c)) = Len(t)
    BY <1>4, <1>5, <2>1
  <2> QED BY <1>2, <1>7, <2>1, <2>2, SeqEqual
<1>10. a \in U => c \in Seq(U)
  <2>1. a \in U => W = U
    BY <1>1
  <2> QED BY <1>4, <2>1
<1>11. Range(c) = {a} \cup Range(t)
  <2>1. ASSUME NEW i \in DOMAIN c PROVE c[i] \in {a} \cup Range(t)
    <3>1. CASE i = 1
      BY <1>6, <3>1
    <3>2. CASE i # 1
      <4>1. i - 1 \in 1 .. Len(t) /\ i = (i - 1) + 1
        BY <1>4, <1>5, <3>2
      <4>2. c[i] = t[i - 1]
        BY <1>7, <4>1
      <4> QED BY <1>5, <4>1, <4>2 DEF Range
    <3> QED BY <3>1, <3>2
  <2>2. ASSUME NEW i \in DOMAIN t PROVE t[i] \in Range(c)
    <3>1. i + 1 \in 1 .. Len(c) /\ c[i + 1] = t[i]
      BY <1>4, <1>5, <1>7
    <3> QED BY <1>5, <3>1 DEF Range
  <2>3. a \in Range(c)
    <3>1. 1 \in DOMAIN c
      BY <1>4, <1>5
    <3> QED BY <1>6, <3>1 DEF Range
  <2> QED BY <2>1, <2>2, <2>3 DEF Range
<1>12. <<>> \o t = t
  BY ConcatEmptySeq
<1>13. Cons(a, t) = c
  BY <1>3 DEF Cons
<1> QED BY <1>1, <1>3, <1>4, <1>6, <1>8, <1>9, <1>10, <1>11, <1>12, <1>13

LEMMA ConsTwo ==
  ASSUME NEW U, NEW t \in Seq(U), NEW a, NEW b
  PROVE  <<a, b>> \o t = Cons(a, Cons(b, t))
<1>1. PICK W : W = U \cup {a, b}
  OBVIOUS
<1>2. t \in Seq(W) /\ <<a>> \in Seq(W) /\ <<b>> \in Seq(W)
  BY <1>1, SeqMonotonic
<1>3. (<<a>> \o <<b>>) \o t = <<a>> \o (<<b>> \o t)
  BY <1>2, ConcatAssociative
<1>4. <<a>> \o <<b>> = <<a, b>>
  BY ShortConcat
<1> QED BY <1>3, <1>4 DEF Cons

LEMMA ConsMore ==
  ASSUME NEW U, NEW t \in Seq(U), NEW a, NEW b
  PROVE  /\ <<a, b>> \o t = Cons(a, Cons(b, t))
         /\ Head(Cons(a, Cons(b, t))) = a /\ Tail(Cons(a, Cons(b, t))) = Cons(b, t)
<1>1. PICK W, u : W = U \cup {b} /\ u = Cons(b, t)
  OBVIOUS
<1>2. u \in Seq(W)
  BY <1>1, ConsOne
<1>3. Head(Cons(a, u)) = a /\ Tail(Cons(a, u)) = u
  BY <1>2, ConsOne
<1> QED BY <1>1, <1>3, ConsTwo

LEMMA ConsFour ==
  ASSUME NEW U, NEW t \in Seq(U), NEW a, NEW b, NEW c, NEW d
  PROVE  /\ <<a, b, c, d>> \o t = Cons(a, Cons(b, Cons(c, Cons(d, t))))
         /\ Head(Cons(a, Cons(b, Cons(c, Cons(d, t))))) = a
         /\ Tail(Cons(a, Cons(b, Cons(c, Cons(d, t))))) = Cons(b, Cons(c, Cons(d, t)))
<1>1. PICK W : W = U \cup {a, b, c, d}
  OBVIOUS
<1>2. t \in Seq(W) /\ a \in W /\ b \in W /\ c \in W /\ d \in W
  BY <1>1, SeqMonotonic
<1>3. PICK w, v, u : w = Cons(d, t) /\ v = Cons(c, w) /\ u = Cons(b, v)
  OBVIOUS
<1>4. w \in Seq(W)
  BY <1>2, <1>3, ConsOne
<1>5. v \in Seq(W)
  BY <1>2, <1>3, <1>4, ConsOne
<1>6. u \in Seq(W)
  BY <1>2, <1>3, <1>5, ConsOne
<1>7. Head(Cons(a, u)) = a /\ Tail(Cons(a, u)) = u
  BY <1>6, ConsOne
<1>8. <<a, b>> \o v = Cons(a, u) /\ <<c, d>> \o t = v
  <2>1. <<c, d>> \o t = Cons(c, Cons(d, t))
    BY ConsTwo
  <2>2. <<a, b>> \o v = Cons(a, Cons(b, v))
    BY <1>5, ConsTwo
  <2> QED BY <1>3, <2>1, <2>2
<1>9. <<a, b, c, d>> = <<a, b>> \o <<c, d>>
  OBVIOUS
<1>10. (<<a, b>> \o <<c, d>>) \o t = <<a, b>> \o (<<c, d>> \o t)
  <2>1. <<a, b>> \in Seq(W) /\ <<c, d>> \in Seq(W)
    BY <1>2
  <2> QED BY <1>2, <2>1, ConcatAssociative
<1> QED BY <1>3, <1>7, <1>8, <1>9, <1>10

LEMMA ConsAgain ==
  ASSUME NEW U, NEW t \in Seq(U), t # <<>>
  PROVE  Head(t) \in U /\ Tail(t) \in Seq(U) /\ t = Cons(Head(t), Tail(t))
<1>1. Head(t) \in U /\ Tail(t) \in Seq(U)
  BY HeadTailProperties
<1>2. <<>> \in Seq(U) /\ Append(<<>>, Head(t)) \o Tail(t) = <<>> \o t
  BY HeadToFront
<1>3. <<>> \o t = t
  BY ConcatEmptySeq
<1>4. Append(<<>>, Head(t)) = <<Head(t)>>
  OBVIOUS
<1> QED BY <1>1, <1>2, <1>3, <1>4 DEF Cons

-----------------------------------------------------------------------------
(* Where a rename may be.  Looking: on the way to the source, then to the  *)
(* folder it goes to, or about to be refused for a storage.                *)
Looking ==
  /\ Tells(cache, {}) /\ View = pre.view
  /\ \E m : Live(m) /\ NodePath(m) = call.path
  /\ \E m : IsFolderNode(m) /\ NodePath(m) = Front(call.new)
  /\ \/ \E dir, rest : /\ Walking(dir, rest, call.path)
                       /\ todo = << <<"getNode", dir, rest, <<"source", call.new>> >> >>
     \/ \E dir, rest, node : /\ Walking(dir, rest, Front(call.new)) /\ FoundAt(node, call.path)
                             /\ todo = << <<"getNode", dir, rest, <<"newParent", node, Last(call.new)>> >> >>
     \/ \E node, d, name : node.id \in Storages /\ ~node.file /\ todo = << <<"rename", node, d, name>> >>

(* Moving: between two nodes of the folder being moved, or at one of the   *)
(* steps of moving a node.  What is left then, t, is to move the rest of   *)
(* the folders around it.                                                  *)
Ready(t) == Fresh /\ todo = t /\ (Leaves(t) \/ Gone)
Arriving(t) == \E node, d, name :
  /\ todo = Cons(<<"rename", node, d, name>>, t)
  /\ Goes(node.id, d, name) /\ node.file = objs[node.id].file /\ Ends(PathOf(node.id), t)
Clean(n) == n \in DOMAIN localFiles => ~localFiles[n].dirty
Flushing(t) == \E n, d, name :
  /\ \/ todo = Cons(<<"fsync", n>>, Cons(<<"copyTo", n, d, name>>, t))
     \/ n \notin DOMAIN cache /\ todo = Cons(<<"closeFile", n, {ParentNode(n)}>>, Cons(<<"copyTo", n, d, name>>, t))
     \/ Clean(n) /\ todo = Cons(<<"copyTo", n, d, name>>, t)
  /\ Goes(n, d, name) /\ objs[n].file /\ Ends(PathOf(n), t)
Dropping(t) == \E n :
  /\ Fresh /\ todo = Cons(<<"dropOriginal", n, ParentNode(n)>>, t)
  /\ Src(n) /\ n \notin DOMAIN cache /\ Clean(n) /\ objs[n].file /\ Moved(Item(n)) \in View
  /\ Ends(PathOf(n), t)
Making(t) == \E n, d, name, K :
  /\ todo = Cons(<<"mkdir", d, name>>, Cons(<<"getNode", d, <<name>>, <<"destDir", n>> >>,
                 Cons(<<"remove", n, FALSE>>, Cons(<<"clearItems", K>>, t))))
  /\ Goes(n, d, name) /\ ~objs[n].file /\ Ends(PathOf(n), t)
Entering(t) == \E n, d, name, e :
  /\ Fresh /\ todo = Cons(<<"getNode", d, <<name>>, <<"destDir", n>> >>, t)
  /\ Goes(n, d, name) /\ d \notin DOMAIN cache /\ Copied(n, e) /\ Leaves(t)
Replacing(t) == \E n, x, d, name :
  /\ todo = Cons(<<"sendFile", n, {FolderFor(x)}, x>>, Cons(<<"copyTo", n, d, name>>, t))
  /\ n \in DOMAIN localFiles \ DOMAIN objs /\ x \in Object /\ x.file /\ IsFolderNode(FolderFor(x)) /\ ~pre.saved
  /\ ItemFor(x) \in pre.view /\ PathFor(x) \in Seq(PathElem) /\ IsPrefix(call.path, PathFor(x))
  /\ IsFolderNode(d) /\ name \in Names /\ Append(NodePath(d), name) = Image(PathFor(x)) /\ Ends(PathFor(x), t)
  /\ Parts(View, {ItemFor(x)}) /\ Tells(cache, Off \cup {FolderFor(x)})
Midway(t) == Ready(t) \/ Arriving(t) \/ Flushing(t) \/ Dropping(t) \/ Making(t) \/ Entering(t)
Moving ==
  /\ Len(call.path) > 1
  /\ \E t \in Seq(GoodSteps) : \/ Parts(View, {}) /\ Tells(cache, Off) /\ Midway(t)
                               \/ Replacing(t)

RenameInv ==
  call.op = "rename" /\ pre.coherent =>
    /\ Apart /\ Past /\ (pre.saved => Kept)
    /\ \/ reply.code = "ok" /\ Whole(localFiles) /\ (pre.saved => Settled) /\ (Looking \/ Moving)
       \/ reply.code # "ok" /\ todo = <<>> /\ Elsewhere(View) = Elsewhere(pre.view)

-----------------------------------------------------------------------------
(* A step of a rename that has not failed.                                 *)
Going == /\ Base /\ NoTwins(objs) /\ Step /\ ~Crash
         /\ call.op = "rename" /\ pre.coherent /\ reply.code = "ok" /\ Apart /\ Past
         /\ Whole(localFiles) /\ (pre.saved => Settled)

LEMMA GoingFacts ==
  ASSUME Going
  PROVE  /\ Base /\ Base' /\ NoTwins(objs) /\ TypeOK /\ IsStore(objs) /\ WellFormed(call) /\ todo # <<>>
         /\ call' = call /\ pre' = pre /\ DeviceStep /\ Apart /\ Past /\ Apart' /\ Past'
         /\ call.new \in LongPath
<1>1. Base /\ NoTwins(objs) /\ TypeOK /\ IsStore(objs) /\ Apart /\ Past
  BY BaseFacts DEF Going
<1>2. todo # <<>> /\ call' = call /\ pre' = pre
  BY StepFrame DEF Going
<1>3. Base' /\ DeviceStep
  BY <1>1, NextBase, IsDeviceStep DEF Going, Next
<1>4. WellFormed(call)
  BY <1>1, <1>2, InCall
<1>5. call.new \in LongPath
  BY <1>4 DEF WellFormed, Going
<1>6. Apart' /\ Past'
  BY <1>1, <1>2 DEF Apart, Past
<1> QED BY <1>1, <1>2, <1>3, <1>4, <1>5, <1>6

LEMMA KeptAfter ==
  ASSUME Base', Apart, Past, call' = call, pre' = pre, NEW V, V = View', Parts(V, {}), Settled', Whole(localFiles')
  PROVE  Kept'
<1>1. ASSUME NEW v \in pre.view, v.file
      PROVE  \E i \in DOMAIN objs' : /\ objs'[i].file /\ objs'[i].data = v.data
                                     /\ PathIn(objs', i) = v.path \/ (Fresh /\ Below(v, call.path) /\ PathIn(objs', i) = Image(v.path))
  <2>2. CleanCopiesCurrent'
    BY DEF Base, CopiesInv
  <2>3. \A i \in DOMAIN objs' : Content(i)' = objs'[i].data
    BY <2>2 DEF Content, CleanCopiesCurrent, Settled, Whole
  <2>4. V = {[path |-> PathIn(objs', i), file |-> objs'[i].file, data |-> Content(i)'] : i \in DOMAIN objs'}
    BY DEF View, PathOf
  <2>5. CASE v \in V
    <3>1. PICK i \in DOMAIN objs' : v = [path |-> PathIn(objs', i), file |-> objs'[i].file, data |-> Content(i)']
      BY <2>4, <2>5
    <3>2. PathIn(objs', i) = v.path /\ objs'[i].file = v.file /\ Content(i)' = v.data
      BY <3>1
    <3> QED BY <1>1, <2>3, <3>2
  <2>6. CASE Fresh /\ Below(v, call.path) /\ Moved(v) \in V
    <3>1. PICK w : w = Moved(v)
      OBVIOUS
    <3>2. PICK i \in DOMAIN objs' : w = [path |-> PathIn(objs', i), file |-> objs'[i].file, data |-> Content(i)']
      BY <2>4, <2>6, <3>1
    <3>3. w.path = PathIn(objs', i) /\ w.file = objs'[i].file /\ w.data = Content(i)'
      BY <3>2
    <3>4. w.path = Image(v.path)
      BY <2>6, <3>1, MovedPath
    <3>5. w = [v EXCEPT !.path = Image(v.path)]
      BY <3>1 DEF Moved
    <3>6. w.file = v.file /\ w.data = v.data
      BY <3>5
    <3> QED BY <1>1, <2>3, <2>6, <3>3, <3>4, <3>6
  <2> QED BY <2>5, <2>6 DEF Parts
<1>2. Fresh' = Fresh /\ (\A s : Image(s)' = Image(s)) /\ \A v : Below(v, call.path)' = Below(v, call.path)
  BY DEF Fresh, Image, Below
<1>3. \A v \in pre'.view : v.file =>
        \E i \in DOMAIN objs' : /\ objs'[i].file /\ objs'[i].data = v.data
                                /\ PathOf(i)' = v.path \/ (Fresh' /\ Below(v, call.path)' /\ PathOf(i)' = Image(v.path)')
  BY <1>1, <1>2 DEF PathOf
<1> QED BY <1>3 DEF Kept

LEMMA PartsAfter ==
  ASSUME call' = call, pre' = pre
  PROVE  /\ \A V, G : Parts(V, G)' = Parts(V, G)
         /\ \A V : Elsewhere(V)' = Elsewhere(V)
         /\ \A s : Image(s)' = Image(s)
         /\ Fresh' = Fresh
BY DEF Parts, Elsewhere, Image, Fresh, Below, Moved

(* The rename goes on, or stops.                                           *)
LEMMA MovesOn ==
  ASSUME Going, reply' = reply, Len(call.path) > 1, Whole(localFiles)', pre.saved => Settled',
         NEW V, V = View', Parts(V, {}), Tells(cache, Off)', NEW t, t \in Seq(GoodSteps'), Midway(t)'
  PROVE  RenameInv'
<1>1. /\ Base' /\ call' = call /\ pre' = pre /\ Apart /\ Past /\ Apart' /\ Past'
  BY GoingFacts
<1>2. pre.saved => Kept'
  BY <1>1, KeptAfter
<1>3. Parts(View, {})'
  BY <1>1, PartsAfter
<1>4. Moving'
  BY <1>1, <1>3 DEF Moving
<1> QED BY <1>1, <1>2, <1>4 DEF RenameInv, Going

LEMMA StopsAt ==
  ASSUME Going, todo' = <<>>, reply'.code # "ok", NEW V, V = View', NEW G, Parts(V, G), \A v \in G : Below(v, call.path),
         pre.saved => G = {} /\ Settled' /\ Whole(localFiles')
  PROVE  RenameInv'
<1>1. /\ Base' /\ call' = call /\ pre' = pre /\ Apart /\ Past /\ Apart' /\ Past'
  BY GoingFacts
<1>2. pre.saved => Kept'
  BY <1>1, KeptAfter
<1>3. Elsewhere(V) = Elsewhere(pre.view)
  BY <1>1, PartsElsewhere
<1>4. PICK W : W = pre.view
  OBVIOUS
<1>5. Elsewhere(V)' = Elsewhere(W)'
  BY <1>1, <1>3, <1>4, PartsAfter
<1>6. Elsewhere(View)' = Elsewhere(pre.view)'
  BY <1>1, <1>4, <1>5 DEF Elsewhere
<1> QED BY <1>1, <1>2, <1>6 DEF RenameInv

(* Nothing happened to the tree.                                           *)
LEMMA StopsHere ==
  ASSUME Going, Parts(View, {}), objs' = objs, NEW code, code # "ok", NEW c,
         NEW files, Throw(code, c, files), Whole(files), \A i \in DOMAIN files : ~files[i].dirty \/ ~pre.saved,
         \A i \in DOMAIN objs : Content(i)' = Content(i)
  PROVE  RenameInv'
<1>1. todo' = <<>> /\ reply'.code # "ok" /\ localFiles' = files
  BY DEF Throw
<1>2. View' = View
  BY SameView
<1>3. pre.saved => Settled' /\ Whole(localFiles')
  BY <1>1 DEF Settled
<1> QED BY <1>1, <1>2, <1>3, StopsAt

LEMMA ReadingFails ==
  ASSUME Going, Parts(View, {}), ReadFails
  PROVE  RenameInv'
<1>1. PICK c, files : Throw("EIO", c, files) /\ files = localFiles
  BY DEF ReadFails
<1>2. objs' = objs
  BY DEF ReadFails, NoDeviceChange, device
<1>3. localFiles' = localFiles
  BY <1>1 DEF Throw
<1>4. \A i \in DOMAIN objs : Content(i)' = Content(i)
  BY <1>2, <1>3 DEF Content
<1>5. Whole(files) /\ \A i \in DOMAIN files : ~files[i].dirty \/ ~pre.saved
  BY <1>1 DEF Going, Settled
<1> QED BY <1>1, <1>2, <1>4, <1>5, StopsHere

LEMMA Refused ==
  ASSUME Going, Parts(View, {}), objs' = objs, NEW code, code # "ok", NEW c, Throw(code, c, localFiles)
  PROVE  RenameInv'
<1>1. PICK files : files = localFiles
  OBVIOUS
<1>2. localFiles' = localFiles
  BY DEF Throw
<1>3. \A i \in DOMAIN objs : Content(i)' = Content(i)
  BY <1>2 DEF Content
<1>4. Whole(files) /\ \A i \in DOMAIN files : ~files[i].dirty \/ ~pre.saved
  BY <1>1 DEF Going, Settled
<1> QED BY <1>1, <1>3, <1>4, StopsHere

(* Steps that change nothing on the device.                                *)
LEMMA Quietly ==
  ASSUME Going, Len(call.path) > 1, Parts(View, {}), objs' = objs, nextId' = nextId, reply' = reply,
         NEW c, cache' = c, Tells(c, Off), \A n \in DOMAIN c : n \in DOMAIN cache \/ Live(n),
         NEW files, localFiles' = files, Whole(files), \A i \in DOMAIN files : ~files[i].dirty \/ ~pre.saved,
         \A i \in DOMAIN objs : Content(i)' = Content(i)
  PROVE  /\ Keeps({}) /\ Gone' = Gone
         /\ \A t \in Seq(GoodSteps) : t \in Seq(GoodSteps') /\ (Leaves(t) => Leaves(t)')
         /\ \A t : t \in Seq(GoodSteps') /\ Midway(t)' => RenameInv'
<1>1. Base /\ Apart /\ call' = call /\ pre' = pre
  BY GoingFacts
<1>2. Keeps({})
  BY <1>1, QuietKeeps
<1>3. Gone' = Gone
  BY <1>1 DEF Gone, PathOf
<1>4. PICK G : G = {}
  OBVIOUS
<1>5. Keeps(G)
  BY <1>2, <1>4
<1>6. /\ Off \subseteq Off'
      /\ \A t \in Seq(GoodSteps) : t \in Seq(GoodSteps')
      /\ \A t : Leaves(t) /\ (\A i \in G : PathOf(i) # call.path) => Leaves(t)'
  BY <1>1, <1>5, CarriedOver
<1>7. View' = View
  BY SameView
<1>8. Tells(cache, Off)'
  <2>1. PICK K : K = Off
    OBVIOUS
  <2>2. Tells(c, K)'
    BY <2>1, TellsSame
  <2> QED BY <1>6, <2>1, <2>2 DEF Tells
<1>9. Whole(localFiles)' /\ (pre.saved => Settled')
  BY DEF Whole, Settled
<1>10. PICK V : V = View' /\ Parts(V, {})
  BY <1>7
<1>11. ASSUME NEW t, t \in Seq(GoodSteps'), Midway(t)' PROVE RenameInv'
  BY <1>8, <1>9, <1>10, <1>11, MovesOn
<1> QED BY <1>2, <1>3, <1>4, <1>6, <1>11

LEMMA LeavesOn ==
  ASSUME NEW U, NEW t \in Seq(U), NEW a
  PROVE  /\ Leaves(t) => Leaves(Cons(a, t))
         /\ Leaves(t)' => Leaves(Cons(a, t))'
         /\ Leaves(Cons(a, t)) => Leaves(t) \/ \E n \in DOMAIN objs : PathOf(n) = call.path /\ a = <<"remove", n, FALSE>>
<1>1. Range(Cons(a, t)) = {a} \cup Range(t)
  BY ConsOne
<1> QED BY <1>1 DEF Leaves

LEMMA GoodAgain ==
  ASSUME Base', NEW u \in Seq(GoodSteps'), NEW a, Good(a)'
  PROVE  /\ todo' = Cons(a, u) => Cons(a, u) \in Seq(GoodSteps')
         /\ \A b : todo' = Cons(b, Cons(a, u)) /\ Good(b)' => Cons(b, Cons(a, u)) \in Seq(GoodSteps')
<1>1. todo' \in Seq(TrueStep')
  BY DEF Base, KindsInv
<1>2. ASSUME todo' = Cons(a, u) PROVE Cons(a, u) \in Seq(GoodSteps')
  <2>1. Head(Cons(a, u)) = a /\ Cons(a, u) # <<>>
    BY ConsOne
  <2>2. a \in TrueStep'
    BY <1>1, <1>2, <2>1, HeadTailProperties
  <2>3. a \in GoodSteps'
    BY <2>2 DEF GoodSteps
  <2> QED BY <2>3, ConsOne
<1>3. ASSUME NEW b, todo' = Cons(b, Cons(a, u)), Good(b)' PROVE Cons(b, Cons(a, u)) \in Seq(GoodSteps')
  <2>1. PICK v, w, X : v = Cons(a, u) /\ w = Cons(b, v) /\ X = GoodSteps' \cup {a}
    OBVIOUS
  <2>2. v \in Seq(X) /\ Head(v) = a /\ v # <<>>
    BY <2>1, ConsOne
  <2>3. w # <<>> /\ Head(w) = b /\ Tail(w) = v
    <3>1. Cons(b, v) # <<>> /\ Head(Cons(b, v)) = b /\ Tail(Cons(b, v)) = v
      BY <2>2, ConsOne
    <3> QED BY <2>1, <3>1
  <2>4. b \in TrueStep' /\ v \in Seq(TrueStep')
    BY <1>1, <1>3, <2>1, <2>3, HeadTailProperties
  <2>5. a \in TrueStep'
    BY <2>2, <2>4, HeadTailProperties
  <2>6. a \in GoodSteps' /\ b \in GoodSteps'
    BY <1>3, <2>4, <2>5 DEF GoodSteps
  <2>7. v \in Seq(GoodSteps')
    BY <2>1, <2>6, ConsOne
  <2> QED BY <2>1, <2>6, <2>7, ConsOne
<1> QED BY <1>2, <1>3

-----------------------------------------------------------------------------
(* Between two nodes: a step of a folder being moved.                      *)
LEMMA StepIs ==
  ASSUME NEW U, NEW u \in Seq(U), NEW s, todo = Cons(s, u)
  PROVE  /\ Head(todo) = s /\ Tail(todo) = u /\ todo # <<>>
         /\ \A a : At(a) <=> a = s[1]
         /\ \A k : Arg(k) = s[k]
<1>1. Head(todo) = s /\ Tail(todo) = u /\ todo # <<>>
  BY ConsOne
<1> QED BY <1>1 DEF At, Arg

LEMMA AtSource ==
  ASSUME Base, Apart, Len(call.path) > 1, NEW n, Src(n)
  PROVE  \E m \in DOMAIN objs : PathOf(m) = call.path /\ n \in Subtree(objs, m)
<1>1. PICK q : q = call.path
  OBVIOUS
<1>2. q \in Seq(PathElem) /\ Len(q) > 1 /\ n \in DOMAIN objs /\ IsPrefix(q, PathIn(objs, n)) /\ IsStore(objs)
  BY <1>1, BaseFacts DEF Apart, Src, PathOf
<1>3. \E j \in DOMAIN objs : PathIn(objs, j) = q /\ n \in Subtree(objs, j)
  BY <1>2, AncestorAt
<1> QED BY <1>1, <1>3 DEF PathOf

LEMMA CopiedAlive ==
  ASSUME Base, Apart, Tells(cache, Off), NEW n, NEW d, Copied(n, d), NEW r \in getItem(n)
  PROVE  /\ Src(n) /\ ~objs[n].file /\ NodePath(d) = Image(PathOf(n)) /\ Live(n) /\ n \notin Off
         /\ IsFolderNode(n) /\ NodePath(n) = PathOf(n) /\ n \in NodeIds
         /\ r.md = getMetadata(n) /\ Tells(r.cache, Off)
         /\ \A m \in DOMAIN r.cache : m \in DOMAIN cache \/ Live(m)
<1>1. n \in DOMAIN cache \cup Storages \cup DOMAIN objs
  BY DEF getItem
<1>2. Src(n) /\ ~objs[n].file /\ NodePath(d) = Image(PathOf(n))
  BY <1>1 DEF Copied
<1>3. Live(n) /\ n \in DOMAIN objs /\ IsFolderNode(n)
  BY <1>2 DEF Src, Live, IsFolderNode
<1>4. NodePath(n) = PathOf(n) /\ n \in NodeIds
  BY <1>3, NodePathType, TrueNodes
<1>5. n \notin Off
  BY <1>2, <1>4 DEF Off, Src
<1>6. PICK K : K = Off
  OBVIOUS
<1>7. r.md = getMetadata(n) /\ Tells(r.cache, K) /\ DOMAIN r.cache = DOMAIN cache \cup {n}
  BY <1>3, <1>5, <1>6, ItemTells
<1> QED BY <1>2, <1>3, <1>4, <1>5, <1>6, <1>7

LEMMA ClearOn ==
  ASSUME Going, Len(call.path) > 1, Parts(View, {}), Tells(cache, Off), NEW u \in Seq(GoodSteps), Fresh,
         NEW K, todo = Cons(<<"clearItems", K>>, u), Leaves(todo) \/ Gone
  PROVE  RenameInv'
<1>0. Base /\ call' = call /\ pre' = pre
  BY GoingFacts
<1>1. PICK s : s = <<"clearItems", K>>
  OBVIOUS
<1>2. Tail(todo) = u /\ At("clearItems") /\ Arg(2) = K
  <2>1. todo = Cons(s, u)
    BY <1>1
  <2>2. Tail(todo) = u /\ (\A a : At(a) <=> a = s[1]) /\ \A k : Arg(k) = s[k]
    BY <2>1, StepIs
  <2>3. s[1] = "clearItems" /\ s[2] = K
    BY <1>1
  <2> QED BY <2>2, <2>3
<1>3. ClearItems
  BY <1>2, WhichStep DEF Going
<1>4. objs' = objs /\ nextId' = nextId /\ reply' = reply /\ localFiles' = localFiles /\ cache' = Drop(cache, K) /\ todo' = <<>> \o u
  BY <1>2, <1>3 DEF ClearItems, NoDeviceChange, device, Goto
<1>5. PICK c, files : c = Drop(cache, K) /\ files = localFiles
  OBVIOUS
<1>6. Tells(c, Off) /\ \A n \in DOMAIN c : n \in DOMAIN cache \/ Live(n)
  <2>1. PICK L : L = Off
    OBVIOUS
  <2>2. Tells(c, L)
    BY <1>5, <2>1, TellsLess
  <2> QED BY <1>5, <2>1, <2>2 DEF Drop
<1>7. Whole(files) /\ (\A i \in DOMAIN files : ~files[i].dirty \/ ~pre.saved) /\ \A i \in DOMAIN objs : Content(i)' = Content(i)
  BY <1>4, <1>5 DEF Going, Settled, Content
<1>8. /\ Gone' = Gone
      /\ \A t \in Seq(GoodSteps) : t \in Seq(GoodSteps') /\ (Leaves(t) => Leaves(t)')
      /\ \A t : t \in Seq(GoodSteps') /\ Midway(t)' => RenameInv'
  BY <1>4, <1>5, <1>6, <1>7, Quietly
<1>9. Leaves(u) \/ Gone
  <2>1. Leaves(Cons(s, u)) => Leaves(u) \/ \E n \in DOMAIN objs : PathOf(n) = call.path /\ s = <<"remove", n, FALSE>>
    BY LeavesOn
  <2> QED BY <1>1, <2>1
<1>10. todo' = u
  BY <1>4, ConsOne
<1>11. Fresh'
  BY <1>0, PartsAfter
<1>12. Midway(u)'
  BY <1>8, <1>9, <1>10, <1>11 DEF Midway, Ready
<1> QED BY <1>8, <1>12

LEMMA ContentsOn ==
  ASSUME Going, Len(call.path) > 1, Parts(View, {}), Tells(cache, Off), NEW u \in Seq(GoodSteps), Fresh,
         NEW n, NEW d, Copied(n, d), todo = Cons(<<"moveContents", n, d>>, u), Leaves(todo) \/ Gone
  PROVE  RenameInv'
<1>0. Base /\ Base' /\ Apart /\ call' = call /\ pre' = pre
  BY GoingFacts
<1>1. PICK s : s = <<"moveContents", n, d>>
  OBVIOUS
<1>2. Tail(todo) = u /\ At("moveContents") /\ Arg(2) = n /\ Arg(3) = d
  <2>1. todo = Cons(s, u)
    BY <1>1
  <2>2. Tail(todo) = u /\ (\A a : At(a) <=> a = s[1]) /\ \A k : Arg(k) = s[k]
    BY <2>1, StepIs
  <2>3. s[1] = "moveContents" /\ s[2] = n /\ s[3] = d
    BY <1>1
  <2> QED BY <2>2, <2>3
<1>3. MoveContents \/ ReadFails
  BY <1>2, WhichStep DEF Going
<1>4. SUFFICES ASSUME MoveContents PROVE RenameInv'
  BY <1>3, ReadingFails
<1>5. PICK r \in getItem(n) : Goto(<< <<"moveRest", n, d, r.md.children>> >>, r.cache, localFiles)
  BY <1>2, <1>4 DEF MoveContents
<1>6. PICK m, c, files : m = <<"moveRest", n, d, r.md.children>> /\ c = r.cache /\ files = localFiles
  OBVIOUS
<1>7. objs' = objs /\ nextId' = nextId /\ reply' = reply /\ localFiles' = files /\ cache' = c /\ todo' = Cons(m, u)
  <2>1. <<m>> \o u = Cons(m, u)
    BY ConsOne
  <2> QED BY <1>2, <1>4, <1>5, <1>6, <2>1 DEF MoveContents, NoDeviceChange, device, Goto
<1>8. Tells(c, Off) /\ \A k \in DOMAIN c : k \in DOMAIN cache \/ Live(k)
  BY <1>0, <1>6, CopiedAlive
<1>9. Whole(files) /\ (\A i \in DOMAIN files : ~files[i].dirty \/ ~pre.saved) /\ \A i \in DOMAIN objs : Content(i)' = Content(i)
  BY <1>6, <1>7 DEF Going, Settled, Content
<1>10. /\ Keeps({}) /\ Gone' = Gone
       /\ \A t \in Seq(GoodSteps) : t \in Seq(GoodSteps') /\ (Leaves(t) => Leaves(t)')
       /\ \A t : t \in Seq(GoodSteps') /\ Midway(t)' => RenameInv'
  BY <1>7, <1>8, <1>9, Quietly
<1>11. Leaves(u) \/ Gone
  <2>1. Leaves(Cons(s, u)) => Leaves(u) \/ \E k \in DOMAIN objs : PathOf(k) = call.path /\ s = <<"remove", k, FALSE>>
    BY LeavesOn
  <2> QED BY <1>1, <2>1
<1>12. Fresh' /\ Copied(n, d)'
  <2>1. PICK G : G = {}
    OBVIOUS
  <2>2. \A k, j : Copied(k, j) => Copied(k, j)'
    BY <1>0, <1>10, <2>1, CarriedOver
  <2> QED BY <1>0, <2>2, PartsAfter
<1>13. Good(m)'
  BY <1>6, <1>12 DEF Good
<1>14. u \in Seq(GoodSteps')
  BY <1>10
<1>15. Cons(m, u) \in Seq(GoodSteps')
  BY <1>0, <1>7, <1>13, <1>14, GoodAgain
<1>16. Leaves(u)' => Leaves(Cons(m, u))'
  BY LeavesOn
<1>17. Midway(Cons(m, u))'
  BY <1>7, <1>10, <1>11, <1>12, <1>16 DEF Midway, Ready
<1> QED BY <1>10, <1>15, <1>17

LEMMA RestOn ==
  ASSUME Going, Len(call.path) > 1, Parts(View, {}), Tells(cache, Off), NEW u \in Seq(GoodSteps), Fresh,
         NEW n, NEW d, NEW S, Copied(n, d), todo = Cons(<<"moveRest", n, d, S>>, u), Leaves(todo) \/ Gone
  PROVE  RenameInv'
<1>0. Base /\ Base' /\ Apart /\ call' = call /\ pre' = pre
  BY GoingFacts
<1>1. PICK s : s = <<"moveRest", n, d, S>>
  OBVIOUS
<1>2. Tail(todo) = u /\ At("moveRest") /\ Arg(2) = n /\ Arg(3) = d /\ Arg(4) = S
  <2>1. todo = Cons(s, u)
    BY <1>1
  <2>2. Tail(todo) = u /\ (\A a : At(a) <=> a = s[1]) /\ \A k : Arg(k) = s[k]
    BY <2>1, StepIs
  <2>3. s[1] = "moveRest" /\ s[2] = n /\ s[3] = d /\ s[4] = S
    BY <1>1
  <2> QED BY <2>2, <2>3
<1>3. MoveRest
  BY <1>2, WhichStep DEF Going
<1>4. PICK c, files : c = cache /\ files = localFiles
  OBVIOUS
<1>5. /\ objs' = objs /\ nextId' = nextId /\ reply' = reply /\ localFiles' = files /\ cache' = c
      /\ \/ todo' = <<>> \o u
         \/ \E e \in S : todo' = << <<"getNode", n, <<e.name>>, <<"child", d, e.name>> >>, <<"moveRest", n, d, S \ {e}>> >> \o u
  BY <1>2, <1>3, <1>4 DEF MoveRest, NoDeviceChange, device, Goto
<1>6. Tells(c, Off) /\ \A k \in DOMAIN c : k \in DOMAIN cache \/ Live(k)
  BY <1>4
<1>7. Whole(files) /\ (\A i \in DOMAIN files : ~files[i].dirty \/ ~pre.saved) /\ \A i \in DOMAIN objs : Content(i)' = Content(i)
  BY <1>4, <1>5 DEF Going, Settled, Content
<1>8. /\ Keeps({}) /\ Gone' = Gone
      /\ \A t \in Seq(GoodSteps) : t \in Seq(GoodSteps') /\ (Leaves(t) => Leaves(t)')
      /\ \A t : t \in Seq(GoodSteps') /\ Midway(t)' => RenameInv'
  BY <1>5, <1>6, <1>7, Quietly
<1>9. Leaves(u) \/ Gone
  <2>1. Leaves(Cons(s, u)) => Leaves(u) \/ \E k \in DOMAIN objs : PathOf(k) = call.path /\ s = <<"remove", k, FALSE>>
    BY LeavesOn
  <2> QED BY <1>1, <2>1
<1>10. Fresh' /\ Copied(n, d)'
  <2>1. PICK G : G = {}
    OBVIOUS
  <2>2. \A k, j : Copied(k, j) => Copied(k, j)'
    BY <1>0, <1>8, <2>1, CarriedOver
  <2> QED BY <1>0, <2>2, PartsAfter
<1>11. u \in Seq(GoodSteps') /\ (Leaves(u)' \/ Gone')
  BY <1>8, <1>9
<1>12. CASE todo' = <<>> \o u
  <2>1. todo' = u
    BY <1>12, ConsOne
  <2>2. Midway(u)'
    BY <1>10, <1>11, <2>1 DEF Midway, Ready
  <2> QED BY <1>8, <1>11, <2>2
<1>13. ASSUME NEW e \in S, todo' = << <<"getNode", n, <<e.name>>, <<"child", d, e.name>> >>, <<"moveRest", n, d, S \ {e}>> >> \o u
       PROVE  RenameInv'
  <2>1. PICK g, m : g = <<"getNode", n, <<e.name>>, <<"child", d, e.name>> >> /\ m = <<"moveRest", n, d, S \ {e}>>
    OBVIOUS
  <2>2. <<g, m>> \o u = Cons(g, Cons(m, u))
    BY ConsMore
  <2>3. todo' = Cons(g, Cons(m, u))
    BY <1>13, <2>1, <2>2
  <2>4. Good(g)' /\ Good(m)'
    BY <1>10, <2>1 DEF Good
  <2>5. PICK v, w : v = Cons(m, u) /\ w = Cons(g, v)
    OBVIOUS
  <2>6. w \in Seq(GoodSteps')
    BY <1>0, <1>11, <2>3, <2>4, <2>5, GoodAgain
  <2>7. Leaves(u)' => Leaves(w)'
    <3>1. v \in Seq(GoodSteps' \cup {m})
      BY <1>11, <2>5, ConsOne
    <3>2. Leaves(u)' => Leaves(v)'
      BY <1>11, <2>5, LeavesOn
    <3>3. Leaves(v)' => Leaves(w)'
      BY <3>1, <2>5, LeavesOn
    <3> QED BY <3>2, <3>3
  <2>8. Midway(w)'
    BY <1>10, <1>11, <2>3, <2>5, <2>7 DEF Midway, Ready
  <2> QED BY <1>8, <2>6, <2>8
<1> QED BY <1>5, <1>12, <1>13

LEMMA ChildOn ==
  ASSUME Going, Len(call.path) > 1, Parts(View, {}), Tells(cache, Off), NEW u \in Seq(GoodSteps), Fresh,
         NEW n, NEW d, NEW name, Copied(n, d), todo = Cons(<<"getNode", n, <<name>>, <<"child", d, name>> >>, u), Leaves(todo) \/ Gone
  PROVE  RenameInv'
<1>0. Base /\ Base' /\ Apart /\ call' = call /\ pre' = pre
  BY GoingFacts
<1>1. PICK s, k, rest : s = <<"getNode", n, rest, k>> /\ k = <<"child", d, name>> /\ rest = <<name>>
  OBVIOUS
<1>2. Tail(todo) = u /\ At("getNode") /\ Arg(2) = n /\ Arg(3) = rest /\ Arg(4) = k
  <2>1. todo = Cons(s, u)
    BY <1>1
  <2>2. Tail(todo) = u /\ (\A a : At(a) <=> a = s[1]) /\ \A j : Arg(j) = s[j]
    BY <2>1, StepIs
  <2>3. s[1] = "getNode" /\ s[2] = n /\ s[3] = rest /\ s[4] = k
    BY <1>1
  <2> QED BY <2>2, <2>3
<1>3. GetNode \/ ReadFails
  BY <1>2, WhichStep DEF Going
<1>4. SUFFICES ASSUME GetNode PROVE RenameInv'
  BY <1>3, ReadingFails
<1>5. rest # <<>> /\ Len(rest) = 1 /\ Head(rest) = name
  BY <1>1
<1>6. /\ objs' = objs /\ nextId' = nextId
      /\ \E r \in getItem(n) :
           \/ Throw("ENOENT", r.cache, localFiles)
           \/ \E e \in r.md.children : /\ e.name = name
                                       /\ Goto(Then(k, [id |-> e.id, file |-> e.file]), r.cache, localFiles)
  BY <1>2, <1>4, <1>5 DEF GetNode, NoDeviceChange, device
<1>7. PICK r \in getItem(n) :
           \/ Throw("ENOENT", r.cache, localFiles)
           \/ \E e \in r.md.children : /\ e.name = name
                                       /\ Goto(Then(k, [id |-> e.id, file |-> e.file]), r.cache, localFiles)
  BY <1>6
<1>8. PICK c, files : c = r.cache /\ files = localFiles
  OBVIOUS
<1>9. CASE Throw("ENOENT", c, localFiles)
  BY <1>6, <1>9, Refused
<1>10. ASSUME NEW e \in r.md.children, e.name = name, Goto(Then(k, [id |-> e.id, file |-> e.file]), c, localFiles)
       PROVE  RenameInv'
  <2>1. /\ Src(n) /\ ~objs[n].file /\ NodePath(d) = Image(PathOf(n)) /\ IsFolderNode(n) /\ NodePath(n) = PathOf(n)
        /\ r.md = getMetadata(n) /\ Tells(c, Off) /\ \A m \in DOMAIN c : m \in DOMAIN cache \/ Live(m)
    BY <1>0, <1>8, CopiedAlive
  <2>2. getMetadata(n).children =
           {[id |-> i, name |-> objs[i].name, file |-> objs[i].file] : i \in {j \in DOMAIN objs : ParentNode(j) = n}}
    BY <1>0, <2>1, FolderHolds
  <2>3. PICK i \in DOMAIN objs : ParentNode(i) = n /\ e = [id |-> i, name |-> objs[i].name, file |-> objs[i].file]
    BY <1>10, <2>1, <2>2
  <2>4. e.id = i /\ objs[i].name = name /\ e.file = objs[i].file
    BY <1>10, <2>3
  <2>5. NodePath(i) = Append(NodePath(n), name) /\ name \in Names /\ name \in PathElem /\ NodePath(i) = PathOf(i)
    BY <1>0, <2>3, <2>4, ChildPath, NodePathType DEF Live
  <2>6. PICK p, q : p = PathOf(n) /\ q = PathOf(i)
    OBVIOUS
  <2>7. q = Append(p, name) /\ p \in Seq(PathElem) /\ IsPrefix(call.path, p)
    BY <1>0, <2>1, <2>5, <2>6, NodePathType DEF Src, Live
  <2>8. Image(q) = Append(Image(p), name) /\ IsPrefix(call.path, q) /\ q # call.path
    BY <1>0, <2>5, <2>7, ImageBelow
  <2>9. Goes(i, d, name)
    BY <1>10, <2>1, <2>3, <2>5, <2>6, <2>8 DEF Goes, Src, Copied
  <2>10. Leaves(u)
    <3>1. Leaves(Cons(s, u)) => Leaves(u) \/ \E m \in DOMAIN objs : PathOf(m) = call.path /\ s = <<"remove", m, FALSE>>
      BY LeavesOn
    <3>2. ~Gone
      BY <1>0, <2>1, AtSource DEF Gone
    <3> QED BY <1>1, <3>1, <3>2
  <2>11. PICK node, m : node = [id |-> i, file |-> objs[i].file] /\ m = <<"rename", node, d, name>>
    OBVIOUS
  <2>12. Then(k, [id |-> e.id, file |-> e.file]) = <<m>>
    BY <1>1, <2>4, <2>11 DEF Then
  <2>13. reply' = reply /\ localFiles' = files /\ cache' = c /\ todo' = Cons(m, u)
    <3>1. <<m>> \o u = Cons(m, u)
      BY ConsOne
    <3> QED BY <1>2, <1>8, <1>10, <2>12, <3>1 DEF Goto
  <2>14. Whole(files) /\ (\A j \in DOMAIN files : ~files[j].dirty \/ ~pre.saved) /\ \A j \in DOMAIN objs : Content(j)' = Content(j)
    BY <1>6, <1>8, <2>13 DEF Going, Settled, Content
  <2>15. /\ Keeps({}) /\ Gone' = Gone
         /\ \A t \in Seq(GoodSteps) : t \in Seq(GoodSteps') /\ (Leaves(t) => Leaves(t)')
         /\ \A t : t \in Seq(GoodSteps') /\ Midway(t)' => RenameInv'
    BY <1>6, <2>1, <2>13, <2>14, Quietly
  <2>16. Goes(i, d, name)'
    <3>1. PICK G : G = {}
      OBVIOUS
    <3>2. \A j, l, w : j \notin G /\ Goes(j, l, w) => Goes(j, l, w)'
      BY <1>0, <2>15, <3>1, CarriedOver
    <3> QED BY <2>9, <3>1, <3>2
  <2>17. Ends(PathOf(i), u)'
    <3>1. PathOf(i)' = q /\ call'.path # q
      BY <1>0, <1>6, <2>6, <2>8 DEF PathOf
    <3> QED BY <2>10, <2>15, <3>1 DEF Ends
  <2>18. node.id = i /\ node.file = objs'[i].file
    BY <1>6, <2>11
  <2>19. Arriving(u)'
    BY <2>11, <2>13, <2>16, <2>17, <2>18 DEF Arriving
  <2> QED BY <2>15, <2>19 DEF Midway
<1> QED BY <1>7, <1>8, <1>9, <1>10

-----------------------------------------------------------------------------
(* The source of what was moved goes away.                                 *)
LEMMA SourceLoss ==
  ASSUME Going, Parts(View, {}), Fresh, NEW n, Src(n), Moved(Item(n)) \in View, Subtree(objs, n) = {n}, Removes(n),
         localFiles' = localFiles
  PROVE  /\ \E V : V = View' /\ Parts(V, {})
         /\ Whole(localFiles)' /\ Whole(localFiles') /\ (pre.saved => Settled')
<1>0. Base /\ Apart /\ Past
  BY GoingFacts
<1>1. \A i \in DOMAIN objs \ {n} : Content(i)' = Content(i)
  BY <1>0, RemovesKeepContents
<1>2. PICK V, v : V = View' /\ v = Item(n)
  OBVIOUS
<1>3. View = V \cup {v}
  BY <1>0, <1>1, <1>2, ViewRemoves
<1>4. v \in pre.view /\ Below(v, call.path) /\ ~Below(v, call.new)
  BY <1>0, <1>2, SourceWas
<1>5. Moved(v) \in V
  <2>1. Moved(v) # v
    BY <1>0, <1>4, MovedPath
  <2> QED BY <1>2, <1>3, <2>1
<1>6. Parts(V, {})
  BY <1>0, <1>3, <1>4, <1>5, PartsLess
<1>7. Whole(localFiles)' /\ Whole(localFiles') /\ (pre.saved => Settled')
  BY DEF Going, Whole, Settled
<1> QED BY <1>2, <1>6, <1>7

LEMMA SourceGone ==
  ASSUME Going, Len(call.path) > 1, Parts(View, {}), Fresh, NEW n, Src(n), Moved(Item(n)) \in View, Subtree(objs, n) = {n},
         Removes(n), localFiles' = localFiles, reply' = reply,
         NEW t \in Seq(GoodSteps), todo' = t, PathOf(n) = call.path \/ Leaves(t),
         NEW c, Tells(c, Off), \A m \in DOMAIN c : m \in DOMAIN cache \/ Live(m),
         NEW L, ParentNode(n) \in L, cache' = Drop(c, L), n \notin DOMAIN cache'
  PROVE  RenameInv'
<1>0. Base /\ NoTwins(objs) /\ IsStore(objs) /\ Apart /\ call' = call /\ pre' = pre
  BY GoingFacts
<1>1. PICK V : V = View' /\ Parts(V, {}) /\ Whole(localFiles)' /\ (pre.saved => Settled')
  BY SourceLoss
<1>2. PICK f, K : f = ParentNode(n) /\ K = Off
  OBVIOUS
<1>3. Tells(c, K \cup {f})'
  <2>1. \A b, M, g : g = ParentNode(n) /\ Tells(b, M) => Tells(b, M \cup {g})'
    BY <1>0, TellsRemoves
  <2> QED BY <1>2, <2>1
<1>4. \A m \in DOMAIN cache' : m \in DOMAIN cache \/ Live(m)
  BY DEF Drop
<1>5. Keeps({n}) /\ n \notin DOMAIN objs'
  BY <1>0, <1>4, RemoveKeeps
<1>6. PICK G : G = {n}
  OBVIOUS
<1>7. /\ Off \subseteq Off' /\ Fresh' = Fresh
      /\ \A s \in Seq(GoodSteps) : s \in Seq(GoodSteps')
      /\ \A s : Leaves(s) /\ (\A i \in G : PathOf(i) # call.path) => Leaves(s)'
  BY <1>0, <1>5, <1>6, CarriedOver
<1>8. Tells(cache, Off)'
  <2>1. \A m \in DOMAIN cache' : m \in DOMAIN c /\ m # f /\ cache'[m] = c[m]
    BY <1>2 DEF Drop
  <2> QED BY <1>2, <1>3, <1>7, <2>1 DEF Tells
<1>9. Leaves(t)' \/ Gone'
  <2>1. CASE PathOf(n) = call.path
    <3>1. ASSUME NEW i \in DOMAIN objs' PROVE PathIn(objs', i) # call.path
      <4>1. i \in DOMAIN objs \ {n} /\ PathOf(i)' = PathOf(i)
        BY <1>5, <3>1, BaseFacts, <1>0 DEF Keeps, DeviceStep, Removes, WithoutObject, Drop
      <4>2. PathOf(i) # PathOf(n)
        BY <1>0, <4>1, PathsUnique DEF Src, PathOf
      <4> QED BY <2>1, <4>1, <4>2 DEF PathOf
    <3> QED BY <1>0, <3>1 DEF Gone, PathOf
  <2>2. CASE PathOf(n) # call.path
    BY <1>6, <1>7, <2>2
  <2> QED BY <2>1, <2>2
<1>10. t \in Seq(GoodSteps')
  BY <1>7
<1>11. Midway(t)'
  BY <1>7, <1>9 DEF Midway, Ready
<1> QED BY <1>1, <1>8, <1>10, <1>11, MovesOn

LEMMA FolderEmpty ==
  ASSUME Base, NEW n \in DOMAIN objs, ~objs[n].file
  PROVE  /\ getMetadata(n).children = {} => Subtree(objs, n) = {n}
         /\ Content(n) = <<>>
<1>0. IsStore(objs) /\ IsFolderNode(n) /\ Live(n) /\ n # 0
  BY BaseFacts, StoreFields DEF IsFolderNode, Live
<1>1. getMetadata(n).children =
           {[id |-> i, name |-> objs[i].name, file |-> objs[i].file] : i \in {k \in DOMAIN objs : ParentNode(k) = n}}
  BY <1>0, FolderHolds
<1>2. ASSUME getMetadata(n).children = {} PROVE Subtree(objs, n) = {n}
  <2>1. \A i \in DOMAIN objs : ParentNode(i) # n
    BY <1>1, <1>2
  <2>2. \A i \in DOMAIN objs : objs[i].parent # n
    BY <1>0, <2>1 DEF ParentNode
  <2> QED BY <1>0, <2>2, NothingBelow
<1>3. n \notin DOMAIN localFiles
  BY CopiedIsFile
<1>4. objs[n].data = <<>>
  BY <1>0 DEF IsStore, IsTree
<1> QED BY <1>2, <1>3, <1>4 DEF Content

LEMMA RemoveOn ==
  ASSUME Going, Len(call.path) > 1, Parts(View, {}), Tells(cache, Off), NEW u \in Seq(GoodSteps), Fresh,
         NEW n, NEW d, Copied(n, d), todo = Cons(<<"remove", n, FALSE>>, u), Leaves(todo) \/ Gone
  PROVE  RenameInv'
<1>0. Base /\ Base' /\ Apart /\ Past /\ call' = call /\ pre' = pre
  BY GoingFacts
<1>1. PICK s : s = <<"remove", n, FALSE>>
  OBVIOUS
<1>2. Tail(todo) = u /\ At("remove") /\ Arg(2) = n /\ Arg(3) = FALSE
  <2>1. todo = Cons(s, u)
    BY <1>1
  <2>2. Tail(todo) = u /\ (\A a : At(a) <=> a = s[1]) /\ \A j : Arg(j) = s[j]
    BY <2>1, StepIs
  <2>3. s[1] = "remove" /\ s[2] = n /\ s[3] = FALSE
    BY <1>1
  <2> QED BY <2>2, <2>3
<1>3. RemoveNode \/ ReadFails
  BY <1>2, WhichStep DEF Going
<1>4. SUFFICES ASSUME RemoveNode PROVE RenameInv'
  BY <1>3, ReadingFails
<1>5. PICK r \in getItem(n) :
       \/ /\ NoDeviceChange /\ Throw("ENOTEMPTY", r.cache, localFiles)
       \/ /\ r.md.children = {}
          /\ DeviceCall(n \in DOMAIN objs, WithoutObject(n), nextId,
               Goto(<<>>, Drop(r.cache, {n, GetParentNodeId(r.md)}), localFiles),
               Throw("EIO", r.cache, localFiles))
  BY <1>2, <1>4 DEF RemoveNode
<1>6. CASE NoDeviceChange /\ Throw("ENOTEMPTY", r.cache, localFiles)
  <2>1. objs' = objs
    BY <1>6 DEF NoDeviceChange, device
  <2>2. PICK c : c = r.cache
    OBVIOUS
  <2> QED BY <1>6, <2>1, <2>2, Refused
<1>7. CASE /\ r.md.children = {}
           /\ DeviceCall(n \in DOMAIN objs, WithoutObject(n), nextId,
               Goto(<<>>, Drop(r.cache, {n, GetParentNodeId(r.md)}), localFiles),
               Throw("EIO", r.cache, localFiles))
  <2>1. PICK c : c = r.cache
    OBVIOUS
  <2>2. /\ Src(n) /\ ~objs[n].file /\ NodePath(d) = Image(PathOf(n)) /\ r.md = getMetadata(n)
        /\ Tells(c, Off) /\ \A m \in DOMAIN c : m \in DOMAIN cache \/ Live(m)
    BY <1>0, <2>1, CopiedAlive
  <2>3. n \in DOMAIN objs /\ objs[n].file = FALSE
    BY <1>0, <2>2, ObjectFields, BaseFacts DEF Src
  <2>4. Subtree(objs, n) = {n} /\ Content(n) = <<>> /\ GetParentNodeId(r.md) = ParentNode(n)
    BY <1>0, <1>7, <2>2, <2>3, FolderEmpty, ParentIs
  <2>5. Moved(Item(n)) \in View
    <3>1. d \in DOMAIN objs /\ ~objs[d].file
      <4>1. IsFolderNode(d) /\ IsPrefix(call.new, NodePath(d))
        BY DEF Copied
      <4>2. d \in DOMAIN objs
        BY <1>0, <4>1, NotSource
      <4>3. d \notin Storages
        BY <1>0, <4>2, NodePathType DEF Live
      <4> QED BY <4>1, <4>2, <4>3 DEF IsFolderNode
    <3>2. objs[d].file = FALSE /\ Content(d) = <<>> /\ NodePath(d) = PathOf(d)
      BY <1>0, <3>1, FolderEmpty, NodePathType, ObjectFields, BaseFacts DEF Live
    <3>3. Moved(Item(n)) = [path |-> Image(PathOf(n)), file |-> objs[n].file, data |-> Content(n)]
      BY <1>0, <2>2, SourceWas
    <3>4. Moved(Item(n)) = Item(d)
      BY <2>2, <2>3, <2>4, <3>2, <3>3 DEF Item
    <3> QED BY <3>1, <3>4, ViewItems
  <2>6. CASE Throw("EIO", c, localFiles)
    <3>1. objs' = objs \/ Removes(n)
      BY <1>7, <2>1, <2>6 DEF DeviceCall, device, Removes
    <3>2. CASE objs' = objs
      BY <2>6, <3>2, Refused
    <3>3. CASE Removes(n)
      <4>1. todo' = <<>> /\ reply'.code # "ok" /\ localFiles' = localFiles
        BY <2>6 DEF Throw
      <4>2. PICK V, G : V = View' /\ Parts(V, G) /\ G = {} /\ Whole(localFiles') /\ (pre.saved => Settled')
        BY <2>2, <2>4, <2>5, <3>3, <4>1, SourceLoss
      <4> QED BY <4>1, <4>2, StopsAt
    <3> QED BY <3>1, <3>2, <3>3
  <2>7. CASE Removes(n) /\ Goto(<<>>, Drop(c, {n, GetParentNodeId(r.md)}), localFiles)
    <3>1. PICK L : L = {n, GetParentNodeId(r.md)}
      OBVIOUS
    <3>2. <<>> \o u = u
      BY ConsOne
    <3>3. todo' = u /\ reply' = reply /\ localFiles' = localFiles /\ cache' = Drop(c, L) /\ n \in L /\ ParentNode(n) \in L
      BY <1>2, <2>4, <2>7, <3>1, <3>2 DEF Goto
    <3>4. n \notin DOMAIN cache'
      BY <3>3 DEF Drop
    <3>5. PathOf(n) = call.path \/ Leaves(u)
      <4>1. SUFFICES ASSUME PathOf(n) # call.path PROVE Leaves(u)
        OBVIOUS
      <4>2. Leaves(Cons(s, u)) => Leaves(u) \/ \E m \in DOMAIN objs : PathOf(m) = call.path /\ s = <<"remove", m, FALSE>>
        BY LeavesOn
      <4>3. \A m : s = <<"remove", m, FALSE>> => m = n
        BY <1>1
      <4>4. ~Gone
        BY <1>0, <2>2, AtSource DEF Gone
      <4> QED BY <1>1, <4>1, <4>2, <4>3, <4>4
    <3> QED BY <2>2, <2>4, <2>5, <2>7, <3>3, <3>4, <3>5, SourceGone
  <2> QED BY <1>7, <2>1, <2>3, <2>6, <2>7 DEF DeviceCall, Removes
<1> QED BY <1>5, <1>6, <1>7

LEMMA DroppingStep ==
  ASSUME Going, Len(call.path) > 1, Parts(View, {}), Tells(cache, Off), NEW t \in Seq(GoodSteps), Dropping(t)
  PROVE  RenameInv'
<1>0. Base /\ Base' /\ Apart /\ Past /\ call' = call /\ pre' = pre /\ IsStore(objs)
  BY GoingFacts
<1>1. PICK n, f : /\ Fresh /\ todo = Cons(<<"dropOriginal", n, f>>, t) /\ f = ParentNode(n)
                  /\ Src(n) /\ n \notin DOMAIN cache /\ Clean(n) /\ objs[n].file /\ Moved(Item(n)) \in View /\ Ends(PathOf(n), t)
  BY DEF Dropping
<1>2. PICK s : s = <<"dropOriginal", n, f>>
  OBVIOUS
<1>3. Tail(todo) = t /\ At("dropOriginal") /\ Arg(2) = n /\ Arg(3) = f
  <2>1. todo = Cons(s, t)
    BY <1>1, <1>2
  <2>2. Tail(todo) = t /\ (\A a : At(a) <=> a = s[1]) /\ \A j : Arg(j) = s[j]
    BY <2>1, StepIs
  <2>3. s[1] = "dropOriginal" /\ s[2] = n /\ s[3] = f
    BY <1>2
  <2> QED BY <2>2, <2>3
<1>4. DropOriginal
  BY <1>3, WhichStep DEF Going
<1>5. n \in DOMAIN objs /\ Subtree(objs, n) = {n}
  BY <1>0, <1>1, NothingInAFile DEF Src
<1>6. PICK c, L : c = cache /\ L = {f}
  OBVIOUS
<1>7. \/ Throw("EIO", c, localFiles) /\ (objs' = objs \/ Removes(n))
      \/ Removes(n) /\ Goto(<<>>, Drop(c, L), localFiles)
  BY <1>3, <1>4, <1>5, <1>6 DEF DropOriginal, DeviceCall, device, Removes
<1>8. CASE Throw("EIO", c, localFiles) /\ objs' = objs
  BY <1>8, Refused
<1>9. CASE Throw("EIO", c, localFiles) /\ Removes(n)
  <2>1. todo' = <<>> /\ reply'.code # "ok" /\ localFiles' = localFiles
    BY <1>9 DEF Throw
  <2>2. PICK V, G : V = View' /\ Parts(V, G) /\ G = {} /\ Whole(localFiles') /\ (pre.saved => Settled')
    BY <1>1, <1>5, <1>9, <2>1, SourceLoss
  <2> QED BY <2>1, <2>2, StopsAt
<1>10. CASE Removes(n) /\ Goto(<<>>, Drop(c, L), localFiles)
  <2>1. <<>> \o t = t
    BY ConsOne
  <2>2. todo' = t /\ reply' = reply /\ localFiles' = localFiles /\ cache' = Drop(c, L) /\ ParentNode(n) \in L
    BY <1>1, <1>3, <1>6, <1>10, <2>1 DEF Goto
  <2>3. n \notin DOMAIN cache' /\ \A m \in DOMAIN c : m \in DOMAIN cache \/ Live(m)
    BY <1>1, <1>6, <2>2 DEF Drop
  <2>4. PathOf(n) = call.path \/ Leaves(t)
    BY <1>1 DEF Ends
  <2> QED BY <1>1, <1>5, <1>6, <1>10, <2>2, <2>3, <2>4, SourceGone
<1> QED BY <1>7, <1>8, <1>9, <1>10

-----------------------------------------------------------------------------
(* A node arrives: a file is written back and copied, a folder renamed in  *)
(* place or made anew.                                                     *)
LEMMA ReadyStep ==
  ASSUME Going, Len(call.path) > 1, Parts(View, {}), Tells(cache, Off), NEW t \in Seq(GoodSteps), Ready(t)
  PROVE  RenameInv'
<1>1. Fresh /\ todo = t /\ (Leaves(todo) \/ Gone) /\ t # <<>>
  BY GoingFacts DEF Ready
<1>2. PICK s, u : s = Head(t) /\ u = Tail(t)
  OBVIOUS
<1>3. s \in GoodSteps /\ u \in Seq(GoodSteps) /\ todo = Cons(s, u)
  BY <1>1, <1>2, ConsAgain
<1>4. Good(s)
  BY <1>3 DEF GoodSteps
<1>5. ASSUME NEW K, s = <<"clearItems", K>> PROVE RenameInv'
  BY <1>1, <1>3, <1>5, ClearOn
<1>6. ASSUME NEW n, NEW d, s = <<"moveContents", n, d>>, Copied(n, d) PROVE RenameInv'
  BY <1>1, <1>3, <1>6, ContentsOn
<1>7. ASSUME NEW n, NEW d, NEW S, s = <<"moveRest", n, d, S>>, Copied(n, d) PROVE RenameInv'
  BY <1>1, <1>3, <1>7, RestOn
<1>8. ASSUME NEW n, NEW d, NEW name, s = <<"getNode", n, <<name>>, <<"child", d, name>> >>, Copied(n, d) PROVE RenameInv'
  BY <1>1, <1>3, <1>8, ChildOn
<1>9. ASSUME NEW n, NEW d, s = <<"remove", n, FALSE>>, Copied(n, d) PROVE RenameInv'
  BY <1>1, <1>3, <1>9, RemoveOn
<1> QED BY <1>4, <1>5, <1>6, <1>7, <1>8, <1>9 DEF Good

-----------------------------------------------------------------------------
(* At a node to move.                                                      *)
LEMMA GoesOn ==
  ASSUME Base, Apart, Keeps({}), NEW n, NEW d, NEW name, Goes(n, d, name), NEW t, Ends(PathOf(n), t), Leaves(t) => Leaves(t)'
  PROVE  /\ Goes(n, d, name)' /\ Ends(PathOf(n), t)'
         /\ n \in DOMAIN objs /\ n \in DOMAIN objs' /\ objs'[n].file = objs[n].file /\ PathOf(n)' = PathOf(n)
<1>1. PICK G : G = {}
  OBVIOUS
<1>2. \A j, l, w : j \notin G /\ Goes(j, l, w) => Goes(j, l, w)'
  BY <1>1, CarriedOver
<1>3. Goes(n, d, name)'
  BY <1>1, <1>2
<1>4. n \in DOMAIN objs /\ n \in DOMAIN objs' /\ objs'[n].file = objs[n].file /\ PathOf(n)' = PathOf(n) /\ call' = call
  BY DEF Goes, Src, Keeps
<1>5. PICK q : q = PathOf(n)
  OBVIOUS
<1>6. PathOf(n)' = q /\ Ends(q, t)
  BY <1>4, <1>5
<1>7. Ends(PathOf(n), t)'
  BY <1>4, <1>6 DEF Ends
<1> QED BY <1>3, <1>4, <1>7

LEMMA PathUnder ==
  ASSUME Base, NoTwins(objs), NEW d, IsFolderNode(d), NEW name \in Names, NEW i \in DOMAIN objs, PathOf(i) = Append(NodePath(d), name)
  PROVE  ParentNode(i) = d /\ objs[i].name = name
<1>1. Live(d) /\ Live(i)
  BY DEF IsFolderNode, Live
<1>2. NodePath(d) \in Seq(PathElem) /\ NodePath(i) = PathOf(i)
  BY <1>1, NodePathType
<1>3. /\ IsFolderNode(ParentNode(i)) /\ Live(ParentNode(i)) /\ NodePath(i) = Append(NodePath(ParentNode(i)), objs[i].name)
      /\ objs[i].name \in PathElem
  BY ChildPath
<1>4. PICK s, u, e : s = NodePath(d) /\ u = NodePath(ParentNode(i)) /\ e = objs[i].name
  OBVIOUS
<1>5. s \in Seq(PathElem) /\ u \in Seq(PathElem) /\ e \in PathElem /\ name \in PathElem /\ Append(s, name) = Append(u, e)
  BY <1>2, <1>3, <1>4, NodePathType DEF PathElem
<1>6. s = u /\ e = name
  BY <1>5, AppendInjective
<1> QED BY <1>1, <1>3, <1>4, <1>6, NodesUnique

(* The source renamed in its folder: every path below it becomes its image.*)
LEMMA RenamedPaths ==
  ASSUME Base, NoTwins(objs), Apart, NEW n \in DOMAIN objs, PathOf(n) = call.path, NEW name, Renames(n, name),
         NEW d, d = ParentNode(n), Append(NodePath(d), name) = call.new
  PROVE  /\ DOMAIN objs' = DOMAIN objs
         /\ \A i \in DOMAIN objs :
              /\ objs'[i].file = objs[i].file /\ objs'[i].data = objs[i].data
              /\ PathOf(i)' = IF IsPrefix(call.path, PathOf(i)) THEN Image(PathOf(i)) ELSE PathOf(i)
<1> DEFINE o == objs
           u == objs'
           P(i) == PathIn(o, i)
           Q(i) == PathIn(u, i)
           Right(i) == Q(i) = IF IsPrefix(call.path, P(i)) THEN Image(P(i)) ELSE P(i)
<1>1. IsStore(o) /\ name \in Names
  BY BaseFacts DEF Renames
<1>2. u = Put(o, n, [o[n] EXCEPT !.name = name])
  BY DEF Renames, WithName
<1>3. /\ IsStore(u) /\ DOMAIN u = DOMAIN o
      /\ \A i \in DOMAIN o : /\ u[i].file = o[i].file /\ u[i].parent = o[i].parent
                             /\ u[i].storage = o[i].storage /\ u[i].data = o[i].data
                             /\ u[i].name = IF i = n THEN name ELSE o[i].name
  BY <1>1, <1>2, StoreWithName
<1>4. call.path \in Seq(PathElem) /\ P(n) = call.path /\ Image(call.path) = call.new
  BY ImageOfSource DEF Apart, PathOf
<1> HIDE DEF u
<1>5. ASSUME NEW i \in DOMAIN o
      PROVE  /\ P(i) \in Seq(PathElem) /\ Len(P(i)) \in Nat /\ Len(P(i)) > 1 /\ Q(i) \in Seq(PathElem)
             /\ o[i].name \in PathElem /\ (i # n => P(i) # call.path)
             /\ o[i].parent = 0 => Len(P(i)) = 2 /\ P(i) = <<o[i].storage, o[i].name>> /\ Q(i) = <<o[i].storage, u[i].name>>
             /\ o[i].parent # 0 => /\ o[i].parent \in DOMAIN o
                                   /\ P(i) = Append(P(o[i].parent), o[i].name) /\ Q(i) = Append(Q(o[i].parent), u[i].name)
  <2>1. P(i) \in Seq(PathElem) /\ Len(P(i)) \in Nat /\ Len(P(i)) > 1 /\ Q(i) \in Seq(PathElem)
    BY <1>1, <1>3, PathLen
  <2>2. o[i].name \in PathElem
    BY <1>1 DEF IsStore, IsMap, Object, PathElem
  <2>3. i # n => P(i) # call.path
    BY <1>1, <1>4, PathsUnique
  <2>4. o[i].parent = 0 => P(i) = <<o[i].storage, o[i].name>> /\ Q(i) = <<o[i].storage, u[i].name>>
    BY <1>1, <1>3, PathStep
  <2>5. o[i].parent # 0 => /\ o[i].parent \in DOMAIN o
                           /\ P(i) = Append(P(o[i].parent), o[i].name) /\ Q(i) = Append(Q(o[i].parent), u[i].name)
    <3> SUFFICES ASSUME o[i].parent # 0
                 PROVE  /\ o[i].parent \in DOMAIN o
                        /\ P(i) = Append(P(o[i].parent), o[i].name) /\ Q(i) = Append(Q(o[i].parent), u[i].name)
      OBVIOUS
    <3>1. o[i].parent \in DOMAIN o /\ u[i].parent = o[i].parent /\ i \in DOMAIN u
      BY <1>1, <1>3, StoreFields
    <3>2. P(i) = Append(P(o[i].parent), o[i].name)
      BY <1>1, PathStep
    <3>3. Q(i) = Append(Q(u[i].parent), u[i].name)
      BY <1>3, <3>1, PathStep
    <3> QED BY <3>1, <3>2, <3>3
  <2>6. o[i].parent = 0 => Len(P(i)) = 2
    BY <2>4
  <2> QED BY <2>1, <2>2, <2>3, <2>4, <2>5, <2>6
<1>6. d \in Storages => o[n].parent = 0 /\ NodePath(d) = <<o[n].storage>>
  <2>1. o[n].parent # 0 => o[n].parent \in DOMAIN o
    BY <1>5
  <2>2. o[n].parent # 0 => o[n].parent \notin Storages
    BY <2>1, NodePathType DEF Live
  <2> QED BY <2>2 DEF ParentNode, NodePath
<1>7. d \notin Storages => o[n].parent # 0 /\ d = o[n].parent /\ NodePath(d) = P(d)
  <2>1. o[n].storage \in Storages
    BY <1>1 DEF IsStore, IsMap, Object
  <2> QED BY <2>1 DEF ParentNode, NodePath, PathOf
<1>8. ASSUME NEW i \in DOMAIN o, o[i].parent # 0 => Right(o[i].parent) PROVE Right(i)
  <2>1. CASE o[i].parent = 0 /\ i = n
    <3>1. Q(i) = <<o[n].storage, name>> /\ NodePath(d) = <<o[n].storage>>
      BY <1>3, <1>5, <1>6, <1>7, <2>1
    <3>2. Append(<<o[n].storage>>, name) = <<o[n].storage, name>>
      <4>1. PICK a, b : a = o[n].storage /\ b = name
        OBVIOUS
      <4>2. <<a>> \in Seq({a, b}) /\ b \in {a, b}
        OBVIOUS
      <4>3. Append(<<a>>, b) = <<a>> \o <<b>>
        BY <4>2, AppendIsConcat
      <4> QED BY <4>1, <4>3, ShortConcat
    <3> QED BY <1>4, <2>1, <3>1, <3>2, ImageOfSource
  <2>2. CASE o[i].parent = 0 /\ i # n
    <3>1. Q(i) = P(i) /\ P(i) # call.path
      <4>1. u[i].name = o[i].name
        BY <1>3, <2>2
      <4>2. P(i) = <<o[i].storage, o[i].name>> /\ Q(i) = <<o[i].storage, u[i].name>> /\ P(i) # call.path
        BY <1>5, <2>2
      <4> QED BY <4>1, <4>2
    <3>2. ~IsPrefix(call.path, P(i))
      <4>1. PICK s, p : s = P(i) /\ p = call.path
        OBVIOUS
      <4>2. s \in Seq(PathElem) /\ p \in Seq(PathElem) /\ Len(s) = 2 /\ Len(p) \in Nat /\ Len(p) > 1
        BY <1>4, <1>5, <2>2, <4>1
      <4>3. ASSUME IsPrefix(p, s) PROVE p = s
        <5>1. Len(p) <= Len(s) /\ \A k \in 1 .. Len(p) : p[k] = s[k]
          BY <4>2, <4>3, PrefixPointwise
        <5>2. PICK a : a = Len(p)
          OBVIOUS
        <5>3. a = 2
          <6>1. a \in Nat /\ a > 1 /\ a <= 2
            BY <4>2, <5>1, <5>2
          <6> QED BY <6>1
        <5> QED BY <4>2, <5>1, <5>2, <5>3, SeqEqual
      <4> QED BY <3>1, <4>1, <4>3
    <3> QED BY <3>1, <3>2
  <2>3. CASE o[i].parent # 0
    <3>1. PICK m, s, t, e, f : m = o[i].parent /\ s = P(m) /\ t = Q(m) /\ e = o[i].name /\ f = u[i].name
      OBVIOUS
    <3>2. /\ m \in DOMAIN o /\ P(i) = Append(s, e) /\ Q(i) = Append(t, f) /\ e \in PathElem /\ s \in Seq(PathElem)
          /\ t = IF IsPrefix(call.path, s) THEN Image(s) ELSE s
      BY <1>5, <1>8, <2>3, <3>1
    <3>3. PICK p : p = call.path
      OBVIOUS
    <3>4. IsPrefix(p, Append(s, e)) <=> IsPrefix(p, s) \/ p = Append(s, e)
      BY <1>4, <3>2, <3>3, PrefixAppend
    <3>5. CASE i = n
      <4>1. d = m /\ NodePath(d) = s /\ f = name /\ p = Append(s, e)
        <5>1. d = m /\ NodePath(d) = P(m)
          BY <1>6, <1>7, <2>3, <3>1, <3>5
        <5> QED BY <1>3, <1>4, <3>1, <3>2, <3>3, <3>5, <5>1
      <4>2. ~IsPrefix(p, s)
        <5>1. Len(p) = Len(s) + 1 /\ Len(s) \in Nat /\ Len(p) \in Nat
          BY <3>2, <4>1, AppendProperties, LenProperties
        <5>2. IsPrefix(p, s) => Len(p) <= Len(s)
          BY <1>4, <3>2, <3>3, PrefixPointwise
        <5>3. PICK a, b : a = Len(p) /\ b = Len(s)
          OBVIOUS
        <5>4. ~(a <= b)
          <6>1. a \in Nat /\ b \in Nat /\ a = b + 1
            BY <5>1, <5>3
          <6> QED BY <6>1
        <5> QED BY <5>2, <5>3, <5>4
      <4>3. Q(i) = Append(NodePath(d), name)
        BY <3>2, <3>3, <4>1, <4>2
      <4>4. P(i) = call.path /\ IsPrefix(call.path, P(i))
        BY <1>4, <3>5, ImageOfSource
      <4> QED BY <1>4, <4>3, <4>4
    <3>6. CASE i # n
      <4>1. f = e /\ p # Append(s, e)
        BY <1>3, <1>5, <3>1, <3>2, <3>3, <3>6
      <4>2. CASE IsPrefix(p, s)
        <5>1. Image(Append(s, e)) = Append(Image(s), e)
          BY <3>2, <3>3, <4>2, ImageBelow
        <5> QED BY <3>2, <3>3, <3>4, <4>1, <4>2, <5>1
      <4>3. CASE ~IsPrefix(p, s)
        BY <3>2, <3>3, <3>4, <4>1, <4>3
      <4> QED BY <4>2, <4>3
    <3> QED BY <3>5, <3>6
  <2> QED BY <2>1, <2>2, <2>3
<1>9. \A i \in DOMAIN o : Right(i)
  <2> DEFINE B == {i \in DOMAIN o : ~Right(i)}
  <2>1. B \in SUBSET DOMAIN o
    OBVIOUS
  <2>2. ASSUME B # {} PROVE FALSE
    <3>1. PICK i \in B : o[i].parent \notin B
      <4> HIDE DEF B
      <4> QED BY <1>1, <2>1, <2>2 DEF IsStore, IsTree
    <3>2. i \in DOMAIN o /\ ~Right(i)
      BY <3>1
    <3>3. o[i].parent # 0 => o[i].parent \in DOMAIN o
      BY <1>5, <3>2
    <3>4. o[i].parent # 0 => Right(o[i].parent)
      BY <3>1, <3>3
    <3> QED BY <1>8, <3>2, <3>4
  <2> QED BY <2>2
<1> QED BY <1>3, <1>9 DEF PathOf, u
(* A folder is renamed in place only where the call began, and then        *)
(* nothing is left to do.                                                  *)
LEMMA InPlace ==
  ASSUME Going, Len(call.path) > 1, NEW t, NEW n, NEW d, NEW name, Goes(n, d, name), Ends(PathOf(n), t),
         FolderId(d) = getMetadata(n).parent, Head(call.new) = Head(call.path)
  PROVE  ParentNode(n) = d /\ PathOf(n) = call.path /\ t = <<>> /\ Append(NodePath(d), name) = call.new
<1>0. Base /\ NoTwins(objs) /\ Apart /\ IsStore(objs)
  BY GoingFacts
<1>1. /\ n \in DOMAIN objs /\ n \notin Storages /\ Live(n) /\ n \notin Off /\ Live(d) /\ d \in Off /\ IsFolderNode(d)
      /\ PathOf(n) \in Seq(PathElem) /\ IsPrefix(call.path, PathOf(n)) /\ name \in Names
      /\ Append(NodePath(d), name) = Image(PathOf(n))
  BY <1>0, GoesThere, NodePathType DEF Goes, Src
<1>2. getMetadata(n).parent = objs[n].parent /\ objs[n].storage \in Storages /\ PathOf(n)[1] = objs[n].storage
  BY <1>0, <1>1, PathLen, ObjectFields, BaseFacts DEF getMetadata, PathOf
<1>3. ParentNode(n) = d
  <2>1. CASE d \in Storages
    <3>1. NodePath(d) = <<d>> /\ objs[n].parent = 0
      BY <1>2, <2>1 DEF NodePath, FolderId
    <3>2. PICK e, p, q, w : e = d /\ p = call.path /\ q = call.new /\ w = PathOf(n)
      OBVIOUS
    <3>3. /\ Image(w) \in Seq(PathElem) /\ IsPrefix(q, Image(w)) /\ Image(w) = Append(<<e>>, name)
          /\ w \in Seq(PathElem) /\ IsPrefix(p, w) /\ p \in Seq(PathElem) /\ q \in Seq(PathElem)
          /\ p # <<>> /\ q # <<>> /\ Len(p) > 1 /\ Len(q) > 1
      BY <1>0, <1>1, <3>1, <3>2, ImageParts DEF Apart
    <3>4. Head(p) = w[1] /\ Head(q) = Append(<<e>>, name)[1]
      <4>1. Len(p) \in Nat /\ Len(q) \in Nat
        BY <3>3, LenProperties
      <4>2. 1 \in 1 .. Len(p) /\ 1 \in 1 .. Len(q)
        BY <3>3, <4>1
      <4>3. p[1] = w[1]
        BY <3>3, <4>2, PrefixPointwise
      <4>4. PICK z : z = Image(w)
        OBVIOUS
      <4>5. z \in Seq(PathElem) /\ IsPrefix(q, z) /\ q \in Seq(PathElem)
        BY <3>3, <4>4
      <4>6. q[1] = z[1]
        BY <4>2, <4>5, PrefixPointwise
      <4> QED BY <3>3, <4>3, <4>4, <4>6
    <3>5. Append(<<e>>, name)[1] = e
      BY <3>3
    <3>6. Head(q) = Head(p)
      BY <3>2
    <3> QED BY <1>2, <3>1, <3>2, <3>4, <3>5, <3>6 DEF ParentNode
  <2>2. CASE d \notin Storages
    <3>1. d = objs[n].parent /\ d \in DOMAIN objs
      BY <1>1, <1>2, <2>2 DEF FolderId, Live
    <3>2. d # 0
      BY <1>0, <3>1, StoreFields
    <3> QED BY <3>1, <3>2 DEF ParentNode
  <2> QED BY <2>1, <2>2
<1>4. PathOf(n) = call.path
  <2>1. PICK p, v, e : p = call.path /\ v = NodePath(d) /\ e = objs[n].name
    OBVIOUS
  <2>2. PathOf(n) = Append(v, e) /\ e \in PathElem /\ v \in Seq(PathElem) /\ p \in Seq(PathElem)
    BY <1>0, <1>1, <1>3, <2>1, ChildPath, NodePathType DEF Apart
  <2>3. ~IsPrefix(p, v) /\ IsPrefix(p, Append(v, e))
    BY <1>1, <2>1, <2>2 DEF Off
  <2> QED BY <2>1, <2>2, <2>3, PrefixAppend
<1>5. t = <<>> /\ Append(NodePath(d), name) = call.new
  BY <1>0, <1>1, <1>4, ImageOfSource DEF Ends
<1> QED BY <1>3, <1>4, <1>5

LEMMA ArrivingStep ==
  ASSUME Going, ~AcceptsDuplicates, Len(call.path) > 1, Parts(View, {}), Tells(cache, Off), NEW t \in Seq(GoodSteps), Arriving(t)
  PROVE  RenameInv'
<1>0. Base /\ Base' /\ NoTwins(objs) /\ Apart /\ Past /\ call' = call /\ pre' = pre /\ IsStore(objs)
  BY GoingFacts
<1>1. PICK node, d, name : /\ todo = Cons(<<"rename", node, d, name>>, t)
                           /\ Goes(node.id, d, name) /\ node.file = objs[node.id].file /\ Ends(PathOf(node.id), t)
  BY DEF Arriving
<1>2. PICK s, n : s = <<"rename", node, d, name>> /\ n = node.id
  OBVIOUS
<1>3. Tail(todo) = t /\ At("rename") /\ Arg(2) = node /\ Arg(3) = d /\ Arg(4) = name
  <2>1. todo = Cons(s, t)
    BY <1>1, <1>2
  <2>2. Tail(todo) = t /\ (\A a : At(a) <=> a = s[1]) /\ \A j : Arg(j) = s[j]
    BY <2>1, StepIs
  <2>3. s[1] = "rename" /\ s[2] = node /\ s[3] = d /\ s[4] = name
    BY <1>2
  <2> QED BY <2>2, <2>3
<1>4. RenameFile \/ RenameFolder \/ Refuse \/ ReadFails
  BY <1>3, WhichStep DEF Going
<1>5. Goes(n, d, name) /\ node.file = objs[n].file /\ Ends(PathOf(n), t)
  BY <1>1, <1>2
<1>6. /\ n \in DOMAIN objs /\ n \notin Storages /\ Live(n) /\ n \notin Off /\ Live(d) /\ d \in Off /\ IsFolderNode(d)
      /\ PathOf(n) \in Seq(PathElem) /\ IsPrefix(call.path, PathOf(n)) /\ name \in Names
      /\ Append(NodePath(d), name) = Image(PathOf(n))
  BY <1>0, <1>5, GoesThere, NodePathType DEF Goes, Src
<1>7. CASE ReadFails
  BY <1>7, ReadingFails
<1>8. CASE Refuse
  BY <1>2, <1>3, <1>6, <1>8 DEF Refuse, At
<1>9. CASE RenameFile
  <2>1. PICK a, b, c, files : a = <<"fsync", n>> /\ b = <<"copyTo", n, d, name>> /\ c = cache /\ files = localFiles
    OBVIOUS
  <2>2. <<a, b>> \o t = Cons(a, Cons(b, t))
    BY ConsMore
  <2>3. /\ objs' = objs /\ nextId' = nextId /\ reply' = reply /\ localFiles' = files /\ cache' = c
        /\ todo' = Cons(a, Cons(b, t)) /\ node.file
    BY <1>2, <1>3, <1>9, <2>1, <2>2 DEF RenameFile, NoDeviceChange, device, Goto
  <2>4. Tells(c, Off) /\ \A k \in DOMAIN c : k \in DOMAIN cache \/ Live(k)
    BY <2>1
  <2>5. Whole(files) /\ (\A i \in DOMAIN files : ~files[i].dirty \/ ~pre.saved) /\ \A i \in DOMAIN objs : Content(i)' = Content(i)
    BY <2>1, <2>3 DEF Going, Settled, Content
  <2>6. /\ Keeps({})
        /\ \A v \in Seq(GoodSteps) : v \in Seq(GoodSteps') /\ (Leaves(v) => Leaves(v)')
        /\ \A v : v \in Seq(GoodSteps') /\ Midway(v)' => RenameInv'
    BY <2>3, <2>4, <2>5, Quietly
  <2>7. Goes(n, d, name)' /\ Ends(PathOf(n), t)' /\ objs'[n].file
    BY <1>0, <1>5, <2>3, <2>6, GoesOn
  <2>8. Flushing(t)'
    BY <2>1, <2>3, <2>7 DEF Flushing
  <2> QED BY <2>6, <2>8 DEF Midway
<1>10. CASE RenameFolder
  <2>1. ~node.file
    BY <1>3, <1>10 DEF RenameFolder
  <2>2. PICK r \in getItem(n) :
         LET inPlace == FolderId(d) = r.md.parent /\ Head(call.new) = Head(call.path)
             stale   == {d, GetParentNodeId(r.md)}
         IN  \/ /\ inPlace
                /\ DeviceCall(MaySetName(n, name), WithName(n, name), nextId,
                     Goto(<<>>, Drop(r.cache, stale), localFiles),
                     Throw("EIO", r.cache, localFiles))
             \/ /\ ~inPlace /\ NoDeviceChange
                /\ Goto(<< <<"mkdir", d, name>>,
                           <<"getNode", d, <<name>>, <<"destDir", n>> >>,
                           <<"remove", n, FALSE>>,
                           <<"clearItems", stale>> >>, r.cache, localFiles)
    BY <1>2, <1>3, <1>10 DEF RenameFolder
  <2>3. PICK c, K, files : c = r.cache /\ K = {d, GetParentNodeId(r.md)} /\ files = localFiles
    OBVIOUS
  <2>4. r.md = getMetadata(n) /\ Tells(c, Off) /\ \A m \in DOMAIN c : m \in DOMAIN cache \/ Live(m)
    <3>1. PICK M : M = Off
      OBVIOUS
    <3>2. r.md = getMetadata(n) /\ Tells(r.cache, M) /\ DOMAIN r.cache = DOMAIN cache \cup {n}
      BY <1>6, <3>1, ItemTells
    <3> QED BY <1>6, <2>3, <3>1, <3>2
  <2>5. ASSUME FolderId(d) = r.md.parent, Head(call.new) = Head(call.path),
               DeviceCall(MaySetName(n, name), WithName(n, name), nextId,
                     Goto(<<>>, Drop(c, K), localFiles),
                     Throw("EIO", c, localFiles))
        PROVE  RenameInv'
    <3>1. CASE Throw("EIO", c, localFiles) /\ objs' = objs
      BY <3>1, Refused
    <3>2. (Throw("EIO", c, localFiles) /\ objs' = objs) \/ (Renames(n, name) /\ (Throw("EIO", c, localFiles) \/ Goto(<<>>, Drop(c, K), localFiles)))
      BY <1>6, <2>5 DEF DeviceCall, device, Renames
    <3>3. SUFFICES ASSUME Renames(n, name), Throw("EIO", c, localFiles) \/ Goto(<<>>, Drop(c, K), localFiles)
                   PROVE  RenameInv'
      BY <3>1, <3>2
    <3>4. ParentNode(n) = d /\ PathOf(n) = call.path /\ t = <<>> /\ Append(NodePath(d), name) = call.new
      BY <1>0, <1>5, <2>4, <2>5, InPlace
    <3>5. ParentNode(n) = d
      BY <3>4
    <3>6. PathOf(n) = call.path
      BY <3>4
    <3>7. t = <<>> /\ Append(NodePath(d), name) = call.new
      BY <3>4
    <3>8. Fresh
      <4>1. ASSUME NEW i \in DOMAIN objs, PathOf(i) = call.new PROVE FALSE
        <5>1. ParentNode(i) = d /\ objs[i].name = name
          BY <1>0, <1>6, <3>7, <4>1, PathUnder
        <5>2. i # n
          BY <1>0, <3>6, <4>1, ImageOfSource DEF Apart
        <5>3. objs[i].parent = objs[n].parent /\ objs[i].storage = objs[n].storage
          <6>1. \A k \in DOMAIN objs : objs[k].parent # 0 => /\ objs[k].parent \in DOMAIN objs /\ objs[k].parent \notin Storages
                                                           /\ objs[objs[k].parent].storage = objs[k].storage
            BY <1>0, StoreFields, NodePathType DEF Live
          <6>2. objs[i].storage \in Storages /\ objs[n].storage \in Storages
            BY <1>0, <1>6, ObjectFields, BaseFacts
          <6> QED BY <1>6, <3>5, <5>1, <6>1, <6>2 DEF ParentNode
        <5>4. i \in Inside(objs[n].parent, objs[n].storage) \ {n}
          BY <5>2, <5>3 DEF Inside
        <5> QED BY <3>3, <5>1, <5>4 DEF Renames, MaySetName
      <4> QED BY <1>0, <4>1, FreshNow
    <3>9. /\ DOMAIN objs' = DOMAIN objs
          /\ \A i \in DOMAIN objs :
               /\ objs'[i].file = objs[i].file /\ objs'[i].data = objs[i].data
               /\ PathOf(i)' = IF IsPrefix(call.path, PathOf(i)) THEN Image(PathOf(i)) ELSE PathOf(i)
      BY <1>0, <1>6, <3>3, <3>5, <3>6, <3>7, RenamedPaths
    <3>10. localFiles' = localFiles
      BY <3>3 DEF Throw, Goto
    <3>11. PICK V : V = View'
      OBVIOUS
    <3>12. \A i \in DOMAIN objs : Content(i)' = Content(i)
      BY <3>9, <3>10 DEF Content
    <3>13. V = {Item(i)' : i \in DOMAIN objs}
      BY <3>9, <3>11 DEF View, Item
    <3>14. ASSUME NEW i \in DOMAIN objs
           PROVE  /\ Src(i) => /\ Item(i)' = Moved(Item(i)) /\ Item(i) \in pre.view /\ Below(Item(i), call.path)
                  /\ ~Src(i) => Item(i)' = Item(i) /\ ~Below(Item(i), call.path)
      <4>1. CASE Src(i)
        <5>1. /\ Item(i) \in pre.view /\ Below(Item(i), call.path)
              /\ Moved(Item(i)) = [path |-> Image(PathOf(i)), file |-> objs[i].file, data |-> Content(i)]
          BY <1>0, <4>1, SourceWas
        <5>2. PathOf(i)' = Image(PathOf(i))
          BY <3>9, <4>1 DEF Src
        <5> QED BY <3>9, <3>12, <4>1, <5>1, <5>2 DEF Item
      <4>2. CASE ~Src(i)
        <5>1. PathOf(i)' = PathOf(i) /\ ~IsPrefix(call.path, PathOf(i))
          BY <3>9, <4>2 DEF Src
        <5> QED BY <3>9, <3>12, <4>2, <5>1 DEF Item, Below
      <4> QED BY <4>1, <4>2
    <3>15. Parts(V, {})
      <4>1. ASSUME NEW w \in V PROVE w \in pre.view \/ (Fresh /\ \E v \in pre.view : Below(v, call.path) /\ w = Moved(v))
        <5>1. PICK i \in DOMAIN objs : w = Item(i)'
          BY <3>13
        <5>2. Item(i) \in View
          BY ViewItems
        <5>3. Item(i) \in pre.view \/ (Fresh /\ \E v \in pre.view : Below(v, call.path) /\ Item(i) = Moved(v))
          BY <5>2 DEF Parts
        <5> QED BY <3>8, <3>14, <5>1, <5>3
      <4>2. ASSUME NEW v \in pre.view PROVE v \in V \/ (Fresh /\ Below(v, call.path) /\ Moved(v) \in V)
        <5>1. CASE v \in View
          <6>1. PICK i \in DOMAIN objs : v = Item(i)
            BY <5>1, ViewItems
          <6> QED BY <3>8, <3>13, <3>14, <6>1
        <5>2. CASE Fresh /\ Below(v, call.path) /\ Moved(v) \in View
          <6>1. PICK i \in DOMAIN objs : Moved(v) = Item(i)
            BY <5>2, ViewItems
          <6>2. ~Below(Item(i), call.path)
            BY <1>0, <5>2, <6>1, MovedPath
          <6>3. Item(i)' = Moved(v)
            BY <3>14, <6>1, <6>2
          <6> QED BY <3>13, <5>2, <6>3
        <5> QED BY <5>1, <5>2 DEF Parts
      <4> QED BY <4>1, <4>2 DEF Parts
    <3>16. Whole(localFiles)' /\ (pre.saved => Settled') /\ Whole(localFiles')
      BY <3>10 DEF Going, Whole, Settled
    <3>17. CASE Throw("EIO", c, localFiles)
      <4>1. todo' = <<>> /\ reply'.code # "ok"
        BY <3>17 DEF Throw
      <4>2. PICK G : G = {}
        OBVIOUS
      <4>3. Parts(V, G)
        BY <3>15, <4>2
      <4> QED BY <3>11, <3>16, <4>1, <4>2, <4>3, StopsAt
    <3>18. CASE Goto(<<>>, Drop(c, K), localFiles)
      <4>1. \A i \in DOMAIN objs : ~IsPrefix(call.path, PathOf(i)')
        <5>1. ASSUME NEW i \in DOMAIN objs, Src(i) PROVE ~IsPrefix(call.path, PathOf(i)')
          <6>1. PICK w : w = PathOf(i)
            OBVIOUS
          <6>2. w \in Seq(PathElem) /\ IsPrefix(call.path, w) /\ PathOf(i)' = Image(w)
            BY <1>0, <3>9, <5>1, <6>1, SourceWas DEF Src
          <6>3. Image(w) \in Seq(PathElem) /\ IsPrefix(call.new, Image(w))
            BY <1>0, <6>2, ImageParts
          <6> QED BY <1>0, <6>2, <6>3, ImageApart
        <5> QED BY <3>9, <5>1 DEF Src
      <4>2. Gone'
        <5>1. \A i \in DOMAIN objs' : PathOf(i)' # call.path
          BY <1>0, <3>9, <4>1, PrefixSelf DEF Apart
        <5> QED BY <1>0, <5>1 DEF Gone
      <4>3. Tells(cache, Off)'
        <5>1. ASSUME NEW m, Live(m)' PROVE m \in Off'
          <6>1. m \in NodeIds
            BY <1>0, <3>9, <5>1, TrueNodes DEF Live, NodeIds
          <6>2. ~IsPrefix(call.path, NodePath(m)')
            <7>1. CASE m \in Storages
              <8>1. NodePath(m)' = NodePath(m) /\ Live(m)
                BY <7>1 DEF NodePath, Live
              <8>2. NodePath(m) = <<m>> /\ NodePath(m) \in Seq(PathElem) /\ Len(NodePath(m)) = 1
                BY <1>0, <7>1, <8>1, NodePathType
              <8>3. PICK p, w : p = call.path /\ w = NodePath(m)
                OBVIOUS
              <8>4. IsPrefix(p, w) => Len(p) <= Len(w)
                BY <1>0, <8>2, <8>3, PrefixPointwise DEF Apart
              <8>5. PICK a : a = Len(p)
                OBVIOUS
              <8>6. a \in Nat /\ a > 1
                BY <1>0, <8>3, <8>5, LenProperties DEF Apart
              <8>7. ~(a <= 1)
                BY <8>6
              <8> QED BY <8>1, <8>2, <8>3, <8>4, <8>5, <8>7
            <7>2. CASE m \notin Storages
              BY <3>9, <4>1, <5>1, <7>2 DEF NodePath, Live
            <7> QED BY <7>1, <7>2
          <6> QED BY <1>0, <5>1, <6>1, <6>2 DEF Off
        <5> QED BY <5>1 DEF Tells
      <4>4. todo' = t /\ reply' = reply
        <5>1. <<>> \o t = t
          BY ConsOne
        <5> QED BY <1>3, <3>18, <5>1 DEF Goto
      <4>5. t \in Seq(GoodSteps')
        BY <3>7
      <4>6. Fresh'
        BY <1>0, <3>8, PartsAfter
      <4>7. Midway(t)'
        BY <4>2, <4>4, <4>6 DEF Midway, Ready
      <4> QED BY <3>11, <3>15, <3>16, <4>3, <4>4, <4>5, <4>7, MovesOn
    <3> QED BY <3>3, <3>17, <3>18
  <2>6. ASSUME NoDeviceChange,
               Goto(<< <<"mkdir", d, name>>,
                           <<"getNode", d, <<name>>, <<"destDir", n>> >>,
                           <<"remove", n, FALSE>>,
                           <<"clearItems", K>> >>, c, localFiles)
        PROVE  RenameInv'
    <3>1. PICK a1, a2, a3, a4 : /\ a1 = <<"mkdir", d, name>> /\ a2 = <<"getNode", d, <<name>>, <<"destDir", n>> >>
                                /\ a3 = <<"remove", n, FALSE>> /\ a4 = <<"clearItems", K>>
      OBVIOUS
    <3>2. <<a1, a2, a3, a4>> \o t = Cons(a1, Cons(a2, Cons(a3, Cons(a4, t))))
      BY ConsFour
    <3>3. /\ objs' = objs /\ nextId' = nextId /\ reply' = reply /\ localFiles' = files /\ cache' = c
          /\ todo' = Cons(a1, Cons(a2, Cons(a3, Cons(a4, t))))
      BY <1>3, <2>3, <2>6, <3>1, <3>2 DEF NoDeviceChange, device, Goto
    <3>4. Whole(files) /\ (\A i \in DOMAIN files : ~files[i].dirty \/ ~pre.saved) /\ \A i \in DOMAIN objs : Content(i)' = Content(i)
      BY <2>3, <3>3 DEF Going, Settled, Content
    <3>5. /\ Keeps({})
          /\ \A v \in Seq(GoodSteps) : v \in Seq(GoodSteps') /\ (Leaves(v) => Leaves(v)')
          /\ \A v : v \in Seq(GoodSteps') /\ Midway(v)' => RenameInv'
      BY <2>4, <3>3, <3>4, Quietly
    <3>6. Goes(n, d, name)' /\ Ends(PathOf(n), t)' /\ ~objs'[n].file
      BY <1>0, <1>5, <2>1, <3>3, <3>5, GoesOn
    <3>7. Making(t)'
      BY <3>1, <3>3, <3>6 DEF Making
    <3> QED BY <3>5, <3>7 DEF Midway
  <2>7. \/ FolderId(d) = r.md.parent /\ Head(call.new) = Head(call.path) /\ DeviceCall(MaySetName(n, name), WithName(n, name), nextId,
                     Goto(<<>>, Drop(c, K), localFiles),
                     Throw("EIO", c, localFiles))
        \/ NoDeviceChange /\ Goto(<< <<"mkdir", d, name>>,
                           <<"getNode", d, <<name>>, <<"destDir", n>> >>,
                           <<"remove", n, FALSE>>,
                           <<"clearItems", K>> >>, c, localFiles)
    BY <2>2, <2>3
  <2> QED BY <2>5, <2>6, <2>7
<1> QED BY <1>4, <1>7, <1>8, <1>9, <1>10

-----------------------------------------------------------------------------
(* The image of a node is made where nothing was.                          *)
LEMMA NewThere ==
  ASSUME Going, ~AcceptsDuplicates, Parts(View, {}), NEW t \in Seq(GoodSteps), NEW n, NEW d, NEW name, Goes(n, d, name),
         Ends(PathOf(n), t), NEW x, x.parent = FolderId(d), x.storage = Head(call.new), x.name = name
  PROVE  /\ FolderFor(x) = d /\ PathFor(x) = Image(PathOf(n))
         /\ MayAdd(x) => Fresh
<1>0. Base /\ NoTwins(objs) /\ Apart /\ Past /\ IsStore(objs)
  BY GoingFacts
<1>1. PICK w, p, q : w = PathOf(n) /\ p = Image(w) /\ q = call.new
  OBVIOUS
<1>2. /\ w \in Seq(PathElem) /\ IsPrefix(call.path, w) /\ IsFolderNode(d) /\ Live(d) /\ Live(n) /\ n \in DOMAIN objs
      /\ name \in Names /\ name \in PathElem /\ Append(NodePath(d), name) = p
      /\ NodePath(d) \in Seq(PathElem)
  BY <1>0, <1>1, GoesThere, NodePathType DEF Goes, Src, PathElem
<1>3. p \in Seq(PathElem) /\ IsPrefix(q, p) /\ q \in Seq(PathElem) /\ Len(q) > 1
  BY <1>0, <1>1, <1>2, ImageParts DEF Apart
<1>4. Len(p) > 1 /\ p[1] = q[1] /\ Head(p) = Head(q)
  <2>1. Len(q) <= Len(p) /\ Len(q) \in Nat /\ Len(p) \in Nat /\ \A k \in 1 .. Len(q) : q[k] = p[k]
    BY <1>3, PrefixPointwise
  <2>2. 1 \in 1 .. Len(q) /\ Len(p) > 1
    BY <1>3, <2>1
  <2> QED BY <1>3, <2>1, <2>2
<1>5. NodePath(d) = Front(p) /\ name = Last(p)
  <2>1. Front(p) \in Seq(PathElem) /\ Last(p) \in PathElem /\ Append(Front(p), Last(p)) = p
    BY <1>3, <1>4, FrontLast
  <2> QED BY <1>2, <2>1, AppendInjective
<1>6. FolderFor(x) = d /\ PathFor(x) = p
  BY <1>0, <1>1, <1>2, <1>3, <1>4, <1>5, NewAt
<1>7. ASSUME MayAdd(x) PROVE Fresh
  <2>1. CASE w = call.path
    <3>1. p = q
      BY <1>0, <1>1, <2>1, ImageOfSource
    <3>2. ASSUME NEW i \in DOMAIN objs, PathOf(i) = q PROVE FALSE
      <4>1. ParentNode(i) = d /\ objs[i].name = name
        BY <1>0, <1>2, <3>1, <3>2, PathUnder
      <4>2. objs[i].storage \in Storages /\ (objs[i].parent # 0 => objs[i].parent \in DOMAIN objs /\ objs[i].parent \notin Storages)
        BY <1>0, StoreFields, NodePathType, ObjectFields, BaseFacts DEF Live
      <4>3. objs[i].parent = x.parent
        BY <4>1, <4>2 DEF ParentNode, FolderId
      <4>4. objs[i].storage = x.storage
        <5>1. PathOf(i)[1] = objs[i].storage
          BY <1>0, PathLen DEF PathOf
        <5> QED BY <1>1, <1>3, <3>2, <5>1
      <4> QED BY <1>7, <4>1, <4>3, <4>4 DEF MayAdd, Inside
    <3> QED BY <1>0, <1>1, <3>2, FreshNow
  <2>2. CASE w # call.path
    <3>1. Leaves(t)
      BY <1>1, <2>2 DEF Ends
    <3>2. PICK s \in Range(t) : TRUE
      BY <3>1 DEF Leaves
    <3>3. s \in GoodSteps
      BY <3>2 DEF Range
    <3> QED BY <3>3 DEF GoodSteps, Good
  <2> QED BY <2>1, <2>2
<1> QED BY <1>1, <1>6, <1>7

LEMMA ImageMade ==
  ASSUME Going, Parts(View, {}), Fresh, NEW x, Adds(x), NEW n, Src(n), ItemFor(x) = Moved(Item(n)),
         \A i \in DOMAIN objs : Content(i)' = Content(i), nextId \notin DOMAIN localFiles'
  PROVE  \E V : V = View' /\ Parts(V, {}) /\ Moved(Item(n)) \in V /\ Item(n)' = Item(n)
<1>0. Base /\ Apart /\ Past
  BY GoingFacts
<1>1. PICK v, w, V : v = Item(n) /\ w = Moved(v) /\ V = View \cup {w}
  OBVIOUS
<1>2. View' = V /\ Item(n)' = Item(n)
  BY <1>0, <1>1, ViewAdds DEF Src
<1>3. v \in pre.view /\ Below(v, call.path)
  BY <1>0, <1>1, SourceWas
<1>4. Parts(V, {})
  <2>1. PICK G : G = {}
    OBVIOUS
  <2>2. Parts(View, G)
    BY <2>1
  <2>3. Parts(View \cup {Moved(v)}, G)
    BY <1>3, <2>2, PartsMore
  <2> QED BY <1>1, <2>1, <2>3
<1> QED BY <1>1, <1>2, <1>4

LEMMA MakesThere ==
  ASSUME Going, Len(call.path) > 1, Parts(View, {}), Fresh, NEW x, Adds(x), NEW n, NEW d, NEW name, Goes(n, d, name),
         FolderFor(x) = d, NEW c, Tells(c, Off), nextId \notin DOMAIN c, \A m \in DOMAIN c : m \in DOMAIN cache \/ Live(m),
         cache' = c
  PROVE  /\ Keeps({}) /\ Tells(cache, Off)' /\ Fresh'
         /\ \A k : k = nextId => PathOf(k)' = PathFor(x) /\ k \in DOMAIN objs' /\ objs'[k] = x
<1>0. Base /\ Apart /\ Past /\ call' = call /\ pre' = pre
  BY GoingFacts
<1>1. /\ Keeps({})
      /\ \A k : k = nextId => PathOf(k)' = PathFor(x) /\ k \in DOMAIN objs' /\ objs'[k] = x
  BY <1>0, AddKeeps
<1>2. PICK K, G : K = Off /\ G = {}
  OBVIOUS
<1>3. d \in K
  BY <1>0, <1>2, GoesThere
<1>4. Tells(c, K)'
  <2>2. PICK f : f = FolderFor(x) /\ f = d
    OBVIOUS
  <2>3. \A b, M : Tells(b, M) /\ nextId \notin DOMAIN b => Tells(b, M \cup {f})'
    <3>1. \A b, M, g : g = FolderFor(x) /\ Tells(b, M) /\ nextId \notin DOMAIN b => Tells(b, M \cup {g})'
      BY <1>0, TellsAdds
    <3> QED BY <2>2, <3>1
  <2>4. K \cup {f} = K
    BY <1>3, <2>2
  <2>5. Tells(c, K \cup {f})'
    BY <1>2, <2>3
  <2> QED BY <2>4, <2>5 DEF Tells
<1>5. Off \subseteq Off' /\ Fresh' = Fresh
  <2>1. Keeps(G)
    BY <1>1, <1>2
  <2> QED BY <1>0, <2>1, CarriedOver
<1>6. Tells(cache, Off)'
  BY <1>2, <1>4, <1>5 DEF Tells
<1> QED BY <1>1, <1>5, <1>6

LEMMA CopyOn ==
  ASSUME Going, ~AcceptsDuplicates, Len(call.path) > 1, Parts(View, {}), Tells(cache, Off), NEW t \in Seq(GoodSteps),
         NEW n, NEW d, NEW name, todo = Cons(<<"copyTo", n, d, name>>, t), Goes(n, d, name), objs[n].file, Ends(PathOf(n), t),
         Clean(n)
  PROVE  RenameInv'
<1>0. Base /\ Base' /\ Apart /\ Past /\ call' = call /\ pre' = pre /\ IsStore(objs) /\ WellFormed(call)
  BY GoingFacts
<1>1. PICK s : s = <<"copyTo", n, d, name>>
  OBVIOUS
<1>2. Tail(todo) = t /\ At("copyTo") /\ Arg(2) = n /\ Arg(3) = d /\ Arg(4) = name
  <2>1. todo = Cons(s, t)
    BY <1>1
  <2>2. Tail(todo) = t /\ (\A a : At(a) <=> a = s[1]) /\ \A j : Arg(j) = s[j]
    BY <2>1, StepIs
  <2>3. s[1] = "copyTo" /\ s[2] = n /\ s[3] = d /\ s[4] = name
    BY <1>1
  <2> QED BY <2>2, <2>3
<1>3. CopyTo \/ ReadFails
  BY <1>2, WhichStep DEF Going
<1>4. SUFFICES ASSUME CopyTo PROVE RenameInv'
  BY <1>3, ReadingFails
<1>5. /\ n \in DOMAIN objs /\ n \notin Off /\ Live(n) /\ Live(d) /\ d \in NodeIds /\ name \in Names /\ Src(n)
      /\ objs[n].file = TRUE
  <2>1. objs[n].file \in BOOLEAN
    BY <1>0, ObjectFields, BaseFacts DEF Goes, Src
  <2> QED BY <1>0, <2>1, GoesThere DEF Goes, Off
<1>6. PICK r \in getItem(n), files \in openFile(n) :
       LET new == NewObject(d, name, TRUE, files[n].data)
       IN  DeviceCall(MayAdd(new), WithObject(new), nextId + 1,
                Goto(<< <<"dropOriginal", n, GetParentNodeId(r.md)>> >>,
                     Drop(r.cache, {n, nextId}), files),
                Throw("EIO", r.cache, files))
  BY <1>2, <1>4 DEF CopyTo
<1>7. PICK x, b, c, f : /\ x = NewObject(d, name, TRUE, files[n].data) /\ b = r.cache /\ c = Drop(b, {n, nextId})
                        /\ f = GetParentNodeId(r.md)
  OBVIOUS
<1>8. /\ Whole(files) /\ files[n].data = Content(n) /\ files[n].data \in Data
      /\ DOMAIN files = DOMAIN localFiles \cup {n} /\ \A i \in DOMAIN localFiles : files[i] = localFiles[i]
      /\ n \notin DOMAIN localFiles => files[n] = [data |-> objs[n].data, dirty |-> FALSE, broken |-> FALSE]
  BY <1>0, OpenContents DEF Going
<1>9. \A i \in DOMAIN files : ~files[i].dirty \/ ~pre.saved
  BY <1>8 DEF Going, Settled
<1>10. localFiles' = files => \A i \in DOMAIN objs : objs'[i] = objs[i] => Content(i)' = Content(i)
  <2>1. ASSUME localFiles' = files, NEW i \in DOMAIN objs, objs'[i] = objs[i] PROVE Content(i)' = Content(i)
    <3>1. CASE i = n /\ n \notin DOMAIN localFiles
      BY <1>8, <2>1, <3>1 DEF Content
    <3>2. CASE i \in DOMAIN localFiles
      BY <1>8, <2>1, <3>2 DEF Content
    <3>3. CASE i # n /\ i \notin DOMAIN localFiles
      BY <1>8, <2>1, <3>3 DEF Content
    <3> QED BY <3>1, <3>2, <3>3
  <2> QED BY <2>1
<1>11. x \in Object /\ x.file = TRUE /\ x.data = Content(n) /\ x.parent = FolderId(d) /\ x.storage = Head(call.new) /\ x.name = name
  <2>1. x \in Object
    BY <1>0, <1>5, <1>7, <1>8, NewObjectType
  <2> QED BY <1>7, <1>8, <2>1 DEF NewObject
<1>12. FolderFor(x) = d /\ PathFor(x) = Image(PathOf(n)) /\ (MayAdd(x) => Fresh)
  BY <1>11, NewThere
<1>13. ItemFor(x) = Moved(Item(n))
  <2>1. Moved(Item(n)) = [path |-> Image(PathOf(n)), file |-> objs[n].file, data |-> Content(n)]
    BY <1>0, <1>5, SourceWas
  <2> QED BY <1>5, <1>11, <1>12, <2>1 DEF ItemFor
<1>14. r.md = getMetadata(n) /\ Tells(b, Off) /\ DOMAIN b = DOMAIN cache \cup {n}
  <2>1. PICK M : M = Off
    OBVIOUS
  <2>2. r.md = getMetadata(n) /\ Tells(r.cache, M) /\ DOMAIN r.cache = DOMAIN cache \cup {n}
    BY <1>5, <2>1, ItemTells
  <2> QED BY <1>7, <2>1, <2>2
<1>15. f = ParentNode(n)
  BY <1>0, <1>5, <1>7, <1>14, ParentIs
<1>16. \/ Throw("EIO", b, files) /\ (objs' = objs \/ Adds(x))
       \/ Adds(x) /\ Goto(<< <<"dropOriginal", n, f>> >>, c, files)
  BY <1>6, <1>7, <1>11 DEF DeviceCall, device, Adds
<1>17. Adds(x) => \A i \in DOMAIN objs : objs'[i] = objs[i]
  BY <1>0, BaseFacts DEF Adds, WithObject, Put
<1>18. Adds(x) /\ localFiles' = files => \E V : V = View' /\ Parts(V, {}) /\ Moved(Item(n)) \in V /\ Item(n)' = Item(n)
  <2>1. SUFFICES ASSUME Adds(x), localFiles' = files
                 PROVE  \E V : V = View' /\ Parts(V, {}) /\ Moved(Item(n)) \in V /\ Item(n)' = Item(n)
    OBVIOUS
  <2>2. Fresh
    BY <1>12, <2>1 DEF Adds
  <2>3. nextId \notin DOMAIN localFiles'
    BY <1>0, <1>5, <1>8, <2>1, BaseFacts
  <2>4. \A i \in DOMAIN objs : Content(i)' = Content(i)
    BY <1>10, <1>17, <2>1
  <2> QED BY <1>5, <1>13, <2>1, <2>2, <2>3, <2>4, ImageMade
<1>19. CASE Throw("EIO", b, files) /\ objs' = objs
  <2>1. \A i \in DOMAIN objs : Content(i)' = Content(i)
    BY <1>10, <1>19 DEF Throw
  <2> QED BY <1>8, <1>9, <1>19, <2>1, StopsHere
<1>20. CASE Throw("EIO", b, files) /\ Adds(x)
  <2>1. todo' = <<>> /\ reply'.code # "ok" /\ localFiles' = files
    BY <1>20 DEF Throw
  <2>2. PICK V, G : V = View' /\ Parts(V, G) /\ G = {}
    BY <1>18, <1>20, <2>1
  <2>3. pre.saved => Settled' /\ Whole(localFiles')
    BY <1>8, <1>9, <2>1 DEF Settled
  <2> QED BY <2>1, <2>2, <2>3, StopsAt
<1>21. CASE Adds(x) /\ Goto(<< <<"dropOriginal", n, f>> >>, c, files)
  <2>1. PICK a : a = <<"dropOriginal", n, f>>
    OBVIOUS
  <2>2. <<a>> \o t = Cons(a, t)
    BY ConsOne
  <2>3. todo' = Cons(a, t) /\ reply' = reply /\ localFiles' = files /\ cache' = c
    BY <1>2, <1>21, <2>1, <2>2 DEF Goto
  <2>4. PICK V : V = View' /\ Parts(V, {}) /\ Moved(Item(n)) \in V /\ Item(n)' = Item(n)
    BY <1>18, <1>21, <2>3
  <2>5. Fresh
    BY <1>12, <1>21 DEF Adds
  <2>6. Tells(c, Off) /\ nextId \notin DOMAIN c /\ n \notin DOMAIN c /\ \A m \in DOMAIN c : m \in DOMAIN cache \/ Live(m)
    <3>1. PICK M : M = Off
      OBVIOUS
    <3>2. Tells(c, M)
      BY <1>7, <1>14, <3>1, TellsLess
    <3> QED BY <1>7, <1>14, <3>1, <3>2 DEF Drop
  <2>7. Keeps({}) /\ Tells(cache, Off)' /\ Fresh'
    BY <1>12, <1>21, <2>3, <2>5, <2>6, MakesThere
  <2>8. t \in Seq(GoodSteps') /\ (Leaves(t) => Leaves(t)')
    <3>1. PICK G : G = {}
      OBVIOUS
    <3>2. /\ \A u \in Seq(GoodSteps) : u \in Seq(GoodSteps')
          /\ \A u : Leaves(u) /\ (\A i \in G : PathOf(i) # call.path) => Leaves(u)'
      BY <1>0, <2>7, <3>1, CarriedOver
    <3> QED BY <3>1, <3>2
  <2>9. Goes(n, d, name)' /\ Ends(PathOf(n), t)' /\ objs'[n].file /\ PathOf(n)' = PathOf(n)
    BY <1>0, <1>5, <2>7, <2>8, GoesOn
  <2>10. Src(n)' /\ ParentNode(n)' = ParentNode(n)
    <3>1. objs'[n] = objs[n]
      BY <1>5, <1>17, <1>21
    <3> QED BY <2>9, <3>1 DEF Goes, ParentNode
  <2>11. (Moved(Item(n)) \in View)'
    <3>1. PICK v, w : v = Item(n) /\ w = Moved(v)
      OBVIOUS
    <3>2. Moved(v)' = w
      BY <1>0, <3>1 DEF Moved, Image
    <3> QED BY <2>4, <3>1, <3>2
  <2>12. Dropping(t)'
    <3>1. todo' = Cons(<<"dropOriginal", n, ParentNode(n)'>>, t)
      BY <1>15, <2>1, <2>3, <2>10
    <3>2. n \notin DOMAIN cache'
      BY <2>3, <2>6
    <3>3. Clean(n)'
      BY <1>8, <2>3 DEF Clean
    <3> QED BY <2>7, <2>9, <2>10, <2>11, <3>1, <3>2, <3>3 DEF Dropping
  <2>13. Whole(localFiles)' /\ (pre.saved => Settled')
    BY <1>8, <1>9, <2>3 DEF Whole, Settled
  <2>14. Midway(t)'
    BY <2>12 DEF Midway
  <2> QED BY <2>3, <2>4, <2>7, <2>8, <2>13, <2>14, MovesOn
<1> QED BY <1>16, <1>19, <1>20, <1>21

-----------------------------------------------------------------------------
(* A file is written back before it is copied: its changed copy is sent as a *)
(* new object, and the copying goes on with the id the file then has.      *)
LEMMA ConsElements ==
  ASSUME NEW U, NEW t \in Seq(U), NEW a
  PROVE  /\ DOMAIN Cons(a, t) = 1 .. 1 + Len(t) /\ Cons(a, t)[1] = a /\ Len(t) \in Nat
         /\ \A i \in 2 .. 1 + Len(t) : i - 1 \in 1 .. Len(t) /\ Cons(a, t)[i] = t[i - 1]
         /\ Cons(a, t) = [i \in DOMAIN Cons(a, t) |-> Cons(a, t)[i]]
<1>1. PICK W : W = U \cup {a}
  OBVIOUS
<1>2. t \in Seq(W) /\ <<a>> \in Seq(W) /\ Len(<<a>>) = 1 /\ <<a>>[1] = a
  BY <1>1, SeqMonotonic
<1>3. PICK c : c = <<a>> \o t
  OBVIOUS
<1>4. c \in Seq(W) /\ Len(c) = 1 + Len(t) /\ \A i \in 1 .. 1 + Len(t) : c[i] = IF i <= 1 THEN <<a>>[i] ELSE t[i - 1]
  BY <1>2, <1>3, ConcatProperties
<1>5. Len(t) \in Nat /\ DOMAIN c = 1 .. 1 + Len(t) /\ c \in [1 .. Len(c) -> W]
  BY <1>2, <1>4, LenProperties
<1>6. c[1] = a /\ \A i \in 2 .. 1 + Len(t) : i - 1 \in 1 .. Len(t) /\ c[i] = t[i - 1]
  BY <1>2, <1>4, <1>5
<1>7. c = [i \in DOMAIN c |-> c[i]]
  BY <1>5
<1>8. Cons(a, t) = c
  BY <1>3 DEF Cons
<1> QED BY <1>5, <1>6, <1>7, <1>8

(* The copy goes on with the id the file has now.                          *)
LEMMA RenumberRest ==
  ASSUME NEW t \in Seq(GoodSteps), NEW n, NEW k, NEW d, NEW name
  PROVE  Renumber(Cons(<<"copyTo", n, d, name>>, t), n, k) = Cons(<<"copyTo", k, d, name>>, t)
<1>1. PICK a, b : a = <<"copyTo", n, d, name>> /\ b = <<"copyTo", k, d, name>>
  OBVIOUS
<1>2. a[1] = "copyTo" /\ a[2] = n /\ [a EXCEPT ![2] = k] = b
  BY <1>1
<1>3. \A s \in GoodSteps : s[1] # "copyTo"
  <2> TAKE s \in GoodSteps
  <2>1. Good(s)
    BY DEF GoodSteps
  <2>2. ASSUME NEW K, s = <<"clearItems", K>> PROVE s[1] # "copyTo"
    BY <2>2
  <2>3. ASSUME NEW m, NEW e, s = <<"moveContents", m, e>> PROVE s[1] # "copyTo"
    BY <2>3
  <2>4. ASSUME NEW m, NEW e, NEW S, s = <<"moveRest", m, e, S>> PROVE s[1] # "copyTo"
    BY <2>4
  <2>5. ASSUME NEW m, NEW p, NEW q, s = <<"getNode", m, p, q>> PROVE s[1] # "copyTo"
    BY <2>5
  <2>6. ASSUME NEW m, s = <<"remove", m, FALSE>> PROVE s[1] # "copyTo"
    BY <2>6
  <2> QED BY <2>1, <2>2, <2>3, <2>4, <2>5, <2>6 DEF Good
<1>4. PICK c, e : c = Cons(a, t) /\ e = Cons(b, t)
  OBVIOUS
<1>5. /\ DOMAIN c = 1 .. 1 + Len(t) /\ c[1] = a /\ Len(t) \in Nat
      /\ \A i \in 2 .. 1 + Len(t) : i - 1 \in 1 .. Len(t) /\ c[i] = t[i - 1]
  BY <1>4, ConsElements
<1>6. /\ DOMAIN e = 1 .. 1 + Len(t) /\ e[1] = b /\ e = [i \in DOMAIN e |-> e[i]]
      /\ \A i \in 2 .. 1 + Len(t) : e[i] = t[i - 1]
  BY <1>4, ConsElements
<1>7. \A j \in DOMAIN c : (IF c[j][1] = "copyTo" /\ c[j][2] = n THEN [c[j] EXCEPT ![2] = k] ELSE c[j]) = e[j]
  <2> TAKE j \in DOMAIN c
  <2>1. CASE j = 1
    BY <1>2, <1>5, <1>6, <2>1
  <2>2. CASE j # 1
    <3>1. j \in 2 .. 1 + Len(t) /\ j - 1 \in 1 .. Len(t)
      BY <1>5, <2>2
    <3>2. t[j - 1] \in GoodSteps
      BY <3>1, ElementOfSeq
    <3> QED BY <1>3, <1>5, <1>6, <3>1, <3>2
  <2> QED BY <2>1, <2>2
<1>8. Renumber(c, n, k) = e
  BY <1>5, <1>6, <1>7 DEF Renumber
<1> QED BY <1>1, <1>4, <1>8

LEMMA FlushOn ==
  ASSUME Going, Len(call.path) > 1, Parts(View, {}), Tells(cache, Off), NEW t \in Seq(GoodSteps),
         NEW n, NEW d, NEW name, todo = Cons(<<"fsync", n>>, Cons(<<"copyTo", n, d, name>>, t)),
         Goes(n, d, name), objs[n].file, Ends(PathOf(n), t)
  PROVE  RenameInv'
<1>0. Base /\ Base' /\ Apart /\ call' = call /\ pre' = pre
  BY GoingFacts
<1>1. PICK s, b, u : s = <<"fsync", n>> /\ b = <<"copyTo", n, d, name>> /\ u = Cons(b, t)
  OBVIOUS
<1>2. u \in Seq(GoodSteps \cup {b})
  BY <1>1, ConsOne
<1>3. Tail(todo) = u /\ At("fsync") /\ Arg(2) = n
  <2>1. todo = Cons(s, u)
    BY <1>1
  <2>2. Tail(todo) = u /\ (\A a : At(a) <=> a = s[1]) /\ \A j : Arg(j) = s[j]
    BY <1>2, <2>1, StepIs
  <2>3. s[1] = "fsync" /\ s[2] = n
    BY <1>1
  <2> QED BY <2>2, <2>3
<1>4. Fsync \/ ReadFails
  BY <1>3, WhichStep DEF Going
<1>5. SUFFICES ASSUME Fsync PROVE RenameInv'
  BY <1>4, ReadingFails
<1>6. PICK r \in getItem(n) : Goto(<< <<"closeFile", n, {GetParentNodeId(r.md)}>> >>, Drop(r.cache, {n}), localFiles)
  BY <1>3, <1>5 DEF Fsync
<1>7. n \in DOMAIN objs /\ n \notin Off /\ Live(n)
  BY <1>0, GoesThere
<1>8. PICK m, c, files : m = <<"closeFile", n, {GetParentNodeId(r.md)}>> /\ c = Drop(r.cache, {n}) /\ files = localFiles
  OBVIOUS
<1>9. objs' = objs /\ nextId' = nextId /\ reply' = reply /\ localFiles' = files /\ cache' = c /\ todo' = Cons(m, u)
  <2>1. <<m>> \o u = Cons(m, u)
    BY <1>2, ConsOne
  <2> QED BY <1>3, <1>5, <1>6, <1>8, <2>1 DEF Fsync, NoDeviceChange, device, Goto
<1>10. r.md = getMetadata(n) /\ Tells(c, Off) /\ n \notin DOMAIN c /\ \A k \in DOMAIN c : k \in DOMAIN cache \/ Live(k)
  <2>1. PICK M : M = Off
    OBVIOUS
  <2>2. r.md = getMetadata(n) /\ Tells(r.cache, M) /\ DOMAIN r.cache = DOMAIN cache \cup {n}
    BY <1>7, <2>1, ItemTells
  <2>3. Tells(c, M)
    BY <1>8, <2>2, TellsLess
  <2> QED BY <1>8, <2>1, <2>2, <2>3 DEF Drop
<1>11. GetParentNodeId(r.md) = ParentNode(n)
  BY <1>0, <1>7, <1>10, ParentIs
<1>12. Whole(files) /\ (\A i \in DOMAIN files : ~files[i].dirty \/ ~pre.saved) /\ \A i \in DOMAIN objs : Content(i)' = Content(i)
  BY <1>8, <1>9 DEF Going, Settled, Content
<1>13. /\ Keeps({})
       /\ \A v \in Seq(GoodSteps) : v \in Seq(GoodSteps') /\ (Leaves(v) => Leaves(v)')
       /\ \A v : v \in Seq(GoodSteps') /\ Midway(v)' => RenameInv'
  BY <1>9, <1>10, <1>12, Quietly
<1>14. Goes(n, d, name)' /\ Ends(PathOf(n), t)' /\ objs'[n].file
  BY <1>0, <1>9, <1>13, GoesOn
<1>15. ParentNode(n)' = ParentNode(n)
  BY <1>9 DEF ParentNode
<1>16. todo' = Cons(<<"closeFile", n, {ParentNode(n)'}>>, Cons(<<"copyTo", n, d, name>>, t)) /\ n \notin DOMAIN cache'
  BY <1>1, <1>8, <1>9, <1>10, <1>11, <1>15
<1>17. Flushing(t)'
  BY <1>14, <1>16 DEF Flushing
<1> QED BY <1>13, <1>17 DEF Midway

LEMMA CloseOn ==
  ASSUME Going, Len(call.path) > 1, Parts(View, {}), Tells(cache, Off), NEW t \in Seq(GoodSteps),
         NEW n, NEW d, NEW name, NEW K, todo = Cons(<<"closeFile", n, K>>, Cons(<<"copyTo", n, d, name>>, t)),
         Goes(n, d, name), objs[n].file, Ends(PathOf(n), t), CloseFile
  PROVE  RenameInv'
<1>0. Base /\ Base' /\ Apart /\ call' = call /\ pre' = pre
  BY GoingFacts
<1>1. PICK s, b, u : s = <<"closeFile", n, K>> /\ b = <<"copyTo", n, d, name>> /\ u = Cons(b, t)
  OBVIOUS
<1>2. u \in Seq(GoodSteps \cup {b})
  BY <1>1, ConsOne
<1>3. Tail(todo) = u /\ Arg(2) = n /\ Arg(3) = K
  <2>1. todo = Cons(s, u)
    BY <1>1
  <2>2. Tail(todo) = u /\ (\A j : Arg(j) = s[j])
    BY <1>2, <2>1, StepIs
  <2>3. s[2] = n /\ s[3] = K
    BY <1>1
  <2> QED BY <2>2, <2>3
<1>4. PICK c, files : c = Drop(cache, K) /\ files = Drop(localFiles, {n})
  OBVIOUS
<1>5. /\ objs' = objs /\ nextId' = nextId /\ reply' = reply /\ localFiles' = files /\ cache' = c /\ todo' = u
      /\ n \in DOMAIN localFiles => ~localFiles[n].dirty
  <2>1. <<>> \o u = u
    BY <1>2, ConsOne
  <2> QED BY <1>3, <1>4, <2>1 DEF CloseFile, NoDeviceChange, device, Goto
<1>6. Tells(c, Off) /\ \A k \in DOMAIN c : k \in DOMAIN cache \/ Live(k)
  <2>1. PICK M : M = Off
    OBVIOUS
  <2>2. Tells(c, M)
    BY <1>4, <2>1, TellsLess
  <2> QED BY <1>4, <2>1, <2>2 DEF Drop
<1>7. Whole(files) /\ \A i \in DOMAIN files : ~files[i].dirty \/ ~pre.saved
  BY <1>4 DEF Going, Whole, Settled, Drop
<1>8. \A i \in DOMAIN objs : Content(i)' = Content(i)
  <2> TAKE i \in DOMAIN objs
  <2>1. CASE i = n /\ n \in DOMAIN localFiles
    <3>1. localFiles[n].data = objs[n].data /\ ~localFiles[n].broken
      BY <1>0, <1>5, <2>1 DEF Base, CopiesInv, CleanCopiesCurrent, Going, Whole
    <3> QED BY <1>4, <1>5, <2>1, <3>1 DEF Content, Drop
  <2>2. CASE i # n \/ n \notin DOMAIN localFiles
    BY <1>4, <1>5, <2>2 DEF Content, Drop
  <2> QED BY <2>1, <2>2
<1>9. /\ Keeps({})
      /\ \A v \in Seq(GoodSteps) : v \in Seq(GoodSteps') /\ (Leaves(v) => Leaves(v)')
      /\ \A v : v \in Seq(GoodSteps') /\ Midway(v)' => RenameInv'
  BY <1>5, <1>6, <1>7, <1>8, Quietly
<1>10. Goes(n, d, name)' /\ Ends(PathOf(n), t)' /\ objs'[n].file
  BY <1>0, <1>5, <1>9, GoesOn
<1>11. Clean(n)'
  BY <1>4, <1>5 DEF Clean, Drop
<1>12. Flushing(t)'
  BY <1>1, <1>5, <1>10, <1>11 DEF Flushing
<1> QED BY <1>9, <1>12 DEF Midway

LEMMA StopsUnsaved ==
  ASSUME Going, todo' = <<>>, reply'.code # "ok", NEW V, V = View', Elsewhere(V) = Elsewhere(pre.view), ~pre.saved
  PROVE  RenameInv'
<1>1. /\ Base' /\ call' = call /\ pre' = pre /\ Apart /\ Past /\ Apart' /\ Past'
  BY GoingFacts
<1>2. PICK W : W = pre.view
  OBVIOUS
<1>3. Elsewhere(V)' = Elsewhere(W)'
  BY <1>1, <1>2, PartsAfter
<1>4. Elsewhere(View)' = Elsewhere(pre.view)'
  BY <1>1, <1>2, <1>3 DEF Elsewhere
<1> QED BY <1>1, <1>4 DEF RenameInv

LEMMA SendsOn ==
  ASSUME Going, reply' = reply, Len(call.path) > 1, Whole(localFiles)', ~pre.saved, NEW t, t \in Seq(GoodSteps'), Replacing(t)'
  PROVE  RenameInv'
<1>1. /\ Base' /\ call' = call /\ pre' = pre /\ Apart /\ Past /\ Apart' /\ Past'
  BY GoingFacts
<1>2. Moving'
  BY <1>1 DEF Moving
<1> QED BY <1>1, <1>2 DEF RenameInv, Going

(* A file that goes away, or whose contents do, lay below the source.      *)
LEMMA ElsewhereStays ==
  ASSUME Going, Parts(View, {}), NEW n, Src(n), objs[n].file,
         \/ objs' = objs
         \/ Removes(n) /\ Subtree(objs, n) = {n},
         \A i \in DOMAIN objs \ {n} : Content(i)' = Content(i)
  PROVE  \E V : V = View' /\ Elsewhere(V) = Elsewhere(pre.view)
<1>0. Base /\ Apart /\ Past
  BY GoingFacts
<1>1. PICK V, v, R : V = View' /\ v = Item(n) /\ R = {Item(i) : i \in DOMAIN objs \ {n}}
  OBVIOUS
<1>2. Below(v, call.path) /\ n \in DOMAIN objs
  BY <1>0, <1>1, SourceWas DEF Src
<1>3. View = R \cup {v}
  BY <1>1, <1>2, ViewItems
<1>4. Elsewhere(View) = Elsewhere(pre.view)
  BY <1>0, PartsElsewhere
<1>5. CASE objs' = objs
  <2>1. PICK d, w : d = Content(n)' /\ w = [path |-> PathOf(n), file |-> objs[n].file, data |-> d]
    OBVIOUS
  <2>2. V = R \cup {w}
    BY <1>1, <1>2, <1>5, <2>1, ViewChanges
  <2>3. Below(w, call.path)
    BY <1>1, <1>2, <2>1 DEF Below, Item
  <2>4. Elsewhere(R \cup {w}) = Elsewhere(R)
    BY <2>3, ElsewhereAdds
  <2>5. Elsewhere(R \cup {v}) = Elsewhere(R)
    BY <1>2, ElsewhereAdds
  <2> QED BY <1>1, <1>3, <1>4, <2>2, <2>4, <2>5
<1>6. CASE Removes(n) /\ Subtree(objs, n) = {n}
  <2>1. V = R
    BY <1>0, <1>1, <1>6, ViewRemoves
  <2>2. Elsewhere(R \cup {v}) = Elsewhere(R)
    BY <1>2, ElsewhereAdds
  <2> QED BY <1>1, <1>3, <1>4, <2>1, <2>2
<1> QED BY <1>5, <1>6

LEMMA DeleteOn ==
  ASSUME Going, Len(call.path) > 1, Parts(View, {}), Tells(cache, Off), NEW t \in Seq(GoodSteps),
         NEW n, NEW d, NEW name, todo = Cons(<<"closeFile", n, {ParentNode(n)}>>, Cons(<<"copyTo", n, d, name>>, t)),
         n \notin DOMAIN cache, Goes(n, d, name), objs[n].file, Ends(PathOf(n), t), DeleteOld
  PROVE  RenameInv'
<1>0. Base /\ Base' /\ Apart /\ Past /\ call' = call /\ pre' = pre /\ IsStore(objs)
  BY GoingFacts
<1>1. PICK s, b, u, K : s = <<"closeFile", n, K>> /\ b = <<"copyTo", n, d, name>> /\ u = Cons(b, t) /\ K = {ParentNode(n)}
  OBVIOUS
<1>2. u \in Seq(GoodSteps \cup {b})
  BY <1>1, ConsOne
<1>3. Tail(todo) = u /\ Arg(2) = n /\ Arg(3) = K
  <2>1. todo = Cons(s, u)
    BY <1>1
  <2>2. Tail(todo) = u /\ (\A j : Arg(j) = s[j])
    BY <1>2, <2>1, StepIs
  <2>3. s[2] = n /\ s[3] = K
    BY <1>1
  <2> QED BY <2>2, <2>3
<1>4. n \in DOMAIN objs /\ Src(n) /\ n \notin Storages /\ Live(d) /\ n # d
  BY <1>0, GoesThere, NodePathType DEF Goes
<1>5. PICK x, files : x = [objs[n] EXCEPT !.data = localFiles[n].data] /\ files = [localFiles EXCEPT ![n].dirty = FALSE]
  OBVIOUS
<1>6. /\ n \in DOMAIN localFiles /\ localFiles[n].dirty
      /\ DeviceCall(n \in DOMAIN objs, WithoutObject(n), nextId,
               Goto(<< <<"sendFile", n, K, x>> >>, cache, files),
               Throw("EIO", cache, Broken(n)))
  BY <1>3, <1>5 DEF DeleteOld
<1>7. /\ ~pre.saved /\ objs[n].file = TRUE /\ objs[n] \in Object /\ localFiles[n] \in Copy /\ Subtree(objs, n) = {n}
      /\ ~localFiles[n].broken
  BY <1>0, <1>4, <1>6, CopiedIsFile, NothingInAFile DEF Going, Settled, Whole
<1>8. \/ Throw("EIO", cache, Broken(n)) /\ (objs' = objs \/ Removes(n))
      \/ Removes(n) /\ Goto(<< <<"sendFile", n, K, x>> >>, cache, files)
  BY <1>4, <1>6 DEF DeviceCall, device, Removes
<1>9. Removes(n) => \A i \in DOMAIN objs \ {n} : i \in DOMAIN objs' /\ objs'[i] = objs[i]
  BY <1>7 DEF Removes, WithoutObject, Drop
<1>10. CASE Throw("EIO", cache, Broken(n)) /\ (objs' = objs \/ Removes(n))
  <2>1. todo' = <<>> /\ reply'.code # "ok" /\ localFiles' = Broken(n)
    BY <1>10 DEF Throw
  <2>2. \A i \in DOMAIN objs \ {n} : Content(i)' = Content(i)
    BY <1>9, <1>10, <2>1 DEF Content, Broken
  <2>3. PICK V : V = View' /\ Elsewhere(V) = Elsewhere(pre.view)
    BY <1>4, <1>7, <1>10, <2>2, ElsewhereStays
  <2> QED BY <1>7, <2>1, <2>3, StopsUnsaved
<1>11. CASE Removes(n) /\ Goto(<< <<"sendFile", n, K, x>> >>, cache, files)
  <2>1. PICK m : m = <<"sendFile", n, K, x>>
    OBVIOUS
  <2>2. <<m>> \o u = Cons(m, u)
    BY <1>2, ConsOne
  <2>3. todo' = Cons(m, u) /\ reply' = reply /\ localFiles' = files /\ cache' = cache
    BY <1>3, <1>11, <2>1, <2>2 DEF Goto
  <2>4. \A i \in DOMAIN objs \ {n} : Content(i)' = Content(i)
    BY <1>5, <1>9, <1>11, <2>3 DEF Content
  <2>5. Whole(localFiles)'
    BY <1>5, <2>3 DEF Going, Whole
  <2>6. /\ x \in Object /\ x.file = TRUE /\ x.data = localFiles[n].data /\ x.parent = objs[n].parent
        /\ x.storage = objs[n].storage /\ x.name = objs[n].name
    BY <1>5, <1>7 DEF Object, Copy
  <2>7. PICK f : f = ParentNode(n)
    OBVIOUS
  <2>8. FolderFor(x) = f /\ K = {f}
    BY <1>1, <2>6, <2>7 DEF FolderFor, ParentNode
  <2>9. PICK w, v : w = PathOf(n) /\ v = Item(n)
    OBVIOUS
  <2>10. PathFor(x)' = w
    BY <1>0, <1>4, <1>7, <1>11, <2>6, <2>9, PathStays
  <2>11. ItemFor(x)' = v
    <3>1. Content(n) = x.data
      BY <1>6, <1>7, <2>6 DEF Content
    <3> QED BY <1>7, <2>6, <2>9, <2>10, <3>1 DEF ItemFor, Item
  <2>12. v \in pre.view /\ w \in Seq(PathElem) /\ IsPrefix(call.path, w) /\ ~Below(v, call.new)
    BY <1>0, <1>4, <2>9, SourceWas
  <2>13. PICK V : V = View' /\ Parts(V, {v})
    <3>1. PICK V : V = View' /\ View = V \cup {v}
      BY <1>0, <1>7, <1>11, <2>4, <2>9, ViewRemoves
    <3>2. Parts(V \cup {v}, {})
      BY <3>1
    <3>3. Parts(V, {v})
      BY <1>0, <2>12, <3>2, PartsLess
    <3> QED BY <3>1, <3>3
  <2>14. PICK G, M : G = {n} /\ M = Off
    OBVIOUS
  <2>15. Keeps(G)
    <3>1. n \notin DOMAIN cache' /\ \A k \in DOMAIN cache' : k \in DOMAIN cache \/ Live(k)
      BY <2>3
    <3> QED BY <1>0, <1>4, <1>7, <1>11, <2>14, <3>1, RemoveKeeps
  <2>16. /\ M \subseteq Off' /\ (\A z : Image(z)' = Image(z))
         /\ \A z \in Seq(GoodSteps) : z \in Seq(GoodSteps')
         /\ \A z : Leaves(z) /\ (\A i \in G : PathOf(i) # call.path) => Leaves(z)'
    BY <1>0, <2>14, <2>15, CarriedOver
  <2>17. Tells(cache, Off \cup {FolderFor(x)})'
    <3>1. \A c, L, g : g = ParentNode(n) /\ Tells(c, L) => Tells(c, L \cup {g})'
      BY <1>0, <1>7, <1>11, TellsRemoves
    <3>2. PICK c : c = cache
      OBVIOUS
    <3>3. Tells(c, M \cup {f})' /\ cache' = c
      BY <2>3, <2>7, <2>14, <3>1, <3>2
    <3>4. M \cup {f} \subseteq Off' \cup {FolderFor(x)}
      BY <2>8, <2>16
    <3> QED BY <3>3, <3>4 DEF Tells
  <2>18. IsFolderNode(FolderFor(x))'
    <3>1. IsFolderNode(f)
      BY <1>0, <1>4, <2>7, ChildPath
    <3>2. f \in Storages \/ (f \in DOMAIN objs \ {n})
      BY <1>7, <3>1 DEF IsFolderNode
    <3> QED BY <1>9, <1>11, <2>8, <3>1, <3>2 DEF IsFolderNode
  <2>19. IsFolderNode(d)' /\ (Append(NodePath(d), name) = Image(PathFor(x)))'
    <3>1. IsFolderNode(d) /\ Append(NodePath(d), name) = Image(w)
      BY <2>9 DEF Goes
    <3>2. d \in Storages \/ d \in DOMAIN objs \ {n}
      BY <1>4, <3>1 DEF IsFolderNode
    <3>3. NodePath(d)' = NodePath(d)
      BY <2>14, <2>15, <3>2 DEF NodePath, Keeps
    <3>4. IsFolderNode(d)'
      BY <1>9, <1>11, <3>1, <3>2 DEF IsFolderNode
    <3>5. Image(PathFor(x))' = Image(w)
      BY <1>0, <2>10, <2>16 DEF Image
    <3> QED BY <3>1, <3>3, <3>4, <3>5
  <2>20. Ends(PathFor(x), t)'
    <3>1. Ends(w, t)
      BY <2>9
    <3> QED BY <1>0, <2>9, <2>10, <2>14, <2>16, <3>1 DEF Ends
  <2>21. Parts(View, {ItemFor(x)})'
    <3>1. Parts(V, {v})'
      BY <1>0, <2>13, PartsAfter
    <3> QED BY <2>11, <2>13, <3>1
  <2>22. todo' = Cons(<<"sendFile", n, {FolderFor(x)}, x>>, Cons(<<"copyTo", n, d, name>>, t))
    BY <1>1, <2>1, <2>3, <2>8
  <2>23. n \in DOMAIN localFiles' \ DOMAIN objs'
    BY <1>5, <1>6, <1>7, <1>11, <2>3 DEF Removes, WithoutObject, Drop
  <2>24. /\ name \in Names /\ (ItemFor(x) \in pre.view)' /\ (PathFor(x) \in Seq(PathElem))'
         /\ IsPrefix(call.path, PathFor(x))'
    BY <1>0, <2>10, <2>11, <2>12 DEF Goes
  <2>25. Replacing(t)'
    BY <1>0, <1>7, <2>6, <2>17, <2>18, <2>19, <2>20, <2>21, <2>22, <2>23, <2>24 DEF Replacing
  <2> QED BY <1>7, <2>3, <2>5, <2>16, <2>25, SendsOn
<1> QED BY <1>8, <1>10, <1>11

LEMMA FlushingStep ==
  ASSUME Going, ~AcceptsDuplicates, Len(call.path) > 1, Parts(View, {}), Tells(cache, Off), NEW t \in Seq(GoodSteps), Flushing(t)
  PROVE  RenameInv'
<1>1. PICK n, d, name :
        /\ \/ todo = Cons(<<"fsync", n>>, Cons(<<"copyTo", n, d, name>>, t))
           \/ n \notin DOMAIN cache /\ todo = Cons(<<"closeFile", n, {ParentNode(n)}>>, Cons(<<"copyTo", n, d, name>>, t))
           \/ Clean(n) /\ todo = Cons(<<"copyTo", n, d, name>>, t)
        /\ Goes(n, d, name) /\ objs[n].file /\ Ends(PathOf(n), t)
  BY DEF Flushing
<1>2. CASE todo = Cons(<<"fsync", n>>, Cons(<<"copyTo", n, d, name>>, t))
  BY <1>1, <1>2, FlushOn
<1>3. CASE Clean(n) /\ todo = Cons(<<"copyTo", n, d, name>>, t)
  BY <1>1, <1>3, CopyOn
<1>4. CASE n \notin DOMAIN cache /\ todo = Cons(<<"closeFile", n, {ParentNode(n)}>>, Cons(<<"copyTo", n, d, name>>, t))
  <2>1. PICK s, b, u : s = <<"closeFile", n, {ParentNode(n)}>> /\ b = <<"copyTo", n, d, name>> /\ u = Cons(b, t)
    OBVIOUS
  <2>2. u \in Seq(GoodSteps \cup {b}) /\ todo = Cons(s, u)
    BY <1>4, <2>1, ConsOne
  <2>3. \A a : At(a) <=> a = s[1]
    BY <2>2, StepIs
  <2>4. s[1] = "closeFile"
    BY <2>1
  <2>5. CloseFile \/ DeleteOld
    BY <2>3, <2>4, WhichStep DEF Going
  <2> QED BY <1>1, <1>4, <2>5, CloseOn, DeleteOn
<1> QED BY <1>1, <1>2, <1>3, <1>4

LEMMA ReplacingStep ==
  ASSUME Going, Len(call.path) > 1, NEW t \in Seq(GoodSteps), Replacing(t)
  PROVE  RenameInv'
<1>0. Base /\ Base' /\ Apart /\ Past /\ call' = call /\ pre' = pre
  BY GoingFacts
<1>1. PICK n, x, d, name :
        /\ todo = Cons(<<"sendFile", n, {FolderFor(x)}, x>>, Cons(<<"copyTo", n, d, name>>, t))
        /\ n \in DOMAIN localFiles \ DOMAIN objs /\ x \in Object /\ x.file /\ IsFolderNode(FolderFor(x)) /\ ~pre.saved
        /\ ItemFor(x) \in pre.view /\ PathFor(x) \in Seq(PathElem) /\ IsPrefix(call.path, PathFor(x))
        /\ IsFolderNode(d) /\ name \in Names /\ Append(NodePath(d), name) = Image(PathFor(x)) /\ Ends(PathFor(x), t)
        /\ Parts(View, {ItemFor(x)}) /\ Tells(cache, Off \cup {FolderFor(x)})
  BY DEF Replacing
<1>2. PICK f, K, s, b, u : /\ f = FolderFor(x) /\ K = {f} /\ s = <<"sendFile", n, K, x>>
                           /\ b = <<"copyTo", n, d, name>> /\ u = Cons(b, t)
  OBVIOUS
<1>3. Tail(todo) = u /\ At("sendFile") /\ Arg(2) = n /\ Arg(3) = K /\ Arg(4) = x
  <2>1. todo = Cons(s, u) /\ u \in Seq(GoodSteps \cup {b})
    BY <1>1, <1>2, ConsOne
  <2>2. Tail(todo) = u /\ (\A a : At(a) <=> a = s[1]) /\ \A j : Arg(j) = s[j]
    BY <2>1, StepIs
  <2>3. s[1] = "sendFile" /\ s[2] = n /\ s[3] = K /\ s[4] = x
    BY <1>2
  <2> QED BY <2>2, <2>3
<1>4. SendFile
  BY <1>3, WhichStep DEF Going
<1>5. n \in ObjIds /\ n \notin Storages /\ f # n
  <2>1. n \in ObjIds
    BY <1>0, <1>1, BaseFacts, MapElements DEF TypeOK
  <2>2. n \notin Storages
    BY <2>1, DeviceAssumption
  <2> QED BY <1>1, <1>2, <2>1, <2>2 DEF IsFolderNode
<1>6. \/ /\ Adds(x) /\ todo' = Renumber(u, n, nextId) /\ cache' = Drop(cache, K)
         /\ localFiles' = Drop(localFiles, {n}) /\ reply' = reply
      \/ Throw("EIO", cache, Broken(n)) /\ (objs' = objs \/ Adds(x))
  <2>1. {IF y = n THEN nextId ELSE y : y \in K} = K
    BY <1>2, <1>5
  <2>2. \/ /\ MayAdd(x) /\ objs' = WithObject(x) /\ nextId' = nextId + 1
           /\ todo' = Renumber(Tail(todo), n, nextId)
           /\ cache' = Drop(cache, {IF y = n THEN nextId ELSE y : y \in K})
           /\ localFiles' = Drop(localFiles, {n}) /\ reply' = reply
        \/ Throw("EIO", cache, Broken(n)) /\ (objs' = objs \/ (MayAdd(x) /\ objs' = WithObject(x) /\ nextId' = nextId + 1))
    BY <1>3, <1>4 DEF SendFile, DeviceCall, device
  <2> QED BY <1>1, <1>3, <2>1, <2>2 DEF Adds
<1>7. PICK v, w : v = ItemFor(x) /\ w = PathFor(x)
  OBVIOUS
<1>8. Below(v, call.path) /\ v \in pre.view /\ Parts(View, {v})
  BY <1>1, <1>7 DEF Below, ItemFor
<1>9. Adds(x) /\ (\A i \in DOMAIN objs : Content(i)' = Content(i)) /\ nextId \notin DOMAIN localFiles'
        => \E V : V = View' /\ Parts(V, {})
  <2>1. SUFFICES ASSUME Adds(x), \A i \in DOMAIN objs : Content(i)' = Content(i), nextId \notin DOMAIN localFiles'
                 PROVE  \E V : V = View' /\ Parts(V, {})
    OBVIOUS
  <2>2. View' = View \cup {v}
    BY <1>0, <1>7, <2>1, ViewAdds
  <2>3. PICK G : G = {v}
    OBVIOUS
  <2>4. Parts(View, G)
    BY <1>8, <2>3
  <2>5. Parts(View \cup {v}, {})
    BY <1>8, <2>3, <2>4, PartsMore
  <2> QED BY <2>2, <2>5
<1>10. Adds(x) => \A i \in DOMAIN objs : i \in DOMAIN objs' /\ objs'[i] = objs[i]
  BY <1>0, BaseFacts DEF Adds, WithObject, Put
<1>11. nextId \notin DOMAIN localFiles /\ nextId \notin DOMAIN objs
  BY <1>0, BaseFacts
<1>12. CASE Throw("EIO", cache, Broken(n)) /\ (objs' = objs \/ Adds(x))
  <2>1. todo' = <<>> /\ reply'.code # "ok" /\ localFiles' = Broken(n)
    BY <1>12 DEF Throw
  <2>2. \A i \in DOMAIN objs : Content(i)' = Content(i)
    BY <1>1, <1>10, <1>12, <2>1 DEF Content, Broken
  <2>3. nextId \notin DOMAIN localFiles'
    BY <1>1, <1>11, <2>1 DEF Broken
  <2>4. CASE objs' = objs
    <3>1. View' = View
      BY <2>2, <2>4, SameView
    <3>2. PICK V, G : V = View' /\ G = {v}
      OBVIOUS
    <3>3. Parts(V, G) /\ \A y \in G : Below(y, call.path)
      BY <1>8, <3>1, <3>2
    <3> QED BY <1>1, <2>1, <3>2, <3>3, StopsAt
  <2>5. CASE Adds(x)
    <3>1. PICK V, G : V = View' /\ Parts(V, G) /\ G = {}
      BY <1>9, <2>2, <2>3, <2>5
    <3>2. \A y \in G : Below(y, call.path)
      BY <3>1
    <3> QED BY <1>1, <2>1, <3>1, <3>2, StopsAt
  <2> QED BY <1>12, <2>4, <2>5
<1>13. CASE /\ Adds(x) /\ todo' = Renumber(u, n, nextId) /\ cache' = Drop(cache, K)
            /\ localFiles' = Drop(localFiles, {n}) /\ reply' = reply
  <2>1. PICK k, M, c, G : k = nextId /\ M = Off /\ c = cache /\ G = {}
    OBVIOUS
  <2>2. todo' = Cons(<<"copyTo", k, d, name>>, t)
    BY <1>2, <1>13, <2>1, RenumberRest
  <2>3. \A i \in DOMAIN objs : Content(i)' = Content(i)
    BY <1>1, <1>10, <1>13 DEF Content, Drop
  <2>4. PICK V : V = View' /\ Parts(V, {})
    BY <1>9, <1>11, <1>13, <2>3 DEF Drop
  <2>5. Keeps(G) /\ PathOf(k)' = w /\ k \in DOMAIN objs' /\ objs'[k] = x
    <3>1. \A m \in DOMAIN cache' : m \in DOMAIN cache \/ Live(m)
      BY <1>13 DEF Drop
    <3>2. /\ Keeps({})
          /\ \A j : j = nextId => PathOf(j)' = PathFor(x) /\ j \in DOMAIN objs' /\ objs'[j] = x
      BY <1>0, <1>13, <3>1, AddKeeps
    <3> QED BY <1>7, <2>1, <3>2
  <2>6. /\ M \subseteq Off' /\ (\A z : Image(z)' = Image(z))
        /\ \A z \in Seq(GoodSteps) : z \in Seq(GoodSteps')
        /\ \A z : Leaves(z) /\ (\A i \in G : PathOf(i) # call.path) => Leaves(z)'
    BY <1>0, <2>1, <2>5, CarriedOver
  <2>7. Tells(cache, Off)'
    <3>1. \A C, J : Tells(C, J) /\ nextId \notin DOMAIN C => Tells(C, J \cup {f})'
      BY <1>0, <1>2, <1>13, TellsAdds
    <3>2. nextId \notin DOMAIN c
      BY <1>0, <1>13, <2>1, BaseFacts DEF Adds, MayAdd
    <3>3. Tells(c, M \cup {f} \cup {f})'
      BY <1>1, <1>2, <2>1, <3>1, <3>2
    <3>4. PICK e : e = Drop(c, K)
      OBVIOUS
    <3>5. DOMAIN e = DOMAIN c \ {f} /\ \A m \in DOMAIN e : e[m] = c[m]
      BY <1>2, <3>4 DEF Drop
    <3>6. Tells(e, M)'
      BY <3>3, <3>5 DEF Tells
    <3>7. cache' = e
      BY <1>13, <2>1, <3>4
    <3> QED BY <2>6, <3>6, <3>7 DEF Tells
  <2>8. IsFolderNode(d)' /\ NodePath(d)' = NodePath(d)
    <3>1. d \in Storages \/ (d \in DOMAIN objs /\ d \notin G)
      BY <1>1, <2>1 DEF IsFolderNode
    <3>2. NodePath(d)' = NodePath(d)
      BY <2>1, <2>5, <3>1 DEF NodePath, Keeps
    <3>3. IsFolderNode(d)'
      BY <1>1, <1>10, <1>13, <3>1 DEF IsFolderNode
    <3> QED BY <3>2, <3>3
  <2>9. Goes(k, d, name)'
    <3>1. Append(NodePath(d), name)' = Image(w)
      BY <1>1, <1>7, <2>8
    <3>2. Image(PathOf(k))' = Image(w)
      BY <1>0, <2>5 DEF Image
    <3>3. Src(k)'
      BY <1>0, <1>1, <1>7, <2>5 DEF Src
    <3> QED BY <1>1, <2>8, <3>1, <3>2, <3>3 DEF Goes
  <2>10. Ends(PathOf(k), t)'
    <3>1. Ends(w, t)
      BY <1>1, <1>7
    <3> QED BY <1>0, <2>1, <2>5, <2>6, <3>1 DEF Ends
  <2>11. objs'[k].file
    BY <1>1, <2>5
  <2>12. Flushing(t)'
    <3>1. Clean(k)'
      BY <1>11, <1>13, <2>1 DEF Clean, Drop
    <3> QED BY <2>2, <2>9, <2>10, <2>11, <3>1 DEF Flushing
  <2>13. Midway(t)'
    BY <2>12 DEF Midway
  <2>14. Whole(localFiles)'
    BY <1>13 DEF Going, Whole, Drop
  <2> QED BY <1>1, <1>13, <2>4, <2>6, <2>7, <2>13, <2>14, MovesOn
<1> QED BY <1>6, <1>12, <1>13

-----------------------------------------------------------------------------
(* A folder is made anew, and found again to move the contents into it.    *)
LEMMA MakingStep ==
  ASSUME Going, ~AcceptsDuplicates, Len(call.path) > 1, Parts(View, {}), Tells(cache, Off), NEW t \in Seq(GoodSteps), Making(t)
  PROVE  RenameInv'
<1>0. /\ Base /\ Base' /\ Apart /\ Past /\ call' = call /\ pre' = pre /\ WellFormed(call)
  BY GoingFacts
<1>1. PICK n, d, name, K :
        /\ todo = Cons(<<"mkdir", d, name>>, Cons(<<"getNode", d, <<name>>, <<"destDir", n>> >>,
                       Cons(<<"remove", n, FALSE>>, Cons(<<"clearItems", K>>, t))))
        /\ Goes(n, d, name) /\ ~objs[n].file /\ Ends(PathOf(n), t)
  BY DEF Making
<1>2. PICK s, g, r, q, u, v, w :
        /\ s = <<"mkdir", d, name>> /\ g = <<"getNode", d, <<name>>, <<"destDir", n>> >> /\ r = <<"remove", n, FALSE>>
        /\ q = <<"clearItems", K>> /\ w = Cons(q, t) /\ v = Cons(r, w) /\ u = Cons(g, v)
  OBVIOUS
<1>3. PICK U : U = GoodSteps \cup {g, r, q}
  OBVIOUS
<1>4. t \in Seq(U) /\ w \in Seq(U) /\ v \in Seq(U) /\ u \in Seq(U)
  <2>1. t \in Seq(U) /\ g \in U /\ r \in U /\ q \in U
    BY <1>3, SeqMonotonic
  <2>2. w \in Seq(U)
    BY <1>2, <2>1, ConsOne
  <2>3. v \in Seq(U)
    BY <1>2, <2>1, <2>2, ConsOne
  <2>4. u \in Seq(U)
    BY <1>2, <2>1, <2>3, ConsOne
  <2> QED BY <2>1, <2>2, <2>3, <2>4
<1>5. Tail(todo) = u /\ At("mkdir") /\ Arg(2) = d /\ Arg(3) = name
  <2>1. todo = Cons(s, u)
    BY <1>1, <1>2
  <2>2. Tail(todo) = u /\ (\A a : At(a) <=> a = s[1]) /\ \A j : Arg(j) = s[j]
    BY <1>4, <2>1, StepIs
  <2>3. s[1] = "mkdir" /\ s[2] = d /\ s[3] = name
    BY <1>2
  <2> QED BY <2>2, <2>3
<1>6. Mkdir
  BY <1>5, WhichStep DEF Going
<1>7. /\ n \in DOMAIN objs /\ Src(n) /\ d \in NodeIds /\ name \in Names /\ objs[n].file = FALSE
  <2>1. objs[n].file \in BOOLEAN
    BY <1>0, <1>1, ObjectFields, BaseFacts DEF Goes, Src
  <2> QED BY <1>0, <1>1, <2>1, GoesThere DEF Goes, Off
<1>8. PICK x, c : x = NewObject(d, name, FALSE, <<>>) /\ c = Drop(cache, {d})
  OBVIOUS
<1>9. x \in Object /\ x.file = FALSE /\ x.data = <<>> /\ x.parent = FolderId(d) /\ x.storage = Head(call.new) /\ x.name = name
  <2>1. x \in Object
    BY <1>0, <1>7, <1>8, NewObjectType, EmptyIsData
  <2> QED BY <1>8, <2>1 DEF NewObject
<1>10. \/ Throw("EIO", cache, localFiles) /\ (objs' = objs \/ Adds(x))
       \/ Adds(x) /\ Goto(<<>>, c, localFiles)
  BY <1>5, <1>6, <1>8, <1>9 DEF Mkdir, DeviceCall, device, Adds
<1>11. FolderFor(x) = d /\ PathFor(x) = Image(PathOf(n)) /\ (MayAdd(x) => Fresh)
  BY <1>1, <1>9, NewThere
<1>12. ItemFor(x) = Moved(Item(n))
  <2>1. Moved(Item(n)) = [path |-> Image(PathOf(n)), file |-> objs[n].file, data |-> Content(n)]
    BY <1>0, <1>7, SourceWas
  <2>2. Content(n) = <<>>
    BY <1>0, <1>7, FolderEmpty
  <2> QED BY <1>7, <1>9, <1>11, <2>1, <2>2 DEF ItemFor
<1>13. Whole(localFiles) /\ (\A i \in DOMAIN localFiles : ~localFiles[i].dirty \/ ~pre.saved)
  BY DEF Going, Settled
<1>14. Adds(x) /\ localFiles' = localFiles => \E V : V = View' /\ Parts(V, {})
  <2>1. SUFFICES ASSUME Adds(x), localFiles' = localFiles PROVE \E V : V = View' /\ Parts(V, {})
    OBVIOUS
  <2>2. Fresh
    BY <1>11, <2>1 DEF Adds
  <2>3. (\A i \in DOMAIN objs : Content(i)' = Content(i)) /\ nextId \notin DOMAIN localFiles'
    BY <1>0, <2>1, AddsKeepContents
  <2> QED BY <1>7, <1>12, <2>1, <2>2, <2>3, ImageMade
<1>15. CASE Throw("EIO", cache, localFiles) /\ objs' = objs
  BY <1>15, Refused
<1>16. CASE Throw("EIO", cache, localFiles) /\ Adds(x)
  <2>1. todo' = <<>> /\ reply'.code # "ok" /\ localFiles' = localFiles
    BY <1>16 DEF Throw
  <2>2. PICK V, G : V = View' /\ Parts(V, G) /\ G = {}
    BY <1>14, <1>16, <2>1
  <2>3. pre.saved => Settled' /\ Whole(localFiles')
    BY <1>13, <2>1 DEF Settled
  <2> QED BY <2>1, <2>2, <2>3, StopsAt
<1>17. CASE Adds(x) /\ Goto(<<>>, c, localFiles)
  <2>1. todo' = u /\ reply' = reply /\ localFiles' = localFiles /\ cache' = c
    <3>1. <<>> \o u = u
      BY <1>4, ConsOne
    <3> QED BY <1>5, <1>17, <3>1 DEF Goto
  <2>2. PICK V : V = View' /\ Parts(V, {})
    BY <1>14, <1>17, <2>1
  <2>3. Fresh
    BY <1>11, <1>17 DEF Adds
  <2>4. Tells(c, Off) /\ nextId \notin DOMAIN c /\ d \notin DOMAIN c /\ \A m \in DOMAIN c : m \in DOMAIN cache \/ Live(m)
    <3>1. PICK M : M = Off
      OBVIOUS
    <3>2. Tells(c, M)
      BY <1>8, <3>1, TellsLess
    <3>3. nextId \notin DOMAIN cache
      BY <1>0, <1>17, BaseFacts DEF Adds, MayAdd
    <3> QED BY <1>8, <3>1, <3>2, <3>3 DEF Drop
  <2>5. PICK k, G : k = nextId /\ G = {}
    OBVIOUS
  <2>6. /\ Keeps(G) /\ Tells(cache, Off)' /\ Fresh'
        /\ PathOf(k)' = PathFor(x) /\ k \in DOMAIN objs' /\ objs'[k] = x
    <3>1. /\ Keeps({}) /\ Tells(cache, Off)' /\ Fresh'
          /\ \A j : j = nextId => PathOf(j)' = PathFor(x) /\ j \in DOMAIN objs' /\ objs'[j] = x
      BY <1>1, <1>11, <1>17, <2>1, <2>3, <2>4, MakesThere
    <3> QED BY <2>5, <3>1
  <2>7. t \in Seq(GoodSteps') /\ (Leaves(t) => Leaves(t)')
    <3>1. /\ \A z \in Seq(GoodSteps) : z \in Seq(GoodSteps')
          /\ \A z : Leaves(z) /\ (\A i \in G : PathOf(i) # call.path) => Leaves(z)'
      BY <1>0, <2>5, <2>6, CarriedOver
    <3> QED BY <2>5, <3>1
  <2>8. Goes(n, d, name)' /\ objs'[n].file = FALSE /\ PathOf(n)' = PathOf(n) /\ n \in DOMAIN objs'
    <3>1. Keeps({})
      BY <2>5, <2>6
    <3> QED BY <1>0, <1>1, <1>7, <2>7, <3>1, GoesOn
  <2>9. Copied(n, k)'
    <3>1. k \notin Storages
      <4>1. k \in ObjIds
        BY <1>17, <2>5 DEF Adds, MayAdd
      <4> QED BY <4>1, DeviceAssumption
    <3>2. PICK a, p : a = PathOf(n) /\ p = Image(a)
      OBVIOUS
    <3>3. NodePath(k)' = p /\ PathOf(n)' = a
      BY <1>11, <2>6, <2>8, <3>1, <3>2 DEF NodePath
    <3>4. Image(a)' = p
      BY <1>0, <3>2 DEF Image
    <3>5. IsPrefix(call.new, p)
      BY <1>0, <1>7, <3>2, SourceWas, ImageParts
    <3>6. IsFolderNode(k)'
      BY <1>9, <2>6 DEF IsFolderNode
    <3>7. Src(n)' /\ (~objs[n].file)' /\ IsPrefix(call.new, NodePath(k))' /\ (NodePath(k) = Image(PathOf(n)))'
      BY <1>0, <2>8, <3>3, <3>4, <3>5 DEF Goes
    <3> QED BY <3>6, <3>7 DEF Copied
  <2>10. v \in Seq(GoodSteps')
    <3>1. Tail(u) = v /\ Head(u) = g /\ u # <<>> /\ Tail(v) = w /\ Head(v) = r /\ v # <<>> /\ Head(w) = q /\ w # <<>>
      <4>1. Tail(u) = v /\ Head(u) = g /\ u # <<>>
        <5>1. v \in Seq(U)
          BY <1>4
        <5>2. Tail(Cons(g, v)) = v /\ Head(Cons(g, v)) = g /\ Cons(g, v) # <<>>
          BY <5>1, ConsOne
        <5> QED BY <1>2, <5>2
      <4>2. Tail(v) = w /\ Head(v) = r /\ v # <<>>
        <5>1. w \in Seq(U)
          BY <1>4
        <5>2. Tail(Cons(r, w)) = w /\ Head(Cons(r, w)) = r /\ Cons(r, w) # <<>>
          BY <5>1, ConsOne
        <5> QED BY <1>2, <5>2
      <4>3. Head(w) = q /\ w # <<>>
        BY <1>2, <1>4, ConsOne
      <4> QED BY <4>1, <4>2, <4>3
    <3>2. u \in Seq(TrueStep')
      BY <1>0, <2>1 DEF Base, KindsInv
    <3>3. v \in Seq(TrueStep')
      BY <3>1, <3>2, HeadTailProperties
    <3>4. r \in TrueStep' /\ w \in Seq(TrueStep')
      BY <3>1, <3>3, HeadTailProperties
    <3>5. q \in TrueStep'
      BY <3>1, <3>4, HeadTailProperties
    <3>6. Good(r)' /\ Good(q)'
      <4>1. Good(r)'
        BY <1>2, <2>6, <2>9 DEF Good
      <4>2. Good(q)'
        BY <1>2, <2>6 DEF Good
      <4> QED BY <4>1, <4>2
    <3>7. r \in GoodSteps' /\ q \in GoodSteps'
      BY <3>4, <3>5, <3>6 DEF GoodSteps
    <3>8. w \in Seq(GoodSteps')
      BY <1>2, <2>7, <3>7, ConsOne
    <3> QED BY <1>2, <3>7, <3>8, ConsOne
  <2>11. Leaves(v)'
    <3>1. CASE PathOf(n) = call.path
      <4>1. r \in Range(v)
        <5>1. Range(v) = {r} \cup Range(w)
          BY <1>2, <1>4, ConsOne
        <5> QED BY <5>1
      <4>2. n \in DOMAIN objs' /\ PathOf(n)' = call'.path /\ <<"remove", n, FALSE>> \in Range(v)
        BY <1>0, <1>2, <2>8, <3>1, <4>1
      <4> QED BY <4>2 DEF Leaves
    <3>2. CASE PathOf(n) # call.path
      <4>1. Leaves(t)'
        BY <1>1, <2>7, <3>2 DEF Ends
      <4>2. Leaves(w)'
        <5>1. Leaves(t)' => Leaves(Cons(q, t))'
          BY <1>4, LeavesOn
        <5> QED BY <1>2, <4>1, <5>1
      <4>3. Leaves(w)' => Leaves(Cons(r, w))'
        BY <1>4, LeavesOn
      <4> QED BY <1>2, <4>2, <4>3
    <3> QED BY <3>1, <3>2
  <2>12. Entering(v)'
    <3>1. todo' = Cons(<<"getNode", d, <<name>>, <<"destDir", n>> >>, v) /\ d \notin DOMAIN cache'
      BY <1>2, <2>1, <2>4
    <3> QED BY <2>6, <2>8, <2>9, <2>11, <3>1 DEF Entering
  <2>13. Midway(v)'
    BY <2>12 DEF Midway
  <2>14. Whole(localFiles)' /\ (pre.saved => Settled')
    BY <1>13, <2>1 DEF Whole, Settled
  <2> QED BY <2>1, <2>2, <2>6, <2>10, <2>13, <2>14, MovesOn
<1> QED BY <1>10, <1>15, <1>16, <1>17

LEMMA EnteringStep ==
  ASSUME Going, Len(call.path) > 1, Parts(View, {}), Tells(cache, Off), NEW t \in Seq(GoodSteps), Entering(t)
  PROVE  RenameInv'
<1>0. Base /\ Base' /\ NoTwins(objs) /\ Apart /\ call' = call /\ pre' = pre
  BY GoingFacts
<1>1. PICK n, d, name, e :
        /\ Fresh /\ todo = Cons(<<"getNode", d, <<name>>, <<"destDir", n>> >>, t)
        /\ Goes(n, d, name) /\ d \notin DOMAIN cache /\ Copied(n, e) /\ Leaves(t)
  BY DEF Entering
<1>2. PICK s, k, rest : s = <<"getNode", d, rest, k>> /\ k = <<"destDir", n>> /\ rest = <<name>>
  OBVIOUS
<1>3. Tail(todo) = t /\ At("getNode") /\ Arg(2) = d /\ Arg(3) = rest /\ Arg(4) = k
  <2>1. todo = Cons(s, t)
    BY <1>1, <1>2
  <2>2. Tail(todo) = t /\ (\A a : At(a) <=> a = s[1]) /\ \A j : Arg(j) = s[j]
    BY <2>1, StepIs
  <2>3. s[1] = "getNode" /\ s[2] = d /\ s[3] = rest /\ s[4] = k
    BY <1>2
  <2> QED BY <2>2, <2>3
<1>4. GetNode \/ ReadFails
  BY <1>3, WhichStep DEF Going
<1>5. SUFFICES ASSUME GetNode PROVE RenameInv'
  BY <1>4, ReadingFails
<1>6. rest # <<>> /\ Len(rest) = 1 /\ Head(rest) = name
  BY <1>2
<1>7. /\ objs' = objs /\ nextId' = nextId
      /\ \E r \in getItem(d) :
           \/ Throw("ENOENT", r.cache, localFiles)
           \/ \E a \in r.md.children : /\ a.name = name
                                       /\ Goto(Then(k, [id |-> a.id, file |-> a.file]), r.cache, localFiles)
  BY <1>3, <1>5, <1>6 DEF GetNode, NoDeviceChange, device
<1>8. PICK r \in getItem(d) :
           \/ Throw("ENOENT", r.cache, localFiles)
           \/ \E a \in r.md.children : /\ a.name = name
                                       /\ Goto(Then(k, [id |-> a.id, file |-> a.file]), r.cache, localFiles)
  BY <1>7
<1>9. PICK c, files, md : c = r.cache /\ files = localFiles /\ md = getMetadata(d)
  OBVIOUS
<1>10. CASE Throw("ENOENT", c, localFiles)
  BY <1>7, <1>10, Refused
<1>11. r.md = md /\ c = Put(cache, d, md)
  BY <1>1, <1>9 DEF getItem
<1>12. /\ IsFolderNode(d) /\ Live(d) /\ d \in Off /\ n \in DOMAIN objs /\ NodePath(d) \in Seq(PathElem) /\ name \in Names
       /\ Append(NodePath(d), name) = Image(PathOf(n)) /\ IsFolderNode(e) /\ NodePath(e) = Image(PathOf(n)) /\ Live(e)
  <2>1. Live(e)
    BY <1>1 DEF Copied, IsFolderNode, Live
  <2> QED BY <1>0, <1>1, <2>1, GoesThere, NodePathType DEF Goes, Copied
<1>13. Tells(c, Off) /\ \A m \in DOMAIN c : m \in DOMAIN cache \/ Live(m)
  <2>1. DOMAIN c = DOMAIN cache \cup {d} /\ \A m \in DOMAIN cache \ {d} : c[m] = cache[m]
    BY <1>11 DEF Put
  <2> QED BY <1>12, <2>1 DEF Tells
<1>14. ASSUME NEW a \in r.md.children, a.name = name, Goto(Then(k, [id |-> a.id, file |-> a.file]), c, localFiles)
       PROVE  RenameInv'
  <2>1. getMetadata(d).children =
           {[id |-> i, name |-> objs[i].name, file |-> objs[i].file] : i \in {j \in DOMAIN objs : ParentNode(j) = d}}
    BY <1>0, <1>12, FolderHolds
  <2>2. PICK i \in DOMAIN objs : ParentNode(i) = d /\ a = [id |-> i, name |-> objs[i].name, file |-> objs[i].file]
    BY <1>9, <1>11, <1>14, <2>1
  <2>3. a.id = i /\ objs[i].name = name /\ a.file = objs[i].file
    BY <1>14, <2>2
  <2>4. NodePath(i) = Append(NodePath(d), name) /\ Live(i)
    BY <1>0, <2>2, <2>3, ChildPath DEF Live
  <2>5. i = e
    BY <1>0, <1>12, <2>4, NodesUnique
  <2>6. PICK m : m = <<"moveContents", n, e>>
    OBVIOUS
  <2>7. Then(k, [id |-> a.id, file |-> a.file]) = <<m>>
    BY <1>2, <2>3, <2>5, <2>6 DEF Then
  <2>8. reply' = reply /\ localFiles' = files /\ cache' = c /\ todo' = Cons(m, t)
    <3>1. <<m>> \o t = Cons(m, t)
      BY ConsOne
    <3> QED BY <1>3, <1>9, <1>14, <2>7, <3>1 DEF Goto
  <2>9. Whole(files) /\ (\A j \in DOMAIN files : ~files[j].dirty \/ ~pre.saved) /\ \A j \in DOMAIN objs : Content(j)' = Content(j)
    BY <1>7, <1>9, <2>8 DEF Going, Settled, Content
  <2>10. /\ Keeps({}) /\ Gone' = Gone
         /\ \A z \in Seq(GoodSteps) : z \in Seq(GoodSteps') /\ (Leaves(z) => Leaves(z)')
         /\ \A z : z \in Seq(GoodSteps') /\ Midway(z)' => RenameInv'
    BY <1>7, <1>13, <2>8, <2>9, Quietly
  <2>11. Fresh' /\ Copied(n, e)'
    <3>1. PICK G : G = {}
      OBVIOUS
    <3>2. \A j, l : Copied(j, l) => Copied(j, l)'
      BY <1>0, <2>10, <3>1, CarriedOver
    <3> QED BY <1>0, <1>1, <3>2, PartsAfter
  <2>12. Good(m)'
    BY <2>6, <2>11 DEF Good
  <2>13. t \in Seq(GoodSteps') /\ Leaves(t)'
    BY <1>1, <2>10
  <2>14. Cons(m, t) \in Seq(GoodSteps')
    BY <1>0, <2>8, <2>12, <2>13, GoodAgain
  <2>15. Leaves(Cons(m, t))'
    BY <2>13, LeavesOn
  <2>16. Ready(Cons(m, t))'
    BY <2>8, <2>11, <2>15 DEF Ready
  <2> QED BY <2>10, <2>14, <2>16 DEF Midway
<1> QED BY <1>8, <1>9, <1>10, <1>14

(* A step of the move.                                                     *)
LEMMA MovingStep ==
  ASSUME Going, ~AcceptsDuplicates, Moving
  PROVE  RenameInv'
<1>1. PICK t \in Seq(GoodSteps) : (Parts(View, {}) /\ Tells(cache, Off) /\ Midway(t)) \/ Replacing(t)
  BY DEF Moving
<1>2. Len(call.path) > 1
  BY DEF Moving
<1>3. CASE Replacing(t)
  BY <1>2, <1>3, ReplacingStep
<1>4. CASE Parts(View, {}) /\ Tells(cache, Off) /\ Midway(t)
  <2>1. CASE Ready(t)
    BY <1>2, <1>4, <2>1, ReadyStep
  <2>2. CASE Arriving(t)
    BY <1>2, <1>4, <2>2, ArrivingStep
  <2>3. CASE Flushing(t)
    BY <1>2, <1>4, <2>3, FlushingStep
  <2>4. CASE Dropping(t)
    BY <1>2, <1>4, <2>4, DroppingStep
  <2>5. CASE Making(t)
    BY <1>2, <1>4, <2>5, MakingStep
  <2>6. CASE Entering(t)
    BY <1>2, <1>4, <2>6, EnteringStep
  <2> QED BY <1>4, <2>1, <2>2, <2>3, <2>4, <2>5, <2>6 DEF Midway
<1> QED BY <1>1, <1>3, <1>4

-----------------------------------------------------------------------------
(* While the paths are looked up nothing changes but the cache.            *)
LEMMA LooksOn ==
  ASSUME Going, View = pre.view, objs' = objs, nextId' = nextId, reply' = reply, localFiles' = localFiles,
         NEW c, cache' = c, Tells(c, {}),
         \E m : Live(m) /\ NodePath(m) = call.path,
         \E m : IsFolderNode(m) /\ NodePath(m) = Front(call.new),
         \/ \E dir, rest : /\ Walking(dir, rest, call.path)
                           /\ todo' = << <<"getNode", dir, rest, <<"source", call.new>> >> >>
         \/ \E dir, rest, node : /\ Walking(dir, rest, Front(call.new)) /\ FoundAt(node, call.path)
                                 /\ todo' = << <<"getNode", dir, rest, <<"newParent", node, Last(call.new)>> >> >>
         \/ \E node, d, name : node.id \in Storages /\ ~node.file /\ todo' = << <<"rename", node, d, name>> >>
  PROVE  RenameInv'
<1>0. Base' /\ Apart /\ Past /\ Apart' /\ Past' /\ call' = call /\ pre' = pre
  BY GoingFacts, NextBase DEF Going
<1>1. View' = View
  BY DEF View, Content, PathOf
<1>2. Tells(c, {})'
  BY TellsSame
<1>3. /\ \A m : Live(m)' = Live(m) /\ NodePath(m)' = NodePath(m) /\ IsFolderNode(m)' = IsFolderNode(m)
      /\ \A dir, rest, p : Walking(dir, rest, p)' = Walking(dir, rest, p)
      /\ \A node, p : FoundAt(node, p)' = FoundAt(node, p)
  BY DEF Walking, FoundAt, IsFolderNode, NodePath, PathOf, Live
<1>4. PICK p, q : p = call.path /\ q = call.new
  OBVIOUS
<1>5. call'.path = p /\ call'.new = q
  BY <1>0, <1>4
<1>6. Tells(cache, {})' /\ View' = pre'.view
  BY <1>0, <1>1, <1>2 DEF Tells
<1>7. \E m : Live(m)' /\ NodePath(m)' = call'.path
  BY <1>3, <1>4, <1>5
<1>8. \E m : IsFolderNode(m)' /\ NodePath(m)' = Front(call'.new)
  BY <1>3, <1>4, <1>5
<1>9. \/ \E dir, rest : /\ Walking(dir, rest, call.path)'
                        /\ todo' = << <<"getNode", dir, rest, <<"source", call'.new>> >> >>
      \/ \E dir, rest, node : /\ Walking(dir, rest, Front(call.new))' /\ FoundAt(node, call.path)'
                              /\ todo' = << <<"getNode", dir, rest, <<"newParent", node, Last(call'.new)>> >> >>
      \/ \E node, d, name : node.id \in Storages /\ ~node.file /\ todo' = << <<"rename", node, d, name>> >>
  <2>1. /\ \A dir, rest : Walking(dir, rest, call.path)' = Walking(dir, rest, p)
        /\ \A dir, rest : Walking(dir, rest, Front(call.new))' = Walking(dir, rest, Front(q))
        /\ \A node : FoundAt(node, call.path)' = FoundAt(node, p)
    BY <1>3, <1>5 DEF Walking, FoundAt, IsFolderNode, NodePath, PathOf, Live
  <2> QED BY <1>4, <1>5, <2>1
<1>10. Looking'
  BY <1>6, <1>7, <1>8, <1>9 DEF Looking
<1>11. Whole(localFiles)' /\ (pre.saved => Settled')
  BY DEF Going, Settled, Whole
<1>12. pre.saved => Kept'
  <2> SUFFICES ASSUME pre.saved PROVE Kept'
    OBVIOUS
  <2>1. PICK V : V = View'
    OBVIOUS
  <2>2. Parts(V, {})
    BY <1>1, <2>1 DEF Parts
  <2>3. Whole(localFiles')
    BY DEF Going
  <2> QED BY <1>0, <1>11, <2>1, <2>2, <2>3, KeptAfter
<1> QED BY <1>0, <1>10, <1>11, <1>12 DEF RenameInv, Going

LEMMA Walks ==
  ASSUME Going, Tells(cache, {}), NEW dir, NEW rest, NEW k, NEW p, Walking(dir, rest, p),
         todo = << <<"getNode", dir, rest, k>> >>
  PROVE  \/ ReadFails
         \/ objs' = objs /\ \E c : Tells(c, {}) /\ Throw("ENOENT", c, localFiles)
         \/ /\ objs' = objs /\ nextId' = nextId /\ reply' = reply /\ localFiles' = localFiles
            /\ \E c : cache' = c /\ Tells(c, {}) /\ \A n \in DOMAIN c : n \in DOMAIN cache \/ Live(n)
            /\ \/ \E d, t : Walking(d, t, p) /\ todo' = << <<"getNode", d, t, k>> >>
               \/ \E node : FoundAt(node, p) /\ todo' = Then(k, node) \o <<>>
<1>0. Base /\ NoTwins(objs)
  BY GoingFacts
<1>1. PICK s : s = <<"getNode", dir, rest, k>>
  OBVIOUS
<1>2. Head(todo) = s /\ Tail(todo) = <<>> /\ todo # <<>>
  BY <1>1, ShortConcat
<1>3. At("getNode") /\ Arg(2) = dir /\ Arg(3) = rest /\ Arg(4) = k
  BY <1>1, <1>2 DEF At, Arg
<1>4. Live(dir) /\ IsFolderNode(dir)
  BY DEF Walking, IsFolderNode, Live
<1>5. GetNode \/ ReadFails
  BY <1>3, WhichStep DEF Going
<1>6. SUFFICES ASSUME GetNode
               PROVE  \/ objs' = objs /\ \E c : Tells(c, {}) /\ Throw("ENOENT", c, localFiles)
                      \/ /\ objs' = objs /\ nextId' = nextId /\ reply' = reply /\ localFiles' = localFiles
                         /\ \E c : cache' = c /\ Tells(c, {}) /\ \A n \in DOMAIN c : n \in DOMAIN cache \/ Live(n)
                         /\ \/ \E d, t : Walking(d, t, p) /\ todo' = << <<"getNode", d, t, k>> >>
                            \/ \E node : FoundAt(node, p) /\ todo' = Then(k, node) \o <<>>
  BY <1>5
<1>7. objs' = objs /\ nextId' = nextId
  BY <1>6 DEF GetNode, NoDeviceChange, device
<1>8. CASE rest = <<>> /\ Goto(Then(k, [id |-> dir, file |-> FALSE]), cache, localFiles)
  <2>1. dir \in Storages
    <3>1. Head(todo) \in TrueStep
      BY <1>0, <1>3, TrueArguments
    <3> QED BY <1>1, <1>2, <1>8, <3>1 DEF TrueStep
  <2>2. PICK node, c : node = [id |-> dir, file |-> FALSE] /\ c = cache
    OBVIOUS
  <2>3. FoundAt(node, p)
    BY <1>0, <1>8, <2>1, <2>2, WalkEnds
  <2> QED BY <1>2, <1>7, <1>8, <2>2, <2>3 DEF Goto
<1>9. CASE rest # <<>> /\ \E r \in getItem(dir) :
                 LET found == {e \in r.md.children : e.name = Head(rest)}
                 IN  \/ found = {} /\ Throw("ENOENT", r.cache, localFiles)
                     \/ \E e \in found :
                          Goto(IF e.file \/ Len(rest) = 1
                               THEN Then(k, [id |-> e.id, file |-> e.file])
                               ELSE << <<"getNode", e.id, Tail(rest), k>> >>,
                               r.cache, localFiles)
  <2>1. PICK r \in getItem(dir) :
                     \/ Throw("ENOENT", r.cache, localFiles)
                     \/ \E e \in r.md.children : e.name = Head(rest) /\
                          Goto(IF e.file \/ Len(rest) = 1
                               THEN Then(k, [id |-> e.id, file |-> e.file])
                               ELSE << <<"getNode", e.id, Tail(rest), k>> >>,
                               r.cache, localFiles)
    BY <1>9
  <2>2. PICK c : c = r.cache
    OBVIOUS
  <2>3. r.md = getMetadata(dir) /\ Tells(c, {}) /\ \A n \in DOMAIN c : n \in DOMAIN cache \/ Live(n)
    <3>1. PICK M : M = {}
      OBVIOUS
    <3>2. r.md = getMetadata(dir) /\ Tells(r.cache, M) /\ DOMAIN r.cache = DOMAIN cache \cup {dir}
      BY <1>4, <3>1, ItemTells
    <3> QED BY <1>4, <2>2, <3>1, <3>2
  <2>4. ASSUME NEW e \in getMetadata(dir).children, e.name = Head(rest),
               Goto(IF e.file \/ Len(rest) = 1
                               THEN Then(k, [id |-> e.id, file |-> e.file])
                               ELSE << <<"getNode", e.id, Tail(rest), k>> >>,
                               c, localFiles)
        PROVE  /\ reply' = reply /\ localFiles' = localFiles /\ cache' = c
               /\ \/ \E d, t : Walking(d, t, p) /\ todo' = << <<"getNode", d, t, k>> >>
                  \/ \E node : FoundAt(node, p) /\ todo' = Then(k, node) \o <<>>
    <3>1. /\ Walking(e.id, Tail(rest), p) \/ e.file
          /\ e.file \/ Len(rest) = 1 => FoundAt([id |-> e.id, file |-> e.file], p)
      BY <1>0, <1>9, <2>4, WalkOn
    <3>2. CASE e.file \/ Len(rest) = 1
      <4>1. PICK node : node = [id |-> e.id, file |-> e.file]
        OBVIOUS
      <4> QED BY <1>2, <2>4, <3>1, <3>2, <4>1 DEF Goto
    <3>3. CASE ~(e.file \/ Len(rest) = 1)
      <4>1. PICK d, t, w : d = e.id /\ t = Tail(rest) /\ w = <<"getNode", e.id, Tail(rest), k>>
        OBVIOUS
      <4>2. Walking(d, t, p)
        BY <3>1, <3>3, <4>1
      <4>3. /\ todo' = <<w>> \o <<>> /\ cache' = c
            /\ localFiles' = localFiles /\ reply' = reply
        BY <1>2, <2>4, <3>3, <4>1 DEF Goto
      <4>4. todo' = <<w>>
        BY <4>3, ShortConcat
      <4> QED BY <4>1, <4>2, <4>3, <4>4
    <3> QED BY <3>2, <3>3
  <2> QED BY <1>7, <2>1, <2>2, <2>3, <2>4
<1> QED BY <1>3, <1>6, <1>8, <1>9 DEF GetNode

LEMMA WalkStep ==
  ASSUME Going, View = pre.view, Tells(cache, {}), NEW dir, NEW rest, NEW k, NEW p, Walking(dir, rest, p),
         todo = << <<"getNode", dir, rest, k>> >>
  PROVE  \/ RenameInv'
         \/ /\ objs' = objs /\ nextId' = nextId /\ reply' = reply /\ localFiles' = localFiles
            /\ \E c : cache' = c /\ Tells(c, {})
            /\ \/ \E d, t : Walking(d, t, p) /\ todo' = << <<"getNode", d, t, k>> >>
               \/ \E node : FoundAt(node, p) /\ todo' = Then(k, node) \o <<>>
<1>0. Parts(View, {})
  BY DEF Parts
<1>1. CASE ReadFails
  BY <1>0, <1>1, ReadingFails
<1>2. ASSUME objs' = objs, NEW c, Throw("ENOENT", c, localFiles) PROVE RenameInv'
  BY <1>0, <1>2, Refused
<1> QED BY <1>1, <1>2, Walks

(* The nodes found are those the two paths lead to.                        *)
LEMMA SourceFound ==
  ASSUME Base, NoTwins(objs), Apart, NEW m, Live(m), NodePath(m) = call.path, NEW node, FoundAt(node, call.path)
  PROVE  /\ node.id \in Storages => ~node.file
         /\ node.id \notin Storages => /\ Src(node.id) /\ PathOf(node.id) = call.path
                                       /\ node.file = objs[node.id].file /\ Len(call.path) > 1
<1>1. PICK p : p = call.path
  OBVIOUS
<1>2. p \in Seq(PathElem)
  BY <1>1 DEF Apart
<1>3. /\ \A i \in DOMAIN objs : PathOf(i) = p => node.id = i
      /\ Len(p) = 1 => ~node.file /\ node.id \in Storages
  BY <1>1, <1>2, FoundIs
<1>4. node.file = (node.id \in DOMAIN objs /\ objs[node.id].file) /\ Live(node.id)
  BY DEF FoundAt
<1>5. node.id \in Storages => ~node.file
  BY <1>4, NodePathType DEF Live
<1>6. ASSUME node.id \notin Storages
      PROVE  Src(node.id) /\ PathOf(node.id) = call.path /\ node.file = objs[node.id].file /\ Len(call.path) > 1
  <2>1. m \notin Storages
    <3> SUFFICES ASSUME m \in Storages PROVE FALSE
      OBVIOUS
    <3>1. p = <<m>>
      BY <1>1 DEF NodePath
    <3>2. Len(p) = 1
      BY <3>1
    <3> QED BY <1>3, <1>6, <3>2
  <2>2. m \in DOMAIN objs /\ PathOf(m) = p
    BY <1>1, <2>1 DEF Live, NodePath
  <2>3. node.id = m
    BY <1>3, <2>2
  <2>4. objs[m].file \in BOOLEAN
    BY <2>2, BaseFacts, ObjectFields
  <2>5. Src(m) /\ Len(p) > 1
    <3>1. IsStore(objs)
      BY BaseFacts
    <3>2. Len(PathOf(m)) > 1
      BY <2>2, <3>1, PathLen DEF PathOf
    <3>3. IsPrefix(p, p)
      BY <1>2, PrefixSelf
    <3> QED BY <1>1, <2>2, <3>2, <3>3 DEF Src
  <2> QED BY <1>1, <1>4, <2>2, <2>3, <2>4, <2>5
<1> QED BY <1>5, <1>6

LEMMA FolderFound ==
  ASSUME Base, NoTwins(objs), NEW p \in Seq(PathElem), NEW m, IsFolderNode(m), NodePath(m) = p, NEW node, FoundAt(node, p)
  PROVE  IsFolderNode(node.id) /\ NodePath(node.id) = p
<1>1. /\ \A i \in DOMAIN objs : PathOf(i) = p => node.id = i
      /\ Len(p) = 1 => ~node.file /\ node.id \in Storages
      /\ node.file => node.id \in DOMAIN objs /\ objs[node.id].file
      /\ ~node.file => IsFolderNode(node.id) /\ NodePath(node.id) = p
  BY FoundIs
<1> SUFFICES ASSUME node.file PROVE FALSE
  BY <1>1
<1>2. CASE m \in Storages
  <2>1. p = <<m>>
    BY <1>2 DEF NodePath
  <2>2. Len(p) = 1
    BY <2>1
  <2> QED BY <1>1, <2>2
<1>3. CASE m \notin Storages
  <2>1. m \in DOMAIN objs /\ ~objs[m].file /\ PathOf(m) = p
    BY <1>3 DEF IsFolderNode, NodePath
  <2> QED BY <1>1, <2>1
<1> QED BY <1>2, <1>3

(* The source and the folder it goes to are found: it is renamed.          *)
LEMMA RenamesFound ==
  ASSUME Going, View = pre.view, objs' = objs, nextId' = nextId, reply' = reply, localFiles' = localFiles,
         NEW c, cache' = c, Tells(c, {}), NEW node, NEW d, NEW name, todo' = << <<"rename", node, d, name>> >>,
         node.id \notin Storages, Src(node.id), PathOf(node.id) = call.path, node.file = objs[node.id].file,
         Len(call.path) > 1, IsFolderNode(d), NodePath(d) = Front(call.new), name = Last(call.new)
  PROVE  RenameInv'
<1>0. Base /\ Base' /\ Apart /\ Past /\ Apart' /\ call' = call /\ pre' = pre /\ call.new \in LongPath
  BY GoingFacts
<1>1. PICK p, q : p = call.path /\ q = call.new
  OBVIOUS
<1>2. call' = call /\ call'.path = p /\ call'.new = q
  BY <1>0, <1>1
<1>3. q \in Seq(PathElem) /\ Len(q) > 1 /\ name \in Names
  BY <1>0, <1>1, LongPathParts DEF Apart
<1>4. Append(NodePath(d), name) = q
  BY <1>1, <1>3, FrontLast
<1>5. Image(p) = q
  BY <1>0, <1>1, ImageOfSource
<1>6. Goes(node.id, d, name)
  BY <1>1, <1>3, <1>4, <1>5 DEF Goes
<1>7. Goes(node.id, d, name)'
  BY <1>0, <1>6 DEF Goes, Src, IsFolderNode, NodePath, PathOf, Image
<1>8. PathOf(node.id)' = p
  BY <1>1 DEF PathOf
<1>9. Ends(PathOf(node.id), <<>>)'
  BY <1>2, <1>8 DEF Ends
<1>10. PICK s : s = <<"rename", node, d, name>>
  OBVIOUS
<1>11. <<>> \in Seq(GoodSteps') /\ todo' = Cons(s, <<>>)
  <2>1. <<>> \in Seq({})
    OBVIOUS
  <2>2. <<s>> \o <<>> = Cons(s, <<>>) /\ <<s>> \o <<>> = <<s>>
    BY <2>1, ConsOne, ShortConcat
  <2> QED BY <1>10, <2>2
<1>12. Midway(<<>>)'
  BY <1>7, <1>9, <1>10, <1>11 DEF Midway, Arriving
<1>13. View' = View
  BY DEF View, Content, PathOf
<1>14. PICK V : V = View'
  OBVIOUS
<1>15. Parts(V, {})
  BY <1>13, <1>14 DEF Parts
<1>16. Tells(cache, Off)'
  <2>1. PICK K : K = Off'
    OBVIOUS
  <2>2. Tells(c, K)
    BY TellsLess
  <2>3. Tells(c, K)'
    BY <2>2, TellsSame
  <2> QED BY <2>1, <2>3 DEF Tells
<1>17. Whole(localFiles)' /\ (pre.saved => Settled')
  BY DEF Going, Settled, Whole
<1> QED BY <1>11, <1>12, <1>14, <1>15, <1>16, <1>17, MovesOn

LEMMA LookingStep ==
  ASSUME Going, Looking
  PROVE  RenameInv'
<1>0. Base /\ NoTwins(objs) /\ Apart /\ call.new \in LongPath /\ Parts(View, {})
  BY GoingFacts DEF Looking, Parts
<1>1. PICK m : Live(m) /\ NodePath(m) = call.path
  BY DEF Looking
<1>2. PICK f : IsFolderNode(f) /\ NodePath(f) = Front(call.new)
  BY DEF Looking
<1>3. Tells(cache, {}) /\ View = pre.view
  BY DEF Looking
<1>4. PICK p, q : p = call.path /\ q = call.new
  OBVIOUS
<1>5. Front(q) \in Path /\ Front(q) # <<>> /\ Front(q) \in Seq(PathElem)
  BY <1>0, <1>4, LongPathParts DEF Path, PathElem
<1>6. ASSUME NEW dir, NEW rest, Walking(dir, rest, p), todo = << <<"getNode", dir, rest, <<"source", q>> >> >>
      PROVE  RenameInv'
  <2>1. PICK k : k = <<"source", q>>
    OBVIOUS
  <2>2. SUFFICES ASSUME objs' = objs, nextId' = nextId, reply' = reply, localFiles' = localFiles,
                        NEW c, cache' = c, Tells(c, {}),
                        \/ \E d, t : Walking(d, t, p) /\ todo' = << <<"getNode", d, t, k>> >>
                        \/ \E node : FoundAt(node, p) /\ todo' = Then(k, node) \o <<>>
                 PROVE  RenameInv'
    BY <1>3, <1>6, <2>1, WalkStep
  <2>3. CASE \E d, t : Walking(d, t, p) /\ todo' = << <<"getNode", d, t, k>> >>
    BY <1>1, <1>2, <1>3, <1>4, <2>1, <2>2, <2>3, LooksOn
  <2>4. ASSUME NEW node, FoundAt(node, p), todo' = Then(k, node) \o <<>> PROVE RenameInv'
    <3>1. PICK d, t, w : d = Head(Front(q)) /\ t = Tail(Front(q)) /\ w = <<"getNode", d, t, <<"newParent", node, Last(q)>> >>
      OBVIOUS
    <3>2. Walking(d, t, Front(q))
      BY <1>0, <1>5, <3>1, WalkStart
    <3>3. Then(k, node) = <<w>>
      BY <2>1, <3>1 DEF Then, Lookup
    <3>4. todo' = <<w>>
      BY <2>4, <3>3, ShortConcat
    <3> QED BY <1>1, <1>2, <1>3, <1>4, <2>2, <2>4, <3>1, <3>2, <3>4, LooksOn
  <2> QED BY <2>2, <2>3, <2>4
<1>7. ASSUME NEW dir, NEW rest, NEW node, Walking(dir, rest, Front(q)), FoundAt(node, p),
             todo = << <<"getNode", dir, rest, <<"newParent", node, Last(q)>> >> >>
      PROVE  RenameInv'
  <2>1. PICK k, r : k = <<"newParent", node, Last(q)>> /\ r = Front(q)
    OBVIOUS
  <2>2. SUFFICES ASSUME objs' = objs, nextId' = nextId, reply' = reply, localFiles' = localFiles,
                        NEW c, cache' = c, Tells(c, {}),
                        \/ \E d, t : Walking(d, t, r) /\ todo' = << <<"getNode", d, t, k>> >>
                        \/ \E to : FoundAt(to, r) /\ todo' = Then(k, to) \o <<>>
                 PROVE  RenameInv'
    <3>1. Walking(dir, rest, r) /\ todo = << <<"getNode", dir, rest, k>> >>
      BY <1>7, <2>1
    <3> QED BY <1>3, <3>1, WalkStep
  <2>3. CASE \E d, t : Walking(d, t, r) /\ todo' = << <<"getNode", d, t, k>> >>
    BY <1>1, <1>2, <1>3, <1>4, <1>7, <2>1, <2>2, <2>3, LooksOn
  <2>4. ASSUME NEW to, FoundAt(to, r), todo' = Then(k, to) \o <<>> PROVE RenameInv'
    <3>1. PICK d, w, name : d = to.id /\ name = Last(q) /\ w = <<"rename", node, d, name>>
      OBVIOUS
    <3>2. Then(k, to) = <<w>>
      BY <2>1, <3>1 DEF Then
    <3>3. todo' = <<w>>
      BY <2>4, <3>2, ShortConcat
    <3>4. /\ node.id \in Storages => ~node.file
          /\ node.id \notin Storages => /\ Src(node.id) /\ PathOf(node.id) = call.path
                                        /\ node.file = objs[node.id].file /\ Len(call.path) > 1
      BY <1>0, <1>1, <1>4, <1>7, SourceFound
    <3>5. IsFolderNode(d) /\ NodePath(d) = Front(call.new)
      BY <1>0, <1>2, <1>4, <1>5, <2>1, <2>4, <3>1, FolderFound
    <3>6. CASE node.id \in Storages
      BY <1>1, <1>2, <1>3, <2>2, <3>1, <3>3, <3>4, <3>6, LooksOn
    <3>7. CASE node.id \notin Storages
      BY <1>3, <1>4, <2>2, <3>1, <3>3, <3>4, <3>5, <3>7, RenamesFound
    <3> QED BY <3>6, <3>7
  <2> QED BY <2>2, <2>3, <2>4
<1>8. ASSUME NEW node, NEW d, NEW name, node.id \in Storages, ~node.file, todo = << <<"rename", node, d, name>> >>
      PROVE  RenameInv'
  <2>1. PICK s : s = <<"rename", node, d, name>>
    OBVIOUS
  <2>2. Head(todo) = s /\ todo # <<>>
    BY <1>8, <2>1, ShortConcat
  <2>3. At("rename") /\ Arg(2) = node
    BY <2>1, <2>2 DEF At, Arg
  <2>4. RenameFile \/ RenameFolder \/ Refuse \/ ReadFails
    BY <2>3, WhichStep DEF Going
  <2>5. ~RenameFile /\ ~RenameFolder
    BY <1>8, <2>3 DEF RenameFile, RenameFolder
  <2>6. CASE ReadFails
    BY <1>0, <2>6, ReadingFails
  <2>7. CASE Refuse
    <3>1. objs' = objs /\ Throw("EROFS", cache, localFiles)
      BY <2>2, <2>3, <2>7 DEF Refuse, At, NoDeviceChange, device
    <3>2. PICK c : c = cache
      OBVIOUS
    <3> QED BY <1>0, <3>1, <3>2, Refused
  <2> QED BY <2>4, <2>5, <2>6, <2>7
<1> QED BY <1>4, <1>6, <1>7, <1>8 DEF Looking

-----------------------------------------------------------------------------
(* A rename from its beginning to its end.                                 *)
LEMMA ViewFinite == ASSUME Base PROVE IsFiniteSet(View)
<1>1. /\ DOMAIN objs \subseteq ObjIds
      /\ MaxId \in Nat
  BY BaseFacts, DeviceAssumption DEF IsStore, IsMap
<1>2. IsFiniteSet(1 .. MaxId)
  BY <1>1, FS_Interval
<1>3. IsFiniteSet(DOMAIN objs)
  BY <1>1, <1>2, FS_Subset DEF ObjIds
<1>4. PICK f : f = [i \in DOMAIN objs |-> Item(i)]
  OBVIOUS
<1>5. f \in Surjection(DOMAIN objs, View)
  BY <1>4, ViewItems DEF Surjection
<1> QED BY <1>3, <1>5, FS_Surjection

(* A rename begins.                                                        *)
LEMMA RenameBegun ==
  ASSUME Base, ReplyInv, call.op = "none", NoTwins(objs), NEW p \in Path, p # <<>>, NEW q \in Path, Len(q) > 1,
         ~IsPrefix(p, q), ~IsPrefix(q, p), IsFolder(Front(q)), ~Absent(p),
         NEW off, NEW byte, NEW h, Begin("rename", p, q, off, byte, h)
  PROVE  RenameInv'
<1> DEFINE c == [op |-> "rename", path |-> p, new |-> q, off |-> off, byte |-> byte, h |-> h]
<1>1. /\ call' = c /\ todo' = Handler(c)
      /\ pre' = [view |-> View, coherent |-> Coherent, faults |-> faults,
                 saved |-> \A i \in DOMAIN localFiles : ~localFiles[i].dirty, owned |-> Owned]
      /\ objs' = objs /\ nextId' = nextId /\ cache' = cache /\ localFiles' = localFiles /\ reply' = reply
  BY DEF Begin, device
<1>2. c.op = "rename" /\ c.path = p /\ c.new = q
  OBVIOUS
<1> HIDE DEF c
<1>3. /\ call'.op = "rename" /\ call'.path = p /\ call'.new = q /\ pre'.view = View /\ pre'.coherent = Coherent
      /\ pre'.saved = \A i \in DOMAIN localFiles : ~localFiles[i].dirty
  BY <1>1, <1>2
<1> SUFFICES ASSUME Coherent PROVE RenameInv'
  BY <1>3 DEF RenameInv
<1>4. Tells(cache, {}) /\ Whole(localFiles) /\ IsStore(objs)
  BY CoherentIs, BaseFacts
<1>5. p \in Seq(PathElem) /\ q \in Seq(PathElem) /\ Head(p) \in Storages
      /\ Front(q) \in Path /\ Front(q) # <<>> /\ Front(q) \in Seq(PathElem) /\ Head(Front(q)) \in Storages
  <2>1. q \in LongPath
    BY DEF LongPath
  <2>2. Front(q) \in Path /\ Front(q) # <<>>
    BY <2>1, LongPathParts
  <2> QED BY <2>2, PathParts DEF Path, PathElem
<1>6. Apart'
  BY <1>3, <1>5 DEF Apart
<1>7. View' = View
  BY <1>1 DEF View, Content, PathOf
<1>8. Past'
  <2>1. ASSUME NEW v \in View PROVE v.path \in Seq(PathElem)
    <3>1. PICK i \in DOMAIN objs : v = Item(i)
      BY ViewItems
    <3> QED BY <1>4, <3>1, PathLen DEF Item, PathOf
  <2>2. ASSUME NEW v \in View, NEW w \in View, v.path = w.path PROVE v = w
    <3>1. PICK i \in DOMAIN objs : v = Item(i)
      BY ViewItems
    <3>2. PICK j \in DOMAIN objs : w = Item(j)
      BY ViewItems
    <3>3. PathIn(objs, i) = PathIn(objs, j)
      BY <2>2, <3>1, <3>2 DEF Item, PathOf
    <3>4. i = j
      BY <1>4, <3>3, PathsUnique
    <3> QED BY <3>1, <3>2, <3>4
  <2>3. IsFiniteSet(View)
    BY ViewFinite
  <2> QED BY <1>3, <2>1, <2>2, <2>3 DEF Past
<1>9. pre'.saved => Kept'
  <2> SUFFICES ASSUME pre'.saved PROVE Kept'
    OBVIOUS
  <2>1. \A i \in DOMAIN localFiles : ~localFiles[i].dirty /\ ~localFiles[i].broken
    BY <1>3, <1>4 DEF Whole
  <2>2. CleanCopiesCurrent
    BY DEF Base, CopiesInv
  <2>3. \A i \in DOMAIN objs : Content(i) = objs[i].data
    BY <2>1, <2>2 DEF Content, CleanCopiesCurrent
  <2>4. ASSUME NEW v \in View, v.file
        PROVE  \E i \in DOMAIN objs : objs[i].file /\ objs[i].data = v.data /\ PathOf(i) = v.path
    <3>1. PICK i \in DOMAIN objs : v = Item(i)
      BY ViewItems
    <3>2. v.file = objs[i].file /\ v.data = Content(i) /\ v.path = PathOf(i)
      BY <3>1 DEF Item
    <3> QED BY <2>3, <2>4, <3>2
  <2>5. \A i : PathOf(i)' = PathOf(i)
    BY <1>1 DEF PathOf
  <2>6. \A v \in pre'.view : v.file =>
          \E i \in DOMAIN objs' : objs'[i].file /\ objs'[i].data = v.data /\ PathOf(i)' = v.path
    BY <1>1, <1>3, <2>4, <2>5
  <2> QED BY <2>6 DEF Kept
<1>10. Whole(localFiles)' /\ (pre'.saved => Settled') /\ reply'.code = "ok"
  BY <1>1, <1>3, <1>4 DEF Whole, Settled, ReplyInv, Okay
<1>11. Looking'
  <2>1. Tells(cache, {})'
    <3>1. PICK d : d = cache
      OBVIOUS
    <3>2. Tells(d, {})'
      BY <1>1, <1>4, <3>1, TellsSame
    <3> QED BY <1>1, <3>1, <3>2 DEF Tells
  <2>2. PICK m : Live(m) /\ NodePath(m) = p
    <3>1. Seen(p) = {node \in Node : IsNode(node) /\ NodePath(node.id) = p}
      BY <1>4, <1>5, SeenNodes
    <3> QED BY <3>1 DEF Absent, IsNode
  <2>3. PICK f : IsFolderNode(f) /\ NodePath(f) = Front(q)
    <3>1. Seen(Front(q)) = {node \in Node : IsNode(node) /\ NodePath(node.id) = Front(q)}
      BY <1>4, <1>5, SeenNodes
    <3>2. PICK node \in Seen(Front(q)) : ~node.file
      BY DEF IsFolder
    <3>3. IsNode(node) /\ NodePath(node.id) = Front(q)
      BY <3>1, <3>2
    <3>4. IsFolderNode(node.id)
      BY <3>2, <3>3 DEF IsNode, IsFolderNode, Live
    <3> QED BY <3>3, <3>4
  <2>4. Live(m)' /\ NodePath(m)' = p /\ IsFolderNode(f)' /\ NodePath(f)' = Front(q)
    BY <1>1, <2>2, <2>3 DEF Live, NodePath, IsFolderNode, PathOf
  <2>5. PICK d, r : d = Head(p) /\ r = Tail(p)
    OBVIOUS
  <2>6. Walking(d, r, p)
    BY <2>5, WalkStart
  <2>7. Walking(d, r, call.path)'
    BY <1>1, <1>3, <2>6 DEF Walking, IsFolderNode, NodePath, PathOf
  <2>8. todo' = << <<"getNode", d, r, <<"source", call'.new>> >> >>
    BY <1>1, <1>2, <1>3, <2>5 DEF Handler, Lookup
  <2>9. View' = pre'.view /\ NodePath(m)' = call'.path /\ NodePath(f)' = Front(call'.new)
    BY <1>3, <1>7, <2>4
  <2> QED BY <2>1, <2>4, <2>7, <2>8, <2>9 DEF Looking
<1> QED BY <1>6, <1>8, <1>9, <1>10, <1>11 DEF RenameInv

LEMMA RenameKernel ==
  ASSUME Base, ReplyInv, NoTwins(objs), call.op = "none", Kernel
  PROVE  RenameInv'
<1>0. \A p \in Paths : p \in Path /\ p # <<>>
  BY PathsType
<1>1. SUFFICES ASSUME call'.op = "rename" PROVE RenameInv'
  BY DEF RenameInv
<1>2. \E p, q \in Paths :
          /\ Len(q) > 1 /\ ~IsPrefix(p, q) /\ ~IsPrefix(q, p)
          /\ IsFolder(Front(q)) /\ ~Absent(p)
          /\ Begin("rename", p, q, 0, 0, call.h)
  <2>1. \A op, path, new, off, byte, h : Begin(op, path, new, off, byte, h) => op = "rename"
    BY <1>1 DEF Begin
  <2> QED BY <2>1 DEF Kernel
<1> QED BY <1>0, <1>2, RenameBegun

LEMMA RenameStands ==
  ASSUME RenameInv, UNCHANGED vars
  PROVE  RenameInv'
<1>1. /\ objs' = objs /\ nextId' = nextId /\ cache' = cache /\ localFiles' = localFiles /\ todo' = todo
      /\ reply' = reply /\ call' = call /\ pre' = pre
  BY DEF vars, device, process
<1>2. View' = View /\ (\A K : Tells(cache, K)' = Tells(cache, K))
  BY <1>1 DEF View, Content, PathOf, Tells, Live, getMetadata, GetFolderContents, Inside
<1>3. /\ \A dir, rest, p : Walking(dir, rest, p)' = Walking(dir, rest, p)
      /\ \A node, p : FoundAt(node, p)' = FoundAt(node, p)
      /\ \A i : PathOf(i)' = PathOf(i) /\ ParentNode(i)' = ParentNode(i) /\ NodePath(i)' = NodePath(i)
                /\ IsFolderNode(i)' = IsFolderNode(i) /\ Live(i)' = Live(i) /\ Item(i)' = Item(i)
      /\ \A x : PathFor(x)' = PathFor(x) /\ ItemFor(x)' = ItemFor(x) /\ FolderFor(x)' = FolderFor(x)
  BY <1>1 DEF Walking, FoundAt, IsFolderNode, NodePath, PathOf, ParentNode, PathFor, ItemFor, FolderFor, Live, Item, Content
<1>4. /\ Apart' = Apart /\ Past' = Past /\ Fresh' = Fresh /\ (\A s : Image(s)' = Image(s))
      /\ (\A V, G : Parts(V, G)' = Parts(V, G)) /\ (\A v : Moved(v)' = Moved(v))
      /\ (\A V : Elsewhere(V)' = Elsewhere(V)) /\ (\A v : Below(v, call.path)' = Below(v, call.path))
  BY <1>1, PartsAfter DEF Apart, Past, Moved, Image, Below
<1>5. Kept' = Kept /\ Whole(localFiles)' = Whole(localFiles) /\ Settled' = Settled
  BY <1>1, <1>3, <1>4 DEF Kept, Whole, Settled
<1>6. Looking' = Looking
  BY <1>1, <1>2, <1>3 DEF Looking
<1>7. /\ \A n : Src(n)' = Src(n)
      /\ \A n, d : Copied(n, d)' = Copied(n, d)
      /\ \A n, d, name : Goes(n, d, name)' = Goes(n, d, name)
      /\ \A t : Leaves(t)' = Leaves(t) /\ \A s : Ends(s, t)' = Ends(s, t)
      /\ Gone' = Gone /\ Off' = Off
  BY <1>1, <1>3, <1>4 DEF Src, Copied, Goes, Leaves, Ends, Gone, Off
<1>8. GoodSteps' = GoodSteps
  <2>1. TrueStep' = TrueStep
    BY <1>1 DEF TrueStep, Kind
  <2>2. \A s : Good(s)' = Good(s)
    BY <1>4, <1>7 DEF Good
  <2> QED BY <2>1, <2>2 DEF GoodSteps
<1>9. \A t : Ready(t)' = Ready(t) /\ Arriving(t)' = Arriving(t) /\ Entering(t)' = Entering(t)
  BY <1>1, <1>3, <1>4, <1>7 DEF Ready, Arriving, Entering
<1>10. \A t : Flushing(t)' = Flushing(t) /\ Making(t)' = Making(t)
  <2>1. \A t : Flushing(t)' = Flushing(t)
    <3>1. \A n : Clean(n)' = Clean(n)
      BY <1>1 DEF Clean
    <3> QED BY <1>1, <1>3, <1>7, <3>1 DEF Flushing
  <2>2. \A t : Making(t)' = Making(t)
    BY <1>1, <1>3, <1>7 DEF Making
  <2> QED BY <2>1, <2>2
<1>11. \A t : Dropping(t)' = Dropping(t)
  BY <1>1, <1>2, <1>3, <1>4, <1>7 DEF Dropping, Clean
<1>12. \A t : Replacing(t)' = Replacing(t)
  <2>1. \A x : Tells(cache, Off \cup {FolderFor(x)})' = Tells(cache, Off \cup {FolderFor(x)})
    BY <1>1, <1>3, <1>7 DEF Tells, Live, getMetadata, GetFolderContents, Inside
  <2>2. \A x : Parts(View, {ItemFor(x)})' = Parts(View, {ItemFor(x)})
    BY <1>2, <1>3, <1>4
  <2>3. \A x : Image(PathFor(x))' = Image(PathFor(x)) /\ \A t : Ends(PathFor(x), t)' = Ends(PathFor(x), t)
    BY <1>1, <1>3, <1>7 DEF Image, Ends
  <2>4. \A d : NodePath(d)' = NodePath(d) /\ IsFolderNode(d)' = IsFolderNode(d)
    BY <1>3
  <2>5. \A x : PathFor(x)' = PathFor(x) /\ ItemFor(x)' = ItemFor(x) /\ FolderFor(x)' = FolderFor(x)
    BY <1>3
  <2>6. \A x : IsFolderNode(FolderFor(x))' = IsFolderNode(FolderFor(x))
    BY <2>4, <2>5 DEF IsFolderNode
  <2>7. objs' = objs /\ localFiles' = localFiles /\ todo' = todo /\ call' = call /\ pre' = pre
    BY <1>1
  <2> DEFINE R(t, n, x, d, name) ==
        /\ todo = Cons(<<"sendFile", n, {FolderFor(x)}, x>>, Cons(<<"copyTo", n, d, name>>, t))
        /\ n \in DOMAIN localFiles \ DOMAIN objs /\ x \in Object /\ x.file /\ IsFolderNode(FolderFor(x)) /\ ~pre.saved
        /\ ItemFor(x) \in pre.view /\ PathFor(x) \in Seq(PathElem) /\ IsPrefix(call.path, PathFor(x))
        /\ IsFolderNode(d) /\ name \in Names /\ Append(NodePath(d), name) = Image(PathFor(x)) /\ Ends(PathFor(x), t)
        /\ Parts(View, {ItemFor(x)}) /\ Tells(cache, Off \cup {FolderFor(x)})
  <2>8. ASSUME NEW t, NEW n, NEW x, NEW d, NEW name PROVE R(t, n, x, d, name)' = R(t, n, x, d, name)
    <3>1. /\ Tells(cache, Off \cup {FolderFor(x)})' = Tells(cache, Off \cup {FolderFor(x)})
          /\ Parts(View, {ItemFor(x)})' = Parts(View, {ItemFor(x)})
          /\ Image(PathFor(x))' = Image(PathFor(x)) /\ Ends(PathFor(x), t)' = Ends(PathFor(x), t)
          /\ NodePath(d)' = NodePath(d) /\ IsFolderNode(d)' = IsFolderNode(d)
          /\ PathFor(x)' = PathFor(x) /\ ItemFor(x)' = ItemFor(x) /\ FolderFor(x)' = FolderFor(x)
          /\ IsFolderNode(FolderFor(x))' = IsFolderNode(FolderFor(x))
      BY <2>1, <2>2, <2>3, <2>4, <2>5, <2>6
    <3> QED BY <2>7, <3>1
  <2>9. \A t : Replacing(t) = \E n, x, d, name : R(t, n, x, d, name)
    BY DEF Replacing
  <2>10. \A t : Replacing(t)' = \E n, x, d, name : R(t, n, x, d, name)'
    BY DEF Replacing
  <2> QED BY <2>8, <2>9, <2>10
<1>13. Moving' = Moving
  BY <1>1, <1>2, <1>4, <1>7, <1>8, <1>9, <1>10, <1>11, <1>12 DEF Moving, Midway
<1> QED BY <1>1, <1>2, <1>4, <1>5, <1>6, <1>13 DEF RenameInv

LEMMA NextRename ==
  ASSUME Base, ReplyInv, RenameInv, ~AcceptsDuplicates, [Next]_vars
  PROVE  RenameInv'
<1>0. NoTwins(objs)
  BY DEF Base, StoreInv
<1>1. CASE UNCHANGED vars
  BY <1>1, RenameStands
<1>2. CASE call'.op = "none"
  BY <1>2 DEF RenameInv
<1>3. CASE call.op = "none" /\ Kernel
  BY <1>0, <1>3, RenameKernel
<1>4. CASE todo # <<>> /\ Step /\ ~Crash /\ call' = call /\ pre' = pre
  <2>1. SUFFICES ASSUME call.op = "rename", pre.coherent PROVE RenameInv'
    BY <1>4 DEF RenameInv
  <2>2. /\ Apart /\ Past /\ reply.code = "ok" /\ Whole(localFiles) /\ (pre.saved => Settled)
        /\ Looking \/ Moving
    BY <1>4, <2>1 DEF RenameInv
  <2>3. Going
    BY <1>0, <1>4, <2>1, <2>2 DEF Going
  <2> QED BY <2>2, <2>3, LookingStep, MovingStep
<1> QED BY <1>1, <1>2, <1>3, <1>4, CallFrame

-----------------------------------------------------------------------------
(* What the rename has done when it returns.                               *)
LEMMA KeptCounts ==
  ASSUME Base, RenameInv
  PROVE  RenameKeepsContents
<1> SUFFICES ASSUME call.op = "rename", pre.saved, pre.coherent, NEW d
             PROVE  Cardinality({i \in DOMAIN objs : objs[i].file /\ objs[i].data = d})
                      >= Cardinality({v \in pre.view : v.file /\ v.data = d})
  BY DEF RenameKeepsContents
<1> DEFINE A == {v \in pre.view : v.file /\ v.data = d}
           B == {i \in DOMAIN objs : objs[i].file /\ objs[i].data = d}
           Is(v, i) == PathOf(i) = v.path \/ (Fresh /\ Below(v, call.path) /\ PathOf(i) = Image(v.path))
           f == [v \in A |-> CHOOSE i \in B : Is(v, i)]
<1>1. Apart /\ Past /\ Kept
  BY DEF RenameInv
<1>2. ASSUME NEW v \in A PROVE f[v] \in B /\ Is(v, f[v])
  BY <1>1 DEF Kept
<1>3. ASSUME NEW v \in A, NEW w \in A, f[v] = f[w] PROVE v = w
  <2>0. PICK i : i = f[v]
    OBVIOUS
  <2>1. Is(v, i) /\ Is(w, i) /\ v \in pre.view /\ w \in pre.view
    BY <1>2, <1>3, <2>0
  <2> HIDE DEF A, B, f
  <2>2. v.path \in Seq(PathElem) /\ w.path \in Seq(PathElem) /\ (v.path = w.path => v = w)
    BY <1>1, <2>1 DEF Past
  <2>3. ASSUME Fresh, NEW x \in pre.view, NEW y \in pre.view, Below(y, call.path), x.path = Image(y.path) PROVE FALSE
    <3>1. y.path \in Seq(PathElem) /\ IsPrefix(call.path, y.path)
      BY <1>1, <2>3 DEF Past, Below
    <3>2. IsPrefix(call.new, x.path)
      BY <1>1, <2>3, <3>1, ImageParts
    <3> QED BY <2>3, <3>2 DEF Fresh, Below
  <2>4. CASE PathOf(i) = v.path /\ PathOf(i) = w.path
    BY <2>2, <2>4
  <2>5. CASE Fresh /\ Below(v, call.path) /\ Below(w, call.path) /\ Image(v.path) = Image(w.path)
    <3>1. IsPrefix(call.path, v.path) /\ IsPrefix(call.path, w.path)
      BY <2>5 DEF Below
    <3> QED BY <1>1, <2>2, <2>5, <3>1, ImageDiffers
  <2> QED BY <2>1, <2>3, <2>4, <2>5
<1>4. f \in Injection(A, B)
  <2>1. f \in [A -> B]
    BY <1>2
  <2> HIDE DEF A, B, f
  <2> QED BY <1>3, <2>1 DEF Injection, IsInjective
<1>5. IsFiniteSet(A) /\ IsFiniteSet(B)
  <2>1. IsFiniteSet(DOMAIN objs)
    <3>1. DOMAIN objs \subseteq 1 .. MaxId /\ MaxId \in Nat
      BY BaseFacts, DeviceAssumption DEF IsStore, IsMap, ObjIds
    <3>2. IsFiniteSet(1 .. MaxId)
      BY <3>1, FS_Interval
    <3> QED BY <3>1, <3>2, FS_Subset
  <2>2. IsFiniteSet(pre.view)
    BY <1>1 DEF Past
  <2> QED BY <2>1, <2>2, FS_Subset
<1> HIDE DEF A, B, f
<1>6. Cardinality(A) <= Cardinality(B) /\ Cardinality(A) \in Nat /\ Cardinality(B) \in Nat
  BY <1>4, <1>5, FS_Injection, FS_CardinalityType
<1>7. Cardinality(B) >= Cardinality(A)
  BY <1>6
<1> QED BY <1>7 DEF A, B

(* A rename that has nothing left to do has moved everything.              *)
LEMMA MoveDone ==
  ASSUME Base, RenameInv, Succeeded, call.op = "rename", pre.coherent
  PROVE  /\ Apart /\ Past /\ Len(call.path) > 1 /\ Fresh /\ Gone /\ Parts(View, {}) /\ Tells(cache, Off)
         /\ Whole(localFiles)
<1>1. todo = <<>> /\ reply.code = "ok"
  BY DEF Succeeded, Done
<1>2. Apart /\ Past /\ Whole(localFiles) /\ (Looking \/ Moving)
  BY <1>1 DEF RenameInv
<1>3. ~Looking
  BY <1>1 DEF Looking
<1>4. PICK t \in Seq(GoodSteps) : Len(call.path) > 1 /\ ((Parts(View, {}) /\ Tells(cache, Off) /\ Midway(t)) \/ Replacing(t))
  BY <1>2, <1>3 DEF Moving
<1>5. \A a, u : Cons(a, u) # <<>>
  BY DEF Cons
<1>6. ~Replacing(t)
  BY <1>1, <1>5 DEF Replacing
<1>7. ~Arriving(t) /\ ~Dropping(t) /\ ~Entering(t)
  BY <1>1, <1>5 DEF Arriving, Dropping, Entering
<1>8. ~Flushing(t) /\ ~Making(t)
  BY <1>1, <1>5 DEF Flushing, Making
<1>9. Ready(t)
  BY <1>4, <1>6, <1>7, <1>8 DEF Midway
<1>10. Fresh /\ (Leaves(<<>>) \/ Gone)
  BY <1>1, <1>9 DEF Ready
<1>11. ~Leaves(<<>>)
  BY DEF Leaves, Range
<1> QED BY <1>2, <1>4, <1>6, <1>10, <1>11

LEMMA MoveEffect ==
  ASSUME Base, RenameInv, Succeeded, call.op = "rename", pre.coherent
  PROVE  View = Effect(pre.view, call)
<1>1. Apart /\ Past /\ Len(call.path) > 1 /\ Fresh /\ Gone /\ Parts(View, {})
  BY MoveDone
<1>2. ASSUME NEW w \in View PROVE ~Below(w, call.path)
  <2> SUFFICES ASSUME Below(w, call.path) PROVE FALSE
    OBVIOUS
  <2>1. PICK i \in DOMAIN objs : w = Item(i)
    BY ViewItems
  <2>2. Src(i)
    BY <2>1 DEF Item, Below, Src
  <2>3. \E m \in DOMAIN objs : PathOf(m) = call.path
    BY <1>1, <2>2, AtSource
  <2> QED BY <1>1, <2>3 DEF Gone
<1>3. Effect(pre.view, call) = {v \in pre.view : ~Below(v, call.path) /\ ~Below(v, call.new)}
                                 \cup {Moved(v) : v \in {x \in pre.view : Below(x, call.path)}}
  <2>1. \A v : Moved(v) = [v EXCEPT !.path = call.new \o SubSeq(@, Len(call.path) + 1, Len(@))]
    BY DEF Moved, Image
  <2> QED BY <2>1 DEF Effect
<1>4. \A v \in pre.view : ~Below(v, call.new)
  BY <1>1 DEF Fresh
<1> QED BY <1>1, <1>2, <1>3, <1>4 DEF Parts

LEMMA RenameContained ==
  ASSUME RenameInv, call.op = "rename"
  PROVE  Contained
BY DEF RenameInv, Contained, Elsewhere, Failed

Renamed == Called /\ RenameInv

LEMMA ContainedAlways == ASSUME Renamed PROVE Contained
<1>1. CASE call.op = "rename"
  BY <1>1, RenameContained DEF Renamed
<1>2. CASE call.op = "unmount" \/ Orphaned
  BY <1>2 DEF Contained
<1>3. CASE call.op \notin {"rename", "unmount"} /\ ~Orphaned
  BY <1>3, ContainedDone DEF Renamed
<1> QED BY <1>1, <1>2, <1>3

LEMMA AlwaysRenamed == ASSUME ~AcceptsDuplicates PROVE Spec => []Renamed
<1>1. Init => Renamed
  <2>1. Init => call.op = "none"
    BY DEF Init, NoCall
  <2> QED BY <2>1, InitCalled DEF Renamed, RenameInv
<1>2. Renamed /\ [Next]_vars => Renamed'
  BY NextCalled, NextRename DEF Renamed, Called
<1> QED BY <1>1, <1>2, PTL DEF Spec

(* At every step of a rename that began with nothing waiting and a right   *)
(* cache the device holds each of the contents at least as often as before *)
(* it, whatever fails and wherever the process stops.                      *)
THEOREM RenamesKeepContents == ASSUME ~AcceptsDuplicates PROVE Spec => []RenameKeepsContents
<1>1. Renamed => RenameKeepsContents
  BY KeptCounts DEF Renamed, Called
<1> QED BY <1>1, AlwaysRenamed, PTL

(* A call that succeeds while the cache agrees with the device changes the *)
(* tree of files as POSIX says and in nothing else: a rename moves a tree  *)
(* of any depth, complete, to where nothing was.                           *)
THEOREM EffectsAreExact == ASSUME ~AcceptsDuplicates PROVE Spec => []ExactEffect
<1>1. Renamed => ExactEffect
  BY MoveEffect, EffectDone DEF Renamed, Called, ExactEffect
<1> QED BY <1>1, AlwaysRenamed, PTL

(* A call that fails, wherever the device failed in it, leaves all files   *)
(* elsewhere as they were: a rename those outside its two paths.           *)
THEOREM FailuresAreContained == ASSUME ~AcceptsDuplicates PROVE Spec => []Contained
<1>1. Renamed => Contained
  BY ContainedAlways
<1> QED BY <1>1, AlwaysRenamed, PTL

-----------------------------------------------------------------------------
(* Contents that wait in a local copy while files move.                    *)

(* A failure of the device ends the rename with an error.                  *)
LEMMA FaultsShow ==
  ASSUME Base, Step, ~Crash, faults' # faults
  PROVE  faults > 0 /\ faults' = faults - 1 /\ reply'.code = "EIO"
<1>1. \A c, files : Throw("EIO", c, files) => reply'.code = "EIO"
  BY DEF Throw
<1>2. CASE \/ GetNode \/ GetAttr \/ Open \/ Read \/ Write \/ Truncate \/ Fsync \/ CloseFile \/ Unmount
           \/ RenameFile \/ MoveContents \/ MoveRest \/ ClearItems \/ Refuse
  BY <1>2 DEF GetNode, GetAttr, Open, Read, Write, Truncate, Fsync, CloseFile, Unmount, RenameFile,
     MoveContents, MoveRest, ClearItems, Refuse, NoDeviceChange
<1>3. CASE DeleteOld \/ SendFile
  BY <1>1, <1>3 DEF DeleteOld, SendFile, DeviceCall
<1>4. CASE Mkdir \/ CreateFile \/ RemoveNode
  BY <1>1, <1>4 DEF Mkdir, CreateFile, RemoveNode, DeviceCall, NoDeviceChange
<1>5. CASE CopyTo \/ DropOriginal
  BY <1>1, <1>5 DEF CopyTo, DropOriginal, DeviceCall
<1>6. CASE RenameFolder
  BY <1>1, <1>6 DEF RenameFolder, DeviceCall, NoDeviceChange
<1>7. CASE ReadFails
  BY <1>1, <1>7 DEF ReadFails, NoDeviceChange
<1> QED BY <1>2, <1>3, <1>4, <1>5, <1>6, <1>7 DEF Step

(* What the head of the list says of where the rename is.                  *)
LEMMA RenameHeads ==
  ASSUME Going, Looking \/ Moving
  PROVE  /\ ~At("write") /\ ~At("truncate")
         /\ At("dropOriginal") => \E t : Dropping(t) /\ t \in Seq(GoodSteps)
         /\ At("remove") => /\ Tells(cache, Off)
                            /\ \E n, d : Copied(n, d) /\ Arg(2) = n /\ Arg(3) = FALSE
         /\ At("rename") => \/ Arg(2).id \in Storages
                            \/ /\ Tells(cache, Off) /\ Len(call.path) > 1
                               /\ \E t : Arriving(t) /\ t \in Seq(GoodSteps)
<1>0. todo # <<>>
  BY GoingFacts
<1>1. CASE Looking
  <2>1. CASE \E dir, rest, k : todo = << <<"getNode", dir, rest, k>> >>
    <3>1. PICK s, dir, rest, k : s = <<"getNode", dir, rest, k>> /\ todo = <<s>>
      BY <2>1
    <3>2. \A a : At(a) <=> a = "getNode"
      BY <3>1, OneHead
    <3> QED BY <3>2
  <2>2. CASE \E node, d, name : node.id \in Storages /\ todo = << <<"rename", node, d, name>> >>
    <3>1. PICK s, node, d, name : node.id \in Storages /\ s = <<"rename", node, d, name>> /\ todo = <<s>>
      BY <2>2
    <3>2. (\A a : At(a) <=> a = "rename") /\ Arg(2) = node
      BY <3>1, OneHead
    <3> QED BY <3>1, <3>2
  <2> QED BY <1>1, <2>1, <2>2 DEF Looking
<1>2. CASE Moving
  <2>1. PICK t \in Seq(GoodSteps) : /\ Len(call.path) > 1
                                    /\ (Parts(View, {}) /\ Tells(cache, Off) /\ Midway(t)) \/ Replacing(t)
    BY <1>2 DEF Moving
  <2>2. ASSUME NEW s, NEW u, NEW U, u \in Seq(U), todo = Cons(s, u)
        PROVE  (\A a : At(a) <=> a = s[1]) /\ \A k : Arg(k) = s[k]
    BY <2>2, StepIs
  <2>3. \A a : Cons(a, t) \in Seq(GoodSteps \cup {a})
    BY <2>1, ConsOne
  <2>4. CASE Replacing(t)
    <3>1. PICK n, x, s, b : s = <<"sendFile", n, {FolderFor(x)}, x>> /\ todo = Cons(s, Cons(b, t))
      BY <2>4 DEF Replacing
    <3>2. \A a : At(a) <=> a = "sendFile"
      <4>1. PICK u : u = Cons(b, t)
        OBVIOUS
      <4>2. u \in Seq(GoodSteps \cup {b}) /\ todo = Cons(s, u)
        BY <2>3, <3>1, <4>1
      <4>3. s[1] = "sendFile"
        BY <3>1
      <4> QED BY <2>2, <4>2, <4>3
    <3> QED BY <3>2
  <2>5. CASE Ready(t) /\ Tells(cache, Off)
    <3>1. todo = t /\ t # <<>>
      BY <1>0, <2>5 DEF Ready
    <3>2. Head(t) \in GoodSteps
      BY <2>1, <3>1, ConsAgain
    <3>3. PICK s : s = Head(t) /\ Good(s)
      BY <3>2 DEF GoodSteps
    <3>4. (\A a : At(a) <=> a = s[1]) /\ \A k : Arg(k) = s[k]
      BY <3>1, <3>3 DEF At, Arg
    <3>5. CASE \E n, d : s = <<"remove", n, FALSE>> /\ Copied(n, d)
      <4>1. PICK n, d : s = <<"remove", n, FALSE>> /\ Copied(n, d)
        BY <3>5
      <4>2. s[1] = "remove" /\ s[2] = n /\ s[3] = FALSE
        BY <4>1
      <4>3. Tells(cache, Off)
        BY <2>5
      <4> QED BY <3>4, <4>1, <4>2, <4>3
    <3>6. CASE s[1] \in {"clearItems", "moveContents", "moveRest", "getNode"}
      BY <3>4, <3>6
    <3>7. (\E n, d : s = <<"remove", n, FALSE>> /\ Copied(n, d)) \/ s[1] \in {"clearItems", "moveContents", "moveRest", "getNode"}
      <4>1. \A K : s = <<"clearItems", K>> => s[1] = "clearItems"
        OBVIOUS
      <4>2. \A n, d : s = <<"moveContents", n, d>> => s[1] = "moveContents"
        OBVIOUS
      <4>3. \A n, d, S : s = <<"moveRest", n, d, S>> => s[1] = "moveRest"
        OBVIOUS
      <4>4. \A n, d, name : s = <<"getNode", n, <<name>>, <<"child", d, name>> >> => s[1] = "getNode"
        OBVIOUS
      <4> QED BY <3>3, <4>1, <4>2, <4>3, <4>4 DEF Good
    <3> QED BY <3>5, <3>6, <3>7
  <2>6. CASE Arriving(t) /\ Tells(cache, Off)
    <3>1. PICK node, s, d, name : s = <<"rename", node, d, name>> /\ todo = Cons(s, t)
      BY <2>6 DEF Arriving
    <3>2. \A a : At(a) <=> a = "rename"
      BY <2>2, <3>1
    <3> QED BY <2>1, <2>6, <3>2
  <2>7. CASE Flushing(t)
    <3>1. \E s, u, U : s[1] \in {"fsync", "closeFile", "copyTo"} /\ u \in Seq(U) /\ todo = Cons(s, u)
      <4>1. PICK n, d, name, K :
               \/ todo = Cons(<<"fsync", n>>, Cons(<<"copyTo", n, d, name>>, t))
               \/ todo = Cons(<<"closeFile", n, K>>, Cons(<<"copyTo", n, d, name>>, t))
               \/ todo = Cons(<<"copyTo", n, d, name>>, t)
        BY <2>7 DEF Flushing
      <4>2. PICK a1, a2, a3 : a1 = <<"fsync", n>> /\ a2 = <<"closeFile", n, K>> /\ a3 = <<"copyTo", n, d, name>>
        OBVIOUS
      <4>3. a1[1] = "fsync" /\ a2[1] = "closeFile" /\ a3[1] = "copyTo"
        BY <4>2
      <4>4. Cons(a3, t) \in Seq(GoodSteps \cup {a3})
        BY <2>3
      <4>5. todo = Cons(a1, Cons(a3, t)) \/ todo = Cons(a2, Cons(a3, t)) \/ todo = Cons(a3, t)
        BY <4>1, <4>2
      <4> QED BY <2>1, <4>3, <4>4, <4>5
    <3>2. PICK s, u, U : s[1] \in {"fsync", "closeFile", "copyTo"} /\ u \in Seq(U) /\ todo = Cons(s, u)
      BY <3>1
    <3>3. \A a : At(a) <=> a = s[1]
      BY <2>2, <3>2
    <3> QED BY <3>2, <3>3
  <2>8. CASE Dropping(t)
    <3>1. PICK n, s : s = <<"dropOriginal", n, ParentNode(n)>> /\ todo = Cons(s, t)
      BY <2>8 DEF Dropping
    <3>2. \A a : At(a) <=> a = "dropOriginal"
      BY <2>2, <3>1
    <3> QED BY <2>8, <3>2
  <2>9. CASE Making(t)
    <3>1. PICK s, a2, a3, a4 : s[1] = "mkdir" /\ todo = Cons(s, Cons(a2, Cons(a3, Cons(a4, t))))
      <4>1. PICK n, d, name, K : todo = Cons(<<"mkdir", d, name>>, Cons(<<"getNode", d, <<name>>, <<"destDir", n>> >>,
                 Cons(<<"remove", n, FALSE>>, Cons(<<"clearItems", K>>, t))))
        BY <2>9 DEF Making
      <4>2. <<"mkdir", d, name>>[1] = "mkdir"
        OBVIOUS
      <4> QED BY <4>1, <4>2
    <3>2. PICK t4, t3, t2 : t4 = Cons(a4, t) /\ t3 = Cons(a3, t4) /\ t2 = Cons(a2, t3)
      OBVIOUS
    <3>3. t4 \in Seq(GoodSteps \cup {a4})
      BY <2>3, <3>2
    <3>4. t3 \in Seq(GoodSteps \cup {a4} \cup {a3})
      BY <3>2, <3>3, ConsOne
    <3>5. t2 \in Seq(GoodSteps \cup {a4} \cup {a3} \cup {a2})
      BY <3>2, <3>4, ConsOne
    <3>6. \A a : At(a) <=> a = s[1]
      BY <2>2, <3>1, <3>2, <3>5
    <3> QED BY <3>1, <3>6
  <2>10. CASE Entering(t)
    <3>1. PICK s : s[1] = "getNode" /\ todo = Cons(s, t)
      <4>1. PICK n, d, name : todo = Cons(<<"getNode", d, <<name>>, <<"destDir", n>> >>, t)
        BY <2>10 DEF Entering
      <4>2. <<"getNode", d, <<name>>, <<"destDir", n>> >>[1] = "getNode"
        OBVIOUS
      <4> QED BY <4>1, <4>2
    <3>2. \A a : At(a) <=> a = s[1]
      BY <2>2, <3>1
    <3> QED BY <3>1, <3>2
  <2> QED BY <2>1, <2>4, <2>5, <2>6, <2>7, <2>8, <2>9, <2>10 DEF Midway
<1> QED BY <1>1, <1>2

(* A file that waits and has gone the way its handle goes when the rename  *)
(* returns.                                                                *)
Shifted(i) == /\ i \in DOMAIN objs
              /\ \E h \in Handles : /\ handles[h] # <<>> /\ IsPrefix(call.path, handles[h])
                                    /\ PathOf(i) = Image(handles[h])

(* A folder is renamed in place: what it holds goes the way of the handles. *)
LEMMA ShiftedInPlace ==
  ASSUME Going, ~AcceptsDuplicates, Looking \/ Moving, faults' = faults, RenameFolder, NEW i, Held(i), Waits(i)
  PROVE  Held(i)' \/ (todo' = <<>> /\ reply'.code = "ok" /\ Shifted(i)')
<1>0. /\ Base /\ NoTwins(objs) /\ Apart /\ call' = call /\ IsStore(objs) /\ handles' = handles /\ faults \in Nat
      /\ reply.code = "ok"
  BY GoingFacts, StepFrame, BaseFacts DEF Others, Going, TypeOK
<1>1. At("rename") /\ Arg(2).id \notin Storages
  BY DEF RenameFolder
<1>2. Tells(cache, Off) /\ Len(call.path) > 1 /\ \E t : Arriving(t) /\ t \in Seq(GoodSteps)
  BY <1>1, RenameHeads
<1>3. PICK t \in Seq(GoodSteps) : Arriving(t)
  BY <1>2
<1>4. PICK node, d, name : /\ todo = Cons(<<"rename", node, d, name>>, t)
                           /\ Goes(node.id, d, name) /\ Ends(PathOf(node.id), t)
  BY <1>3 DEF Arriving
<1>5. PICK s, n : s = <<"rename", node, d, name>> /\ n = node.id
  OBVIOUS
<1>6. Tail(todo) = t /\ Arg(2) = node /\ Arg(3) = d /\ Arg(4) = name
  <2>1. todo = Cons(s, t)
    BY <1>4, <1>5
  <2>2. Tail(todo) = t /\ \A j : Arg(j) = s[j]
    BY <2>1, StepIs
  <2>3. s[2] = node /\ s[3] = d /\ s[4] = name
    BY <1>5
  <2> QED BY <2>2, <2>3
<1>7. CASE objs' = objs
  BY <1>0, <1>7 DEF Held, PathOf
<1>8. SUFFICES ASSUME NEW r \in getItem(n), NEW c, FolderId(d) = r.md.parent, Head(call.new) = Head(call.path),
                      Renames(n, name), Goto(<<>>, c, localFiles)
               PROVE  Held(i)' \/ (todo' = <<>> /\ reply'.code = "ok" /\ Shifted(i)')
  <2>1. PICK r \in getItem(n) :
         LET inPlace == FolderId(d) = r.md.parent /\ Head(call.new) = Head(call.path)
             stale   == {d, GetParentNodeId(r.md)}
         IN  \/ /\ inPlace
                /\ DeviceCall(MaySetName(n, name), WithName(n, name), nextId,
                     Goto(<<>>, Drop(r.cache, stale), localFiles),
                     Throw("EIO", r.cache, localFiles))
             \/ /\ ~inPlace /\ NoDeviceChange
                /\ Goto(<< <<"mkdir", d, name>>,
                           <<"getNode", d, <<name>>, <<"destDir", n>> >>,
                           <<"remove", n, FALSE>>,
                           <<"clearItems", stale>> >>, r.cache, localFiles)
    BY <1>5, <1>6 DEF RenameFolder
  <2>2. CASE NoDeviceChange
    BY <1>7, <2>2 DEF NoDeviceChange, device
  <2>3. CASE DeviceCall(MaySetName(n, name), WithName(n, name), nextId,
                     Goto(<<>>, Drop(r.cache, {d, GetParentNodeId(r.md)}), localFiles),
                     Throw("EIO", r.cache, localFiles)) /\ FolderId(d) = r.md.parent /\ Head(call.new) = Head(call.path)
    <3>1. faults' # faults - 1
      BY <1>0
    <3>2. objs' = objs \/ (/\ MaySetName(n, name) /\ objs' = WithName(n, name) /\ nextId' = nextId
                           /\ Goto(<<>>, Drop(r.cache, {d, GetParentNodeId(r.md)}), localFiles))
      BY <2>3, <3>1 DEF DeviceCall, device
    <3>3. name \in Names
      BY <1>4 DEF Goes
    <3> QED BY <1>7, <1>8, <2>3, <3>2, <3>3 DEF Renames
  <2> QED BY <2>1, <2>2, <2>3
<1>9. Goes(n, d, name) /\ Ends(PathOf(n), t) /\ n \in DOMAIN objs /\ Live(n) /\ n \notin Off
  BY <1>0, <1>4, <1>5, GoesThere
<1>10. r.md = getMetadata(n)
  <2>1. PICK M : M = Off
    OBVIOUS
  <2> QED BY <1>2, <1>9, <2>1, ItemTells
<1>11. ParentNode(n) = d /\ PathOf(n) = call.path /\ t = <<>> /\ Append(NodePath(d), name) = call.new
  BY <1>2, <1>8, <1>9, <1>10, InPlace
<1>12. DOMAIN objs' = DOMAIN objs
       /\ \A j \in DOMAIN objs : PathOf(j)' = IF IsPrefix(call.path, PathOf(j)) THEN Image(PathOf(j)) ELSE PathOf(j)
  BY <1>0, <1>8, <1>9, <1>11, RenamedPaths
<1>13. PICK h \in Handles : i \in DOMAIN objs /\ handles[h] = PathOf(i)
  BY DEF Held
<1>14. todo' = <<>> /\ reply'.code = "ok"
  <2>1. <<>> \o <<>> = <<>>
    BY ShortConcat
  <2> QED BY <1>0, <1>6, <1>8, <1>11, <2>1 DEF Goto
<1>15. CASE ~IsPrefix(call.path, PathOf(i))
  BY <1>0, <1>12, <1>13, <1>15 DEF Held
<1>16. CASE IsPrefix(call.path, PathOf(i))
  <2>1. handles[h] # <<>>
    <3>1. Len(PathOf(i)) > 1
      BY <1>0, <1>13, PathLen DEF PathOf
    <3> QED BY <1>13, <3>1
  <2>2. PathOf(i)' = Image(handles[h])
    BY <1>12, <1>13, <1>16
  <2>3. Image(handles[h])' = Image(handles[h])
    BY <1>0 DEF Image
  <2>4. i \in DOMAIN objs' /\ handles'[h] # <<>> /\ IsPrefix(call'.path, handles'[h]) /\ PathOf(i)' = Image(handles[h])'
    BY <1>0, <1>12, <1>13, <1>16, <2>1, <2>2, <2>3
  <2>5. Shifted(i)'
    BY <2>4 DEF Shifted
  <2> QED BY <1>14, <2>5
<1> QED BY <1>15, <1>16

(* A rename does not remove a file that waits.                             *)
LEMMA NotRemoved ==
  ASSUME Going, Looking \/ Moving, (DeleteOld \/ RemoveNode \/ DropOriginal) /\ Removes(Arg(2)),
         NEW i, i \in Subtree(objs, Arg(2)), Waits(i), Waits(i)', i \in DOMAIN objs
  PROVE  FALSE
<1>0. Base /\ NoTwins(objs) /\ Apart /\ IsStore(objs) /\ TypeOK
  BY GoingFacts
<1>1. PICK n : n = Arg(2)
  OBVIOUS
<1>2. n \in DOMAIN objs /\ (objs[n].file => i = n) /\ Removes(n)
  <2>1. n \in DOMAIN objs /\ Removes(n)
    BY <1>1 DEF Removes
  <2> QED BY <1>0, <1>1, <2>1, NothingInAFile
<1>3. CASE DeleteOld
  <2>1. n \in DOMAIN localFiles
    BY <1>1, <1>3 DEF DeleteOld
  <2>2. objs[n].file = TRUE /\ localFiles[n] \in Copy
    BY <1>0, <1>2, <2>1, CopiedIsFile
  <2>3. localFiles' = [localFiles EXCEPT ![n].dirty = FALSE] \/ localFiles' = Broken(n)
    BY <1>1, <1>3 DEF DeleteOld, DeviceCall, Goto, Throw
  <2>4. ~Waits(n)'
    BY <2>1, <2>2, <2>3 DEF Waits, Broken, Copy
  <2> QED BY <1>2, <2>2, <2>4
<1>4. CASE DropOriginal
  <2>1. PICK t : Dropping(t) /\ t \in Seq(GoodSteps)
    BY <1>4, RenameHeads DEF DropOriginal
  <2>2. PICK m, s : s = <<"dropOriginal", m, ParentNode(m)>> /\ todo = Cons(s, t) /\ Clean(m) /\ objs[m].file
    BY <2>1 DEF Dropping
  <2>3. Arg(2) = s[2] /\ s[2] = m
    BY <2>1, <2>2, StepIs
  <2> QED BY <1>1, <1>2, <2>2, <2>3 DEF Clean, Waits
<1>5. CASE RemoveNode
  <2>1. PICK m, d : Tells(cache, Off) /\ Copied(m, d) /\ Arg(2) = m /\ Arg(3) = FALSE
    BY <1>5, RenameHeads DEF RemoveNode
  <2>2. m = n /\ Copied(n, d)
    BY <1>1, <2>1
  <2>3. PICK r \in getItem(n) : r.md.children = {}
    <3>1. PICK r \in getItem(n) : NoDeviceChange \/ r.md.children = {}
      BY <1>1, <1>5, <2>1 DEF RemoveNode
    <3>2. ~NoDeviceChange
      <4>1. n \notin DOMAIN objs'
        BY <1>0, <1>2, BelowStep DEF Removes, WithoutObject, Drop
      <4> QED BY <1>2, <4>1 DEF NoDeviceChange, device
    <3> QED BY <3>1, <3>2
  <2>4. ~objs[n].file /\ r.md = getMetadata(n)
    BY <1>0, <2>1, <2>2, CopiedAlive
  <2>5. Subtree(objs, n) = {n}
    BY <1>0, <1>2, <2>3, <2>4, FolderEmpty
  <2>6. n \in DOMAIN objs \cap DOMAIN localFiles
    BY <1>1, <1>2, <2>5 DEF Waits
  <2> QED BY <1>0, <2>4, <2>6, CopiedIsFile
<1> QED BY <1>3, <1>4, <1>5

(* Contents that wait stay with a file that is open, or with one that has  *)
(* gone where the rename takes its handle.                                 *)
LEMMA CarriedStep ==
  ASSUME Going, ~AcceptsDuplicates, Looking \/ Moving, faults' = faults, NEW i, Waits(i)', Waits(i) => Held(i)
  PROVE  Held(i)' \/ (todo' = <<>> /\ reply'.code = "ok" /\ Shifted(i)')
<1>0. Base /\ Step /\ ~Crash
  BY DEF Going
<1>1. Waits(i) /\ Held(i) /\ i \in DOMAIN objs
  <2>1. ~Write /\ ~Truncate
    BY RenameHeads DEF Write, Truncate
  <2>2. Waits(i)
    BY <1>0, <2>1, WaitsBefore
  <2> QED BY <2>2 DEF Held
<1>2. CASE RenameFolder
  BY <1>1, <1>2, ShiftedInPlace
<1>3. CASE ~RenameFolder
  BY <1>0, <1>1, <1>3, HeldOn, NotRemoved
<1> QED BY <1>2, <1>3

(* Within a rename the device has not refused to work for, contents that   *)
(* wait belong to a file that is open, or to one that was renamed in place *)
(* and whose handle the kernel is about to rename.                         *)
CarriedInv ==
  call.op = "rename" /\ pre.coherent /\ pre.owned =>
    \/ reply.code # "ok" /\ faults < pre.faults
    \/ \A i : Waits(i) => Held(i) \/ (todo = <<>> /\ reply.code = "ok" /\ Shifted(i))

LEMMA NextCarried ==
  ASSUME Renamed, CarriedInv, ~AcceptsDuplicates, [Next]_vars
  PROVE  CarriedInv'
<1>0. Base /\ ReplyInv /\ FaultsInv /\ RenameInv /\ NoTwins(objs)
  BY DEF Renamed, Called, Base, StoreInv
<1>1. CASE UNCHANGED vars
  <2>1. \A i : Waits(i)' = Waits(i) /\ Held(i)' = Held(i) /\ PathOf(i)' = PathOf(i)
    BY <1>1, HeldSame DEF vars, device, process
  <2>2. /\ objs' = objs /\ todo' = todo /\ reply' = reply /\ call' = call /\ pre' = pre /\ handles' = handles
        /\ faults' = faults
    BY <1>1 DEF vars, device, process
  <2>3. \A i : Shifted(i)' = Shifted(i)
    BY <2>1, <2>2 DEF Shifted, Image
  <2> QED BY <2>1, <2>2, <2>3 DEF CarriedInv
<1>2. CASE call'.op = "none"
  BY <1>2 DEF CarriedInv
<1>3. CASE call.op = "none" /\ Kernel
  <2>1. SUFFICES ASSUME pre'.owned PROVE CarriedInv'
    BY DEF CarriedInv
  <2>2. \A i : Waits(i)' = Waits(i) /\ Held(i)' = Held(i)
    BY <1>3, OwnedBegun, HeldSame
  <2>3. Owned
    BY <1>3, <2>1, OwnedBegun
  <2>4. \A i : Waits(i)' => Held(i)'
    BY <2>2, <2>3, OwnedIs
  <2> QED BY <2>4 DEF CarriedInv
<1>4. CASE todo # <<>> /\ Step /\ ~Crash /\ call' = call /\ pre' = pre
  <2>1. SUFFICES ASSUME call.op = "rename", pre.coherent, pre.owned PROVE CarriedInv'
    BY <1>4 DEF CarriedInv
  <2>2. /\ Apart /\ Past /\ reply.code = "ok" /\ Whole(localFiles) /\ (pre.saved => Settled)
        /\ Looking \/ Moving
    BY <1>0, <1>4, <2>1 DEF RenameInv, ReplyInv
  <2>3. Going
    BY <1>0, <1>4, <2>1, <2>2 DEF Going
  <2>4. \A i : Waits(i) => Held(i)
    BY <1>4, <2>1, <2>2 DEF CarriedInv
  <2>5. CASE faults' = faults
    <3>1. \A i : Waits(i)' => Held(i)' \/ (todo' = <<>> /\ reply'.code = "ok" /\ Shifted(i)')
      BY <2>2, <2>3, <2>4, <2>5, CarriedStep
    <3> QED BY <3>1 DEF CarriedInv
  <2>6. CASE faults' # faults
    <3>1. faults > 0 /\ faults' = faults - 1 /\ reply'.code = "EIO"
      BY <1>0, <1>4, <2>6, FaultsShow
    <3>2. faults \in Nat /\ pre.faults \in Nat /\ faults <= pre.faults
      BY <1>0, <2>1 DEF FaultsInv
    <3>3. faults' < pre.faults
      BY <3>1, <3>2
    <3>4. pre'.faults = pre.faults
      BY <1>4
    <3> QED BY <3>1, <3>3, <3>4 DEF CarriedInv
  <2> QED BY <2>5, <2>6
<1> QED BY <1>0, <1>1, <1>2, <1>3, <1>4, CallFrame

(* When a rename returns, the handles of the files below the old path are  *)
(* renamed with them, and no other.                                        *)
LEMMA OwnedMoved ==
  ASSUME Renamed, CarriedInv, Return, call.op = "rename", pre.coherent, pre.owned, NoFaultNow
  PROVE  Owned'
<1>0. /\ objs' = objs /\ localFiles' = localFiles /\ Done /\ todo = <<>> /\ Base /\ RenameInv
      /\ TypeOK /\ IsStore(objs)
  BY BaseFacts DEF Return, Done, device, Renamed, Called
<1>1. \A i : Waits(i) => Held(i) \/ (reply.code = "ok" /\ Shifted(i))
  <2>1. ~(faults < pre.faults)
    BY DEF NoFaultNow, Renamed, Called, FaultsInv
  <2> QED BY <1>0, <2>1 DEF CarriedInv
<1>2. SUFFICES ASSUME NEW i, Waits(i) PROVE i \in DOMAIN objs /\ \E h \in Handles : handles'[h] = PathOf(i)
  BY <1>0, OwnedIs DEF Owned, Waits, PathOf
<1>3. CASE Held(i)
  <2>1. PICK h \in Handles : i \in DOMAIN objs /\ handles[h] = PathOf(i)
    BY <1>3 DEF Held
  <2>2. reply.code = "ok" => ~IsPrefix(call.path, PathOf(i))
    <3> SUFFICES ASSUME reply.code = "ok", IsPrefix(call.path, PathOf(i)) PROVE FALSE
      OBVIOUS
    <3>1. Apart /\ Len(call.path) > 1 /\ Gone
      BY <1>0, MoveDone DEF Succeeded
    <3>2. \E m \in DOMAIN objs : PathOf(m) = call.path
      BY <1>0, <2>1, <3>1, AtSource DEF Src
    <3> QED BY <3>1, <3>2 DEF Gone
  <2>3. handles'[h] = handles[h]
    BY <2>1, <2>2 DEF Return
  <2> QED BY <2>1, <2>3
<1>4. CASE reply.code = "ok" /\ Shifted(i)
  <2>1. PICK h \in Handles : /\ i \in DOMAIN objs
                             /\ handles[h] # <<>> /\ IsPrefix(call.path, handles[h])
                             /\ PathOf(i) = Image(handles[h])
    BY <1>4 DEF Shifted
  <2>2. handles'[h] = Image(handles[h])
    BY <1>4, <2>1 DEF Return, Image
  <2> QED BY <2>1, <2>2
<1> QED BY <1>1, <1>2, <1>3, <1>4

Carried == Renamed /\ HeldInv /\ CarriedInv

LEMMA AlwaysCarried == ASSUME ~AcceptsDuplicates PROVE Spec => []Carried
<1>1. Init => Carried
  <2>1. Init => call.op = "none"
    BY DEF Init, NoCall
  <2> QED BY <2>1, InitCalled DEF Carried, Renamed, RenameInv, HeldInv, CarriedInv
<1>2. Carried /\ [Next]_vars => Carried'
  BY NextCalled, NextRename, NextHeld, NextCarried DEF Carried, Renamed, Called
<1> QED BY <1>1, <1>2, PTL DEF Spec

(* No call that begins with a right cache and is answered by the device    *)
(* leaves contents waiting in a local copy of a file that is not open, if  *)
(* there were none before: a rename of a tree takes the handles along.     *)
THEOREM WritesAreNotStranded == ASSUME ~AcceptsDuplicates PROVE Spec => NoStrandedWrite
<1>1. Carried /\ [Next]_vars => [Return /\ pre.coherent /\ pre.owned /\ NoFaultNow /\ ~Orphaned => Owned']_vars
  <2> SUFFICES ASSUME Carried, Return, pre.coherent, pre.owned, NoFaultNow, ~Orphaned PROVE Owned'
    OBVIOUS
  <2> QED BY OwnedAgain, OwnedMoved DEF Carried, Renamed
<1> QED BY <1>1, AlwaysCarried, PTL DEF Spec, NoStrandedWrite

=============================================================================
